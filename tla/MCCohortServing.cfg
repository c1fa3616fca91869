SPECIFICATION FairSpec
CONSTANTS
  Slots = {s1, s2}
  Width = 3
  Wrong = Wrong
  ScheduleModes = {"off", "serial", "overlap"}
  BlockSize = 4
  Reserve = 17
  RemainingSet = {2, 9}
  PositionSet = {5}
  CopyTimely = TRUE
INVARIANTS
  TargetInputsCurrent
  DraftSeesOneTargetPass
  ProgressLagsOneCycle
  WithinReservation
  NeverFails
PROPERTIES
  CohortCompletes
  ImplementsContract
CHECK_DEADLOCK FALSE
