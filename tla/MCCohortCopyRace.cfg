SPECIFICATION Spec
CONSTANTS
  Slots = {s1}
  Wrong = Wrong
  Width = 2
  ScheduleModes = {"off"}
  BlockSize = 3
  Reserve = 13
  RemainingSet = {4}
  PositionSet = {3}
  CopyTimely = FALSE
CHECK_DEADLOCK FALSE
INVARIANT ProgressLagsOneCycle
