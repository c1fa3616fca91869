SPECIFICATION Spec
CONSTANTS
  Nothing = Nothing
  Bridges = {b1, b2}
  Validators = {v1}
  WorkType = "command"
  Results <- SomeResults
  MaxRounds = 2
  MaxInvocations = 2
  MaxQueries = 1
  Runs = {r579, r580}
  NumSources = 2
  Runners = {p1}
  MaxBlocks = 1
INVARIANTS
  TypeOK
  CliUnderControl
  ValidMeansCleanExit
  RowsAreComplete
  PatchesAreWhole
PROPERTIES
  EveryRunEnds
  RowsEarned
  NoChangeUnderService
  SuccessMeansRestored
CHECK_DEADLOCK FALSE
