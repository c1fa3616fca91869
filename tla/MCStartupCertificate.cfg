SPECIFICATION CertifiedSpec
CONSTANTS
  Requests = {r1, r2}
  GroupCount = 2
  BlockSize <- TwoBlockSizes
  Columns <- TwoWidths
  Width = 2
  Horizon = 2
  MaxComputed = 5
  ParkRewind = 2
  Positions = {1, 4}
  Budgets = {3, 5}
  Tables <- FewTables
  Layouts <- FewLayouts
  MaxCycle = 3
  MaxChanges = 1
INVARIANT UsedThroughout
PROPERTY KeepsGuards
CHECK_DEADLOCK FALSE
