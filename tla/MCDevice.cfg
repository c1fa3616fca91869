SPECIFICATION Spec
CONSTANTS
  Tokens <- Binary
  K = 2
  Pad = Pad
  Slots <- TwoSlots
  BlockSize = 2
  Blocks <- TenBlocks
  BlockTable <- TwoTables
  Prompt <- TwoPrompts
  Budget = 3
  MaxLength = 5
  Stale <- AllAlike
  Model <- Checksum
  Pages = {p1, p2, scratch_page}
  Mutable = {scratch_page}
  Tensors = {seq_lens, slots}
  Limit = 2
  MaxCycle = 3
  BatchSize = 2
  Width = 3
  TpSizes = {1, 2, 4}
  GroupRatios <- FourRatios
  ManagerSize = 2
  ManagerTable <- TwoRows
  MaxComputed = 4
  MaxCycles = 3
  WarmCohorts = 1
  Cohorts = 3
  NumSlots = 2
INVARIANTS
  TypeOK
  Lossless
  CacheHoldsContext
  ComparesLikeWithLike
  LeavesOneExecution
  RanksAttendAsOne
  ManifestIsExact
  CohortsKeptApart
CHECK_DEADLOCK FALSE
