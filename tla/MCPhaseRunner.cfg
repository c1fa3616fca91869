SPECIFICATION Spec
CONSTANTS
  Nothing = Nothing
  Runners = {r1, r2}
  MaxBlocks = 1
SYMMETRY Symmetric
INVARIANTS
  SuccessIsGenuine
  ChildSupervised
PROPERTY RecordNotOverwritten
CHECK_DEADLOCK FALSE
