SPECIFICATION Spec
CONSTANTS
  l1 = l1  l2 = l2  l3 = l3  c1 = c1  r1 = r1  r2 = r2  k1 = k1  k2 = k2
  Nothing = Nothing
  Loops <- Three
  Cases = {c1}
  RunIds = {r1}
  Knowledge = {}
  Modes = {"baseline", "optimization"}
  Kinds = {"benchmark", "profile"}
  Outcomes <- OnlyGood
  Scopes <- Unscoped
  Issued <- AcceptedOrNot
  Replaceable <- NoReplacement
  MaxCrashes = 0
SYMMETRY Interchangeable
CHECK_DEADLOCK FALSE
INVARIANT EvidenceBacked
