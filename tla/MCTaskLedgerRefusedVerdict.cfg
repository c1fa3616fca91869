SPECIFICATION Spec
CONSTANTS
  l1 = l1  l2 = l2  l3 = l3  c1 = c1  r1 = r1  r2 = r2  k1 = k1  k2 = k2
  Nothing = Nothing
  Loops <- Two
  Cases = {c1}
  RunIds = {r1, r2}
  Knowledge = {}
  Modes = {"baseline"}
  Kinds = {"benchmark"}
  Outcomes <- GoodOrBad
  Scopes <- Unscoped
  Issued <- NoPivot
  Replaceable <- NoReplacement
  MaxCrashes = 0
CHECK_DEADLOCK FALSE
INVARIANT RestingActiveLoopIsPending
