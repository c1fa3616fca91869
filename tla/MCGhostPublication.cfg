SPECIFICATION Spec
CONSTANTS
  Nothing = Nothing
  Requests = {r1, r2}
  Tokens = {a, b}
  MaxTokens = 2
  Surplus = 1
INVARIANT AnsweredOnce
PROPERTY KeepsContract
CHECK_DEADLOCK FALSE
