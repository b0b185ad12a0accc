CONSTANTS
  Ids = {a, b, c, d}
  MaxToken = 3
  NumTokens = 1
  MaxReplicas = 3
SYMMETRY Symmetry
SPECIFICATION Spec
CHECK_DEADLOCK FALSE
INVARIANT ReadsMeetWrites
