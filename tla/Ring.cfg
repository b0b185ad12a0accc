CONSTANTS
  Ids = {a, b, c}
  MaxToken = 3
  NumTokens = 2
  MaxReplicas = 2
SYMMETRY Symmetry
SPECIFICATION Spec
CHECK_DEADLOCK FALSE
INVARIANTS LookupIsNearest
PROPERTIES MovesOneReplica
