CONSTANTS
  Ids = {a, b}
  Data = {x}
  MaxToken = 1
  NumTokens = 1
  ClaimOnRollout = TRUE
  MaxCrashes = 1
  MaxWipes = 0
  StreamErrors = TRUE
  ConsulErrors = TRUE
  StaleWrites = FALSE
  Forgetting = TRUE
  Nil = Nil
SYMMETRY Symmetry
SPECIFICATION Spec
CHECK_DEADLOCK FALSE
INVARIANTS NoAckedLoss RingWellFormed
PROPERTIES RingMovesForward
