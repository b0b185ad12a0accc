CONSTANTS
  Ids = {a, b, c}
  Data = {x}
  MaxToken = 2
  NumTokens = 1
  ClaimOnRollout = TRUE
  MaxCrashes = 0
  MaxWipes = 0
  StreamErrors = TRUE
  ConsulErrors = FALSE
  StaleWrites = TRUE
  Forgetting = FALSE
  Nil = Nil
SYMMETRY Symmetry
SPECIFICATION Spec
CHECK_DEADLOCK FALSE
INVARIANTS NoAckedLoss TokensAgree HandoverMovesTokens
