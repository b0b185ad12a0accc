CONSTANTS
  Ids = {a, b}
  Data = {x}
  MaxToken = 1
  NumTokens = 1
  ClaimOnRollout = TRUE
  MaxCrashes = 0
  MaxWipes = 1
  StreamErrors = TRUE
  ConsulErrors = FALSE
  StaleWrites = TRUE
  Forgetting = FALSE
  Nil = Nil
SPECIFICATION FairSpec
CHECK_DEADLOCK FALSE
PROPERTIES RingRecovers TransitionsEnd
