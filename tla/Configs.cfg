CONSTANTS
  Users = {a, b}
  QueueUsers = {a, b, d, e}
  Configs = {good, better, broken, refused}
  Broken = {broken}
  Refused = {refused}
  MaxSets = 2
  MaxErrors = 1
  MaxWorkers = 2
  Interval = 2
  MaxLate = 1
SPECIFICATION Spec
CHECK_DEADLOCK FALSE
INVARIANTS AllStopped
PROPERTIES ImplementsKeyedQueue EveryUserEvaluated NewestOffered StopEnds ConfigArrives
