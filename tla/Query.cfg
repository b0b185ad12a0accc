CONSTANTS
  Ingesters = {a, b, c, d}
  Samples = {x}
  ReplicationFactor = 3
SPECIFICATION FairSpec
CHECK_DEADLOCK FALSE
INVARIANTS ReadsAcked ListsAcked
PROPERTIES QueryEnds
