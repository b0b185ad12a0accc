CONSTANTS
  Ingesters = {i1, i2, i3}
  MaxSamples = 2
  ReplicationFactor = 3
SPECIFICATION FairSpec
CHECK_DEADLOCK FALSE
INVARIANTS AckedMeansQuorum OneChannelWrite ErrMeansNoQuorum
PROPERTIES PushEnds
