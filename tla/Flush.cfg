CONSTANTS
  fp1 = fp1
  fp2 = fp2
  Fps = {fp1, fp2}
  Queues = {0, 1}
  Settings <- MCSettings
  MaxSamples = 2
  ChunkCap = 2
  MaxChunkAge = 1
  MaxChunkIdle = 0
  FlushBackoff = 1
  MaxFrom = 2
SPECIFICATION FairSpec
CHECK_DEADLOCK FALSE
INVARIANTS NoAckedLoss TakenChunksStable
PROPERTIES AckedIsStored ShutdownEnds
