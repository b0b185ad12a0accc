CONSTANTS
  Hour = 1
  Day = 2
  TablePeriod = 4
  UsePeriodicTables = TRUE
  PeriodicTableStartAt = 4
  SchemaFrom <- MCSchemaFrom
  Chunk <- MCChunk
  Queries <- MCQueries
  Fresh <- MCFresh
  Earlier <- MCEarlier
  AnyQueries <- MCAnyQueries
  MaxBatch = 3
  maxRetries = 2
  WriteBackBuffer = 1
  MaxPuts = 2
  MaxFaults = 1
  CreationGracePeriod = 1
  MaxChunkAge = 2
  MaxTime = 12
  MaxFailures = 1
SPECIFICATION Spec
CHECK_DEADLOCK FALSE
INVARIANTS IndexHasData AckedIsIndexed GetIsRight TablesReady
PROPERTIES CallsReturn OldTablesIdle
