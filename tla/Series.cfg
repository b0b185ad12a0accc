CONSTANTS
  p1 = p1
  p2 = p2
  f1 = f1
  Pushers = {p1, p2}
  Flushers = {f1}
  Metrics <- MCMetrics
  MetricName <- MCMetricName
  Pairs <- MCPairs
  FastFingerprint <- MCFastFingerprint
  MaxMappedFP = 4
  Mutex <- MCMutex
  Wanted <- MCWanted
  Limits = {1, 3}
  MaxSeriesPerMetric = 2
  Offered <- MCOffered
  MaxQueries = 1
SPECIFICATION Spec
SYMMETRY Symmetric
CHECK_DEADLOCK FALSE
INVARIANTS UniqueSeries StateAgrees SeriesLimit AckedKept QueryComplete NobodyStuck
