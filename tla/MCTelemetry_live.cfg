CONSTANTS
  Probers = 1
  IntakeCap = 3
  MaxBatch = 2
  SpoolCap = 3
  SendCap = 3
  MaxSeq = 3
  MaxConns = 2
  MaxRestarts = 0
SPECIFICATION FairSpec
INVARIANT RisingOnConnection
PROPERTIES MetricsSettle SpoolIsReplayed
CHECK_DEADLOCK FALSE
