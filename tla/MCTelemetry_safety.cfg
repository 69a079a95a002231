CONSTANTS
  Probers = 2
  IntakeCap = 1
  MaxBatch = 2
  SpoolCap = 2
  SendCap = 2
  MaxSeq = 3
  MaxConns = 2
  MaxRestarts = 1
SPECIFICATION Spec
INVARIANTS TypeOK NeverTwice RegisterReplayLive WatermarkIsHighest
PROPERTIES ReportsAreNews LossNeedsCause AtMostOnce
CHECK_DEADLOCK FALSE
