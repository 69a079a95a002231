CONSTANTS
  Probers = 1
  IntakeCap = 4
  MaxBatch = 2
  SpoolCap = 2
  SendCap = 2
  MaxSeq = 4
  MaxConns = 1
  MaxRestarts = 0
SPECIFICATION Spec
INVARIANT NoSpuriousMissed
CHECK_DEADLOCK FALSE
