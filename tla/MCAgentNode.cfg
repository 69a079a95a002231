CONSTANTS
  Addr = {m1, m2}
  NoAddr = NoAddr
  Configured = {m1, NoAddr}
  Joiner = {j1}
  BackoffInitial = 1
  BackoffMax = 3
  Flow = {f1}
  Listener = {udp, tcp}
  Stream = {tcp}
  MaxConns = 1
  PipeCap = 1
  MaxOutput = 1
  MaxLine = 2
  MaxInputs = 4
  DiagWeight = 3
SPECIFICATION FairSpec
INVARIANTS TypeOK StaleOnlyIfSlipped StopIsFinal OneBinding ReportHolds BudgetKept
PROPERTIES HandlerReturns Rejoins DiagEnds
CHECK_DEADLOCK FALSE
