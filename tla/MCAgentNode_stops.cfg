CONSTANTS
  Addr = {m1}
  NoAddr = NoAddr
  Configured = {m1}
  Joiner = {}
  BackoffInitial = 1
  BackoffMax = 3
  Flow = {f1, f2}
  Listener = {}
  Stream = {}
  MaxConns = 0
  PipeCap = 1
  MaxOutput = 1
  MaxLine = 1
  MaxInputs = 5
  DiagWeight = 6
SPECIFICATION FairSpec
INVARIANT StopIsFinal
PROPERTY HandlerReturns
CHECK_DEADLOCK FALSE
