CONSTANTS
  Addr = {m1, m2}
  NoAddr = NoAddr
  Configured = {m1, NoAddr}
  Joiner = {j1}
  BackoffInitial = 1
  BackoffMax = 3
  Flow = {f1}
  Listener = {udp}
  Stream = {}
  MaxConns = 1
  PipeCap = 1
  MaxOutput = 1
  MaxLine = 1
  MaxInputs = 2
  DiagWeight = 2
SPECIFICATION Spec
INVARIANT StaleLinkCloses
CHECK_DEADLOCK FALSE
