CONSTANTS
  Agent = {a1, a2}
  Handler = {h1, h2}
  NoHandler = NoHandler
  Interval = {1}
  DefaultInterval = 2
  SendCap = 3
  MaxReqs = 3
  MaxDrops = 0
  StopAlone = FALSE
SPECIFICATION Spec
INVARIANT StoppedIsIdle
CHECK_DEADLOCK FALSE
