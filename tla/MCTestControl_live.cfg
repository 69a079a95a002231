CONSTANTS
  Agent = {a1}
  Handler = {h1, h2}
  NoHandler = NoHandler
  Interval = {1}
  DefaultInterval = 2
  SendCap = 1
  MaxReqs = 3
  MaxDrops = 1
  StopAlone = FALSE
SPECIFICATION FairSpec
PROPERTY RequestsEnd
CHECK_DEADLOCK FALSE
