CONSTANTS
  Agent = {a1, a2}
  Handler = {h1, h2}
  NoHandler = NoHandler
  Interval = {1}
  DefaultInterval = 2
  SendCap = 3
  MaxReqs = 2
  MaxDrops = 0
  StopAlone = TRUE
SPECIFICATION Spec
INVARIANT IntervalOfActiveTest
CHECK_DEADLOCK FALSE
