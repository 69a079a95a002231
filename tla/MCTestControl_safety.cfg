CONSTANTS
  Agent = {a1, a2}
  Handler = {h1, h2}
  NoHandler = NoHandler
  Interval = {1}
  DefaultInterval = 2
  SendCap = 3
  MaxReqs = 3
  MaxDrops = 1
  StopAlone = TRUE
SPECIFICATION Spec
SYMMETRY Symmetry
INVARIANTS TypeOK RunsInOrder AppliedIsCurrent StoppedIsIdle
CHECK_DEADLOCK FALSE
