CONSTANTS
  Agent = {a1}
  NoAgent = NoAgent
  All = All
  Ack = Ack
  Caller = {g1}
  SendCap = 1
  MaxConns = 2
SPECIFICATION Spec
PROPERTY EvictsTheOlder
CHECK_DEADLOCK FALSE
