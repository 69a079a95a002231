CONSTANTS
  Agent = {a1, a2}
  NoAgent = NoAgent
  All = All
  Ack = Ack
  Caller = {g1}
  SendCap = 1
  MaxConns = 2
SPECIFICATION FairSpec
INVARIANTS TypeOK LiveIsAddressable NoGhost Addressed
PROPERTY OnlyOwnRemoval ClosedLeaves LostAgentIsDropped CallersReturn
CHECK_DEADLOCK FALSE
