SPECIFICATION FairSpec
CONSTANTS
  Locals = {l1}
  Foreigners = {x1}
  Worker = worker
  Nobody = Nobody
  Messages = {m1, m2}
  MessageLength = 2
  HighWaterMark = 2
  MaxDepth = 2
  MaxCalls = 3
  SplitTimeouts = FALSE
INVARIANTS
  ConnectionSound
PROPERTIES
  CallsReturn
CHECK_DEADLOCK FALSE
