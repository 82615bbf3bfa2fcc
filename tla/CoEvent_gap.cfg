SPECIFICATION FairSpec
CONSTANTS
  Coroutines = {c1}
  Threads = {}
  Signallers = {s1}
  Modes = {TRUE}
  MaxWaits = 1
  MaxSignals = 1
  GapWakes = TRUE
PROPERTIES
  ClaimedReturns
CHECK_DEADLOCK FALSE
