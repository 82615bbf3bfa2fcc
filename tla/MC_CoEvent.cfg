SPECIFICATION Spec
CONSTANTS
  Coroutines = {c1, c2}
  Threads = {t1}
  Signallers = {s1, s2}
  Modes = {TRUE, FALSE}
  MaxWaits = 2
  MaxSignals = 2
  GapWakes = TRUE
INVARIANTS
  EventSound
SYMMETRY
  Renaming
CHECK_DEADLOCK FALSE
