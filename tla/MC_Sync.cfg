SPECIFICATION SyncSpec
CONSTANTS
  Coroutines = {c1, c2}
  Threads = {t1, t2}
  Nobody = Nobody
  WindowWakes = FALSE
  GroupThreads = {t1}
  Workers = {w1, w2}
  MaxWaits = 2
  MaxSignals = 2
  InitialCount = 1
  MaxCount = 2
  Surplus = 1
  LateAdds = FALSE
  Callers = {1, 2, 3}
  ThreadCallers = {3}
  Readers = {1, 2, 3}
  Closers = {1}
  Values = {0, 1}
  Writes <- Parity
  Unset = Unset
  Capacity = 2
  Producers = {p1, p2}
  Lengths = {1, 2}
  Types = {"safe", "unsafe"}
  DefaultSize = 2
  Threshold = 5
  Increment = 1
  MaxSize = 7
  FlushSize = 2
  MaxPushes = 3
INVARIANTS
  MutexSound
  NobodySleepsPast
  LooperSound
PROPERTIES
  ImplementsLock
  CoroutineGetsLock
  WaitReturnsAtZero
  EmptyGroupReleases
  ImplementsChannel
  CloseReleases
  LooperGoesOn
CHECK_DEADLOCK FALSE
