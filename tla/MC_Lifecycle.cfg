SPECIFICATION LifecycleSpec
CONSTANTS
  Users = {u1, u2}
  Tasks = {1, 2, 3}
  Count = 2
  DrainLimit = 1
  MaxSteal = 2
  MinReserve = 1
  Medium = 2
  Large = 3
  MaxStarts = 2
  Concurrent = FALSE
  PollersStart = TRUE
  Conns = {c1, c2}
  Fds = {3}
  None = None
  Threads = {t1}
  LongSends = FALSE
  ServerStarts = 1
  MaxInput = 2
  Repeated = TRUE
  MaxCrashes = 2
INVARIANTS
  RuntimeSound
  ServerSound
PROPERTIES
  NoTaskVanishes
  TasksRun
  StopEnds
  DaemonGoesOn
CHECK_DEADLOCK FALSE
