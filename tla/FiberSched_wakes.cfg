SPECIFICATION FairSpec
CONSTANTS
  Fibers = {f1, f2}
  Tasks = {t1, t2}
  Wakers = {w1}
  BatchLimit = 2
  PoolMax = 2
  HandleWakes = TRUE
  MaxQueue = 2
  NoTask = NoTask
  NoFiber = NoFiber
INVARIANTS
  NoLostWake
PROPERTIES
  ReadyRuns
  TimedWaitEndsIfDrained
