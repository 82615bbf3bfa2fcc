SPECIFICATION Spec
CONSTANTS
  Fibers = {f1, f2}
  Tasks = {t1, t2, t3}
  Wakers = {}
  BatchLimit = 2
  PoolMax = 2
  HandleWakes = FALSE
  MaxQueue = 2
  NoTask = NoTask
  NoFiber = NoFiber
INVARIANTS
  QueuedOnce
  TaskConserved
PROPERTIES
  ParkReturnsWhenWoken
