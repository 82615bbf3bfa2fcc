SPECIFICATION MemorySpec
CONSTANTS
  Threads = {t1, t2}
  Spans = {q1, q2, q3}
  NPAGES = 4
  LastPage = 6
  Requests = {1, 2, 3, 4}
  CentralSpans = {s1, s2}
  PerSpan = 3
  Batch = 2
  MaxHeld = 6
  MayFail = TRUE
  Nobody = Nobody
  Blocks = {o1, o2, o3}
  NumMove = 4
  BatchMax = 2
  LargeMinMax = 0
  TransferSlots = 2
  MaxMax = 4
  None = None
  NoFiber = NoFiber
  Fibers = {f1, f2}
  Resumers = {r1, r2}
  MaxHandles = 2
  MaxTasks = 3
  SlowResume = FALSE
  StackFibers = {f1, f2}
  MaxFiberIds = 3
  NullPtr = NullPtr
  Stacks = 1
  StackCells = 3
  RedZone = 1
  SnapshotSizes = {2}
  BucketLimit = 1
  PoolLimit = 1
  Buffers = {b1, b2, b3, b4}
  OverThreads = {t1}
  NSpans = 1
  SpanCells = 12
  Classes = {2, 4, 8, 12}
  MaxSmall = 4
  BootPages = 2
  PageCells = 4
  OverSizes = {0, 2}
  MaxOverLive = 2
  SizeLimit = 12
  HugePages = 2
  HugeAligned = FALSE
  Coros = {c1, c2, c3}
  PoolThreads = {t1, t2}
  PoolCapacities = {0, 1, 9}
  Unlimited = 9
  MaxObjects = 3
  CallbackSuspends = FALSE
INVARIANTS
  SpansConsistent
  CentralSound
  CachesSound
  HandleReachesItsTaker
  RunsOnOwnFrames
PROPERTIES
  ImplementsPageAlloc
CHECK_DEADLOCK FALSE
