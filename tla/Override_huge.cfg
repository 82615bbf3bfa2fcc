SPECIFICATION OverSpec
CONSTANTS
  OverThreads = {t1, t2}
  NSpans = 1
  SpanCells = 12
  Classes = {2, 4, 8, 12}
  MaxSmall = 4
  BootPages = 2
  PageCells = 4
  OverSizes = {0, 2}
  MaxOverLive = 2
  SizeLimit = 12
  HugePages = 2
  HugeAligned = TRUE
INVARIANT PointersResolve
CHECK_DEADLOCK FALSE
