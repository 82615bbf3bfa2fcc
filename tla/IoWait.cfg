SPECIFICATION FairSpec
CONSTANTS
  Fibers = {f1, f2}
  Fds = {d1}
  Outsiders = {k1}
  Ops = {"recvn", "connect"}
  Wanted = 2
  MaxWaits = 2
  MaxFiles = 2
  LateCalls = FALSE
  None = None
INVARIANTS
  ResumesItsOwnWait
  DescriptorsAreOwn
  IdleIsWoken
PROPERTY WaitsEnd
CHECK_DEADLOCK FALSE
