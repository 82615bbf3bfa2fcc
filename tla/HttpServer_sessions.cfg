SPECIFICATION ServerSpec
CONSTANTS
  Conns = {c1, c2}
  Fds = {3}
  None = None
  Threads = {t1}
  LongSends = FALSE
  ServerStarts = 2
  MaxInput = 2
INVARIANTS
  SessionsAreOwn
CHECK_DEADLOCK FALSE
