SPECIFICATION HttpSpec
CONSTANTS
  None = None
  MaxRoutes = 3
  BodyLength = 2
  MaxPending = 3
  MaxBytes = 16
  Deployed = {"br", ""}
  Length = 2
  MaxVersion = 2
  ReplacedInUse = FALSE
  SameMtime = FALSE
  MaxMessage = 5
  SmallLength = 3
  MidLength = 4
  MaxFrames = 3
  MaxRead = 40
  Callers = {r1, r2, r3}
  Capacity = 2
  Window = 2
  Second = 1
  MaxTime = 4
  Requests = {q1, q2}
  MaxIds = 2
  Values = {v1}
  ttl = 1
  cleanup_every = 2
  MaxClock = 1
  Users = {u1, u2}
  MaxSent = 4
INVARIANTS
  RoutingSound
  SplitsAgree
  FilesServed
  FramesAgree
  MiddlewareSound
CHECK_DEADLOCK FALSE
