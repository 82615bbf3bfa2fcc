------------------------------ MODULE Sessions ------------------------------
(***************************************************************************)
(* zhttp/src/session.cc and mid/session_middleware.cc: the in-memory        *)
(* sessions.  A request works on a snapshot of the stored record and writes *)
(* the whole of it back, if it is new or changed; a record expires when it  *)
(* was not loaded or saved for ttl ticks and is removed by the next load of *)
(* it or by a sweep every cleanup_every operations.  Each operation reads   *)
(* the clock before it takes the lock.  A session holds one key.            *)
(***************************************************************************)
EXTENDS Integers, FiniteSets

CONSTANTS
  Requests,       \* requests under way at a time
  MaxIds,         \* bound on the ids drawn, which are 1, 2, ...
  Values,         \* what the key can be set to
  ttl,
  cleanup_every,
  MaxClock        \* bound on the clock

VARIABLES
  store,       \* id -> Record or NoRecord
  op_count,    \* modulo cleanup_every
  clock,
  req,         \* request -> where it is, its reading of the clock, its Session
  known,       \* ids a client has got a cookie for
  drawn,       \* the last id made
  destroyed,   \* ids a handler destroyed
  written,     \* id -> the data of the last request that changed it
  touched      \* id -> the reading of its last create, load or save

sessvars == <<store, op_count, clock, req, known, drawn, destroyed, written, touched>>

Ids == 1 .. MaxIds
NoData == ""
NoRecord == [data |-> NoData, expires_at |-> -1]
NoId == 0
NoReq == [at |-> "idle", now |-> 0, id |-> NoId, data |-> NoData, is_new |-> FALSE,
          modified |-> FALSE, changed |-> FALSE]

SessTypeOK ==
  /\ \A i \in Ids : store[i].data \in Values \cup {NoData} /\ store[i].expires_at <= MaxClock + ttl
  /\ op_count \in 0 .. cleanup_every - 1
  /\ clock \in 0 .. MaxClock
  /\ \A r \in Requests : req[r].at \in {"idle", "load", "create", "handle", "save"}

-----------------------------------------------------------------------------
(* What a session does to itself; only a real change sets modified_.        *)

SetData(s, v) ==
  IF s.data = v THEN s ELSE [s EXCEPT !.data = v, !.modified = TRUE, !.changed = TRUE]

EraseKey(s) ==
  IF s.data = NoData THEN s ELSE [s EXCEPT !.data = NoData, !.modified = TRUE, !.changed = TRUE]

(* mark_persisted.                                                          *)
Persisted(s) == [s EXCEPT !.is_new = FALSE, !.modified = FALSE]

-----------------------------------------------------------------------------
(* What an operation of the manager does first under its lock: count, and   *)
(* sweep the store in its turn.                                             *)
Counted == (op_count + 1) % cleanup_every
cleanup_expired_locked(now) ==
  [i \in Ids |-> IF store[i].expires_at <= now THEN NoRecord ELSE store[i]]
Swept(now) == IF Counted = 0 THEN cleanup_expired_locked(now) ELSE store

Reads(r, at) == req' = [req EXCEPT ![r].at = at, ![r].now = clock]

(* SessionMiddleware::before: a request with a cookie loads its session,    *)
(* one without makes a new one.                                             *)
before(r) ==
  /\ req[r].at = "idle"
  /\ \E i \in known \cup {NoId} :
       req' = [req EXCEPT ![r] = [NoReq EXCEPT !.at = IF i = NoId THEN "create" ELSE "load",
                                               !.now = clock, !.id = i]]
  /\ UNCHANGED <<store, op_count, clock, known, drawn, destroyed, written, touched>>

load(r) ==
  LET i == req[r].id
      now == req[r].now
      kept == Swept(now)
  IN
  /\ req[r].at = "load"
  /\ op_count' = Counted
  /\ IF kept[i].expires_at <= now
     THEN \* none, or expired: erased, and a new session is made
          /\ store' = [kept EXCEPT ![i] = NoRecord]
          /\ req' = [req EXCEPT ![r] = [NoReq EXCEPT !.at = "create", !.now = clock]]
     ELSE /\ store' = [kept EXCEPT ![i].expires_at = now + ttl]
          /\ req' = [req EXCEPT ![r] = Persisted([NoReq EXCEPT !.at = "handle", !.id = i,
                                                             !.data = kept[i].data])]
  /\ touched' = IF req'[r].at = "handle" THEN [touched EXCEPT ![i] = now] ELSE touched
  /\ UNCHANGED <<clock, known, drawn, destroyed, written>>

(* A random id of 128 bits: one nobody drew before.                         *)
new_session_id == {i \in Ids : i = drawn + 1}

create(r) ==
  /\ req[r].at = "create"
  /\ op_count' = Counted
  /\ \E i \in new_session_id :
       /\ store' = [Swept(req[r].now) EXCEPT ![i] = [data |-> NoData, expires_at |-> req[r].now + ttl]]
       /\ req' = [req EXCEPT ![r] = [NoReq EXCEPT !.at = "handle", !.id = i, !.is_new = TRUE]]
       /\ drawn' = i
       /\ touched' = [touched EXCEPT ![i] = req[r].now]
  /\ UNCHANGED <<clock, known, destroyed, written>>

(* The handler works on the session of its request.                         *)
Handles(r) ==
  /\ req[r].at = "handle"
  /\ \E s \in {SetData(req[r], v) : v \in Values} \cup {EraseKey(req[r])} :
       s # req[r] /\ req' = [req EXCEPT ![r] = s]
  /\ UNCHANGED <<store, op_count, clock, known, drawn, destroyed, written, touched>>

(* A handler ends its session (a logout).                                   *)
destroy(r) ==
  /\ req[r].at = "handle"
  /\ store' = [store EXCEPT ![req[r].id] = NoRecord]
  /\ destroyed' = destroyed \cup {req[r].id}
  /\ UNCHANGED <<op_count, clock, req, known, drawn, written, touched>>

(* SessionMiddleware::after.                                                *)
after(r) ==
  /\ req[r].at = "handle"
  /\ IF req[r].is_new \/ req[r].modified THEN Reads(r, "save")
                                         ELSE req' = [req EXCEPT ![r] = NoReq]
  /\ UNCHANGED <<store, op_count, clock, known, drawn, destroyed, written, touched>>

(* save, and the cookie of the answer.                                      *)
save(r) ==
  LET i == req[r].id IN
  /\ req[r].at = "save"
  /\ op_count' = Counted
  /\ store' = [Swept(req[r].now) EXCEPT
                 ![i] = [data |-> req[r].data, expires_at |-> req[r].now + ttl]]
  /\ written' = IF req[r].changed THEN [written EXCEPT ![i] = req[r].data] ELSE written
  /\ touched' = [touched EXCEPT ![i] = req[r].now]
  /\ known' = known \cup {i}
  /\ req' = [req EXCEPT ![r] = NoReq]
  /\ UNCHANGED <<clock, drawn, destroyed>>

Tick ==
  /\ clock < MaxClock
  /\ clock' = clock + 1
  /\ UNCHANGED <<store, op_count, req, known, drawn, destroyed, written, touched>>

SessInit ==
  /\ store = [i \in Ids |-> NoRecord]
  /\ op_count = 0
  /\ clock = 0
  /\ req = [r \in Requests |-> NoReq]
  /\ known = {}
  /\ drawn = 0
  /\ destroyed = {}
  /\ written = [i \in Ids |-> NoData]
  /\ touched = [i \in Ids |-> 0]

SessNext ==
  \/ \E r \in Requests : before(r) \/ load(r) \/ create(r) \/ Handles(r) \/ destroy(r) \/ after(r) \/ save(r)
  \/ Tick

SessSpec == SessInit /\ [][SessNext]_sessvars

-----------------------------------------------------------------------------
(* A session's stored data is what the last request that changed it saved:  *)
(* a request that changed nothing never puts its old snapshot back over     *)
(* another's write.  (Of two that changed it the later save wins.)          *)
NoWriteUndone ==
  \A i \in Ids : store[i] # NoRecord => store[i].data = written[i]

(* A session a client has a cookie for is gone only because a handler       *)
(* destroyed it or because ttl ticks have passed since it was last used.    *)
OnlyOldAreSwept ==
  \A i \in known : store[i] = NoRecord => i \in destroyed \/ clock >= touched[i] + ttl

SessionsSound == SessTypeOK /\ NoWriteUndone /\ OnlyOldAreSwept
=============================================================================
