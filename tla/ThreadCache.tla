---------------------------- MODULE ThreadCache -----------------------------
(***************************************************************************)
(* zmalloc::ThreadCache, FreeList and TransferCache for one size class.    *)
(* CentralCache (a module of its own) is here the set of objects it would  *)
(* hand out.  The repository builds with both kEnable flags off; all four  *)
(* builds are modelled.                                                    *)
(***************************************************************************)
EXTENDS Naturals, Sequences, FiniteSets, SequencesExt

CONSTANTS
  Threads, Objects, None,
  Builds,       \* records local, transfer: the two kEnable flags
  NumMove,      \* the size class's num_move
  BatchMax,     \* 128: the length of the batch arrays
  LargeMinMax,  \* kLargeSizeMinMax for a large size class, 0 for a small one
  Slots,        \* kMaxCacheSlots
  MaxMax        \* bound: how far max_size grows

VARIABLES
  build,     \* the flags of this build
  lists,     \* free_lists_[index] of each thread: its objects and max_size
  ring,      \* TransferCacheEntry: slots_, head_, tail_, count_
  lock,      \* the thread that holds the entry's mtx_
  central,   \* what CentralCache has
  held,      \* what the program holds
  call       \* the call a thread is in: where it stands, batch and its size

vars == <<build, lists, ring, lock, central, held, call>>

Idle == [at |-> "idle", want |-> 0, batch |-> <<>>]
Lesser(a, b) == IF a < b THEN a ELSE b
Greater(a, b) == IF a > b THEN a ELSE b

Init ==
  /\ build \in Builds
  /\ lists = [t \in Threads |-> [objs |-> <<>>, max |-> 1]]
  /\ ring = [slots |-> [i \in 0..(Slots - 1) |-> None], head |-> 0, tail |-> 0, count |-> 0]
  /\ lock = None
  /\ central = Objects
  /\ held = {}
  /\ call = [t \in Threads |-> Idle]

-----------------------------------------------------------------------------
(* FreeList.                                                               *)
push(list, o) == [list EXCEPT !.objs = <<o>> \o @]
pop(list) == [list EXCEPT !.objs = Tail(@)]
push_range(list, objs) == [list EXCEPT !.objs = objs \o @]
pop_batch(list, n) == [list EXCEPT !.objs = SubSeq(@, n + 1, Len(@))]

Raised(list) == [list EXCEPT !.max = Greater(@, LargeMinMax)]

(* TransferCacheEntry: the slots between tail_ and head_ are taken.        *)
At(i) == i % Slots
Insertable(n) == Lesser(n, Slots - ring.count)
\* Mutant: the glance without the lock is trusted.
RemovableGlanced(n) == n
Removable(n) == Lesser(n, ring.count)

Inserted(batch, n) ==
  [ring EXCEPT
     !.slots = [i \in DOMAIN @ |->
                  IF \E k \in 1..n : At(ring.head + k - 1) = i
                  THEN batch[CHOOSE k \in 1..n : At(ring.head + k - 1) = i]
                  ELSE @[i]],
     !.head = At(@ + n), !.count = @ + n]

Taken(n) == [k \in 1..n |-> ring.slots[At(ring.tail + k - 1)]]
Removed(n) == [ring EXCEPT !.tail = At(@ + n), !.count = @ - n]

-----------------------------------------------------------------------------
\* fetch_from_central_cache up to the choice of the cache to ask.
Fetch(t, list, move) ==
  LET batch == Lesser(list.max, move)
      grown == IF batch = list.max THEN [list EXCEPT !.max = Lesser(@ + 1, MaxMax)] ELSE list
  IN  /\ lists' = [lists EXCEPT ![t] = grown]
      /\ call' = [call EXCEPT ![t] =
           [at    |-> IF build.transfer THEN "checkRemove" ELSE "fetch",
            want  |-> IF build.local THEN batch ELSE 1,
            batch |-> <<>>]]

allocate(t) ==
  LET list == IF build.local THEN Raised(lists[t]) ELSE lists[t]
  IN  /\ call[t] = Idle
      /\ IF build.local /\ list.objs # <<>>
         THEN /\ held' = held \cup {Head(list.objs)}
              /\ lists' = [lists EXCEPT ![t] = pop(list)]
              /\ UNCHANGED call
         ELSE Fetch(t, list, IF build.local THEN NumMove ELSE 1) /\ UNCHANGED held
      /\ UNCHANGED <<build, ring, lock, central>>

\* list_too_long: how many leave.
TooLong(list) == Lesser(Lesser(Greater(list.max \div 2, 1), BatchMax), Len(list.objs))

deallocate(t, o) ==
  LET list == push(Raised(lists[t]), o)
      n    == TooLong(list)
      next == IF build.transfer THEN "checkInsert" ELSE "release"
  IN  /\ call[t] = Idle
      /\ o \in held
      /\ held' = held \ {o}
      /\ CASE ~build.local ->
                /\ call' = [call EXCEPT ![t] = [at |-> "release", want |-> 0, batch |-> <<o>>]]
                /\ UNCHANGED lists
           [] build.local /\ Len(list.objs) < list.max ->
                lists' = [lists EXCEPT ![t] = list] /\ UNCHANGED call
           [] OTHER ->
                /\ lists' = [lists EXCEPT ![t] = pop_batch(list, n)]
                /\ call' = [call EXCEPT ![t] = [at |-> next, want |-> 0,
                                                batch |-> SubSeq(list.objs, 1, n)]]
      /\ UNCHANGED <<build, ring, lock, central>>

\* try_remove_range and try_insert_range: the glance at count_ without the
\* lock, try_lock, and the move under it.
Glance(t) ==
  /\ call[t].at \in {"checkRemove", "checkInsert"}
  /\ call' = [call EXCEPT ![t].at =
       CASE @ = "checkRemove" -> IF ring.count = 0 THEN "fetch" ELSE "lockRemove"
         [] @ = "checkInsert" -> IF ring.count >= Slots THEN "release" ELSE "lockInsert"]
  /\ UNCHANGED <<build, lists, ring, lock, central, held>>

TryLock(t) ==
  /\ call[t].at \in {"lockRemove", "lockInsert"}
  /\ lock' = IF lock = None THEN t ELSE lock
  /\ call' = [call EXCEPT ![t].at =
       IF @ = "lockRemove" THEN IF lock = None THEN "remove" ELSE "fetch"
       ELSE IF lock = None THEN "insert" ELSE "release"]
  /\ UNCHANGED <<build, lists, ring, central, held>>

RemoveRange(t) ==
  LET n == Removable(call[t].want)
  IN  /\ call[t].at = "remove"
      /\ lock' = None
      /\ ring' = Removed(n)
      /\ IF n = 0 THEN call' = [call EXCEPT ![t].at = "fetch"] /\ UNCHANGED <<lists, held>>
         ELSE /\ held' = held \cup {Taken(n)[1]}
              /\ lists' = [lists EXCEPT ![t] = push_range(@, Reverse(Tail(Taken(n))))]
              /\ call' = [call EXCEPT ![t] = Idle]
      /\ UNCHANGED <<build, central>>

InsertRange(t) ==
  LET batch == call[t].batch
      n     == Insertable(Len(batch))
  IN  /\ call[t].at = "insert"
      /\ lock' = None
      /\ ring' = Inserted(batch, n)
      /\ call' = [call EXCEPT ![t] =
           IF n = Len(batch) THEN Idle
           ELSE [@ EXCEPT !.at = "release", !.batch = SubSeq(batch, n + 1, Len(batch))]]
      /\ UNCHANGED <<build, lists, central, held>>

\* CentralCache::fetch_range_obj gives at least one object, at most want.
FetchRange(t) ==
  \E S \in SUBSET central :
    LET objs == SetToSeq(S)
    IN  /\ call[t].at = "fetch"
        /\ S # {} /\ Cardinality(S) <= call[t].want
        /\ central' = central \ S
        /\ held' = held \cup {objs[1]}
        /\ lists' = [lists EXCEPT ![t] = push_range(@, Tail(objs))]
        /\ call' = [call EXCEPT ![t] = Idle]
        /\ UNCHANGED <<build, ring, lock>>

ReleaseList(t) ==
  /\ call[t].at = "release"
  /\ central' = central \cup ToSet(call[t].batch)
  /\ call' = [call EXCEPT ![t] = Idle]
  /\ UNCHANGED <<build, lists, ring, lock, held>>

Next ==
  \E t \in Threads :
    \/ allocate(t) \/ \E o \in Objects : deallocate(t, o)
    \/ Glance(t) \/ TryLock(t) \/ RemoveRange(t) \/ InsertRange(t)
    \/ FetchRange(t) \/ ReleaseList(t)

Spec == Init /\ [][Next]_vars

-----------------------------------------------------------------------------
InRing == Taken(ring.count)
Places(o) ==
  (IF o \in central THEN 1 ELSE 0) + (IF o \in held THEN 1 ELSE 0)
  + Cardinality({k \in DOMAIN InRing : InRing[k] = o})
  + Cardinality({p \in UNION {{<<t, k>> : k \in DOMAIN lists[t].objs} : t \in Threads} :
                   lists[p[1]].objs[p[2]] = o})
  + Cardinality({p \in UNION {{<<t, k>> : k \in DOMAIN call[t].batch} : t \in Threads} :
                   call[p[1]].batch[p[2]] = o})

(* Whatever threads do between the glance at the transfer cache, its       *)
(* try_lock and the move, and wherever its ring wraps, an object is in     *)
(* exactly one place: with the program, in one thread's list, in the ring, *)
(* in one call's batch or with CentralCache; and no list outgrows the      *)
(* max_size its thread has earned.                                         *)
CachesSound ==
  /\ \A o \in Objects : Places(o) = 1
  /\ \A t \in Threads : Len(lists[t].objs) <= lists[t].max
=============================================================================
