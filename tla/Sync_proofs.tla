----------------------------- MODULE Sync_proofs -----------------------------
(***************************************************************************)
(* What the primitives that coroutines and threads wait on promise:        *)
(* zco::Mutex for every set of coroutines and threads, whether or not an   *)
(* unlock() meets a waiter that is still swapping out - but its ownership  *)
(* only up to the first that does; zco::Channel for every capacity, every  *)
(* set of callers and every set of values; and zlog::AsyncLooper for every *)
(* set of producers, every length of records and every choice of the       *)
(* buffer sizes.                                                           *)
(***************************************************************************)
EXTENDS CoMutex, CoChannel, AsyncLooper, QueueLemmas

(***************************************************************************)
(* zco::Mutex                                                              *)
(***************************************************************************)

-----------------------------------------------------------------------------
(* cleanup_waiters_front                                                   *)

Entries == [co : Coroutines, active : BOOLEAN]

(* cleanup_waiters_front leaves a queue of entries, and an empty one empty.*)
LEMMA CleanedOK ==
  ASSUME NEW ws \in Seq(Entries)
  PROVE  Cleaned(ws) \in Seq(Entries) /\ (ws = <<>> => Cleaned(ws) = <<>>)
<1> DEFINE P(n) == /\ \A i \in 1..n : ~ws[i].active
                   /\ n < Len(ws) => ws[n + 1].active
           I == {n \in 0..Len(ws) : n < Len(ws) => ws[n + 1].active}
<1>1. Len(ws) \in I /\ I \subseteq 0..Len(ws) /\ Len(ws) \in Nat
  OBVIOUS
<1>2. PICK n \in I : \A j \in I : n <= j
  <2> HIDE DEF I
  <2> QED BY <1>1, MinOfInterval
<1>3. ASSUME NEW i \in 1..n PROVE ~ws[i].active
  <2>1. i - 1 \in 0..Len(ws) /\ i - 1 < n /\ (i - 1) + 1 = i
    BY <1>2
  <2>2. i - 1 \notin I
    BY <1>2, <2>1
  <2> QED BY <2>1, <2>2
<1>4. \E m \in 0..Len(ws) : P(m)
  BY <1>2, <1>3
<1>5. FirstActive(ws) \in 0..Len(ws)
  BY <1>4 DEF FirstActive
<1> QED BY <1>5 DEF Cleaned

(* An unlock() that finds a claimable entry picks one.                     *)
LEMMA HandToOK ==
  ASSUME NEW n \in DOMAIN waiters, waiters \in Seq(Entries), Claimable(waiters[n])
  PROVE  HandTo(waiters) \in DOMAIN waiters /\ Claimable(waiters[HandTo(waiters)])
<1> DEFINE I == {m \in 1..Len(waiters) : Claimable(waiters[m])}
<1>1. n \in I /\ I \subseteq 0..Len(waiters) /\ Len(waiters) \in Nat
  OBVIOUS
<1>2. PICK m \in I : \A j \in I : m <= j
  <2> HIDE DEF I
  <2> QED BY <1>1, MinOfInterval
<1>3. \A i \in 1..(m - 1) : ~Claimable(waiters[i])
  BY <1>2
<1>4. \E k \in 1..Len(waiters) : Claimable(waiters[k]) /\ \A i \in 1..(k - 1) : ~Claimable(waiters[i])
  BY <1>2, <1>3
<1>5. HandTo(waiters) \in 1..Len(waiters) /\ Claimable(waiters[HandTo(waiters)])
  BY <1>4 DEF HandTo
<1> QED BY <1>5

-----------------------------------------------------------------------------
(* The inductive invariant.                                                *)

\* Coroutines wait by parking, threads in cv.wait.
PlacesOK ==
  /\ \A c \in Coroutines : pc[c] \notin {"blocked", "again"}
  /\ \A t \in Threads : /\ pc[t] \notin {"prepared", "parked"}
                        /\ pc[t] = "blocked" <=> t \in blocked

\* A fiber's state follows its place: nobody wakes it inside its swap.
StatesOK ==
  \A c \in Coroutines :
     /\ pc[c] = "prepared" => state[c] = "waiting"
     /\ pc[c] = "parked" => state[c] \in {"waiting", "ready"}
     /\ pc[c] \notin {"prepared", "parked"} => state[c] = "running"

\* Who is about to make a run-queue entry knows for whom.
HandingOK == \A x \in Clients : pc[x] = "handing" <=> target[x] # Nobody

\* A coroutine that was handed the lock and nobody else has a run-queue
\* entry, or a client that is about to make one.
EntriesOK ==
  /\ \A c \in Coroutines :
        entries[c] > 0 => /\ entries[c] = 1 /\ pc[c] = "parked" /\ state[c] = "ready"
                          /\ \A x \in Clients : target[x] # c
  /\ \A x \in Clients : target[x] # Nobody =>
        /\ pc[target[x]] = "parked" /\ state[target[x]] = "ready"
        /\ \A y \in Clients : target[y] = target[x] => y = x

\* Who waits is listed only while the mutex is locked.
ListedOK == ~locked => waiters = <<>>

\* What holds always, and what holds until a hand-over meets a waiter that is
\* still in its swap: such a waiter is queued twice, and its second entry can
\* end a later lock() that nobody answered.
BaseInv  == TypeOK /\ PlacesOK /\ HandingOK /\ ListedOK /\ NoForgottenThread
OwnInv   == StatesOK /\ EntriesOK /\ LockedMeansOwned
MutexInv == BaseInv /\ (overlapped \/ OwnInv)

(* A constructed mutex is free and nobody waits.                           *)
LEMMA InitMutexInv == Init => MutexInv
<1> SUFFICES ASSUME Init PROVE MutexInv
  OBVIOUS
<1> USE DEF Init
<1>1. TypeOK
  <2>1. <<>> \in Seq([co : Coroutines, active : BOOLEAN])
    OBVIOUS
  <2> QED BY <2>1 DEF TypeOK, Clients, Places
<1>2. PlacesOK /\ StatesOK /\ EntriesOK /\ HandingOK
  BY DEF PlacesOK, StatesOK, EntriesOK, HandingOK, Clients
<1>3. \A x \in Clients : ~Owner(x)
  BY DEF Owner, Handed, Clients
<1> QED BY <1>1, <1>2, <1>3 DEF MutexInv, BaseInv, OwnInv, ListedOK, LockedMeansOwned, NoForgottenThread

(* Every step of lock, try_lock and unlock keeps the types.                *)
LEMMA TypeStep ==
  ASSUME BaseInv, [Next]_vars
  PROVE  TypeOK'
<1> USE DEF BaseInv, TypeOK, Places, Clients, Go
<1> DEFINE W == Seq(Entries)
<1>0. waiters \in W /\ Cleaned(waiters) \in W
  BY CleanedOK DEF Entries
<1>1. ASSUME NEW c \in Coroutines, CoLockFast(c) PROVE TypeOK'
  BY <1>1, <1>0 DEF CoLockFast, Entries
<1>2. ASSUME NEW c \in Coroutines, CoLockWait(c) PROVE TypeOK'
  <2>1. [co |-> c, active |-> TRUE] \in Entries
    BY DEF Entries
  <2>2. Append(Cleaned(waiters), [co |-> c, active |-> TRUE]) \in W
    BY <1>0, <2>1
  <2> QED BY <1>2, <2>2 DEF CoLockWait, Entries
<1>3. ASSUME NEW c \in Coroutines, CoPark(c) PROVE TypeOK'
  BY <1>3 DEF CoPark
<1>4. ASSUME NEW c \in Coroutines, CoResume(c) PROVE TypeOK'
  <2>1. waiters' \in W
    <3>1. \A i \in 1..Len(waiters) : waiters[i] \in Entries
      BY <1>0
    <3>2. [co |-> c, active |-> FALSE] \in Entries
      BY DEF Entries
    <3>3. waiters' \in [1..Len(waiters) -> Entries] /\ Len(waiters) \in Nat
      BY <1>4, <1>0, <3>1, <3>2 DEF CoResume
    <3> HIDE DEF BaseInv, TypeOK
    <3> QED BY <3>3
  <2>2. entries' \in [Coroutines -> Nat]
    BY <1>4 DEF CoResume
  <2> QED BY <1>4, <2>1, <2>2 DEF CoResume, Entries
<1>5. ASSUME NEW t \in Threads, ThreadLock(t) PROVE TypeOK'
  BY <1>5, <1>0 DEF ThreadLock, Entries
<1>6. ASSUME NEW x \in Clients, TryLock(x) PROVE TypeOK'
  BY <1>6, <1>0 DEF TryLock, Entries
<1>7. ASSUME NEW x \in Clients, UnlockHandOver(x) PROVE TypeOK'
  <2> DEFINE n == HandTo(waiters)
  <2>1. n \in DOMAIN waiters
    BY <1>7, <1>0, HandToOK DEF UnlockHandOver
  <2>2. waiters[n].co \in Coroutines /\ n \in 1..Len(waiters)
    <3>1. waiters[n] \in Entries /\ n \in 1..Len(waiters)
      BY <1>0, <2>1
    <3> QED BY <3>1 DEF Entries
  <2>3. SubSeq(waiters, n + 1, Len(waiters)) \in W
    BY <1>0, <2>2
  <2> HIDE DEF n
  <2>4. /\ target' = [target EXCEPT ![x] = waiters[n].co]
        /\ state' = [state EXCEPT ![waiters[n].co] = "ready"]
        /\ overlapped' = (overlapped \/ InWindow(waiters[n].co))
        /\ waiters' = SubSeq(waiters, n + 1, Len(waiters))
        /\ pc' = [pc EXCEPT ![x] = "handing"]
        /\ UNCHANGED <<locked, blocked, entries>>
    BY <1>7 DEF UnlockHandOver, n
  <2>5. overlapped' \in BOOLEAN
    BY <2>4
  <2> QED BY <2>2, <2>3, <2>4, <2>5 DEF Entries
<1>8. ASSUME NEW x \in Clients, UnlockFree(x) \/ UnlockIgnored(x) PROVE TypeOK'
  <2>1. <<>> \in W
    OBVIOUS
  <2>2. waiters' \in W
    BY <1>0, <1>8, <2>1 DEF UnlockFree, UnlockIgnored
  <2> QED BY <1>8, <2>2 DEF UnlockFree, UnlockIgnored, Entries
<1>9. ASSUME NEW x \in Clients, EnqueueReady(x) PROVE TypeOK'
  <2>1. target[x] \in Coroutines
    BY <1>9 DEF EnqueueReady, HandingOK
  <2>2. entries' \in [Coroutines -> Nat]
    BY <1>9, <2>1 DEF EnqueueReady
  <2> QED BY <1>9, <2>2 DEF EnqueueReady
<1>10. ASSUME NEW x \in Clients, NotifyOne(x) PROVE TypeOK'
  BY <1>10 DEF NotifyOne
<1>11. CASE UNCHANGED vars
  BY <1>11 DEF vars
<1> QED BY <1>1, <1>2, <1>3, <1>4, <1>5, <1>6, <1>7, <1>8, <1>9, <1>10, <1>11
        DEF Next, Unlock, Finish

(* Every step keeps what holds always.                                     *)
LEMMA BaseStep ==
  ASSUME BaseInv, [Next]_vars
  PROVE  BaseInv'
<1>t. TypeOK' /\ TypeOK
  BY TypeStep DEF BaseInv
<1>w. waiters \in Seq(Entries)
  BY <1>t DEF TypeOK, Entries
<1>e. waiters = <<>> => Cleaned(waiters) = <<>>
  BY <1>w, CleanedOK
<1>m. ~locked => ThreadMayTake
  BY <1>e DEF ThreadMayTake, BaseInv, ListedOK
<1> SUFFICES PlacesOK' /\ HandingOK' /\ ListedOK' /\ NoForgottenThread'
  BY <1>t DEF BaseInv
<1> USE ClientsAssumption, <1>t DEF BaseInv, TypeOK, Clients, Go, PlacesOK, HandingOK, NoForgottenThread
<1>1. ASSUME NEW c \in Coroutines, CoLockFast(c)
      PROVE  PlacesOK' /\ HandingOK' /\ ListedOK' /\ NoForgottenThread'
  BY <1>1 DEF CoLockFast, ListedOK
<1>2. ASSUME NEW c \in Coroutines, CoLockWait(c)
      PROVE  PlacesOK' /\ HandingOK' /\ ListedOK' /\ NoForgottenThread'
  BY <1>2 DEF CoLockWait, ListedOK
<1>3. ASSUME NEW c \in Coroutines, CoPark(c)
      PROVE  PlacesOK' /\ HandingOK' /\ ListedOK' /\ NoForgottenThread'
  BY <1>3 DEF CoPark, ListedOK
<1>4. ASSUME NEW c \in Coroutines, CoResume(c)
      PROVE  PlacesOK' /\ HandingOK' /\ ListedOK' /\ NoForgottenThread'
  <2>1. ListedOK'
    <3>1. waiters = <<>> => waiters' = <<>>
      BY <1>4 DEF CoResume
    <3> QED BY <1>4, <3>1 DEF CoResume, ListedOK
  <2> QED BY <1>4, <2>1 DEF CoResume
<1>5. ASSUME NEW t \in Threads, ThreadLock(t)
      PROVE  PlacesOK' /\ HandingOK' /\ ListedOK' /\ NoForgottenThread'
  <2> USE <1>5 DEF ThreadLock
  <2>1. PlacesOK' /\ HandingOK'
    OBVIOUS
  <2>2. locked'
    BY <1>m
  <2> QED BY <2>1, <2>2 DEF ListedOK
<1>6. ASSUME NEW x \in Clients, TryLock(x)
      PROVE  PlacesOK' /\ HandingOK' /\ ListedOK' /\ NoForgottenThread'
  BY <1>6, <1>m DEF TryLock, ListedOK
<1>7. ASSUME NEW x \in Clients, UnlockHandOver(x)
      PROVE  PlacesOK' /\ HandingOK' /\ ListedOK' /\ NoForgottenThread'
  <2> DEFINE n == HandTo(waiters)
             c == waiters[n].co
  <2>1. c \in Coroutines
    <3>1. n \in DOMAIN waiters
      BY <1>7, <1>w, HandToOK DEF UnlockHandOver
    <3>2. waiters[n] \in Entries
      BY <1>w, <3>1
    <3> QED BY <3>2 DEF Entries
  <2>2. /\ target' = [target EXCEPT ![x] = c]
        /\ pc' = [pc EXCEPT ![x] = "handing"]
        /\ UNCHANGED <<locked, blocked>> /\ pc[x] = "cs" /\ locked
    BY <1>7 DEF UnlockHandOver
  <2> HIDE DEF n, c
  <2> QED BY <2>1, <2>2 DEF ListedOK
<1>8. ASSUME NEW x \in Clients, UnlockFree(x)
      PROVE  PlacesOK' /\ HandingOK' /\ ListedOK' /\ NoForgottenThread'
  BY <1>8 DEF UnlockFree, ListedOK
<1>9. ASSUME NEW x \in Clients, UnlockIgnored(x)
      PROVE  PlacesOK' /\ HandingOK' /\ ListedOK' /\ NoForgottenThread'
  BY <1>9 DEF UnlockIgnored, ListedOK
<1>10. ASSUME NEW x \in Clients, EnqueueReady(x)
       PROVE  PlacesOK' /\ HandingOK' /\ ListedOK' /\ NoForgottenThread'
  BY <1>10 DEF EnqueueReady, ListedOK
<1>11. ASSUME NEW x \in Clients, NotifyOne(x)
       PROVE  PlacesOK' /\ HandingOK' /\ ListedOK' /\ NoForgottenThread'
  BY <1>11 DEF NotifyOne, ListedOK
<1>12. CASE UNCHANGED vars
  BY <1>12 DEF vars, ListedOK
<1> QED BY <1>1, <1>2, <1>3, <1>4, <1>5, <1>6, <1>7, <1>8, <1>9, <1>10, <1>11, <1>12
        DEF Next, Unlock, Finish

(* Every step keeps the rest, if unlock() meets no waiter inside its swap. *)
LEMMA OwnStep ==
  ASSUME BaseInv, OwnInv, [Next]_vars, ~overlapped'
  PROVE  OwnInv'
<1>t. TypeOK' /\ TypeOK
  BY TypeStep DEF BaseInv
<1>w. waiters \in Seq(Entries)
  BY <1>t DEF TypeOK, Entries
<1>e. waiters = <<>> => Cleaned(waiters) = <<>>
  BY <1>w, CleanedOK
<1>m. ~locked => ThreadMayTake
  BY <1>e DEF ThreadMayTake, BaseInv, ListedOK
<1> USE ClientsAssumption DEF BaseInv, OwnInv, TypeOK, Clients, Go
<1>1. ASSUME NEW c \in Coroutines, CoLockFast(c) PROVE OwnInv'
  <2> USE <1>1, <1>t DEF CoLockFast
  <2>1. StatesOK' /\ EntriesOK'
    BY DEF PlacesOK, HandingOK, StatesOK, EntriesOK
  <2>2. \A x \in Clients : Owner(x)' <=> x = c
    BY DEF Owner, Handed, LockedMeansOwned, StatesOK
  <2> QED BY <2>1, <2>2 DEF LockedMeansOwned
<1>2. ASSUME NEW c \in Coroutines, CoLockWait(c) PROVE OwnInv'
  <2> USE <1>2, <1>t DEF CoLockWait
  <2>1. StatesOK' /\ EntriesOK'
    BY DEF PlacesOK, HandingOK, StatesOK, EntriesOK
  <2>2. \A x \in Clients : Owner(x)' <=> Owner(x)
    BY DEF Owner, Handed
  <2> QED BY <2>2, <2>1 DEF LockedMeansOwned
<1>3. ASSUME NEW c \in Coroutines, CoPark(c) PROVE OwnInv'
  <2> USE <1>3, <1>t DEF CoPark
  <2>1. entries' = entries
    BY DEF StatesOK
  <2>2. StatesOK' /\ EntriesOK'
    BY <2>1 DEF PlacesOK, HandingOK, StatesOK, EntriesOK
  <2>3. \A x \in Clients : Owner(x)' <=> Owner(x)
    BY DEF Owner, Handed
  <2> QED BY <2>2, <2>3 DEF LockedMeansOwned
<1>4. ASSUME NEW c \in Coroutines, CoResume(c) PROVE OwnInv'
  <2> USE <1>4, <1>t DEF CoResume
  <2>1. entries[c] = 1 /\ state[c] = "ready" /\ \A x \in Clients : target[x] # c
    BY DEF EntriesOK, HandingOK
  <2>2. StatesOK' /\ EntriesOK'
    BY <2>1 DEF PlacesOK, HandingOK, StatesOK, EntriesOK
  <2>3. \A x \in Clients : Owner(x)' <=> Owner(x)
    BY <2>1 DEF Owner, Handed
  <2> QED BY <2>2, <2>3 DEF LockedMeansOwned
<1>5. ASSUME NEW t \in Threads, ThreadLock(t) PROVE OwnInv'
  <2> USE <1>5, <1>t DEF ThreadLock
  <2>0. t \notin Coroutines /\ target' = target /\ state' = state /\ entries' = entries
        /\ \A x \in Clients : x # t => pc'[x] = pc[x]
    OBVIOUS
  <2>b. StatesOK'
    BY <2>0 DEF StatesOK
  <2>c. pc[t] # "handing" /\ pc'[t] # "handing"
    OBVIOUS
  <2>d. EntriesOK'
    BY <2>0, <2>c DEF EntriesOK, HandingOK
  <2>1. StatesOK' /\ EntriesOK'
    BY <2>b, <2>d
  <2>2. CASE ThreadMayTake
    <3>1. \A x \in Clients : Owner(x)' <=> x = t
      BY <2>2 DEF Owner, Handed, LockedMeansOwned, ThreadMayTake
    <3> QED BY <2>1, <2>2, <3>1 DEF LockedMeansOwned
  <2>3. CASE ~ThreadMayTake
    <3>1. locked
      BY <2>3, <1>m
    <3>2. \A x \in Clients : Owner(x)' <=> Owner(x)
      BY <2>3 DEF Owner, Handed
    <3> QED BY <2>1, <2>3, <3>1, <3>2 DEF LockedMeansOwned
  <2> QED BY <2>2, <2>3
<1>6. ASSUME NEW x \in Clients, TryLock(x) PROVE OwnInv'
  <2> USE <1>6, <1>t DEF TryLock
  <2>1. CASE ThreadMayTake
    <3>1. StatesOK' /\ EntriesOK'
      BY <2>1 DEF PlacesOK, HandingOK, StatesOK, EntriesOK
    <3>2. \A y \in Clients : Owner(y)' <=> y = x
      BY <2>1 DEF Owner, Handed, LockedMeansOwned, StatesOK, ThreadMayTake
    <3> QED BY <2>1, <3>1, <3>2 DEF LockedMeansOwned
  <2>2. CASE ~ThreadMayTake
    <3>1. locked
      BY <2>2, <1>m
    <3>2. UNCHANGED <<locked, pc, blocked, state, entries, target>>
      BY <2>2
    <3>3. StatesOK' /\ EntriesOK'
      BY <3>2 DEF PlacesOK, HandingOK, StatesOK, EntriesOK
    <3> QED BY <3>1, <3>2, <3>3 DEF LockedMeansOwned, Owner, Handed
  <2> QED BY <2>1, <2>2
<1>7. ASSUME NEW x \in Clients, UnlockHandOver(x) PROVE OwnInv'
  <2> DEFINE n == HandTo(waiters)
             c == waiters[n].co
  <2>1. n \in DOMAIN waiters /\ Claimable(waiters[n])
    BY <1>7, <1>w, HandToOK DEF UnlockHandOver
  <2>2. c \in Coroutines /\ state[c] = "waiting"
    <3>1. waiters[n] \in Entries
      BY <1>w, <2>1
    <3> QED BY <2>1, <3>1 DEF Entries, Claimable
  <2>3. pc[c] = "parked"
    <3>1. pc[c] # "prepared"
      BY <1>7 DEF UnlockHandOver, InWindow, Claimable
    <3> QED BY <2>2, <3>1, <1>t DEF StatesOK
  <2>4. /\ target' = [target EXCEPT ![x] = c]
        /\ state' = [state EXCEPT ![c] = "ready"]
        /\ pc' = [pc EXCEPT ![x] = "handing"]
        /\ UNCHANGED <<locked, blocked, entries>>
        /\ pc[x] = "cs" /\ locked
    BY <1>7 DEF UnlockHandOver
  <2> HIDE DEF n, c
  <2> USE <2>2, <2>3, <2>4, <1>t
  <2>5. StatesOK'
    BY DEF PlacesOK, StatesOK
  <2>6. x # c /\ target[x] = Nobody /\ entries[c] = 0 /\ \A y \in Clients : target[y] # c
    BY SMTT(30) DEF EntriesOK, HandingOK, StatesOK
  <2>7. EntriesOK'
    BY <2>6 DEF EntriesOK, HandingOK
  <2>8. \A y \in Clients : Owner(y)' <=> y = c
    BY <2>6 DEF Owner, Handed, LockedMeansOwned, StatesOK
  <2> QED BY <2>5, <2>7, <2>8 DEF LockedMeansOwned
<1>8. ASSUME NEW x \in Clients, UnlockFree(x) PROVE OwnInv'
  <2> USE <1>8, <1>t DEF UnlockFree
  <2>1. StatesOK' /\ EntriesOK'
    BY DEF PlacesOK, HandingOK, StatesOK, EntriesOK
  <2>2. \A y \in Clients : ~Owner(y)'
    BY DEF Owner, Handed, LockedMeansOwned, StatesOK
  <2> QED BY <2>1, <2>2 DEF LockedMeansOwned
<1>9. ASSUME NEW x \in Clients, UnlockIgnored(x) PROVE OwnInv'
  <2>1. pc' = pc
    BY <1>9, <1>t DEF UnlockIgnored, LockedMeansOwned, Owner
  <2> QED BY <1>9, <2>1 DEF UnlockIgnored, StatesOK, EntriesOK, LockedMeansOwned,
                            Owner, Handed
<1>10. ASSUME NEW x \in Clients, EnqueueReady(x) PROVE OwnInv'
  <2> USE <1>10, <1>t DEF EnqueueReady
  <2> DEFINE c == target[x]
  <2>1. c \in Coroutines /\ pc[c] = "parked" /\ state[c] = "ready" /\ entries[c] = 0
    BY DEF EntriesOK, HandingOK
  <2>2. StatesOK'
    BY DEF PlacesOK, StatesOK
  <2>3. EntriesOK'
    BY <2>1 DEF EntriesOK, HandingOK
  <2>4. \A y \in Clients : Owner(y)' <=> Owner(y)
    BY DEF Owner, Handed
  <2> QED BY <2>2, <2>3, <2>4 DEF LockedMeansOwned
<1>11. ASSUME NEW x \in Clients, NotifyOne(x) PROVE OwnInv'
  <2> USE <1>11, <1>t DEF NotifyOne
  <2>1. StatesOK' /\ EntriesOK'
    BY DEF PlacesOK, HandingOK, StatesOK, EntriesOK
  <2>2. \A y \in Clients : Owner(y)' <=> Owner(y)
    BY DEF Owner, Handed, PlacesOK
  <2> QED BY <2>1, <2>2 DEF LockedMeansOwned
<1>12. CASE UNCHANGED vars
  BY <1>12 DEF vars, StatesOK, EntriesOK, LockedMeansOwned, Owner, Handed
<1> QED BY <1>1, <1>2, <1>3, <1>4, <1>5, <1>6, <1>7, <1>8, <1>9, <1>10, <1>11, <1>12
        DEF Next, Unlock, Finish

(* Once a hand-over has met a waiter in its swap, it has.                  *)
LEMMA OverlapStays == overlapped /\ [Next]_vars => overlapped'
BY DEF Next, vars, CoLockFast, CoLockWait, CoPark, CoResume, ThreadLock, TryLock, Unlock,
       UnlockHandOver, UnlockFree, UnlockIgnored, Finish, EnqueueReady, NotifyOne

(* The mutex keeps its inductive invariant.                                *)
LEMMA MutexInductive == Spec => []MutexInv
<1>1. MutexInv /\ [Next]_vars => MutexInv'
  BY BaseStep, OwnStep, OverlapStays DEF MutexInv
<1> QED BY <1>1, InitMutexInv, PTL DEF Spec

(* Mutual exclusion and no forgotten thread.  No thread ever sleeps on a   *)
(* free mutex without a notification under way; and `locked` is TRUE       *)
(* exactly while one client holds the mutex or has been handed it, until   *)
(* unlock() first hands it to a coroutine that is still between            *)
(* prepare_current_wait and the end of its swap.  unlock() does not wait   *)
(* for that end, and after such a hand-over ownership is not claimed.      *)
THEOREM MutexIsSound == Spec => []MutexSound
<1>1. MutexInv => MutexSound
  BY DEF MutexInv, BaseInv, OwnInv, MutexSound
<1> QED BY <1>1, MutexInductive, PTL

-----------------------------------------------------------------------------
(* The refinement of LockSpec.                                             *)

(* The holder of the abstract lock is the owner, if there is one.          *)
LEMMA HolderIsOwner ==
  ASSUME LockedMeansOwned
  PROVE  /\ \A x \in Clients : Owner(x) => holder = x
         /\ ~locked => holder = Nobody
         /\ locked => holder \in Clients /\ Owner(holder)
BY DEF holder, LockedMeansOwned

(* Every step of the mutex is one step of the lock specification, or none  *)
(* that its clients can see.                                               *)
LEMMA LockStep ==
  ASSUME BaseInv, BaseInv', OwnInv, OwnInv', [Next]_vars
  PROVE  [Abstract!Next]_<<holder, wanting>>
<1>h. /\ \A x \in Clients : Owner(x) => holder = x
      /\ ~locked => holder = Nobody
      /\ locked => holder \in Clients /\ Owner(holder)
  BY HolderIsOwner DEF OwnInv
<1>g. /\ \A x \in Clients : Owner(x)' => holder' = x
      /\ ~locked' => holder' = Nobody
      /\ locked' => holder' \in Clients /\ Owner(holder)'
  <2>1. LockedMeansOwned'
    BY DEF OwnInv
  <2> QED BY <2>1 DEF holder, LockedMeansOwned
<1>n. Nobody \notin Clients
  BY ClientsAssumption DEF Clients
<1> USE <1>n DEF BaseInv, OwnInv, TypeOK, Clients, Go
<1> DEFINE Asking(x) == \/ pc[x] \in {"blocked", "again"}
                        \/ x \in Coroutines /\ pc[x] \in {"prepared", "parked"} /\ state[x] = "waiting"
<1>a. wanting = {x \in Clients : Asking(x)} /\ wanting' = {x \in Clients : Asking(x)'}
  BY DEF wanting
<1> SUFFICES Abstract!Next \/ (holder' = holder /\ wanting' = wanting)
  OBVIOUS
<1>1. ASSUME NEW c \in Coroutines, CoLockFast(c) PROVE Abstract!Take(c)
  <2>1. holder = Nobody /\ c \notin wanting
    BY <1>1, <1>h, <1>a DEF CoLockFast
  <2>2. holder' = c
    <3>1. Owner(c)'
      BY <1>1 DEF CoLockFast, Owner
    <3> QED BY <1>g, <3>1
  <2>3. wanting' = wanting
    BY <1>1, <1>a DEF CoLockFast
  <2> QED BY <2>1, <2>2, <2>3 DEF Abstract!Take
<1>2. ASSUME NEW c \in Coroutines, CoLockWait(c) PROVE Abstract!Ask(c)
  <2>1. c \notin wanting /\ locked /\ ~Owner(c)
    BY <1>2, <1>a DEF CoLockWait, Owner, Handed
  <2>2. holder # c
    BY <2>1, <1>h
  <2>3. wanting' = wanting \cup {c}
    BY <1>2, <1>a DEF CoLockWait
  <2>4. holder' = holder
    <3>1. \A x \in Clients : Owner(x) => Owner(x)'
      BY <2>1, <1>2 DEF CoLockWait, Owner, Handed
    <3> QED BY <3>1, <2>1, <1>h, <1>g
  <2> QED BY <2>1, <2>2, <2>3, <2>4 DEF Abstract!Ask
<1>3. ASSUME NEW c \in Coroutines, CoPark(c) \/ CoResume(c)
      PROVE  holder' = holder /\ wanting' = wanting
  <2>0. locked' = locked
    BY <1>3 DEF CoPark, CoResume
  <2>1. \A x \in Clients : Asking(x)' <=> Asking(x)
    BY <1>3 DEF CoPark, CoResume, EntriesOK
  <2>2. \A x \in Clients : Owner(x) => Owner(x)'
    BY <1>3 DEF CoPark, CoResume, Owner, Handed
  <2> QED BY <2>0, <2>1, <2>2, <1>a, <1>h, <1>g
<1>4. ASSUME NEW t \in Threads, ThreadLock(t), ThreadMayTake
      PROVE  Abstract!Take(t) \/ Abstract!Grant(t)
  <2>1. holder = Nobody
    BY <1>4, <1>h DEF ThreadMayTake
  <2>2. holder' = t
    <3>1. Owner(t)'
      BY <1>4 DEF ThreadLock, Owner
    <3> QED BY <1>g, <3>1
  <2>3. wanting' = wanting \ {t}
    BY <1>4, <1>a, ClientsAssumption DEF ThreadLock
  <2> QED BY <2>1, <2>2, <2>3 DEF Abstract!Take, Abstract!Grant
<1>5. ASSUME NEW t \in Threads, ThreadLock(t), ~ThreadMayTake
      PROVE  Abstract!Ask(t) \/ (holder' = holder /\ wanting' = wanting)
  <2>1. ~Owner(t) /\ locked' = locked
    BY <1>5, ClientsAssumption DEF ThreadLock, Owner, Handed
  <2>2. wanting' = wanting \cup {t}
    BY <1>5, <1>a, ClientsAssumption DEF ThreadLock
  <2>3. \A x \in Clients : Owner(x) => Owner(x)'
    BY <1>5, ClientsAssumption DEF ThreadLock, Owner, Handed
  <2>4. holder' = holder /\ holder # t
    BY <2>1, <2>3, <1>h, <1>g
  <2> QED BY <2>2, <2>4 DEF Abstract!Ask
<1>6. ASSUME NEW x \in Clients, TryLock(x)
      PROVE  Abstract!Take(x) \/ (holder' = holder /\ wanting' = wanting)
  <2>1. CASE ThreadMayTake
    <3>1. holder = Nobody /\ x \notin wanting
      BY <1>6, <2>1, <1>h, <1>a DEF ThreadMayTake, TryLock
    <3>2. holder' = x
      <4>1. Owner(x)'
        BY <1>6, <2>1 DEF TryLock, Owner
      <4> QED BY <1>g, <4>1
    <3>3. wanting' = wanting
      BY <1>6, <2>1, <1>a DEF TryLock
    <3> QED BY <3>1, <3>2, <3>3 DEF Abstract!Take
  <2>2. CASE ~ThreadMayTake
    <3>1. pc' = pc /\ state' = state
      BY <1>6, <2>2 DEF TryLock
    <3> QED BY <3>1 DEF holder, wanting, Owner, Handed
  <2> QED BY <2>1, <2>2
<1>7. ASSUME NEW x \in Clients, UnlockHandOver(x)
      PROVE  \E c \in Clients : Abstract!Pass(c)
  <2> DEFINE n == HandTo(waiters)
  <2>0. waiters \in Seq(Entries)
    BY DEF Entries
  <2>1. n \in DOMAIN waiters /\ Claimable(waiters[n])
    BY <1>7, <2>0, HandToOK DEF UnlockHandOver
  <2>2. PICK c \in Coroutines : c = waiters[n].co /\ state[c] = "waiting"
    <3>1. waiters[n] \in Entries
      BY <2>0, <2>1
    <3> QED BY <2>1, <3>1 DEF Entries, Claimable
  <2>4. /\ state' = [state EXCEPT ![c] = "ready"]
        /\ pc' = [pc EXCEPT ![x] = "handing"]
        /\ pc[x] = "cs" /\ locked
    BY <1>7, <2>2 DEF UnlockHandOver
  <2> HIDE DEF n
  <2>5. pc[c] \in {"prepared", "parked"}
    BY <2>2 DEF StatesOK
  <2>6. holder # Nobody /\ c \in wanting
    BY <2>2, <2>4, <2>5, <1>h, <1>a
  <2>7. holder' = c
    <3>1. Owner(c)'
      BY <2>2, <2>4, <2>5 DEF Owner, Handed
    <3> QED BY <2>2, <3>1, <1>g
  <2>8. wanting' = wanting \ {c}
    <3>1. \A y \in Clients : Asking(y)' <=> (Asking(y) /\ y # c)
      BY <2>2, <2>4, <2>5
    <3> QED BY <3>1, <1>a
  <2>9. Abstract!Pass(c)
    BY <2>6, <2>7, <2>8 DEF Abstract!Pass
  <2> QED BY <2>2, <2>9
<1>8. ASSUME NEW x \in Clients, UnlockFree(x) PROVE Abstract!Release
  <2>1. holder # Nobody /\ holder' = Nobody
    BY <1>8, <1>h, <1>g DEF UnlockFree
  <2>2. wanting' = wanting
    BY <1>8, <1>a DEF UnlockFree
  <2> QED BY <2>1, <2>2 DEF Abstract!Release
<1>9. ASSUME NEW x \in Clients, UnlockIgnored(x) \/ EnqueueReady(x) \/ NotifyOne(x)
      PROVE  holder' = holder /\ wanting' = wanting
  <2>0. locked' = locked /\ state' = state
    BY <1>9 DEF UnlockIgnored, EnqueueReady, NotifyOne
  <2>1. \A y \in Clients : Asking(y)' <=> Asking(y)
    BY <1>9, <2>0, ClientsAssumption DEF UnlockIgnored, EnqueueReady, NotifyOne, PlacesOK
  <2>2. \A y \in Clients : Owner(y) => Owner(y)'
    <3>1. CASE UnlockIgnored(x)
      BY <3>1 DEF LockedMeansOwned, UnlockIgnored
    <3>2. CASE EnqueueReady(x)
      BY <3>2 DEF EnqueueReady, Owner, Handed
    <3>3. CASE NotifyOne(x)
      BY <3>3, ClientsAssumption DEF NotifyOne, Owner, Handed, PlacesOK
    <3> QED BY <1>9, <3>1, <3>2, <3>3
  <2> QED BY <2>0, <2>1, <2>2, <1>a, <1>h, <1>g
<1>10. CASE UNCHANGED vars
  BY <1>10 DEF vars, holder, wanting, Owner, Handed
<1> QED BY <1>1, <1>2, <1>3, <1>4, <1>5, <1>6, <1>7, <1>8, <1>9, <1>10
        DEF Next, Unlock, Finish, Abstract!Next

(* zco::Mutex implements the abstract lock - one holder at a time, and the *)
(* lock goes only to a client that asked for it - from its construction to *)
(* the first unlock() that hands it to a coroutine still in its swap,      *)
(* which nothing in the code prevents; after that nothing is claimed.      *)
THEOREM MutexImplementsLock == Spec => LocksUntilOverlap
<1>1. Init => Abstract!Init
  <2> SUFFICES ASSUME Init PROVE holder = Nobody /\ wanting = {}
    BY DEF Abstract!Init
  <2>1. \A x \in Clients : ~Owner(x)
    BY DEF Init, Owner, Handed, Clients
  <2> QED BY <2>1 DEF Init, holder, wanting, Clients
<1>2. MutexInv /\ MutexInv' /\ [Next]_vars
        => [overlapped' \/ [Abstract!Next]_<<holder, wanting>>]_vars
  <2> SUFFICES ASSUME MutexInv, MutexInv', [Next]_vars, ~overlapped'
               PROVE  [Abstract!Next]_<<holder, wanting>>
    OBVIOUS
  <2>1. ~overlapped
    BY OverlapStays
  <2> QED BY <2>1, LockStep DEF MutexInv
<1>3. Spec => []MutexInv
  BY MutexInductive
<1> QED BY <1>1, <1>2, <1>3, PTL DEF Spec, LocksUntilOverlap

(***************************************************************************)
(* zco::Channel                                                            *)
(***************************************************************************)

-----------------------------------------------------------------------------
(* The arithmetic of the ring.                                             *)

(* An index below the capacity is its own remainder.                       *)
LEMMA ModSmall ==
  ASSUME NEW c \in Nat \ {0}, NEW a \in 0..(c - 1)
  PROVE  a % c = a
OBVIOUS

(* One turn past the end comes out at the beginning.                       *)
LEMMA ModWrap ==
  ASSUME NEW c \in Nat \ {0}, NEW a \in c..(2 * c - 1)
  PROVE  a % c = a - c
OBVIOUS

(* The constructor never makes a ring without slots.                       *)
LEMMA CapacityOK == ChannelConstants => capacity \in Nat \ {0}
BY DEF ChannelConstants, capacity

-----------------------------------------------------------------------------
(* The inductive invariant.                                                *)

\* The free slots begin where the elements end.
RingOK == tail = (head + size) % capacity

\* An event is signalled whenever what its waiters want is there.
EventsOK == /\ size > 0 => signaled["not_empty"]
            /\ ~closed /\ ~Full(size) => signaled["not_full"]

\* A writer carries a value.
WritersOK == \A x \in Callers : caller[x].op = "write" => caller[x].val \in Values

\* The two parts of NobodySleepsPast; the claim may come before the park.
SleepersOK == \A x \in Callers :
  Sleeps(x) => IF caller[x].op = "read" THEN size = 0 ELSE closed \/ Full(size)
ClaimedOK == \A x \in Callers :
  caller[x].at \in {"listed", "parked"} /\ x \notin live => Expected(x) \/ x \in missed

ChannelInv == ChTypeOK /\ RingOK /\ EventsOK /\ WritersOK /\ SleepersOK /\ ClaimedOK

(* What a caller carries, by its place.                                    *)
LEMMA PlaceOfCall ==
  ASSUME NEW k \in Calls
  PROVE  /\ k.at \in CallPlaces => k \in Begun
         /\ k.op \in {"read", "write"} => k \in Begun
         /\ k.at = "out" => k = Idle
         /\ k.op = "resume" => /\ k.at = "resume" /\ k.list \subseteq Callers
                               /\ k.locked \in BOOLEAN /\ k.then \in Quiet
BY DEF Calls, Begun, Quiet, Idle, Closing, CallPlaces, Events

(* What stands in a caller that has no call and resumes nobody.            *)
LEMMA QuietOK ==
  ASSUME NEW k \in Quiet
  PROVE  k \in Calls /\ k.op \in {"none", "close"} /\ k.at \in {"out"} \cup Events
BY DEF Calls, Quiet, Idle, Closing, Events

(* A step that only moves calls from place to place, past no event, leaves *)
(* them well formed and the writers their values.                          *)
LEMMA ChGoOK ==
  ASSUME caller \in [Callers -> Calls], WritersOK, NEW x \in Callers, NEW place \in CallPlaces,
         caller[x].at \in CallPlaces, ChGo(x, place)
  PROVE  /\ caller' \in [Callers -> Calls] /\ WritersOK'
         /\ caller'[x].at = place /\ caller'[x].op = caller[x].op
         /\ \A y \in Callers : y # x => caller'[y] = caller[y]
<1>1. caller[x] \in Begun
  BY PlaceOfCall
<1>2. caller' = [caller EXCEPT ![x] = [caller[x] EXCEPT !.at = place]]
  BY DEF ChGo
<1> DEFINE k == [caller[x] EXCEPT !.at = place]
<1>3. k \in Begun /\ k.at = place /\ k.op = caller[x].op /\ k.val = caller[x].val
  BY <1>1 DEF Begun
<1>4. caller'[x] = k /\ \A y \in Callers : y # x => caller'[y] = caller[y]
  BY <1>2
<1>5. k \in Calls
  BY <1>3 DEF Calls
<1> HIDE DEF k
<1>6. caller' \in [Callers -> Calls]
  BY <1>2, <1>5 DEF k
<1> QED BY <1>3, <1>4, <1>6 DEF WritersOK

(* cv.notify_all moves only the threads in cv.wait on these events.        *)
LEMMA RecheckingOK ==
  ASSUME caller \in [Callers -> Calls], WritersOK, NEW es
  PROVE  /\ Rechecking(es) \in [Callers -> Calls]
         /\ \A y \in Callers :
              /\ Rechecking(es)[y].op = caller[y].op
              /\ Rechecking(es)[y].op = "write" => Rechecking(es)[y].val \in Values
              /\ Rechecking(es)[y].at # "notified" => Rechecking(es)[y] = caller[y]
              /\ Rechecking(es)[y].at = "blocked" => EventOf(caller[y].op) \notin es
              /\ Rechecking(es)[y].op = "resume" => Rechecking(es)[y] = caller[y]
              /\ caller[y].op = "resume" => Rechecking(es)[y] = caller[y]
<1> DEFINE r == Rechecking(es)
<1>1. ASSUME NEW y \in Callers
      PROVE  /\ r[y] \in Calls
             /\ r[y].op = caller[y].op
             /\ r[y].op = "write" => r[y].val \in Values
             /\ r[y].at # "notified" => r[y] = caller[y]
             /\ r[y].at = "blocked" => EventOf(caller[y].op) \notin es
             /\ r[y].op = "resume" => r[y] = caller[y]
             /\ caller[y].op = "resume" => r[y] = caller[y]
  <2>1. CASE caller[y].at = "blocked" /\ EventOf(caller[y].op) \in es
    <3>1. caller[y] \in Begun
      BY <2>1, PlaceOfCall DEF CallPlaces
    <3>2. r[y] = [caller[y] EXCEPT !.at = "notified"]
      BY <2>1 DEF Rechecking, At
    <3>3. r[y] \in Begun /\ r[y].at = "notified" /\ r[y].op = caller[y].op /\ r[y].val = caller[y].val
      BY <3>1, <3>2 DEF Begun, CallPlaces
    <3>4. r[y].op # "resume"
      BY <3>1, <3>3 DEF Begun
    <3> QED BY <3>3, <3>4 DEF Calls, WritersOK
  <2>2. CASE ~(caller[y].at = "blocked" /\ EventOf(caller[y].op) \in es)
    <3>1. r[y] = caller[y]
      BY <2>2 DEF Rechecking, At
    <3> QED BY <3>1, <2>2 DEF WritersOK
  <2> QED BY <2>1, <2>2
<1>2. r \in [Callers -> Calls]
  BY <1>1 DEF Rechecking
<1> QED BY <1>1, <1>2

(* signal() and notify_all() leave nobody asleep on these events, and who  *)
(* has lost his token stands in the list of the one who took it.           *)
LEMMA SignalOK ==
  ASSUME ChannelInv, NEW x \in Callers, caller[x].op # "resume", NEW es,
         NEW held \in BOOLEAN, NEW then \in Quiet, Signal(x, es, held, then), missed' = missed
  PROVE  /\ caller' \in [Callers -> Calls] /\ live' \subseteq Callers /\ WritersOK' /\ ClaimedOK'
         /\ \A y \in Callers : Sleeps(y)' => /\ Sleeps(y) /\ caller'[y] = caller[y]
                                             /\ EventOf(caller[y].op) \notin es
<1> DEFINE r == Rechecking(es)
           ws == Listed(es)
           k == IF ws = {} THEN then ELSE Signalling(ws, held, then)
<1>0. caller \in [Callers -> Calls] /\ live \subseteq Callers /\ missed \subseteq Callers
  BY DEF ChannelInv, ChTypeOK
<1>1. live' = live \ ws /\ caller' = [r EXCEPT ![x] = k]
  BY DEF Signal
<1>2. ws = {y \in live : EventOf(caller[y].op) \in es} /\ ws \subseteq Callers
  BY <1>0 DEF Listed
<1>3. /\ k \in Calls /\ k.op \notin {"read", "write"} /\ k.at \notin CallPlaces
      /\ ws # {} => k.op = "resume" /\ k.list = ws
  <2>1. CASE ws = {}
    BY <2>1, QuietOK DEF CallPlaces, Events
  <2>2. CASE ws # {}
    BY <2>2, <1>2 DEF Signalling, Calls, CallPlaces
  <2> QED BY <2>1, <2>2
<1>4. /\ r \in [Callers -> Calls]
      /\ \A y \in Callers :
              /\ r[y].op = caller[y].op
              /\ r[y].op = "write" => r[y].val \in Values
              /\ r[y].at # "notified" => r[y] = caller[y]
              /\ r[y].at = "blocked" => EventOf(caller[y].op) \notin es
              /\ caller[y].op = "resume" => r[y] = caller[y]
  <2> HIDE DEF r
  <2> QED BY <1>0, RecheckingOK DEF ChannelInv, r
<1> HIDE DEF r, k, ws
<1>5. caller'[x] = k /\ \A y \in Callers : y # x => caller'[y] = r[y]
  BY <1>1, <1>4
<1>6. caller' \in [Callers -> Calls] /\ live' \subseteq Callers /\ WritersOK'
  BY <1>0, <1>1, <1>3, <1>4, <1>5 DEF WritersOK
<1>7. ClaimedOK'
  <2> SUFFICES ASSUME NEW y \in Callers, caller'[y].at \in {"listed", "parked"}, y \notin live'
               PROVE  Expected(y)' \/ y \in missed
    BY DEF ClaimedOK
  <2>1. y # x /\ caller'[y] = caller[y]
    BY <1>3, <1>4, <1>5 DEF CallPlaces
  <2>2. CASE y \in ws
    BY <1>3, <1>5, <2>2 DEF Expected
  <2>3. CASE y \notin ws
    <3>1. y \notin live
      BY <1>1, <2>3
    <3>2. Expected(y) \/ y \in missed
      BY <2>1, <3>1 DEF ChannelInv, ClaimedOK
    <3>3. ASSUME NEW z \in Callers, caller[z].op = "resume", y \in caller[z].list
          PROVE  Expected(y)'
      BY <3>3, <1>4, <1>5 DEF Expected
    <3> QED BY <3>2, <3>3 DEF Expected
  <2> QED BY <2>2, <2>3
<1>8. ASSUME NEW y \in Callers, Sleeps(y)'
      PROVE  Sleeps(y) /\ caller'[y] = caller[y] /\ EventOf(caller[y].op) \notin es
  <2>1. y # x /\ caller'[y] = r[y] /\ caller'[y] = caller[y]
    BY <1>3, <1>4, <1>5, <1>8 DEF Sleeps, At, CallPlaces
  <2>2. Sleeps(y)
    BY <1>1, <1>8, <2>1 DEF Sleeps, At
  <2> QED BY <1>1, <1>2, <1>4, <1>8, <2>1, <2>2 DEF Sleeps, At
<1> QED BY <1>6, <1>7, <1>8

(* update_events_locked leaves nobody asleep past what he waits for, and   *)
(* the events as the new size and closed_ want them.                       *)
LEMMA UpdateEventsOK ==
  ASSUME ChannelInv, NEW x \in Callers, caller[x].op # "resume", NEW then \in Quiet,
         NEW n \in Nat, UpdateEvents(x, n, then), size' = n, missed' = missed
  PROVE  /\ caller' \in [Callers -> Calls] /\ signaled' \in [Events -> BOOLEAN]
         /\ live' \subseteq Callers /\ missed' \subseteq Callers
         /\ EventsOK' /\ WritersOK' /\ SleepersOK' /\ ClaimedOK'
<1> DEFINE es == ToSignal(n)
<1>1. Signal(x, es, TRUE, then) /\ signaled' = [e \in Events |-> e \in es]
  BY DEF UpdateEvents
<1>2. /\ "not_empty" \in es <=> n > 0
      /\ "not_full" \in es <=> CanWrite(n)
  BY DEF ToSignal, Events
<1> HIDE DEF es
<1>3. EventsOK'
  BY <1>1, <1>2 DEF EventsOK, CanWrite, Full, Events
<1>4. /\ caller' \in [Callers -> Calls] /\ live' \subseteq Callers /\ WritersOK' /\ ClaimedOK'
      /\ \A y \in Callers : Sleeps(y)' => /\ Sleeps(y) /\ caller'[y] = caller[y]
                                          /\ EventOf(caller[y].op) \notin es
  BY <1>1, SignalOK
<1>5. SleepersOK'
  <2> SUFFICES ASSUME NEW y \in Callers, Sleeps(y)'
               PROVE  IF caller'[y].op = "read" THEN n = 0 ELSE closed' \/ Full(n)
    BY DEF SleepersOK, Full
  <2>1. EventOf(caller'[y].op) \notin es
    BY <1>4
  <2> QED BY <2>1, <1>2 DEF CanWrite, EventOf
<1> QED BY <1>1, <1>3, <1>4, <1>5 DEF ChannelInv, ChTypeOK

(* A channel starts empty, open and with room for its writers.             *)
LEMMA InitChannelInv == ChannelConstants /\ ChInit => ChannelInv
<1> SUFFICES ASSUME ChannelConstants, ChInit PROVE ChannelInv
  OBVIOUS
<1>1. capacity \in Nat \ {0}
  BY CapacityOK
<1>2. \A x \in Callers : caller[x] = Idle
  BY DEF ChInit
<1>3. ChTypeOK
  <2>1. storage \in [Slots -> Values \cup {Unset}] /\ caller \in [Callers -> Calls]
    BY DEF ChInit, Calls, Quiet
  <2>2. head \in Slots /\ tail \in Slots /\ size \in 0..capacity
    BY <1>1 DEF ChInit, Slots
  <2>3. signaled \in [Events -> BOOLEAN]
    BY DEF ChInit
  <2> QED BY <2>1, <2>2, <2>3 DEF ChInit, ChTypeOK
<1>4. RingOK
  BY <1>1, ModSmall DEF ChInit, RingOK
<1>5. EventsOK /\ WritersOK /\ SleepersOK /\ ClaimedOK
  <2>0. Idle.op = "none" /\ Idle.at = "out"
    BY DEF Idle
  <2>1. \A x \in Callers : caller[x].op = "none" /\ caller[x].at = "out"
    BY <1>2, <2>0
  <2>2. EventsOK
    <3>1. "not_full" \in Events /\ size = 0
      BY DEF Events, ChInit
    <3>2. signaled["not_full"]
      BY <3>1, Zenon DEF ChInit
    <3> QED BY <3>1, <3>2 DEF EventsOK
  <2> QED BY <2>1, <2>2 DEF WritersOK, SleepersOK, ClaimedOK, Sleeps, At
<1> QED BY <1>3, <1>4, <1>5 DEF ChannelInv

(* Putting an element keeps the ring well formed.                          *)
LEMMA PushBackOK ==
  ASSUME ChannelConstants, ChTypeOK, RingOK, ~Full(size), NEW v \in Values, PushBack(v), head' = head
  PROVE  /\ storage' \in [Slots -> Values \cup {Unset}] /\ tail' \in Slots
         /\ size' \in 0..capacity /\ RingOK'
<1>1. capacity \in Nat \ {0}
  BY CapacityOK
<1>2. head \in 0..(capacity - 1) /\ tail \in 0..(capacity - 1) /\ size \in 0..(capacity - 1)
  BY <1>1 DEF ChTypeOK, Slots, Full
<1>3. storage' \in [Slots -> Values \cup {Unset}] /\ size' = size + 1 /\ tail' = (tail + 1) % capacity
  BY DEF PushBack, ChTypeOK
<1>4. tail' \in Slots
  BY <1>1, <1>2, <1>3 DEF Slots
<1>5. RingOK'
  <2> DEFINE c == capacity
  <2>0. tail = (head + size) % c /\ c \in Nat \ {0}
    BY <1>1 DEF RingOK
  <2> HIDE DEF c
  <2>1. ASSUME NEW a \in 0..(c - 1), NEW b \in 0..(c - 1)
        PROVE  (((a + b) % c) + 1) % c = (a + (b + 1)) % c
    <3>1. CASE a + b < c
      BY <2>0, <3>1, ModSmall
    <3>2. CASE a + b >= c
      <4>1. (a + b) % c = a + b - c
        BY <2>0, <3>2, ModWrap
      <4>2. (a + b - c + 1) % c = a + b - c + 1
        BY <2>0, <3>2, ModSmall
      <4>3. (a + (b + 1)) % c = a + b + 1 - c
        BY <2>0, <3>2, ModWrap
      <4> QED BY <4>1, <4>2, <4>3, <2>0
    <3> QED BY <3>1, <3>2, <2>0
  <2> QED BY <2>0, <2>1, <1>2, <1>3 DEF RingOK, c
<1> QED BY <1>1, <1>2, <1>3, <1>4, <1>5

(* Taking the first element keeps the ring well formed.                    *)
LEMMA PopFrontOK ==
  ASSUME ChannelConstants, ChTypeOK, RingOK, size > 0, PopFront, tail' = tail
  PROVE  /\ storage' \in [Slots -> Values \cup {Unset}] /\ head' \in Slots
         /\ out' \in Values \cup {Unset} /\ size' \in 0..capacity /\ RingOK'
<1>1. capacity \in Nat \ {0}
  BY CapacityOK
<1>2. head \in 0..(capacity - 1) /\ tail \in 0..(capacity - 1) /\ size \in 1..capacity
  BY <1>1 DEF ChTypeOK, Slots
<1>3. /\ storage' \in [Slots -> Values \cup {Unset}] /\ size' = size - 1
      /\ head' = (head + 1) % capacity /\ out' \in Values \cup {Unset}
  BY DEF PopFront, ChTypeOK
<1>4. head' \in Slots
  BY <1>1, <1>2, <1>3 DEF Slots
<1>5. RingOK'
  <2> DEFINE c == capacity
  <2>0. tail = (head + size) % c /\ c \in Nat \ {0}
    BY <1>1 DEF RingOK
  <2> HIDE DEF c
  <2>1. ASSUME NEW a \in 0..(c - 1), NEW b \in 1..c
        PROVE  (((a + 1) % c) + (b - 1)) % c = (a + b) % c
    <3>1. CASE a + 1 < c
      <4>1. (a + 1) % c = a + 1
        BY <2>0, <3>1, ModSmall
      <4>2. (a + 1) + (b - 1) = a + b
        BY <2>0
      <4> QED BY <4>1, <4>2
    <3>2. CASE a + 1 = c
      <4>1. (a + 1) % c = 0
        BY <2>0, <3>2, ModWrap
      <4>2. (b - 1) % c = b - 1 /\ (a + b) % c = a + b - c
        BY <2>0, <3>2, ModSmall, ModWrap
      <4> QED BY <4>1, <4>2, <2>0, <3>2
    <3> QED BY <3>1, <3>2, <2>0
  <2> QED BY <2>0, <2>1, <1>2, <1>3 DEF RingOK, c
<1> QED BY <1>1, <1>2, <1>3, <1>4, <1>5

(* A step that moves one call and puts nobody to sleep keeps who sleeps.   *)
LEMMA MoveOK ==
  ASSUME ChannelInv, NEW x \in Callers, UNCHANGED <<size, closed>>,
         \A y \in Callers : y # x => caller'[y] = caller[y],
         live' = live \/ live' = live \ {x}, missed' = missed \/ missed' = missed \ {x},
         caller[x].op # "resume" \/ caller'[x] = caller[x],
         caller'[x].at \notin {"listed", "parked", "blocked"}
  PROVE  SleepersOK' /\ ClaimedOK'
<1>1. ASSUME NEW y \in Callers, Sleeps(y)' PROVE y # x /\ caller'[y] = caller[y] /\ Sleeps(y)
  BY <1>1 DEF Sleeps, At
<1>2. SleepersOK'
  BY <1>1 DEF ChannelInv, SleepersOK, Full
<1>3. ClaimedOK'
  <2> SUFFICES ASSUME NEW y \in Callers, caller'[y].at \in {"listed", "parked"}, y \notin live'
               PROVE  Expected(y)' \/ y \in missed'
    BY DEF ClaimedOK
  <2>1. y # x /\ caller[y].at \in {"listed", "parked"} /\ y \notin live
    OBVIOUS
  <2>2. Expected(y) \/ y \in missed
    BY <2>1 DEF ChannelInv, ClaimedOK
  <2> QED BY <2>1, <2>2 DEF Expected
<1> QED BY <1>2, <1>3

(* The channel keeps its invariant.                                        *)
LEMMA ChannelInvStep ==
  ASSUME ChannelConstants, ChannelInv, [ChNext]_chvars
  PROVE  ChannelInv'
<1> USE DEF ChannelInv
<1>c. capacity \in Nat \ {0}
  BY CapacityOK
<1>i. Idle \in Calls /\ Idle.op = "none" /\ Idle.at = "out" /\ Idle \in Quiet
  BY DEF Idle, Calls, Quiet
<1>s. /\ size \in Nat /\ caller \in [Callers -> Calls]
      /\ live \subseteq Callers /\ missed \subseteq Callers
  BY <1>c DEF ChTypeOK
<1>q. ASSUME NEW x \in Callers, caller[x].at \in CallPlaces \cup {"out"} PROVE caller[x].op # "resume"
  BY <1>q, <1>s, PlaceOfCall DEF CallPlaces
<1>1. ASSUME NEW x \in Callers, NEW op \in {"read", "write"}, NEW v \in Values \cup {Unset},
             Begin(x, op, v), op = "write" => v \in Values
      PROVE  ChannelInv'
  <2>1. /\ Call(op, v) \in Calls
        /\ Call(op, v).op = op /\ Call(op, v).val = v /\ Call(op, v).at = "look"
    BY DEF Call, Calls, Begun, CallPlaces
  <2>2. caller' = [caller EXCEPT ![x] = Call(op, v)] /\ caller[x].at = "out"
        /\ UNCHANGED <<ring, signaled, live, missed>>
    BY <1>1 DEF Begin, At
  <2>3. ChTypeOK' /\ RingOK' /\ EventsOK'
    BY <2>1, <2>2 DEF ChTypeOK, RingOK, EventsOK, Full, ring
  <2>4. WritersOK'
    BY <1>1, <1>s, <2>1, <2>2 DEF WritersOK
  <2>5. /\ caller'[x] = Call(op, v) /\ \A y \in Callers : y # x => caller'[y] = caller[y]
    BY <1>s, <2>2
  <2>6. SleepersOK' /\ ClaimedOK'
    BY <1>q, <2>1, <2>2, <2>5, MoveOK DEF ring
  <2> QED BY <2>3, <2>4, <2>6
<1>2. ASSUME NEW x \in Callers, ReadTakes(x) PROVE ChannelInv'
  <2>1. size > 0 /\ PopFront /\ UNCHANGED <<tail, closed, missed>> /\ caller[x].at = "look"
        /\ UpdateEvents(x, size - 1, Idle) /\ size - 1 \in Nat /\ size' = size - 1
    BY <1>2, <1>s DEF ReadTakes, PopFront, Looks, At
  <2>2. /\ caller' \in [Callers -> Calls] /\ signaled' \in [Events -> BOOLEAN]
        /\ live' \subseteq Callers /\ missed' \subseteq Callers
        /\ EventsOK' /\ WritersOK' /\ SleepersOK' /\ ClaimedOK'
    BY <2>1, <1>q, <1>i, UpdateEventsOK DEF CallPlaces
  <2>3. /\ storage' \in [Slots -> Values \cup {Unset}] /\ head' \in Slots
        /\ out' \in Values \cup {Unset} /\ size' \in 0..capacity /\ RingOK'
    BY <2>1, PopFrontOK
  <2> QED BY <2>1, <2>2, <2>3 DEF ChTypeOK
<1>3. ASSUME NEW x \in Callers, ReadClosed(x) \/ WriteClosed(x) PROVE ChannelInv'
  <2>1. UNCHANGED <<ring, missed>> /\ UpdateEvents(x, size, Idle) /\ caller[x].at = "look"
    BY <1>3 DEF ReadClosed, WriteClosed, FailsClosed, Looks, At
  <2>2. /\ caller' \in [Callers -> Calls] /\ signaled' \in [Events -> BOOLEAN]
        /\ live' \subseteq Callers /\ missed' \subseteq Callers
        /\ EventsOK' /\ WritersOK' /\ SleepersOK' /\ ClaimedOK'
    BY <2>1, <1>q, <1>i, <1>s, UpdateEventsOK DEF CallPlaces, ring
  <2> QED BY <2>1, <2>2 DEF ChTypeOK, RingOK, ring
<1>4. ASSUME NEW x \in Callers, WritePuts(x) PROVE ChannelInv'
  <2>1. ~Full(size) /\ PushBack(caller[x].val) /\ UNCHANGED <<head, closed, out, missed>>
        /\ UpdateEvents(x, size + 1, Idle) /\ size + 1 \in Nat /\ size' = size + 1
        /\ caller[x].at = "look" /\ caller[x].op = "write"
    BY <1>4, <1>s DEF WritePuts, PushBack, Looks, At
  <2>2. /\ caller' \in [Callers -> Calls] /\ signaled' \in [Events -> BOOLEAN]
        /\ live' \subseteq Callers /\ missed' \subseteq Callers
        /\ EventsOK' /\ WritersOK' /\ SleepersOK' /\ ClaimedOK'
    BY <2>1, <1>q, <1>i, UpdateEventsOK DEF CallPlaces
  <2>3. caller[x].val \in Values
    BY <2>1 DEF WritersOK
  <2>4. /\ storage' \in [Slots -> Values \cup {Unset}] /\ tail' \in Slots
        /\ size' \in 0..capacity /\ RingOK'
    BY <2>1, <2>3, PushBackOK
  <2> QED BY <2>1, <2>2, <2>4 DEF ChTypeOK
<1>5. ASSUME NEW x \in Callers, NEW place \in CallPlaces \ {"listed", "parked", "blocked"},
             caller[x].at \in CallPlaces, ChGo(x, place), UNCHANGED <<ring, signaled>>,
             live' = live \/ live' = live \ {x}, missed' = missed \/ missed' = missed \ {x}
      PROVE  ChannelInv'
  <2>1. /\ caller' \in [Callers -> Calls] /\ WritersOK'
        /\ caller'[x].at = place
        /\ \A y \in Callers : y # x => caller'[y] = caller[y]
    BY <1>5, <1>s, ChGoOK
  <2>2. ChTypeOK' /\ RingOK' /\ EventsOK'
    BY <1>5, <1>s, <2>1 DEF ChTypeOK, RingOK, EventsOK, Full, ring
  <2>3. SleepersOK' /\ ClaimedOK'
    BY <1>5, <1>q, <2>1, MoveOK DEF ring
  <2> QED BY <2>1, <2>2, <2>3
<1>6. ASSUME NEW x \in Callers, caller[x].at \in CallPlaces,
             caller' = [caller EXCEPT ![x] = Idle], UNCHANGED <<ring, signaled>>,
             live' = live \/ live' = live \ {x}, missed' = missed \/ missed' = missed \ {x}
      PROVE  ChannelInv'
  <2>1. /\ caller' \in [Callers -> Calls] /\ WritersOK'
        /\ caller'[x] = Idle /\ \A y \in Callers : y # x => caller'[y] = caller[y]
    BY <1>6, <1>s, <1>i DEF WritersOK
  <2>2. ChTypeOK' /\ RingOK' /\ EventsOK'
    BY <1>6, <1>s, <2>1 DEF ChTypeOK, RingOK, EventsOK, Full, ring
  <2>3. SleepersOK' /\ ClaimedOK'
    BY <1>6, <1>i, <1>q, <2>1, MoveOK DEF ring
  <2> QED BY <2>1, <2>2, <2>3
\* Steps into a wait, or further into one: the flag of its event is down.
<1>7. ASSUME NEW x \in Callers, NEW place \in {"listed", "parked", "blocked"},
             caller[x].at \in CallPlaces, ChGo(x, place), UNCHANGED <<ring, signaled, missed>>,
             \/ ~Flag(x) /\ ((live' = live /\ place = "blocked") \/ live' = live \cup {x})
             \/ caller[x].at = "listed" /\ place = "parked" /\ live' = live
      PROVE  ChannelInv'
  <2>1. /\ caller' \in [Callers -> Calls] /\ WritersOK'
        /\ caller'[x].at = place /\ caller'[x].op = caller[x].op
        /\ \A y \in Callers : y # x => caller'[y] = caller[y]
    BY <1>7, <1>s, ChGoOK DEF CallPlaces
  <2>2. ChTypeOK' /\ RingOK' /\ EventsOK'
    BY <1>7, <1>s, <2>1 DEF ChTypeOK, RingOK, EventsOK, Full, ring
  <2>3. SleepersOK'
    <3>1. ASSUME NEW y \in Callers, y # x, Sleeps(y)' PROVE Sleeps(y) /\ caller'[y] = caller[y]
      BY <1>7, <2>1, <3>1 DEF Sleeps, At
    <3>2. Sleeps(x) \/ (IF caller[x].op = "read" THEN size = 0 ELSE closed \/ Full(size))
            \/ ~Sleeps(x)'
      <4>1. CASE ~Flag(x)
        <5>1. size = 0 \/ caller[x].op # "read"
          BY <4>1, <1>s DEF Flag, EventOf, EventsOK
        <5>2. closed \/ Full(size) \/ caller[x].op = "read"
          BY <4>1 DEF Flag, EventOf, EventsOK
        <5> QED BY <5>1, <5>2
      <4>2. CASE caller[x].at = "listed" /\ place = "parked" /\ live' = live
        BY <4>2, <2>1 DEF Sleeps, At
      <4> QED BY <1>7, <4>1, <4>2
    <3> QED BY <1>7, <2>1, <3>1, <3>2 DEF SleepersOK, Full, ring
  <2>4. ClaimedOK'
    <3> SUFFICES ASSUME NEW y \in Callers, caller'[y].at \in {"listed", "parked"}, y \notin live'
                 PROVE  Expected(y)' \/ y \in missed
      BY <1>7 DEF ClaimedOK
    <3>1. caller[y].at \in {"listed", "parked"} /\ y \notin live
      BY <1>7, <2>1
    <3>2. Expected(y) \/ y \in missed
      BY <3>1 DEF ClaimedOK
    <3>3. caller[x].op # "resume"
      BY <1>7, <1>q
    <3> QED BY <2>1, <3>2, <3>3 DEF Expected
  <2> QED BY <2>1, <2>2, <2>3, <2>4
<1>8. ASSUME NEW x \in Callers, NEW y \in Callers, ResumeNext(x, y) PROVE ChannelInv'
  <2> DEFINE ky == Woken(caller[y])
             kx == Rest(caller[x], y)
  <2>1. /\ caller[x].op = "resume" /\ y \in caller[x].list /\ UNCHANGED <<ring, signaled, live>>
        /\ missed' = IF caller[y].at = "listed" /\ y \notin live THEN missed \cup {y} ELSE missed
    BY <1>8 DEF ResumeNext, At
  <2>2. /\ caller[x].at = "resume" /\ caller[x].list \subseteq Callers
        /\ caller[x].locked \in BOOLEAN /\ caller[x].then \in Quiet
    BY <2>1, <1>s, PlaceOfCall
  <2>3. /\ ky \in Calls /\ ky.op = caller[y].op
        /\ ky.op = "write" => ky.val \in Values
        /\ ky.at = IF caller[y].at = "parked" THEN "ready" ELSE caller[y].at
        /\ ky.op = "resume" => ky = caller[y]
    <3>0. caller[y] \in Calls
      BY <1>s
    <3>1. CASE caller[y].at = "parked"
      <4>1. caller[y] \in Begun
        BY <3>0, <3>1, PlaceOfCall DEF CallPlaces
      <4>2. ky \in Begun /\ ky.op = caller[y].op /\ ky.val = caller[y].val /\ ky.at = "ready"
        BY <3>1, <4>1 DEF Woken, Begun, CallPlaces
      <4>3. ky.op # "resume" /\ ky \in Calls
        BY <4>2 DEF Begun, Calls
      <4> HIDE DEF ky
      <4> QED BY <3>1, <4>2, <4>3 DEF WritersOK
    <3>2. CASE caller[y].at # "parked"
      <4>1. ky = caller[y]
        BY <3>2 DEF Woken
      <4> HIDE DEF ky
      <4> QED BY <3>0, <3>2, <4>1 DEF WritersOK
    <3> QED BY <3>1, <3>2
  <2>4. /\ kx \in Calls /\ kx.op \notin {"read", "write"} /\ kx.at \notin CallPlaces
        /\ \A w \in Callers : w # y /\ w \in caller[x].list => kx.op = "resume" /\ w \in kx.list
    <3>0. caller[x] \in [op : {"resume"}, at : {"resume"}, list : SUBSET Callers,
                         locked : BOOLEAN, then : Quiet]
      BY <2>1, <1>s DEF Calls, Begun, Quiet, Idle, Closing
    <3>1. CASE caller[x].list = {y}
      BY <3>1, <2>2, QuietOK DEF Rest, CallPlaces, Events
    <3>2. CASE caller[x].list # {y}
      BY <3>0, <3>2 DEF Rest, Calls, CallPlaces
    <3> QED BY <3>1, <3>2
  <2>5. caller'[x] = kx /\ (y # x => caller'[y] = ky)
        /\ caller' \in [Callers -> Calls]
        /\ \A w \in Callers : w # x /\ w # y => caller'[w] = caller[w]
    <3>1. caller' = [caller EXCEPT ![y] = Woken(@), ![x] = Rest(@, y)]
      BY <1>8 DEF ResumeNext
    <3>2. x = y => Woken(caller[y]) = caller[x]
      BY <2>2 DEF Woken
    <3>3. caller' = [caller EXCEPT ![y] = ky, ![x] = kx]
      BY <1>s, <3>1, <3>2
    <3> HIDE DEF ky, kx
    <3> QED BY <1>s, <2>3, <2>4, <3>3
  <2> HIDE DEF ky, kx
  <2>6. WritersOK'
    BY <2>3, <2>4, <2>5 DEF WritersOK
  <2>7. ChTypeOK' /\ RingOK' /\ EventsOK'
    BY <1>s, <2>1, <2>5 DEF ChTypeOK, RingOK, EventsOK, Full, ring
  <2>8. ASSUME NEW w \in Callers, caller'[w].at \in {"listed", "parked", "blocked"}
        PROVE  w # x /\ caller[w].at = caller'[w].at /\ caller[w].op = caller'[w].op
    BY <2>3, <2>4, <2>5, <2>8 DEF CallPlaces
  <2>9. SleepersOK'
    BY <2>1, <2>8 DEF SleepersOK, Sleeps, At, Full, ring
  <2>10. ClaimedOK'
    <3> SUFFICES ASSUME NEW w \in Callers, caller'[w].at \in {"listed", "parked"}, w \notin live
                 PROVE  Expected(w)' \/ w \in missed'
      BY <2>1 DEF ClaimedOK
    <3>1. w # x /\ caller[w].at = caller'[w].at
      BY <2>8
    <3>2. CASE w = y
      BY <2>1, <2>3, <2>5, <3>1, <3>2
    <3>3. CASE w # y
      <4>1. Expected(w) \/ w \in missed
        BY <3>1 DEF ClaimedOK
      <4>2. ASSUME NEW z \in Callers, caller[z].op = "resume", w \in caller[z].list
            PROVE  caller'[z].op = "resume" /\ w \in caller'[z].list
        BY <2>3, <2>4, <2>5, <3>3, <4>2
      <4> QED BY <2>1, <4>1, <4>2 DEF Expected
    <3> QED BY <3>2, <3>3
  <2> QED BY <2>6, <2>7, <2>9, <2>10
<1>9. ASSUME NEW x \in Callers, CloseMark(x) PROVE ChannelInv'
  <2>1. closed' = TRUE /\ UNCHANGED <<storage, head, tail, size, out, missed>>
        /\ UpdateEvents(x, size, Closing("not_empty")) /\ caller[x].at = "out"
    BY <1>9 DEF CloseMark, At
  <2>2. Closing("not_empty") \in Quiet
    BY DEF Quiet, Events
  <2>3. /\ caller' \in [Callers -> Calls] /\ signaled' \in [Events -> BOOLEAN]
        /\ live' \subseteq Callers /\ missed' \subseteq Callers
        /\ EventsOK' /\ WritersOK' /\ SleepersOK' /\ ClaimedOK'
    BY <1>s, <1>q, <2>1, <2>2, UpdateEventsOK
  <2> QED BY <2>1, <2>3 DEF ChTypeOK, RingOK
<1>10. ASSUME NEW x \in Callers, NEW e \in Events, CloseNotify(x, e) PROVE ChannelInv'
  <2>1. /\ caller[x] = Closing(e) /\ signaled' = [signaled EXCEPT ![e] = TRUE]
        /\ Signal(x, {e}, FALSE, AfterNotify(e)) /\ UNCHANGED <<ring, missed>>
    BY <1>10 DEF CloseNotify
  <2>2. AfterNotify(e) \in Quiet /\ caller[x].op # "resume"
    BY <1>i, <2>1 DEF AfterNotify, Quiet, Events, Closing
  <2>3. /\ caller' \in [Callers -> Calls] /\ live' \subseteq Callers /\ WritersOK' /\ ClaimedOK'
        /\ \A y \in Callers : Sleeps(y)' => Sleeps(y) /\ caller'[y] = caller[y]
    BY <2>1, <2>2, SignalOK
  <2>4. ChTypeOK' /\ RingOK' /\ EventsOK'
    BY <2>1, <2>3 DEF ChTypeOK, RingOK, EventsOK, Events, Full, ring
  <2>5. SleepersOK'
    BY <2>1, <2>3 DEF SleepersOK, Full, ring
  <2> QED BY <2>3, <2>4, <2>5
<1>11. ASSUME NEW x \in Callers, LookFails(x) PROVE ChannelInv'
  BY <1>5, <1>11 DEF LookFails, Looks, At, CallPlaces
<1>12. ASSUME NEW x \in Callers, WaitEvent(x) PROVE ChannelInv'
  <2>1. caller[x].at = "wait" /\ UNCHANGED <<ring, signaled, missed>>
    BY <1>12 DEF WaitEvent, At
  <2>2. CASE Flag(x)
    <3>1. ChGo(x, "look") /\ live' = live
      BY <1>12, <2>2 DEF WaitEvent
    <3> QED BY <1>5, <2>1, <3>1 DEF CallPlaces
  <2>3. CASE ~Flag(x) /\ x \in ThreadCallers
    <3>1. ChGo(x, "blocked") /\ live' = live
      BY <1>12, <2>3 DEF WaitEvent
    <3> QED BY <1>7, <2>1, <2>3, <3>1 DEF CallPlaces
  <2>4. CASE ~Flag(x) /\ x \notin ThreadCallers
    <3>1. ChGo(x, "listed") /\ live' = live \cup {x}
      BY <1>12, <2>4 DEF WaitEvent
    <3> QED BY <1>7, <2>1, <2>4, <3>1 DEF CallPlaces
  <2> QED BY <2>2, <2>3, <2>4
<1>13. ASSUME NEW x \in Callers, Park(x) PROVE ChannelInv'
  BY <1>7, <1>13 DEF Park, At, CallPlaces
<1>14. ASSUME NEW x \in Callers, TimerFires(x) \/ StrayResume(x) PROVE ChannelInv'
  BY <1>5, <1>14 DEF TimerFires, StrayResume, At, CallPlaces
<1>15. ASSUME NEW x \in Callers, WaitReturns(x) PROVE ChannelInv'
  BY <1>5, <1>15 DEF WaitReturns, At, CallPlaces
<1>16. ASSUME NEW x \in Callers, WaitTimesOut(x) PROVE ChannelInv'
  BY <1>6, <1>16 DEF WaitTimesOut, At, CallPlaces
<1>17. ASSUME NEW x \in Callers, ThreadWoken(x) PROVE ChannelInv'
  <2>1. caller[x].at = "notified" /\ UNCHANGED <<ring, signaled, live, missed>>
        /\ ChGo(x, IF Flag(x) THEN "look" ELSE "blocked")
    BY <1>17 DEF ThreadWoken, At
  <2>2. CASE Flag(x)
    BY <1>5, <2>1, <2>2 DEF CallPlaces
  <2>3. CASE ~Flag(x)
    BY <1>7, <2>1, <2>3 DEF CallPlaces
  <2> QED BY <2>2, <2>3
<1>18. ASSUME NEW x \in Callers, ThreadTimesOut(x) PROVE ChannelInv'
  <2>1. caller[x].at \in CallPlaces /\ UNCHANGED <<ring, signaled, live, missed>>
    BY <1>18 DEF ThreadTimesOut, CallPlaces
  <2>2. CASE Flag(x)
    <3>1. ChGo(x, "look")
      BY <1>18, <2>2 DEF ThreadTimesOut
    <3> QED BY <1>5, <2>1, <3>1 DEF CallPlaces
  <2>3. CASE ~Flag(x)
    <3>1. caller' = [caller EXCEPT ![x] = Idle]
      BY <1>18, <2>3 DEF ThreadTimesOut
    <3> QED BY <1>6, <2>1, <3>1
  <2> QED BY <2>2, <2>3
<1>19. CASE UNCHANGED chvars
  BY <1>19 DEF chvars, ring, ChTypeOK, RingOK, EventsOK, WritersOK, SleepersOK, ClaimedOK, Sleeps,
               Expected, At, Full
<1>20. ASSUME NEW x \in Callers, Begin(x, "read", Unset) PROVE ChannelInv'
  BY <1>1, <1>20
<1>21. ASSUME NEW x \in Callers, NEW v \in Writes[x], Begin(x, "write", v) PROVE ChannelInv'
  <2>1. v \in Values
    BY DEF ChannelConstants
  <2> QED BY <1>1, <1>21, <2>1
<1> QED BY <1>2, <1>3, <1>4, <1>8, <1>9, <1>10, <1>11, <1>12, <1>13, <1>14, <1>15, <1>16, <1>17,
           <1>18, <1>19, <1>20, <1>21 DEF ChNext, Turn

(* The channel keeps its inductive invariant.                              *)
LEMMA ChannelInductive == ChSpec => []ChannelInv
<1> USE ChannelAssumption
<1>1. ChannelInv /\ [ChNext]_chvars => ChannelInv'
  BY ChannelInvStep
<1>2. ChInit => ChannelInv
  BY InitChannelInv
<1> QED BY <1>1, <1>2, PTL DEF ChSpec

(* No wake-up is missed between the look under mutex_ and the wait on the  *)
(* event: a sleeper with a live token means an empty ring, or a full or    *)
(* closed one, and one whose token was claimed has its resume on the way.  *)
(* Stated to except one loss, which the code has: the resume that runs     *)
(* before the coroutine has prepared its wait.                             *)
THEOREM SleepersHaveReason == ChSpec => []NobodySleepsPast
<1>1. ChannelInv => NobodySleepsPast
  BY DEF ChannelInv, SleepersOK, ClaimedOK, NobodySleepsPast, At
<1> QED BY <1>1, ChannelInductive, PTL

-----------------------------------------------------------------------------
(* The refinement of ChannelSpec: read from head_, the ring is a queue.    *)

(* A function on the positions 1 to n is a sequence of length n.           *)
LEMMA FunctionIsSeq ==
  ASSUME NEW S, NEW n \in Nat, NEW q \in [1..n -> S]
  PROVE  q \in Seq(S) /\ Len(q) = n
OBVIOUS

(* A sequence is the function of its elements.                             *)
LEMMA SeqIsFunction ==
  ASSUME NEW S, NEW s \in Seq(S), NEW n \in Nat, Len(s) = n
  PROVE  s = [i \in 1..n |-> s[i]]
OBVIOUS

(* The position of the i-th element.                                       *)
LEMMA IndexOK ==
  ASSUME NEW c \in Nat \ {0}, NEW h \in 0..(c - 1), NEW i \in 1..c
  PROVE  /\ (h + i - 1) % c \in 0..(c - 1)
         /\ (h + i - 1) % c = IF h + i - 1 < c THEN h + i - 1 ELSE h + i - 1 - c
<1>1. CASE h + i - 1 < c
  BY <1>1, ModSmall
<1>2. CASE h + i - 1 >= c
  <2>1. h + i - 1 \in c..(2 * c - 1)
    BY <1>2
  <2>2. (h + i - 1) % c = h + i - 1 - c
    BY <2>1, ModWrap
  <2> QED BY <2>2, <1>2
<1> QED BY <1>1, <1>2

(* The ring read from head_ is a sequence of as many elements as size_.    *)
LEMMA QueueOK ==
  ASSUME ChannelConstants, ChTypeOK
  PROVE  /\ queue \in Seq(Values \cup {Unset}) /\ Len(queue) = size /\ size \in Nat
         /\ \A i \in 1..size : queue[i] = storage[(head + i - 1) % capacity]
<1>1. capacity \in Nat \ {0} /\ size \in 0..capacity /\ head \in 0..(capacity - 1)
  BY CapacityOK DEF ChTypeOK, Slots
<1>2. \A i \in 1..size : (head + i - 1) % capacity \in Slots
  BY <1>1, IndexOK DEF Slots
<1>3. queue \in [1..size -> Values \cup {Unset}]
  BY <1>2 DEF queue, ChTypeOK
<1>4. queue \in Seq(Values \cup {Unset}) /\ Len(queue) = size
  BY <1>1, <1>3, FunctionIsSeq
<1> QED BY <1>1, <1>4 DEF queue

(* push_back on the ring appends to the queue.                             *)
LEMMA PushAppends ==
  ASSUME ChannelConstants, ChannelInv, ChannelInv', ~Full(size), NEW v \in Values, PushBack(v), head' = head
  PROVE  queue' = Append(queue, v)
<1>1. capacity \in Nat \ {0} /\ size \in 0..(capacity - 1) /\ head \in 0..(capacity - 1)
  BY CapacityOK DEF ChannelInv, ChTypeOK, Slots, Full
<1>2. /\ queue \in Seq(Values \cup {Unset}) /\ Len(queue) = size
      /\ \A i \in 1..size : queue[i] = storage[(head + i - 1) % capacity]
  BY QueueOK DEF ChannelInv
<1>3. /\ storage' = [storage EXCEPT ![tail] = v] /\ size' = size + 1
      /\ tail = (head + size) % capacity /\ tail \in Slots /\ storage \in [Slots -> Values \cup {Unset}]
  BY DEF PushBack, ChannelInv, RingOK, ChTypeOK
<1>4. queue' = [i \in 1..(size + 1) |-> storage'[(head + i - 1) % capacity]]
  BY <1>3 DEF queue
<1>5. ASSUME NEW i \in 1..(size + 1)
      PROVE  storage'[(head + i - 1) % capacity] = Append(queue, v)[i]
  <2>0. /\ (head + i - 1) % capacity \in Slots
        /\ (head + i - 1) % capacity
              = IF head + i - 1 < capacity THEN head + i - 1 ELSE head + i - 1 - capacity
    <3>1. i \in 1..capacity
      BY <1>1
    <3> QED BY <3>1, <1>1, IndexOK DEF Slots
  <2>1. tail = IF head + size < capacity THEN head + size ELSE head + size - capacity
    <3>1. size + 1 \in 1..capacity /\ head + (size + 1) - 1 = head + size
      BY <1>1
    <3>2. (head + (size + 1) - 1) % capacity = IF head + (size + 1) - 1 < capacity
             THEN head + (size + 1) - 1 ELSE head + (size + 1) - 1 - capacity
      BY <3>1, <1>1, IndexOK
    <3>3. tail = (head + (size + 1) - 1) % capacity
      BY <3>1, <1>3
    <3> QED BY <3>1, <3>2, <3>3, <1>1
  <2>2. CASE i = size + 1
    <3>1. (head + i - 1) % capacity = tail
      BY <2>0, <2>1, <2>2, <1>1
    <3> QED BY <3>1, <2>2, <1>2, <1>3
  <2>3. CASE i # size + 1
    <3>1. (head + i - 1) % capacity # tail /\ i \in 1..size
      BY <2>0, <2>1, <2>3, <1>1
    <3>2. storage'[(head + i - 1) % capacity] = storage[(head + i - 1) % capacity]
      BY <3>1, <2>0, <1>3
    <3> QED BY <3>1, <3>2, <1>2
  <2> QED BY <2>2, <2>3
<1>6. Append(queue, v) \in Seq(Values \cup {Unset}) /\ Len(Append(queue, v)) = size + 1
  BY <1>2
<1>7. Append(queue, v) = [i \in 1..(size + 1) |-> Append(queue, v)[i]]
  <2> DEFINE a == Append(queue, v)
             n == size + 1
  <2>1. a \in Seq(Values \cup {Unset}) /\ Len(a) = n /\ n \in Nat
    BY <1>1, <1>6
  <2> HIDE DEF a, n
  <2>2. a = [i \in 1..n |-> a[i]]
    BY <2>1, SeqIsFunction
  <2> QED BY <2>2 DEF a, n
<1> QED BY <1>4, <1>5, <1>7

(* pop_front on the ring takes the head off the queue.                     *)
LEMMA PopTakes ==
  ASSUME ChannelConstants, ChannelInv, ChannelInv', size > 0, PopFront
  PROVE  queue # <<>> /\ out' = Head(queue) /\ queue' = Tail(queue)
<1>1. capacity \in Nat \ {0} /\ size \in 1..capacity /\ head \in 0..(capacity - 1)
  BY CapacityOK DEF ChannelInv, ChTypeOK, Slots
<1>2. /\ queue \in Seq(Values \cup {Unset}) /\ Len(queue) = size
      /\ \A i \in 1..size : queue[i] = storage[(head + i - 1) % capacity]
  BY QueueOK DEF ChannelInv
<1>3. /\ storage' = [storage EXCEPT ![head] = Unset] /\ size' = size - 1
      /\ head' = (head + 1) % capacity /\ out' = storage[head]
      /\ head \in Slots /\ storage \in [Slots -> Values \cup {Unset}]
  BY DEF PopFront, ChannelInv, ChTypeOK
<1>4. queue # <<>> /\ out' = Head(queue)
  <2>1. (head + 1 - 1) % capacity = head
    BY <1>1, IndexOK
  <2> QED BY <2>1, <1>1, <1>2, <1>3
<1>5. queue' = [i \in 1..(size - 1) |-> storage'[(head' + i - 1) % capacity]]
  BY <1>3 DEF queue
<1>6. ASSUME NEW i \in 1..(size - 1)
      PROVE  storage'[(head' + i - 1) % capacity] = Tail(queue)[i]
  <2>1. head' = IF head + 1 < capacity THEN head + 1 ELSE 0
    <3>1. CASE head + 1 < capacity
      BY <3>1, <1>1, <1>3, ModSmall
    <3>2. CASE head + 1 = capacity
      BY <3>2, <1>1, <1>3, ModWrap
    <3> QED BY <3>1, <3>2, <1>1
  <2>2. head' \in 0..(capacity - 1) /\ i \in 1..capacity /\ i + 1 \in 1..size /\ i + 1 \in 1..capacity
    BY <2>1, <1>1
  <2>3. /\ (head' + i - 1) % capacity \in Slots
        /\ (head' + i - 1) % capacity
              = IF head' + i - 1 < capacity THEN head' + i - 1 ELSE head' + i - 1 - capacity
    BY <1>1, <2>2, IndexOK DEF Slots
  <2>4. (head + (i + 1) - 1) % capacity
              = IF head + (i + 1) - 1 < capacity THEN head + (i + 1) - 1
                                                 ELSE head + (i + 1) - 1 - capacity
    BY <1>1, <2>2, IndexOK
  <2>5. (head' + i - 1) % capacity = (head + (i + 1) - 1) % capacity
    BY <2>1, <2>2, <2>3, <2>4, <1>1
  <2>6. (head' + i - 1) % capacity # head
    BY <2>1, <2>2, <2>3, <1>1
  <2>7. storage'[(head' + i - 1) % capacity] = storage[(head + (i + 1) - 1) % capacity]
    BY <2>3, <2>5, <2>6, <1>3
  <2> QED BY <2>7, <2>2, <1>2, <1>4
<1>7. Tail(queue) = [i \in 1..(size - 1) |-> Tail(queue)[i]]
  <2>1. Tail(queue) \in Seq(Values \cup {Unset}) /\ Len(Tail(queue)) = size - 1 /\ size - 1 \in Nat
    BY <1>1, <1>2, <1>4
  <2> QED BY <2>1, SeqIsFunction
<1> QED BY <1>4, <1>5, <1>6, <1>7

(* Every step of the channel is one of the queue specification, or none    *)
(* that its users can see.                                                 *)
LEMMA QueueStep ==
  ASSUME ChannelConstants, ChannelInv, ChannelInv', [ChNext]_chvars
  PROVE  [Queue!Next]_<<queue, closed, out>>
<1>1. ASSUME UNCHANGED ring
      PROVE  UNCHANGED <<queue, closed, out>>
  BY <1>1 DEF queue, ring
<1>2. ASSUME NEW x \in Callers, ReadTakes(x) PROVE Queue!Take
  <2>1. size > 0 /\ PopFront /\ closed' = closed
    BY <1>2 DEF ReadTakes
  <2> QED BY <2>1, PopTakes DEF Queue!Take
<1>3. ASSUME NEW x \in Callers, WritePuts(x) PROVE \E v \in Values : Queue!Put(v)
  <2>1. ~closed /\ ~Full(size) /\ PushBack(caller[x].val) /\ UNCHANGED <<head, closed, out>>
    BY <1>3 DEF WritePuts
  <2>2. caller[x].val \in Values
    BY <1>3 DEF WritePuts, Looks, ChannelInv, WritersOK
  <2>3. queue' = Append(queue, caller[x].val)
    BY <2>1, <2>2, PushAppends
  <2>4. Len(queue) < capacity
    BY <2>1, QueueOK, CapacityOK DEF ChannelInv, ChTypeOK, Full
  <2>5. Queue!Put(caller[x].val)
    BY <2>1, <2>3, <2>4 DEF Queue!Put
  <2> QED BY <2>2, <2>5
<1>4. ASSUME NEW x \in Callers, CloseMark(x) PROVE Queue!Close
  BY <1>4 DEF CloseMark, Queue!Close, queue
<1>5. ASSUME NEW x \in Callers, NEW op, NEW v,
             \/ Begin(x, op, v) \/ ReadClosed(x) \/ WriteClosed(x) \/ LookFails(x)
             \/ WaitEvent(x) \/ Park(x) \/ TimerFires(x) \/ StrayResume(x)
             \/ WaitReturns(x) \/ WaitTimesOut(x) \/ ThreadWoken(x) \/ ThreadTimesOut(x)
      PROVE  UNCHANGED ring
  BY <1>5 DEF Begin, ReadClosed, WriteClosed, FailsClosed, LookFails, WaitEvent, Park, TimerFires,
              StrayResume, WaitReturns, WaitTimesOut, ThreadWoken, ThreadTimesOut
<1>6. ASSUME NEW x \in Callers, NEW y, ResumeNext(x, y) \/ CloseNotify(x, y) PROVE UNCHANGED ring
  BY <1>6 DEF ResumeNext, CloseNotify
<1>7. CASE UNCHANGED chvars
  BY <1>1, <1>7 DEF chvars
<1>8. CASE ChNext
  <2>1. PICK x \in Callers :
          \/ Begin(x, "read", Unset)
          \/ \E v \in Writes[x] : Begin(x, "write", v)
          \/ CloseMark(x) \/ Turn(x) \/ TimerFires(x) \/ StrayResume(x) \/ ThreadTimesOut(x)
    BY <1>8 DEF ChNext
  <2>2. UNCHANGED ring \/ ReadTakes(x) \/ WritePuts(x) \/ CloseMark(x)
    BY <2>1, <1>5, <1>6 DEF Turn
  <2> QED BY <2>2, <1>1, <1>2, <1>3, <1>4 DEF Queue!Next
<1> QED BY <1>7, <1>8

(* zco::Channel implements a bounded first-in first-out queue that can be  *)
(* closed.                                                                 *)
THEOREM ChannelIsQueue == ChSpec => ImplementsChannel
<1> SUFFICES ChSpec => Queue!Spec
  BY DEF ImplementsChannel
<1>1. ChInit => Queue!Init
  <2> SUFFICES ASSUME ChInit PROVE queue = <<>> /\ closed = FALSE /\ out = Unset
    BY DEF Queue!Init
  <2> QED BY DEF ChInit, queue
<1>2. ChannelInv /\ ChannelInv' /\ [ChNext]_chvars => [Queue!Next]_<<queue, closed, out>>
  BY ChannelAssumption, QueueStep
<1>3. ChSpec => []ChannelInv
  BY ChannelInductive
<1> QED BY <1>1, <1>2, <1>3, PTL DEF ChSpec, Queue!Spec

(***************************************************************************)
(* zlog::AsyncLooper                                                       *)
(***************************************************************************)

-----------------------------------------------------------------------------
(* Buffer                                                                  *)

\* What LooperSound says of one buffer.
Fits(b) == b.used <= b.cap /\ b.cap <= MaxSize

(* Buffer::push copies into the allocation: whenever the condition push()  *)
(* waits for holds, ensure_enough_size has made room, and it never grows a *)
(* buffer past the limit.                                                  *)
LEMMA PushedOK ==
  ASSUME LooperConstants, NEW b \in Buffers, Fits(b), NEW rec \in Records,
         rec.len <= Writable(b) \/ CanAccommodate(b, rec.len)
  PROVE  Pushed(b, rec) \in Buffers /\ Fits(Pushed(b, rec))
<1> DEFINE n == rec.len
<1>1. n \in Nat /\ b.used \in Nat /\ b.cap \in Nat /\ MaxSize \in Nat /\ Threshold \in Nat
      /\ Increment \in Nat /\ b.recs \in Seq(Records)
  BY DEF LooperConstants, Buffers, Records
<1>2. NewSize(b, n) \in Nat /\ b.used + n <= NewSize(b, n)
  BY <1>1, SMTT(30) DEF NewSize, Fits
<1>3. EnoughSize(b, n) \in Nat /\ b.used + n <= EnoughSize(b, n) /\ EnoughSize(b, n) <= MaxSize
  <2>1. CASE n <= Writable(b)
    <3>1. EnoughSize(b, n) = b.cap
      BY <1>1, <2>1 DEF EnoughSize, Writable
    <3> QED BY <1>1, <2>1, <3>1 DEF Writable, Fits
  <2>2. CASE ~(n <= Writable(b))
    <3>1. NewSize(b, n) <= MaxSize /\ n > Writable(b)
      BY <1>1, <2>2 DEF CanAccommodate, Writable
    <3>2. EnoughSize(b, n) = NewSize(b, n)
      BY <2>2, <3>1 DEF EnoughSize
    <3> QED BY <1>2, <3>1, <3>2
  <2> QED BY <2>1, <2>2
<1>4. Append(b.recs, rec) \in Seq(Records)
  BY <1>1
<1> QED BY <1>1, <1>3, <1>4 DEF Pushed, Buffers, Fits

-----------------------------------------------------------------------------
(* The inductive invariant.                                                *)

\* The consumer's buffer is empty except while the callback has it.
ConsumedOK == worker # "callback" => con_buf.recs = <<>> /\ con_buf.used = 0

\* A producer that waits carries the length of a record.
WaitersOK == \A p \in Producers : producer[p].pc # "out" => producer[p].len \in Lengths

LooperInv == LooperTypeOK /\ ConsumedOK /\ WaitersOK /\ LooperSound

(* The looper starts with two empty buffers.                               *)
LEMMA InitLooperInv == LooperConstants /\ LooperInit => LooperInv
<1> SUFFICES ASSUME LooperConstants, LooperInit PROVE LooperInv
  OBVIOUS
<1>0. <<>> \in Seq(Records)
  OBVIOUS
<1>1. Fresh \in Buffers /\ Fits(Fresh) /\ Fresh.recs = <<>> /\ Fresh.used = 0
  BY <1>0 DEF LooperConstants, Fresh, Buffers, Fits
<1>2. Out \in [pc : {"out", "asleep", "notified"}, len : Lengths \cup {0}] /\ Out.pc = "out"
  BY DEF Out
<1>3. LooperTypeOK
  <2>1. pushes \in 0..MaxPushes
    BY DEF LooperInit, LooperConstants
  <2>2. producer \in [Producers -> [pc : {"out", "asleep", "notified"}, len : Lengths \cup {0}]]
    BY <1>2 DEF LooperInit
  <2> QED BY <1>0, <1>1, <2>1, <2>2 DEF LooperInit, LooperTypeOK
<1>4. ConsumedOK /\ WaitersOK /\ InBounds
  BY <1>1, <1>2 DEF LooperInit, ConsumedOK, WaitersOK, InBounds, Fits
<1>5. NothingLost
  BY <1>0, <1>1 DEF LooperInit, NothingLost
<1> QED BY <1>3, <1>4, <1>5 DEF LooperInv, LooperSound

(* push(): a record that is taken goes to the end of everything.           *)
LEMMA PushTakesOK ==
  ASSUME LooperConstants, LooperInv, NEW p \in Producers, NEW n \in Lengths, PushTakes(p, n),
         UNCHANGED <<con_buf, delivered>>
  PROVE  /\ pro_buf' \in Buffers /\ Fits(pro_buf')
         /\ pushed' \in Seq(Records) /\ NothingLost'
         /\ worker' \in {"check", "dozing", "waiting", "notified", "callback", "exited"}
         /\ ConsumedOK'
         /\ producer' = [producer EXCEPT ![p] = Out]
<1> DEFINE rec == [by |-> p, len |-> n]
<1>1. rec \in Records /\ rec.len = n
  BY DEF Records
<1>2. n <= Writable(pro_buf) \/ CanAccommodate(pro_buf, n)
  BY DEF PushTakes, HasRoom, Writable, CanAccommodate, LooperConstants, LooperInv, LooperTypeOK, Buffers
<1>3. pro_buf' = Pushed(pro_buf, rec) /\ pushed' = Append(pushed, rec)
      /\ producer' = [producer EXCEPT ![p] = Out]
  BY DEF PushTakes
<1>4. worker' \in {"check", "dozing", "waiting", "notified", "callback", "exited"}
      /\ (worker' # "callback" => worker # "callback")
  BY DEF PushTakes, Notified, LooperInv, LooperTypeOK
<1> HIDE DEF rec
<1>5. pro_buf \in Buffers /\ Fits(pro_buf)
  BY DEF LooperInv, LooperTypeOK, LooperSound, InBounds, Fits
<1>6. pro_buf' \in Buffers /\ Fits(pro_buf')
  BY <1>1, <1>2, <1>3, <1>5, PushedOK
<1>7. /\ pushed \in Seq(Records) /\ delivered \in Seq(Records)
      /\ con_buf.recs \in Seq(Records) /\ pro_buf.recs \in Seq(Records)
      /\ pushed = delivered \o con_buf.recs \o pro_buf.recs
  BY DEF LooperInv, LooperTypeOK, Buffers, LooperSound, NothingLost
<1>8. pushed' \in Seq(Records)
  BY <1>1, <1>3, <1>7
<1>9. NothingLost'
  <2>1. pro_buf'.recs = Append(pro_buf.recs, rec)
    BY <1>3 DEF Pushed
  <2> DEFINE s == delivered \o con_buf.recs
  <2>2. s \in Seq(Records)
    BY <1>7
  <2> HIDE DEF s
  <2>3. s \o Append(pro_buf.recs, rec) = Append(s \o pro_buf.recs, rec)
    BY <1>1, <1>7, <2>2, ConcatAppend
  <2> USE DEF s
  <2> QED BY <1>3, <1>7, <2>1, <2>3 DEF NothingLost
<1>10. ConsumedOK'
  BY <1>4 DEF LooperInv, ConsumedOK
<1> QED BY <1>3, <1>4, <1>6, <1>8, <1>9, <1>10

(* A push() that takes its record or waits for room keeps the invariant.   *)
LEMMA PushStep ==
  ASSUME LooperConstants, LooperInv, NEW p \in Producers, NEW n \in Lengths,
         PushTakes(p, n) \/ PushWaits(p, n), pushes' \in 0..MaxPushes,
         UNCHANGED <<looper_type, con_buf, stop, early, bounded, stopper, delivered, thrown>>
  PROVE  LooperInv'
<1>1. CASE PushTakes(p, n)
  <2>1. /\ pro_buf' \in Buffers /\ Fits(pro_buf')
        /\ pushed' \in Seq(Records) /\ NothingLost'
        /\ worker' \in {"check", "dozing", "waiting", "notified", "callback", "exited"}
        /\ ConsumedOK'
        /\ producer' = [producer EXCEPT ![p] = Out]
    BY <1>1, PushTakesOK
  <2>2. Out \in [pc : {"out", "asleep", "notified"}, len : Lengths \cup {0}] /\ Out.pc = "out"
    BY DEF Out
  <2>3. WaitersOK' /\ producer' \in [Producers -> [pc : {"out", "asleep", "notified"}, len : Lengths \cup {0}]]
    BY <2>1, <2>2 DEF LooperInv, WaitersOK, LooperTypeOK
  <2>4. LooperTypeOK'
    BY <2>1, <2>3 DEF LooperInv, LooperTypeOK
  <2>5. InBounds'
    BY <2>1 DEF LooperInv, LooperSound, InBounds, Fits
  <2> QED BY <2>1, <2>3, <2>4, <2>5 DEF LooperInv, LooperSound
<1>2. CASE PushWaits(p, n)
  <2> DEFINE w == [pc |-> "asleep", len |-> n]
  <2>1. producer' = [producer EXCEPT ![p] = w] /\ UNCHANGED <<pro_buf, pushed, worker>>
    BY <1>2 DEF PushWaits
  <2>2. w \in [pc : {"out", "asleep", "notified"}, len : Lengths \cup {0}] /\ w.len = n
    OBVIOUS
  <2> HIDE DEF w
  <2>3. WaitersOK' /\ LooperTypeOK'
    BY <2>1, <2>2 DEF LooperInv, WaitersOK, LooperTypeOK
  <2>4. ConsumedOK' /\ LooperSound'
    BY <2>1 DEF LooperInv, ConsumedOK, LooperSound, NothingLost, InBounds
  <2> QED BY <2>3, <2>4 DEF LooperInv
<1> QED BY <1>1, <1>2

(* The swap: the empty buffer goes to the producers, the filled one to the *)
(* callback, and the order of the records stays.                           *)
LEMMA SwapStep ==
  ASSUME LooperConstants, LooperInv, worker # "callback", SwapBuffers, early' \in BOOLEAN,
         bounded' \in BOOLEAN, UNCHANGED <<looper_type, stop, stopper, pushes, pushed, delivered, thrown>>
  PROVE  LooperInv'
<1>1. /\ producer' \in [Producers -> [pc : {"out", "asleep", "notified"}, len : Lengths \cup {0}]]
      /\ WaitersOK'
  <2>1. CASE UNCHANGED producer
    BY <2>1 DEF LooperInv, LooperTypeOK, WaitersOK
  <2>2. ASSUME NEW p \in Asleep, producer' = [producer EXCEPT ![p].pc = "notified"]
        PROVE  /\ producer' \in [Producers -> [pc : {"out", "asleep", "notified"}, len : Lengths \cup {0}]]
               /\ WaitersOK'
    BY <2>2 DEF LooperInv, LooperTypeOK, WaitersOK, Asleep
  <2> QED BY <2>1, <2>2 DEF SwapBuffers, NotifyOneProducer
<1>2. CASE UNCHANGED <<pro_buf, con_buf>> /\ worker' \in {"check", "exited"}
  BY <1>1, <1>2 DEF LooperInv, LooperTypeOK, ConsumedOK, LooperSound, NothingLost, InBounds
<1>3. CASE pro_buf' = con_buf /\ con_buf' = pro_buf /\ worker' = "callback"
  <2>1. LooperTypeOK' /\ ConsumedOK' /\ InBounds'
    BY <1>1, <1>3 DEF LooperInv, LooperTypeOK, ConsumedOK, LooperSound, InBounds
  <2>2. NothingLost'
    <3>1. con_buf.recs = <<>> /\ delivered \in Seq(Records) /\ pro_buf.recs \in Seq(Records)
      BY DEF LooperInv, ConsumedOK, LooperTypeOK, Buffers
    <3>2. delivered \o <<>> \o pro_buf.recs = delivered \o pro_buf.recs \o <<>>
      BY <3>1
    <3> QED BY <1>3, <3>1, <3>2 DEF LooperInv, LooperSound, NothingLost
  <2> QED BY <1>1, <2>1, <2>2 DEF LooperInv, LooperSound
<1> QED BY <1>2, <1>3 DEF SwapBuffers

(* Every step of the producers, the worker and stop() keeps the invariant. *)
LEMMA LooperInvStep ==
  ASSUME LooperConstants, LooperInv, [LooperNext]_lvars
  PROVE  LooperInv'
<1>1. ASSUME NEW p \in Producers, NEW n \in Lengths, Push(p, n) PROVE LooperInv'
  <2>1. pushes' \in 0..MaxPushes
    BY <1>1 DEF Push, LooperInv, LooperTypeOK, LooperConstants
  <2> QED BY <1>1, <2>1, PushStep DEF Push
<1>2. ASSUME NEW p \in Producers, PushGoesOn(p) PROVE LooperInv'
  <2>1. producer[p].len \in Lengths /\ pushes' \in 0..MaxPushes
    BY <1>2 DEF PushGoesOn, LooperInv, WaitersOK, LooperTypeOK
  <2> QED BY <1>2, <2>1, PushStep DEF PushGoesOn
<1>3. CASE Check
  <2>1. /\ worker = "check" /\ early' = FALSE
        /\ UNCHANGED <<looper_type, stop, stopper, pushes, pushed, delivered, thrown>>
    BY <1>3 DEF Check
  <2>2. CASE SwapBuffers /\ UNCHANGED bounded
    <3>1. bounded' \in BOOLEAN /\ early' \in BOOLEAN /\ worker # "callback"
      BY <2>1, <2>2 DEF LooperInv, LooperTypeOK
    <3> QED BY <2>1, <2>2, <3>1, SwapStep
  <2>3. CASE UNCHANGED <<pro_buf, con_buf, producer>> /\ worker' \in {"exited", "dozing"}
             /\ bounded' \in BOOLEAN
    BY <2>1, <2>3 DEF LooperInv, LooperTypeOK, ConsumedOK, WaitersOK, LooperSound, NothingLost, InBounds
  <2> QED BY <1>3, <2>2, <2>3 DEF Check, LooperInv, LooperTypeOK
<1>4. CASE FallAsleep
  BY <1>4 DEF FallAsleep, LooperInv, LooperTypeOK, ConsumedOK, WaitersOK, LooperSound, NothingLost, InBounds
<1>5. CASE WakeUp
  <2>1. CASE SwapBuffers
    <3>1. bounded' \in BOOLEAN /\ early' \in BOOLEAN /\ worker # "callback"
      BY <1>5 DEF WakeUp, LooperInv, LooperTypeOK
    <3> QED BY <1>5, <2>1, <3>1, SwapStep DEF WakeUp
  <2>2. CASE worker' = "waiting" /\ UNCHANGED <<pro_buf, con_buf, producer>>
    BY <1>5, <2>2 DEF WakeUp, LooperInv, LooperTypeOK, ConsumedOK, WaitersOK, LooperSound, NothingLost, InBounds
  <2> QED BY <1>5, <2>1, <2>2 DEF WakeUp
<1>6. CASE TimeOut
  <2>1. bounded' \in BOOLEAN /\ early' \in BOOLEAN /\ worker # "callback"
    BY <1>6 DEF TimeOut, LooperInv, LooperTypeOK
  <2> QED BY <1>6, <2>1, SwapStep DEF TimeOut
<1>7. CASE Callback
  <2>1. /\ delivered' = delivered \o con_buf.recs
        /\ con_buf' = Emptied(con_buf) /\ thrown' \in BOOLEAN /\ worker' = "check"
        /\ UNCHANGED <<looper_type, pro_buf, stop, early, bounded, producer, stopper, pushes, pushed>>
    BY <1>7 DEF Callback, LooperInv, LooperTypeOK
  <2>2. <<>> \in Seq(Records)
    OBVIOUS
  <2>3. con_buf' \in Buffers /\ con_buf'.recs = <<>> /\ con_buf'.used = 0 /\ con_buf'.cap = con_buf.cap
    BY <2>1, <2>2 DEF Emptied, LooperInv, LooperTypeOK, Buffers
  <2>4. delivered \in Seq(Records) /\ con_buf.recs \in Seq(Records) /\ pro_buf.recs \in Seq(Records)
    BY DEF LooperInv, LooperTypeOK, Buffers
  <2>5. LooperTypeOK' /\ ConsumedOK' /\ WaitersOK'
    BY <2>1, <2>3, <2>4 DEF LooperInv, LooperTypeOK, ConsumedOK, WaitersOK
  <2>6. InBounds'
    <3>1. con_buf.cap \in Nat /\ con_buf.cap <= MaxSize
      BY DEF LooperInv, LooperTypeOK, Buffers, LooperSound, InBounds
    <3> QED BY <2>1, <2>3, <3>1 DEF LooperInv, LooperSound, InBounds
  <2>7. NothingLost'
    <3>1. (delivered \o con_buf.recs) \o <<>> = delivered \o con_buf.recs
      BY <2>4
    <3> QED BY <2>1, <2>3, <3>1 DEF LooperInv, LooperSound, NothingLost
  <2> QED BY <2>5, <2>6, <2>7 DEF LooperInv, LooperSound
<1>8. CASE StopSet \/ StopNotify \/ StopJoin
  BY <1>8 DEF StopSet, StopNotify, StopJoin, Notified, LooperInv, LooperTypeOK, ConsumedOK, WaitersOK,
              LooperSound, NothingLost, InBounds
<1>9. CASE UNCHANGED lvars
  BY <1>9 DEF lvars, LooperInv, LooperTypeOK, ConsumedOK, WaitersOK, LooperSound, NothingLost, InBounds
<1> QED BY <1>1, <1>2, <1>3, <1>4, <1>5, <1>6, <1>7, <1>8, <1>9 DEF LooperNext, Worker, Stop

(* Nothing that was pushed is lost, repeated or reordered by the two       *)
(* buffers, and no memcpy of a push leaves its allocation.                 *)
THEOREM LooperIsSound == LooperSpec => []LooperSound
<1>1. LooperInv /\ [LooperNext]_lvars => LooperInv'
  BY LooperAssumption, LooperInvStep
<1>2. LooperInit => LooperInv
  BY LooperAssumption, InitLooperInv
<1>3. LooperInv => LooperSound
  BY DEF LooperInv
<1> QED BY <1>1, <1>2, <1>3, PTL DEF LooperSpec
==============================================================================
