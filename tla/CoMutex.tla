------------------------------ MODULE CoMutex ------------------------------
(***************************************************************************)
(* zco::Mutex: lock, try_lock and unlock by coroutines and by threads.     *)
(* What holds impl_->mutex is one action; the enqueue_ready and the        *)
(* notify_one after it are actions of their own.                           *)
(*                                                                         *)
(* Of the scheduler the module keeps what a waiter can feel: the fiber's   *)
(* state_, the load of it that ends the swap (dispatch_resumed_fiber), and *)
(* how many run-queue entries the fiber has.                               *)
(***************************************************************************)
EXTENDS Queues, FiniteSets

CONSTANTS
  Coroutines,
  Threads,
  Nobody,
  WindowWakes  \* may unlock() hand the lock to a waiter that is still
               \* between prepare_current_wait and the end of its swap?
               \* FALSE leaves out the runs with that overlap.

ASSUME WindowWakesAssumption == WindowWakes \in BOOLEAN
ASSUME ClientsAssumption ==
  /\ Coroutines \cap Threads = {}
  /\ Nobody \notin Coroutines \cup Threads

Clients == Coroutines \cup Threads

VARIABLES
  locked,   \* Impl::locked
  waiters,  \* Impl::coroutine_waiters, entries [co, active]
  blocked,  \* threads inside cv.wait
  pc,       \* where each client stands
  state,    \* Fiber::state_ of each coroutine
  entries,  \* how often each coroutine stands in its run queue
  target,   \* resume_target of the client inside unlock()
  overlapped  \* history: unlock() has met a waiter inside its swap

vars == <<locked, waiters, blocked, pc, state, entries, target, overlapped>>

Places == {"out", "again", "blocked", "prepared", "parked", "cs",
           "handing", "notifying"}

Init ==
  /\ locked = FALSE
  /\ waiters = <<>>
  /\ blocked = {}
  /\ pc = [x \in Clients |-> "out"]
  /\ state = [c \in Coroutines |-> "running"]
  /\ entries = [c \in Coroutines |-> 0]
  /\ target = [x \in Clients |-> Nobody]
  /\ overlapped = FALSE

-----------------------------------------------------------------------------
\* cleanup_waiters_front
FirstActive(ws) ==
  CHOOSE n \in 0..Len(ws) :
    /\ \A i \in 1..n : ~ws[i].active
    /\ n < Len(ws) => ws[n + 1].active
Cleaned(ws) == SubSeq(ws, FirstActive(ws) + 1, Len(ws))

Go(x, place) == pc' = [pc EXCEPT ![x] = place]

CoLockFast(c) ==
  /\ pc[c] = "out"
  /\ ~locked
  /\ locked' = TRUE
  /\ waiters' = Cleaned(waiters)
  /\ Go(c, "cs")
  /\ UNCHANGED <<blocked, state, entries, target, overlapped>>

\* Mutant: the fiber is only marked as waiting when it parks.
CoLockWaitUnprepared(c) ==
  /\ pc[c] = "out"
  /\ locked
  /\ waiters' = Append(Cleaned(waiters), [co |-> c, active |-> TRUE])
  /\ Go(c, "prepared")
  /\ UNCHANGED <<locked, blocked, state, entries, target, overlapped>>

\* prepare_current_wait is called under impl_->mutex.
CoLockWait(c) ==
  /\ pc[c] = "out"
  /\ locked
  /\ waiters' = Append(Cleaned(waiters), [co |-> c, active |-> TRUE])
  /\ state' = [state EXCEPT ![c] = "waiting"]
  /\ Go(c, "prepared")
  /\ UNCHANGED <<locked, blocked, entries, target, overlapped>>

\* park_current: the swap, and the dispatch of the state found after it.
CoPark(c) ==
  /\ pc[c] = "prepared"
  /\ entries' = IF state[c] = "ready" THEN [entries EXCEPT ![c] = @ + 1] ELSE entries
  /\ Go(c, "parked")
  /\ UNCHANGED <<locked, waiters, blocked, state, target, overlapped>>

\* The scheduler switches to the coroutine: lock() returns.
CoResume(c) ==
  /\ pc[c] = "parked"
  /\ entries[c] > 0
  /\ entries' = [entries EXCEPT ![c] = @ - 1]
  /\ state' = [state EXCEPT ![c] = "running"]
  /\ waiters' = [i \in DOMAIN waiters |->
                   IF waiters[i].co = c THEN [co |-> c, active |-> FALSE] ELSE waiters[i]]
  /\ Go(c, "cs")
  /\ UNCHANGED <<locked, blocked, target, overlapped>>

ThreadMayTake == ~locked /\ Cleaned(waiters) = <<>>

\* lock() on a thread: one turn of its for loop.
ThreadLock(t) ==
  /\ pc[t] \in {"out", "again"}
  /\ waiters' = Cleaned(waiters)
  /\ \/ /\ ThreadMayTake
        /\ locked' = TRUE
        /\ Go(t, "cs")
        /\ UNCHANGED blocked
     \/ /\ ~ThreadMayTake
        /\ blocked' = blocked \cup {t}
        /\ Go(t, "blocked")
        /\ UNCHANGED locked
  /\ UNCHANGED <<state, entries, target, overlapped>>

TryLock(x) ==
  /\ pc[x] = "out"
  /\ waiters' = Cleaned(waiters)
  /\ \/ /\ ThreadMayTake
        /\ locked' = TRUE
        /\ Go(x, "cs")
     \/ /\ ~ThreadMayTake
        /\ UNCHANGED <<locked, pc>>
  /\ UNCHANGED <<blocked, state, entries, target, overlapped>>

\* claim_waiter and try_wake both succeed on this entry.
Claimable(e) == e.active /\ state[e.co] = "waiting"
InWindow(c)  == pc[c] = "prepared"

\* Entries before the first claimable one are popped and dropped.
HandTo(ws) ==
  CHOOSE n \in 1..Len(ws) : Claimable(ws[n]) /\ \A i \in 1..(n - 1) : ~Claimable(ws[i])

\* Mutant: unlock() clears `locked` although it hands the lock over.
UnlockHandOverFreeing(x) ==
  /\ pc[x] = "cs"
  /\ locked
  /\ \E n \in DOMAIN waiters : Claimable(waiters[n])
  /\ LET n == HandTo(waiters)
     IN  /\ WindowWakes \/ ~InWindow(waiters[n].co)
         /\ overlapped' = (overlapped \/ InWindow(waiters[n].co))
         /\ target' = [target EXCEPT ![x] = waiters[n].co]
         /\ state' = [state EXCEPT ![waiters[n].co] = "ready"]
         /\ waiters' = SubSeq(waiters, n + 1, Len(waiters))
  /\ Go(x, "handing")
  /\ locked' = FALSE
  /\ UNCHANGED <<blocked, entries>>

\* unlock() that found a waiter: the lock stays taken.
UnlockHandOver(x) ==
  /\ pc[x] = "cs"
  /\ locked
  /\ \E n \in DOMAIN waiters : Claimable(waiters[n])
  /\ LET n == HandTo(waiters)
     IN  /\ WindowWakes \/ ~InWindow(waiters[n].co)
         /\ overlapped' = (overlapped \/ InWindow(waiters[n].co))
         /\ target' = [target EXCEPT ![x] = waiters[n].co]
         /\ state' = [state EXCEPT ![waiters[n].co] = "ready"]
         /\ waiters' = SubSeq(waiters, n + 1, Len(waiters))
  /\ Go(x, "handing")
  /\ UNCHANGED <<locked, blocked, entries>>

\* Mutant: `locked` is cleared only when a coroutine was found.
UnlockFreeForgotten(x) ==
  /\ pc[x] = "cs"
  /\ locked
  /\ \A n \in DOMAIN waiters : ~Claimable(waiters[n])
  /\ waiters' = <<>>
  /\ Go(x, "notifying")
  /\ UNCHANGED <<locked, blocked, state, entries, target, overlapped>>

UnlockFree(x) ==
  /\ pc[x] = "cs"
  /\ locked
  /\ \A n \in DOMAIN waiters : ~Claimable(waiters[n])
  /\ waiters' = <<>>
  /\ locked' = FALSE
  /\ Go(x, "notifying")
  /\ UNCHANGED <<blocked, state, entries, target, overlapped>>

\* unlock() of a mutex that is not locked is ignored.
UnlockIgnored(x) ==
  /\ pc[x] \in {"out", "cs"}
  /\ ~locked
  /\ Go(x, "out")
  /\ UNCHANGED <<locked, waiters, blocked, state, entries, target, overlapped>>

EnqueueReady(x) ==
  /\ pc[x] = "handing"
  /\ entries' = [entries EXCEPT ![target[x]] = @ + 1]
  /\ target' = [target EXCEPT ![x] = Nobody]
  /\ Go(x, "out")
  /\ UNCHANGED <<locked, waiters, blocked, state, overlapped>>

NotifyOne(x) ==
  /\ pc[x] = "notifying"
  /\ \/ /\ blocked = {}
        /\ Go(x, "out")
        /\ UNCHANGED blocked
     \/ \E t \in blocked :
          /\ blocked' = blocked \ {t}
          /\ pc' = [pc EXCEPT ![x] = "out", ![t] = "again"]
  /\ UNCHANGED <<locked, waiters, state, entries, target, overlapped>>

-----------------------------------------------------------------------------
Unlock(x) == UnlockHandOver(x) \/ UnlockFree(x) \/ UnlockIgnored(x)
Finish(x) == EnqueueReady(x) \/ NotifyOne(x)

Next == \/ \E c \in Coroutines : CoLockFast(c) \/ CoLockWait(c) \/ CoPark(c) \/ CoResume(c)
        \/ \E t \in Threads : ThreadLock(t)
        \/ \E x \in Clients : TryLock(x) \/ Unlock(x) \/ Finish(x)

Spec == Init /\ [][Next]_vars

(* Every thread keeps running, a holder unlocks, and a coroutine that is   *)
(* in a run queue is switched to.  Nobody has to ask for the lock.         *)
Fairness ==
  /\ \A c \in Coroutines : WF_vars(CoPark(c)) /\ WF_vars(CoResume(c))
  /\ \A x \in Clients : WF_vars(Unlock(x)) /\ WF_vars(Finish(x))
  /\ \A t \in Threads : WF_vars(ThreadLock(t) /\ pc[t] = "again")

FairSpec == Spec /\ Fairness

-----------------------------------------------------------------------------
TypeOK ==
  /\ locked \in BOOLEAN
  /\ waiters \in Seq([co : Coroutines, active : BOOLEAN])
  /\ blocked \subseteq Threads
  /\ pc \in [Clients -> Places]
  /\ state \in [Coroutines -> {"running", "waiting", "ready"}]
  /\ entries \in [Coroutines -> Nat]
  /\ target \in [Clients -> Coroutines \cup {Nobody}]
  /\ overlapped \in BOOLEAN

\* Handed the lock, and not yet back from lock().
Handed(c) == pc[c] \in {"prepared", "parked"} /\ state[c] = "ready"
Owner(x)  == pc[x] = "cs" \/ (x \in Coroutines /\ Handed(x))

(* `locked` is TRUE exactly while one client owns the mutex: it holds it,  *)
(* or unlock() has handed it over and the coroutine is on its way.         *)
LockedMeansOwned ==
  /\ locked <=> \E x \in Clients : Owner(x)
  /\ \A x, y \in Clients : Owner(x) /\ Owner(y) => x = y

(* A thread never sleeps on a free mutex: when the lock is free and a      *)
(* thread is in cv.wait, a notification is still on its way.               *)
NoForgottenThread ==
  ~locked /\ blocked # {} =>
     \E x \in Clients : pc[x] \in {"notifying", "again"}

(* The state of the mutex accounts for everybody who holds or wants it,    *)
(* until unlock() first hands it to a waiter inside its swap.  That no     *)
(* thread is forgotten survives even that.                                 *)
MutexSound == (overlapped \/ LockedMeansOwned) /\ NoForgottenThread

(* Every coroutine that waits gets the lock if every holder unlocks.       *)
CoroutineGetsLock == \A c \in Coroutines : pc[c] = "prepared" ~> pc[c] = "cs"

\* CHOOSE is over at most one client where LockedMeansOwned holds.
holder == IF \E x \in Clients : Owner(x) THEN CHOOSE x \in Clients : Owner(x) ELSE Nobody
wanting == {x \in Clients : pc[x] \in {"blocked", "again"}}
             \cup {c \in Coroutines : pc[c] \in {"prepared", "parked"} /\ state[c] = "waiting"}

Abstract == INSTANCE LockSpec

(* CoMutex implements the lock specification.                              *)
ImplementsLock == Abstract!Spec

(* The same up to the first hand-over to a waiter inside its swap, which   *)
(* nothing in the code prevents.                                           *)
LocksUntilOverlap ==
  Abstract!Init /\ [][overlapped' \/ [Abstract!Next]_<<holder, wanting>>]_vars
=============================================================================
