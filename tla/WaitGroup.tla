----------------------------- MODULE WaitGroup -----------------------------
(***************************************************************************)
(* zco::WaitGroup: an atomic count_ over a manual-reset CoEvent, its       *)
(* done_event_.  Each change of the count and the call of the event that   *)
(* follows from it are separate steps, and that call takes the steps the   *)
(* event takes.  Workers call add() and done(), the event's Coroutines and *)
(* Threads call wait().                                                    *)
(***************************************************************************)
EXTENDS Integers, Sequences, FiniteSets

CONSTANTS
  Coroutines,
  Threads,
  Workers,
  MaxWaits,      \* bound: wait() calls of one coroutine that get listed
  MaxSignals,    \* bound: times the count goes back to zero
  InitialCount,  \* the constructor's argument
  MaxCount,      \* bound: no add() beyond this count
  Surplus,       \* bound: done() calls that nobody owes
  LateAdds       \* may add() leave zero while the done() that reached zero
                 \* has yet to signal?  FALSE leaves those runs out.

ConstantsOK ==
  /\ InitialCount \in Nat /\ MaxCount \in Nat /\ Surplus \in Nat
  /\ LateAdds \in BOOLEAN

VARIABLES
  count,     \* count_
  place,     \* where each worker stands
  owed,      \* done() calls still to come for add() calls that returned
  surplus,   \* done() calls made without being owed
  manual_reset, signaled, waiters, active, turn, pc, timed, state, timed_out,
  call, calls, backing, granted   \* done_event_

cvars == <<count, place, owed, surplus>>
evars == <<manual_reset, signaled, waiters, active, turn, pc, timed, state,
           timed_out, call, calls, backing, granted>>
vars  == <<cvars, evars>>

Event == INSTANCE CoEvent WITH
           Signallers <- Workers, Modes <- {TRUE}, GapWakes <- FALSE

Init ==
  /\ Event!Init
  /\ signaled = (InitialCount = 0)
  /\ count = InitialCount
  /\ place = [w \in Workers |-> "out"]
  /\ owed = InitialCount
  /\ surplus = 0

-----------------------------------------------------------------------------
At(p)    == {w \in Workers : place[w] = p}
Go(w, p) == place' = [place EXCEPT ![w] = p]

(* The rule of use the code's comment names, that of Go's WaitGroup: an    *)
(* add() that leaves zero does not overlap a wait().  Nor does an add()    *)
(* overlap a done() that nobody owes, which is an error of its caller.     *)
Waits    == {x \in Event!Clients : pc[x] # "out"}
MayAdd   == /\ At("restoring") = {}
            /\ count = 0 => Waits = {} /\ (LateAdds \/ At("signalling") = {})
MayWait  == At("resetting") = {}

\* Bound: a round begins only if its signal is within MaxSignals.
Bounded == /\ count < MaxCount
           /\ count = 0 => calls + Cardinality(At("signalling")) < MaxSignals

\* add(1), in the order of the code: count_ first.
AddCount(w) ==
  /\ place[w] = "out"
  /\ Bounded /\ MayAdd
  /\ count' = count + 1
  /\ Go(w, IF count = 0 THEN "resetting" ELSE "added")
  /\ UNCHANGED <<owed, surplus, evars>>

\* Mutant: the event stays as the last done() left it.
AddResetForgotten(w) ==
  /\ place[w] = "resetting"
  /\ Go(w, "added")
  /\ UNCHANGED <<count, owed, surplus, evars>>

AddReset(w) ==
  /\ place[w] = "resetting"
  /\ Event!Reset
  /\ Go(w, "added")
  /\ UNCHANGED <<count, owed, surplus>>

\* add() returns, and the task it announced may start.
AddReturns(w) ==
  /\ place[w] = "added"
  /\ owed' = owed + 1
  /\ Go(w, "out")
  /\ UNCHANGED <<count, surplus, evars>>

\* Mutant: the done() that reaches zero does not signal.
AfterSubBelow(previous) ==
  CASE previous <= 0 -> "restoring"
    [] OTHER         -> "out"

\* The part of done() after fetch_sub, from its previous value.
AfterSub(previous) ==
  CASE previous <= 0 -> "restoring"
    [] previous = 1  -> "signalling"
    [] OTHER         -> "out"

DoneCount(w) ==
  /\ place[w] = "out"
  /\ \/ owed > 0 /\ owed' = owed - 1 /\ UNCHANGED surplus
     \/ owed = 0 /\ At("resetting") \cup At("added") = {}
        /\ surplus < Surplus /\ surplus' = surplus + 1 /\ UNCHANGED owed
  /\ count' = count - 1
  /\ Go(w, AfterSub(count))
  /\ UNCHANGED evars

DoneRestore(w) ==
  /\ place[w] = "restoring"
  /\ count' = count + 1
  /\ Go(w, "out")
  /\ UNCHANGED <<owed, surplus, evars>>

\* done_event_.signal(), which goes on after it has unlocked.
DoneSignal(w) ==
  /\ place[w] = "signalling" /\ call[w] = Event!Idle
  /\ Event!SignalManual(w)
  /\ Go(w, "resuming")
  /\ UNCHANGED <<count, owed, surplus>>

DoneSignalling(w) ==
  /\ place[w] = "resuming"
  /\ Event!AfterUnlock(w)
  /\ Go(w, IF call'[w] = Event!Idle THEN "out" ELSE "resuming")
  /\ UNCHANGED <<count, owed, surplus>>

\* wait() is done_event_.wait() without a timeout.
WaitBegins(x) ==
  /\ MayWait
  /\ \/ x \in Coroutines /\ (Event!CoWaitFast(x) \/ Event!CoWaitList(x, FALSE))
     \/ x \in Threads /\ Event!ThreadWait(x, FALSE)
  /\ UNCHANGED cvars

WaitGoesOn(x) ==
  /\ \/ x \in Coroutines /\ (Event!CoPark(x) \/ Event!CoReturn(x))
     \/ x \in Threads /\ Event!ThreadWoken(x)
  /\ UNCHANGED cvars

-----------------------------------------------------------------------------
Finish(w) == \/ AddReset(w) \/ AddReturns(w) \/ DoneRestore(w) \/ DoneSignal(w)
             \/ DoneSignalling(w)

Next == \/ \E w \in Workers : AddCount(w) \/ DoneCount(w) \/ Finish(w)
        \/ \E x \in Event!Clients : WaitBegins(x) \/ WaitGoesOn(x)

Spec == Init /\ [][Next]_vars

(* A call that has begun goes on, and a coroutine that is ready is         *)
(* switched to.                                                            *)
FairSpec == /\ Spec
            /\ \A w \in Workers : WF_vars(Finish(w))
            /\ \A x \in Event!Clients : WF_vars(WaitGoesOn(x))

-----------------------------------------------------------------------------
(* A surplus done() leaves no trace: count_ is what add() announced and    *)
(* done() has not yet settled, minus the fetch_sub about to be undone.     *)
CountMatches ==
  count = owed + Cardinality(At("resetting") \cup At("added"))
               - Cardinality(At("restoring"))

(* wait() blocks until the count is zero: no wait() that was listed        *)
(* returns, and none that begins now would return at once, while tasks     *)
(* announced before it are running.                                        *)
WaitReturnsAtZero ==
  [][/\ \A x \in Event!Clients : x \in Waits /\ pc'[x] = "out" => count <= 0
     /\ MayWait /\ signaled => count <= 0]_vars

(* Nobody sleeps on an empty group: once the count stays zero every        *)
(* wait() returns.                                                         *)
EmptyGroupReleases ==
  \A x \in Event!Clients : <>[](count <= 0) => []<>(pc[x] = "out")
=============================================================================
