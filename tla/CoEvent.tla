------------------------------ MODULE CoEvent ------------------------------
(***************************************************************************)
(* zco::Event: wait by coroutines and by threads, with and without a       *)
(* timeout; signal, notify_all and reset.  What holds impl_->mutex is one  *)
(* action; cv.notify_all() and each resume_fiber of the local resume_list  *)
(* come after the unlock and are actions of their own.                     *)
(*                                                                         *)
(* prepare_current_wait and the swap after it are one action here: a wake  *)
(* that falls between the two is FiberSched's subject.                     *)
(***************************************************************************)
EXTENDS Queues, FiniteSets, SequencesExt

CONSTANTS
  Coroutines,
  Threads,
  Signallers,
  Modes,        \* values the constructor gets for manual_reset
  MaxWaits,     \* bound: wait() calls of one coroutine that get listed
  MaxSignals,   \* bound: calls of signal() and notify_all()
  GapWakes      \* may resume_fiber(c) run while c is between the unlock in
                \* wait() and prepare_current_wait?  FALSE leaves those runs
                \* out.

ASSUME ModesAssumption == Modes \subseteq BOOLEAN /\ GapWakes \in BOOLEAN
ASSUME LimitsAssumption == MaxWaits \in Nat /\ MaxSignals \in Nat
ASSUME ClientsAssumption == Coroutines \cap Threads = {}

Clients == Coroutines \cup Threads

VARIABLES
  manual_reset,
  signaled,   \* Impl::signaled
  waiters,    \* Impl::waiters: entries [co, turn] of the turn'th wait of co
  active,     \* for each coroutine, the waits whose `active` is TRUE
  turn,       \* how many waits of a coroutine have been listed
  pc,         \* where each client stands in wait()
  timed,      \* its wait has a timeout
  state,      \* Fiber::state_
  timed_out,  \* Fiber::timed_out_
  call,       \* what each signaller is doing, with its resume_list
  calls,      \* calls of signal() and notify_all() so far
  backing,    \* wakes those calls may cause
  granted     \* waits of an auto-reset event that returned true

vars == <<manual_reset, signaled, waiters, active, turn, pc, timed, state,
          timed_out, call, calls, backing, granted>>

Idle == [op |-> "idle", list |-> <<>>]

Init ==
  /\ manual_reset \in Modes
  /\ signaled \in BOOLEAN
  /\ waiters = <<>>
  /\ active = [c \in Coroutines |-> {}]
  /\ turn = [c \in Coroutines |-> 0]
  /\ pc = [x \in Clients |-> "out"]
  /\ timed = [x \in Clients |-> FALSE]
  /\ state = [c \in Coroutines |-> "running"]
  /\ timed_out = [c \in Coroutines |-> FALSE]
  /\ call = [s \in Signallers |-> Idle]
  /\ calls = 0
  /\ backing = (IF signaled THEN 1 ELSE 0)
  /\ granted = 0

-----------------------------------------------------------------------------
Go(x, place) == pc' = [pc EXCEPT ![x] = place]

\* claim_waiter succeeds on this entry; is_waiter_entry_valid.
Valid(e) == e.turn \in active[e.co]
Cleaned(ws) == SelectSeq(ws, Valid)

\* Mutant: the signal that is taken stays for the next one.
ConsumeNothing == UNCHANGED signaled
Consume == signaled' = (signaled /\ manual_reset)

Grant == granted' = granted + (IF manual_reset THEN 0 ELSE 1)

CoWaitFast(c) ==
  /\ pc[c] = "out" /\ signaled
  /\ Consume
  /\ waiters' = Cleaned(waiters)
  /\ Grant
  /\ UNCHANGED <<manual_reset, active, turn, pc, timed, state, timed_out, call, calls, backing>>

CoWaitList(c, limited) ==
  /\ pc[c] = "out" /\ ~signaled /\ turn[c] < MaxWaits
  /\ turn' = [turn EXCEPT ![c] = @ + 1]
  /\ active' = [active EXCEPT ![c] = @ \cup {turn'[c]}]
  /\ waiters' = Append(Cleaned(waiters), [co |-> c, turn |-> turn'[c]])
  /\ timed' = [timed EXCEPT ![c] = limited]
  /\ Go(c, "listed")
  /\ UNCHANGED <<manual_reset, signaled, state, timed_out, call, calls, backing, granted>>

CoPark(c) ==
  /\ pc[c] = "listed"
  /\ state' = [state EXCEPT ![c] = "waiting"]
  /\ timed_out' = [timed_out EXCEPT ![c] = FALSE]
  /\ Go(c, "parked")
  /\ UNCHANGED <<manual_reset, signaled, waiters, active, turn, timed, call, calls, backing, granted>>

TryWake(c, late) ==
  /\ state[c] = "waiting"
  /\ state' = [state EXCEPT ![c] = "ready"]
  /\ timed_out' = [timed_out EXCEPT ![c] = late]

TimerFires(c) ==
  /\ pc[c] = "parked" /\ timed[c]
  /\ TryWake(c, TRUE)
  /\ UNCHANGED <<manual_reset, signaled, waiters, active, turn, pc, timed, call, calls, backing, granted>>

\* The scheduler switches back: wait() returns !timed_out_.
CoReturn(c) ==
  /\ pc[c] = "parked" /\ state[c] = "ready"
  /\ state' = [state EXCEPT ![c] = "running"]
  /\ \/ /\ timed_out[c]
        /\ active' = [active EXCEPT ![c] = @ \ {turn[c]}]
        /\ UNCHANGED granted
     \/ /\ ~timed_out[c]
        /\ Grant
        /\ UNCHANGED active
  /\ Go(c, "out")
  /\ UNCHANGED <<manual_reset, signaled, waiters, turn, timed, timed_out, call, calls, backing>>

-----------------------------------------------------------------------------
(* wait() on a thread: cv.wait with the predicate `signaled`.              *)

ThreadTakes(t) ==
  /\ signaled
  /\ Consume
  /\ Grant
  /\ Go(t, "out")

ThreadWait(t, limited) ==
  /\ pc[t] = "out"
  /\ timed' = [timed EXCEPT ![t] = limited]
  /\ \/ ThreadTakes(t)
     \/ ~signaled /\ Go(t, "blocked") /\ UNCHANGED <<signaled, granted>>
  /\ UNCHANGED <<manual_reset, waiters, active, turn, state, timed_out, call, calls, backing>>

\* Notified: the predicate decides whether cv.wait goes on.
ThreadWoken(t) ==
  /\ pc[t] = "notified"
  /\ \/ ThreadTakes(t)
     \/ ~signaled /\ Go(t, "blocked") /\ UNCHANGED <<signaled, granted>>
  /\ UNCHANGED <<manual_reset, waiters, active, turn, timed, state, timed_out, call, calls, backing>>

\* wait_for gives up, unless the predicate holds at that moment.
ThreadTimeout(t) ==
  /\ pc[t] \in {"blocked", "notified"} /\ timed[t]
  /\ \/ ThreadTakes(t)
     \/ ~signaled /\ Go(t, "out") /\ UNCHANGED <<signaled, granted>>
  /\ UNCHANGED <<manual_reset, waiters, active, turn, timed, state, timed_out, call, calls, backing>>

-----------------------------------------------------------------------------
(* The other side.                                                         *)

\* Claim a set of listed waits: exchange(false), then the second cleanup.
Claim(s, op, ws) ==
  /\ active' = [c \in Coroutines |->
                  active[c] \ {e.turn : e \in {d \in ws : d.co = c}}]
  /\ waiters' = SelectSeq(waiters, LAMBDA e : Valid(e) /\ e \notin ws)
  /\ call' = [call EXCEPT ![s] =
                [op |-> op, list |-> SelectSeq(waiters, LAMBDA e : e \in ws)]]
  /\ calls' = calls + 1

Listed == {e \in Members(waiters) : Valid(e)}
First  == {Head(Cleaned(waiters))}

SignalManual(s) ==
  /\ manual_reset /\ call[s] = Idle /\ calls < MaxSignals
  /\ Claim(s, "signal", Listed)
  /\ signaled' = TRUE
  /\ UNCHANGED <<manual_reset, turn, pc, timed, state, timed_out, backing, granted>>

SignalOne(s) ==
  /\ ~manual_reset /\ call[s] = Idle /\ calls < MaxSignals
  /\ Listed # {}
  /\ Claim(s, "signal", First)
  /\ backing' = backing + 1
  /\ UNCHANGED <<manual_reset, signaled, turn, pc, timed, state, timed_out, granted>>

SignalCached(s) ==
  /\ ~manual_reset /\ call[s] = Idle /\ calls < MaxSignals
  /\ Listed = {}
  /\ Claim(s, "signal", {})
  /\ backing' = backing + 1
  /\ signaled' = TRUE
  /\ UNCHANGED <<manual_reset, turn, pc, timed, state, timed_out, granted>>

NotifyAll(s) ==
  /\ call[s] = Idle /\ calls < MaxSignals
  /\ Claim(s, "notify_all", Listed)
  /\ signaled' = manual_reset
  /\ backing' = backing + (IF manual_reset THEN 0 ELSE Cardinality(Listed))
  /\ UNCHANGED <<manual_reset, turn, pc, timed, state, timed_out, granted>>

Reset ==
  /\ signaled' = FALSE
  /\ UNCHANGED <<manual_reset, waiters, active, turn, pc, timed, state, timed_out, call, calls,
                 backing, granted>>

\* impl_->cv.notify_all()
NotifyCv(s) ==
  /\ call[s].op \in {"signal", "notify_all"}
  /\ pc' = [x \in Clients |-> IF pc[x] = "blocked" THEN "notified" ELSE pc[x]]
  /\ call' = [call EXCEPT ![s].op = "resume"]
  /\ UNCHANGED <<manual_reset, signaled, waiters, active, turn, timed, state, timed_out, calls,
                 backing, granted>>

\* resume_fiber on the next entry of resume_list: a no-op unless kWaiting.
ResumeNext(s) ==
  /\ call[s].op = "resume" /\ call[s].list # <<>>
  /\ LET c == Head(call[s].list).co
     IN  /\ GapWakes \/ pc[c] # "listed"
         /\ \/ TryWake(c, FALSE)
            \/ state[c] # "waiting" /\ UNCHANGED <<state, timed_out>>
  /\ call' = [call EXCEPT ![s].list = Tail(@)]
  /\ UNCHANGED <<manual_reset, signaled, waiters, active, turn, pc, timed, calls, backing, granted>>

CallReturns(s) ==
  /\ call[s].op = "resume" /\ call[s].list = <<>>
  /\ call' = [call EXCEPT ![s] = Idle]
  /\ UNCHANGED <<manual_reset, signaled, waiters, active, turn, pc, timed, state, timed_out,
                 calls, backing, granted>>

-----------------------------------------------------------------------------
AfterUnlock(s) == NotifyCv(s) \/ ResumeNext(s) \/ CallReturns(s)

Next ==
  \/ \E c \in Coroutines :
       \/ CoWaitFast(c) \/ CoPark(c) \/ TimerFires(c) \/ CoReturn(c)
       \/ \E limited \in BOOLEAN : CoWaitList(c, limited)
  \/ \E t \in Threads :
       \/ ThreadWoken(t) \/ ThreadTimeout(t)
       \/ \E limited \in BOOLEAN : ThreadWait(t, limited)
  \/ \E s \in Signallers :
       \/ SignalManual(s) \/ SignalOne(s) \/ SignalCached(s) \/ NotifyAll(s)
       \/ AfterUnlock(s)
  \/ Reset

Spec == Init /\ [][Next]_vars

(* Every thread keeps running and a coroutine that is ready is switched    *)
(* to.  Nobody has to wait or to signal, and no timeout has to pass.       *)
Fairness ==
  /\ \A c \in Coroutines : WF_vars(CoPark(c)) /\ WF_vars(CoReturn(c))
  /\ \A t \in Threads : WF_vars(ThreadWoken(t))
  /\ \A s \in Signallers : WF_vars(AfterUnlock(s))

FairSpec == Spec /\ Fairness

-----------------------------------------------------------------------------
TypeOK ==
  /\ manual_reset \in Modes
  /\ signaled \in BOOLEAN
  /\ waiters \in Seq([co : Coroutines, turn : 1..MaxWaits])
  /\ active \in [Coroutines -> SUBSET (1..MaxWaits)]
  /\ turn \in [Coroutines -> 0..MaxWaits]
  /\ pc \in [Clients -> {"out", "listed", "parked", "blocked", "notified"}]
  /\ timed \in [Clients -> BOOLEAN]
  /\ state \in [Coroutines -> {"running", "waiting", "ready"}]
  /\ timed_out \in [Coroutines -> BOOLEAN]
  /\ call \in [Signallers -> [op : {"idle", "signal", "notify_all", "resume"},
                              list : Seq([co : Coroutines, turn : 1..MaxWaits])]]
  /\ calls \in 0..MaxSignals
  /\ backing \in Nat
  /\ granted \in Nat

(* An auto-reset event wakes no more waiters than it was signalled for,    *)
(* however signal(), timeouts, the cached signal and late resume_fiber     *)
(* calls overlap.                                                          *)
GrantsBacked == granted <= backing

(* A signal is never cached past a waiting coroutine: while signaled is    *)
(* set no wait is listed with a live token.                                *)
SignaledMeansNobodyListed == signaled => Listed = {}

(* A thread is not left in cv.wait with the event signaled: somebody has   *)
(* yet to call cv.notify_all().                                            *)
NoStrandedThread ==
  signaled /\ (\E t \in Threads : pc[t] = "blocked") =>
     \E s \in Signallers : call[s].op \in {"signal", "notify_all"}

(* A signal is spent once, and passes over neither a listed coroutine nor  *)
(* a blocked thread.                                                       *)
EventSound == GrantsBacked /\ SignaledMeansNobodyListed /\ NoStrandedThread

Claimed(c) == pc[c] \in {"listed", "parked"} /\ turn[c] \notin active[c]

(* A coroutine whose token was claimed by signal() or notify_all() returns *)
(* from wait(): who wins the exchange is responsible for the wake.         *)
ClaimedReturns == \A c \in Coroutines : Claimed(c) ~> pc[c] = "out"
=============================================================================
