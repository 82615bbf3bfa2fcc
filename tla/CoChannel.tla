----------------------------- MODULE CoChannel -----------------------------
(***************************************************************************)
(* zco::Channel: a ring buffer under mutex_, with two manual-reset Events  *)
(* for its two kinds of waiters.  read and write_impl are loops: a look    *)
(* under mutex_, then, after the unlock, a wait on the event.              *)
(*                                                                         *)
(* Of a manual-reset Event the module keeps the flag, the live tokens of   *)
(* the coroutines listed in it and the resume_list of whoever signals it:  *)
(* its resume_fiber calls come after the claim, and do nothing for a       *)
(* coroutine that is still on its way from the list to its park, or that   *)
(* its timer has made ready.                                               *)
(*                                                                         *)
(* Any call may run into its timeout and none has to: a call without one   *)
(* is one whose timer never fires.  done_, the result of the last call,    *)
(* is left out: the channel never reads it.                                *)
(*                                                                         *)
(* Names that every module has begin with Ch, so that MC_Sync can extend   *)
(* this module together with CoMutex and AsyncLooper.                      *)
(***************************************************************************)
EXTENDS Naturals, Sequences

CONSTANTS
  Callers,   \* coroutines and threads that read, write or close
  ThreadCallers,  \* those of them that are threads
  Readers,   \* those that read
  Closers,   \* those that close
  Values,
  Writes,    \* Writes[x]: the values x may write
  Unset,     \* what a slot or a reader's variable holds before its first use
  Capacity   \* the constructor's argument

ChannelConstants ==
  /\ Capacity \in Nat /\ Unset \notin Values /\ ThreadCallers \subseteq Callers
  /\ Writes \in [Callers -> SUBSET Values]

ASSUME ChannelAssumption == ChannelConstants

capacity == IF Capacity = 0 THEN 1 ELSE Capacity
Slots    == 0..(capacity - 1)
Events   == {"not_empty", "not_full"}

VARIABLES
  storage,   \* storage_
  head,      \* head_
  tail,      \* tail_
  size,      \* size_
  closed,    \* closed_
  signaled,  \* Impl::signaled of each event
  caller,    \* what each caller is doing
  live,      \* coroutines whose token is listed in an event and not claimed
  missed,    \* those a resume met before prepare_current_wait, token claimed
  out        \* what the last successful read gave

ring   == <<storage, head, tail, size, closed, out>>
chvars == <<ring, signaled, caller, live, missed>>

(* A caller's call: op read or write, where it is, what it writes.         *)
Idle == [op |-> "none", at |-> "out"]
Call(op, v) == [op |-> op, at |-> "look", val |-> v]

\* In close(), about to notify the waiters of e.
Closing(e) == [op |-> "close", at |-> e]

\* In signal() or notify_all(), with ws left to resume; mutex_ is held or not.
Signalling(ws, locked, then) ==
  [op |-> "resume", at |-> "resume", list |-> ws, locked |-> locked, then |-> then]

ChInit ==
  /\ storage = [i \in Slots |-> Unset]
  /\ head = 0 /\ tail = 0 /\ size = 0
  /\ closed = FALSE
  /\ signaled = [e \in Events |-> e = "not_full"]
  /\ caller = [x \in Callers |-> Idle]
  /\ live = {} /\ missed = {}
  /\ out = Unset

-----------------------------------------------------------------------------
EventOf(op) == IF op = "read" THEN "not_empty" ELSE "not_full"

At(x, place) == caller[x].at = place

\* Nobody is in update_events_locked: mutex_ can be taken.
Free == \A x \in Callers : caller[x].op = "resume" => ~caller[x].locked

\* cv.notify_all: what a thread in cv.wait on one of es does next.
Rechecking(es) ==
  [x \in Callers |-> IF At(x, "blocked") /\ EventOf(caller[x].op) \in es
                       THEN [caller[x] EXCEPT !.at = "notified"] ELSE caller[x]]

Listed(es) == {x \in live : EventOf(caller[x].op) \in es}

\* signal() or notify_all() of the events es, by x, which goes on with `then`.
Signal(x, es, locked, then) ==
  /\ live' = live \ Listed(es)
  /\ caller' = [Rechecking(es) EXCEPT ![x] =
                  IF Listed(es) = {} THEN then ELSE Signalling(Listed(es), locked, then)]

Full(n)       == ~(n < capacity)
CanWrite(n)   == ~closed' /\ ~Full(n)

\* Mutant: the readers' event is left as it is.
ToSignalWriters(n) == {e \in Events : e = "not_full" /\ CanWrite(n)}

ToSignal(n) == {e \in Events : IF e = "not_empty" THEN n > 0 ELSE CanWrite(n)}

\* update_events_locked with the new size n: each event is signalled or reset.
UpdateEvents(x, n, then) ==
  /\ signaled' = [e \in Events |-> e \in ToSignal(n)]
  /\ Signal(x, ToSignal(n), TRUE, then)

\* Mutant: the element goes to the wrong index.
PushAtHead(v) ==
  /\ storage' = [storage EXCEPT ![head] = v]
  /\ tail' = (tail + 1) % capacity
  /\ size' = size + 1

PushBack(v) ==
  /\ storage' = [storage EXCEPT ![tail] = v]
  /\ tail' = (tail + 1) % capacity
  /\ size' = size + 1

PopFront ==
  /\ out' = storage[head]
  /\ storage' = [storage EXCEPT ![head] = Unset]
  /\ head' = (head + 1) % capacity
  /\ size' = size - 1

-----------------------------------------------------------------------------
(* read and write_impl                                                     *)

ChGo(x, place) == caller' = [caller EXCEPT ![x].at = place]

Begin(x, op, v) ==
  /\ At(x, "out")
  /\ caller' = [caller EXCEPT ![x] = Call(op, v)]
  /\ UNCHANGED <<ring, signaled, live, missed>>

\* Inside mutex_, in a call of op.
Looks(x, op) == At(x, "look") /\ caller[x].op = op /\ Free

ReadTakes(x) ==
  /\ Looks(x, "read")
  /\ size > 0
  /\ PopFront
  /\ UNCHANGED <<tail, closed, missed>>
  /\ UpdateEvents(x, size - 1, Idle)

\* The call fails, and brings the events up to date.
FailsClosed(x) ==
  /\ UNCHANGED <<ring, missed>>
  /\ UpdateEvents(x, size, Idle)

ReadClosed(x) ==
  /\ Looks(x, "read")
  /\ size = 0 /\ closed
  /\ FailsClosed(x)

WriteClosed(x) ==
  /\ Looks(x, "write")
  /\ closed
  /\ FailsClosed(x)

WritePuts(x) ==
  /\ Looks(x, "write")
  /\ ~closed /\ ~Full(size)
  /\ PushBack(caller[x].val)
  /\ UNCHANGED <<head, closed, out, missed>>
  /\ UpdateEvents(x, size + 1, Idle)

\* Neither succeeded nor closed: mutex_ is released before the wait.
LookFails(x) ==
  /\ \/ Looks(x, "read") /\ size = 0
     \/ Looks(x, "write") /\ Full(size)
  /\ ~closed
  /\ ChGo(x, "wait")
  /\ UNCHANGED <<ring, signaled, live, missed>>

-----------------------------------------------------------------------------
(* Event::wait, under the mutex of the event and after it                  *)

Flag(x) == signaled[EventOf(caller[x].op)]

\* The flag is up, or a thread blocks in cv.wait and a coroutine is listed.
WaitEvent(x) ==
  /\ At(x, "wait")
  /\ ChGo(x, IF Flag(x) THEN "look" ELSE IF x \in ThreadCallers THEN "blocked" ELSE "listed")
  /\ live' = IF Flag(x) \/ x \in ThreadCallers THEN live ELSE live \cup {x}
  /\ UNCHANGED <<ring, signaled, missed>>

\* prepare_current_wait and the swap of park_current.
Park(x) ==
  /\ At(x, "listed")
  /\ ChGo(x, "parked")
  /\ UNCHANGED <<ring, signaled, live, missed>>

\* The timer of park_current_for; resume_fiber of whoever signals comes late.
TimerFires(x) ==
  /\ At(x, "parked")
  /\ ChGo(x, "late")
  /\ UNCHANGED <<ring, signaled, live, missed>>

\* A run-queue entry left from an earlier wait of x ends this one: FiberSched
\* says when there is one, here there may always be.
StrayResume(x) ==
  /\ At(x, "parked")
  /\ ChGo(x, "ready")
  /\ UNCHANGED <<ring, signaled, live, missed>>

\* The coroutine runs again.  What it leaves in the list of the event can only
\* bring it a resume it does not expect, which StrayResume has.
WaitReturns(x) ==
  /\ At(x, "ready")
  /\ ChGo(x, "look")
  /\ live' = live \ {x} /\ missed' = missed \ {x}
  /\ UNCHANGED <<ring, signaled>>

WaitTimesOut(x) ==
  /\ At(x, "late")
  /\ caller' = [caller EXCEPT ![x] = Idle]
  /\ live' = live \ {x} /\ missed' = missed \ {x}
  /\ UNCHANGED <<ring, signaled>>

\* cv.wait looks at its predicate again.
ThreadWoken(x) ==
  /\ At(x, "notified")
  /\ ChGo(x, IF Flag(x) THEN "look" ELSE "blocked")
  /\ UNCHANGED <<ring, signaled, live, missed>>

\* wait_for gives up, unless the predicate holds at that moment.
ThreadTimesOut(x) ==
  /\ caller[x].at \in {"blocked", "notified"}
  /\ IF Flag(x) THEN ChGo(x, "look") ELSE caller' = [caller EXCEPT ![x] = Idle]
  /\ UNCHANGED <<ring, signaled, live, missed>>

-----------------------------------------------------------------------------
(* signal, notify_all and close                                            *)

Rest(k, y) == IF k.list = {y} THEN k.then ELSE [k EXCEPT !.list = @ \ {y}]

\* resume_fiber: nothing but a parked coroutine is made ready.
Woken(k)   == IF k.at = "parked" THEN [k EXCEPT !.at = "ready"] ELSE k

\* resume_fiber of y, one of those x has claimed.
ResumeNext(x, y) ==
  /\ caller[x].op = "resume" /\ y \in caller[x].list
  /\ caller' = [caller EXCEPT ![y] = Woken(@), ![x] = Rest(@, y)]
  /\ missed' = IF At(y, "listed") /\ y \notin live THEN missed \cup {y} ELSE missed
  /\ UNCHANGED <<ring, signaled, live>>

\* close: the flag and the events under mutex_, the two notify_all after it.
CloseMark(x) ==
  /\ At(x, "out") /\ Free
  /\ closed' = TRUE
  /\ UNCHANGED <<storage, head, tail, size, out, missed>>
  /\ UpdateEvents(x, size, Closing("not_empty"))

AfterNotify(e) == IF e = "not_empty" THEN Closing("not_full") ELSE Idle

\* Mutant: only the event of the readers is notified.
CloseNotifyReaders(x, e) ==
  /\ caller[x] = Closing(e)
  /\ signaled' = [signaled EXCEPT ![e] = TRUE]
  /\ Signal(x, {e} \cap {"not_empty"}, FALSE, AfterNotify(e))
  /\ UNCHANGED <<ring, missed>>

CloseNotify(x, e) ==
  /\ caller[x] = Closing(e)
  /\ signaled' = [signaled EXCEPT ![e] = TRUE]
  /\ Signal(x, {e}, FALSE, AfterNotify(e))
  /\ UNCHANGED <<ring, missed>>

-----------------------------------------------------------------------------
Turn(x) ==
  \/ ReadTakes(x) \/ ReadClosed(x) \/ WriteClosed(x) \/ WritePuts(x) \/ LookFails(x)
  \/ WaitEvent(x) \/ Park(x) \/ WaitReturns(x) \/ WaitTimesOut(x) \/ ThreadWoken(x)
  \/ \E y \in Callers : ResumeNext(x, y)
  \/ \E e \in Events : CloseNotify(x, e)

ChNext == \E x \in Callers :
  \/ x \in Readers /\ Begin(x, "read", Unset)
  \/ \E v \in Writes[x] : Begin(x, "write", v)
  \/ x \in Closers /\ CloseMark(x)
  \/ Turn(x) \/ TimerFires(x) \/ StrayResume(x) \/ ThreadTimesOut(x)

ChSpec == ChInit /\ [][ChNext]_chvars

(* Every thread keeps running, and a coroutine that is ready is switched   *)
(* to.  Nobody has to call anything, and no timeout has to pass.           *)
ChFairness == \A x \in Callers : WF_chvars(Turn(x))

FairChSpec == ChSpec /\ ChFairness

-----------------------------------------------------------------------------
CallPlaces == {"look", "wait", "listed", "parked", "ready", "late", "blocked", "notified"}
Begun == [op : {"read", "write"}, at : CallPlaces, val : Values \cup {Unset}]
Quiet == {Idle} \cup {Closing(e) : e \in Events}
Calls == Begun \cup Quiet
           \cup [op : {"resume"}, at : {"resume"}, list : SUBSET Callers, locked : BOOLEAN,
                 then : Quiet]

ChTypeOK ==
  /\ storage \in [Slots -> Values \cup {Unset}]
  /\ head \in Slots /\ tail \in Slots
  /\ size \in 0..capacity
  /\ closed \in BOOLEAN
  /\ signaled \in [Events -> BOOLEAN]
  /\ caller \in [Callers -> Calls]
  /\ live \subseteq Callers /\ missed \subseteq Callers
  /\ out \in Values \cup {Unset}

\* In a wait nobody has ended: in cv.wait, or with a token nobody has claimed.
Sleeps(x) ==
  \/ At(x, "blocked")
  \/ x \in live /\ caller[x].at \in {"listed", "parked"}
Expected(x) == \E y \in Callers : caller[y].op = "resume" /\ x \in caller[y].list

(* Nobody sleeps past what it waits for, although the look and the wait    *)
(* are under different locks and a resume comes after its claim: a sleeper *)
(* whose token is live finds the ring empty, or full and open, and one     *)
(* whose token was claimed has its resume on the way - or the resume ran   *)
(* before the coroutine had prepared its wait, the only way to lose it.    *)
NobodySleepsPast ==
  \A x \in Callers :
     /\ Sleeps(x) => IF caller[x].op = "read" THEN size = 0 ELSE closed \/ Full(size)
     /\ At(x, "parked") /\ x \notin live => Expected(x) \/ x \in missed

(* close() releases every coroutine it finds waiting, although no timeout  *)
(* has to pass, unless its resume ran before the wait was prepared.       *)
CloseReleases ==
  \A x \in Callers \ ThreadCallers :
     (Sleeps(x) /\ \E y \in Callers : caller[y] = Closing(EventOf(caller[x].op)))
        ~> At(x, "out") \/ x \in missed

\* The ring read from head_.
queue == [i \in 1..size |-> storage[(head + i - 1) % capacity]]

Queue == INSTANCE ChannelSpec WITH Limit <- capacity

(* Channel implements a bounded FIFO queue.                                *)
ImplementsChannel == Queue!Spec
=============================================================================
