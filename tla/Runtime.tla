------------------------------ MODULE Runtime ------------------------------
(***************************************************************************)
(* zco::Runtime: lazy start, shutdown and restart, submission of tasks to  *)
(* the processors, and the processors' loops as far as tasks go: the steal *)
(* queue, draining in batches, sleeping in epoll_wait, and stealing.       *)
(*                                                                         *)
(* A task runs to its end once its fiber is switched to (FiberSched has    *)
(* the waits).  Which processor pick_processor_index and the probing of    *)
(* victims choose is left open.                                            *)
(***************************************************************************)
EXTENDS Naturals, SequencesExt

CONSTANTS
  Users,         \* threads outside the runtime
  Tasks,
  Count,         \* number of processors
  DrainLimit,    \* kTaskMaterializeBatchLimit
  MaxSteal,      \* steal_tasks(.., 64, ..)
  MinReserve,    \* steal_tasks(.., .., 2)
  Medium, Large, \* 8 and 64: queue lengths at which more is stolen
  MaxStarts,     \* bound: starts of the runtime
  Concurrent,    \* may calls meet an init or a shutdown that is going on?
                 \* FALSE leaves those runs out.
  PollersStart   \* does Poller::start always succeed?

ASSUME RuntimeAssumption ==
  /\ Count \in Nat \ {0} /\ DrainLimit \in Nat \ {0} /\ MaxSteal \in Nat \ {0}
  /\ MinReserve \in Nat /\ Medium \in Nat /\ Large \in Nat /\ MaxStarts \in Nat
  /\ Concurrent \in BOOLEAN /\ PollersStart \in BOOLEAN

Procs == 1..Count

VARIABLES
  started,   \* started_
  made,      \* processors_.size()
  config,    \* stack_size_ and the like: was it set?
  wanted,    \* what the last accepted setting of this start was
  built,     \* the configuration the processors were made with
  running,   \* running_
  loop,      \* where each processor's thread is; "off": there is none
  queue,     \* steal_queue_
  fibers,    \* run_queue_, one fiber per task
  hand,      \* pending of drain_new_tasks, stolen_batch
  done,      \* tasks that ran
  lost,      \* tasks dropped by processors_.clear(), or pushed to a
             \* processor that is not there
  starts,
  user       \* what each user is doing

lifeVars == <<started, made, config, wanted, built, starts>>
procVars == <<running, loop>>
taskVars == <<queue, fibers, hand, done, lost>>
vars == <<lifeVars, procVars, taskVars, user>>

Away == [pc |-> "away"]

Init ==
  /\ started = FALSE /\ made = 0 /\ starts = 0
  /\ config = "default" /\ wanted = "default" /\ built = "default"
  /\ running = [p \in Procs |-> FALSE] /\ loop = [p \in Procs |-> "off"]
  /\ queue = [p \in Procs |-> <<>>] /\ fibers = [p \in Procs |-> <<>>]
  /\ hand = [p \in Procs |-> <<>>]
  /\ done = {} /\ lost = {}
  /\ user = [u \in Users |-> Away]

Submits(u) == user[u].pc \in {"build", "launch", "pick", "push"}
Held  == (UNION {Range(queue[p]) \cup Range(fibers[p]) \cup Range(hand[p]) : p \in Procs})
           \cup done \cup {user[u].task : u \in {v \in Users : Submits(v)}}
Given == Held \cup lost
At(u, place) == user[u].pc = place
Go(u, s)     == user' = [user EXCEPT ![u] = s]
Lifecycle(u) == user[u].pc \in {"build", "launch", "stop", "join", "clear"}
MayCall(u)   == At(u, "away") /\ (Concurrent \/ \A v \in Users : ~Lifecycle(v))

-----------------------------------------------------------------------------
(* set_stack_num, set_stack_size, set_stack_model                          *)

Configure(u) ==
  /\ MayCall(u) /\ ~started
  /\ config' = "set" /\ wanted' = "set"
  /\ UNCHANGED <<started, made, built, starts, procVars, taskVars, user>>

-----------------------------------------------------------------------------
(* init and submit                                                         *)

\* submit, submit_to: ensure_started, and the compare-exchange of init.
Submit(u, t) ==
  /\ MayCall(u) /\ t \notin Given
  /\ t = CHOOSE s \in Tasks : s \notin Given
  /\ IF started
       THEN Go(u, [pc |-> "pick", task |-> t]) /\ UNCHANGED <<started, starts>>
       ELSE /\ starts < MaxStarts /\ starts' = starts + 1
            /\ started' = TRUE
            /\ Go(u, [pc |-> "build", task |-> t])
  /\ UNCHANGED <<made, config, wanted, built, procVars, taskVars>>

\* init: the configuration is read and the processors are constructed.
Build(u) ==
  /\ At(u, "build")
  /\ built' = config /\ made' = Count
  /\ Go(u, [user[u] EXCEPT !.pc = "launch"])
  /\ UNCHANGED <<started, config, wanted, starts, procVars, taskVars>>

\* Processor::start, stop and join, of all of them.  A poller that does not
\* start makes the thread end at once.
StartThreads ==
  \E up \in IF PollersStart THEN {Procs} ELSE SUBSET Procs :
    /\ running' = [p \in Procs |-> p \in up]
    /\ loop' = [p \in Procs |-> IF p \in up THEN "drain" ELSE "ended"]
StopThreads   == running' = [p \in Procs |-> FALSE] /\ UNCHANGED loop
ThreadsJoined == \A p \in Procs : loop[p] = "ended"

Launch(u) ==
  /\ At(u, "launch")
  /\ StartThreads
  /\ Go(u, [user[u] EXCEPT !.pc = "pick"])
  /\ UNCHANGED <<lifeVars, taskVars>>

\* pick_processor_index; with no processor it is 0, and operator[] is applied
\* to an empty vector.
Pick(u) ==
  /\ At(u, "pick")
  /\ \E p \in IF made = 0 THEN {0} ELSE 1..made :
       Go(u, [pc |-> "push", task |-> user[u].task, index |-> p])
  /\ UNCHANGED <<lifeVars, procVars, taskVars>>

\* Processor::enqueue_task.  Its wake only shortens the sleep of WakeUp.  If
\* there is no such processor, or not any more, the task is gone at best.
Enqueue(u) ==
  /\ At(u, "push")
  /\ IF user[u].index \in 1..made
       THEN /\ queue' = [queue EXCEPT ![user[u].index] = Append(@, user[u].task)]
            /\ UNCHANGED lost
       ELSE /\ lost' = lost \cup {user[u].task}
            /\ UNCHANGED queue
  /\ Go(u, Away)
  /\ UNCHANGED <<lifeVars, procVars, fibers, hand, done>>

-----------------------------------------------------------------------------
(* shutdown                                                                *)

Shutdown(u) ==
  /\ MayCall(u) /\ started
  /\ Concurrent \/ \A v \in Users : At(v, "away")
  /\ started' = FALSE
  /\ Go(u, [pc |-> "stop"])
  /\ UNCHANGED <<made, config, wanted, built, starts, procVars, taskVars>>

Stop(u) ==
  /\ At(u, "stop")
  /\ StopThreads
  /\ Go(u, [pc |-> "join"])
  /\ UNCHANGED <<lifeVars, taskVars>>

Join(u) ==
  /\ At(u, "join") /\ ThreadsJoined
  /\ Go(u, [pc |-> "clear"])
  /\ UNCHANGED <<lifeVars, procVars, taskVars>>

\* The handles, the processors with all they hold, the configuration.
Destroyed == UNION {Range(queue[p]) \cup Range(fibers[p]) : p \in Procs}
Clear(u) ==
  /\ At(u, "clear")
  /\ made' = 0 /\ config' = "default" /\ wanted' = "default"
  /\ lost' = lost \cup Destroyed
  /\ queue' = [p \in Procs |-> <<>>] /\ fibers' = [p \in Procs |-> <<>>]
  /\ loop' = [p \in Procs |-> "off"]
  /\ Go(u, Away)
  /\ UNCHANGED <<started, built, starts, running, hand, done>>

-----------------------------------------------------------------------------
(* Processor::run_loop                                                     *)

Loops(p, place, next) == loop[p] = place /\ loop' = [loop EXCEPT ![p] = next]

\* drain_some: a batch, first in first out.
Drain(p) ==
  /\ running[p] /\ Loops(p, "drain", "run")
  /\ LET n == Min({DrainLimit, Len(queue[p])})
     IN  /\ fibers' = [fibers EXCEPT ![p] = @ \o SubSeq(queue[p], 1, n)]
         /\ queue' = [queue EXCEPT ![p] = SubSeq(@, n + 1, Len(@))]
  /\ UNCHANGED <<lifeVars, running, hand, done, lost, user>>

LoopEnds(p) ==
  /\ ~running[p] /\ Loops(p, "drain", "ended")
  /\ UNCHANGED <<lifeVars, running, taskVars, user>>

RunTask(p) ==
  /\ loop[p] = "run" /\ fibers[p] # <<>>
  /\ done' = done \cup {Head(fibers[p])}
  /\ fibers' = [fibers EXCEPT ![p] = Tail(@)]
  /\ UNCHANGED <<lifeVars, procVars, queue, hand, lost, user>>

\* No fiber is ready: wait_io_events_when_idle, whatever the steal queue holds.
Sleep(p) ==
  /\ fibers[p] = <<>> /\ Loops(p, "run", "sleep")
  /\ UNCHANGED <<lifeVars, running, taskVars, user>>

\* epoll_wait returns: the eventfd, or after a second at the latest.
WakeUp(p) ==
  /\ Loops(p, "sleep", "steal")
  /\ UNCHANGED <<lifeVars, running, taskVars, user>>

StealTarget(total) ==
  LET target == IF total >= Large THEN (total * 2) \div 5
                ELSE IF total >= Medium THEN total \div 3 ELSE 1
  IN  IF target = 0 THEN 1 ELSE target

\* Mutant: the reserve is forgotten.
StealCountAll(total) == Min({MaxSteal, StealTarget(total), total})
StealCount(total) ==
  IF total <= MinReserve THEN 0
  ELSE Min({MaxSteal, StealTarget(total), total - MinReserve})

\* Mutant: what was stolen is also left behind.
LeftBehindAll(q, n) == q
\* Mutant: one task too many is cut off.
LeftBehindShort(q, n) == SubSeq(q, 1, Len(q) - n - 1)
LeftBehind(q, n) == SubSeq(q, 1, Len(q) - n)

\* StealQueue::steal takes from the back, newest first.
Steal(p, v) ==
  /\ v # p /\ loop[p] = "steal" /\ hand[p] = <<>> /\ StealCount(Len(queue[v])) > 0
  /\ LET n == StealCount(Len(queue[v]))
     IN  /\ hand' = [hand EXCEPT ![p] = Reverse(SubSeq(queue[v], Len(queue[v]) - n + 1, Len(queue[v])))]
         /\ queue' = [queue EXCEPT ![v] = LeftBehind(@, n)]
  /\ UNCHANGED <<lifeVars, procVars, fibers, done, lost, user>>

\* enqueue_stolen_tasks, if there is anything; the next turn of the loop.  Two
\* victims are probed, which may be one and the same: others are not asked.
StealEnds(p) ==
  /\ \/ hand[p] # <<>> \/ Procs = {p}
     \/ \E v \in Procs \ {p} : StealCount(Len(queue[v])) = 0
  /\ Loops(p, "steal", "drain")
  /\ queue' = [queue EXCEPT ![p] = @ \o hand[p]]
  /\ hand' = [hand EXCEPT ![p] = <<>>]
  /\ UNCHANGED <<lifeVars, running, fibers, done, lost, user>>

-----------------------------------------------------------------------------
UserStep(u) ==
  Build(u) \/ Launch(u) \/ Pick(u) \/ Enqueue(u) \/ Stop(u) \/ Join(u) \/ Clear(u)

LoopStep(p) ==
  \/ Drain(p) \/ LoopEnds(p) \/ RunTask(p) \/ Sleep(p) \/ WakeUp(p) \/ StealEnds(p)
  \/ \E v \in Procs : Steal(p, v)

Next ==
  \/ \E u \in Users : UserStep(u) \/ Configure(u) \/ Shutdown(u) \/ \E t \in Tasks : Submit(u, t)
  \/ \E p \in Procs : LoopStep(p)

Spec == Init /\ [][Next]_vars

(* Threads keep running, and epoll_wait returns after its timeout.         *)
FairSpec ==
  /\ Spec
  /\ \A u \in Users : WF_vars(UserStep(u))
  /\ \A p \in Procs : WF_vars(LoopStep(p))

-----------------------------------------------------------------------------
(* A submission that goes through pick_processor_index finds the vector of *)
(* processors filled, built with the configuration that set_stack_size and *)
(* its like have accepted.                                                  *)
SubmitFindsProcessor ==
  \A u \in Users :
     /\ At(u, "push") => user[u].index \in 1..made
     /\ user[u].pc \in {"pick", "push"} => made = Count /\ built = wanted

Positions(s, t) == {i \in DOMAIN s : s[i] = t}
Places(t) ==
  (UNION {{<<"queue", p, i>> : i \in Positions(queue[p], t)}
            \cup {<<"fibers", p, i>> : i \in Positions(fibers[p], t)}
            \cup {<<"hand", p, i>> : i \in Positions(hand[p], t)} : p \in Procs})
    \cup {<<"user", u>> : u \in {v \in Users : Submits(v) /\ user[v].task = t}}
    \cup {<<"done">> : x \in done \cap {t}} \cup {<<"lost">> : x \in lost \cap {t}}

(* A task is in one place: draining, stealing and appending on several     *)
(* threads never repeat one, and none is dropped by shutdown while a thief *)
(* holds it.                                                               *)
TasksConserved ==
  /\ \A t \in Tasks : Cardinality(Places(t)) <= 1
  /\ \A p \in Procs : loop[p] \in {"off", "ended"} => hand[p] = <<>>

(* Nothing that goes through the runtime meets half a runtime, and nothing *)
(* is dropped or doubled on its way.                                       *)
RuntimeSound == SubmitFindsProcessor /\ TasksConserved

(* No step of a submission, a thief, a drain or a stop lets go of a task:  *)
(* it is with its submitter, queued, in a hand or run, until               *)
(* processors_.clear() of a shutdown destroys it in the queue it is in.    *)
NoTaskVanishes ==
  [][\A t \in Held \ Held' :
       t \in Destroyed /\ \E u \in Users : At(u, "clear") /\ user'[u] = Away]_vars

(* A submitted task runs unless the runtime is shut down, although loops   *)
(* go to sleep with tasks in their steal queues; and shutdown() returns.   *)
TasksRun ==
  /\ \A t \in Tasks : (\E p \in Procs : t \in Range(queue[p])) ~> (t \in done \cup lost)
  /\ \A u \in Users : At(u, "stop") ~> At(u, "away")
=============================================================================
