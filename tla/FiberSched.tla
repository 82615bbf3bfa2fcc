----------------------------- MODULE FiberSched -----------------------------
(***************************************************************************)
(* One zco::Processor: its run loop, the fibers it owns and everyone who   *)
(* calls resume_fiber on them.  A Fiber never changes its owner_, and all  *)
(* that other threads do to it is Fiber::try_wake followed by              *)
(* Processor::enqueue_ready on that owner; so one processor together with  *)
(* an environment of Wakers is the whole scheduling protocol.              *)
(*                                                                         *)
(* The processor's thread is sequential: what it does between two points   *)
(* another thread can observe (the fiber's atomic state_, the run queue    *)
(* under run_queue_mutex_, the steal queue under its mutex) is one action. *)
(***************************************************************************)
EXTENDS Queues, FiniteSets

CONSTANTS
  Fibers,      \* Fiber objects the processor may ever allocate
  Tasks,       \* closures handed to go()
  Wakers,      \* threads other than the owner's that call resume_fiber
  BatchLimit,  \* kReadyDispatchBatchLimit and kTaskMaterializeBatchLimit
  PoolMax,     \* FiberPool::max_size_
  HandleWakes, \* whether resume(handle) may hit a fiber inside wait_fd
  MaxQueue,    \* bound: no foreign wake while this many entries are queued
  NoTask,      \* a Fiber that has no task
  NoFiber      \* an empty Fiber::ptr

ASSUME BoundsAssumption ==
  /\ BatchLimit \in Nat \ {0}
  /\ PoolMax \in Nat
  /\ MaxQueue \in Nat
  /\ HandleWakes \in BOOLEAN
ASSUME FibersAssumption == IsFiniteSet(Fibers)
ASSUME NoTaskAssumption == NoTask \notin Tasks
ASSUME NoFiberAssumption == NoFiber \notin Fibers

VARIABLES
  state,        \* Fiber::state_; "none": the object is not allocated yet
  timed_out,    \* Fiber::timed_out_
  at,           \* where the fiber's own code stands
  reg,          \* what may still end its wait: a TimerToken, an IoWaiter
  job,          \* Fiber::task_
  submitted,    \* tasks handed to enqueue_task so far
  finished,     \* tasks that have run to their end
  steal_queue,  \* StealQueue::tasks_ of this processor
  run_queue,    \* Processor::run_queue_
  ready_batch,  \* the local ready_batch of run_ready_tasks
  current,      \* current_fiber_, then the local `resumed`
  seen,         \* what finalize_after_switch loaded from state_
  loop,         \* which call of run_loop's body is being made
  step,         \* where run_ready_tasks stands
  fiber_pool,   \* FiberPool::fibers_
  waker         \* the resume_fiber call a foreign thread is in

fvars == <<state, timed_out, at, reg, job>>
qvars == <<steal_queue, run_queue, ready_batch, fiber_pool>>
pvars == <<current, seen, loop, step>>
tvars == <<submitted, finished>>
vars  == <<fvars, qvars, pvars, tvars, waker>>

States == {"none", "ready", "running", "waiting", "done"}
Places == {"none", "fresh", "run", "prepared", "registering", "parked",
           "yielded", "done"}
Idle   == [pc |-> "idle"]
Calls  == {Idle} \cup [pc : {"woken", "stored"}, fiber : Fibers, late : BOOLEAN]

Unallocated   == {f \in Fibers : state[f] = "none"}
Dispatching   == loop \in {"ready1", "ready2"}

Init ==
  /\ state = [f \in Fibers |-> "none"]
  /\ timed_out = [f \in Fibers |-> FALSE]
  /\ at = [f \in Fibers |-> "none"]
  /\ reg = [f \in Fibers |-> {}]
  /\ job = [f \in Fibers |-> NoTask]
  /\ submitted = {}
  /\ finished = {}
  /\ steal_queue = <<>>
  /\ run_queue = <<>>
  /\ ready_batch = <<>>
  /\ current = NoFiber
  /\ seen = "none"
  /\ loop = "drain"
  /\ step = "pick"
  /\ fiber_pool = <<>>
  /\ waker = [w \in Wakers |-> Idle]

-----------------------------------------------------------------------------
(* The environment: go() on some thread.                                   *)

EnqueueTask(t) ==
  /\ t \notin submitted
  /\ submitted' = submitted \cup {t}
  /\ steal_queue' = Append(steal_queue, t)
  /\ UNCHANGED <<fvars, run_queue, ready_batch, fiber_pool, pvars, finished, waker>>

-----------------------------------------------------------------------------
(* resume_fiber on a foreign thread: the compare-exchange of try_wake, its *)
(* separate store of timed_out_, then enqueue_ready on the owner.          *)

TryWake(w, f) ==
  /\ waker[w] = Idle
  /\ Len(run_queue) + Len(ready_batch) < MaxQueue
  /\ at[f] = "registering" => HandleWakes
  /\ state[f] = "waiting"
  /\ state' = [state EXCEPT ![f] = "ready"]
  /\ waker' = [waker EXCEPT ![w] = [pc |-> "woken", fiber |-> f, late |-> FALSE]]
  /\ UNCHANGED <<timed_out, at, reg, job, qvars, pvars, tvars>>

StoreTimedOut(w) ==
  /\ waker[w].pc = "woken"
  /\ timed_out' = [timed_out EXCEPT ![waker[w].fiber] = waker[w].late]
  /\ waker' = [waker EXCEPT ![w] = [pc |-> "stored", fiber |-> waker[w].fiber,
                                     late |-> waker[w].late]]
  /\ UNCHANGED <<state, at, reg, job, qvars, pvars, tvars>>

\* Mutant: leaves the fiber to its own dispatch when it is the current one.
EnqueueReadyUnlessCurrent(w) ==
  /\ waker[w].pc = "stored"
  /\ run_queue' = IF waker[w].fiber = current THEN run_queue
                  ELSE Append(run_queue, waker[w].fiber)
  /\ waker' = [waker EXCEPT ![w] = Idle]
  /\ UNCHANGED <<fvars, steal_queue, ready_batch, fiber_pool, pvars, tvars>>

EnqueueReady(w) ==
  /\ waker[w].pc = "stored"
  /\ run_queue' = Append(run_queue, waker[w].fiber)
  /\ waker' = [waker EXCEPT ![w] = Idle]
  /\ UNCHANGED <<fvars, steal_queue, ready_batch, fiber_pool, pvars, tvars>>

\* Mutant: a plain store of kReady instead of the compare-exchange.
ResumeHereUnchecked(f, late) ==
  /\ state[f] \in {"waiting", "ready"}
  /\ state' = [state EXCEPT ![f] = "ready"]
  /\ timed_out' = [timed_out EXCEPT ![f] = late]
  /\ run_queue' = Append(run_queue, f)

\* resume_fiber on the owner's own thread: no fiber of the owner runs
\* meanwhile, so nobody observes the three steps apart.
ResumeHere(f, late) ==
  /\ state[f] = "waiting"
  /\ state' = [state EXCEPT ![f] = "ready"]
  /\ timed_out' = [timed_out EXCEPT ![f] = late]
  /\ run_queue' = Append(run_queue, f)

-----------------------------------------------------------------------------
(* run_loop: drain_new_tasks                                               *)

\* obtain_fiber for k tasks: pooled objects first, oldest first, then new ones.
Obtained(k) ==
  {o \in [1..k -> Fibers] :
     \A i \in 1..k :
       IF i <= Len(fiber_pool)
         THEN o[i] = fiber_pool[i]
         ELSE /\ state[o[i]] = "none"
              /\ \A j \in 1..k : o[j] = o[i] => j = i}

\* fiber_pool_.acquire() pops what it returns.
PoolKeepsAcquired(k) == fiber_pool
PoolAfter(k) == SubSeq(fiber_pool, k + 1, Len(fiber_pool))

\* Fiber::reset and the constructor; a later reset of one object wins.
LastTask(o, k, f) ==
  LET i == CHOOSE i \in 1..k : o[i] = f /\ \A j \in 1..k : o[j] = f => j <= i
  IN  steal_queue[i]

\* drain_some takes a batch; bound: no more than there are Fiber objects for.
DrainCount == MinOf(MinOf(BatchLimit, Len(steal_queue)),
                    Len(fiber_pool) + Cardinality(Unallocated))

Materialize(k, o) ==
  /\ steal_queue' = SubSeq(steal_queue, k + 1, Len(steal_queue))
  /\ fiber_pool' = PoolAfter(k)
  /\ run_queue' = run_queue \o o
  /\ state' = [f \in Fibers |-> IF f \in Members(o) THEN "ready" ELSE state[f]]
  /\ timed_out' = [f \in Fibers |-> IF f \in Members(o) THEN FALSE ELSE timed_out[f]]
  /\ at' = [f \in Fibers |-> IF f \in Members(o) THEN "fresh" ELSE at[f]]
  /\ job' = [f \in Fibers |-> IF f \in Members(o) THEN LastTask(o, k, f) ELSE job[f]]

DrainNewTasks ==
  /\ loop = "drain"
  /\ \E o \in Obtained(DrainCount) : Materialize(DrainCount, o)
  /\ loop' = "ready1"
  /\ UNCHANGED <<reg, ready_batch, current, seen, step, tvars, waker>>

-----------------------------------------------------------------------------
(* run_loop: run_ready_tasks                                               *)

DrainReadyFibers ==
  /\ Dispatching /\ step = "pick" /\ ready_batch = <<>> /\ run_queue # <<>>
  /\ LET n == MinOf(BatchLimit, Len(run_queue))
     IN  /\ ready_batch' = SubSeq(run_queue, 1, n)
         /\ run_queue' = SubSeq(run_queue, n + 1, Len(run_queue))
  /\ UNCHANGED <<fvars, steal_queue, fiber_pool, pvars, tvars, waker>>

Recycle(f) ==
  fiber_pool' = IF Len(fiber_pool) >= PoolMax THEN fiber_pool ELSE Append(fiber_pool, f)

RecycleIfDone ==
  /\ Dispatching /\ step = "pick" /\ ready_batch # <<>>
  /\ state[Head(ready_batch)] = "done"
  /\ Recycle(Head(ready_batch))
  /\ ready_batch' = Tail(ready_batch)
  /\ UNCHANGED <<fvars, steal_queue, run_queue, pvars, tvars, waker>>

\* switch_to_fiber; a fiber that was parked first cancels its timer token
\* and its IoWaiter, which only this thread would have used.
SwitchToFiber ==
  /\ Dispatching /\ step = "pick" /\ ready_batch # <<>>
  /\ state[Head(ready_batch)] # "done"
  /\ current' = Head(ready_batch)
  /\ ready_batch' = Tail(ready_batch)
  /\ state' = [state EXCEPT ![Head(ready_batch)] = "running"]
  /\ at' = [at EXCEPT ![Head(ready_batch)] = "run"]
  /\ reg' = [reg EXCEPT ![Head(ready_batch)] = {}]
  /\ step' = "fiber"
  /\ UNCHANGED <<timed_out, job, steal_queue, run_queue, fiber_pool, seen, loop, tvars, waker>>

FinalizeAfterSwitch ==
  /\ step = "swapped"
  /\ seen' = state[current]
  /\ step' = "dispatch"
  /\ UNCHANGED <<fvars, qvars, current, loop, tvars, waker>>

\* Mutants: whatever is not done is queued; at the front.
RequeueLive(s, f)  == s # "done" /\ run_queue' = Append(run_queue, f)
RequeueFront(s, f) == s = "ready" /\ run_queue' = <<f>> \o run_queue

\* A yield, or a wake that came before the state was loaded.
Requeue(s, f) == s = "ready" /\ run_queue' = Append(run_queue, f)

DispatchResumedFiber ==
  /\ step = "dispatch"
  /\ \/ Requeue(seen, current) /\ UNCHANGED fiber_pool
     \/ seen = "done" /\ Recycle(current) /\ UNCHANGED run_queue
     \/ seen \notin {"ready", "done"} /\ UNCHANGED <<run_queue, fiber_pool>>
  /\ step' = "pick"
  /\ current' = NoFiber
  /\ seen' = "none"
  /\ UNCHANGED <<fvars, steal_queue, ready_batch, loop, tvars, waker>>

\* drain_ready_fibers returned 0: the only way out of run_ready_tasks.
EndRunReadyTasks ==
  /\ Dispatching /\ step = "pick" /\ ready_batch = <<>> /\ run_queue = <<>>
  /\ loop' = IF loop = "ready1" THEN "timers" ELSE "idle"
  /\ UNCHANGED <<fvars, qvars, current, seen, step, tvars, waker>>

-----------------------------------------------------------------------------
(* run_loop: process_timers, then wait_io_events_when_idle                 *)

\* Mutant: the popped entry is taken for a cancelled one.
TimerDueDropped(f) ==
  /\ loop = "timers" /\ "timer" \in reg[f]
  /\ reg' = [reg EXCEPT ![f] = {}]
  /\ UNCHANGED <<state, timed_out, run_queue>>
  /\ UNCHANGED <<at, job, steal_queue, ready_batch, fiber_pool, pvars, tvars, waker>>

\* The entry's deadline has passed: it is popped and its callback runs.
TimerDue(f) ==
  /\ loop = "timers" /\ "timer" \in reg[f]
  /\ reg' = [reg EXCEPT ![f] = {}]
  /\ \/ ResumeHere(f, TRUE)
     \/ /\ state[f] # "waiting"
        /\ UNCHANGED <<state, timed_out, run_queue>>
  /\ UNCHANGED <<at, job, steal_queue, ready_batch, fiber_pool, pvars, tvars, waker>>

EndProcessTimers ==
  /\ loop = "timers"
  /\ loop' = "ready2"
  /\ UNCHANGED <<fvars, qvars, current, seen, step, tvars, waker>>

\* handle_io_ready: the waiter's active flag is exchanged, a fiber that does
\* not wait any more is left alone.
HandleIoReady(f) ==
  /\ loop = "idle" /\ "io" \in reg[f]
  /\ reg' = [reg EXCEPT ![f] = {}]
  /\ \/ ResumeHere(f, FALSE)
     \/ /\ state[f] # "waiting"
        /\ UNCHANGED <<state, timed_out, run_queue>>
  /\ UNCHANGED <<at, job, steal_queue, ready_batch, fiber_pool, pvars, tvars, waker>>

EndIdle ==
  /\ loop = "idle"
  /\ loop' = "drain"
  /\ UNCHANGED <<fvars, qvars, current, seen, step, tvars, waker>>

-----------------------------------------------------------------------------
(* The running fiber: what its task may call.                              *)

Running(f, place) == step = "fiber" /\ current = f /\ at[f] = place

Yield(f) ==
  /\ Running(f, "run")
  /\ state' = [state EXCEPT ![f] = "ready"]
  /\ at' = [at EXCEPT ![f] = "yielded"]
  /\ step' = "swapped"
  /\ UNCHANGED <<timed_out, reg, job, qvars, current, seen, loop, tvars, waker>>

\* prepare_wait_current; wait_fd goes on to register its IoWaiter.
PrepareWait(f, place) ==
  /\ Running(f, "run")
  /\ state' = [state EXCEPT ![f] = "waiting"]
  /\ timed_out' = [timed_out EXCEPT ![f] = FALSE]
  /\ at' = [at EXCEPT ![f] = place]
  /\ UNCHANGED <<reg, job, qvars, pvars, tvars, waker>>

\* park_current, park_current_for, and the park of wait_fd: r is registered.
Park(f, place, r) ==
  /\ Running(f, place)
  /\ reg' = [reg EXCEPT ![f] = r]
  /\ at' = [at EXCEPT ![f] = "parked"]
  /\ step' = "swapped"
  /\ UNCHANGED <<state, timed_out, job, qvars, current, seen, loop, tvars, waker>>

\* wait_fd's register_waiter failed: mark_running, whatever happened since.
AbortWait(f) ==
  /\ Running(f, "registering")
  /\ state' = [state EXCEPT ![f] = "running"]
  /\ at' = [at EXCEPT ![f] = "run"]
  /\ UNCHANGED <<timed_out, reg, job, qvars, pvars, tvars, waker>>

\* The running fiber resumes another fiber of its own processor.
ResumePeer(f, g) ==
  /\ Running(f, "run") /\ g # f
  /\ ResumeHere(g, FALSE)
  /\ UNCHANGED <<at, reg, job, steal_queue, ready_batch, fiber_pool, pvars, tvars, waker>>

Finish(f) ==
  /\ Running(f, "run")
  /\ state' = [state EXCEPT ![f] = "done"]
  /\ at' = [at EXCEPT ![f] = "done"]
  /\ finished' = finished \cup {job[f]}
  /\ step' = "swapped"
  /\ UNCHANGED <<timed_out, reg, job, qvars, current, seen, loop, submitted, waker>>

\* The calls after which the processor's thread is back in the scheduler.
SwapOut(f) ==
  \/ Yield(f) \/ Finish(f)
  \/ \E r \in {{}, {"timer"}} : Park(f, "prepared", r)
  \/ \E r \in {{"io"}, {"io", "timer"}} : Park(f, "registering", r)

FiberStep(f) ==
  \/ SwapOut(f) \/ AbortWait(f)
  \/ \E place \in {"prepared", "registering"} : PrepareWait(f, place)
  \/ \E g \in Fibers : ResumePeer(f, g)

-----------------------------------------------------------------------------
WakerStep(w) == StoreTimedOut(w) \/ EnqueueReady(w)

Loop == \/ DrainNewTasks \/ DrainReadyFibers \/ RecycleIfDone \/ SwitchToFiber
        \/ FinalizeAfterSwitch \/ DispatchResumedFiber \/ EndRunReadyTasks
        \/ EndProcessTimers \/ EndIdle

Next == \/ \E t \in Tasks : EnqueueTask(t)
        \/ \E w \in Wakers, f \in Fibers : TryWake(w, f)
        \/ \E w \in Wakers : WakerStep(w)
        \/ Loop
        \/ \E f \in Fibers : TimerDue(f) \/ HandleIoReady(f) \/ FiberStep(f)

Spec == Init /\ [][Next]_vars

(***************************************************************************)
(* Fairness.  The loop's thread and the foreign threads keep running; a    *)
(* fiber gives the thread back at some point (scheduling is cooperative);  *)
(* and a deadline that has been set passes, so a timer the loop looks at   *)
(* again and again is found due.                                           *)
(* Nothing is assumed of when tasks are submitted or fibers are resumed.   *)
(***************************************************************************)
Fairness == /\ WF_vars(Loop)
            /\ \A w \in Wakers : WF_vars(WakerStep(w))
            /\ \A f \in Fibers : WF_vars(SwapOut(f)) /\ SF_vars(TimerDue(f))

FairSpec == Spec /\ Fairness

-----------------------------------------------------------------------------
(* Type invariant                                                          *)

TypeOK ==
  /\ state \in [Fibers -> States]
  /\ timed_out \in [Fibers -> BOOLEAN]
  /\ at \in [Fibers -> Places]
  /\ reg \in [Fibers -> SUBSET {"timer", "io"}]
  /\ job \in [Fibers -> Tasks \cup {NoTask}]
  /\ submitted \subseteq Tasks
  /\ finished \subseteq Tasks \cup {NoTask}
  /\ steal_queue \in Seq(Tasks)
  /\ run_queue \in Seq(Fibers)
  /\ ready_batch \in Seq(Fibers)
  /\ fiber_pool \in Seq(Fibers)
  /\ current \in Fibers \cup {NoFiber}
  /\ seen \in States
  /\ loop \in {"drain", "ready1", "timers", "ready2", "idle"}
  /\ step \in {"pick", "fiber", "swapped", "dispatch"}
  /\ waker \in [Wakers -> Calls]

-----------------------------------------------------------------------------
(* Safety                                                                  *)

Queued(f)   == f \in Members(run_queue) \cup Members(ready_batch)
InFlight(f) == \E w \in Wakers : waker[w] # Idle /\ waker[w].fiber = f
Returning(f) == /\ current = f
                /\ \/ step = "swapped"
                   \/ (step = "dispatch" /\ seen = "ready")

(* A fiber whose state_ is kReady is on its way to run: it is in the run   *)
(* queue or the drained batch, or the thread that woke it has yet to       *)
(* enqueue it, or run_ready_tasks has yet to dispatch it.  No order of     *)
(* mark_waiting, try_wake, the swap and dispatch_resumed_fiber loses a     *)
(* wake.                                                                   *)
NoLostWake ==
  \A f \in Fibers : state[f] = "ready" => Queued(f) \/ InFlight(f) \/ Returning(f)

\* What run_ready_tasks will switch to, in order.
Line == ready_batch \o run_queue

(* One wake, one entry: a fiber is queued at most once, and not at all     *)
(* while it is the running one (resume_fiber against                       *)
(* dispatch_resumed_fiber).                                                *)
QueuedOnce ==
  /\ Distinct(Line)
  /\ current \notin Members(Line)

(* A park only returns after somebody woke the fiber: switch_to_fiber is   *)
(* never given a fiber that is still kWaiting.                             *)
ParkReturnsWhenWoken ==
  [][\A f \in Fibers : at[f] = "parked" /\ at'[f] = "run" => state[f] = "ready"]_vars

Carries(f, t) == job[f] = t /\ state[f] \notin {"none", "done"}

(* Every submitted task that has not finished is still held exactly once:  *)
(* in the steal queue, or by exactly one live Fiber.  Reuse of Fiber       *)
(* objects through the FiberPool never gives one object to two tasks.      *)
TaskConserved ==
  \A t \in submitted \ finished :
     IF t \in Members(steal_queue)
       THEN \A f \in Fibers : ~Carries(f, t)
       ELSE \E f \in Fibers : Carries(f, t) /\ \A g \in Fibers : Carries(g, t) => g = f

-----------------------------------------------------------------------------
(* Liveness                                                                *)

(* A woken fiber runs: kReady leads to kRunning, whatever the other fibers *)
(* do (the run queue is FIFO and is drained in batches).                   *)
ReadyRuns == \A f \in Fibers : state[f] = "ready" ~> state[f] = "running"

Asleep(f) == at[f] = "parked" /\ state[f] = "waiting"

(* A wait with a timeout ends.                                             *)
TimedWaitEnds ==
  \A f \in Fibers : (Asleep(f) /\ "timer" \in reg[f]) ~> ~Asleep(f)

(* A wait with a timeout ends, provided run_ready_tasks returns again and  *)
(* again: the timer callback finds the fiber and it is not overtaken.      *)
TimedWaitEndsIfDrained ==
  ([]<>(loop = "timers")) => TimedWaitEnds

=============================================================================
