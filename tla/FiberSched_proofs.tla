------------------------- MODULE FiberSched_proofs -------------------------
(***************************************************************************)
(* What FiberSched promises for every number of fibers, tasks and wakers.  *)
(***************************************************************************)
EXTENDS FiberSched, QueueLemmas, FiniteSetTheorems

-----------------------------------------------------------------------------
(* Type correctness.  TypeOK alone is not inductive: that dispatch only    *)
(* handles real fibers needs CurrentOK.                                    *)

CurrentOK == step # "pick" => current \in Fibers

(* The batch drain_new_tasks takes is a natural number that neither the    *)
(* limit nor the queue's length is below.                                  *)
LEMMA DrainCountOK ==
  ASSUME TypeOK
  PROVE  DrainCount \in Nat /\ DrainCount <= Len(steal_queue)
<1>1. IsFiniteSet(Unallocated)
  BY FibersAssumption, FS_Subset DEF Unallocated
<1>2. Cardinality(Unallocated) \in Nat
  BY <1>1, FS_CardinalityType
<1> QED BY <1>2, BoundsAssumption DEF TypeOK, DrainCount, MinOf

(* What drain_new_tasks makes of a batch is well typed.                    *)
LEMMA MaterializeType ==
  ASSUME TypeOK, NEW o \in Obtained(DrainCount), Materialize(DrainCount, o)
  PROVE  /\ o \in Seq(Fibers)
         /\ steal_queue' \in Seq(Tasks)
         /\ fiber_pool' \in Seq(Fibers)
         /\ run_queue' \in Seq(Fibers)
         /\ state' \in [Fibers -> States]
         /\ timed_out' \in [Fibers -> BOOLEAN]
         /\ at' \in [Fibers -> Places]
         /\ job' \in [Fibers -> Tasks \cup {NoTask}]
<1> DEFINE k == DrainCount
<1>k. k \in Nat /\ k <= Len(steal_queue)
  BY DrainCountOK
<1> HIDE DEF k
<1>1. o \in [1..k -> Fibers]
  BY DEF Obtained, k
<1>2. o \in Seq(Fibers)
  BY <1>1, <1>k
<1>3. ASSUME NEW f \in Members(o)
      PROVE  LastTask(o, k, f) \in Tasks
  <2> DEFINE I == {i \in 1..k : o[i] = f}
             P(i) == i \in 1..k /\ o[i] = f /\ \A j \in 1..k : o[j] = f => j <= i
  <2>1. I # {} /\ I \subseteq 1..k
    BY <1>1, <1>3 DEF Members
  <2>2. \E i \in I : \A j \in I : j <= i
    BY <2>1, <1>k, MaxOfInterval
  <2>3. \E i \in 1..k : P(i)
    BY <2>2
  <2>4. (CHOOSE i \in 1..k : o[i] = f /\ \A j \in 1..k : o[j] = f => j <= i) \in 1..k
    BY <2>3
  <2>5. \A i \in 1..k : steal_queue[i] \in Tasks
    BY <1>k DEF TypeOK
  <2> QED BY <2>4, <2>5 DEF LastTask
<1>4. steal_queue' \in Seq(Tasks) /\ fiber_pool' \in Seq(Fibers) /\ run_queue' \in Seq(Fibers)
  BY <1>2, <1>k DEF Materialize, TypeOK, PoolAfter, k
<1>5. /\ state' \in [Fibers -> States]
      /\ timed_out' \in [Fibers -> BOOLEAN]
      /\ at' \in [Fibers -> Places]
  BY DEF Materialize, TypeOK, States, Places
<1>6. job' \in [Fibers -> Tasks \cup {NoTask}]
  BY <1>3 DEF Materialize, TypeOK, k
<1> QED BY <1>2, <1>4, <1>5, <1>6

(* Every step of the scheduler keeps the types.                            *)
LEMMA TypeStep ==
  ASSUME TypeOK, CurrentOK, [Next]_vars
  PROVE  TypeOK' /\ CurrentOK'
<1> USE DEF TypeOK, CurrentOK, fvars, qvars, pvars, tvars
<1>1. ASSUME NEW t \in Tasks, EnqueueTask(t) PROVE TypeOK' /\ CurrentOK'
  BY <1>1 DEF EnqueueTask
<1>2. ASSUME NEW w \in Wakers, NEW f \in Fibers, TryWake(w, f)
      PROVE  TypeOK' /\ CurrentOK'
  BY <1>2 DEF TryWake, States, Calls
<1>3. ASSUME NEW w \in Wakers, StoreTimedOut(w) PROVE TypeOK' /\ CurrentOK'
  <2>1. waker[w] \in [pc : {"woken", "stored"}, fiber : Fibers, late : BOOLEAN]
    BY <1>3 DEF StoreTimedOut, Calls, Idle
  <2>2. timed_out' \in [Fibers -> BOOLEAN]
    BY <1>3, <2>1 DEF StoreTimedOut
  <2>3. waker' \in [Wakers -> Calls]
    BY <1>3, <2>1 DEF StoreTimedOut, Calls
  <2> QED BY <1>3, <2>2, <2>3 DEF StoreTimedOut
<1>4. ASSUME NEW w \in Wakers, EnqueueReady(w) PROVE TypeOK' /\ CurrentOK'
  <2>1. waker[w].fiber \in Fibers
    BY <1>4 DEF EnqueueReady, Calls, Idle
  <2> QED BY <1>4, <2>1 DEF EnqueueReady, Calls
<1>5. CASE DrainNewTasks
  <2>1. PICK o \in Obtained(DrainCount) : Materialize(DrainCount, o)
    BY <1>5 DEF DrainNewTasks
  <2> QED BY <1>5, <2>1, MaterializeType DEF DrainNewTasks
<1>6. CASE DrainReadyFibers
  BY <1>6, BoundsAssumption DEF DrainReadyFibers, MinOf
<1>7. CASE RecycleIfDone
  BY <1>7, MembersTail DEF RecycleIfDone, Recycle
<1>8. CASE SwitchToFiber
  BY <1>8, MembersTail DEF SwitchToFiber, States, Places
<1>9. CASE FinalizeAfterSwitch
  BY <1>9 DEF FinalizeAfterSwitch
<1>10. CASE DispatchResumedFiber
  <2>1. current \in Fibers
    BY <1>10 DEF DispatchResumedFiber
  <2>2. run_queue' = run_queue \/ run_queue' = Append(run_queue, current)
    BY <1>10 DEF DispatchResumedFiber, Requeue, Recycle
  <2>3. fiber_pool' = fiber_pool \/ fiber_pool' = Append(fiber_pool, current)
    BY <1>10 DEF DispatchResumedFiber, Requeue, Recycle
  <2>4. run_queue' \in Seq(Fibers) /\ fiber_pool' \in Seq(Fibers)
    <3>1. Append(run_queue, current) \in Seq(Fibers) /\ Append(fiber_pool, current) \in Seq(Fibers)
      BY <2>1
    <3> QED BY <2>2, <2>3, <3>1
  <2> QED BY <1>10, <2>4 DEF DispatchResumedFiber, States
<1>11. CASE EndRunReadyTasks \/ EndProcessTimers \/ EndIdle
  BY <1>11 DEF EndRunReadyTasks, EndProcessTimers, EndIdle
<1>12. ASSUME NEW f \in Fibers, TimerDue(f) \/ HandleIoReady(f)
       PROVE  TypeOK' /\ CurrentOK'
  <2>1. run_queue' = run_queue \/ run_queue' = Append(run_queue, f)
    BY <1>12 DEF TimerDue, HandleIoReady, ResumeHere
  <2>3. state' \in [Fibers -> States]
    BY <1>12 DEF TimerDue, HandleIoReady, ResumeHere, States
  <2>2. timed_out' \in [Fibers -> BOOLEAN] /\ reg' \in [Fibers -> SUBSET {"timer", "io"}]
    BY <1>12 DEF TimerDue, HandleIoReady, ResumeHere
  <2>4. run_queue' \in Seq(Fibers)
    <3>1. run_queue \in Seq(Fibers) /\ Append(run_queue, f) \in Seq(Fibers)
      OBVIOUS
    <3> QED BY <2>1, <3>1
  <2> QED BY <1>12, <2>2, <2>3, <2>4 DEF TimerDue, HandleIoReady
<1>13. ASSUME NEW f \in Fibers, FiberStep(f) PROVE TypeOK' /\ CurrentOK'
  <2>1. CASE Yield(f) \/ Finish(f) \/ AbortWait(f)
    BY <2>1, SMTT(30) DEF Yield, Finish, AbortWait, Running, States, Places
  <2>2. ASSUME NEW r \in SUBSET {"timer", "io"}, NEW p \in Places, Park(f, p, r)
        PROVE  TypeOK' /\ CurrentOK'
    BY <2>2 DEF Park, Running, Places
  <2>3. ASSUME NEW p \in {"prepared", "registering"}, PrepareWait(f, p)
        PROVE  TypeOK' /\ CurrentOK'
    BY <2>3 DEF PrepareWait, Running, States, Places
  <2>4. ASSUME NEW g \in Fibers, ResumePeer(f, g) PROVE TypeOK' /\ CurrentOK'
    BY <2>4 DEF ResumePeer, ResumeHere, States
  <2> QED BY <1>13, <2>1, <2>2, <2>3, <2>4 DEF FiberStep, SwapOut, Places
<1>14. CASE UNCHANGED vars
  BY <1>14 DEF vars
<1> QED
  BY <1>1, <1>2, <1>3, <1>4, <1>5, <1>6, <1>7, <1>8, <1>9, <1>10, <1>11, <1>12,
     <1>13, <1>14 DEF Next, WakerStep, Loop

(* Every variable of the scheduler keeps its type, and what                *)
(* run_ready_tasks dispatches is always a real fiber.                      *)
THEOREM TypeCorrect == Spec => []TypeOK
<1>1. Init => TypeOK /\ CurrentOK
  BY DEF Init, TypeOK, CurrentOK, States, Places, Calls
<1>2. TypeOK /\ CurrentOK /\ [Next]_vars => TypeOK' /\ CurrentOK'
  BY TypeStep
<1> QED BY <1>1, <1>2, PTL DEF Spec

-----------------------------------------------------------------------------
(* No wake is lost.  NoLostWake is inductive together with the types: the  *)
(* three places a woken fiber can be in hand it over to each other.        *)

(* drain_ready_fibers moves fibers from the run queue to the batch.        *)
LEMMA DrainReadyKeeps ==
  ASSUME TypeOK, DrainReadyFibers, NEW h \in Fibers, Queued(h)
  PROVE  Queued(h)'
<1> DEFINE n == MinOf(BatchLimit, Len(run_queue))
<1>1. n \in 0..Len(run_queue) /\ run_queue \in Seq(Fibers)
  BY BoundsAssumption DEF TypeOK, MinOf
<1> HIDE DEF n
<1>2. h \in Members(run_queue)
  BY DEF DrainReadyFibers, Queued, Members
<1>3. h \in Members(SubSeq(run_queue, 1, n)) \cup Members(SubSeq(run_queue, n + 1, Len(run_queue)))
  BY <1>1, <1>2, MembersCut
<1>4. /\ ready_batch' = SubSeq(run_queue, 1, n)
      /\ run_queue' = SubSeq(run_queue, n + 1, Len(run_queue))
  BY DEF DrainReadyFibers, n
<1> QED BY <1>3, <1>4 DEF Queued

(* Taking the head of the batch leaves every other fiber queued.           *)
LEMMA PickKeeps ==
  ASSUME TypeOK, ready_batch # <<>>, ready_batch' = Tail(ready_batch), run_queue' = run_queue,
         NEW h \in Fibers, h # Head(ready_batch), Queued(h)
  PROVE  Queued(h)'
<1>1. Members(ready_batch) = Members(Tail(ready_batch)) \cup {Head(ready_batch)}
  BY MembersTail DEF TypeOK
<1> QED BY <1>1 DEF Queued

(* enqueue_ready keeps what is queued and adds its fiber.                  *)
LEMMA PushKeeps ==
  ASSUME TypeOK, NEW g \in Fibers, run_queue' = Append(run_queue, g), ready_batch' = ready_batch
  PROVE  /\ Queued(g)'
         /\ \A h \in Fibers : Queued(h) => Queued(h)'
<1>1. Members(run_queue') = Members(run_queue) \cup {g}
  BY MembersAppend DEF TypeOK
<1> QED BY <1>1 DEF Queued

(* Every step of the scheduler keeps NoLostWake.                           *)
LEMMA NoLostWakeStep ==
  ASSUME TypeOK, CurrentOK, NoLostWake, [Next]_vars
  PROVE  NoLostWake'
<1> USE DEF fvars, qvars, pvars, tvars
<1> SUFFICES ASSUME NEW h \in Fibers, state'[h] = "ready"
             PROVE  Queued(h)' \/ InFlight(h)' \/ Returning(h)'
  BY DEF NoLostWake
<1> DEFINE Safe == Queued(h)' \/ InFlight(h)' \/ Returning(h)'
<1>0. state[h] = "ready" => Queued(h) \/ InFlight(h) \/ Returning(h)
  BY DEF NoLostWake
<1>1. ASSUME NEW t \in Tasks, EnqueueTask(t) PROVE Safe
  BY <1>0, <1>1 DEF EnqueueTask, Queued, InFlight, Returning
<1>2. ASSUME NEW w \in Wakers, NEW f \in Fibers, TryWake(w, f) PROVE Safe
  <2>1. CASE h = f
    <3>1. waker'[w].fiber = h /\ waker'[w] # Idle
      BY <1>2, <2>1 DEF TryWake, TypeOK, Idle
    <3> QED BY <3>1 DEF InFlight
  <2>2. CASE h # f
    <3>1. state[h] = "ready"
      BY <1>2, <2>2 DEF TryWake, TypeOK
    <3>2. CASE InFlight(h)
      <4>1. PICK v \in Wakers : waker[v] # Idle /\ waker[v].fiber = h
        BY <3>2 DEF InFlight
      <4>2. waker'[v] = waker[v]
        BY <1>2, <4>1 DEF TryWake, TypeOK
      <4> QED BY <4>1, <4>2 DEF InFlight
    <3>3. CASE Queued(h) \/ Returning(h)
      BY <1>2, <3>3 DEF TryWake, Queued, Returning
    <3> QED BY <1>0, <3>1, <3>2, <3>3
  <2> QED BY <2>1, <2>2
<1>3. ASSUME NEW w \in Wakers, StoreTimedOut(w) PROVE Safe
  <2>1. CASE InFlight(h)
    <3>1. PICK v \in Wakers : waker[v] # Idle /\ waker[v].fiber = h
      BY <2>1 DEF InFlight
    <3>2. waker'[v] # Idle /\ waker'[v].fiber = h
      BY <1>3, <3>1 DEF StoreTimedOut, TypeOK, Idle
    <3> QED BY <3>2 DEF InFlight
  <2>2. CASE Queued(h) \/ Returning(h)
    BY <1>3, <2>2 DEF StoreTimedOut, Queued, Returning
  <2> QED BY <1>0, <1>3, <2>1, <2>2 DEF StoreTimedOut
<1>4. ASSUME NEW w \in Wakers, EnqueueReady(w) PROVE Safe
  <2>1. PICK g \in Fibers : g = waker[w].fiber
    BY <1>4 DEF EnqueueReady, Calls, Idle, TypeOK
  <2>2. Queued(g)' /\ (Queued(h) => Queued(h)')
    BY <1>4, <2>1, PushKeeps DEF EnqueueReady
  <2>3. CASE InFlight(h)
    <3>1. PICK v \in Wakers : waker[v] # Idle /\ waker[v].fiber = h
      BY <2>3 DEF InFlight
    <3>2. CASE v = w
      BY <3>1, <3>2, <2>1, <2>2
    <3>3. CASE v # w
      <4>1. waker'[v] = waker[v]
        BY <1>4, <3>3 DEF EnqueueReady, TypeOK
      <4> QED BY <3>1, <4>1 DEF InFlight
    <3> QED BY <3>2, <3>3
  <2>4. CASE Returning(h)
    BY <1>4, <2>4 DEF EnqueueReady, Returning
  <2> QED BY <1>0, <1>4, <2>2, <2>3, <2>4 DEF EnqueueReady
<1>5. CASE DrainNewTasks
  <2>1. PICK o \in Obtained(DrainCount) : Materialize(DrainCount, o)
    BY <1>5 DEF DrainNewTasks
  <2>2. o \in Seq(Fibers) /\ run_queue \in Seq(Fibers) /\ run_queue' = run_queue \o o
    BY <2>1, MaterializeType DEF Materialize, TypeOK
  <2>3. Members(run_queue') = Members(run_queue) \cup Members(o)
    BY <2>2, MembersConcat
  <2>4. CASE h \in Members(o)
    BY <2>3, <2>4 DEF Queued
  <2>5. CASE h \notin Members(o)
    <3>1. state[h] = "ready"
      BY <2>1, <2>5 DEF Materialize
    <3>2. Queued(h) => Queued(h)'
      BY <1>5, <2>3 DEF DrainNewTasks, Queued
    <3>3. InFlight(h) => InFlight(h)'
      BY <1>5 DEF DrainNewTasks, InFlight
    <3>4. Returning(h) => Returning(h)'
      BY <1>5 DEF DrainNewTasks, Returning
    <3> QED BY <1>0, <3>1, <3>2, <3>3, <3>4
  <2> QED BY <2>4, <2>5
<1>6. CASE DrainReadyFibers
  <2>1. Queued(h) => Queued(h)'
    BY <1>6, DrainReadyKeeps
  <2>2. (InFlight(h) => InFlight(h)') /\ ~Returning(h) /\ state[h] = "ready"
    BY <1>6 DEF DrainReadyFibers, InFlight, Returning
  <2> QED BY <1>0, <2>1, <2>2
<1>7. CASE RecycleIfDone
  <2>1. state[h] = "ready" /\ h # Head(ready_batch)
    BY <1>7 DEF RecycleIfDone
  <2>2. Queued(h) => Queued(h)'
    BY <1>7, <2>1, PickKeeps DEF RecycleIfDone
  <2>3. (InFlight(h) => InFlight(h)') /\ ~Returning(h)
    BY <1>7 DEF RecycleIfDone, InFlight, Returning
  <2> QED BY <1>0, <2>1, <2>2, <2>3
<1>8. CASE SwitchToFiber
  <2>0. Head(ready_batch) \in Fibers
    BY <1>8, MembersTail DEF SwitchToFiber, TypeOK
  <2>1. state[h] = "ready" /\ h # Head(ready_batch)
    BY <1>8, <2>0 DEF SwitchToFiber, TypeOK
  <2>2. Queued(h) => Queued(h)'
    BY <1>8, <2>1, PickKeeps DEF SwitchToFiber
  <2>3. (InFlight(h) => InFlight(h)') /\ ~Returning(h)
    BY <1>8 DEF SwitchToFiber, InFlight, Returning
  <2> QED BY <1>0, <2>1, <2>2, <2>3
<1>9. CASE FinalizeAfterSwitch
  <2>1. state[h] = "ready" /\ (Queued(h) => Queued(h)') /\ (InFlight(h) => InFlight(h)')
    BY <1>9 DEF FinalizeAfterSwitch, Queued, InFlight
  <2>2. Returning(h) => Returning(h)'
    BY <1>9, <2>1 DEF FinalizeAfterSwitch, Returning
  <2> QED BY <1>0, <2>1, <2>2
<1>10. CASE DispatchResumedFiber
  <2>0. PICK g \in Fibers : g = current
    BY <1>10 DEF DispatchResumedFiber, CurrentOK
  <2>1. state[h] = "ready" /\ (InFlight(h) => InFlight(h)')
    BY <1>10 DEF DispatchResumedFiber, InFlight
  <2>2. CASE seen = "ready"
    <3>1. Queued(g)' /\ (Queued(h) => Queued(h)')
      BY <1>10, <2>0, <2>2, PushKeeps DEF DispatchResumedFiber, Requeue
    <3>2. Returning(h) => h = g
      BY <2>0 DEF Returning
    <3> QED BY <1>0, <2>1, <3>1, <3>2
  <2>3. CASE seen # "ready"
    <3>1. run_queue' = run_queue /\ ready_batch' = ready_batch
      BY <1>10, <2>3 DEF DispatchResumedFiber, Requeue
    <3>2. ~Returning(h)
      BY <1>10, <2>3 DEF DispatchResumedFiber, Returning
    <3> QED BY <1>0, <2>1, <3>1, <3>2 DEF Queued
  <2> QED BY <2>2, <2>3
<1>11. CASE EndRunReadyTasks \/ EndProcessTimers \/ EndIdle
  BY <1>0, <1>11 DEF EndRunReadyTasks, EndProcessTimers, EndIdle, Queued, InFlight, Returning
<1>12. ASSUME NEW f \in Fibers, TimerDue(f) \/ HandleIoReady(f) PROVE Safe
  <2>1. (InFlight(h) => InFlight(h)') /\ (Returning(h) => Returning(h)')
    BY <1>12 DEF TimerDue, HandleIoReady, InFlight, Returning
  <2>2. CASE run_queue' = Append(run_queue, f)
    <3>1. Queued(f)' /\ (Queued(h) => Queued(h)')
      BY <1>12, <2>2, PushKeeps DEF TimerDue, HandleIoReady
    <3>2. h # f => state[h] = "ready"
      BY <1>12 DEF TimerDue, HandleIoReady, ResumeHere, TypeOK
    <3> QED BY <1>0, <2>1, <3>1, <3>2 DEF Queued
  <2>3. CASE UNCHANGED <<state, run_queue, ready_batch>>
    BY <1>0, <2>1, <2>3 DEF Queued
  <2> QED BY <1>12, <2>2, <2>3 DEF TimerDue, HandleIoReady, ResumeHere
<1>13. ASSUME NEW f \in Fibers, FiberStep(f) PROVE Safe
  <2>1. CASE Yield(f)
    <3>1. h = f => Returning(h)'
      BY <2>1 DEF Yield, Running, Returning
    <3>2. h # f => state[h] = "ready" /\ ~Returning(h)
      BY <2>1 DEF Yield, Running, Returning, TypeOK
    <3>3. (Queued(h) => Queued(h)') /\ (InFlight(h) => InFlight(h)')
      BY <2>1 DEF Yield, Queued, InFlight
    <3> QED BY <1>0, <3>1, <3>2, <3>3
  <2>2. CASE Finish(f) \/ AbortWait(f)
    <3>1. h # f /\ state[h] = "ready" /\ ~Returning(h)
      BY <2>2 DEF Finish, AbortWait, Running, Returning, TypeOK
    <3>2. (Queued(h) => Queued(h)') /\ (InFlight(h) => InFlight(h)')
      BY <2>2 DEF Finish, AbortWait, Queued, InFlight
    <3> QED BY <1>0, <3>1, <3>2
  <2>3. ASSUME NEW r, NEW p, Park(f, p, r) PROVE Safe
    <3>1. state[h] = "ready" /\ ~Returning(h)
      BY <2>3 DEF Park, Running, Returning
    <3>2. (Queued(h) => Queued(h)') /\ (InFlight(h) => InFlight(h)')
      BY <2>3 DEF Park, Queued, InFlight
    <3> QED BY <1>0, <3>1, <3>2
  <2>4. ASSUME NEW p, PrepareWait(f, p) PROVE Safe
    <3>1. h # f /\ state[h] = "ready" /\ ~Returning(h)
      BY <2>4 DEF PrepareWait, Running, Returning, TypeOK
    <3>2. (Queued(h) => Queued(h)') /\ (InFlight(h) => InFlight(h)')
      BY <2>4 DEF PrepareWait, Queued, InFlight
    <3> QED BY <1>0, <3>1, <3>2
  <2>5. ASSUME NEW g \in Fibers, ResumePeer(f, g) PROVE Safe
    <3>1. Queued(g)' /\ (Queued(h) => Queued(h)')
      BY <2>5, PushKeeps DEF ResumePeer, ResumeHere
    <3>2. h # g => state[h] = "ready"
      BY <2>5 DEF ResumePeer, ResumeHere, TypeOK
    <3>3. (InFlight(h) => InFlight(h)') /\ ~Returning(h)
      BY <2>5 DEF ResumePeer, Running, InFlight, Returning
    <3> QED BY <1>0, <3>1, <3>2, <3>3 DEF Queued
  <2> QED BY <1>13, <2>1, <2>2, <2>3, <2>4, <2>5 DEF FiberStep, SwapOut
<1>14. CASE UNCHANGED vars
  BY <1>0, <1>14 DEF vars, Queued, InFlight, Returning
<1> QED
  BY <1>1, <1>2, <1>3, <1>4, <1>5, <1>6, <1>7, <1>8, <1>9, <1>10, <1>11, <1>12,
     <1>13, <1>14 DEF Next, WakerStep, Loop

(* Whatever the wakers do and whenever they do it, a fiber that is kReady  *)
(* is queued, about to be queued by its waker, or about to be dispatched.  *)
THEOREM WakesAreNotLost == Spec => []NoLostWake
<1>1. Init => TypeOK /\ CurrentOK /\ NoLostWake
  BY DEF Init, TypeOK, CurrentOK, NoLostWake, States, Places, Calls
<1>2. TypeOK /\ CurrentOK /\ NoLostWake /\ [Next]_vars
        => TypeOK' /\ CurrentOK' /\ NoLostWake'
  BY TypeStep, NoLostWakeStep
<1> QED BY <1>1, <1>2, PTL DEF Spec

-----------------------------------------------------------------------------
(* When every resume_fiber comes from the owner's own thread (one          *)
(* scheduler, or fibers, timers and descriptors of one scheduler only) a   *)
(* fiber is queued once and a park returns only after a wake.              *)

LineInv ==
  /\ Distinct(Line)
  /\ \A f \in Members(Line) : state[f] = "ready"
  /\ current \notin Members(Line)

PoolInv ==
  /\ Distinct(fiber_pool)
  /\ \A f \in Members(fiber_pool) : state[f] = "done"
  /\ current \notin Members(fiber_pool)

StepInv ==
  /\ step = "pick" => current = NoFiber
  /\ ~Dispatching => step = "pick" /\ ready_batch = <<>>
  /\ step = "dispatch" => seen = state[current]

LocalInv == LineInv /\ PoolInv /\ StepInv

(* The line of fibers to run is a sequence of fibers.                      *)
LEMMA LineType ==
  ASSUME TypeOK
  PROVE  Line \in Seq(Fibers) /\ Members(Line) \subseteq Fibers
<1>1. Line \in Seq(Fibers)
  BY DEF TypeOK, Line
<1> QED BY <1>1 DEF Members

(* enqueue_ready of a fiber that is not in line keeps the line in order.   *)
LEMMA LinePush ==
  ASSUME TypeOK, Distinct(Line), NEW g \in Fibers, g \notin Members(Line),
         run_queue' = Append(run_queue, g), ready_batch' = ready_batch
  PROVE  Distinct(Line)' /\ Members(Line)' = Members(Line) \cup {g}
<1>1. Line' = Append(Line, g)
  BY ConcatAppend DEF TypeOK, Line
<1>2. Distinct(Append(Line, g)) /\ Members(Append(Line, g)) = Members(Line) \cup {g}
  BY LineType, DistinctAppend, MembersAppend
<1>3. Distinct(Line') /\ Members(Line') = Members(Line) \cup {g}
  BY <1>1, <1>2
<1> QED BY <1>3 DEF Distinct, Members

(* Taking the head of the batch takes the head of the line.                *)
LEMMA LinePop ==
  ASSUME TypeOK, Distinct(Line), ready_batch # <<>>,
         ready_batch' = Tail(ready_batch), run_queue' = run_queue
  PROVE  /\ Head(ready_batch) \in Members(Line)
         /\ Distinct(Line)'
         /\ Members(Line)' = Members(Line) \ {Head(ready_batch)}
<1>1. Line' = Tail(Line) /\ Head(Line) = Head(ready_batch) /\ Line # <<>>
  BY ConcatTail DEF TypeOK, Line
<1>2. Members(Line) = Members(Tail(Line)) \cup {Head(Line)}
  BY <1>1, LineType, MembersTail
<1>3. Distinct(Tail(Line)) /\ Head(Line) \notin Members(Tail(Line))
  BY <1>1, LineType, DistinctTail
<1>4. Distinct(Line') /\ Members(Line') = Members(Line) \ {Head(ready_batch)}
  BY <1>1, <1>2, <1>3
<1> QED BY <1>1, <1>2, <1>4 DEF Distinct, Members

(* The objects drain_new_tasks obtains are different from each other, were *)
(* idle, and leave the pool.                                               *)
LEMMA ObtainedOK ==
  ASSUME TypeOK, PoolInv, NEW o \in Obtained(DrainCount), Materialize(DrainCount, o)
  PROVE  /\ o \in Seq(Fibers)
         /\ Distinct(o)
         /\ \A f \in Members(o) : state[f] \in {"none", "done"}
         /\ Distinct(fiber_pool')
         /\ Members(fiber_pool') \subseteq Members(fiber_pool) \ Members(o)
<1> DEFINE k == DrainCount
<1>k. k \in Nat
  BY DrainCountOK
<1>1. /\ o \in [1..k -> Fibers]
      /\ \A i \in 1..k : i <= Len(fiber_pool) => o[i] = fiber_pool[i]
      /\ \A i \in 1..k : ~(i <= Len(fiber_pool)) =>
            state[o[i]] = "none" /\ \A j \in 1..k : o[j] = o[i] => j = i
  BY DEF Obtained
<1>2. fiber_pool \in Seq(Fibers) /\ fiber_pool' = SubSeq(fiber_pool, k + 1, Len(fiber_pool))
  BY DEF TypeOK, Materialize, PoolAfter
<1> HIDE DEF k
<1>3. o \in Seq(Fibers) /\ DOMAIN o = 1..k
  BY <1>1, <1>k
<1>4. \A i \in 1..k : i <= Len(fiber_pool) =>
        i \in DOMAIN fiber_pool /\ fiber_pool[i] \in Members(fiber_pool)
  BY <1>2, <1>k DEF Members
<1>5. \A i \in 1..k : i <= Len(fiber_pool) => state[o[i]] = "done"
  BY <1>1, <1>4 DEF PoolInv
<1>6. \A f \in Members(o) : state[f] \in {"none", "done"}
  BY <1>1, <1>3, <1>5 DEF Members
<1>7. ASSUME NEW i \in 1..k, NEW j \in 1..k, o[i] = o[j] PROVE i = j
  <2>1. CASE i <= Len(fiber_pool) /\ j <= Len(fiber_pool)
    BY <2>1, <1>1, <1>4, <1>7 DEF PoolInv, Distinct
  <2>2. CASE ~(i <= Len(fiber_pool)) \/ ~(j <= Len(fiber_pool))
    BY <2>2, <1>1, <1>7
  <2> QED BY <2>1, <2>2
<1>8. Distinct(o)
  BY <1>7, <1>3 DEF Distinct
<1> DEFINE b == SubSeq(fiber_pool, k + 1, Len(fiber_pool))
<1>9. /\ Distinct(b) /\ Members(b) \subseteq Members(fiber_pool)
      /\ \A i \in DOMAIN fiber_pool : i <= k => fiber_pool[i] \notin Members(b)
  BY <1>2, <1>k, DistinctCut DEF PoolInv
<1> HIDE DEF b
<1>10. ASSUME NEW i \in 1..k PROVE o[i] \notin Members(b)
  <2>1. CASE i <= Len(fiber_pool)
    BY <2>1, <1>1, <1>4, <1>9, <1>k
  <2>2. CASE ~(i <= Len(fiber_pool))
    BY <2>2, <1>1, <1>9 DEF PoolInv
  <2> QED BY <2>1, <2>2
<1>11. Members(b) \subseteq Members(fiber_pool) \ Members(o)
  BY <1>3, <1>9, <1>10 DEF Members
<1> QED BY <1>2, <1>3, <1>6, <1>8, <1>9, <1>11 DEF b

(* A wake on the owner's thread puts its fiber in line once.               *)
LEMMA ResumeHereLocal ==
  ASSUME TypeOK, LineInv, PoolInv, NEW g \in Fibers, NEW late, ResumeHere(g, late), g # current,
         ready_batch' = ready_batch, fiber_pool' = fiber_pool, current' = current
  PROVE  LineInv' /\ PoolInv'
<1>1. g \notin Members(Line) /\ g \notin Members(fiber_pool)
  BY DEF ResumeHere, LineInv, PoolInv
<1>2. Distinct(Line)' /\ Members(Line)' = Members(Line) \cup {g}
  BY <1>1, LinePush DEF ResumeHere, LineInv
<1>3. \A f \in Fibers : state'[f] = IF f = g THEN "ready" ELSE state[f]
  BY DEF ResumeHere, TypeOK
<1>4. Members(Line) \subseteq Fibers /\ Members(fiber_pool) \subseteq Fibers
  BY LineType DEF TypeOK, Members
<1>5. LineInv'
  BY <1>2, <1>3, <1>4 DEF LineInv
<1>6. PoolInv'
  BY <1>1, <1>3, <1>4 DEF PoolInv
<1> QED BY <1>5, <1>6

(* A step that changes neither the line nor the pool, and the state of     *)
(* nobody in them, keeps both invariants.                                  *)
LEMMA UntouchedLocal ==
  ASSUME TypeOK, LineInv, PoolInv, UNCHANGED <<run_queue, ready_batch, fiber_pool, current>>,
         \A f \in Fibers : f # current => state'[f] = state[f]
  PROVE  LineInv' /\ PoolInv'
<1>1. Members(Line) \subseteq Fibers /\ Members(fiber_pool) \subseteq Fibers
  BY LineType DEF TypeOK, Members
<1>2. Line' = Line
  BY DEF Line
<1>3. LineInv'
  BY <1>1, <1>2 DEF LineInv
<1>4. PoolInv'
  BY <1>1 DEF PoolInv
<1> QED BY <1>3, <1>4

(* Without foreign wakers every step keeps LocalInv.                       *)
LEMMA LocalStep ==
  ASSUME Wakers = {}, TypeOK, CurrentOK, LocalInv, [Next]_vars
  PROVE  LocalInv'
<1> USE DEF fvars, qvars, pvars, tvars, LocalInv
<1>0. Members(Line) \subseteq Fibers /\ Members(fiber_pool) \subseteq Fibers /\ NoFiber \notin Fibers
  BY LineType, NoFiberAssumption DEF TypeOK, Members
<1>1. ASSUME NEW t \in Tasks, EnqueueTask(t) PROVE LocalInv'
  <2>1. LineInv' /\ PoolInv'
    BY <1>1, UntouchedLocal DEF EnqueueTask
  <2> QED BY <1>1, <2>1 DEF EnqueueTask, StepInv, Dispatching
<1>5. CASE DrainNewTasks
  <2>1. PICK o \in Obtained(DrainCount) : Materialize(DrainCount, o)
    BY <1>5 DEF DrainNewTasks
  <2>2. /\ o \in Seq(Fibers) /\ Distinct(o)
        /\ \A f \in Members(o) : state[f] \in {"none", "done"}
        /\ Distinct(fiber_pool')
        /\ Members(fiber_pool') \subseteq Members(fiber_pool) \ Members(o)
    BY <2>1, ObtainedOK
  <2>3. step = "pick" /\ ready_batch = <<>> /\ current = NoFiber
    BY <1>5 DEF DrainNewTasks, StepInv, Dispatching
  <2>4. Line = run_queue /\ Line' = Line \o o
    BY <1>5, <2>1, <2>2, <2>3 DEF DrainNewTasks, Materialize, Line, TypeOK
  <2>5. Members(Line) \cap Members(o) = {}
    BY <2>2 DEF LineInv
  <2>6. Distinct(Line \o o) /\ Members(Line \o o) = Members(Line) \cup Members(o)
    BY <2>2, <2>5, LineType, DistinctConcat, MembersConcat DEF LineInv
  <2>7. Distinct(Line') /\ Members(Line') = Members(Line) \cup Members(o)
    BY <2>4, <2>6
  <2>8. \A f \in Fibers : state'[f] = IF f \in Members(o) THEN "ready" ELSE state[f]
    BY <2>1 DEF Materialize
  <2>9. Members(o) \subseteq Fibers
    BY <2>2 DEF Members
  <2>10. current' = NoFiber /\ step' = "pick" /\ ready_batch' = <<>> /\ loop' = "ready1"
    BY <1>5, <2>3 DEF DrainNewTasks
  <2>11. LineInv'
    BY <1>0, <2>7, <2>8, <2>9, <2>10 DEF LineInv
  <2>12. PoolInv'
    BY <1>0, <2>2, <2>8, <2>10 DEF PoolInv
  <2> QED BY <2>10, <2>11, <2>12 DEF StepInv, Dispatching
<1>6. CASE DrainReadyFibers
  <2> DEFINE n == MinOf(BatchLimit, Len(run_queue))
  <2>1. n \in 0..Len(run_queue) /\ run_queue \in Seq(Fibers)
    BY BoundsAssumption DEF TypeOK, MinOf
  <2> HIDE DEF n
  <2>2. Line = run_queue
    BY <1>6, <2>1 DEF DrainReadyFibers, Line
  <2>3. Line' = SubSeq(run_queue, 1, n) \o SubSeq(run_queue, n + 1, Len(run_queue))
    BY <1>6 DEF DrainReadyFibers, Line, n
  <2>4. Line' = Line
    BY <2>1, <2>2, <2>3, CutJoin
  <2>5. LineInv' /\ PoolInv'
    BY <1>6, <2>4 DEF DrainReadyFibers, LineInv, PoolInv
  <2> QED BY <1>6, <2>5 DEF DrainReadyFibers, StepInv, Dispatching
<1>7. CASE RecycleIfDone
  <2>1. Head(ready_batch) \in Members(Line)
    BY <1>7, LinePop DEF RecycleIfDone, LineInv
  <2> QED BY <1>7, <2>1 DEF RecycleIfDone, LineInv
<1>8. CASE SwitchToFiber
  <2>1. PICK g \in Fibers : g = Head(ready_batch)
    BY <1>8, MembersTail DEF SwitchToFiber, TypeOK
  <2>2. g \in Members(Line) /\ Distinct(Line)' /\ Members(Line)' = Members(Line) \ {g}
    BY <1>8, <2>1, LinePop DEF SwitchToFiber, LineInv
  <2>3. \A f \in Fibers : state'[f] = IF f = g THEN "running" ELSE state[f]
    BY <1>8, <2>1 DEF SwitchToFiber, TypeOK
  <2>4. current' = g /\ fiber_pool' = fiber_pool /\ step' = "fiber" /\ loop' = loop
    BY <1>8, <2>1 DEF SwitchToFiber
  <2>5. LineInv'
    BY <1>0, <2>2, <2>3, <2>4 DEF LineInv
  <2>6. PoolInv'
    BY <1>0, <2>2, <2>3, <2>4 DEF PoolInv, LineInv
  <2> QED BY <1>8, <2>4, <2>5, <2>6 DEF SwitchToFiber, StepInv, Dispatching
<1>9. CASE FinalizeAfterSwitch
  <2>1. LineInv' /\ PoolInv'
    BY <1>9, UntouchedLocal DEF FinalizeAfterSwitch
  <2> QED BY <1>9, <2>1 DEF FinalizeAfterSwitch, StepInv, Dispatching
<1>10. CASE DispatchResumedFiber
  <2>1. PICK g \in Fibers : g = current
    BY <1>10 DEF DispatchResumedFiber, CurrentOK
  <2>2. seen = state[g] /\ Dispatching /\ state' = state /\ g \notin Members(Line)
        /\ g \notin Members(fiber_pool)
    BY <1>10, <2>1 DEF DispatchResumedFiber, StepInv, LineInv, PoolInv
  <2>3. current' = NoFiber /\ step' = "pick" /\ ready_batch' = ready_batch /\ loop' = loop
    BY <1>10 DEF DispatchResumedFiber
  <2>4. StepInv'
    BY <2>2, <2>3 DEF StepInv, Dispatching
  <2>5. CASE seen = "ready"
    <3>1. Distinct(Line)' /\ Members(Line)' = Members(Line) \cup {g} /\ fiber_pool' = fiber_pool
      BY <1>10, <2>1, <2>2, <2>5, LinePush DEF DispatchResumedFiber, Requeue, LineInv
    <3>2. LineInv' /\ PoolInv'
      BY <1>0, <2>2, <2>3, <2>5, <3>1 DEF LineInv, PoolInv
    <3> QED BY <2>4, <3>2
  <2>6. CASE seen = "done"
    <3>1. run_queue' = run_queue /\ (fiber_pool' = fiber_pool \/ fiber_pool' = Append(fiber_pool, g))
      BY <1>10, <2>1, <2>6 DEF DispatchResumedFiber, Requeue, Recycle
    <3>2. LineInv'
      BY <1>0, <2>2, <2>3, <3>1 DEF LineInv, Line
    <3>3. Distinct(Append(fiber_pool, g)) /\ Members(Append(fiber_pool, g)) = Members(fiber_pool) \cup {g}
      BY <2>2, DistinctAppend, MembersAppend DEF TypeOK, PoolInv
    <3>4. PoolInv'
      BY <1>0, <2>2, <2>3, <2>6, <3>1, <3>3 DEF PoolInv
    <3> QED BY <2>4, <3>2, <3>4
  <2>7. CASE seen \notin {"ready", "done"}
    <3>1. run_queue' = run_queue /\ fiber_pool' = fiber_pool
      BY <1>10, <2>7 DEF DispatchResumedFiber, Requeue
    <3>2. LineInv' /\ PoolInv'
      BY <1>0, <2>2, <2>3, <3>1 DEF LineInv, PoolInv, Line
    <3> QED BY <2>4, <3>2
  <2> QED BY <2>5, <2>6, <2>7
<1>11. CASE EndRunReadyTasks \/ EndProcessTimers \/ EndIdle
  <2>1. LineInv' /\ PoolInv'
    BY <1>11, UntouchedLocal DEF EndRunReadyTasks, EndProcessTimers, EndIdle
  <2> QED BY <1>11, <2>1 DEF EndRunReadyTasks, EndProcessTimers, EndIdle, StepInv, Dispatching
<1>12. ASSUME NEW f \in Fibers, TimerDue(f) \/ HandleIoReady(f) PROVE LocalInv'
  <2>1. current = NoFiber /\ step = "pick"
    BY <1>12 DEF TimerDue, HandleIoReady, StepInv, Dispatching
  <2>2. StepInv'
    BY <1>12, <2>1 DEF TimerDue, HandleIoReady, StepInv, Dispatching
  <2>3. ASSUME NEW late, ResumeHere(f, late) PROVE LocalInv'
    BY <1>0, <1>12, <2>1, <2>2, <2>3, ResumeHereLocal DEF TimerDue, HandleIoReady
  <2>4. CASE UNCHANGED <<state, run_queue>>
    BY <1>12, <2>2, <2>4, UntouchedLocal DEF TimerDue, HandleIoReady
  <2> QED BY <1>12, <2>3, <2>4 DEF TimerDue, HandleIoReady
<1>13. ASSUME NEW f \in Fibers, FiberStep(f) PROVE LocalInv'
  <2>1. ASSUME step = "fiber", current = f, UNCHANGED <<run_queue, ready_batch, fiber_pool, current, loop>>,
               \A g \in Fibers : g # f => state'[g] = state[g],
               step' \in {"fiber", "swapped"}
        PROVE  LocalInv'
    <3>1. LineInv' /\ PoolInv'
      BY <2>1, UntouchedLocal
    <3> QED BY <2>1, <3>1 DEF StepInv, Dispatching
  <2>2. CASE Yield(f) \/ Finish(f) \/ AbortWait(f)
    BY <2>1, <2>2 DEF Yield, Finish, AbortWait, Running, TypeOK
  <2>3. ASSUME NEW r, NEW p, Park(f, p, r) PROVE LocalInv'
    BY <2>1, <2>3 DEF Park, Running
  <2>4. ASSUME NEW p, PrepareWait(f, p) PROVE LocalInv'
    BY <2>1, <2>4 DEF PrepareWait, Running, TypeOK
  <2>5. ASSUME NEW g \in Fibers, ResumePeer(f, g) PROVE LocalInv'
    <3>1. g # current
      BY <2>5 DEF ResumePeer, Running
    <3>2. LineInv' /\ PoolInv'
      BY <2>5, <3>1, ResumeHereLocal DEF ResumePeer
    <3> QED BY <2>5, <3>2 DEF ResumePeer, Running, StepInv, Dispatching
  <2> QED BY <1>13, <2>2, <2>3, <2>4, <2>5 DEF FiberStep, SwapOut
<1>14. CASE UNCHANGED vars
  <2>1. LineInv' /\ PoolInv'
    BY <1>14, UntouchedLocal DEF vars
  <2> QED BY <1>14, <2>1 DEF vars, StepInv, Dispatching
<1> QED
  BY <1>1, <1>5, <1>6, <1>7, <1>8, <1>9, <1>10, <1>11, <1>12, <1>13, <1>14 DEF Next, Loop

(* LocalInv holds throughout when nobody but the owner's thread wakes.     *)
LEMMA LocalAlways ==
  ASSUME Wakers = {}
  PROVE  Spec => [](TypeOK /\ LocalInv)
<1>1. Init => TypeOK /\ CurrentOK /\ LocalInv
  <2>1. Init => TypeOK /\ CurrentOK
    BY DEF Init, TypeOK, CurrentOK, States, Places, Calls
  <2>2. Init => Line = <<>> /\ Members(Line) = {} /\ Members(fiber_pool) = {}
    BY DEF Init, Line, Members
  <2> QED
    BY <2>1, <2>2 DEF Init, LocalInv, LineInv, PoolInv, StepInv, Distinct, Dispatching
<1>2. TypeOK /\ CurrentOK /\ LocalInv /\ [Next]_vars
        => TypeOK' /\ CurrentOK' /\ LocalInv'
  BY TypeStep, LocalStep
<1> QED BY <1>1, <1>2, PTL DEF Spec

(* On a processor whose fibers are only woken from its own thread, a fiber *)
(* never stands twice in the run queue and its batch, nor while it runs.   *)
THEOREM OwnThreadWakesQueueOnce ==
  ASSUME Wakers = {}
  PROVE  Spec => []QueuedOnce
<1>1. LocalInv => QueuedOnce
  BY DEF LocalInv, LineInv, QueuedOnce
<1> QED BY <1>1, LocalAlways, PTL

(* On such a processor park_current returns only to a fiber that somebody  *)
(* woke: no wait ends spuriously.                                          *)
THEOREM OwnThreadWakesAreNotSpurious ==
  ASSUME Wakers = {}
  PROVE  Spec => ParkReturnsWhenWoken
<1>1. TypeOK /\ LocalInv /\ [Next]_vars =>
        [\A f \in Fibers : at[f] = "parked" /\ at'[f] = "run" => state[f] = "ready"]_vars
  <2> SUFFICES ASSUME TypeOK, LocalInv, Next, NEW f \in Fibers, at[f] = "parked", at'[f] = "run"
               PROVE  state[f] = "ready"
    BY DEF vars
  <2> USE DEF fvars
  <2>1. CASE SwitchToFiber
    <3>1. Head(ready_batch) \in Fibers /\ Head(ready_batch) \in Members(Line)
      BY <2>1, LinePop, MembersTail DEF SwitchToFiber, LocalInv, LineInv, TypeOK
    <3>2. f = Head(ready_batch)
      BY <2>1, <3>1 DEF SwitchToFiber, TypeOK
    <3> QED BY <3>1, <3>2 DEF LocalInv, LineInv
  <2>2. CASE DrainNewTasks
    BY <2>2 DEF DrainNewTasks, Materialize
  <2>3. CASE Loop /\ ~SwitchToFiber /\ ~DrainNewTasks
    BY <2>3 DEF Loop, DrainReadyFibers, RecycleIfDone, FinalizeAfterSwitch, DispatchResumedFiber,
                EndRunReadyTasks, EndProcessTimers, EndIdle
  <2>4. ASSUME NEW g \in Fibers, TimerDue(g) \/ HandleIoReady(g) PROVE FALSE
    BY <2>4 DEF TimerDue, HandleIoReady
  <2>5. ASSUME NEW g \in Fibers, FiberStep(g) PROVE FALSE
    BY <2>5 DEF FiberStep, SwapOut, Yield, Finish, Park, AbortWait, PrepareWait, ResumePeer,
                Running, TypeOK
  <2>6. ASSUME NEW t \in Tasks, EnqueueTask(t) PROVE FALSE
    BY <2>6 DEF EnqueueTask
  <2> QED BY <2>1, <2>2, <2>3, <2>4, <2>5, <2>6 DEF Next
<1> QED BY <1>1, LocalAlways, PTL DEF Spec, ParkReturnsWhenWoken

-----------------------------------------------------------------------------
(* No task is lost or taken twice.  On the way from the steal queue to a   *)
(* Fiber and to its end a task has one holder.                             *)

Alive(f) == state[f] \notin {"none", "done"}

HolderInv ==
  /\ Distinct(steal_queue)
  /\ Members(steal_queue) \subseteq submitted \ finished
  /\ \A f \in Fibers : Alive(f) => job[f] \in submitted \ finished
  /\ finished \subseteq submitted

FiberAlive == step = "fiber" => Alive(current)

TaskInv == HolderInv /\ FiberAlive /\ TaskConserved

(* A step that moves no task and ends no fiber keeps the holders.          *)
LEMMA HoldersKept ==
  ASSUME TypeOK, HolderInv, TaskConserved,
         UNCHANGED <<steal_queue, submitted, finished, job>>,
         \A f \in Fibers : Alive(f)' <=> Alive(f)
  PROVE  HolderInv' /\ TaskConserved'
<1>1. \A f \in Fibers : \A t : Carries(f, t)' <=> Carries(f, t)
  BY DEF Carries, Alive
<1>2. HolderInv'
  BY DEF HolderInv
<1>3. TaskConserved'
  BY <1>1 DEF TaskConserved
<1> QED BY <1>2, <1>3

(* go(): the new task stands in the steal queue and nowhere else.          *)
LEMMA EnqueueHolds ==
  ASSUME TypeOK, HolderInv, TaskConserved, NEW t \in Tasks, EnqueueTask(t)
  PROVE  HolderInv' /\ TaskConserved'
<1> USE DEF fvars
<1>1. /\ t \notin submitted /\ t \notin Members(steal_queue) /\ t \notin finished
      /\ submitted' = submitted \cup {t} /\ steal_queue' = Append(steal_queue, t)
      /\ UNCHANGED <<state, job, finished>>
  BY DEF EnqueueTask, HolderInv
<1>2. Members(steal_queue') = Members(steal_queue) \cup {t} /\ Distinct(steal_queue')
  BY <1>1, MembersAppend, DistinctAppend DEF TypeOK, HolderInv
<1>3. \A f \in Fibers : \A x : Carries(f, x)' <=> Carries(f, x)
  BY <1>1 DEF Carries
<1>4. \A f \in Fibers : ~Carries(f, t)
  BY <1>1 DEF Carries, HolderInv, Alive
<1>5. HolderInv'
  BY <1>1, <1>2 DEF HolderInv, Alive
<1>6. TaskConserved'
  BY <1>1, <1>2, <1>3, <1>4 DEF TaskConserved
<1> QED BY <1>5, <1>6

(* drain_new_tasks: each task of the batch goes to a Fiber of its own.     *)
LEMMA DrainHolds ==
  ASSUME TypeOK, PoolInv, HolderInv, TaskConserved, DrainNewTasks
  PROVE  HolderInv' /\ TaskConserved'
<1>1. PICK o \in Obtained(DrainCount) : Materialize(DrainCount, o)
  BY DEF DrainNewTasks
<1>2. PICK k \in 0..Len(steal_queue) : k = DrainCount
  BY DrainCountOK DEF TypeOK
<1>3. /\ Distinct(o) /\ DOMAIN o = 1..k /\ Members(o) \subseteq Fibers
      /\ \A f \in Members(o) : ~Alive(f)
  BY <1>1, <1>2, ObtainedOK DEF Obtained, Alive, Members
<1>4. /\ steal_queue' = SubSeq(steal_queue, k + 1, Len(steal_queue))
      /\ \A f \in Fibers : f \notin Members(o) => state'[f] = state[f] /\ job'[f] = job[f]
      /\ \A f \in Members(o) : state'[f] = "ready" /\ job'[f] = LastTask(o, k, f)
      /\ UNCHANGED <<submitted, finished>>
  BY <1>1, <1>2, <1>3 DEF Materialize, DrainNewTasks, tvars
<1>5. \A i \in 1..k : LastTask(o, k, o[i]) = steal_queue[i]
  BY <1>2, <1>3 DEF LastTask, Distinct
<1>6. \A f \in Members(o) : \E i \in 1..k : o[i] = f
  BY <1>3 DEF Members
<1> DEFINE q == SubSeq(steal_queue, k + 1, Len(steal_queue))
<1>7. /\ steal_queue \in Seq(Tasks) /\ Distinct(steal_queue) /\ k \in Nat
      /\ \A i \in 1..k : i \in DOMAIN steal_queue /\ i <= k
  BY <1>2 DEF TypeOK, HolderInv
<1>8. /\ Distinct(q) /\ Members(q) \subseteq Members(steal_queue)
      /\ \A i \in DOMAIN steal_queue : i <= k => steal_queue[i] \notin Members(q)
  BY <1>7, DistinctCut
<1>9. \A x \in Members(steal_queue) : x \in Members(q) \/ \E i \in 1..k : x = steal_queue[i]
  <2> SUFFICES ASSUME NEW i \in DOMAIN steal_queue, ~(i \in 1..k)
               PROVE  steal_queue[i] \in Members(q)
    BY DEF Members
  <2>1. i - k \in DOMAIN q /\ q[i - k] = steal_queue[i]
    BY <1>7
  <2> QED BY <2>1 DEF Members
<1> HIDE DEF q
<1>10. steal_queue' = q /\ \A i \in 1..k : steal_queue[i] \in Members(steal_queue)
  BY <1>4, <1>7 DEF q, Members
<1>11. \A i \in 1..k : /\ o[i] \in Members(o) /\ o[i] \in Fibers
                       /\ state'[o[i]] = "ready" /\ job'[o[i]] = steal_queue[i]
  BY <1>3, <1>4, <1>5 DEF Members
<1>12. HolderInv'
  <2>1. ASSUME NEW f \in Fibers, Alive(f)' PROVE job'[f] \in submitted \ finished
    <3>1. CASE f \in Members(o)
      BY <3>1, <1>6, <1>10, <1>11 DEF HolderInv
    <3>2. CASE f \notin Members(o)
      BY <3>2, <2>1, <1>4 DEF HolderInv, Alive
    <3> QED BY <3>1, <3>2
  <2> QED BY <2>1, <1>4, <1>8, <1>10 DEF HolderInv
<1>13. \A f \in Fibers : \A x : Carries(f, x)' <=>
          \/ f \notin Members(o) /\ Carries(f, x)
          \/ \E i \in 1..k : f = o[i] /\ x = steal_queue[i]
  <2> SUFFICES ASSUME NEW f \in Fibers, NEW x
               PROVE  Carries(f, x)' <=>
                        \/ f \notin Members(o) /\ Carries(f, x)
                        \/ \E i \in 1..k : f = o[i] /\ x = steal_queue[i]
    OBVIOUS
  <2>1. CASE f \in Members(o)
    <3>1. PICK i \in 1..k : o[i] = f
      BY <2>1, <1>6
    <3>2. \A j \in 1..k : o[j] = f => j = i
      BY <3>1, <1>3 DEF Distinct
    <3> QED BY <2>1, <3>1, <3>2, <1>11 DEF Carries
  <2>2. CASE f \notin Members(o)
    BY <2>2, <1>4, <1>11 DEF Carries
  <2> QED BY <2>1, <2>2
<1>14. ASSUME NEW t \in submitted \ finished
       PROVE  IF t \in Members(q)
                THEN \A f \in Fibers : ~Carries(f, t)'
                ELSE \E f \in Fibers : Carries(f, t)' /\ \A g \in Fibers : Carries(g, t)' => g = f
  <2>1. CASE t \in Members(q)
    <3>1. \A f \in Fibers : ~Carries(f, t)
      BY <2>1, <1>8 DEF TaskConserved
    <3> QED BY <2>1, <3>1, <1>7, <1>8, <1>13
  <2>2. CASE t \notin Members(q) /\ t \in Members(steal_queue)
    <3>1. PICK i \in 1..k : t = steal_queue[i]
      BY <2>2, <1>9
    <3>2. \A j \in 1..k : t = steal_queue[j] => j = i
      BY <3>1, <1>7 DEF Distinct
    <3>3. \A f \in Fibers : ~Carries(f, t)
      BY <2>2 DEF TaskConserved
    <3> QED BY <2>2, <3>1, <3>2, <3>3, <1>11, <1>13
  <2>3. CASE t \notin Members(steal_queue)
    <3>1. PICK f \in Fibers : Carries(f, t) /\ \A g \in Fibers : Carries(g, t) => g = f
      BY <2>3 DEF TaskConserved
    <3>2. f \notin Members(o)
      BY <3>1, <1>3 DEF Carries, Alive
    <3>3. t \notin Members(q) /\ \A i \in 1..k : t # steal_queue[i]
      BY <2>3, <1>8, <1>10
    <3> QED BY <3>1, <3>2, <3>3, <1>13
  <2> QED BY <2>1, <2>2, <2>3
<1>15. TaskConserved'
  BY <1>4, <1>10, <1>14 DEF TaskConserved
<1> QED BY <1>12, <1>15

(* The end of a fiber finishes its task, which no other fiber carries.     *)
LEMMA FinishHolds ==
  ASSUME TypeOK, HolderInv, FiberAlive, TaskConserved, NEW f \in Fibers, Finish(f)
  PROVE  HolderInv' /\ TaskConserved'
<1> USE DEF qvars
<1>1. Alive(f) /\ job[f] \in submitted \ finished /\ finished' = finished \cup {job[f]}
      /\ UNCHANGED <<job, steal_queue, submitted>>
      /\ \A g \in Fibers : Alive(g)' <=> Alive(g) /\ g # f
  BY DEF Finish, Running, FiberAlive, HolderInv, Alive, TypeOK
<1>2. Carries(f, job[f])
  BY <1>1 DEF Carries, Alive
<1>3. job[f] \notin Members(steal_queue) /\ \A g \in Fibers : Carries(g, job[f]) => g = f
  BY <1>1, <1>2 DEF TaskConserved
<1>4. HolderInv'
  <2>1. \A g \in Fibers : Alive(g) /\ g # f => job[g] # job[f]
    BY <1>3 DEF Carries, Alive
  <2> QED BY <1>1, <1>3, <2>1 DEF HolderInv
<1>5. \A g \in Fibers : \A x : Carries(g, x)' <=> Carries(g, x) /\ g # f
  BY <1>1 DEF Carries, Alive
<1>6. \A x : x # job[f] => ~Carries(f, x)
  BY DEF Carries
<1>7. TaskConserved'
  BY <1>1, <1>5, <1>6 DEF TaskConserved
<1> QED BY <1>4, <1>7

(* Without foreign wakers every step keeps one holder for each task.       *)
LEMMA TaskStep ==
  ASSUME Wakers = {}, TypeOK, LocalInv, TaskInv, [Next]_vars
  PROVE  TaskInv'
<1> USE DEF fvars, qvars, pvars, tvars, TaskInv
<1>0. HolderInv /\ FiberAlive /\ TaskConserved /\ LineInv /\ PoolInv
  BY DEF LocalInv
<1>1. ASSUME UNCHANGED <<steal_queue, submitted, finished, job>>,
             \A f \in Fibers : Alive(f)' <=> Alive(f), FiberAlive'
      PROVE  TaskInv'
  BY <1>0, <1>1, HoldersKept
<1>2. ASSUME NEW t \in Tasks, EnqueueTask(t) PROVE TaskInv'
  BY <1>0, <1>2, EnqueueHolds DEF EnqueueTask, FiberAlive, Alive
<1>3. CASE DrainNewTasks
  <2>1. step' = "pick"
    BY <1>3 DEF DrainNewTasks, LocalInv, StepInv, Dispatching
  <2> QED BY <1>0, <1>3, <2>1, DrainHolds DEF FiberAlive
<1>4. CASE SwitchToFiber
  <2>1. PICK g \in Fibers : g = Head(ready_batch)
    BY <1>4, MembersTail DEF SwitchToFiber, TypeOK
  <2>2. state[g] = "ready"
    BY <1>0, <1>4, <2>1, LinePop DEF SwitchToFiber, LineInv
  <2>3. \A f \in Fibers : state'[f] = IF f = g THEN "running" ELSE state[f]
    BY <1>4, <2>1 DEF SwitchToFiber, TypeOK
  <2>4. current' = g
    BY <1>4, <2>1 DEF SwitchToFiber
  <2> QED BY <1>1, <1>4, <2>2, <2>3, <2>4 DEF SwitchToFiber, FiberAlive, Alive
<1>5. CASE DrainReadyFibers \/ RecycleIfDone \/ FinalizeAfterSwitch \/ DispatchResumedFiber
           \/ EndRunReadyTasks \/ EndProcessTimers \/ EndIdle
  BY <1>1, <1>5, <1>0 DEF DrainReadyFibers, RecycleIfDone, FinalizeAfterSwitch, DispatchResumedFiber,
                    EndRunReadyTasks, EndProcessTimers, EndIdle, FiberAlive, Alive
<1>6. ASSUME NEW f \in Fibers, TimerDue(f) \/ HandleIoReady(f) PROVE TaskInv'
  <2>1. UNCHANGED <<steal_queue, submitted, finished, job, step, current>>
    BY <1>6 DEF TimerDue, HandleIoReady
  <2>2. step = "pick"
    BY <1>6 DEF TimerDue, HandleIoReady, LocalInv, StepInv, Dispatching
  <2>3. state' = state \/ (state[f] = "waiting" /\ state' = [state EXCEPT ![f] = "ready"])
    BY <1>6 DEF TimerDue, HandleIoReady, ResumeHere
  <2>4. \A g \in Fibers : Alive(g)' <=> Alive(g)
    BY <2>3 DEF Alive, TypeOK
  <2> QED BY <1>1, <2>1, <2>2, <2>4 DEF FiberAlive
<1>7. ASSUME NEW f \in Fibers, FiberStep(f) PROVE TaskInv'
  <2>1. CASE Finish(f)
    BY <1>0, <2>1, FinishHolds DEF Finish, FiberAlive
  <2>2. CASE Yield(f) \/ AbortWait(f)
    BY <1>0, <1>1, <2>2 DEF Yield, AbortWait, Running, FiberAlive, Alive, TypeOK
  <2>3. ASSUME NEW r, NEW p, Park(f, p, r) PROVE TaskInv'
    BY <1>0, <1>1, <2>3 DEF Park, FiberAlive, Alive
  <2>4. ASSUME NEW p, PrepareWait(f, p) PROVE TaskInv'
    BY <1>0, <1>1, <2>4 DEF PrepareWait, Running, FiberAlive, Alive, TypeOK
  <2>5. ASSUME NEW g \in Fibers, ResumePeer(f, g) PROVE TaskInv'
    BY <1>0, <1>1, <2>5 DEF ResumePeer, ResumeHere, FiberAlive, Alive, TypeOK
  <2> QED BY <1>7, <2>1, <2>2, <2>3, <2>4, <2>5 DEF FiberStep, SwapOut
<1>8. CASE UNCHANGED vars
  BY <1>0, <1>1, <1>8 DEF vars, FiberAlive, Alive
<1> QED
  BY <1>2, <1>3, <1>4, <1>5, <1>6, <1>7, <1>8 DEF Next, Loop

(* On a processor whose fibers are only woken from its own thread a task   *)
(* that was handed to go() stays in the steal queue until one Fiber takes  *)
(* it, and with that Fiber alone until it has run to its end.              *)
THEOREM OwnThreadWakesConserveTasks ==
  ASSUME Wakers = {}
  PROVE  Spec => []TaskConserved
<1>1. Init => TaskInv
  BY DEF Init, TaskInv, HolderInv, FiberAlive, Alive, TaskConserved, Members, Distinct
<1>2. TypeOK /\ LocalInv /\ TaskInv /\ [Next]_vars => TaskInv'
  BY TaskStep
<1>3. TaskInv => TaskConserved
  BY DEF TaskInv
<1> QED BY <1>1, <1>2, <1>3, LocalAlways, PTL DEF Spec

=============================================================================
