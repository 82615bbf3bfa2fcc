---------------------------- MODULE FiberHandles ----------------------------
(***************************************************************************)
(* The handles current_coroutine() gives out and resume() takes: the slot  *)
(* external_handle_id_ in the Fiber, the FiberHandleRegistry, and the      *)
(* recycling of Fiber objects.  A handle is a number that is never used    *)
(* twice.  Threads resume with any handle they have seen, at any time.     *)
(***************************************************************************)
EXTENDS Naturals, FiniteSets

CONSTANTS
  Fibers,      \* Fiber objects
  Resumers,    \* threads that call resume
  MaxHandles,  \* bound: fiber_handle_id_gen_
  MaxTasks,    \* bound: tasks ever started
  SlowResume,  \* may a fiber be recycled between find_by_handle and try_wake?
               \* FALSE leaves those runs out.
  NoFiber

HandleConstants ==
  /\ MaxHandles \in Nat /\ MaxTasks \in Nat /\ SlowResume \in BOOLEAN
  /\ NoFiber \notin Fibers

ASSUME HandleAssumption == HandleConstants

VARIABLES
  place,    \* of each object: "pooled", "running", "naming", "waiting",
            \* "ready", "done" or "cleared"
  task,     \* the task the object runs, as a number
  handle,   \* external_handle_id_
  map,      \* handle_map_: the fiber of each handle, or NoFiber
  taker,    \* ghost: the task that asked for each handle
  tasks, handles,
  found,    \* the fiber and the handle each resumer is about to wake
  woken     \* ghost: tasks woken by a handle of another task

hvars == <<place, task, handle, map, taker, tasks, handles, found, woken>>

Idle == [fiber |-> NoFiber, handle |-> 0]

HandleInit ==
  /\ place = [f \in Fibers |-> "pooled"]
  /\ task = [f \in Fibers |-> 0] /\ handle = [f \in Fibers |-> 0]
  /\ map = [h \in 1..MaxHandles |-> NoFiber] /\ taker = [h \in 1..MaxHandles |-> 0]
  /\ tasks = 0 /\ handles = 0
  /\ found = [r \in Resumers |-> Idle] /\ woken = {}

Moves(f, from, to) == place[f] = from /\ place' = [place EXCEPT ![f] = to]

\* obtain_fiber and Fiber::reset, up to the first switch.
StartFiber(f) ==
  /\ Moves(f, "pooled", "running") /\ tasks < MaxTasks
  /\ tasks' = tasks + 1
  /\ task' = [task EXCEPT ![f] = tasks + 1]
  /\ handle' = [handle EXCEPT ![f] = 0]
  /\ UNCHANGED <<map, taker, handles, found, woken>>

\* external_handle: a number, and the compare-exchange on the fiber.
TakeHandle(f) ==
  /\ Moves(f, "running", "naming") /\ handle[f] = 0 /\ handles < MaxHandles
  /\ handles' = handles + 1
  /\ handle' = [handle EXCEPT ![f] = handles + 1]
  /\ taker' = [taker EXCEPT ![handles + 1] = task[f]]
  /\ UNCHANGED <<task, map, tasks, found, woken>>

\* register_fiber: the entry in the map.
RegisterFiber(f) ==
  /\ Moves(f, "naming", "running")
  /\ map' = [map EXCEPT ![handle[f]] = f]
  /\ UNCHANGED <<task, handle, taker, tasks, handles, found, woken>>

\* prepare_current_wait and park_current.
Waits(f) ==
  /\ Moves(f, "running", "waiting")
  /\ UNCHANGED <<task, handle, map, taker, tasks, handles, found, woken>>

Resumed(f) ==
  /\ Moves(f, "ready", "running")
  /\ UNCHANGED <<task, handle, map, taker, tasks, handles, found, woken>>

Finishes(f) ==
  /\ Moves(f, "running", "done")
  /\ UNCHANGED <<task, handle, map, taker, tasks, handles, found, woken>>

\* unregister_fiber: the slot is cleared, the handle remembered for the map.
ClearHandle(f) ==
  /\ Moves(f, "done", "cleared")
  /\ UNCHANGED <<task, handle, map, taker, tasks, handles, found, woken>>

\* Mutant: the fiber is pooled and its handle stays in the map.
EraseAndRecycleKept(f) ==
  /\ Moves(f, "cleared", "pooled")
  /\ handle' = [handle EXCEPT ![f] = 0]
  /\ UNCHANGED <<task, map, taker, tasks, handles, found, woken>>

\* handle_map_.erase, then recycle_fiber.
EraseAndRecycle(f) ==
  /\ Moves(f, "cleared", "pooled")
  /\ map' = [h \in 1..MaxHandles |-> IF h = handle[f] THEN NoFiber ELSE map[h]]
  /\ handle' = [handle EXCEPT ![f] = 0]
  /\ SlowResume \/ \A r \in Resumers : found[r].fiber # f
  /\ UNCHANGED <<task, taker, tasks, handles, found, woken>>

\* resume_external: find_by_handle.  A handle that is not there is ignored.
Find(r, h) ==
  /\ found[r] = Idle /\ h <= handles /\ map[h] # NoFiber
  /\ found' = [found EXCEPT ![r] = [fiber |-> map[h], handle |-> h]]
  /\ UNCHANGED <<place, task, handle, map, taker, tasks, handles, woken>>

\* resume_fiber: try_wake and enqueue_ready.
WakeFound(r) ==
  LET f == found[r].fiber
  IN  /\ found[r] # Idle
      /\ found' = [found EXCEPT ![r] = Idle]
      /\ IF place[f] = "waiting"
           THEN /\ place' = [place EXCEPT ![f] = "ready"]
                /\ woken' = IF taker[found[r].handle] = task[f] THEN woken
                            ELSE woken \cup {task[f]}
           ELSE UNCHANGED <<place, woken>>
      /\ UNCHANGED <<task, handle, map, taker, tasks, handles>>

HandleNext ==
  \/ \E f \in Fibers : StartFiber(f) \/ TakeHandle(f) \/ RegisterFiber(f) \/ Waits(f) \/ Resumed(f)
                         \/ Finishes(f) \/ ClearHandle(f) \/ EraseAndRecycle(f)
  \/ \E r \in Resumers : WakeFound(r) \/ \E h \in 1..MaxHandles : Find(r, h)

HandleSpec == HandleInit /\ [][HandleNext]_hvars

-----------------------------------------------------------------------------
(* resume() wakes the coroutine that asked for its handle, or nobody:      *)
(* never another task that runs in the recycled Fiber object.              *)
HandleReachesItsTaker == woken = {}
=============================================================================
