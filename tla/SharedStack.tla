---------------------------- MODULE SharedStack ----------------------------
(***************************************************************************)
(* The shared stacks of one zco::Processor: fibers take turns on a few     *)
(* stacks; whoever is switched in first saves the stack of the fiber that  *)
(* occupied the slot, into a buffer of the SnapshotBufferPool, and copies  *)
(* its own snapshot back.  Memory is a row of cells from the top of the    *)
(* stack downwards; a cell holds the tag of the fiber run that wrote it.   *)
(* Everything happens on the processor's thread.                           *)
(***************************************************************************)
EXTENDS Queues, FiniteSets, SequencesExt

CONSTANTS
  StackFibers,    \* Fiber objects
  Stacks,         \* number of shared stacks
  StackCells,     \* size of a stack
  RedZone,        \* kStackRedZoneBytes
  SnapshotSizes,  \* kSnapshotBucketSizes, in ascending order; a bucket is its size
  BucketLimit,    \* kPerBucketLimit
  PoolLimit,      \* max_size_ of the FiberPool
  Buffers,        \* addresses of snapshot buffers
  MaxFiberIds,    \* bound: fibers ever started
  NullPtr

\* The last conjunct: new char[] finds an address that nobody has.
StackConstants ==
  /\ Stacks \in Nat \ {0} /\ StackCells \in Nat \ {0} /\ RedZone \in Nat
  /\ BucketLimit \in Nat /\ PoolLimit \in Nat /\ MaxFiberIds \in Nat
  /\ SnapshotSizes \subseteq Nat \ {0} /\ NullPtr \notin StackFibers \cup Buffers
  /\ IsFiniteSet(StackFibers) /\ IsFiniteSet(SnapshotSizes) /\ IsFiniteSet(Buffers)
  /\ Cardinality(Buffers) > Cardinality(StackFibers) + Cardinality(SnapshotSizes) * BucketLimit

ASSUME StackAssumption == StackConstants

VARIABLES
  state,     \* of each object: "absent", "ready" or "pooled"
  id,        \* id_
  slot,      \* stack_slot_
  frames,    \* what the fiber's live cells held when it was last on the CPU:
             \* those between the stack pointer, less the red zone, and the top
  saved,     \* saved_stack_buffer_, saved_stack_size_, saved_stack_capacity_
  pool,      \* fiber_pool_
  memory,    \* the cells of each stack
  owner,     \* occupy_fiber_ of each stack
  current,   \* current_fiber_
  next_id, next_slot,
  data,      \* the cells of each snapshot buffer
  free       \* pools_ of the snapshot pool, per bucket

fiberVars == <<state, id, slot, frames, saved, pool>>
stackVars == <<memory, owner, current>>
genVars   == <<next_id, next_slot>>
snapVars  == <<data, free>>
switchvars == <<fiberVars, stackVars, genVars, snapVars>>

NoSave  == [buf |-> NullPtr, size |-> 0, cap |-> 0, bucket |-> 0]
NoOwner == [fiber |-> NullPtr, id |-> 0]
Dynamic == 0

StackInit ==
  /\ state = [f \in StackFibers |-> "absent"]
  /\ id = [f \in StackFibers |-> 0] /\ slot = [f \in StackFibers |-> 1]
  /\ frames = [f \in StackFibers |-> <<>>]
  /\ saved = [f \in StackFibers |-> NoSave] /\ pool = <<>>
  /\ memory = [s \in 1..Stacks |-> [c \in 1..StackCells |-> 0]]
  /\ owner = [s \in 1..Stacks |-> NoOwner]
  /\ current = NullPtr /\ next_id = 1 /\ next_slot = 0
  /\ data = [b \in Buffers |-> <<>>] /\ free = [b \in SnapshotSizes |-> <<>>]

-----------------------------------------------------------------------------
(* SnapshotBufferPool                                                      *)

PickBucket(size) ==
  LET fit == {b \in SnapshotSizes : size <= b}
  IN  IF fit = {} THEN Dynamic ELSE Min(fit)

CapacityOf(size) == IF PickBucket(size) = Dynamic THEN size ELSE PickBucket(size)

\* new char[]: an address nobody has.
Fresh == CHOOSE b \in Buffers :
           /\ \A f \in StackFibers : saved[f].buf # b
           /\ \A k \in SnapshotSizes : b \notin Members(free[k])

Release(fr, s) ==
  IF \/ s.buf = NullPtr \/ s.bucket = Dynamic
     \/ s.bucket # s.cap \/ Len(fr[s.bucket]) >= BucketLimit
    THEN fr
    ELSE [fr EXCEPT ![s.bucket] = Append(@, s.buf)]

Reused(fr, size) == PickBucket(size) # Dynamic /\ fr[PickBucket(size)] # <<>>
Acquired(fr, size) == IF Reused(fr, size) THEN Last(fr[PickBucket(size)]) ELSE Fresh
FreeAfterAcquire(fr, size) ==
  IF Reused(fr, size) THEN [fr EXCEPT ![PickBucket(size)] = Front(@)] ELSE fr

\* clear_saved_stack; what a released buffer holds matters to nobody.
ClearSaved(f) ==
  /\ free' = Release(free, saved[f]) /\ saved' = [saved EXCEPT ![f] = NoSave]
  /\ data' = [b \in Buffers |-> IF b = saved[f].buf THEN <<>> ELSE data[b]]

-----------------------------------------------------------------------------
(* Processor                                                               *)

\* obtain_fiber: a pooled object is reset, or a new one is made.
Obtain(f) ==
  /\ current = NullPtr /\ next_id <= MaxFiberIds
  /\ IF pool # <<>> THEN f = Head(pool) /\ pool' = Tail(pool)
     ELSE state[f] = "absent" /\ UNCHANGED pool
  /\ state' = [state EXCEPT ![f] = "ready"]
  /\ id' = [id EXCEPT ![f] = next_id] /\ next_id' = next_id + 1
  /\ slot' = [slot EXCEPT ![f] = (next_slot % Stacks) + 1]
  /\ next_slot' = (next_slot + 1) % Stacks
  /\ frames' = [frames EXCEPT ![f] = <<>>]
  /\ ClearSaved(f)
  /\ UNCHANGED stackVars

\* Cells that are live at stack depth d.
Live(d) == MinOf(d + RedZone, StackCells)

\* Fiber::save_stack_data: the old buffer if it is large enough, or another.
SaveStackData(o, cells) ==
  LET size == Len(cells)
      kept == saved[o].buf # NullPtr /\ saved[o].cap >= size
      buf  == IF kept THEN saved[o].buf ELSE Acquired(Release(free, saved[o]), size)
  IN  /\ saved' = [saved EXCEPT ![o] =
           IF kept THEN [@ EXCEPT !.size = size]
           ELSE [buf |-> buf, size |-> size, cap |-> CapacityOf(size),
                 bucket |-> PickBucket(size)]]
      /\ free' = IF kept THEN free ELSE FreeAfterAcquire(Release(free, saved[o]), size)
      /\ data' = [data EXCEPT ![buf] = cells]

\* save_fiber_stack of the fiber o that occupies s.
Save(o, s) == SaveStackData(o, SubSeq(memory[s], 1, Len(frames[o])))

\* set_occupy_fiber
Occupied(s, o) == [owner EXCEPT ![s] = o]

\* Mutant: a fiber that has a snapshot is taken to be saved.
MustSaveOnce(o) == /\ o.fiber # NullPtr /\ id[o.fiber] = o.id /\ state[o.fiber] # "pooled"
                   /\ saved[o.fiber].buf = NullPtr
MustSave(o) == o.fiber # NullPtr /\ id[o.fiber] = o.id /\ state[o.fiber] # "pooled"

\* restore_fiber_stack, after data and saved are settled.
Restored(f, s) ==
  IF saved'[f].size = 0 THEN memory[s]
  ELSE [c \in 1..StackCells |->
          IF c <= saved'[f].size THEN data'[saved'[f].buf][c] ELSE memory[s][c]]

\* prepare_shared_stack_for, then the swap.
SwitchTo(f) ==
  LET s == slot[f]
  IN  /\ current = NullPtr /\ state[f] = "ready"
      /\ current' = f
      /\ IF owner[s] = [fiber |-> f, id |-> id[f]]
           THEN UNCHANGED <<saved, memory, owner, snapVars>>
           ELSE /\ IF MustSave(owner[s]) THEN Save(owner[s].fiber, s)
                   ELSE UNCHANGED <<saved, snapVars>>
                /\ owner' = Occupied(s, [fiber |-> f, id |-> id[f]])
                /\ memory' = [memory EXCEPT ![s] = Restored(f, s)]
      /\ UNCHANGED <<state, id, slot, frames, pool, genVars>>

\* The fiber computes, at a depth of its choice, and is swapped out.
Runs(d) ==
  LET f == current
      old == IF frames[f] = <<>> THEN 0 ELSE frames[f][1]
      tag == IF old = 2 * id[f] THEN old + 1 ELSE 2 * id[f]
  IN  /\ current # NullPtr
      /\ memory' = [memory EXCEPT ![slot[f]] =
                      [c \in 1..StackCells |-> IF c <= Live(d) THEN tag ELSE @[c]]]
      /\ frames' = [frames EXCEPT ![f] = [c \in 1..Live(d) |-> tag]]
      /\ current' = NullPtr
      /\ UNCHANGED <<state, id, slot, saved, pool, owner, genVars, snapVars>>

\* Fiber::run ends: finalize_after_switch and dispatch_resumed_fiber.
FiberEnds ==
  LET f == current
  IN  /\ current # NullPtr
      /\ current' = NullPtr
      /\ ClearSaved(f)
      /\ owner' = IF owner[slot[f]] = [fiber |-> f, id |-> id[f]]
                    THEN Occupied(slot[f], NoOwner) ELSE owner
      /\ IF Len(pool) >= PoolLimit
           THEN state' = [state EXCEPT ![f] = "absent"] /\ UNCHANGED pool
           ELSE state' = [state EXCEPT ![f] = "pooled"] /\ pool' = Append(pool, f)
      /\ frames' = [frames EXCEPT ![f] = <<>>]
      /\ UNCHANGED <<id, slot, memory, genVars>>

StackNext ==
  \/ \E f \in StackFibers : Obtain(f) \/ SwitchTo(f)
  \/ \E d \in 1..StackCells : Runs(d)
  \/ FiberEnds

StackSpec == StackInit /\ [][StackNext]_switchvars

-----------------------------------------------------------------------------
(* A fiber that is switched in finds its own frames, down to the red zone, *)
(* exactly as it left them, whoever used the stack, its snapshot buffer or *)
(* the pooled buffers in the meantime; the occupant of a stack that is     *)
(* looked at through a raw pointer is an object that exists; and no        *)
(* snapshot is longer than its buffer.                                     *)
RunsOnOwnFrames ==
  /\ current # NullPtr =>
       SubSeq(memory[slot[current]], 1, Len(frames[current])) = frames[current]
  /\ \A s \in 1..Stacks : owner[s].fiber # NullPtr => state[owner[s].fiber] # "absent"
  /\ \A f \in StackFibers : saved[f].size <= saved[f].cap
=============================================================================
