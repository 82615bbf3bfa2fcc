----------------------------- MODULE MC_Memory -----------------------------
(***************************************************************************)
(* Memory that is handed out, taken back and handed out again, checked     *)
(* together: zmalloc's page cache, central cache, thread and transfer      *)
(* caches, size classes and the overridden malloc and free, and in zco the *)
(* Fiber objects behind external handles, the shared stacks with their     *)
(* snapshots and the object pool.  A behaviour exercises one of them, the  *)
(* subject, and leaves the others as they began, so each property is asked *)
(* of its subject.                                                         *)
(***************************************************************************)
EXTENDS PageCache, CentralCache, FiberHandles, SharedStack

CONSTANTS
  \* ThreadCache
  Blocks, NumMove, BatchMax, LargeMinMax, TransferSlots, MaxMax,
  \* Override
  OverThreads, NSpans, SpanCells, Classes, MaxSmall, BootPages, PageCells, OverSizes,
  MaxOverLive, SizeLimit, HugePages, HugeAligned,
  \* Pool
  Coros, PoolThreads, PoolCapacities, Unlimited, MaxObjects, CallbackSuspends

VARIABLES
  subject,
  build, thread_lists, ring, entry_lock, central, with_program, cache_call,
  bytes,
  ready, boot, cut, taken, header, over_call, over_live,
  given, buckets, mutex, running, user, using, made, gone

tvars == <<build, thread_lists, ring, entry_lock, central, with_program, cache_call>>
ovars == <<ready, boot, cut, taken, header, over_call, over_live>>
cvars == <<given, buckets, mutex, running, user, using, made, gone>>
allvars == <<subject, vars, zvars, tvars, bytes, hvars, switchvars, ovars, cvars>>

Thread == INSTANCE ThreadCache WITH
            Objects <- Blocks, Slots <- TransferSlots,
            Builds <- [local : BOOLEAN, transfer : BOOLEAN], lists <- thread_lists,
            lock <- entry_lock, held <- with_program, call <- cache_call
Class == INSTANCE SizeClass
Over == INSTANCE Override
Pool == INSTANCE Pool WITH
          On <- CHOOSE f \in [Coros -> PoolThreads] : \A t \in PoolThreads : \E c \in Coros : f[c] = t

Start ==
  /\ subject \in {"page", "central", "thread", "class", "handle", "stack", "override", "pool"}
  /\ Init /\ CentralInit /\ Thread!Init /\ Class!Init /\ HandleInit /\ StackInit /\ Over!OverInit
  /\ Pool!PoolInit
  /\ subject # "thread" => build = [local |-> TRUE, transfer |-> TRUE]
  /\ subject # "pool" => given = [create |-> TRUE, destroy |-> TRUE, capacity |-> Unlimited]

MemoryStep ==
  \/ subject = "page" /\ Next
     /\ UNCHANGED <<subject, zvars, tvars, bytes, hvars, switchvars, ovars, cvars>>
  \/ subject = "central" /\ CentralNext
     /\ UNCHANGED <<subject, vars, tvars, bytes, hvars, switchvars, ovars, cvars>>
  \/ subject = "thread" /\ Thread!Next
     /\ UNCHANGED <<subject, vars, zvars, bytes, hvars, switchvars, ovars, cvars>>
  \/ subject = "class" /\ Class!Next
     /\ UNCHANGED <<subject, vars, zvars, tvars, hvars, switchvars, ovars, cvars>>
  \/ subject = "handle" /\ HandleNext
     /\ UNCHANGED <<subject, vars, zvars, tvars, bytes, switchvars, ovars, cvars>>
  \/ subject = "stack" /\ StackNext
     /\ UNCHANGED <<subject, vars, zvars, tvars, bytes, hvars, ovars, cvars>>
  \/ subject = "override" /\ Over!OverNext
     /\ UNCHANGED <<subject, vars, zvars, tvars, bytes, hvars, switchvars, cvars>>
  \/ subject = "pool" /\ Pool!PoolNext
     /\ UNCHANGED <<subject, vars, zvars, tvars, bytes, hvars, switchvars, ovars>>

MemorySpec == Start /\ [][MemoryStep]_allvars

-----------------------------------------------------------------------------
(* An object of the thread and transfer caches is in exactly one place, a  *)
(* request of any size gets an object large enough for it, free and        *)
(* realloc find the block of every pointer malloc, new or memalign made,   *)
(* an object of zco::Pool has one user or lies in one bucket, and the      *)
(* threads in the central cache do not wait for each other in a circle.    *)
CachesSound ==
  CASE subject = "thread" -> Thread!CachesSound
    [] subject = "central" -> CentralGoesOn
    [] subject = "class" -> Class!ClassesSound
    [] subject = "override" -> Over!OverrideSound
    [] subject = "pool" -> Pool!PoolSound
    [] OTHER -> TRUE
=============================================================================
