-------------------------------- MODULE Pool --------------------------------
(***************************************************************************)
(* zco::Pool: objects made by a callback, kept for reuse in one bucket per *)
(* thread, last in first out, and destroyed by a callback when a bucket is *)
(* full or the pool is cleared.  Every operation holds one std::mutex, the *)
(* callbacks included.  Coroutines of one thread take turns; one that      *)
(* waits for the std::mutex keeps its thread.                              *)
(***************************************************************************)
EXTENDS Naturals, Sequences, FiniteSets

CONSTANTS
  Coros,             \* coroutines that use the pool
  PoolThreads,
  On,                \* the thread of each of them
  Nobody,
  PoolCapacities,    \* the capacities to try
  Unlimited,         \* static_cast<size_t>(-1)
  MaxObjects,        \* bound on the objects the create callback makes
  CallbackSuspends   \* a callback may suspend its coroutine

VARIABLES
  given,       \* the constructor's arguments: create, destroy, capacity
  buckets,     \* buckets
  mutex,       \* who holds the mutex
  running,     \* the coroutine a thread runs
  user,        \* each coroutine: where it is, and what it pushes
  using,       \* each coroutine: the objects it has popped
  made,        \* history: the number of objects made
  gone         \* history: how often an object went to the destroy callback,
               \* or was dropped where there is none

poolvars == <<given, buckets, mutex, running, user, using, made, gone>>

NoObject == 0
At(c, place, o) == user' = [user EXCEPT ![c] = [at |-> place, with |-> o]]
Is(c, place) == user[c].at = place /\ running[On[c]] = c
Bucket(c) == buckets[On[c]]
Kept(c, s) == buckets' = [buckets EXCEPT ![On[c]] = s]
Front(s) == SubSeq(s, 1, Len(s) - 1)

PoolInit ==
  /\ given \in [create : BOOLEAN, destroy : BOOLEAN, capacity : PoolCapacities]
  /\ buckets = [t \in PoolThreads |-> <<>>]
  /\ mutex = Nobody
  /\ running = [t \in PoolThreads |-> Nobody]
  /\ user = [c \in Coros |-> [at |-> "idle", with |-> NoObject]]
  /\ using = [c \in Coros |-> {}]
  /\ made = 0
  /\ gone = [o \in 1..MaxObjects |-> 0]

-----------------------------------------------------------------------------
(* The scheduler: a thread runs a coroutine until it suspends.             *)
Resume(c) ==
  /\ running[On[c]] = Nobody
  /\ running' = [running EXCEPT ![On[c]] = c]
  /\ UNCHANGED <<given, buckets, mutex, user, using, made, gone>>

Suspend(c) ==
  /\ Is(c, "idle") \/ (CallbackSuspends /\ (Is(c, "create") \/ Is(c, "destroy")))
  /\ running' = [running EXCEPT ![On[c]] = Nobody]
  /\ UNCHANGED <<given, buckets, mutex, user, using, made, gone>>

(* A coroutine hands an object to another.                                 *)
Pass(c, d, o) ==
  /\ Is(c, "idle") /\ c # d
  /\ o \in using[c]
  /\ using' = [using EXCEPT ![c] = @ \ {o}, ![d] = @ \cup {o}]
  /\ UNCHANGED <<given, buckets, mutex, running, user, made, gone>>

-----------------------------------------------------------------------------
Call(c, place, o) ==
  /\ Is(c, "idle")
  /\ At(c, place, o)
  /\ using' = [using EXCEPT ![c] = @ \ {o}]
  /\ UNCHANGED <<given, buckets, mutex, running, made, gone>>

pop(c) ==
  /\ Is(c, "pop") /\ mutex = Nobody
  /\ IF Bucket(c) # <<>>
     THEN /\ using' = [using EXCEPT ![c] = @ \cup {Bucket(c)[Len(Bucket(c))]}]
          /\ Kept(c, Front(Bucket(c)))
          /\ At(c, "idle", NoObject)
          /\ UNCHANGED mutex
     ELSE /\ mutex' = IF given.create THEN c ELSE Nobody
          /\ At(c, IF given.create THEN "create" ELSE "idle", NoObject)
          /\ UNCHANGED <<using, buckets>>
  /\ UNCHANGED <<given, running, made, gone>>

create_cb(c) ==
  /\ Is(c, "create") /\ made < MaxObjects
  /\ made' = made + 1
  /\ using' = [using EXCEPT ![c] = @ \cup {made'}]
  /\ mutex' = Nobody
  /\ At(c, "idle", NoObject)
  /\ UNCHANGED <<given, buckets, running, gone>>

Full(c) ==
  given.destroy /\ given.capacity # Unlimited /\ Len(Bucket(c)) >= given.capacity

push(c) ==
  /\ Is(c, "push") /\ mutex = Nobody
  /\ IF Full(c)
     THEN /\ mutex' = c
          /\ At(c, "destroy", user[c].with)
          /\ UNCHANGED buckets
     ELSE /\ Kept(c, Append(Bucket(c), user[c].with))
          /\ At(c, "idle", NoObject)
          /\ UNCHANGED mutex
  /\ UNCHANGED <<given, running, using, made, gone>>

destroy_cb(c) ==
  /\ Is(c, "destroy")
  /\ gone' = [gone EXCEPT ![user[c].with] = @ + 1]
  /\ mutex' = Nobody
  /\ At(c, "idle", NoObject)
  /\ UNCHANGED <<given, buckets, running, using, made>>

(* The buckets of all threads are emptied, object by object.               *)
clear_all(c) ==
  /\ Is(c, "clear") /\ mutex \in {Nobody, c}
  /\ \/ /\ \E t \in PoolThreads :
             /\ buckets[t] # <<>>
             /\ buckets' = [buckets EXCEPT ![t] = Front(@)]
             /\ gone' = [gone EXCEPT ![buckets[t][Len(buckets[t])]] = @ + 1]
        /\ mutex' = c
        /\ UNCHANGED user
     \/ /\ \A t \in PoolThreads : buckets[t] = <<>>
        /\ mutex' = Nobody
        /\ At(c, "idle", NoObject)
        /\ UNCHANGED <<buckets, gone>>
  /\ UNCHANGED <<given, running, using, made>>

PoolNext ==
  \E c \in Coros :
    \/ Resume(c) \/ Suspend(c)
    \/ \E d \in Coros, o \in using[c] : Pass(c, d, o)
    \/ Call(c, "pop", NoObject) \/ Call(c, "clear", NoObject)
    \/ \E o \in using[c] : Call(c, "push", o)
    \/ pop(c) \/ create_cb(c) \/ push(c) \/ destroy_cb(c) \/ clear_all(c)

PoolSpec == PoolInit /\ [][PoolNext]_poolvars

-----------------------------------------------------------------------------
Places(o) ==
  Cardinality({c \in Coros : o \in using[c]})
  + Cardinality({c \in Coros : user[c].with = o})
  + Cardinality({<<t, i>> \in PoolThreads \X (1..MaxObjects) :
                   i <= Len(buckets[t]) /\ buckets[t][i] = o})
  + gone[o]

(* An object that was made is used by one coroutine, lies in one bucket    *)
(* once, or has been destroyed once: pop never gives out what someone      *)
(* still uses or what a concurrent clear has destroyed.                    *)
ObjectsInOnePlace == \A o \in 1..MaxObjects : Places(o) = (IF o <= made THEN 1 ELSE 0)

(* With a destroy callback no bucket outgrows the capacity, and the mutex  *)
(* is held only by a coroutine its thread is running, so that a thread     *)
(* that waits for it does not wait for a coroutine it should run itself.   *)
BucketsBounded ==
  given.destroy /\ given.capacity # Unlimited =>
    \A t \in PoolThreads : Len(buckets[t]) <= given.capacity
HolderRuns == mutex # Nobody => running[On[mutex]] = mutex

PoolSound == ObjectsInOnePlace /\ BucketsBounded /\ HolderRuns
=============================================================================
