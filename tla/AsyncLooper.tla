---------------------------- MODULE AsyncLooper ----------------------------
(***************************************************************************)
(* zlog::AsyncLooper with its two zlog::Buffers: producers push() log      *)
(* records, the worker thread swaps the buffers and hands one to the       *)
(* callback, and somebody calls stop().  What holds mutex_ is one action,  *)
(* except that the worker's step from testing its predicate to sleeping is *)
(* split: stop() takes no lock, and may come in between.                   *)
(*                                                                         *)
(* thread_ is initialised before milliseco_, so the first wait_for of the  *)
(* worker may read whatever the memory held: a wait of any length.         *)
(*                                                                         *)
(* Names that every module has begin with Looper, so that MC_Sync can      *)
(* extend this module together with CoMutex and CoChannel.                 *)
(***************************************************************************)
EXTENDS Naturals, Sequences, FiniteSets

CONSTANTS
  Producers,
  Lengths,      \* lengths of the records that are pushed
  Types,        \* looper_type_: "safe" and "unsafe"
  DefaultSize,  \* kDefaultBufferSize
  Threshold,    \* kThresholdBufferSize
  Increment,    \* kIncrementBufferSize
  MaxSize,      \* kMaxBufferSize
  FlushSize,    \* kFlushBufferSize
  MaxPushes     \* bound: calls of push()

LooperConstants ==
  /\ Lengths \subseteq Nat \ {0}
  /\ DefaultSize \in Nat /\ Threshold \in Nat /\ Increment \in Nat
  /\ MaxSize \in Nat /\ DefaultSize <= MaxSize
  /\ FlushSize \in Nat /\ MaxPushes \in Nat
  /\ Types \subseteq {"safe", "unsafe"}

ASSUME LooperAssumption == LooperConstants

VARIABLES
  looper_type,
  pro_buf,    \* [recs, used, cap]: contents, writer_idx_ and capacity_
  con_buf,
  stop,       \* stop_
  early,      \* the worker has not waited yet, and may be ahead of the constructor
  worker,     \* where thread_entry stands
  bounded,    \* the wait_for it is in has a finite time to go
  producer,   \* what each producer is doing
  stopper,    \* where stop() stands
  pushes,     \* calls of push() so far
  pushed,     \* records in the order push() took them
  delivered,  \* records in the order the callback saw them
  thrown      \* callback_exception_ is set

lvars == <<looper_type, pro_buf, con_buf, stop, early, worker, bounded, producer, stopper,
          pushes, pushed, delivered, thrown>>

Out    == [pc |-> "out", len |-> 0]
Fresh  == [recs |-> <<>>, used |-> 0, cap |-> DefaultSize]

LooperInit ==
  /\ looper_type \in Types
  /\ pro_buf = Fresh /\ con_buf = Fresh
  /\ stop = FALSE
  /\ early = TRUE
  /\ worker = "check" /\ bounded = TRUE
  /\ producer = [p \in Producers |-> Out]
  /\ stopper = "out"
  /\ pushes = 0
  /\ pushed = <<>> /\ delivered = <<>>
  /\ thrown = FALSE

-----------------------------------------------------------------------------
(* Buffer                                                                  *)

Writable(b) == b.cap - b.used

NewSize(b, n) == IF b.cap < Threshold THEN b.cap * 2 + n ELSE b.cap + Increment + n

CanAccommodate(b, n) == n <= Writable(b) \/ NewSize(b, n) <= MaxSize

\* ensure_enough_size: may give up and leave the buffer as it is.
EnoughSize(b, n) ==
  CASE n <= Writable(b)         -> b.cap
    [] n > Writable(b) /\ NewSize(b, n) <= MaxSize -> NewSize(b, n)
    [] OTHER -> IF MaxSize <= b.cap \/ (MaxSize - b.cap) + Writable(b) < n
                  THEN b.cap ELSE MaxSize

Pushed(b, rec) ==
  [recs |-> Append(b.recs, rec), used |-> b.used + rec.len, cap |-> EnoughSize(b, rec.len)]

\* Mutant: writer_idx_ is cleared and reader_idx_ is not.
EmptiedHalf(b) == [b EXCEPT !.used = 0]

Emptied(b) == [b EXCEPT !.recs = <<>>, !.used = 0]

-----------------------------------------------------------------------------
(* push                                                                    *)

LockFree == worker # "dozing"
HasRoom(n) == IF looper_type = "safe" THEN Writable(pro_buf) >= n ELSE CanAccommodate(pro_buf, n)

Notified(w) == IF w = "waiting" THEN "notified" ELSE w

Asleep == {p \in Producers : producer[p].pc = "asleep"}

PushTakes(p, n) ==
  /\ HasRoom(n)
  /\ pro_buf' = Pushed(pro_buf, [by |-> p, len |-> n])
  /\ pushed' = Append(pushed, [by |-> p, len |-> n])
  /\ worker' = IF pro_buf'.used >= FlushSize THEN Notified(worker) ELSE worker
  /\ producer' = [producer EXCEPT ![p] = Out]

PushWaits(p, n) ==
  /\ ~HasRoom(n)
  /\ producer' = [producer EXCEPT ![p] = [pc |-> "asleep", len |-> n]]
  /\ UNCHANGED <<pro_buf, pushed, worker>>

Push(p, n) ==
  /\ stopper = "out" /\ LockFree
  /\ producer[p] = Out /\ pushes < MaxPushes
  /\ pushes' = pushes + 1
  /\ PushTakes(p, n) \/ PushWaits(p, n)
  /\ UNCHANGED <<looper_type, con_buf, stop, early, bounded, stopper, delivered, thrown>>

\* A notified producer evaluates its predicate again.
PushGoesOn(p) ==
  /\ producer[p].pc = "notified" /\ LockFree
  /\ PushTakes(p, producer[p].len) \/ PushWaits(p, producer[p].len)
  /\ UNCHANGED <<looper_type, con_buf, stop, early, bounded, stopper, pushes, delivered, thrown>>

-----------------------------------------------------------------------------
(* thread_entry                                                            *)

Due == pro_buf.used >= FlushSize \/ stop

NotifyOneProducer ==
  \/ /\ Asleep = {} /\ UNCHANGED producer
  \/ \E p \in Asleep : producer' = [producer EXCEPT ![p].pc = "notified"]

\* From the end of wait_for to the unlock.
SwapBuffers ==
  \/ /\ pro_buf.used = 0
     /\ worker' = IF stop THEN "exited" ELSE "check"
     /\ UNCHANGED <<pro_buf, con_buf, producer>>
  \/ /\ pro_buf.used > 0
     /\ pro_buf' = con_buf /\ con_buf' = pro_buf
     /\ NotifyOneProducer
     /\ worker' = "callback"

\* Mutant: stop_ alone ends the loop.
ExitsAtStop == stop

Exits == pro_buf.used = 0 /\ stop

Check ==
  /\ worker = "check"
  /\ early' = FALSE
  /\ \/ Exits /\ worker' = "exited" /\ UNCHANGED <<pro_buf, con_buf, producer, bounded>>
     \/ ~Exits /\ Due /\ SwapBuffers /\ UNCHANGED bounded
     \/ /\ ~Exits /\ ~Due
        /\ worker' = "dozing"
        /\ bounded' \in (IF early THEN BOOLEAN ELSE {TRUE})
        /\ UNCHANGED <<pro_buf, con_buf, producer>>
  /\ UNCHANGED <<looper_type, stop, stopper, pushes, pushed, delivered, thrown>>

FallAsleep ==
  /\ worker = "dozing"
  /\ worker' = "waiting"
  /\ UNCHANGED <<looper_type, pro_buf, con_buf, stop, early, bounded, producer, stopper, pushes,
                 pushed, delivered, thrown>>

WakeUp ==
  /\ worker = "notified"
  /\ \/ Due /\ SwapBuffers
     \/ ~Due /\ worker' = "waiting" /\ UNCHANGED <<pro_buf, con_buf, producer>>
  /\ UNCHANGED <<looper_type, stop, early, bounded, stopper, pushes, pushed, delivered, thrown>>

TimeOut ==
  /\ worker \in {"waiting", "notified"} /\ bounded
  /\ SwapBuffers
  /\ UNCHANGED <<looper_type, stop, early, bounded, stopper, pushes, pushed, delivered, thrown>>

\* callback_(con_buf_), which may throw after the sinks have the data.
Callback ==
  /\ worker = "callback"
  /\ delivered' = delivered \o con_buf.recs
  /\ thrown' \in {thrown, TRUE}
  /\ con_buf' = Emptied(con_buf)
  /\ worker' = "check"
  /\ UNCHANGED <<looper_type, pro_buf, stop, early, bounded, producer, stopper, pushes, pushed>>

-----------------------------------------------------------------------------
(* stop()                                                                  *)

StopSet ==
  /\ stopper = "out"
  /\ stop' = TRUE
  /\ stopper' = "notifying"
  /\ UNCHANGED <<looper_type, pro_buf, con_buf, early, worker, bounded, producer, pushes, pushed,
                 delivered, thrown>>

StopNotify ==
  /\ stopper = "notifying"
  /\ worker' = Notified(worker)
  /\ stopper' = "joining"
  /\ UNCHANGED <<looper_type, pro_buf, con_buf, stop, early, bounded, producer, pushes, pushed,
                 delivered, thrown>>

\* thread_.join(), then the exception is rethrown and forgotten.
StopJoin ==
  /\ stopper = "joining" /\ worker = "exited"
  /\ stopper' = "stopped"
  /\ thrown' = FALSE
  /\ UNCHANGED <<looper_type, pro_buf, con_buf, stop, early, worker, bounded, producer, pushes,
                 pushed, delivered>>

-----------------------------------------------------------------------------
Worker == Check \/ FallAsleep \/ WakeUp \/ Callback
Stop   == StopNotify \/ StopJoin

LooperNext ==
  \/ \E p \in Producers : PushGoesOn(p) \/ \E n \in Lengths : Push(p, n)
  \/ Worker \/ TimeOut \/ StopSet \/ Stop

LooperSpec == LooperInit /\ [][LooperNext]_lvars

(* Threads that can run do, a producer that finds mutex_ free again and    *)
(* again gets it, and a wait_for of finite length ends.  Nobody has to     *)
(* call push() or stop().                                                  *)
FairLooperSpec ==
  /\ LooperSpec
  /\ WF_lvars(Worker) /\ WF_lvars(TimeOut) /\ WF_lvars(Stop)
  /\ \A p \in Producers : SF_lvars(PushGoesOn(p))

-----------------------------------------------------------------------------
Records == [by : Producers, len : Lengths]
Buffers == [recs : Seq(Records), used : Nat, cap : Nat]

LooperTypeOK ==
  /\ looper_type \in Types
  /\ pro_buf \in Buffers /\ con_buf \in Buffers
  /\ stop \in BOOLEAN /\ early \in BOOLEAN /\ bounded \in BOOLEAN /\ thrown \in BOOLEAN
  /\ worker \in {"check", "dozing", "waiting", "notified", "callback", "exited"}
  /\ producer \in [Producers -> [pc : {"out", "asleep", "notified"}, len : Lengths \cup {0}]]
  /\ stopper \in {"out", "notifying", "joining", "stopped"}
  /\ pushes \in 0..MaxPushes
  /\ pushed \in Seq(Records) /\ delivered \in Seq(Records)

(* The two buffers lose, repeat and reorder nothing: what was pushed is    *)
(* what the callback has seen, then the buffer being consumed, then the    *)
(* one being filled.                                                       *)
NothingLost == pushed = delivered \o con_buf.recs \o pro_buf.recs

(* No memcpy of Buffer::push goes past the allocation, although            *)
(* ensure_enough_size may give up without growing it.                      *)
InBounds == \A b \in {pro_buf, con_buf} : b.used <= b.cap /\ b.cap <= MaxSize

(* Every record push() took before stop() reaches the callback, unless     *)
(* the worker sits in the wait of arbitrary length.                        *)
PushedIsDelivered ==
  \A n \in 1..MaxPushes :
     (Len(pushed) >= n /\ ~stop) ~> (Len(delivered) >= n \/ ~bounded)

(* A producer that waits for room gets it: one notify_one per swap is      *)
(* enough until stop() is called.                                          *)
PushReturns ==
  \A p \in Producers : producer[p] # Out ~> (producer[p] = Out \/ stop \/ ~bounded)

(* stop() returns: the notification it sends without the lock may be       *)
(* missed, the time-out is not.                                            *)
StopReturns == stopper = "notifying" ~> (stopper = "stopped" \/ ~bounded)

(* The safety of the looper, in one.                                       *)
LooperSound == NothingLost /\ InBounds

(* Its progress, in one: records, producers and stop() get where they go.  *)
LooperGoesOn == PushedIsDelivered /\ PushReturns /\ StopReturns
=============================================================================
