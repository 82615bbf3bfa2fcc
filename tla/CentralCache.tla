---------------------------- MODULE CentralCache ----------------------------
(***************************************************************************)
(* zmalloc::CentralCache for one size class: fetch_range_obj with          *)
(* get_one_span, and release_list_to_spans.  Size classes share nothing    *)
(* but the PageCache, of which the module keeps the spans it has and its   *)
(* lock; PageCache describes the rest of it.                               *)
(*                                                                         *)
(* What a thread does while it holds the bucket lock is one action up to   *)
(* the point where it takes the page lock or gives the bucket lock back.   *)
(***************************************************************************)
EXTENDS Zmalloc

CONSTANTS
  CentralSpans,
  PerSpan,   \* obj_count: objects cut from one span
  Batch,     \* objects a thread cache asks for at once
  MaxHeld,   \* bound: a thread that has this many objects asks for no more
  Nobody

CentralConstants ==
  /\ PerSpan \in Nat \ {0} /\ Batch \in Nat \ {0} /\ MaxHeld \in Nat
  /\ MayFail \in BOOLEAN
  /\ Nobody \notin Threads

ASSUME CentralAssumption == CentralConstants

VARIABLES
  paged,        \* spans the page cache has
  nonempty,     \* CentralFreeList::nonempty, front first
  empty,        \* CentralFreeList::empty
  free_list,    \* Span::free_list, as a set
  use_count,    \* Span::use_count
  bucket,       \* who holds CentralFreeList::lock
  central_mtx,  \* who holds page_mtx_
  pc,           \* where each thread stands
  groups,       \* the local spans[] and group lists of release_list_to_spans
  has           \* objects in each thread's cache or with its user

lists == <<paged, nonempty, empty, free_list, use_count>>
zvars == <<lists, bucket, central_mtx, pc, groups, has>>

Objects      == CentralSpans \X (1..PerSpan)
ObjectsOf(s) == {s} \X (1..PerSpan)

CentralInit ==
  /\ paged = CentralSpans
  /\ nonempty = <<>>
  /\ empty = {}
  /\ free_list = [s \in CentralSpans |-> {}]
  /\ use_count = [s \in CentralSpans |-> 0]
  /\ bucket = Nobody /\ central_mtx = Nobody
  /\ pc = [t \in Threads |-> "out"]
  /\ groups = [t \in Threads |-> <<>>]
  /\ has = [t \in Threads |-> {}]

-----------------------------------------------------------------------------
Go(t, place) == pc' = [pc EXCEPT ![t] = place]

LockBucket(t, from, to) ==
  /\ pc[t] = from /\ bucket = Nobody
  /\ bucket' = t
  /\ Go(t, to)
  /\ UNCHANGED <<lists, central_mtx, groups, has>>

FetchLock(t) == Cardinality(has[t]) < MaxHeld /\ LockBucket(t, "out", "fetch")

\* get_one_span found nothing: it goes to the page cache, bucket lock held.
FetchMiss(t) ==
  /\ pc[t] = "fetch" /\ nonempty = <<>>
  /\ central_mtx = Nobody
  /\ central_mtx' = t
  /\ Go(t, "newspan")
  /\ UNCHANGED <<lists, bucket, groups, has>>

NewSpan(t) ==
  /\ pc[t] = "newspan"
  /\ \E s \in paged :
       /\ paged' = paged \ {s}
       /\ free_list' = [free_list EXCEPT ![s] = ObjectsOf(s)]
       /\ use_count' = [use_count EXCEPT ![s] = 0]
       /\ nonempty' = <<s>> \o nonempty
  /\ central_mtx' = Nobody
  /\ Go(t, "fetch")
  /\ UNCHANGED <<empty, bucket, groups, has>>

\* new_span throws: both locks stay as they are.
NewSpanFails(t) ==
  /\ MayFail /\ pc[t] = "newspan"
  /\ Go(t, "out")
  /\ UNCHANGED <<lists, bucket, central_mtx, groups, has>>

Counted(T) == Cardinality(T)

\* After a fetch from s: an exhausted span moves to the other list.
ListsAfterFetch(s) ==
  IF free_list'[s] = {}
    THEN nonempty' = Erased(nonempty, s) /\ empty' = empty \cup {s}
    ELSE UNCHANGED <<nonempty, empty>>

FetchTake(t) ==
  /\ pc[t] = "fetch" /\ nonempty # <<>>
  /\ LET s == Head(nonempty)
     IN  \E T \in SUBSET free_list[s] :
           /\ Cardinality(T) = MinOf(Batch, Cardinality(free_list[s]))
           /\ free_list' = [free_list EXCEPT ![s] = @ \ T]
           /\ use_count' = [use_count EXCEPT ![s] = @ + Counted(T)]
           /\ has' = [has EXCEPT ![t] = @ \cup T]
           /\ ListsAfterFetch(s)
  /\ bucket' = Nobody
  /\ Go(t, "out")
  /\ UNCHANGED <<paged, central_mtx, groups>>

-----------------------------------------------------------------------------
\* The ways the loop without the lock may order the groups of R.
Grouped(R) ==
  LET owners == {o[1] : o \in R}
      k == Cardinality(owners)
  IN  {g \in [1..k -> {[span |-> s, objs |-> R \cap ObjectsOf(s)] : s \in owners}] :
         \A i, j \in 1..k : g[i] = g[j] => i = j}

ReleaseGroup(t, R) ==
  /\ pc[t] = "out"
  /\ R # {} /\ R \subseteq has[t]
  /\ groups' \in {[groups EXCEPT ![t] = g] : g \in Grouped(R)}
  /\ has' = [has EXCEPT ![t] = @ \ R]
  /\ Go(t, "locking")
  /\ UNCHANGED <<lists, bucket, central_mtx>>

\* An object allocated on t is freed on u: it goes into u's thread cache.
PassObject(t, u, o) ==
  /\ pc[t] = "out" /\ pc[u] = "out"
  /\ o \in has[t] /\ t # u /\ Cardinality(has[u]) < MaxHeld
  /\ has' = [has EXCEPT ![t] = @ \ {o}, ![u] = @ \cup {o}]
  /\ UNCHANGED <<lists, bucket, central_mtx, pc, groups>>

ReleaseLock(t) == LockBucket(t, "locking", "splice")

\* Mutant: was_empty is computed after the splice.
WasEmptyAfter(s, objs) == free_list[s] \cup objs = {}
WasEmpty(s, objs) == free_list[s] = {}

Left(s, objs) == use_count[s] - Cardinality(objs)

Splice(t) ==
  /\ pc[t] = "splice" /\ groups[t] # <<>>
  /\ LET s == Head(groups[t]).span
         objs == Head(groups[t]).objs
         left == Left(s, objs)
         was_empty == WasEmpty(s, objs)
     IN  /\ use_count' = [use_count EXCEPT ![s] = left]
         /\ \/ /\ left = 0
               /\ free_list' = [free_list EXCEPT ![s] = {}]
               /\ IF was_empty THEN empty' = empty \ {s} /\ UNCHANGED nonempty
                               ELSE nonempty' = Erased(nonempty, s) /\ UNCHANGED empty
               /\ bucket' = Nobody
               /\ Go(t, "giveback")
               /\ UNCHANGED groups
            \/ /\ left # 0
               /\ free_list' = [free_list EXCEPT ![s] = @ \cup objs]
               /\ IF was_empty
                    THEN empty' = empty \ {s} /\ nonempty' = <<s>> \o nonempty
                    ELSE UNCHANGED <<empty, nonempty>>
               /\ groups' = [groups EXCEPT ![t] = Tail(@)]
               /\ UNCHANGED <<bucket, pc>>
  /\ UNCHANGED <<paged, central_mtx, has>>

\* Without the bucket lock, under the page lock: release_span_to_page_cache.
GiveBack(t) ==
  /\ pc[t] = "giveback" /\ central_mtx = Nobody
  /\ paged' = paged \cup {Head(groups[t]).span}
  /\ groups' = [groups EXCEPT ![t] = Tail(@)]
  /\ Go(t, "locking")
  /\ UNCHANGED <<nonempty, empty, free_list, use_count, bucket, central_mtx, has>>

ReleaseEnds(t) ==
  /\ pc[t] = "splice" /\ groups[t] = <<>>
  /\ bucket' = Nobody
  /\ Go(t, "out")
  /\ UNCHANGED <<lists, central_mtx, groups, has>>

-----------------------------------------------------------------------------
Locking(t) == FetchMiss(t) \/ GiveBack(t) \/ ReleaseLock(t)
Working(t) == NewSpan(t) \/ NewSpanFails(t) \/ FetchTake(t) \/ Splice(t) \/ ReleaseEnds(t)

CentralNext == \E t \in Threads :
  \/ FetchLock(t) \/ Locking(t) \/ Working(t)
  \/ \E R \in SUBSET has[t] : ReleaseGroup(t, R)
  \/ \E u \in Threads, o \in has[t] : PassObject(t, u, o)

CentralSpec == CentralInit /\ [][CentralNext]_zvars

-----------------------------------------------------------------------------
Groups == [span : CentralSpans, objs : SUBSET Objects]

CentralTypeOK ==
  /\ paged \subseteq CentralSpans
  /\ nonempty \in Seq(CentralSpans)
  /\ empty \subseteq CentralSpans
  /\ free_list \in [CentralSpans -> SUBSET Objects]
  /\ use_count \in [CentralSpans -> 0..PerSpan]
  /\ bucket \in Threads \cup {Nobody} /\ central_mtx \in Threads \cup {Nobody}
  /\ pc \in [Threads -> {"out", "fetch", "newspan", "locking", "splice", "giveback"}]
  /\ groups \in [Threads -> Seq(Groups)]
  /\ has \in [Threads -> SUBSET Objects]

\* Objects of t's groups that are not yet back in their span.
Returning(t) ==
  LET first == IF pc[t] = "giveback" THEN 2 ELSE 1
  IN  UNION {groups[t][i].objs : i \in first..Len(groups[t])}
Outside(s) ==
  {o \in ObjectsOf(s) : \E t \in Threads : o \in has[t] \cup Returning(t)}
GivingBack(s) == \E t \in Threads : pc[t] = "giveback" /\ Head(groups[t]).span = s

(* No object is in two hands: it is free in its span, or with exactly one  *)
(* thread, and use_count is the number of those that are out.              *)
ObjectsConserved ==
  \A s \in CentralSpans :
     /\ use_count[s] = Cardinality(Outside(s))
     /\ \A o \in ObjectsOf(s) :
          /\ o \in free_list[s] => o \notin Outside(s)
          /\ \A t, u \in Threads :
               o \in has[t] \cup Returning(t) /\ o \in has[u] \cup Returning(u) => t = u
     /\ s \notin paged /\ ~GivingBack(s) => free_list[s] \cup Outside(s) = ObjectsOf(s)

(* A span goes back to the page cache only when nobody has an object of    *)
(* it, although the bucket lock is dropped in the middle of the release.   *)
NothingOutOfPagedSpan ==
  \A s \in CentralSpans : s \in paged \/ GivingBack(s) => Outside(s) = {}

(* nonempty has exactly the spans with a free object, each once; empty     *)
(* those without one that still have objects out.                          *)
ListsMatch ==
  /\ \A s \in CentralSpans : s \in Members(nonempty) <=> free_list[s] # {}
  /\ Distinct(nonempty)
  /\ \A s \in CentralSpans : s \in empty <=> free_list[s] = {} /\ use_count[s] > 0

\* A new_span that threw has left page_mtx_ locked.
Abandoned == \E t \in Threads : central_mtx = t /\ pc[t] # "newspan"

(* The bucket lock is held by nobody who has left the call, unless         *)
(* new_span threw in one.                                                  *)
BucketReleased ==
  Abandoned \/ \A t \in Threads : bucket = t => pc[t] \in {"fetch", "newspan", "splice"}

(* Objects, spans and locks are where the calls that moved them left them. *)
CentralSound == ObjectsConserved /\ NothingOutOfPagedSpan /\ ListsMatch /\ BucketReleased

(* The bucket lock, dropped before the page lock is taken on one path and  *)
(* held over it on the other, never closes a circle of waiting: while      *)
(* calls are under way one of them can go on, unless new_span threw.       *)
CentralGoesOn ==
  \/ Abandoned
  \/ \A t \in Threads : pc[t] = "out"
  \/ \E t \in Threads : ENABLED (Locking(t) \/ Working(t))
=============================================================================
