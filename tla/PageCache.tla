----------------------------- MODULE PageCache -----------------------------
(***************************************************************************)
(* zmalloc::PageCache: new_span and release_span_to_page_cache with the    *)
(* page locks their callers take, the buckets of free spans, the page map  *)
(* and the pool of Span objects.  Callers are zmalloc and zfree of large   *)
(* objects and the CentralCache.                                           *)
(*                                                                         *)
(* A caller holds page_mtx_ over the whole call; the turns of the          *)
(* coalescing loops are actions of their own so that each can be looked at.*)
(***************************************************************************)
EXTENDS Zmalloc

CONSTANTS
  Spans,     \* Span objects of span_pool_
  NPAGES,
  LastPage,  \* bound: pages are 1..LastPage
  Requests,  \* numbers of pages asked for
  None

ConstantsOK ==
  /\ NPAGES \in Nat /\ NPAGES > 1 /\ LastPage \in Nat /\ Requests \subseteq Nat \ {0}
  /\ MayFail \in BOOLEAN
  /\ None \notin Spans \cup Threads

ASSUME ConstantsAssumption == ConstantsOK

VARIABLES
  page_id,       \* Span::page_id
  n,             \* Span::n
  is_use,        \* Span::is_use
  live,          \* Span objects taken from span_pool_
  span_lists,    \* span_lists_, front first
  id_span_map,   \* id_span_map_
  mapped,        \* pages the system has given and not taken back
  page_mtx,      \* who holds page_mtx_
  call,          \* what each thread asks of the page cache
  stage,         \* where the holder of the lock stands
  held           \* runs the callers own

svars == <<page_id, n, is_use, live>>
vars  == <<svars, span_lists, id_span_map, mapped, page_mtx, call, stage, held>>

Pages   == 1..LastPage
Buckets == 1..(NPAGES - 1)
Out     == [op |-> "out"]

Init ==
  /\ page_id = [s \in Spans |-> 0]
  /\ n = [s \in Spans |-> 0]
  /\ is_use = [s \in Spans |-> FALSE]
  /\ live = {}
  /\ span_lists = [k \in Buckets |-> <<>>]
  /\ id_span_map = [p \in 0..(LastPage + 1) |-> None]
  /\ mapped = {}
  /\ page_mtx = None
  /\ call = [t \in Threads |-> Out]
  /\ stage = "idle"
  /\ held = {}

-----------------------------------------------------------------------------
Run(first, k) == first..(first + k - 1)
PagesOf(s)    == Run(page_id[s], n[s])

\* PageMap::set and set_range
SetRange(m, ps, s) == [p \in DOMAIN m |-> IF p \in ps THEN s ELSE m[p]]
Ends(first, k)     == {first, first + k - 1}

\* Where mmap may put k pages.
Places(k) == {first \in Pages : Run(first, k) \subseteq Pages \ mapped}

Holds(t, op) == page_mtx = t /\ stage # "abandoned" /\ call[t].op = op

\* The call is over and its caller unlocks page_mtx_.
Return(t) ==
  /\ call' = [call EXCEPT ![t] = Out]
  /\ page_mtx' = None
  /\ stage' = "idle"

-----------------------------------------------------------------------------
AskNew(t, k) ==
  /\ call[t] = Out
  /\ call' = [call EXCEPT ![t] = [op |-> "new", k |-> k]]
  /\ UNCHANGED <<svars, span_lists, id_span_map, mapped, page_mtx, stage, held>>

\* zfree looks the span up before it locks; the address is the caller's own.
AskFree(t, r) ==
  /\ call[t] = Out /\ r \in held
  /\ call' = [call EXCEPT ![t] = [op |-> "free", span |-> id_span_map[r.first]]]
  /\ held' = held \ {r}
  /\ UNCHANGED <<svars, span_lists, id_span_map, mapped, page_mtx, stage>>

Lock(t) ==
  /\ page_mtx = None /\ call[t] # Out
  /\ page_mtx' = t
  /\ stage' = call[t].op
  /\ UNCHANGED <<svars, span_lists, id_span_map, mapped, call, held>>

-----------------------------------------------------------------------------
(* new_span                                                                *)

Give(t, first, k) ==
  /\ held' = held \cup {[first |-> first, n |-> k]}
  /\ Return(t)

NewLarge(t) ==
  /\ Holds(t, "new") /\ call[t].k > NPAGES - 1
  /\ \E first \in Places(call[t].k), s \in Spans \ live :
       /\ live' = live \cup {s}
       /\ page_id' = [page_id EXCEPT ![s] = first]
       /\ n' = [n EXCEPT ![s] = call[t].k]
       /\ is_use' = [is_use EXCEPT ![s] = TRUE]
       /\ mapped' = mapped \cup Run(first, call[t].k)
       /\ id_span_map' = SetRange(id_span_map, {first}, s)
       /\ Give(t, first, call[t].k)
  /\ UNCHANGED span_lists

NewExact(t) ==
  /\ Holds(t, "new") /\ call[t].k <= NPAGES - 1
  /\ LET k == call[t].k
     IN  /\ span_lists[k] # <<>>
         /\ LET s == Head(span_lists[k])
            IN  /\ is_use' = [is_use EXCEPT ![s] = TRUE]
                /\ span_lists' = [span_lists EXCEPT ![k] = Tail(@)]
                /\ id_span_map' = SetRange(id_span_map, PagesOf(s), s)
                /\ Give(t, page_id[s], k)
  /\ UNCHANGED <<page_id, n, live, mapped>>

Larger(k)   == {i \in Buckets : i > k /\ span_lists[i] # <<>>}
Smallest(S) == CHOOSE i \in S : \A j \in S : i <= j

\* The map after s took the first k pages of big; rest is big's new page_id.
SplitMap(m, rest, k, s, big) ==
  SetRange(SetRange(m, Ends(rest, n[big] - k), big), Run(rest - k, k), s)

RestBucket(i, k) == i - k

\* Cut k pages from the head of the smallest larger span.
NewSplit(t) ==
  /\ Holds(t, "new") /\ call[t].k <= NPAGES - 1
  /\ span_lists[call[t].k] = <<>> /\ Larger(call[t].k) # {}
  /\ LET k   == call[t].k
         i   == Smallest(Larger(k))
         big == Head(span_lists[i])
     IN  \E s \in Spans \ live :
           /\ live' = live \cup {s}
           /\ page_id' = [page_id EXCEPT ![s] = page_id[big], ![big] = @ + k]
           /\ n' = [n EXCEPT ![s] = k, ![big] = @ - k]
           /\ is_use' = [is_use EXCEPT ![s] = TRUE, ![big] = FALSE]
           /\ span_lists' =
                LET popped == [span_lists EXCEPT ![i] = Tail(@)]
                IN  [popped EXCEPT ![RestBucket(i, k)] = <<big>> \o @]
           /\ id_span_map' = SplitMap(id_span_map, page_id[big] + k, k, s, big)
           /\ Give(t, page_id[big], k)
  /\ UNCHANGED mapped

Empty(k) == span_lists[k] = <<>> /\ Larger(k) = {}

\* Nothing to cut from: NPAGES - 1 pages from the system, then once more.
Refill(t) ==
  /\ Holds(t, "new") /\ call[t].k <= NPAGES - 1 /\ Empty(call[t].k)
  /\ \E first \in Places(NPAGES - 1), s \in Spans \ live :
       /\ live' = live \cup {s}
       /\ page_id' = [page_id EXCEPT ![s] = first]
       /\ n' = [n EXCEPT ![s] = NPAGES - 1]
       /\ is_use' = [is_use EXCEPT ![s] = FALSE]
       /\ mapped' = mapped \cup Run(first, NPAGES - 1)
       /\ span_lists' = [span_lists EXCEPT ![NPAGES - 1] = <<s>> \o @]
  /\ UNCHANGED <<id_span_map, page_mtx, call, stage, held>>

\* system_alloc throws bad_alloc: out of the call, page_mtx_ still locked,
\* and the Span already taken for a refill forgotten.
SystemFails(t) ==
  /\ MayFail /\ Holds(t, "new")
  /\ \/ call[t].k > NPAGES - 1 /\ UNCHANGED live
     \/ /\ call[t].k <= NPAGES - 1 /\ Empty(call[t].k)
        /\ \E s \in Spans \ live : live' = live \cup {s}
  /\ call' = [call EXCEPT ![t] = Out]
  /\ stage' = "abandoned"
  /\ UNCHANGED <<page_id, n, is_use, span_lists, id_span_map, mapped, page_mtx, held>>

-----------------------------------------------------------------------------
(* release_span_to_page_cache                                              *)

\* Mutant: the pages of the span stay in the map.
ClearKept(m, s) == m
Clear(m, s) == SetRange(m, PagesOf(s), None)

\* span_pool_.deallocate(s), the fields being pid and num otherwise.
Dealloc(s, pid, num) ==
  /\ live' = live \ {s}
  /\ page_id' = [pid EXCEPT ![s] = 0]
  /\ n' = [num EXCEPT ![s] = 0]

ReleaseLarge(t) ==
  /\ Holds(t, "free") /\ stage = "free"
  /\ LET s == call[t].span
     IN  /\ n[s] > NPAGES - 1
         /\ id_span_map' = Clear(id_span_map, s)
         /\ mapped' = mapped \ PagesOf(s)
         /\ Dealloc(s, page_id, n)
         /\ is_use' = [is_use EXCEPT ![s] = FALSE]
  /\ Return(t)
  /\ UNCHANGED <<span_lists, held>>

ReleaseBegin(t) ==
  /\ Holds(t, "free") /\ stage = "free"
  /\ n[call[t].span] <= NPAGES - 1
  /\ id_span_map' = Clear(id_span_map, call[t].span)
  /\ stage' = "prev"
  /\ UNCHANGED <<svars, span_lists, mapped, page_mtx, call, held>>

\* Mutant: a span that is in use is merged as well.
MergeableUsed(p, s) ==
  id_span_map[p] # None /\ n[id_span_map[p]] + n[s] <= NPAGES - 1

\* The neighbour the map gives for page p can be merged with s.
Mergeable(p, s) ==
  LET q == id_span_map[p]
  IN  q # None /\ ~is_use[q] /\ n[q] + n[s] <= NPAGES - 1

Merge(s, q, first) ==
  /\ Dealloc(q, [page_id EXCEPT ![s] = first], [n EXCEPT ![s] = @ + n[q]])
  /\ id_span_map' = Clear(id_span_map, q)
  /\ span_lists' = [span_lists EXCEPT ![n[q]] = Erased(@, q)]
  /\ UNCHANGED <<is_use, mapped, page_mtx, call, stage, held>>

MergePrev(t) ==
  /\ Holds(t, "free") /\ stage = "prev"
  /\ LET s == call[t].span
         p == page_id[s] - 1
     IN  Mergeable(p, s) /\ Merge(s, id_span_map[p], page_id[id_span_map[p]])

EndPrev(t) ==
  /\ Holds(t, "free") /\ stage = "prev"
  /\ ~Mergeable(page_id[call[t].span] - 1, call[t].span)
  /\ stage' = "next"
  /\ UNCHANGED <<svars, span_lists, id_span_map, mapped, page_mtx, call, held>>

MergeNext(t) ==
  /\ Holds(t, "free") /\ stage = "next"
  /\ LET s == call[t].span
         p == page_id[s] + n[s]
     IN  Mergeable(p, s) /\ Merge(s, id_span_map[p], page_id[s])

ReleaseEnd(t) ==
  /\ Holds(t, "free") /\ stage = "next"
  /\ LET s == call[t].span
     IN  /\ ~Mergeable(page_id[s] + n[s], s)
         /\ span_lists' = [span_lists EXCEPT ![n[s]] = <<s>> \o @]
         /\ id_span_map' = SetRange(id_span_map, Ends(page_id[s], n[s]), s)
         /\ is_use' = [is_use EXCEPT ![s] = FALSE]
  /\ Return(t)
  /\ UNCHANGED <<page_id, n, live, mapped, held>>

-----------------------------------------------------------------------------
Step(t) ==
  \/ NewLarge(t) \/ NewExact(t) \/ NewSplit(t) \/ Refill(t) \/ SystemFails(t)
  \/ ReleaseLarge(t) \/ ReleaseBegin(t) \/ MergePrev(t) \/ EndPrev(t)
  \/ MergeNext(t) \/ ReleaseEnd(t)

Next == \E t \in Threads :
  \/ \E k \in Requests : AskNew(t, k)
  \/ \E r \in held : AskFree(t, r)
  \/ Lock(t) \/ Step(t)

Spec == Init /\ [][Next]_vars

-----------------------------------------------------------------------------
Calls == {Out} \cup [op : {"new"}, k : Requests] \cup [op : {"free"}, span : Spans]

TypeOK ==
  /\ page_id \in [Spans -> 0..LastPage]
  /\ n \in [Spans -> 0..LastPage]
  /\ is_use \in [Spans -> BOOLEAN]
  /\ live \subseteq Spans
  /\ span_lists \in [Buckets -> Seq(Spans)]
  /\ id_span_map \in [0..(LastPage + 1) -> Spans \cup {None}]
  /\ mapped \subseteq Pages
  /\ page_mtx \in Threads \cup {None}
  /\ call \in [Threads -> Calls]
  /\ stage \in {"idle", "new", "free", "prev", "next", "abandoned"}
  /\ held \subseteq [first : Pages, n : Pages]

(* The Span objects in use divide the pages of the system among them: no   *)
(* page belongs to two of them and none is forgotten, through every split  *)
(* and every turn of the coalescing loops.                                 *)
SpansPartition ==
  /\ \A s, q \in live : s # q => PagesOf(s) \cap PagesOf(q) = {}
  /\ UNION {PagesOf(s) : s \in live} = mapped

(* The page map never leads to a Span that went back to span_pool_, nor    *)
(* to one that does not contain the page: the coalescing loops and zfree   *)
(* follow it without a check.                                              *)
MapIsSound ==
  \A p \in DOMAIN id_span_map :
     id_span_map[p] # None => id_span_map[p] \in live /\ p \in PagesOf(id_span_map[p])

(* Every page a caller holds leads to the Span of its run, if the run is   *)
(* small enough to be cut into objects; of a large one the first page      *)
(* does.                                                                   *)
HeldIsResolved ==
  \A r \in held : \A p \in Run(r.first, IF r.n > NPAGES - 1 THEN 1 ELSE r.n) :
     /\ id_span_map[p] # None
     /\ page_id[id_span_map[p]] = r.first /\ n[id_span_map[p]] = r.n
     /\ is_use[id_span_map[p]]

Listed(k) == {span_lists[k][i] : i \in DOMAIN span_lists[k]}

(* A free span stands once, in the bucket of its size.                     *)
FreeIsListed ==
  \A s \in live : ~is_use[s] /\ n[s] > 0 =>
     /\ n[s] \in Buckets
     /\ \A k \in Buckets :
          Cardinality({i \in DOMAIN span_lists[k] : span_lists[k][i] = s})
             = IF k = n[s] THEN 1 ELSE 0

(* The spans, the buckets and the page map describe the same division of   *)
(* the pages.                                                              *)
SpansConsistent == SpansPartition /\ MapIsSound /\ HeldIsResolved /\ FreeIsListed

Abstract == INSTANCE PageAllocSpec

(* Callers never hold overlapping runs.                                    *)
ImplementsPageAlloc == Abstract!Spec
=============================================================================
