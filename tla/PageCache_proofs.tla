-------------------------- MODULE PageCache_proofs --------------------------
(***************************************************************************)
(* What zmalloc::PageCache promises for every number of threads, spans and *)
(* pages, every NPAGES and every request, whether or not mmap fails.       *)
(***************************************************************************)
EXTENDS PageCache, QueueLemmas, FiniteSetTheorems

-----------------------------------------------------------------------------
(* The inductive invariant.                                                *)

Owns(s, p) == page_id[s] <= p /\ p < page_id[s] + n[s]

\* A Span object in the pool has no pages.
DeadOK == \A s \in Spans \ live : n[s] = 0 /\ ~is_use[s]

\* SpansPartition, page by page.
PartOK ==
  /\ \A s \in live : n[s] > 0 => page_id[s] >= 1 /\ page_id[s] + n[s] <= LastPage + 1
  /\ \A s, q \in live, p \in Pages : Owns(s, p) /\ Owns(q, p) => s = q
  /\ \A s \in live, p \in Pages : Owns(s, p) => p \in mapped
  /\ \A p \in mapped : \E s \in live : Owns(s, p)

MapOK ==
  \A p \in 0..(LastPage + 1) :
     id_span_map[p] # None => id_span_map[p] \in live /\ Owns(id_span_map[p], p)

\* Bucket k lists the free spans of k pages, each once.
ListsOK ==
  /\ \A s \in live : ~is_use[s] => n[s] <= NPAGES - 1
  /\ \A k \in Buckets : Distinct(span_lists[k])
  /\ \A k \in Buckets : Members(span_lists[k]) = {s \in live : ~is_use[s] /\ n[s] = k}

LockOK ==
  /\ page_mtx = None <=> stage = "idle"
  /\ stage = "new" => call[page_mtx].op = "new"
  /\ stage \in {"free", "prev", "next"} => call[page_mtx].op = "free"

Freeing(t) == call[t].op = "free"

\* A span that is being freed is still in use, and freed by one thread.
FreeingOK ==
  \A t \in Threads : Freeing(t) =>
     /\ call[t].span \in live /\ is_use[call[t].span] /\ n[call[t].span] > 0
     /\ page_mtx = t /\ stage \in {"prev", "next"} => n[call[t].span] <= NPAGES - 1
     /\ \A u \in Threads : Freeing(u) /\ call[u].span = call[t].span => u = t

\* What zfree looks up of a run: all its pages, or the first of a large one.
LookedUp(r) == Run(r.first, IF r.n > NPAGES - 1 THEN 1 ELSE r.n)

\* s is the span of the run r, and nobody frees it.
SpanOfRun(s, r) ==
  /\ page_id[s] = r.first /\ n[s] = r.n /\ is_use[s]
  /\ \A p \in LookedUp(r) : id_span_map[p] = s
  /\ \A t \in Threads : Freeing(t) => call[t].span # s

HeldOK == \A r \in held : \E s \in live : SpanOfRun(s, r)

IInv == /\ TypeOK /\ DeadOK /\ PartOK /\ MapOK /\ ListsOK
        /\ LockOK /\ FreeingOK /\ HeldOK

-----------------------------------------------------------------------------
(* Facts about the state                                                   *)

(* The page numbers and lengths are numbers, and a call carries what its   *)
(* kind needs.                                                             *)
LEMMA Numbers ==
  ASSUME ConstantsOK, TypeOK
  PROVE  /\ NPAGES \in Nat /\ NPAGES > 1 /\ LastPage \in Nat
         /\ \A s \in Spans : page_id[s] \in Nat /\ n[s] \in Nat /\ is_use[s] \in BOOLEAN
         /\ \A s \in Spans : page_id[s] <= LastPage /\ n[s] <= LastPage
BY DEF ConstantsOK, TypeOK

(* A call of a new_span or a release has the fields its step reads.        *)
LEMMA CallType ==
  ASSUME ConstantsOK, TypeOK, NEW t \in Threads
  PROVE  /\ call[t] = Out <=> call[t].op = "out"
         /\ call[t].op \in {"out", "new", "free"}
         /\ call[t].op = "new" => call[t].k \in Requests /\ call[t].k \in Nat /\ call[t].k > 0
         /\ Freeing(t) => call[t].span \in Spans
<1>1. call[t] \in Calls
  BY DEF TypeOK
<1>2. Out.op = "out"
  BY DEF Out
<1>3. CASE call[t] = Out
  BY <1>2, <1>3 DEF Freeing
<1>4. CASE call[t] \in [op : {"new"}, k : Requests]
  <2>1. call[t].op = "new" /\ call[t].k \in Requests
    BY <1>4
  <2>2. call[t].k \in Nat \ {0}
    BY <2>1 DEF ConstantsOK
  <2> QED BY <1>2, <2>1, <2>2 DEF Freeing
<1>5. CASE call[t] \in [op : {"free"}, span : Spans]
  BY <1>2, <1>5 DEF Freeing
<1> QED BY <1>1, <1>3, <1>4, <1>5 DEF Calls

(* The pages of a live span are pages.                                     *)
LEMMA OwnedIsPage ==
  ASSUME ConstantsOK, IInv, NEW s \in live, NEW p \in Int, Owns(s, p)
  PROVE  p \in Pages /\ n[s] > 0
BY Numbers DEF IInv, PartOK, Owns, Pages, TypeOK

(* A page has one owner.                                                   *)
LEMMA OneOwner ==
  ASSUME ConstantsOK, IInv, NEW s \in live, NEW q \in live, NEW p \in Int,
         Owns(s, p), Owns(q, p)
  PROVE  s = q
BY OwnedIsPage DEF IInv, PartOK

(* A page lies in the run of a span exactly if the span owns it.           *)
LEMMA OwnsPagesOf ==
  ASSUME ConstantsOK, TypeOK, NEW s \in Spans, NEW p \in Int
  PROVE  p \in PagesOf(s) <=> Owns(s, p)
BY Numbers DEF PagesOf, Run, Owns

(* Nothing is allocated, in use or mapped at first.                        *)
LEMMA InitIInv == ConstantsOK /\ Init => IInv
<1> SUFFICES ASSUME ConstantsOK, Init PROVE IInv
  OBVIOUS
<1>0. <<>> \in Seq(Spans) /\ Members(<<>>) = {} /\ Distinct(<<>>)
  BY DEF Members, Distinct
<1>1. Out \in Calls /\ Out.op = "out"
  BY DEF Calls, Out
<1>2. TypeOK
  BY <1>0, <1>1 DEF Init, TypeOK, ConstantsOK
<1>3. DeadOK /\ PartOK /\ MapOK
  BY DEF Init, DeadOK, PartOK, MapOK
<1>4. ListsOK
  BY <1>0 DEF Init, ListsOK
<1>5. LockOK /\ FreeingOK /\ HeldOK
  BY <1>1 DEF Init, LockOK, FreeingOK, HeldOK, Freeing
<1> QED BY <1>2, <1>3, <1>4, <1>5 DEF IInv

(* Only the caller that holds page_mtx_ is at work.                        *)
LEMMA HolderStage ==
  ASSUME ConstantsOK, IInv, NEW t \in Threads, NEW op, Holds(t, op), op \in {"new", "free"}
  PROVE  /\ page_mtx = t /\ call[t].op = op
         /\ op = "new" => stage = "new"
         /\ op = "free" => stage \in {"free", "prev", "next"} /\ Freeing(t)
BY DEF IInv, TypeOK, LockOK, Holds, ConstantsOK, Freeing

-----------------------------------------------------------------------------
(* Calls                                                                   *)

(* Asking for a span changes nothing but the caller.                       *)
LEMMA AskNewOK ==
  ASSUME ConstantsOK, IInv, NEW t \in Threads, NEW k \in Requests, AskNew(t, k)
  PROVE  IInv'
<1>1. [op |-> "new", k |-> k] \in Calls /\ [op |-> "new", k |-> k].op = "new"
  BY DEF Calls
<1>2. /\ call'[t] = [op |-> "new", k |-> k]
      /\ \A u \in Threads : u # t => call'[u] = call[u]
      /\ call' \in [Threads -> Calls]
  BY <1>1 DEF AskNew, IInv, TypeOK
<1>3. call[t].op = "out"
  BY CallType DEF AskNew, IInv
<1>4. TypeOK'
  BY <1>2 DEF AskNew, svars, IInv, TypeOK
<1>5. DeadOK' /\ PartOK' /\ MapOK' /\ ListsOK'
  BY DEF AskNew, svars, IInv, DeadOK, PartOK, MapOK, ListsOK, Owns
<1>6. LockOK'
  BY <1>1, <1>2, <1>3 DEF AskNew, IInv, LockOK, TypeOK, ConstantsOK
<1>7. \A u \in Threads : Freeing(u)' => Freeing(u) /\ call'[u] = call[u] /\ u # t
  BY <1>1, <1>2 DEF Freeing
<1>8. FreeingOK'
  BY <1>7 DEF AskNew, svars, IInv, FreeingOK
<1>9. HeldOK'
  BY <1>7 DEF AskNew, svars, IInv, HeldOK, SpanOfRun, LookedUp
<1> QED BY <1>4, <1>5, <1>6, <1>8, <1>9 DEF IInv

(* A thread takes the page lock for the call it has made.                  *)
LEMMA LockStepOK ==
  ASSUME ConstantsOK, IInv, NEW t \in Threads, Lock(t)
  PROVE  IInv'
<1>1. page_mtx' = t /\ stage' = call[t].op /\ call[t].op \in {"new", "free"} /\ call' = call
      /\ stage = "idle" /\ t # None
  BY CallType DEF Lock, IInv, LockOK, ConstantsOK
<1>2. TypeOK'
  BY <1>1 DEF Lock, svars, IInv, TypeOK
<1>3. DeadOK' /\ PartOK' /\ MapOK' /\ ListsOK'
  BY DEF Lock, svars, IInv, DeadOK, PartOK, MapOK, ListsOK, Owns
<1>4. LockOK'
  BY <1>1 DEF LockOK
<1>5. FreeingOK' /\ HeldOK'
  BY <1>1 DEF Lock, svars, IInv, FreeingOK, HeldOK, Freeing, SpanOfRun, LookedUp
<1> QED BY <1>2, <1>3, <1>4, <1>5 DEF IInv

(* A page that zfree looks up of a held run belongs to the run's span.     *)
LEMMA HeldPages ==
  ASSUME ConstantsOK, IInv, NEW r \in held, NEW s \in live, SpanOfRun(s, r)
  PROVE  /\ r.first \in Pages /\ r.n \in Pages /\ r.first \in LookedUp(r)
         /\ id_span_map[r.first] = s
         /\ \A p \in LookedUp(r) : p \in Int /\ Owns(s, p)
<1>1. r.first \in Pages /\ r.n \in Pages /\ r.first \in Nat /\ r.n \in Nat /\ r.n > 0
  BY DEF IInv, TypeOK, Pages
<1>2. page_id[s] = r.first /\ n[s] = r.n
  BY DEF SpanOfRun
<1>3. NPAGES \in Nat
  BY DEF ConstantsOK
<1>4. r.first \in LookedUp(r)
  BY <1>1, <1>3 DEF LookedUp, Run
<1>5. ASSUME NEW p \in LookedUp(r) PROVE p \in Int /\ Owns(s, p)
  BY <1>1, <1>2, <1>3, <1>5 DEF LookedUp, Run, Owns
<1> QED BY <1>1, <1>4, <1>5 DEF SpanOfRun

(* A holder that gives a span back stops holding it.                       *)
LEMMA AskFreeOK ==
  ASSUME ConstantsOK, IInv, NEW t \in Threads, NEW r \in held, AskFree(t, r)
  PROVE  IInv'
<1>1. PICK s \in live : SpanOfRun(s, r)
  BY DEF IInv, HeldOK
<1>2. s \in Spans /\ id_span_map[r.first] = s /\ is_use[s] /\ n[s] > 0
  <2>1. id_span_map[r.first] = s /\ r.n \in Pages
    BY <1>1, HeldPages
  <2> QED BY <1>1, <2>1 DEF IInv, TypeOK, SpanOfRun, Pages
<1> DEFINE c == [op |-> "free", span |-> s]
<1>3. c \in Calls /\ c.op = "free" /\ c.span = s
  BY <1>2 DEF Calls
<1>4. call' = [call EXCEPT ![t] = c]
  BY <1>2 DEF AskFree
<1> HIDE DEF c
<1>5. /\ call'[t] = c
      /\ \A u \in Threads : u # t => call'[u] = call[u]
      /\ call' \in [Threads -> Calls]
  BY <1>3, <1>4 DEF IInv, TypeOK
<1>6. call[t].op = "out" /\ call[t] = Out
  BY CallType DEF AskFree, IInv
<1>7. TypeOK'
  BY <1>5 DEF AskFree, svars, IInv, TypeOK
<1>8. DeadOK' /\ PartOK' /\ MapOK' /\ ListsOK'
  BY DEF AskFree, svars, IInv, DeadOK, PartOK, MapOK, ListsOK, Owns
<1>9. LockOK'
  BY <1>5, <1>6 DEF AskFree, IInv, LockOK, TypeOK, ConstantsOK
<1>10. \A u \in Threads : u # t => (Freeing(u)' <=> Freeing(u)) /\ call'[u] = call[u]
  BY <1>5 DEF Freeing
<1>11. Freeing(t)' /\ call'[t].span = s
  BY <1>5, <1>3 DEF Freeing
<1>12. \A u \in Threads : Freeing(u) => call[u].span # s
  BY <1>1 DEF SpanOfRun
<1>13. FreeingOK'
  <2> SUFFICES ASSUME NEW u \in Threads, Freeing(u)'
               PROVE  /\ call'[u].span \in live' /\ is_use'[call'[u].span] /\ n'[call'[u].span] > 0
                      /\ page_mtx' = u /\ stage' \in {"prev", "next"} => n'[call'[u].span] <= NPAGES - 1
                      /\ \A v \in Threads : Freeing(v)' /\ call'[v].span = call'[u].span => v = u
    BY DEF FreeingOK
  <2>1. page_mtx = t => ~(stage \in {"prev", "next"})
    BY <1>6 DEF IInv, LockOK
  <2>2. UNCHANGED <<page_id, n, is_use, live, page_mtx, stage>>
    BY DEF AskFree, svars
  <2>3. CASE u = t
    BY <1>2, <1>10, <1>11, <1>12, <2>1, <2>2, <2>3
  <2>4. CASE u # t
    BY <1>10, <1>11, <1>12, <2>2, <2>4 DEF IInv, FreeingOK
  <2> QED BY <2>3, <2>4
<1>14. HeldOK'
  <2> SUFFICES ASSUME NEW o \in held, o # r PROVE \E q \in live' : SpanOfRun(q, o)'
    BY DEF HeldOK, AskFree
  <2>1. PICK q \in live : SpanOfRun(q, o)
    BY DEF IInv, HeldOK
  <2>2. q # s
    <3>1. o \in [first : Pages, n : Pages] /\ r \in [first : Pages, n : Pages]
      BY DEF IInv, TypeOK
    <3>2. q = s => o.first = r.first /\ o.n = r.n
      BY <2>1, <1>1 DEF SpanOfRun
    <3> QED BY <3>1, <3>2
  <2>3. SpanOfRun(q, o)'
    BY <2>1, <2>2, <1>10, <1>11 DEF SpanOfRun, LookedUp, AskFree, svars
  <2> QED BY <2>3 DEF AskFree, svars
<1> QED BY <1>7, <1>8, <1>9, <1>13, <1>14 DEF IInv

-----------------------------------------------------------------------------
(* Steps of a call                                                         *)

(* A call that returns leaves the other calls as they are.                 *)
LEMMA ReturnOK ==
  ASSUME ConstantsOK, IInv, NEW t \in Threads, Return(t)
  PROVE  /\ call' \in [Threads -> Calls]
         /\ page_mtx' = None /\ stage' = "idle" /\ LockOK'
         /\ \A u \in Threads : Freeing(u)' => Freeing(u) /\ u # t /\ call'[u] = call[u]
<1>1. Out \in Calls /\ Out.op = "out"
  BY DEF Calls, Out
<1>2. call'[t] = Out /\ (\A u \in Threads : u # t => call'[u] = call[u])
      /\ call' \in [Threads -> Calls]
  BY <1>1 DEF Return, IInv, TypeOK
<1> QED BY <1>1, <1>2 DEF Return, LockOK, Freeing

(* A held run keeps its span when the span and the map of its pages stay.  *)
LEMMA HeldKept ==
  ASSUME ConstantsOK, IInv, NEW r \in held, NEW s \in live, SpanOfRun(s, r),
         page_id'[s] = page_id[s], n'[s] = n[s], is_use'[s] = is_use[s],
         \A p \in Pages : Owns(s, p) => id_span_map'[p] = id_span_map[p],
         \A u \in Threads : Freeing(u)' => Freeing(u) /\ call'[u] = call[u]
  PROVE  SpanOfRun(s, r)'
<1>1. \A p \in LookedUp(r) : id_span_map'[p] = s
  BY HeldPages, OwnedIsPage DEF SpanOfRun
<1> QED BY <1>1 DEF SpanOfRun, LookedUp

(* The calls that go on keep their spans when those stay.                  *)
LEMMA FreeingKept ==
  ASSUME ConstantsOK, IInv,
         \A u \in Threads : Freeing(u)' => Freeing(u) /\ call'[u] = call[u],
         page_mtx' = None,
         \A u \in Threads : Freeing(u)' =>
            LET s == call[u].span
            IN  s \in live' /\ is_use'[s] = is_use[s] /\ n'[s] = n[s]
  PROVE  FreeingOK'
BY DEF IInv, FreeingOK, ConstantsOK

(* A fresh span over pages the system has just given.                      *)
LEMMA FreshSpan ==
  ASSUME ConstantsOK, IInv, NEW s \in Spans \ live, NEW k \in Nat, k > 0,
         NEW first \in Places(k), NEW b \in BOOLEAN,
         live' = live \cup {s},
         page_id' = [page_id EXCEPT ![s] = first],
         n' = [n EXCEPT ![s] = k],
         is_use' = [is_use EXCEPT ![s] = b],
         mapped' = mapped \cup Run(first, k)
  PROVE  /\ page_id' \in [Spans -> 0..LastPage] /\ n' \in [Spans -> 0..LastPage]
         /\ is_use' \in [Spans -> BOOLEAN] /\ live' \subseteq Spans /\ mapped' \subseteq Pages
         /\ first \in Pages /\ k \in Pages /\ first + k <= LastPage + 1
         /\ page_id'[s] = first /\ n'[s] = k /\ is_use'[s] = b
         /\ \A q \in Spans : q # s =>
              page_id'[q] = page_id[q] /\ n'[q] = n[q] /\ is_use'[q] = is_use[q]
         /\ \A q \in live, p \in Pages : Owns(q, p) => p \notin Run(first, k)
         /\ DeadOK' /\ PartOK'
<1>0. NPAGES \in Nat /\ LastPage \in Nat /\ live \subseteq Spans /\ mapped \subseteq Pages
  BY Numbers DEF IInv, TypeOK
<1>1. first \in Pages /\ Run(first, k) \subseteq Pages /\ Run(first, k) \cap mapped = {}
  BY DEF Places
<1>2. first \in Nat /\ first >= 1 /\ first + k - 1 \in Run(first, k)
  BY <1>1, <1>0 DEF Run, Pages
<1>3. first + k <= LastPage + 1 /\ k \in Pages
  BY <1>0, <1>1, <1>2 DEF Pages
<1>4. page_id' \in [Spans -> 0..LastPage] /\ n' \in [Spans -> 0..LastPage]
  BY <1>0, <1>1, <1>3 DEF IInv, TypeOK, Pages
<1>5. is_use' \in [Spans -> BOOLEAN] /\ live' \subseteq Spans /\ mapped' \subseteq Pages
  BY <1>0, <1>1 DEF IInv, TypeOK
<1>6. page_id'[s] = first /\ n'[s] = k /\ is_use'[s] = b
  BY DEF IInv, TypeOK
<1>7. \A q \in Spans : q # s =>
        page_id'[q] = page_id[q] /\ n'[q] = n[q] /\ is_use'[q] = is_use[q]
  BY DEF IInv, TypeOK
<1>8. \A q \in live, p \in Pages : Owns(q, p) => p \notin Run(first, k)
  BY <1>1 DEF IInv, PartOK
<1>9. DeadOK'
  BY <1>7 DEF IInv, DeadOK
<1>10. \A q \in live, p \in Pages : Owns(q, p)' <=> Owns(q, p)
  BY <1>0, <1>7 DEF Owns
<1>11. \A p \in Pages : Owns(s, p)' <=> p \in Run(first, k)
  BY <1>2, <1>6, <1>0 DEF Owns, Run, Pages
<1>12. PartOK'
  <2>1. \A q \in live' : n'[q] > 0 => page_id'[q] >= 1 /\ page_id'[q] + n'[q] <= LastPage + 1
    <3>1. CASE s \in live'
      BY <1>0, <1>2, <1>3, <1>6, <1>7 DEF IInv, PartOK
    <3> QED BY <3>1
  <2>2. ASSUME NEW q \in live', NEW o \in live', NEW p \in Pages, Owns(q, p)', Owns(o, p)'
        PROVE  q = o
    BY <2>2, <1>8, <1>10, <1>11 DEF IInv, PartOK
  <2>3. ASSUME NEW q \in live', NEW p \in Pages, Owns(q, p)'
        PROVE  p \in mapped'
    BY <2>3, <1>10, <1>11 DEF IInv, PartOK
  <2>4. ASSUME NEW p \in mapped' PROVE \E q \in live' : Owns(q, p)'
    BY <2>4, <1>0, <1>1, <1>10, <1>11 DEF IInv, PartOK
  <2> QED BY <2>1, <2>2, <2>3, <2>4 DEF PartOK
<1> QED BY <1>1, <1>3, <1>4, <1>5, <1>6, <1>7, <1>8, <1>9, <1>12

(* A span of more than NPAGES - 1 pages comes from the system, in no list. *)
LEMMA NewLargeOK ==
  ASSUME ConstantsOK, IInv, NEW t \in Threads, NewLarge(t)
  PROVE  IInv'
<1>0. call[t].k \in Nat /\ call[t].k > 0 /\ NPAGES \in Nat /\ call[t].k > NPAGES - 1
      /\ live \subseteq Spans /\ LastPage \in Nat
  BY CallType, Numbers DEF NewLarge, Holds, IInv, TypeOK
<1>1. PICK first \in Places(call[t].k), s \in Spans \ live :
       /\ live' = live \cup {s}
       /\ page_id' = [page_id EXCEPT ![s] = first]
       /\ n' = [n EXCEPT ![s] = call[t].k]
       /\ is_use' = [is_use EXCEPT ![s] = TRUE]
       /\ mapped' = mapped \cup Run(first, call[t].k)
       /\ id_span_map' = SetRange(id_span_map, {first}, s)
       /\ Give(t, first, call[t].k)
  BY DEF NewLarge
<1>2. PICK k \in Nat : k = call[t].k
  BY <1>0
<1>3. /\ page_id' \in [Spans -> 0..LastPage] /\ n' \in [Spans -> 0..LastPage]
      /\ is_use' \in [Spans -> BOOLEAN] /\ live' \subseteq Spans /\ mapped' \subseteq Pages
      /\ first \in Pages /\ k \in Pages /\ first + k <= LastPage + 1
      /\ page_id'[s] = first /\ n'[s] = k /\ is_use'[s] = TRUE
      /\ \A q \in Spans : q # s =>
           page_id'[q] = page_id[q] /\ n'[q] = n[q] /\ is_use'[q] = is_use[q]
      /\ \A q \in live, p \in Pages : Owns(q, p) => p \notin Run(first, k)
      /\ DeadOK' /\ PartOK'
  BY <1>0, <1>1, <1>2, FreshSpan
<1>4. /\ call' \in [Threads -> Calls]
      /\ page_mtx' = None /\ stage' = "idle" /\ LockOK'
      /\ \A u \in Threads : Freeing(u)' => Freeing(u) /\ u # t /\ call'[u] = call[u]
  BY <1>1, ReturnOK DEF Give
<1>5. /\ id_span_map' \in [0..(LastPage + 1) -> Spans \cup {None}]
      /\ id_span_map'[first] = s
      /\ \A p \in 0..(LastPage + 1) : p # first => id_span_map'[p] = id_span_map[p]
  BY <1>1, <1>3, <1>0 DEF IInv, TypeOK, SetRange, Pages
<1>6. span_lists' = span_lists
  BY DEF NewLarge
<1>7. [first |-> first, n |-> k] \in [first : Pages, n : Pages]
  BY <1>3
<1>8. TypeOK'
  BY <1>1, <1>2, <1>3, <1>4, <1>5, <1>6, <1>7 DEF Give, IInv, TypeOK
<1>9. Owns(s, first)' /\ (\A q \in live, p \in Nat : Owns(q, p)' <=> Owns(q, p))
  BY <1>0, <1>2, <1>3 DEF Owns, Pages
<1>10. MapOK'
  <2> SUFFICES ASSUME NEW p \in 0..(LastPage + 1), NEW o, o = id_span_map'[p], o # None
               PROVE  o \in live' /\ Owns(o, p)'
    BY DEF MapOK, Owns
  <2>1. CASE p = first
    BY <2>1, <1>1, <1>5, <1>9
  <2>2. CASE p # first
    <3>1. o \in live /\ Owns(o, p)
      BY <2>2, <1>5 DEF IInv, MapOK
    <3> QED BY <3>1, <1>0, <1>1, <1>9
  <2> QED BY <2>1, <2>2
<1>11. {q \in live' : ~is_use'[q]} = {q \in live : ~is_use[q]}
  BY <1>0, <1>1, <1>3
<1>12. ListsOK'
  BY <1>0, <1>6, <1>3, <1>11 DEF IInv, ListsOK
<1>13. \A u \in Threads : Freeing(u) => call[u].span \in live /\ call[u].span # s
  BY DEF IInv, FreeingOK
<1>14. FreeingOK'
  BY <1>0, <1>1, <1>3, <1>4, <1>13, FreeingKept
<1>15. HeldOK'
  <2>1. ASSUME NEW r \in held PROVE \E q \in live' : SpanOfRun(q, r)'
    <3>1. PICK q \in live : SpanOfRun(q, r)
      BY DEF IInv, HeldOK
    <3>2. \A p \in Pages : Owns(q, p) => id_span_map'[p] = id_span_map[p]
      BY <1>0, <1>2, <1>3, <1>5 DEF Run, Pages
    <3>3. SpanOfRun(q, r)'
      BY <3>1, <3>2, <1>0, <1>3, <1>4, HeldKept
    <3> QED BY <3>3, <1>1
  <2> DEFINE r == [first |-> first, n |-> k]
  <2>2. r.first = first /\ r.n = k
    OBVIOUS
  <2>3. held' = held \cup {r}
    BY <1>1, <1>2 DEF Give
  <2> HIDE DEF r
  <2>4. LookedUp(r) = {first}
    BY <2>2, <1>0, <1>2, <1>3 DEF LookedUp, Run, Pages
  <2>5. SpanOfRun(s, r)'
    <3>1. LookedUp(r)' = LookedUp(r)
      BY DEF LookedUp
    <3>2. \A u \in Threads : Freeing(u)' => call'[u].span # s
      BY <1>4, <1>13
    <3> QED BY <2>2, <2>4, <3>1, <3>2, <1>3, <1>5 DEF SpanOfRun
  <2> QED BY <2>1, <2>3, <2>5, <1>1 DEF HeldOK
<1> QED BY <1>3, <1>4, <1>8, <1>10, <1>12, <1>14, <1>15 DEF IInv

(* A refill from the system is one free span in the last list.             *)
LEMMA RefillOK ==
  ASSUME ConstantsOK, IInv, NEW t \in Threads, Refill(t)
  PROVE  IInv'
<1>0. NPAGES \in Nat /\ NPAGES > 1 /\ live \subseteq Spans /\ LastPage \in Nat
      /\ span_lists \in [Buckets -> Seq(Spans)]
  BY Numbers DEF IInv, TypeOK
<1>1. PICK k \in Nat : k = NPAGES - 1 /\ k > 0 /\ k \in Buckets
  BY <1>0 DEF Buckets
<1>2. PICK first \in Places(k), s \in Spans \ live :
       /\ live' = live \cup {s}
       /\ page_id' = [page_id EXCEPT ![s] = first]
       /\ n' = [n EXCEPT ![s] = k]
       /\ is_use' = [is_use EXCEPT ![s] = FALSE]
       /\ mapped' = mapped \cup Run(first, k)
       /\ span_lists' = [span_lists EXCEPT ![k] = <<s>> \o @]
  BY <1>1 DEF Refill
<1>3. /\ page_id' \in [Spans -> 0..LastPage] /\ n' \in [Spans -> 0..LastPage]
      /\ is_use' \in [Spans -> BOOLEAN] /\ live' \subseteq Spans /\ mapped' \subseteq Pages
      /\ page_id'[s] = first /\ n'[s] = k /\ is_use'[s] = FALSE
      /\ \A q \in Spans : q # s =>
           page_id'[q] = page_id[q] /\ n'[q] = n[q] /\ is_use'[q] = is_use[q]
      /\ DeadOK' /\ PartOK'
  BY <1>0, <1>1, <1>2, FreshSpan
<1>4. UNCHANGED <<id_span_map, page_mtx, call, stage, held>>
  BY DEF Refill
<1>5. Distinct(span_lists[k]) /\ Members(span_lists[k]) = {q \in live : ~is_use[q] /\ n[q] = k}
  BY <1>1 DEF IInv, ListsOK
<1>6. /\ <<s>> \o span_lists[k] \in Seq(Spans)
      /\ Members(<<s>> \o span_lists[k]) = Members(span_lists[k]) \cup {s}
      /\ Distinct(<<s>> \o span_lists[k])
  BY <1>0, <1>1, <1>5, PushFront
<1>7. /\ span_lists' \in [Buckets -> Seq(Spans)]
      /\ span_lists'[k] = <<s>> \o span_lists[k]
      /\ \A i \in Buckets : i # k => span_lists'[i] = span_lists[i]
  BY <1>0, <1>1, <1>2, <1>6
<1>8. TypeOK'
  BY <1>3, <1>4, <1>7 DEF IInv, TypeOK
<1>9. \A q \in live, p \in Nat : Owns(q, p)' <=> Owns(q, p)
  BY <1>0, <1>3 DEF Owns
<1>10. MapOK'
  <2> SUFFICES ASSUME NEW p \in 0..(LastPage + 1), NEW o, o = id_span_map'[p], o # None
               PROVE  o \in live' /\ Owns(o, p)'
    BY DEF MapOK, Owns
  <2>1. o \in live /\ Owns(o, p)
    BY <1>4 DEF IInv, MapOK
  <2> QED BY <2>1, <1>0, <1>2, <1>9
<1>11. ListsOK'
  <2>1. \A q \in live' : ~is_use'[q] => n'[q] <= NPAGES - 1
    BY <1>0, <1>1, <1>2, <1>3 DEF IInv, ListsOK
  <2>2. \A i \in Buckets : Distinct(span_lists'[i])
    BY <1>6, <1>7 DEF IInv, ListsOK
  <2>3. ASSUME NEW i \in Buckets
        PROVE  Members(span_lists'[i]) = {q \in live' : ~is_use'[q] /\ n'[q] = i}
    <3>1. Members(span_lists[i]) = {q \in live : ~is_use[q] /\ n[q] = i}
      BY DEF IInv, ListsOK
    <3>2. CASE i = k
      BY <3>1, <3>2, <1>0, <1>2, <1>3, <1>6, <1>7
    <3>3. CASE i # k
      BY <3>1, <3>3, <1>0, <1>2, <1>3, <1>7
    <3> QED BY <3>2, <3>3
  <2> QED BY <2>1, <2>2, <2>3 DEF ListsOK
<1>12. \A u \in Threads : Freeing(u)' <=> Freeing(u)
  BY <1>4 DEF Freeing
<1>13. \A u \in Threads : Freeing(u) => call[u].span \in live /\ call[u].span # s
  BY DEF IInv, FreeingOK
<1>14. LockOK'
  BY <1>4 DEF IInv, LockOK
<1>15. FreeingOK'
  BY <1>0, <1>2, <1>3, <1>4, <1>12, <1>13 DEF IInv, FreeingOK
<1>16. HeldOK'
  <2> SUFFICES ASSUME NEW r \in held PROVE \E q \in live' : SpanOfRun(q, r)'
    BY <1>4 DEF HeldOK
  <2>1. PICK q \in live : SpanOfRun(q, r)
    BY DEF IInv, HeldOK
  <2>2. SpanOfRun(q, r)'
    BY <2>1, <1>0, <1>3, <1>4, <1>12, HeldKept
  <2> QED BY <2>2, <1>2
<1> QED BY <1>3, <1>8, <1>10, <1>11, <1>14, <1>15, <1>16 DEF IInv

(* bad_alloc: a Span without pages stays out of the pool.                  *)
LEMMA SystemFailsOK ==
  ASSUME ConstantsOK, IInv, NEW t \in Threads, SystemFails(t)
  PROVE  IInv'
<1>0. live \subseteq Spans /\ NPAGES \in Nat /\ NPAGES > 1
  BY Numbers DEF IInv, TypeOK
<1>1. PICK S \in SUBSET (Spans \ live) : live' = live \cup S
  <2>1. CASE live' = live
    <3>1. {} \in SUBSET (Spans \ live) /\ live' = live \cup {}
      BY <2>1
    <3> QED BY <3>1
  <2>2. CASE \E s \in Spans \ live : live' = live \cup {s}
    BY <2>2
  <2> QED BY <2>1, <2>2 DEF SystemFails
<1>2. \A s \in S : n[s] = 0 /\ ~is_use[s]
  BY DEF IInv, DeadOK
<1>3. UNCHANGED <<page_id, n, is_use, span_lists, id_span_map, mapped, page_mtx, held>>
      /\ stage' = "abandoned"
  BY DEF SystemFails
<1>4. Out \in Calls /\ Out.op = "out"
  BY DEF Calls, Out
<1>5. call'[t] = Out /\ (\A u \in Threads : u # t => call'[u] = call[u])
      /\ call' \in [Threads -> Calls]
  BY <1>4 DEF SystemFails, IInv, TypeOK
<1>6. \A u \in Threads : Freeing(u)' => Freeing(u) /\ call'[u] = call[u]
  BY <1>4, <1>5 DEF Freeing
<1>7. \A s \in Spans, p \in Nat : Owns(s, p)' <=> Owns(s, p)
  BY <1>3 DEF Owns
<1>8. \A s \in S, p \in Nat : ~Owns(s, p)
  BY <1>0, <1>2, Numbers DEF Owns, IInv
<1>9. TypeOK'
  BY <1>0, <1>1, <1>3, <1>5 DEF IInv, TypeOK
<1>10. DeadOK'
  BY <1>1, <1>3 DEF IInv, DeadOK
<1>11. PartOK'
  <2>1. Pages \subseteq Nat /\ mapped \subseteq Nat
    BY DEF Pages, IInv, TypeOK
  <2>2. \A s \in live' : n'[s] > 0 => page_id'[s] >= 1 /\ page_id'[s] + n'[s] <= LastPage + 1
    BY <1>1, <1>2, <1>3 DEF IInv, PartOK
  <2>3. \A s, q \in live', p \in Pages : Owns(s, p)' /\ Owns(q, p)' => s = q
    BY <1>0, <1>1, <1>7, <1>8, <2>1 DEF IInv, PartOK
  <2>4. \A s \in live', p \in Pages : Owns(s, p)' => p \in mapped'
    BY <1>0, <1>1, <1>3, <1>7, <1>8, <2>1 DEF IInv, PartOK
  <2>5. \A p \in mapped' : \E s \in live' : Owns(s, p)'
    BY <1>0, <1>1, <1>3, <1>7, <2>1 DEF IInv, PartOK
  <2> QED BY <2>2, <2>3, <2>4, <2>5 DEF PartOK
<1>12. MapOK'
  BY <1>1, <1>3 DEF IInv, MapOK, Owns
<1>13. ListsOK'
  <2>1. \A i \in Buckets : {s \in live' : ~is_use'[s] /\ n'[s] = i}
                             = {s \in live : ~is_use[s] /\ n[s] = i}
    BY <1>0, <1>1, <1>2, <1>3 DEF Buckets
  <2>2. \A s \in live' : ~is_use'[s] => n'[s] <= NPAGES - 1
    BY <1>0, <1>1, <1>2, <1>3 DEF IInv, ListsOK
  <2> QED BY <2>1, <2>2, <1>3 DEF IInv, ListsOK
<1>14. LockOK'
  BY <1>3 DEF SystemFails, Holds, LockOK, ConstantsOK
<1>15. FreeingOK'
  BY <1>1, <1>3, <1>6 DEF IInv, FreeingOK
<1>16. HeldOK'
  <2> SUFFICES ASSUME NEW r \in held PROVE \E q \in live' : SpanOfRun(q, r)'
    BY <1>3 DEF HeldOK
  <2>1. PICK q \in live : SpanOfRun(q, r)
    BY DEF IInv, HeldOK
  <2>2. SpanOfRun(q, r)'
    BY <2>1, <1>3, <1>6, HeldKept
  <2> QED BY <2>2, <1>1
<1> QED BY <1>9, <1>10, <1>11, <1>12, <1>13, <1>14, <1>15, <1>16 DEF IInv

(* A listed span is a free span of live pages, as long as its bucket says. *)
LEMMA ListedOK ==
  ASSUME ConstantsOK, IInv, NEW k \in Buckets, NEW s \in Members(span_lists[k])
  PROVE  /\ s \in live /\ s \in Spans /\ ~is_use[s] /\ n[s] = k
         /\ k \in Pages /\ page_id[s] \in Pages /\ page_id[s] + k <= LastPage + 1
         /\ \A u \in Threads : Freeing(u) => call[u].span # s
<1>1. s \in live /\ ~is_use[s] /\ n[s] = k /\ s \in Spans
  BY DEF IInv, ListsOK, TypeOK
<1>2. k \in Nat /\ k > 0 /\ LastPage \in Nat /\ page_id[s] \in Nat
  BY <1>1, Numbers DEF Buckets, IInv
<1>3. page_id[s] >= 1 /\ page_id[s] + k <= LastPage + 1
  BY <1>1, <1>2 DEF IInv, PartOK
<1>4. k \in Pages /\ page_id[s] \in Pages
  BY <1>2, <1>3 DEF Pages
<1>5. \A u \in Threads : Freeing(u) => call[u].span # s
  BY <1>1 DEF IInv, FreeingOK
<1> QED BY <1>1, <1>3, <1>4, <1>5

(* A span of the asked length leaves its list and is held.                 *)
LEMMA NewExactOK ==
  ASSUME ConstantsOK, IInv, NEW t \in Threads, NewExact(t)
  PROVE  IInv'
<1>0. NPAGES \in Nat /\ NPAGES > 1 /\ live \subseteq Spans /\ LastPage \in Nat
      /\ span_lists \in [Buckets -> Seq(Spans)]
  BY Numbers DEF IInv, TypeOK
<1>1. PICK k \in Buckets : k = call[t].k /\ k \in Nat /\ k > 0 /\ k <= NPAGES - 1
  <2>1. call[t].op = "new" /\ call[t].k <= NPAGES - 1
    BY DEF NewExact, Holds
  <2>2. call[t].k \in Nat /\ call[t].k > 0
    BY <2>1, CallType DEF IInv
  <2> QED BY <1>0, <2>1, <2>2 DEF Buckets
<1>2. PICK s \in Spans : s = Head(span_lists[k])
  BY <1>0, <1>1, MembersTail DEF NewExact
<1>3. /\ span_lists[k] # <<>>
      /\ is_use' = [is_use EXCEPT ![s] = TRUE]
      /\ span_lists' = [span_lists EXCEPT ![k] = Tail(@)]
      /\ id_span_map' = SetRange(id_span_map, PagesOf(s), s)
      /\ Give(t, page_id[s], k)
      /\ UNCHANGED <<page_id, n, live, mapped>>
  BY <1>1, <1>2 DEF NewExact
<1>4. /\ Tail(span_lists[k]) \in Seq(Spans)
      /\ Members(span_lists[k]) = Members(Tail(span_lists[k])) \cup {s}
      /\ Distinct(Tail(span_lists[k])) /\ s \notin Members(Tail(span_lists[k]))
  <2>1. Distinct(span_lists[k])
    BY DEF IInv, ListsOK
  <2> QED BY <2>1, <1>0, <1>2, <1>3, MembersTail, DistinctTail
<1>5. /\ s \in live /\ ~is_use[s] /\ n[s] = k
      /\ k \in Pages /\ page_id[s] \in Pages /\ page_id[s] + k <= LastPage + 1
      /\ \A u \in Threads : Freeing(u) => call[u].span # s
  BY <1>4, ListedOK
<1>6. /\ call' \in [Threads -> Calls]
      /\ page_mtx' = None /\ stage' = "idle" /\ LockOK'
      /\ \A u \in Threads : Freeing(u)' => Freeing(u) /\ u # t /\ call'[u] = call[u]
  BY <1>3, ReturnOK DEF Give
<1>7. is_use' \in [Spans -> BOOLEAN] /\ is_use'[s] = TRUE
      /\ \A q \in Spans : q # s => is_use'[q] = is_use[q]
  BY <1>3 DEF IInv, TypeOK
<1>8. /\ span_lists' \in [Buckets -> Seq(Spans)]
      /\ span_lists'[k] = Tail(span_lists[k])
      /\ \A i \in Buckets : i # k => span_lists'[i] = span_lists[i]
  BY <1>0, <1>3, <1>4
<1>9. /\ id_span_map' \in [0..(LastPage + 1) -> Spans \cup {None}]
      /\ \A p \in 0..(LastPage + 1) :
           id_span_map'[p] = IF p \in PagesOf(s) THEN s ELSE id_span_map[p]
  BY <1>3 DEF IInv, TypeOK, SetRange
<1>10. TypeOK'
  <2>1. [first |-> page_id[s], n |-> k] \in [first : Pages, n : Pages]
    BY <1>5
  <2> QED BY <2>1, <1>3, <1>6, <1>7, <1>8, <1>9 DEF Give, IInv, TypeOK
<1>11. \A q \in Spans, p \in Nat : Owns(q, p)' <=> Owns(q, p)
  BY <1>3 DEF Owns
<1>12. \A p \in Nat : p \in PagesOf(s) <=> Owns(s, p)
  BY OwnsPagesOf DEF IInv
<1>13. DeadOK' /\ PartOK'
  BY <1>3, <1>5, <1>7 DEF IInv, DeadOK, PartOK, Owns
<1>14. MapOK'
  <2> SUFFICES ASSUME NEW p \in 0..(LastPage + 1), NEW o, o = id_span_map'[p], o # None
               PROVE  o \in live' /\ Owns(o, p)'
    BY DEF MapOK, Owns
  <2>1. o \in live /\ Owns(o, p)
    BY <1>5, <1>9, <1>12 DEF IInv, MapOK
  <2>2. p \in Nat /\ live' = live /\ o \in Spans
    BY <2>1, <1>0, <1>3
  <2> QED BY <2>1, <2>2, <1>11
<1>15. ListsOK'
  <2>1. \A q \in live' : ~is_use'[q] => n'[q] <= NPAGES - 1
    BY <1>0, <1>3, <1>7 DEF IInv, ListsOK
  <2>2. \A i \in Buckets : Distinct(span_lists'[i])
    BY <1>4, <1>8 DEF IInv, ListsOK
  <2>3. ASSUME NEW i \in Buckets
        PROVE  Members(span_lists'[i]) = {q \in live' : ~is_use'[q] /\ n'[q] = i}
    <3>1. Members(span_lists[i]) = {q \in live : ~is_use[q] /\ n[q] = i}
      BY DEF IInv, ListsOK
    <3>2. CASE i = k
      BY <3>1, <3>2, <1>0, <1>3, <1>4, <1>5, <1>7, <1>8
    <3>3. CASE i # k
      BY <3>1, <3>3, <1>0, <1>3, <1>5, <1>7, <1>8
    <3> QED BY <3>2, <3>3
  <2> QED BY <2>1, <2>2, <2>3 DEF ListsOK
<1>16. FreeingOK'
  <2>1. \A u \in Threads : Freeing(u) => call[u].span \in live /\ call[u].span # s
    BY <1>5 DEF IInv, FreeingOK
  <2> QED BY <2>1, <1>0, <1>3, <1>6, <1>7, FreeingKept
<1>17. HeldOK'
  <2>1. ASSUME NEW r \in held PROVE \E q \in live' : SpanOfRun(q, r)'
    <3>1. PICK q \in live : SpanOfRun(q, r)
      BY DEF IInv, HeldOK
    <3>2. q # s
      BY <3>1, <1>5 DEF SpanOfRun
    <3>3. \A p \in Pages : Owns(q, p) => id_span_map'[p] = id_span_map[p]
      <4> SUFFICES ASSUME NEW p \in Pages, Owns(q, p) PROVE id_span_map'[p] = id_span_map[p]
        OBVIOUS
      <4>1. ~Owns(s, p) /\ p \in 0..(LastPage + 1) /\ p \in Nat
        BY <3>2, <1>0, <1>5, OneOwner DEF Pages
      <4> QED BY <4>1, <1>9, <1>12
    <3>4. SpanOfRun(q, r)'
      BY <3>1, <3>2, <3>3, <1>0, <1>3, <1>6, <1>7, HeldKept
    <3> QED BY <3>4, <1>3
  <2>2. PICK r : r = [first |-> page_id[s], n |-> k]
    OBVIOUS
  <2>3. r.first = page_id[s] /\ r.n = k /\ held' = held \cup {r}
    BY <2>2, <1>3 DEF Give
  <2>4. LookedUp(r) = PagesOf(s) /\ LookedUp(r)' = LookedUp(r)
    BY <2>3, <1>0, <1>1, <1>5 DEF LookedUp, PagesOf
  <2>5. \A p \in PagesOf(s) : p \in 0..(LastPage + 1)
    BY <1>0, <1>1, <1>5 DEF PagesOf, Run, Pages
  <2>6. SpanOfRun(s, r)'
    <3>1. \A u \in Threads : Freeing(u)' => call'[u].span # s
      BY <1>5, <1>6
    <3>2. \A p \in LookedUp(r)' : id_span_map'[p] = s
      BY <2>4, <2>5, <1>9
    <3> QED BY <2>3, <3>1, <3>2, <1>3, <1>5, <1>7 DEF SpanOfRun
  <2> QED BY <2>1, <2>3, <2>6, <1>3, <1>5 DEF HeldOK
<1> QED BY <1>6, <1>10, <1>13, <1>14, <1>15, <1>16, <1>17 DEF IInv

(* The search of new_span ends at a bucket that has a span.                *)
LEMMA SmallestOK ==
  ASSUME ConstantsOK, NEW k, Larger(k) # {}
  PROVE  Smallest(Larger(k)) \in Larger(k)
<1> DEFINE I == Larger(k)
<1>1. NPAGES - 1 \in Nat /\ I \subseteq 0..(NPAGES - 1) /\ I # {}
  BY DEF Larger, Buckets, ConstantsOK
<1> HIDE DEF I
<1>2. \E i \in I : \A j \in I : i <= j
  BY <1>1, MinOfInterval
<1>3. Smallest(I) \in I
  BY <1>2 DEF Smallest
<1> QED BY <1>3 DEF I

(* The arithmetic of cutting the asked pages off a longer span.            *)
LEMMA SplitNumbers ==
  ASSUME NEW f \in Nat, NEW k \in Nat, NEW i \in Nat, NEW L \in Nat,
         f >= 1, k > 0, i > k, f + i <= L + 1
  PROVE  /\ f + k \in 0..L /\ i - k \in 0..L /\ k \in 0..L
         /\ (f + k) - k = f
         /\ \A p \in {f + k, f + k + (i - k) - 1} : f + k <= p /\ p < f + i /\ p \in Nat
         /\ \A p \in f..(f + k - 1) : p \in 0..(L + 1) /\ p \in Nat /\ f <= p /\ p < f + k
OBVIOUS

(* A longer span is cut: the head is handed out, the rest is listed.       *)
LEMMA NewSplitOK ==
  ASSUME ConstantsOK, IInv, NEW t \in Threads, NewSplit(t)
  PROVE  IInv'
<1>0. NPAGES \in Nat /\ NPAGES > 1 /\ live \subseteq Spans /\ LastPage \in Nat
      /\ span_lists \in [Buckets -> Seq(Spans)]
  BY Numbers DEF IInv, TypeOK
<1>1. PICK k \in Buckets : k = call[t].k /\ k \in Nat /\ k > 0 /\ k <= NPAGES - 1
  <2>1. call[t].op = "new" /\ call[t].k <= NPAGES - 1
    BY DEF NewSplit, Holds
  <2>2. call[t].k \in Nat /\ call[t].k > 0
    BY <2>1, CallType DEF IInv
  <2> QED BY <1>0, <2>1, <2>2 DEF Buckets
<1>2. PICK i \in Larger(k) : i = Smallest(Larger(k))
  BY <1>1, SmallestOK DEF NewSplit
<1>3. i \in Buckets /\ i \in Nat /\ i > k /\ span_lists[i] # <<>>
      /\ RestBucket(i, k) \in Buckets /\ RestBucket(i, k) # i /\ RestBucket(i, k) = i - k
  <2>1. i \in Buckets /\ i > k /\ span_lists[i] # <<>>
    BY <1>2 DEF Larger
  <2>2. i \in Nat /\ i <= NPAGES - 1
    BY <1>0, <2>1 DEF Buckets
  <2>3. i - k \in Nat /\ i - k >= 1 /\ i - k <= NPAGES - 1 /\ i - k # i
    BY <1>0, <1>1, <2>1, <2>2
  <2> QED BY <1>0, <2>1, <2>2, <2>3 DEF Buckets, RestBucket
<1>4. PICK big \in Spans : big = Head(span_lists[i])
  BY <1>0, <1>3, MembersTail
<1>5. PICK s \in Spans \ live :
        /\ live' = live \cup {s}
        /\ page_id' = [page_id EXCEPT ![s] = page_id[big], ![big] = @ + k]
        /\ n' = [n EXCEPT ![s] = k, ![big] = @ - k]
        /\ is_use' = [is_use EXCEPT ![s] = TRUE, ![big] = FALSE]
        /\ span_lists' = [[span_lists EXCEPT ![i] = Tail(@)]
                            EXCEPT ![RestBucket(i, k)] = <<big>> \o @]
        /\ id_span_map' = SplitMap(id_span_map, page_id[big] + k, k, s, big)
        /\ Give(t, page_id[big], k)
  BY <1>1, <1>2, <1>4 DEF NewSplit
<1>6. mapped' = mapped
  BY DEF NewSplit
<1>7. /\ Tail(span_lists[i]) \in Seq(Spans)
      /\ Members(span_lists[i]) = Members(Tail(span_lists[i])) \cup {big}
      /\ Distinct(Tail(span_lists[i])) /\ big \notin Members(Tail(span_lists[i]))
  <2>1. Distinct(span_lists[i])
    BY <1>3 DEF IInv, ListsOK
  <2> QED BY <2>1, <1>0, <1>3, <1>4, MembersTail, DistinctTail
<1>8. /\ big \in live /\ big # s /\ ~is_use[big] /\ n[big] = i
      /\ i \in Pages /\ page_id[big] \in Pages /\ page_id[big] + i <= LastPage + 1
      /\ \A u \in Threads : Freeing(u) => call[u].span # big
  BY <1>3, <1>5, <1>7, ListedOK
<1>9. PICK f \in Nat : /\ f = page_id[big] /\ f >= 1 /\ f \in Pages
                       /\ f + i <= LastPage + 1 /\ i <= LastPage
  BY <1>0, <1>8 DEF Pages
<1>a. /\ f + k \in 0..LastPage /\ i - k \in 0..LastPage /\ k \in 0..LastPage
      /\ (f + k) - k = f
      /\ \A p \in Ends(f + k, i - k) : f + k <= p /\ p < f + i /\ p \in Nat
      /\ \A p \in f..(f + k - 1) : p \in 0..(LastPage + 1) /\ p \in Nat /\ f <= p /\ p < f + k
  <2>1. k \in Nat /\ k > 0 /\ i \in Nat /\ i > k /\ LastPage \in Nat
    BY <1>0, <1>1, <1>3
  <2> QED BY <2>1, <1>9, SplitNumbers DEF Ends
<1>10. PICK j \in Buckets : /\ j = RestBucket(i, k) /\ j = i - k /\ j # i
                            /\ j \in Nat /\ j > 0 /\ j < i
  BY <1>0, <1>1, <1>3 DEF Buckets
<1>11. /\ page_id'[s] = f /\ n'[s] = k /\ is_use'[s] = TRUE
       /\ page_id'[big] = f + k /\ n'[big] = i - k /\ is_use'[big] = FALSE
       /\ \A q \in Spans : q # s /\ q # big =>
            page_id'[q] = page_id[q] /\ n'[q] = n[q] /\ is_use'[q] = is_use[q]
       /\ page_id' \in [Spans -> 0..LastPage] /\ n' \in [Spans -> 0..LastPage]
       /\ is_use' \in [Spans -> BOOLEAN]
  <2>1. f + k \in 0..LastPage /\ i - k \in 0..LastPage /\ k \in 0..LastPage
    BY <1>a
  <2>2. page_id \in [Spans -> 0..LastPage] /\ n \in [Spans -> 0..LastPage]
        /\ is_use \in [Spans -> BOOLEAN]
    BY DEF IInv, TypeOK
  <2>3. page_id'[big] = page_id[big] + k /\ page_id'[s] = page_id[big]
        /\ \A q \in Spans : q # s /\ q # big => page_id'[q] = page_id[q]
    BY <1>5, <1>8, <2>2
  <2>4. n'[big] = n[big] - k /\ n'[s] = k
        /\ \A q \in Spans : q # s /\ q # big => n'[q] = n[q]
    BY <1>5, <1>8, <2>2
  <2>5. is_use'[big] = FALSE /\ is_use'[s] = TRUE
        /\ \A q \in Spans : q # s /\ q # big => is_use'[q] = is_use[q]
    BY <1>5, <1>8, <2>2
  <2>6. page_id' \in [Spans -> 0..LastPage]
    BY <1>5, <1>8, <1>9, <2>1, <2>2
  <2>7. n' \in [Spans -> 0..LastPage]
    BY <1>5, <1>8, <2>1, <2>2
  <2>8. is_use' \in [Spans -> BOOLEAN]
    BY <1>5, <2>2
  <2> QED BY <2>3, <2>4, <2>5, <2>6, <2>7, <2>8, <1>8, <1>9
<1>12. /\ call' \in [Threads -> Calls]
       /\ page_mtx' = None /\ stage' = "idle" /\ LockOK'
       /\ \A u \in Threads : Freeing(u)' => Freeing(u) /\ u # t /\ call'[u] = call[u]
  BY <1>5, ReturnOK DEF Give
<1>13. big \notin Members(span_lists[j]) /\ Distinct(span_lists[j]) /\ span_lists[j] \in Seq(Spans)
  BY <1>0, <1>8, <1>10 DEF IInv, ListsOK
<1>14. /\ <<big>> \o span_lists[j] \in Seq(Spans)
       /\ Members(<<big>> \o span_lists[j]) = Members(span_lists[j]) \cup {big}
       /\ Distinct(<<big>> \o span_lists[j])
  BY <1>13, PushFront
<1>15. /\ span_lists' \in [Buckets -> Seq(Spans)]
       /\ span_lists'[i] = Tail(span_lists[i])
       /\ span_lists'[j] = <<big>> \o span_lists[j]
       /\ \A x \in Buckets : x # i /\ x # j => span_lists'[x] = span_lists[x]
  <2> DEFINE popped == [span_lists EXCEPT ![i] = Tail(@)]
  <2>1. /\ popped \in [Buckets -> Seq(Spans)] /\ popped[i] = Tail(span_lists[i])
        /\ \A x \in Buckets : x # i => popped[x] = span_lists[x]
    BY <1>0, <1>3, <1>7
  <2>2. span_lists' = [popped EXCEPT ![j] = <<big>> \o @]
    BY <1>5, <1>10
  <2> HIDE DEF popped
  <2> QED BY <2>1, <2>2, <1>3, <1>10, <1>14
<1>16. \A p \in Nat : /\ Owns(s, p)' <=> f <= p /\ p < f + k
                      /\ Owns(big, p)' <=> f + k <= p /\ p < f + i
                      /\ Owns(big, p) <=> f <= p /\ p < f + i
  BY <1>1, <1>3, <1>8, <1>9, <1>11, SMTT(30) DEF Owns
<1>17. \A q \in live, p \in Nat : q # big => (Owns(q, p)' <=> Owns(q, p))
  BY <1>0, <1>5, <1>11 DEF Owns
<1>18. \A q \in live, p \in Nat : q # big /\ Owns(q, p) => ~(f <= p /\ p < f + i)
  BY <1>8, <1>16, OneOwner
<1>19. /\ id_span_map' \in [0..(LastPage + 1) -> Spans \cup {None}]
       /\ \A p \in 0..(LastPage + 1) :
            /\ Owns(s, p)' => id_span_map'[p] = s
            /\ ~Owns(s, p)' => \/ id_span_map'[p] = id_span_map[p]
                               \/ id_span_map'[p] = big /\ Owns(big, p)'
            /\ ~Owns(s, p)' /\ ~Owns(big, p)' => id_span_map'[p] = id_span_map[p]
  <2>1. Run((f + k) - k, k) = {p \in Nat : f <= p /\ p < f + k}
    BY <1>1, <1>9, <1>a DEF Run
  <2>2. \A p \in Ends(f + k, i - k) : f + k <= p /\ p < f + i /\ p \in Nat
    BY <1>a
  <2> DEFINE m1 == SetRange(id_span_map, Ends(f + k, i - k), big)
  <2>3. /\ m1 \in [0..(LastPage + 1) -> Spans \cup {None}]
        /\ \A p \in 0..(LastPage + 1) :
             m1[p] = IF p \in Ends(f + k, i - k) THEN big ELSE id_span_map[p]
    BY DEF IInv, TypeOK, SetRange
  <2>4. id_span_map' = SetRange(m1, Run((f + k) - k, k), s)
    <3>1. id_span_map' = SplitMap(id_span_map, f + k, k, s, big) /\ n[big] = i
      BY <1>5, <1>8, <1>9
    <3>2. id_span_map' = SetRange(SetRange(id_span_map, Ends(f + k, n[big] - k), big),
                                  Run((f + k) - k, k), s)
      BY <3>1, Zenon DEF SplitMap
    <3> QED BY <3>1, <3>2, Zenon
  <2> HIDE DEF m1
  <2>5. /\ id_span_map' \in [0..(LastPage + 1) -> Spans \cup {None}]
        /\ \A p \in 0..(LastPage + 1) :
             id_span_map'[p] = IF f <= p /\ p < f + k THEN s ELSE m1[p]
    BY <2>1, <2>3, <2>4, <1>0 DEF SetRange
  <2> QED BY <2>2, <2>3, <2>5, <1>16, <1>0
<1>20. TypeOK'
  <2>1. [first |-> page_id[big], n |-> k] \in [first : Pages, n : Pages]
    BY <1>0, <1>1, <1>3, <1>8 DEF Pages
  <2> QED BY <2>1, <1>0, <1>5, <1>6, <1>11, <1>12, <1>15, <1>19 DEF Give, IInv, TypeOK
<1>21. DeadOK'
  BY <1>5, <1>8, <1>11 DEF IInv, DeadOK
<1>22. PartOK'
  <2>0. Pages \subseteq Nat /\ mapped \subseteq Pages
    BY DEF Pages, IInv, TypeOK
  <2>1. ASSUME NEW q \in live', n'[q] > 0
        PROVE  page_id'[q] >= 1 /\ page_id'[q] + n'[q] <= LastPage + 1
    <3>1. CASE q = s \/ q = big
      <4>1. f + k <= LastPage + 1 /\ (f + k) + (i - k) <= LastPage + 1 /\ f + k >= 1
        <5>1. i \in Nat /\ k \in Nat /\ f \in Nat /\ LastPage \in Nat
              /\ i > k /\ f >= 1 /\ f + i <= LastPage + 1
          BY <1>0, <1>1, <1>3, <1>8, <1>9
        <5> QED BY <5>1
      <4> QED BY <3>1, <4>1, <1>9, <1>11
    <3>2. CASE q # s /\ q # big
      BY <3>2, <2>1, <1>0, <1>5, <1>11 DEF IInv, PartOK
    <3> QED BY <3>1, <3>2
  <2>2. ASSUME NEW q \in live', NEW o \in live', NEW p \in Pages, Owns(q, p)', Owns(o, p)'
        PROVE  q = o
    <3>0. p \in Nat
      BY <2>0
    <3>1. CASE q = s \/ q = big
      <4>1. f <= p /\ p < f + i
        BY <3>0, <3>1, <2>2, <1>1, <1>3, <1>9, <1>16
      <4>2. o = s \/ o = big
        BY <4>1, <3>0, <2>2, <1>5, <1>17, <1>18
      <4> QED BY <3>0, <3>1, <4>2, <2>2, <1>1, <1>9, <1>16
    <3>2. CASE q # s /\ q # big
      <4>1. q \in live /\ Owns(q, p) /\ ~(f <= p /\ p < f + i)
        BY <3>0, <3>2, <2>2, <1>5, <1>17, <1>18
      <4>2. o # s /\ o # big
        BY <4>1, <3>0, <2>2, <1>1, <1>3, <1>9, <1>16
      <4> QED BY <4>1, <4>2, <3>0, <2>2, <1>5, <1>17 DEF IInv, PartOK
    <3> QED BY <3>1, <3>2
  <2>3. ASSUME NEW q \in live', NEW p \in Pages, Owns(q, p)'
        PROVE  p \in mapped'
    <3>1. q \in {s, big} => Owns(big, p)
      BY <2>0, <2>3, <1>1, <1>3, <1>9, <1>16, SMTT(30)
    <3>2. q \notin {s, big} => q \in live /\ Owns(q, p)
      BY <2>0, <2>3, <1>5, <1>17
    <3> QED BY <3>1, <3>2, <1>6, <1>8 DEF IInv, PartOK
  <2>4. ASSUME NEW p \in mapped' PROVE \E q \in live' : Owns(q, p)'
    <3>1. p \in Nat /\ \E q \in live : Owns(q, p)
      BY <2>0, <1>6 DEF IInv, PartOK
    <3>2. PICK q \in live : Owns(q, p)
      BY <3>1
    <3>3. CASE q = big
      BY <3>1, <3>2, <3>3, <1>1, <1>5, <1>8, <1>9, <1>16
    <3>4. CASE q # big
      BY <3>1, <3>2, <3>4, <1>5, <1>17
    <3> QED BY <3>3, <3>4
  <2> QED BY <2>1, <2>2, <2>3, <2>4 DEF PartOK
<1>23. MapOK'
  <2> SUFFICES ASSUME NEW p \in 0..(LastPage + 1), NEW o, o = id_span_map'[p], o # None
               PROVE  o \in live' /\ Owns(o, p)'
    BY DEF MapOK, Owns
  <2>0. p \in Nat
    BY <1>0
  <2>1. CASE Owns(s, p)'
    BY <2>1, <1>5, <1>19
  <2>2. CASE ~Owns(s, p)' /\ o = big /\ Owns(big, p)'
    BY <2>2, <1>5, <1>8
  <2>3. CASE ~Owns(s, p)' /\ o = id_span_map[p]
    <3>1. o \in live /\ Owns(o, p)
      BY <2>3 DEF IInv, MapOK
    <3>2. o = big => Owns(big, p)'
      BY <2>0, <2>3, <3>1, <1>1, <1>9, <1>16
    <3> QED BY <2>0, <3>1, <3>2, <1>5, <1>17
  <2> QED BY <2>1, <2>2, <2>3, <1>19
<1>24. ListsOK'
  <2>1. \A q \in live' : ~is_use'[q] => n'[q] <= NPAGES - 1
    <3>1. i - k <= NPAGES - 1
      BY <1>0, <1>10 DEF Buckets
    <3>2. \A q \in live : ~is_use[q] => n[q] <= NPAGES - 1
      BY DEF IInv, ListsOK
    <3> QED BY <3>1, <3>2, <1>0, <1>5, <1>11
  <2>2. \A x \in Buckets : Distinct(span_lists'[x])
    BY <1>7, <1>14, <1>15 DEF IInv, ListsOK
  <2>3. ASSUME NEW x \in Buckets
        PROVE  Members(span_lists'[x]) = {q \in live' : ~is_use'[q] /\ n'[q] = x}
    <3>1. Members(span_lists[x]) = {q \in live : ~is_use[q] /\ n[q] = x}
      BY DEF IInv, ListsOK
    <3>2. CASE x = i
      <4>1. n'[big] # i
        BY <1>10, <1>11
      <4>2. {q \in live' : ~is_use'[q] /\ n'[q] = i}
              = {q \in live : ~is_use[q] /\ n[q] = i} \ {big}
        BY <4>1, <1>0, <1>5, <1>8, <1>11
      <4> QED BY <3>1, <3>2, <4>2, <1>7, <1>15
    <3>3. CASE x = j
      <4>1. n'[big] = j
        BY <1>10, <1>11
      <4>2. {q \in live' : ~is_use'[q] /\ n'[q] = j}
              = {q \in live : ~is_use[q] /\ n[q] = j} \cup {big}
        BY <4>1, <1>0, <1>5, <1>8, <1>11
      <4> QED BY <3>1, <3>3, <4>2, <1>14, <1>15
    <3>4. CASE x # i /\ x # j
      BY <3>1, <3>4, <1>0, <1>5, <1>8, <1>10, <1>11, <1>15, SMTT(30)
    <3> QED BY <3>2, <3>3, <3>4
  <2> QED BY <2>1, <2>2, <2>3 DEF ListsOK
<1>25. \A u \in Threads : Freeing(u) => call[u].span \in live /\ call[u].span # s
  BY DEF IInv, FreeingOK
<1>26. FreeingOK'
  BY <1>0, <1>5, <1>8, <1>11, <1>12, <1>25, FreeingKept
<1>27. HeldOK'
  <2>1. ASSUME NEW r \in held PROVE \E q \in live' : SpanOfRun(q, r)'
    <3>1. PICK q \in live : SpanOfRun(q, r)
      BY DEF IInv, HeldOK
    <3>2. q # big /\ q # s
      BY <3>1, <1>8 DEF SpanOfRun
    <3>3. ASSUME NEW p \in Pages, Owns(q, p) PROVE id_span_map'[p] = id_span_map[p]
      <4>1. p \in 0..(LastPage + 1) /\ p \in Nat /\ ~(f <= p /\ p < f + i)
        BY <3>2, <3>3, <1>0, <1>18 DEF Pages
      <4>2. ~Owns(s, p)' /\ ~Owns(big, p)'
        BY <4>1, <1>1, <1>3, <1>9, <1>16
      <4> QED BY <4>1, <4>2, <1>19
    <3>4. SpanOfRun(q, r)'
      BY <3>1, <3>2, <3>3, <1>0, <1>11, <1>12, HeldKept
    <3> QED BY <3>4, <1>5
  <2>2. PICK r : r = [first |-> page_id[big], n |-> k]
    OBVIOUS
  <2>3. r.first = f /\ r.n = k /\ held' = held \cup {r}
    BY <2>2, <1>5, <1>9 DEF Give
  <2>4. LookedUp(r) = f..(f + k - 1) /\ LookedUp(r)' = LookedUp(r)
    BY <2>3, <1>0, <1>1 DEF LookedUp, Run
  <2>5. \A p \in LookedUp(r)' : id_span_map'[p] = s
    <3> SUFFICES ASSUME NEW p \in f..(f + k - 1) PROVE id_span_map'[p] = s
      BY <2>4
    <3>1. p \in 0..(LastPage + 1) /\ p \in Nat /\ f <= p /\ p < f + k
      BY <1>a
    <3> QED BY <3>1, <1>16, <1>19
  <2>6. SpanOfRun(s, r)'
    <3>1. \A u \in Threads : Freeing(u)' => call'[u].span # s
      BY <1>12, <1>25
    <3> QED BY <2>3, <2>5, <3>1, <1>11 DEF SpanOfRun
  <2> QED BY <2>1, <2>3, <2>6, <1>5 DEF HeldOK
<1> QED BY <1>12, <1>20, <1>21, <1>22, <1>23, <1>24, <1>26, <1>27 DEF IInv

(* A held run is not the run of a span that is being freed.                *)
LEMMA HeldNotFreed ==
  ASSUME ConstantsOK, IInv, NEW t \in Threads, Freeing(t),
         NEW r \in held, NEW q \in live, SpanOfRun(q, r)
  PROVE  /\ q # call[t].span
         /\ \A p \in Pages : Owns(q, p) => ~Owns(call[t].span, p)
<1>1. q # call[t].span /\ call[t].span \in live
  BY DEF SpanOfRun, IInv, FreeingOK
<1>2. \A p \in Pages : p \in Int
  BY DEF Pages
<1> QED BY <1>1, <1>2, OneOwner

(* A large span goes back to the system at once.                           *)
LEMMA ReleaseLargeOK ==
  ASSUME ConstantsOK, IInv, NEW t \in Threads, ReleaseLarge(t)
  PROVE  IInv'
<1>0. NPAGES \in Nat /\ NPAGES > 1 /\ live \subseteq Spans /\ LastPage \in Nat /\ mapped \subseteq Pages
      /\ Pages \subseteq Nat /\ page_id \in [Spans -> 0..LastPage] /\ n \in [Spans -> 0..LastPage]
      /\ is_use \in [Spans -> BOOLEAN]
  BY Numbers DEF IInv, TypeOK, Pages
<1>1. Freeing(t)
  BY DEF ReleaseLarge, Holds, Freeing
<1>2. PICK s \in live : s = call[t].span /\ is_use[s]
  BY <1>1 DEF IInv, FreeingOK
<1>3. /\ n[s] > NPAGES - 1
      /\ id_span_map' = Clear(id_span_map, s)
      /\ mapped' = mapped \ PagesOf(s)
      /\ live' = live \ {s}
      /\ page_id' = [page_id EXCEPT ![s] = 0]
      /\ n' = [n EXCEPT ![s] = 0]
      /\ is_use' = [is_use EXCEPT ![s] = FALSE]
      /\ Return(t)
      /\ UNCHANGED <<span_lists, held>>
  BY <1>2 DEF ReleaseLarge, Dealloc
<1>4. /\ call' \in [Threads -> Calls]
      /\ page_mtx' = None /\ stage' = "idle" /\ LockOK'
      /\ \A u \in Threads : Freeing(u)' => Freeing(u) /\ u # t /\ call'[u] = call[u]
  BY <1>3, ReturnOK
<1>5. /\ page_id' \in [Spans -> 0..LastPage] /\ n' \in [Spans -> 0..LastPage]
      /\ is_use' \in [Spans -> BOOLEAN] /\ live' \subseteq Spans /\ mapped' \subseteq Pages
      /\ n'[s] = 0 /\ is_use'[s] = FALSE
      /\ \A q \in Spans : q # s =>
           page_id'[q] = page_id[q] /\ n'[q] = n[q] /\ is_use'[q] = is_use[q]
  <2>1. s \in Spans /\ 0 \in 0..LastPage
    BY <1>0
  <2>2. page_id' \in [Spans -> 0..LastPage] /\ n' \in [Spans -> 0..LastPage]
    BY <2>1, <1>0, <1>3
  <2>3. is_use' \in [Spans -> BOOLEAN] /\ live' \subseteq Spans /\ mapped' \subseteq Pages
    BY <2>1, <1>0, <1>3
  <2> QED BY <2>1, <2>2, <2>3, <1>0, <1>3
<1>6. \A p \in Int : p \in PagesOf(s) <=> Owns(s, p)
  BY <1>0, OwnsPagesOf DEF IInv
<1>7. /\ id_span_map' \in [0..(LastPage + 1) -> Spans \cup {None}]
      /\ \A p \in 0..(LastPage + 1) :
           id_span_map'[p] = IF p \in PagesOf(s) THEN None ELSE id_span_map[p]
  BY <1>3 DEF IInv, TypeOK, SetRange, Clear
<1>8. TypeOK'
  BY <1>3, <1>4, <1>5, <1>7 DEF IInv, TypeOK
<1>9. DeadOK'
  BY <1>3, <1>5 DEF IInv, DeadOK
<1>10. \A q \in live', p \in Nat : (Owns(q, p)' <=> Owns(q, p)) /\ q \in live /\ q # s
  BY <1>0, <1>3, <1>5 DEF Owns
<1>11. PartOK'
  <2>1. \A q \in live' : n'[q] > 0 => page_id'[q] >= 1 /\ page_id'[q] + n'[q] <= LastPage + 1
    BY <1>0, <1>3, <1>5 DEF IInv, PartOK
  <2>2. ASSUME NEW q \in live', NEW o \in live', NEW p \in Pages, Owns(q, p)', Owns(o, p)'
        PROVE  q = o
    BY <2>2, <1>0, <1>10 DEF IInv, PartOK
  <2>3. ASSUME NEW q \in live', NEW p \in Pages, Owns(q, p)'
        PROVE  p \in mapped'
    <3>1. p \in mapped /\ ~Owns(s, p)
      BY <2>3, <1>0, <1>10 DEF IInv, PartOK
    <3> QED BY <3>1, <1>0, <1>3, <1>6
  <2>4. ASSUME NEW p \in mapped' PROVE \E q \in live' : Owns(q, p)'
    <3>1. p \in mapped /\ p \in Nat /\ ~Owns(s, p)
      BY <1>0, <1>3, <1>6
    <3>2. PICK q \in live : Owns(q, p)
      BY <3>1 DEF IInv, PartOK
    <3> QED BY <3>1, <3>2, <1>3, <1>10
  <2> QED BY <2>1, <2>2, <2>3, <2>4 DEF PartOK
<1>12. MapOK'
  <2> SUFFICES ASSUME NEW p \in 0..(LastPage + 1), NEW o, o = id_span_map'[p], o # None
               PROVE  o \in live' /\ Owns(o, p)'
    BY DEF MapOK, Owns
  <2>1. o = id_span_map[p] /\ ~Owns(s, p)
    BY <1>0, <1>6, <1>7
  <2>2. o \in live /\ Owns(o, p)
    BY <2>1 DEF IInv, MapOK
  <2> QED BY <2>1, <2>2, <1>0, <1>3, <1>10
<1>13. ListsOK'
  <2>1. \A q \in live' : ~is_use'[q] => n'[q] <= NPAGES - 1
    BY <1>0, <1>3, <1>5 DEF IInv, ListsOK
  <2>2. \A i \in Buckets : {q \in live' : ~is_use'[q] /\ n'[q] = i}
                             = {q \in live : ~is_use[q] /\ n[q] = i}
    BY <1>0, <1>2, <1>3, <1>5
  <2> QED BY <2>1, <2>2, <1>3 DEF IInv, ListsOK
<1>14. FreeingOK'
  <2>1. \A u \in Threads : Freeing(u) /\ u # t => call[u].span \in live /\ call[u].span # s
    BY <1>1, <1>2 DEF IInv, FreeingOK
  <2> QED BY <2>1, <1>0, <1>3, <1>4, <1>5, FreeingKept
<1>15. HeldOK'
  <2> SUFFICES ASSUME NEW r \in held PROVE \E q \in live' : SpanOfRun(q, r)'
    BY <1>3 DEF HeldOK
  <2>1. PICK q \in live : SpanOfRun(q, r)
    BY DEF IInv, HeldOK
  <2>2. q # s /\ \A p \in Pages : Owns(q, p) => ~Owns(s, p)
    BY <2>1, <1>1, <1>2, HeldNotFreed
  <2>3. \A p \in Pages : p \in 0..(LastPage + 1) /\ p \in Int
    BY <1>0 DEF Pages
  <2>4. \A p \in Pages : Owns(q, p) => id_span_map'[p] = id_span_map[p]
    BY <2>2, <2>3, <1>6, <1>7
  <2>5. SpanOfRun(q, r)'
    BY <2>1, <2>2, <2>4, <1>0, <1>4, <1>5, HeldKept
  <2> QED BY <2>2, <2>5, <1>3
<1> QED BY <1>4, <1>8, <1>9, <1>11, <1>12, <1>13, <1>14, <1>15 DEF IInv

(* release_span clears the page map of the span it has been given.         *)
LEMMA ReleaseBeginOK ==
  ASSUME ConstantsOK, IInv, NEW t \in Threads, ReleaseBegin(t)
  PROVE  IInv'
<1>0. LastPage \in Nat /\ live \subseteq Spans
  BY Numbers DEF IInv, TypeOK
<1>1. Freeing(t)
  BY DEF ReleaseBegin, Holds, Freeing
<1>2. PICK s \in live : s = call[t].span /\ is_use[s]
  BY <1>1 DEF IInv, FreeingOK
<1>3. /\ n[s] <= NPAGES - 1 /\ stage' = "prev" /\ stage = "free" /\ page_mtx = t
      /\ id_span_map' = Clear(id_span_map, s)
      /\ UNCHANGED <<page_id, n, is_use, live, span_lists, mapped, page_mtx, call, held>>
  BY <1>2 DEF ReleaseBegin, Holds, svars
<1>4. \A p \in Int : p \in PagesOf(s) <=> Owns(s, p)
  BY <1>0, OwnsPagesOf DEF IInv
<1>5. /\ id_span_map' \in [0..(LastPage + 1) -> Spans \cup {None}]
      /\ \A p \in 0..(LastPage + 1) :
           id_span_map'[p] = IF p \in PagesOf(s) THEN None ELSE id_span_map[p]
  BY <1>3 DEF IInv, TypeOK, SetRange, Clear
<1>6. TypeOK'
  BY <1>3, <1>5 DEF IInv, TypeOK
<1>7. DeadOK' /\ PartOK' /\ ListsOK'
  BY <1>3 DEF IInv, DeadOK, PartOK, ListsOK, Owns
<1>8. MapOK'
  BY <1>3, <1>5 DEF IInv, MapOK, Owns
<1>9. LockOK'
  BY <1>1, <1>3 DEF LockOK, Freeing, ConstantsOK
<1>10. \A u \in Threads : Freeing(u)' <=> Freeing(u)
  BY <1>3 DEF Freeing
<1>11. FreeingOK'
  BY <1>2, <1>3, <1>10 DEF IInv, FreeingOK
<1>12. HeldOK'
  <2> SUFFICES ASSUME NEW r \in held PROVE \E q \in live' : SpanOfRun(q, r)'
    BY <1>3 DEF HeldOK
  <2>1. PICK q \in live : SpanOfRun(q, r)
    BY DEF IInv, HeldOK
  <2>2. q # s /\ \A p \in Pages : Owns(q, p) => ~Owns(s, p)
    BY <2>1, <1>1, <1>2, HeldNotFreed
  <2>3. \A p \in Pages : p \in 0..(LastPage + 1) /\ p \in Int
    BY <1>0 DEF Pages
  <2>4. \A p \in Pages : Owns(q, p) => id_span_map'[p] = id_span_map[p]
    BY <2>2, <2>3, <1>4, <1>5
  <2>5. SpanOfRun(q, r)'
    BY <2>1, <2>2, <2>4, <1>0, <1>3, <1>10, HeldKept
  <2> QED BY <2>5, <1>3
<1> QED BY <1>6, <1>7, <1>8, <1>9, <1>11, <1>12 DEF IInv

(* The search for a free span before the released one ends.                *)
LEMMA EndPrevOK ==
  ASSUME ConstantsOK, IInv, NEW t \in Threads, EndPrev(t)
  PROVE  IInv'
<1>1. /\ stage = "prev" /\ stage' = "next" /\ Freeing(t) /\ page_mtx = t
      /\ UNCHANGED <<page_id, n, is_use, live, span_lists, id_span_map, mapped, page_mtx, call, held>>
  BY DEF EndPrev, Holds, svars, Freeing
<1>2. TypeOK'
  BY <1>1 DEF IInv, TypeOK
<1>3. DeadOK' /\ PartOK' /\ MapOK' /\ ListsOK'
  BY <1>1 DEF IInv, DeadOK, PartOK, MapOK, ListsOK, Owns
<1>4. LockOK'
  BY <1>1 DEF IInv, LockOK
<1>5. FreeingOK' /\ HeldOK'
  BY <1>1 DEF IInv, FreeingOK, HeldOK, Freeing, SpanOfRun, LookedUp
<1> QED BY <1>2, <1>3, <1>4, <1>5 DEF IInv

(* The span leaves the call for the bucket of its size.                    *)
LEMMA ReleaseEndOK ==
  ASSUME ConstantsOK, IInv, NEW t \in Threads, ReleaseEnd(t)
  PROVE  IInv'
<1>0. NPAGES \in Nat /\ NPAGES > 1 /\ live \subseteq Spans /\ LastPage \in Nat
      /\ span_lists \in [Buckets -> Seq(Spans)]
  BY Numbers DEF IInv, TypeOK
<1>1. Freeing(t) /\ stage = "next" /\ page_mtx = t
  BY DEF ReleaseEnd, Holds, Freeing
<1>2. PICK s \in live : s = call[t].span /\ is_use[s] /\ n[s] > 0 /\ n[s] <= NPAGES - 1
  BY <1>1 DEF IInv, FreeingOK
<1>3. PICK k \in Buckets : k = n[s] /\ k \in Nat /\ k > 0
  BY <1>0, <1>2, Numbers DEF Buckets, IInv
<1>4. /\ span_lists' = [span_lists EXCEPT ![k] = <<s>> \o @]
      /\ id_span_map' = SetRange(id_span_map, Ends(page_id[s], n[s]), s)
      /\ is_use' = [is_use EXCEPT ![s] = FALSE]
      /\ Return(t)
      /\ UNCHANGED <<page_id, n, live, mapped, held>>
  BY <1>2, <1>3 DEF ReleaseEnd
<1>5. /\ call' \in [Threads -> Calls]
      /\ page_mtx' = None /\ stage' = "idle" /\ LockOK'
      /\ \A u \in Threads : Freeing(u)' => Freeing(u) /\ u # t /\ call'[u] = call[u]
  BY <1>4, ReturnOK
<1>6. s \notin Members(span_lists[k]) /\ Distinct(span_lists[k]) /\ span_lists[k] \in Seq(Spans)
  BY <1>0, <1>2 DEF IInv, ListsOK
<1>7. /\ <<s>> \o span_lists[k] \in Seq(Spans)
      /\ Members(<<s>> \o span_lists[k]) = Members(span_lists[k]) \cup {s}
      /\ Distinct(<<s>> \o span_lists[k])
  BY <1>0, <1>6, PushFront
<1>8. /\ span_lists' \in [Buckets -> Seq(Spans)]
      /\ span_lists'[k] = <<s>> \o span_lists[k]
      /\ \A i \in Buckets : i # k => span_lists'[i] = span_lists[i]
  BY <1>0, <1>4, <1>7
<1>9. is_use' \in [Spans -> BOOLEAN] /\ is_use'[s] = FALSE
      /\ \A q \in Spans : q # s => is_use'[q] = is_use[q]
  BY <1>0, <1>4 DEF IInv, TypeOK
<1>10. /\ id_span_map' \in [0..(LastPage + 1) -> Spans \cup {None}]
       /\ \A p \in 0..(LastPage + 1) :
            id_span_map'[p] = IF p \in Ends(page_id[s], n[s]) THEN s ELSE id_span_map[p]
  BY <1>0, <1>4 DEF IInv, TypeOK, SetRange
<1>11. \A p \in Ends(page_id[s], n[s]) : Owns(s, p)
  BY <1>0, <1>2, Numbers DEF Ends, Owns, IInv
<1>12. \A q \in Spans, p \in Nat : Owns(q, p)' <=> Owns(q, p)
  BY <1>4 DEF Owns
<1>13. TypeOK'
  BY <1>4, <1>5, <1>8, <1>9, <1>10 DEF IInv, TypeOK
<1>14. DeadOK' /\ PartOK'
  BY <1>0, <1>4, <1>9 DEF IInv, DeadOK, PartOK, Owns
<1>15. MapOK'
  <2> SUFFICES ASSUME NEW p \in 0..(LastPage + 1), NEW o, o = id_span_map'[p], o # None
               PROVE  o \in live' /\ Owns(o, p)'
    BY DEF MapOK, Owns
  <2>1. o \in live /\ Owns(o, p)
    BY <1>10, <1>11 DEF IInv, MapOK
  <2>2. p \in Nat /\ live' = live /\ o \in Spans
    BY <2>1, <1>0, <1>4
  <2> QED BY <2>1, <2>2, <1>12
<1>16. ListsOK'
  <2>1. \A q \in live' : ~is_use'[q] => n'[q] <= NPAGES - 1
    BY <1>0, <1>2, <1>4, <1>9 DEF IInv, ListsOK
  <2>2. \A i \in Buckets : Distinct(span_lists'[i])
    BY <1>7, <1>8 DEF IInv, ListsOK
  <2>3. ASSUME NEW i \in Buckets
        PROVE  Members(span_lists'[i]) = {q \in live' : ~is_use'[q] /\ n'[q] = i}
    <3>1. Members(span_lists[i]) = {q \in live : ~is_use[q] /\ n[q] = i}
      BY DEF IInv, ListsOK
    <3>2. CASE i = k
      <4>1. Members(span_lists'[k]) = Members(span_lists[k]) \cup {s}
        BY <1>7, <1>8
      <4>2. live' = live /\ n' = n
        BY <1>4
      <4>3. {q \in live : ~is_use'[q] /\ n[q] = k}
              = {q \in live : ~is_use[q] /\ n[q] = k} \cup {s}
        BY <1>0, <1>3, <1>9
      <4> QED BY <3>1, <3>2, <4>1, <4>2, <4>3
    <3>3. CASE i # k
      BY <3>1, <3>3, <1>0, <1>2, <1>3, <1>4, <1>8, <1>9
    <3> QED BY <3>2, <3>3
  <2> QED BY <2>1, <2>2, <2>3 DEF ListsOK
<1>17. FreeingOK'
  <2>1. \A u \in Threads : Freeing(u) /\ u # t => call[u].span \in live /\ call[u].span # s
    BY <1>1, <1>2 DEF IInv, FreeingOK
  <2> QED BY <2>1, <1>0, <1>4, <1>5, <1>9, FreeingKept
<1>18. HeldOK'
  <2> SUFFICES ASSUME NEW r \in held PROVE \E q \in live' : SpanOfRun(q, r)'
    BY <1>4 DEF HeldOK
  <2>1. PICK q \in live : SpanOfRun(q, r)
    BY DEF IInv, HeldOK
  <2>2. q # s /\ \A p \in Pages : Owns(q, p) => ~Owns(s, p)
    BY <2>1, <1>1, <1>2, HeldNotFreed
  <2>3. \A p \in Pages : p \in 0..(LastPage + 1)
    BY <1>0 DEF Pages
  <2>4. \A p \in Pages : Owns(q, p) => id_span_map'[p] = id_span_map[p]
    BY <2>2, <2>3, <1>10, <1>11
  <2>5. SpanOfRun(q, r)'
    BY <2>1, <2>2, <2>4, <1>0, <1>4, <1>5, <1>9, HeldKept
  <2> QED BY <2>5, <1>4
<1> QED BY <1>5, <1>13, <1>14, <1>15, <1>16, <1>17, <1>18 DEF IInv

-----------------------------------------------------------------------------
(* Coalescing                                                              *)

(* One turn of a coalescing loop: s takes over the pages of the free span  *)
(* q, which lie beside its own and begin with s's at first.                *)
LEMMA MergeOK ==
  ASSUME ConstantsOK, IInv, NEW t \in Threads, Freeing(t), page_mtx = t,
         stage \in {"prev", "next"},
         NEW s \in live, s = call[t].span,
         NEW q \in live, q # s, ~is_use[q], n[q] > 0, n[q] + n[s] <= NPAGES - 1,
         NEW first \in Nat, first >= 1, first + (n[s] + n[q]) <= LastPage + 1,
         \A p \in Nat : first <= p /\ p < first + (n[s] + n[q]) <=> Owns(s, p) \/ Owns(q, p),
         Merge(s, q, first)
  PROVE  IInv'
<1>0. NPAGES \in Nat /\ NPAGES > 1 /\ live \subseteq Spans /\ LastPage \in Nat
      /\ span_lists \in [Buckets -> Seq(Spans)] /\ mapped \subseteq Pages /\ Pages \subseteq Nat
      /\ page_id \in [Spans -> 0..LastPage] /\ n \in [Spans -> 0..LastPage]
  BY Numbers, SMTT(30) DEF IInv, TypeOK, Pages
<1>1. s \in Spans /\ q \in Spans /\ n[s] \in Nat /\ n[q] \in Nat /\ n[s] > 0 /\ is_use[s]
  BY <1>0 DEF IInv, FreeingOK
<1>2. PICK k \in Buckets : k = n[q]
  BY <1>0, <1>1 DEF Buckets
<1>3. PICK m \in Nat : m = n[s] + n[q] /\ m \in 0..LastPage /\ first \in 0..LastPage /\ m > 0
  BY <1>0, <1>1
<1>4. /\ live' = live \ {q}
      /\ page_id' = [[page_id EXCEPT ![s] = first] EXCEPT ![q] = 0]
      /\ n' = [[n EXCEPT ![s] = m] EXCEPT ![q] = 0]
      /\ id_span_map' = Clear(id_span_map, q)
      /\ span_lists' = [span_lists EXCEPT ![k] = Erased(@, q)]
      /\ UNCHANGED <<is_use, mapped, page_mtx, call, stage, held>>
  BY <1>0, <1>1, <1>2, <1>3 DEF Merge, Dealloc
<1>5. /\ page_id' \in [Spans -> 0..LastPage]
      /\ page_id'[s] = first /\ \A o \in Spans : o # s /\ o # q => page_id'[o] = page_id[o]
  <2> DEFINE a == [page_id EXCEPT ![s] = first]
  <2>1. /\ a \in [Spans -> 0..LastPage] /\ a[s] = first
        /\ \A o \in Spans : o # s => a[o] = page_id[o]
    BY <1>0, <1>1, <1>3
  <2>2. page_id' = [a EXCEPT ![q] = 0]
    BY <1>4
  <2> HIDE DEF a
  <2> QED BY <2>1, <2>2, <1>0, <1>1
<1>6. /\ n' \in [Spans -> 0..LastPage]
      /\ n'[s] = m /\ n'[q] = 0 /\ \A o \in Spans : o # s /\ o # q => n'[o] = n[o]
  <2> DEFINE a == [n EXCEPT ![s] = m]
  <2>1. /\ a \in [Spans -> 0..LastPage] /\ a[s] = m
        /\ \A o \in Spans : o # s => a[o] = n[o]
    BY <1>0, <1>1, <1>3
  <2>2. n' = [a EXCEPT ![q] = 0]
    BY <1>4
  <2> HIDE DEF a
  <2> QED BY <2>1, <2>2, <1>0, <1>1
<1>7. \A p \in Int : p \in PagesOf(q) <=> Owns(q, p)
  BY <1>0, OwnsPagesOf DEF IInv
<1>8. /\ id_span_map' \in [0..(LastPage + 1) -> Spans \cup {None}]
      /\ \A p \in 0..(LastPage + 1) :
           id_span_map'[p] = IF p \in PagesOf(q) THEN None ELSE id_span_map[p]
  BY <1>4 DEF IInv, TypeOK, SetRange, Clear
<1>9. /\ Erased(span_lists[k], q) \in Seq(Spans) /\ Distinct(Erased(span_lists[k], q))
      /\ Members(Erased(span_lists[k], q)) = Members(span_lists[k]) \ {q}
  <2>1. Distinct(span_lists[k]) /\ span_lists[k] \in Seq(Spans)
    BY <1>0 DEF IInv, ListsOK
  <2> QED BY <2>1, ErasedOK
<1>10. /\ span_lists' \in [Buckets -> Seq(Spans)]
       /\ span_lists'[k] = Erased(span_lists[k], q)
       /\ \A i \in Buckets : i # k => span_lists'[i] = span_lists[i]
  BY <1>0, <1>4, <1>9
<1>11. TypeOK'
  BY <1>0, <1>4, <1>5, <1>6, <1>8, <1>10 DEF IInv, TypeOK
<1>12. \A p \in Nat : Owns(s, p)' <=> Owns(s, p) \/ Owns(q, p)
  BY <1>3, <1>5, <1>6 DEF Owns
<1>13. \A o \in live', p \in Nat : o \in live /\ o # q /\ (o # s => (Owns(o, p)' <=> Owns(o, p)))
  BY <1>0, <1>4, <1>5, <1>6 DEF Owns
<1>14. DeadOK'
  BY <1>4, <1>6 DEF IInv, DeadOK
<1>15. PartOK'
  <2>1. \A o \in live' : n'[o] > 0 => page_id'[o] >= 1 /\ page_id'[o] + n'[o] <= LastPage + 1
    BY <1>0, <1>3, <1>4, <1>5, <1>6 DEF IInv, PartOK
  <2>2. ASSUME NEW o \in live', NEW x \in live', NEW p \in Pages, Owns(o, p)', Owns(x, p)'
        PROVE  o = x
    <3>1. p \in Nat
      BY <1>0
    <3>2. \E y \in live : Owns(y, p) /\ (o # s => y = o) /\ (o = s => y \in {s, q})
      BY <3>1, <2>2, <1>12, <1>13
    <3>3. \E y \in live : Owns(y, p) /\ (x # s => y = x) /\ (x = s => y \in {s, q})
      BY <3>1, <2>2, <1>12, <1>13
    <3> QED BY <3>1, <3>2, <3>3, <1>13 DEF IInv, PartOK
  <2>3. ASSUME NEW o \in live', NEW p \in Pages, Owns(o, p)'
        PROVE  p \in mapped'
    BY <2>3, <1>0, <1>4, <1>12, <1>13 DEF IInv, PartOK
  <2>4. ASSUME NEW p \in mapped' PROVE \E o \in live' : Owns(o, p)'
    <3>1. p \in mapped /\ p \in Nat
      BY <1>0, <1>4
    <3>2. PICK o \in live : Owns(o, p)
      BY <3>1 DEF IInv, PartOK
    <3> QED BY <3>1, <3>2, <1>4, <1>12, <1>13
  <2> QED BY <2>1, <2>2, <2>3, <2>4 DEF PartOK
<1>16. MapOK'
  <2> SUFFICES ASSUME NEW p \in 0..(LastPage + 1), NEW o, o = id_span_map'[p], o # None
               PROVE  o \in live' /\ Owns(o, p)'
    BY DEF MapOK, Owns
  <2>1. o = id_span_map[p] /\ ~Owns(q, p)
    BY <1>0, <1>7, <1>8
  <2>2. o \in live /\ Owns(o, p)
    BY <2>1 DEF IInv, MapOK
  <2>3. o # q /\ o \in live' /\ p \in Nat
    BY <2>1, <2>2, <1>0, <1>4
  <2>4. CASE o = s
    BY <2>2, <2>3, <2>4, <1>12
  <2>5. CASE o # s
    BY <2>2, <2>3, <2>5, <1>13
  <2> QED BY <2>3, <2>4, <2>5
<1>17. ListsOK'
  <2>1. \A o \in live' : ~is_use'[o] => n'[o] <= NPAGES - 1
    BY <1>0, <1>1, <1>4, <1>6 DEF IInv, ListsOK
  <2>2. \A i \in Buckets : Distinct(span_lists'[i])
    BY <1>9, <1>10 DEF IInv, ListsOK
  <2>3. ASSUME NEW i \in Buckets
        PROVE  Members(span_lists'[i]) = {o \in live' : ~is_use'[o] /\ n'[o] = i}
    <3>1. Members(span_lists[i]) = {o \in live : ~is_use[o] /\ n[o] = i}
      BY DEF IInv, ListsOK
    <3>2. {o \in live' : ~is_use'[o] /\ n'[o] = i} = {o \in live : ~is_use[o] /\ n[o] = i} \ {q}
      BY <1>0, <1>1, <1>4, <1>6, SMTT(30)
    <3>3. CASE i = k
      BY <3>1, <3>2, <3>3, <1>9, <1>10
    <3>4. CASE i # k
      BY <3>1, <3>2, <3>4, <1>2, <1>10
    <3> QED BY <3>3, <3>4
  <2> QED BY <2>1, <2>2, <2>3 DEF ListsOK
<1>18. LockOK'
  BY <1>4 DEF IInv, LockOK
<1>19. \A u \in Threads : Freeing(u)' <=> Freeing(u)
  BY <1>4 DEF Freeing
<1>20. FreeingOK'
  <2> SUFFICES ASSUME NEW u \in Threads, Freeing(u)
               PROVE  /\ call'[u].span \in live' /\ is_use'[call'[u].span] /\ n'[call'[u].span] > 0
                      /\ page_mtx' = u /\ stage' \in {"prev", "next"} => n'[call'[u].span] <= NPAGES - 1
                      /\ \A v \in Threads : Freeing(v)' /\ call'[v].span = call'[u].span => v = u
    BY <1>19 DEF FreeingOK
  <2>1. /\ call[u].span \in live /\ is_use[call[u].span] /\ n[call[u].span] > 0
        /\ \A v \in Threads : Freeing(v) /\ call[v].span = call[u].span => v = u
    BY DEF IInv, FreeingOK
  <2>2. CASE u = t
    BY <2>1, <2>2, <1>0, <1>3, <1>4, <1>6, <1>19
  <2>3. CASE u # t
    BY <2>1, <2>3, <1>0, <1>4, <1>6, <1>19
  <2> QED BY <2>2, <2>3
<1>21. HeldOK'
  <2> SUFFICES ASSUME NEW r \in held PROVE \E o \in live' : SpanOfRun(o, r)'
    BY <1>4 DEF HeldOK
  <2>1. PICK o \in live : SpanOfRun(o, r)
    BY DEF IInv, HeldOK
  <2>2. o # s /\ o # q
    BY <2>1, HeldNotFreed DEF SpanOfRun
  <2>3. \A p \in Pages : p \in 0..(LastPage + 1) /\ p \in Int
    BY <1>0 DEF Pages
  <2>4. ASSUME NEW p \in Pages, Owns(o, p) PROVE id_span_map'[p] = id_span_map[p]
    <3>1. ~Owns(q, p)
      BY <2>2, <2>3, <2>4, OneOwner
    <3> QED BY <3>1, <2>3, <1>7, <1>8
  <2>5. SpanOfRun(o, r)'
    BY <2>1, <2>2, <2>4, <1>0, <1>4, <1>5, <1>6, <1>19, HeldKept
  <2> QED BY <2>2, <2>5, <1>4
<1> QED BY <1>11, <1>14, <1>15, <1>16, <1>17, <1>18, <1>20, <1>21 DEF IInv

(* What the map gives for a page next to s is a span that ends, or begins, *)
(* exactly there: the two together are one run.                            *)
LEMMA Neighbours ==
  ASSUME ConstantsOK, IInv, NEW s \in live, n[s] > 0, NEW p, Mergeable(p, s),
         NEW q, q = id_span_map[p], p = page_id[s] - 1 \/ p = page_id[s] + n[s]
  PROVE  /\ q \in live /\ q # s /\ ~is_use[q] /\ n[q] > 0 /\ n[q] + n[s] <= NPAGES - 1
         /\ p = page_id[s] - 1 => page_id[q] + n[q] = page_id[s]
         /\ p = page_id[s] + n[s] => page_id[q] = page_id[s] + n[s]
<1>0. /\ LastPage \in Nat /\ page_id[s] \in Nat /\ n[s] \in Nat
      /\ page_id[s] >= 1 /\ page_id[s] + n[s] <= LastPage + 1
  BY Numbers DEF IInv, PartOK, TypeOK
<1>1. p \in 0..(LastPage + 1) /\ p \in Int
  BY <1>0
<1>2. q # None /\ ~is_use[q] /\ n[q] + n[s] <= NPAGES - 1
  BY DEF Mergeable
<1>3. q \in live /\ Owns(q, p)
  BY <1>1, <1>2 DEF IInv, MapOK
<1>4. page_id[q] \in Nat /\ n[q] \in Nat
  BY <1>3, Numbers DEF IInv, TypeOK
<1>5. page_id[q] <= p /\ p < page_id[q] + n[q]
  BY <1>3 DEF Owns
<1>6. n[q] > 0
  BY <1>1, <1>4, <1>5
<1>7. ~Owns(s, p)
  BY <1>0 DEF Owns
<1>8. q # s
  BY <1>3, <1>7
<1>9. \A x \in Int : Owns(s, x) => ~Owns(q, x)
  BY <1>3, <1>8, OneOwner
<1>10. CASE p = page_id[s] - 1
  <2>1. Owns(s, page_id[s])
    BY <1>0 DEF Owns
  <2>2. ~(page_id[q] <= page_id[s] /\ page_id[s] < page_id[q] + n[q])
    BY <1>0, <1>9, <2>1 DEF Owns
  <2> QED BY <1>0, <1>2, <1>3, <1>4, <1>5, <1>6, <1>8, <1>10, <2>2
<1>11. CASE p = page_id[s] + n[s]
  <2>1. Owns(s, page_id[s] + n[s] - 1) /\ page_id[s] + n[s] - 1 \in Int
    BY <1>0 DEF Owns
  <2>2. ~(page_id[q] <= page_id[s] + n[s] - 1 /\ page_id[s] + n[s] - 1 < page_id[q] + n[q])
    BY <1>9, <2>1 DEF Owns
  <2> QED BY <1>0, <1>2, <1>3, <1>4, <1>5, <1>6, <1>8, <1>11, <2>2
<1> QED BY <1>10, <1>11

(* Merging with the span before.                                           *)
LEMMA MergePrevOK ==
  ASSUME ConstantsOK, IInv, NEW t \in Threads, MergePrev(t)
  PROVE  IInv'
<1>1. Freeing(t) /\ stage = "prev" /\ page_mtx = t
  BY DEF MergePrev, Holds, Freeing
<1>2. PICK s \in live : s = call[t].span /\ n[s] > 0
  BY <1>1 DEF IInv, FreeingOK
<1>3. PICK q : q = id_span_map[page_id[s] - 1]
  OBVIOUS
<1>4. Mergeable(page_id[s] - 1, s) /\ Merge(s, q, page_id[q])
  BY <1>2, <1>3 DEF MergePrev
<1>5. /\ q \in live /\ q # s /\ ~is_use[q] /\ n[q] > 0 /\ n[q] + n[s] <= NPAGES - 1
      /\ page_id[q] + n[q] = page_id[s]
  BY <1>2, <1>3, <1>4, Neighbours
<1>6. /\ LastPage \in Nat /\ page_id[s] \in Nat /\ n[s] \in Nat /\ page_id[q] \in Nat /\ n[q] \in Nat
      /\ page_id[q] >= 1 /\ page_id[s] + n[s] <= LastPage + 1
  BY <1>2, <1>5, Numbers DEF IInv, PartOK, TypeOK
<1>7. page_id[q] + (n[s] + n[q]) <= LastPage + 1
  BY <1>5, <1>6
<1>8. \A p \in Nat : page_id[q] <= p /\ p < page_id[q] + (n[s] + n[q]) <=> Owns(s, p) \/ Owns(q, p)
  BY <1>5, <1>6 DEF Owns
<1> QED BY <1>1, <1>2, <1>4, <1>5, <1>6, <1>7, <1>8, MergeOK

(* Merging with the span behind.                                           *)
LEMMA MergeNextOK ==
  ASSUME ConstantsOK, IInv, NEW t \in Threads, MergeNext(t)
  PROVE  IInv'
<1>1. Freeing(t) /\ stage = "next" /\ page_mtx = t
  BY DEF MergeNext, Holds, Freeing
<1>2. PICK s \in live : s = call[t].span /\ n[s] > 0
  BY <1>1 DEF IInv, FreeingOK
<1>3. PICK q : q = id_span_map[page_id[s] + n[s]]
  OBVIOUS
<1>4. Mergeable(page_id[s] + n[s], s) /\ Merge(s, q, page_id[s])
  BY <1>2, <1>3 DEF MergeNext
<1>5. /\ q \in live /\ q # s /\ ~is_use[q] /\ n[q] > 0 /\ n[q] + n[s] <= NPAGES - 1
      /\ page_id[q] = page_id[s] + n[s]
  BY <1>2, <1>3, <1>4, Neighbours
<1>6. /\ LastPage \in Nat /\ page_id[s] \in Nat /\ n[s] \in Nat /\ page_id[q] \in Nat /\ n[q] \in Nat
      /\ page_id[s] >= 1 /\ page_id[q] + n[q] <= LastPage + 1
  BY <1>2, <1>5, Numbers DEF IInv, PartOK, TypeOK
<1>7. page_id[s] + (n[s] + n[q]) <= LastPage + 1
  BY <1>5, <1>6
<1>8. \A p \in Nat : page_id[s] <= p /\ p < page_id[s] + (n[s] + n[q]) <=> Owns(s, p) \/ Owns(q, p)
  BY <1>5, <1>6 DEF Owns
<1> QED BY <1>1, <1>2, <1>4, <1>5, <1>6, <1>7, <1>8, MergeOK

-----------------------------------------------------------------------------
(* Every step keeps the invariant.                                         *)
LEMMA StepIInv == ASSUME ConstantsOK, IInv, [Next]_vars PROVE IInv'
<1>1. CASE UNCHANGED vars
  BY <1>1 DEF vars, svars, IInv, TypeOK, DeadOK, PartOK, MapOK, ListsOK, LockOK, FreeingOK,
              HeldOK, Owns, Freeing, SpanOfRun, LookedUp
<1>2. CASE Next
  <2>1. PICK t \in Threads : \/ \E k \in Requests : AskNew(t, k)
                             \/ \E r \in held : AskFree(t, r)
                             \/ Lock(t) \/ Step(t)
    BY <1>2 DEF Next
  <2>2. CASE \E k \in Requests : AskNew(t, k)
    BY <2>2, AskNewOK
  <2>3. CASE \E r \in held : AskFree(t, r)
    BY <2>3, AskFreeOK
  <2>4. CASE Lock(t)
    BY <2>4, LockStepOK
  <2>5. CASE Step(t)
    BY <2>5, NewLargeOK, NewExactOK, NewSplitOK, RefillOK, SystemFailsOK, ReleaseLargeOK,
       ReleaseBeginOK, MergePrevOK, EndPrevOK, MergeNextOK, ReleaseEndOK DEF Step
  <2> QED BY <2>1, <2>2, <2>3, <2>4, <2>5
<1> QED BY <1>1, <1>2

(* Every reachable state satisfies the inductive invariant.                *)
LEMMA Inductive == Spec => []IInv
<1> USE ConstantsAssumption
<1>1. Init => IInv
  BY InitIInv
<1>2. IInv /\ [Next]_vars => IInv'
  BY StepIInv
<1> QED BY <1>1, <1>2, PTL DEF Spec

(* The inductive invariant says what SpansConsistent says.                 *)
LEMMA ConsistentOK == ASSUME ConstantsOK, IInv PROVE SpansConsistent
<1>0. live \subseteq Spans /\ Pages \subseteq Nat /\ mapped \subseteq Pages /\ NPAGES \in Nat
      /\ LastPage \in Nat /\ span_lists \in [Buckets -> Seq(Spans)]
  BY Numbers DEF IInv, TypeOK, Pages
<1>1. \A s \in live : \A p : p \in PagesOf(s) <=> p \in Pages /\ Owns(s, p)
  <2> SUFFICES ASSUME NEW s \in live, NEW p PROVE p \in PagesOf(s) <=> p \in Pages /\ Owns(s, p)
    OBVIOUS
  <2>1. p \in PagesOf(s) => p \in Int
    BY <1>0, Numbers DEF IInv, PagesOf, Run
  <2>2. p \in Pages => p \in Int
    BY <1>0
  <2>3. CASE p \in Int
    <3>1. p \in PagesOf(s) <=> Owns(s, p)
      BY <2>3, <1>0, OwnsPagesOf DEF IInv
    <3>2. Owns(s, p) => p \in Pages
      BY <2>3, OwnedIsPage
    <3> QED BY <3>1, <3>2
  <2> QED BY <2>1, <2>2, <2>3
<1>2. SpansPartition
  <2>1. \A s, q \in live : s # q => PagesOf(s) \cap PagesOf(q) = {}
    BY <1>1 DEF IInv, PartOK
  <2>2. UNION {PagesOf(s) : s \in live} = mapped
    <3>1. ASSUME NEW s \in live, NEW p \in PagesOf(s) PROVE p \in mapped
      BY <1>1 DEF IInv, PartOK
    <3>2. ASSUME NEW p \in mapped PROVE \E s \in live : p \in PagesOf(s)
      BY <1>0, <1>1 DEF IInv, PartOK
    <3> QED BY <3>1, <3>2
  <2> QED BY <2>1, <2>2 DEF SpansPartition
<1>3. MapIsSound
  <2> SUFFICES ASSUME NEW p \in 0..(LastPage + 1), id_span_map[p] # None
               PROVE  id_span_map[p] \in live /\ p \in PagesOf(id_span_map[p])
    BY DEF MapIsSound, IInv, TypeOK
  <2>1. id_span_map[p] \in live /\ Owns(id_span_map[p], p) /\ p \in Int
    BY <1>0 DEF IInv, MapOK
  <2> QED BY <2>1, <1>1, OwnedIsPage
<1>4. HeldIsResolved
  <2> SUFFICES ASSUME NEW r \in held, NEW p \in LookedUp(r)
               PROVE  /\ id_span_map[p] # None
                      /\ page_id[id_span_map[p]] = r.first /\ n[id_span_map[p]] = r.n
                      /\ is_use[id_span_map[p]]
    BY DEF HeldIsResolved, LookedUp
  <2>1. PICK s \in live : SpanOfRun(s, r)
    BY DEF IInv, HeldOK
  <2> QED BY <2>1, <1>0 DEF SpanOfRun, ConstantsOK
<1>5. FreeIsListed
  <2> SUFFICES ASSUME NEW s \in live, ~is_use[s], n[s] > 0
               PROVE  /\ n[s] \in Buckets
                      /\ \A k \in Buckets :
                           Cardinality({i \in DOMAIN span_lists[k] : span_lists[k][i] = s})
                             = IF k = n[s] THEN 1 ELSE 0
    BY DEF FreeIsListed
  <2>1. n[s] \in Buckets
    BY <1>0, Numbers DEF IInv, ListsOK, Buckets
  <2>2. ASSUME NEW k \in Buckets
        PROVE  Cardinality({i \in DOMAIN span_lists[k] : span_lists[k][i] = s})
                 = IF k = n[s] THEN 1 ELSE 0
    <3> DEFINE I == {i \in DOMAIN span_lists[k] : span_lists[k][i] = s}
    <3>1. Distinct(span_lists[k]) /\ (s \in Members(span_lists[k]) <=> k = n[s])
      BY DEF IInv, ListsOK
    <3>2. CASE k = n[s]
      <4>1. PICK i \in DOMAIN span_lists[k] : span_lists[k][i] = s
        BY <3>1, <3>2 DEF Members
      <4>2. I = {i}
        BY <4>1, <3>1 DEF Distinct
      <4>3. Cardinality(I) = 1
        BY <4>2, FS_Singleton
      <4> QED BY <3>2, <4>3
    <3>3. CASE k # n[s]
      <4>1. I = {}
        BY <3>1, <3>3 DEF Members
      <4>2. Cardinality(I) = 0
        BY <4>1, FS_EmptySet
      <4> QED BY <3>3, <4>2
    <3> QED BY <3>2, <3>3
  <2> QED BY <2>1, <2>2
<1> QED BY <1>2, <1>3, <1>4, <1>5 DEF SpansConsistent

(* The Span objects, the buckets and the page map of zmalloc::PageCache    *)
(* describe one division of the pages through every split, every turn of   *)
(* the coalescing loops and every failed mmap.                             *)
THEOREM SpansAreConsistent == Spec => []SpansConsistent
<1>1. IInv => SpansConsistent
  BY ConstantsAssumption, ConsistentOK
<1>2. Spec => []IInv
  BY Inductive
<1> QED BY <1>1, <1>2, PTL

-----------------------------------------------------------------------------
(* Refinement                                                              *)

\* Two runs that callers hold share no page.
HeldApart ==
  \A r, q \in held : r # q => Run(r.first, r.n) \cap Run(q.first, q.n) = {}

(* Runs that differ have different spans, and those share no page.         *)
LEMMA HeldAreApart == ASSUME ConstantsOK, IInv PROVE HeldApart
<1> SUFFICES ASSUME NEW r \in held, NEW q \in held, r # q
             PROVE  Run(r.first, r.n) \cap Run(q.first, q.n) = {}
  BY DEF HeldApart
<1>1. PICK s \in live : SpanOfRun(s, r)
  BY DEF IInv, HeldOK
<1>2. PICK o \in live : SpanOfRun(o, q)
  BY DEF IInv, HeldOK
<1>3. s # o
  <2>1. r \in [first : Pages, n : Pages] /\ q \in [first : Pages, n : Pages]
    BY DEF IInv, TypeOK
  <2>2. s = o => r.first = q.first /\ r.n = q.n
    BY <1>1, <1>2 DEF SpanOfRun
  <2> QED BY <2>1, <2>2
<1>4. Run(r.first, r.n) = PagesOf(s) /\ Run(q.first, q.n) = PagesOf(o)
  BY <1>1, <1>2 DEF SpanOfRun, PagesOf
<1>5. PagesOf(s) \cap PagesOf(o) = {}
  BY <1>3, ConsistentOK DEF SpansConsistent, SpansPartition
<1> QED BY <1>4, <1>5

(* A step allocates one run, releases one, or leaves the callers' runs.    *)
LEMMA HeldStep ==
  ASSUME ConstantsOK, IInv, IInv', HeldApart', [Next]_vars
  PROVE  [Abstract!Allocate \/ Abstract!Release]_held
<1>1. ASSUME NEW t \in Threads, NEW first, NEW k, Give(t, first, k)
      PROVE  Abstract!Allocate \/ held' = held
  <2> DEFINE r == [first |-> first, n |-> k]
  <2>1. held' = held \cup {r} /\ r.first = first /\ r.n = k
    BY <1>1 DEF Give
  <2>2. first \in Pages /\ k \in Pages
    BY <2>1 DEF IInv, TypeOK
  <2>3. CASE r \in held
    BY <2>1, <2>3
  <2>4. CASE r \notin held
    <3>1. \A q \in held : Abstract!Run(q) \cap Abstract!Run(r) = {}
      <4> SUFFICES ASSUME NEW q \in held
                   PROVE  Run(q.first, q.n) \cap Run(r.first, r.n) = {}
        BY DEF Abstract!Run, Run
      <4>1. q \in held' /\ r \in held' /\ q # r
        BY <2>1, <2>4
      <4> HIDE DEF r
      <4> QED BY <4>1 DEF HeldApart, Run
    <3> QED BY <2>1, <2>2, <3>1 DEF Abstract!Allocate, Pages
  <2> QED BY <2>3, <2>4
<1>2. CASE UNCHANGED vars
  BY <1>2 DEF vars
<1>3. CASE Next
  <2>1. PICK t \in Threads : \/ \E k \in Requests : AskNew(t, k)
                             \/ \E r \in held : AskFree(t, r)
                             \/ Lock(t) \/ Step(t)
    BY <1>3 DEF Next
  <2>2. CASE \E k \in Requests : AskNew(t, k)
    BY <2>2 DEF AskNew
  <2>3. CASE \E r \in held : AskFree(t, r)
    BY <2>3 DEF AskFree, Abstract!Release
  <2>4. CASE Lock(t)
    BY <2>4 DEF Lock
  <2>5. CASE Step(t)
    <3>1. CASE NewLarge(t)
      <4>1. \E first, k : Give(t, first, k)
        BY <3>1 DEF NewLarge
      <4> QED BY <4>1, <1>1
    <3>2. CASE NewExact(t)
      <4>1. \E first, k : Give(t, first, k)
        BY <3>2 DEF NewExact
      <4> QED BY <4>1, <1>1
    <3>3. CASE NewSplit(t)
      <4>1. \E first, k : Give(t, first, k)
        BY <3>3 DEF NewSplit
      <4> QED BY <4>1, <1>1
    <3>4. CASE Refill(t) \/ SystemFails(t)
      BY <3>4 DEF Refill, SystemFails
    <3>5. CASE ReleaseLarge(t) \/ ReleaseBegin(t) \/ EndPrev(t) \/ ReleaseEnd(t)
      BY <3>5 DEF ReleaseLarge, ReleaseBegin, EndPrev, ReleaseEnd
    <3>6. CASE MergePrev(t) \/ MergeNext(t)
      BY <3>6 DEF MergePrev, MergeNext, Merge
    <3> QED BY <2>5, <3>1, <3>2, <3>3, <3>4, <3>5, <3>6 DEF Step
  <2> QED BY <2>1, <2>2, <2>3, <2>4, <2>5
<1> QED BY <1>2, <1>3

(* zmalloc::PageCache hands its callers runs of pages that nobody else     *)
(* holds.                                                                  *)
THEOREM PageCacheImplementsAlloc == Spec => ImplementsPageAlloc
<1> SUFFICES Spec => Abstract!Spec
  BY DEF ImplementsPageAlloc
<1>1. Init => Abstract!Init
  BY DEF Init, Abstract!Init
<1>2. IInv => HeldApart
  BY ConstantsAssumption, HeldAreApart
<1>3. IInv /\ IInv' /\ HeldApart' /\ [Next]_vars => [Abstract!Allocate \/ Abstract!Release]_held
  BY ConstantsAssumption, HeldStep
<1>4. Spec => []IInv
  BY Inductive
<1> QED BY <1>1, <1>2, <1>3, <1>4, PTL DEF Spec, Abstract!Spec

=============================================================================
