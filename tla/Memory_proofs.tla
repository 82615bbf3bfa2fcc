--------------------------- MODULE Memory_proofs ---------------------------
(***************************************************************************)
(* Theorems about what is handed out, taken back and handed out again:     *)
(* the Fiber objects behind external handles (FiberHandles), for any       *)
(* number of fibers, resuming threads and handles; the objects of a size   *)
(* class in zmalloc's central cache (CentralCache), for any number of      *)
(* threads, spans, objects in a span and objects asked for at once; and    *)
(* the shared stacks and their snapshot buffers (SharedStack), for any     *)
(* number of fibers, stacks, cells and buckets.                            *)
(***************************************************************************)
EXTENDS FiberHandles, CentralCache, SharedStack, QueueLemmas, FiniteSetTheorems

-----------------------------------------------------------------------------
(* FiberHandles                                                            *)

Found == [fiber : Fibers, handle : 1..MaxHandles]

HandleTypeOK ==
  /\ place \in [Fibers -> {"pooled", "running", "naming", "waiting", "ready", "done", "cleared"}]
  /\ tasks \in Nat /\ handles \in 0..MaxHandles
  /\ task \in [Fibers -> Nat] /\ handle \in [Fibers -> 0..MaxHandles]
  /\ map \in [1..MaxHandles -> Fibers \cup {NoFiber}] /\ taker \in [1..MaxHandles -> Nat]
  /\ found \in [Resumers -> {Idle} \cup Found]

(* A pooled object has no handle, and the handle of one in use was asked   *)
(* for by the task in it.  The map and the resumers name an object only by *)
(* the handle it has now.                                                  *)
HandleInv ==
  /\ HandleTypeOK
  /\ \A f \in Fibers : /\ handle[f] <= handles
                       /\ place[f] = "pooled" => handle[f] = 0
                       /\ place[f] = "naming" => handle[f] # 0
                       /\ handle[f] # 0 => taker[handle[f]] = task[f]
  /\ \A h \in 1..MaxHandles : map[h] # NoFiber => handle[map[h]] = h
  /\ \A r \in Resumers : found[r] # Idle => handle[found[r].fiber] = found[r].handle
  /\ HandleReachesItsTaker

LEMMA InitHandleInv == HandleInit => HandleInv
<1>1. MaxHandles \in Nat
  BY HandleAssumption DEF HandleConstants
<1> QED BY <1>1 DEF HandleInit, HandleInv, HandleTypeOK, HandleReachesItsTaker

(* A step of the fiber f itself.                                           *)
LEMMA FiberKeepsHandles ==
  ASSUME ~SlowResume, HandleInv, NEW f \in Fibers,
         \/ StartFiber(f) \/ TakeHandle(f) \/ RegisterFiber(f) \/ Waits(f) \/ Resumed(f)
         \/ Finishes(f) \/ ClearHandle(f) \/ EraseAndRecycle(f)
  PROVE  HandleInv'
<1>1. MaxHandles \in Nat /\ NoFiber \notin Fibers
  BY HandleAssumption DEF HandleConstants
<1>2. \A r \in Resumers : found[r] # Idle =>
        found[r].fiber \in Fibers /\ found[r].handle \in 1..MaxHandles
  BY DEF HandleInv, HandleTypeOK, Found
<1>3. CASE Waits(f) \/ Resumed(f) \/ Finishes(f) \/ ClearHandle(f)
  <2>1. UNCHANGED <<task, handle, map, taker, tasks, handles, found, woken>>
    BY <1>3 DEF Waits, Resumed, Finishes, ClearHandle
  <2>2. PICK to \in {"waiting", "running", "done", "cleared"} : place' = [place EXCEPT ![f] = to]
    BY <1>3 DEF Waits, Resumed, Finishes, ClearHandle, Moves
  <2> QED BY <2>1, <2>2 DEF HandleInv, HandleTypeOK, HandleReachesItsTaker
<1>4. CASE StartFiber(f)
  <2>1. handle[f] = 0
    BY <1>4 DEF StartFiber, Moves, HandleInv
  <2>2. handle' = handle
    BY <1>4, <2>1 DEF StartFiber, HandleInv, HandleTypeOK
  <2>3. UNCHANGED <<map, taker, handles, found, woken>> /\ place' = [place EXCEPT ![f] = "running"]
        /\ tasks' = tasks + 1 /\ task' = [task EXCEPT ![f] = tasks + 1]
    BY <1>4 DEF StartFiber, Moves
  <2> QED BY <2>1, <2>2, <2>3 DEF HandleInv, HandleTypeOK, HandleReachesItsTaker
<1>5. CASE TakeHandle(f)
  <2>1. /\ handle[f] = 0 /\ handles < MaxHandles /\ handles' = handles + 1
        /\ place' = [place EXCEPT ![f] = "naming"]
        /\ handle' = [handle EXCEPT ![f] = handles + 1]
        /\ taker' = [taker EXCEPT ![handles + 1] = task[f]]
        /\ UNCHANGED <<task, map, tasks, found, woken>>
    BY <1>5 DEF TakeHandle, Moves
  <2>2. handles \in Nat /\ handles + 1 \in 1..MaxHandles
    BY <1>1, <2>1 DEF HandleInv, HandleTypeOK
  <2>3. HandleTypeOK'
    BY <1>1, <2>1, <2>2 DEF HandleInv, HandleTypeOK
  <2>4. ASSUME NEW g \in Fibers
        PROVE  /\ handle'[g] <= handles'
               /\ place'[g] = "pooled" => handle'[g] = 0
               /\ place'[g] = "naming" => handle'[g] # 0
               /\ handle'[g] # 0 => taker'[handle'[g]] = task'[g]
    <3>1. CASE g = f
      <4>1. handle'[g] = handles + 1 /\ place'[g] = "naming" /\ taker'[handles + 1] = task[f]
        BY <2>1, <2>2, <3>1 DEF HandleInv, HandleTypeOK
      <4> QED BY <2>1, <2>2, <3>1, <4>1
    <3>2. CASE g # f
      <4>1. handle'[g] = handle[g] /\ place'[g] = place[g] /\ handle[g] <= handles /\ handle[g] \in 0..MaxHandles
        BY <2>1, <3>2 DEF HandleInv, HandleTypeOK
      <4>2. handle[g] # 0 => taker'[handle[g]] = taker[handle[g]]
        BY <2>1, <2>2, <4>1 DEF HandleInv, HandleTypeOK
      <4>3. handle[g] <= handles'
        BY <2>1, <2>2, <4>1
      <4> QED BY <2>1, <4>1, <4>2, <4>3 DEF HandleInv
    <3> QED BY <3>1, <3>2
  <2>5. ASSUME NEW h \in 1..MaxHandles, map'[h] # NoFiber PROVE handle'[map'[h]] = h
    <3>1. map[h] \in Fibers /\ handle[map[h]] = h
      BY <2>1, <2>5 DEF HandleInv, HandleTypeOK
    <3>2. map[h] # f
      BY <2>1, <3>1
    <3> QED BY <2>1, <3>1, <3>2 DEF HandleInv, HandleTypeOK
  <2>6. ASSUME NEW r \in Resumers, found'[r] # Idle PROVE handle'[found'[r].fiber] = found'[r].handle
    <3>1. /\ found[r].fiber \in Fibers /\ found[r].handle \in 1..MaxHandles
          /\ handle[found[r].fiber] = found[r].handle
      BY <1>2, <2>1, <2>6 DEF HandleInv
    <3>2. found[r].fiber # f
      BY <2>1, <3>1
    <3> QED BY <2>1, <3>1, <3>2 DEF HandleInv, HandleTypeOK
  <2> QED BY <2>1, <2>3, <2>4, <2>5, <2>6 DEF HandleInv, HandleReachesItsTaker
<1>6. CASE RegisterFiber(f)
  <2>1. /\ place[f] = "naming" /\ place' = [place EXCEPT ![f] = "running"]
        /\ map' = [map EXCEPT ![handle[f]] = f]
        /\ UNCHANGED <<task, handle, taker, tasks, handles, found, woken>>
    BY <1>6 DEF RegisterFiber, Moves
  <2>2. handle[f] \in 1..MaxHandles
    BY <1>1, <2>1 DEF HandleInv, HandleTypeOK
  <2>3. \A h \in 1..MaxHandles : map'[h] = IF h = handle[f] THEN f ELSE map[h]
    BY <2>1, <2>2 DEF HandleInv, HandleTypeOK
  <2>4. HandleTypeOK'
    BY <2>1, <2>2 DEF HandleInv, HandleTypeOK
  <2> QED BY <2>1, <2>3, <2>4 DEF HandleInv, HandleTypeOK, HandleReachesItsTaker
<1>7. CASE EraseAndRecycle(f)
  <2>1. /\ place' = [place EXCEPT ![f] = "pooled"] /\ handle' = [handle EXCEPT ![f] = 0]
        /\ map' = [h \in 1..MaxHandles |-> IF h = handle[f] THEN NoFiber ELSE map[h]]
        /\ \A r \in Resumers : found[r].fiber # f
        /\ UNCHANGED <<task, taker, tasks, handles, found, woken>>
    BY <1>7 DEF EraseAndRecycle, Moves
  <2>2. HandleTypeOK'
    BY <1>1, <2>1 DEF HandleInv, HandleTypeOK
  <2>3. ASSUME NEW h \in 1..MaxHandles, map'[h] # NoFiber PROVE handle'[map'[h]] = h
    <3>1. map'[h] = map[h] /\ h # handle[f]
      BY <2>1, <2>3
    <3>2. map[h] \in Fibers /\ handle[map[h]] = h
      BY <2>3, <3>1 DEF HandleInv, HandleTypeOK
    <3>3. map[h] # f
      BY <3>1, <3>2
    <3> QED BY <2>1, <3>1, <3>2, <3>3 DEF HandleInv, HandleTypeOK
  <2>4. ASSUME NEW r \in Resumers, found'[r] # Idle PROVE handle'[found'[r].fiber] = found'[r].handle
    <3>1. found[r].fiber \in Fibers /\ found[r].fiber # f /\ handle[found[r].fiber] = found[r].handle
      BY <1>2, <2>1, <2>4 DEF HandleInv
    <3> QED BY <2>1, <3>1 DEF HandleInv, HandleTypeOK
  <2>5. \A g \in Fibers : handle'[g] = (IF g = f THEN 0 ELSE handle[g])
                          /\ place'[g] = (IF g = f THEN "pooled" ELSE place[g])
    BY <2>1 DEF HandleInv, HandleTypeOK
  <2> QED BY <2>1, <2>2, <2>3, <2>4, <2>5 DEF HandleInv, HandleTypeOK, HandleReachesItsTaker
<1> QED BY <1>3, <1>4, <1>5, <1>6, <1>7

(* A step of resume().                                                     *)
LEMMA ResumerKeepsHandles ==
  ASSUME HandleInv, NEW r \in Resumers, WakeFound(r) \/ \E h \in 1..MaxHandles : Find(r, h)
  PROVE  HandleInv'
<1>1. ASSUME NEW h \in 1..MaxHandles, Find(r, h) PROVE HandleInv'
  <2>1. /\ map[h] # NoFiber /\ found' = [found EXCEPT ![r] = [fiber |-> map[h], handle |-> h]]
        /\ UNCHANGED <<place, task, handle, map, taker, tasks, handles, woken>>
    BY <1>1 DEF Find
  <2>2. map[h] \in Fibers /\ handle[map[h]] = h /\ [fiber |-> map[h], handle |-> h] \in Found
    BY <2>1 DEF HandleInv, HandleTypeOK, Found
  <2>3. HandleTypeOK'
    BY <2>1, <2>2 DEF HandleInv, HandleTypeOK
  <2>4. ASSUME NEW q \in Resumers, found'[q] # Idle PROVE handle'[found'[q].fiber] = found'[q].handle
    BY <2>1, <2>2, <2>4 DEF HandleInv, HandleTypeOK
  <2> QED BY <2>1, <2>3, <2>4 DEF HandleInv, HandleReachesItsTaker
<1>2. CASE WakeFound(r)
  <2>1. /\ found[r] # Idle /\ found' = [found EXCEPT ![r] = Idle]
        /\ UNCHANGED <<task, handle, map, taker, tasks, handles>>
    BY <1>2 DEF WakeFound
  <2>2. PICK f : f = found[r].fiber
    OBVIOUS
  <2>3. f \in Fibers /\ found[r].handle \in 1..MaxHandles /\ handle[f] = found[r].handle
    BY <2>1, <2>2 DEF HandleInv, HandleTypeOK, Found
  <2>4. taker[found[r].handle] = task[f]
    BY <2>3 DEF HandleInv
  <2>5. \/ place[f] = "waiting" /\ place' = [place EXCEPT ![f] = "ready"] /\ woken' = woken
        \/ UNCHANGED <<place, woken>>
    BY <1>2, <2>2, <2>4 DEF WakeFound
  <2>6. place' \in [Fibers -> {"pooled", "running", "naming", "waiting", "ready", "done", "cleared"}] /\ woken' = woken
        /\ \A g \in Fibers : place'[g] \in {"pooled", "naming"} => place'[g] = place[g]
    BY <2>3, <2>5 DEF HandleInv, HandleTypeOK
  <2>7. HandleTypeOK'
    BY <2>1, <2>6 DEF HandleInv, HandleTypeOK
  <2>8. ASSUME NEW q \in Resumers, found'[q] # Idle PROVE found'[q] = found[q]
    BY <2>1, <2>8 DEF HandleInv, HandleTypeOK
  <2> QED BY <2>1, <2>6, <2>7, <2>8 DEF HandleInv, HandleReachesItsTaker
<1> QED BY <1>1, <1>2

(* resume(handle) wakes the coroutine that asked for the handle, or nobody,*)
(* whatever the handle's fiber has been recycled for, as long as no fiber  *)
(* is recycled between find_by_handle and try_wake.                        *)
THEOREM HandlesAreTrue ==
  ASSUME ~SlowResume
  PROVE  HandleSpec => []HandleReachesItsTaker
<1>1. HandleInv /\ [HandleNext]_hvars => HandleInv'
  <2> SUFFICES ASSUME HandleInv, [HandleNext]_hvars PROVE HandleInv'
    OBVIOUS
  <2>1. CASE UNCHANGED hvars
    BY <2>1 DEF hvars, HandleInv, HandleTypeOK, HandleReachesItsTaker
  <2> QED BY <2>1, FiberKeepsHandles, ResumerKeepsHandles DEF HandleNext
<1>2. HandleInv => HandleReachesItsTaker
  BY DEF HandleInv
<1> QED BY <1>1, <1>2, InitHandleInv, PTL DEF HandleSpec

-----------------------------------------------------------------------------
(* CentralCache: objects, owners and counts                                *)

(* A span has PerSpan objects, and every object is of one span.            *)
LEMMA ObjectsFinite ==
  ASSUME NEW s
  PROVE  IsFiniteSet(ObjectsOf(s)) /\ Cardinality(ObjectsOf(s)) = PerSpan
<1>1. PerSpan \in Nat \ {0}
  BY CentralAssumption DEF CentralConstants
<1>2. IsFiniteSet(1..PerSpan) /\ Cardinality(1..PerSpan) = PerSpan
  BY <1>1, FS_Interval
<1>3. PICK f : f = [i \in 1..PerSpan |-> <<s, i>>]
  OBVIOUS
<1>4. f \in Surjection(1..PerSpan, ObjectsOf(s))
  BY <1>3 DEF Surjection, ObjectsOf
<1>5. f \in Injection(1..PerSpan, ObjectsOf(s))
  BY <1>3 DEF Injection, ObjectsOf, IsInjective
<1> QED BY <1>2, <1>4, <1>5, FS_Surjection

LEMMA ObjectsApart ==
  /\ \A s \in CentralSpans : ObjectsOf(s) \subseteq Objects
  /\ \A o \in Objects : o[1] \in CentralSpans /\ o \in ObjectsOf(o[1])
  /\ \A s, r, o : o \in ObjectsOf(s) /\ o \in ObjectsOf(r) => s = r
BY DEF Objects, ObjectsOf

\* f with the value v at x.
With(f, x, v) == [f EXCEPT ![x] = v]

\* The objects of s that the threads have, A being what each of them has.
OutOf(A, s) == {o \in ObjectsOf(s) : \E t \in Threads : o \in A[t]}

Given(gv, s) == \E t \in Threads : s \in gv[t]

(* Objects and counts agree, given what each thread has (A), the free      *)
(* lists, the counts, the spans of the page cache and the spans that       *)
(* threads are giving back (gv).                                           *)
Agree(A, fl, uc, pg, gv) ==
  /\ \A t, u \in Threads, o \in Objects : o \in A[t] /\ o \in A[u] => t = u
  /\ \A s \in CentralSpans :
       /\ uc[s] = Cardinality(OutOf(A, s))
       /\ fl[s] \cap OutOf(A, s) = {}
       /\ s \in pg \/ Given(gv, s)    => OutOf(A, s) = {} /\ fl[s] = {}
       /\ s \notin pg /\ ~Given(gv, s) => fl[s] \cup OutOf(A, s) = ObjectsOf(s)
  /\ \A t, u \in Threads, s \in CentralSpans : s \in gv[t] /\ s \in gv[u] => t = u
  /\ \A s \in pg : ~Given(gv, s)

LEMMA OutFinite ==
  ASSUME NEW A, NEW s
  PROVE  /\ IsFiniteSet(OutOf(A, s)) /\ Cardinality(OutOf(A, s)) \in 0..PerSpan
         /\ OutOf(A, s) \subseteq ObjectsOf(s)
<1>1. OutOf(A, s) \in SUBSET ObjectsOf(s)
  BY DEF OutOf
<1>2. PerSpan \in Nat
  BY CentralAssumption DEF CentralConstants
<1> QED BY <1>1, <1>2, ObjectsFinite, FS_Subset, FS_CardinalityType

(* Counting what is added and what is taken away.                          *)
LEMMA CountPlus ==
  ASSUME NEW S, NEW T, IsFiniteSet(S), IsFiniteSet(T), S \cap T = {}
  PROVE  /\ Cardinality(S \cup T) = Cardinality(S) + Cardinality(T)
         /\ Cardinality(S) \in Nat /\ Cardinality(T) \in Nat
<1>1. Cardinality(S \cup T) = Cardinality(S) + Cardinality(T) - Cardinality(S \cap T)
  BY FS_Union
<1>2. Cardinality(S \cap T) = 0
  BY FS_EmptySet
<1>3. Cardinality(S) \in Nat /\ Cardinality(T) \in Nat
  BY FS_CardinalityType
<1> QED BY <1>1, <1>2, <1>3

LEMMA CountMinus ==
  ASSUME NEW S, NEW T, IsFiniteSet(S), T \subseteq S
  PROVE  /\ Cardinality(S \ T) = Cardinality(S) - Cardinality(T)
         /\ Cardinality(S) \in Nat /\ Cardinality(T) \in Nat /\ Cardinality(S \ T) \in Nat
         /\ Cardinality(S) - Cardinality(T) = 0 <=> S = T
<1>1. IsFiniteSet(T) /\ IsFiniteSet(S \ T)
  BY FS_Subset
<1>2. (S \ T) \cap T = {} /\ (S \ T) \cup T = S
  OBVIOUS
<1>3. /\ Cardinality(S) = Cardinality(S \ T) + Cardinality(T)
      /\ Cardinality(S \ T) \in Nat /\ Cardinality(T) \in Nat
  BY <1>1, <1>2, CountPlus
<1>4. Cardinality(S \ T) = 0 <=> S \ T = {}
  BY <1>1, FS_EmptySet
<1>5. S \ T = {} <=> S = T
  OBVIOUS
<1>6. Cardinality(S) - Cardinality(T) = Cardinality(S \ T) /\ Cardinality(S) \in Nat
  BY <1>3
<1> QED BY <1>3, <1>4, <1>5, <1>6

(* get_one_span cuts a span of the page cache into objects.                *)
LEMMA AgreeNew ==
  ASSUME NEW A, NEW fl \in [CentralSpans -> SUBSET Objects], NEW uc \in [CentralSpans -> Nat],
         NEW pg \in SUBSET CentralSpans, NEW gv, Agree(A, fl, uc, pg, gv), NEW s \in pg
  PROVE  Agree(A, With(fl, s, ObjectsOf(s)), With(uc, s, 0), pg \ {s}, gv)
<1>1. OutOf(A, s) = {} /\ Cardinality(OutOf(A, s)) = 0 /\ ~Given(gv, s)
  BY FS_EmptySet DEF Agree
<1> QED BY <1>1 DEF Agree, With

(* fetch_range_obj moves T from a span to the thread t.                    *)
LEMMA AgreeFetch ==
  ASSUME NEW A \in [Threads -> SUBSET Objects], NEW fl \in [CentralSpans -> SUBSET Objects],
         NEW uc \in [CentralSpans -> Nat], NEW pg, NEW gv, Agree(A, fl, uc, pg, gv),
         NEW s \in CentralSpans, NEW t \in Threads, NEW T, T \subseteq fl[s], fl[s] # {}
  PROVE  LET A1 == With(A, t, A[t] \cup T)
         IN  /\ Agree(A1, With(fl, s, fl[s] \ T), With(uc, s, uc[s] + Cardinality(T)), pg, gv)
             /\ A1 \in [Threads -> SUBSET Objects]
<1> DEFINE A1 == With(A, t, A[t] \cup T)
           fl1 == With(fl, s, fl[s] \ T)
           uc1 == With(uc, s, uc[s] + Cardinality(T))
<1>1. s \notin pg /\ ~Given(gv, s) /\ fl[s] \cup OutOf(A, s) = ObjectsOf(s) /\ fl[s] \cap OutOf(A, s) = {}
  BY DEF Agree
<1>2. T \subseteq ObjectsOf(s) /\ T \cap OutOf(A, s) = {} /\ T \subseteq Objects
  BY <1>1, ObjectsApart
<1>3. A1 \in [Threads -> SUBSET Objects] /\ A1[t] = A[t] \cup T /\ \A u \in Threads : u # t => A1[u] = A[u]
  BY <1>2 DEF With
<1>4. fl1[s] = fl[s] \ T /\ uc1[s] = uc[s] + Cardinality(T)
      /\ \A r \in CentralSpans : r # s => fl1[r] = fl[r] /\ uc1[r] = uc[r]
  BY DEF With
<1> HIDE DEF A1, fl1, uc1
<1>5. OutOf(A1, s) = OutOf(A, s) \cup T
  BY <1>2, <1>3 DEF OutOf
<1>6. ASSUME NEW r \in CentralSpans, r # s PROVE OutOf(A1, r) = OutOf(A, r)
  BY <1>2, <1>3, <1>6, ObjectsApart DEF OutOf
<1>7. Cardinality(OutOf(A1, s)) = Cardinality(OutOf(A, s)) + Cardinality(T)
  <2>1. IsFiniteSet(T) /\ IsFiniteSet(OutOf(A, s))
    BY <1>2, ObjectsFinite, FS_Subset, OutFinite
  <2>2. OutOf(A, s) \cap T = {}
    BY <1>2
  <2> QED BY <1>5, <2>1, <2>2, CountPlus
<1>8. \A u, v \in Threads, o \in Objects : o \in A1[u] /\ o \in A1[v] => u = v
  <2> SUFFICES ASSUME NEW u \in Threads, NEW v \in Threads, NEW o \in Objects, o \in A1[u], o \in A1[v], u # v
               PROVE  FALSE
    OBVIOUS
  <2>1. CASE o \in T
    <3>1. PICK w \in Threads : w # t /\ o \in A[w]
      BY <1>3
    <3> QED BY <1>2, <2>1, <3>1 DEF OutOf
  <2>2. CASE o \notin T
    BY <1>3, <2>2 DEF Agree
  <2> QED BY <2>1, <2>2
<1>9. ASSUME NEW r \in CentralSpans
      PROVE  /\ uc1[r] = Cardinality(OutOf(A1, r)) /\ fl1[r] \cap OutOf(A1, r) = {}
             /\ r \in pg \/ Given(gv, r)    => OutOf(A1, r) = {} /\ fl1[r] = {}
             /\ r \notin pg /\ ~Given(gv, r) => fl1[r] \cup OutOf(A1, r) = ObjectsOf(r)
  <2>1. CASE r = s
    <3>1. uc1[s] = Cardinality(OutOf(A1, s))
      BY <1>4, <1>7 DEF Agree
    <3>2. fl1[s] \cap OutOf(A1, s) = {} /\ fl1[s] \cup OutOf(A1, s) = ObjectsOf(s)
      BY <1>1, <1>4, <1>5
    <3> QED BY <1>1, <2>1, <3>1, <3>2
  <2>2. CASE r # s
    BY <1>4, <1>6, <2>2 DEF Agree
  <2> QED BY <2>1, <2>2
<1>10. /\ \A u, v \in Threads, r \in CentralSpans : r \in gv[u] /\ r \in gv[v] => u = v
       /\ \A r \in pg : ~Given(gv, r)
  BY DEF Agree
<1>11. Agree(A1, fl1, uc1, pg, gv)
  BY <1>8, <1>9, <1>10 DEF Agree
<1> QED BY <1>3, <1>11 DEF A1, fl1, uc1

(* The thread t loses the objects B of the span s.                         *)
Loss(A, fl, uc, pg, gv, s, t, B) ==
  /\ A \in [Threads -> SUBSET Objects] /\ fl \in [CentralSpans -> SUBSET Objects]
  /\ uc \in [CentralSpans -> Nat] /\ Agree(A, fl, uc, pg, gv)
  /\ s \in CentralSpans /\ t \in Threads /\ B \subseteq A[t] /\ B \subseteq ObjectsOf(s) /\ B # {}

LossFacts(A, A1, uc, pg, gv, s, B) ==
  /\ A1 \in [Threads -> SUBSET Objects]
  /\ \A u, v \in Threads, o \in Objects : o \in A1[u] /\ o \in A1[v] => u = v
  /\ B \subseteq OutOf(A, s) /\ OutOf(A1, s) = OutOf(A, s) \ B
  /\ \A r \in CentralSpans : r # s => OutOf(A1, r) = OutOf(A, r)
  /\ s \notin pg /\ ~Given(gv, s) /\ uc[s] > 0
  /\ uc[s] - Cardinality(B) = Cardinality(OutOf(A1, s)) /\ uc[s] - Cardinality(B) \in 0..PerSpan
  /\ uc[s] - Cardinality(B) = 0 <=> OutOf(A1, s) = {}

LEMMA OwnerLoses ==
  ASSUME NEW A, NEW fl, NEW uc, NEW pg, NEW gv, NEW s, NEW t, NEW B, Loss(A, fl, uc, pg, gv, s, t, B)
  PROVE  LossFacts(A, With(A, t, A[t] \ B), uc, pg, gv, s, B)
<1> USE DEF Loss
<1> DEFINE A1 == With(A, t, A[t] \ B)
<1>1. A1 \in [Threads -> SUBSET Objects] /\ A1[t] = A[t] \ B /\ \A u \in Threads : u # t => A1[u] = A[u]
  BY DEF With
<1> HIDE DEF A1
<1>2. \A u, v \in Threads, o \in Objects : o \in A1[u] /\ o \in A1[v] => u = v
  BY <1>1 DEF Agree
<1>3. B \subseteq OutOf(A, s) /\ B \subseteq Objects
  BY ObjectsApart DEF OutOf
<1>4. OutOf(A1, s) = OutOf(A, s) \ B
  <2>1. \A o \in B, u \in Threads : o \in A[u] => u = t
    BY <1>3 DEF Agree
  <2> QED BY <1>1, <2>1 DEF OutOf
<1>5. ASSUME NEW r \in CentralSpans, r # s PROVE OutOf(A1, r) = OutOf(A, r)
  <2>1. ObjectsOf(r) \cap B = {}
    BY <1>5, ObjectsApart
  <2> QED BY <1>1, <2>1 DEF OutOf
<1>6. s \notin pg /\ ~Given(gv, s) /\ uc[s] = Cardinality(OutOf(A, s))
  BY <1>3 DEF Agree
<1>7. IsFiniteSet(OutOf(A, s))
  BY OutFinite
<1>8. /\ Cardinality(OutOf(A, s) \ B) = Cardinality(OutOf(A, s)) - Cardinality(B)
      /\ Cardinality(OutOf(A, s)) \in Nat /\ Cardinality(B) \in Nat /\ Cardinality(OutOf(A, s) \ B) \in Nat
      /\ Cardinality(OutOf(A, s)) - Cardinality(B) = 0 <=> OutOf(A, s) = B
  BY <1>3, <1>7, CountMinus
<1>9. uc[s] > 0
  <2>1. Cardinality(OutOf(A, s)) # 0
    BY <1>3, <1>7, FS_EmptySet
  <2> QED BY <1>6, <1>8, <2>1
<1>10. OutOf(A, s) = B <=> OutOf(A1, s) = {}
  BY <1>3, <1>4
<1>11. /\ uc[s] - Cardinality(B) = Cardinality(OutOf(A1, s)) /\ uc[s] - Cardinality(B) \in Nat
       /\ uc[s] - Cardinality(B) = 0 <=> OutOf(A1, s) = {}
  BY <1>4, <1>6, <1>8, <1>10
<1>12. uc[s] - Cardinality(B) \in 0..PerSpan
  BY <1>11, OutFinite
<1> QED BY <1>1, <1>2, <1>3, <1>4, <1>5, <1>6, <1>9, <1>11, <1>12 DEF A1, LossFacts

(* release_list_to_spans puts B back into a span that has others out.      *)
LEMMA AgreeKeep ==
  ASSUME NEW A, NEW fl, NEW uc, NEW pg, NEW gv, NEW s, NEW t, NEW B, Loss(A, fl, uc, pg, gv, s, t, B)
  PROVE  Agree(With(A, t, A[t] \ B), With(fl, s, fl[s] \cup B),
               With(uc, s, uc[s] - Cardinality(B)), pg, gv)
<1> USE DEF Loss
<1> DEFINE A1 == With(A, t, A[t] \ B)
           fl1 == With(fl, s, fl[s] \cup B)
           uc1 == With(uc, s, uc[s] - Cardinality(B))
<1>1. /\ \A u, v \in Threads, o \in Objects : o \in A1[u] /\ o \in A1[v] => u = v
      /\ B \subseteq OutOf(A, s) /\ OutOf(A1, s) = OutOf(A, s) \ B
      /\ \A r \in CentralSpans : r # s => OutOf(A1, r) = OutOf(A, r)
      /\ s \notin pg /\ ~Given(gv, s)
      /\ uc[s] - Cardinality(B) = Cardinality(OutOf(A1, s))
  <2>1. LossFacts(A, A1, uc, pg, gv, s, B)
    BY OwnerLoses
  <2> QED BY <2>1 DEF LossFacts
<1>2. fl1[s] = fl[s] \cup B /\ uc1[s] = uc[s] - Cardinality(B)
      /\ \A r \in CentralSpans : r # s => fl1[r] = fl[r] /\ uc1[r] = uc[r]
  BY DEF With
<1> HIDE DEF A1, fl1, uc1
<1>3. fl[s] \cup OutOf(A, s) = ObjectsOf(s) /\ fl[s] \cap OutOf(A, s) = {}
  BY <1>1 DEF Agree
<1>4. ASSUME NEW r \in CentralSpans
      PROVE  /\ uc1[r] = Cardinality(OutOf(A1, r)) /\ fl1[r] \cap OutOf(A1, r) = {}
             /\ r \in pg \/ Given(gv, r)    => OutOf(A1, r) = {} /\ fl1[r] = {}
             /\ r \notin pg /\ ~Given(gv, r) => fl1[r] \cup OutOf(A1, r) = ObjectsOf(r)
  <2>1. CASE r = s
    BY <1>1, <1>2, <1>3, <2>1
  <2>2. CASE r # s
    BY <1>1, <1>2, <2>2 DEF Agree
  <2> QED BY <2>1, <2>2
<1>5. /\ \A u, v \in Threads, r \in CentralSpans : r \in gv[u] /\ r \in gv[v] => u = v
      /\ \A r \in pg : ~Given(gv, r)
  BY DEF Agree
<1>6. Agree(A1, fl1, uc1, pg, gv)
  BY <1>1, <1>4, <1>5 DEF Agree
<1> QED BY <1>6 DEF A1, fl1, uc1

(* ... or takes the span out of the lists, B being all that was out.       *)
LEMMA AgreeGive ==
  ASSUME NEW A, NEW fl, NEW uc, NEW pg, NEW gv, NEW s, NEW t, NEW B, Loss(A, fl, uc, pg, gv, s, t, B),
         gv \in [Threads -> SUBSET CentralSpans], uc[s] - Cardinality(B) = 0, gv[t] = {}
  PROVE  Agree(With(A, t, A[t] \ B), With(fl, s, {}),
               With(uc, s, uc[s] - Cardinality(B)), pg, With(gv, t, {s}))
<1> USE DEF Loss
<1> DEFINE A1 == With(A, t, A[t] \ B)
           fl1 == With(fl, s, {})
           uc1 == With(uc, s, uc[s] - Cardinality(B))
           gv1 == With(gv, t, {s})
<1>1. /\ \A u, v \in Threads, o \in Objects : o \in A1[u] /\ o \in A1[v] => u = v
      /\ OutOf(A1, s) = {}
      /\ \A r \in CentralSpans : r # s => OutOf(A1, r) = OutOf(A, r)
      /\ s \notin pg /\ ~Given(gv, s)
      /\ uc[s] - Cardinality(B) = Cardinality(OutOf(A1, s))
  <2>1. LossFacts(A, A1, uc, pg, gv, s, B)
    BY OwnerLoses
  <2> QED BY <2>1 DEF LossFacts
<1>2. fl1[s] = {} /\ uc1[s] = uc[s] - Cardinality(B)
      /\ \A r \in CentralSpans : r # s => fl1[r] = fl[r] /\ uc1[r] = uc[r]
  BY DEF With
<1>3. gv1[t] = {s} /\ \A u \in Threads : u # t => gv1[u] = gv[u]
  BY DEF With
<1> HIDE DEF A1, fl1, uc1, gv1
<1>4. Given(gv1, s) /\ \A r : r # s => (Given(gv1, r) <=> Given(gv, r))
  BY <1>3 DEF Given
<1>5. ASSUME NEW r \in CentralSpans
      PROVE  /\ uc1[r] = Cardinality(OutOf(A1, r)) /\ fl1[r] \cap OutOf(A1, r) = {}
             /\ r \in pg \/ Given(gv1, r)    => OutOf(A1, r) = {} /\ fl1[r] = {}
             /\ r \notin pg /\ ~Given(gv1, r) => fl1[r] \cup OutOf(A1, r) = ObjectsOf(r)
  <2>1. CASE r = s
    BY <1>1, <1>2, <1>4, <2>1
  <2>2. CASE r # s
    BY <1>1, <1>2, <1>4, <2>2 DEF Agree
  <2> QED BY <2>1, <2>2
<1>6. \A u, v \in Threads, r \in CentralSpans : r \in gv1[u] /\ r \in gv1[v] => u = v
  BY <1>1, <1>3 DEF Agree, Given
<1>7. \A r \in pg : ~Given(gv1, r)
  BY <1>1, <1>4 DEF Agree
<1>8. Agree(A1, fl1, uc1, pg, gv1)
  BY <1>1, <1>5, <1>6, <1>7 DEF Agree
<1> QED BY <1>8 DEF A1, fl1, uc1, gv1

(* release_span_to_page_cache takes the span that t gives back.            *)
LEMMA AgreeBack ==
  ASSUME NEW A, NEW fl, NEW uc, NEW pg, NEW gv \in [Threads -> SUBSET CentralSpans],
         Agree(A, fl, uc, pg, gv), NEW s \in CentralSpans, NEW t \in Threads, gv[t] = {s}
  PROVE  Agree(A, fl, uc, pg \cup {s}, With(gv, t, {}))
<1> DEFINE gv1 == With(gv, t, {})
<1>1. gv1[t] = {} /\ \A u \in Threads : u # t => gv1[u] = gv[u]
  BY DEF With
<1> HIDE DEF gv1
<1>2. Given(gv, s)
  BY DEF Given
<1>3. ~Given(gv1, s)
  BY <1>1 DEF Agree, Given
<1>4. \A r : r # s => (Given(gv1, r) <=> Given(gv, r))
  BY <1>1 DEF Given
<1>5. \A u, v \in Threads, r \in CentralSpans : r \in gv1[u] /\ r \in gv1[v] => u = v
  BY <1>1 DEF Agree
<1>6. Agree(A, fl, uc, pg \cup {s}, gv1)
  BY <1>2, <1>3, <1>4, <1>5 DEF Agree
<1> QED BY <1>6 DEF gv1

(* An object passes from t to u.                                           *)
LEMMA AgreePass ==
  ASSUME NEW A \in [Threads -> SUBSET Objects], NEW fl, NEW uc, NEW pg, NEW gv,
         Agree(A, fl, uc, pg, gv), NEW t \in Threads, NEW u \in Threads, t # u, NEW o \in A[t]
  PROVE  Agree(With(With(A, t, A[t] \ {o}), u, A[u] \cup {o}), fl, uc, pg, gv)
<1> DEFINE A1 == With(With(A, t, A[t] \ {o}), u, A[u] \cup {o})
<1>1. A1[t] = A[t] \ {o} /\ A1[u] = A[u] \cup {o} /\ \A v \in Threads : v # t /\ v # u => A1[v] = A[v]
  BY DEF With
<1> HIDE DEF A1
<1>2. ASSUME NEW s PROVE OutOf(A1, s) = OutOf(A, s)
  BY <1>1 DEF OutOf
<1>3. \A v, w \in Threads, x \in Objects : x \in A1[v] /\ x \in A1[w] => v = w
  BY <1>1 DEF Agree
<1>4. Agree(A1, fl, uc, pg, gv)
  BY <1>2, <1>3 DEF Agree
<1> QED BY <1>4 DEF A1

-----------------------------------------------------------------------------
(* The groups of release_list_to_spans                                     *)

\* All objects of the groups g.
Objs(g) == UNION {g[i].objs : i \in DOMAIN g}

\* The groups of a thread whose objects are not back in their span.
NotBack(p, g) == IF p = "giveback" THEN Tail(g) ELSE g

(* A thread that has the objects h, stands at p and holds the groups g:    *)
(* the groups are of different spans, and of what the thread has not kept. *)
Tidy(h, p, g) ==
  /\ IsFiniteSet(h)
  /\ p \notin {"locking", "splice", "giveback"} => g = <<>>
  /\ p = "giveback" => g # <<>>
  /\ \A i \in DOMAIN g : /\ g[i].objs # {} /\ g[i].objs \subseteq ObjectsOf(g[i].span)
                         /\ g[i].objs \cap h = {}
  /\ \A i, j \in DOMAIN g : g[i].span = g[j].span => i = j

LEMMA InObjs == \A g, o : o \in Objs(g) <=> \E i \in DOMAIN g : o \in g[i].objs
BY DEF Objs

(* The first group, and the others.                                        *)
LEMMA HeadGroup ==
  ASSUME NEW h, NEW p, NEW g \in Seq(Groups), Tidy(h, p, g), g # <<>>
  PROVE  /\ Head(g).span \in CentralSpans
         /\ Head(g).objs # {} /\ Head(g).objs \subseteq ObjectsOf(Head(g).span)
         /\ Head(g).objs \cap (h \cup Objs(Tail(g))) = {}
         /\ Objs(g) = Head(g).objs \cup Objs(Tail(g))
         /\ Tail(g) \in Seq(Groups)
         /\ Tidy(h, "splice", Tail(g)) /\ Tidy(h, "locking", Tail(g))
<1>1. /\ Len(g) \in Nat /\ Len(g) > 0 /\ DOMAIN g = 1..Len(g) /\ Head(g) = g[1] /\ 1 \in DOMAIN g
      /\ Tail(g) \in Seq(Groups) /\ DOMAIN Tail(g) = 1..(Len(g) - 1)
  OBVIOUS
<1>2. ASSUME NEW i \in DOMAIN Tail(g) PROVE i + 1 \in DOMAIN g /\ Tail(g)[i] = g[i + 1] /\ i + 1 # 1 /\ i \in Nat
  BY <1>1
<1>3. ASSUME NEW i \in DOMAIN g, i # 1 PROVE i - 1 \in DOMAIN Tail(g) /\ Tail(g)[i - 1] = g[i]
  BY <1>1, <1>3
<1>4. g[1] \in Groups
  BY <1>1
<1>5. Head(g).span \in CentralSpans /\ Head(g).objs # {} /\ Head(g).objs \subseteq ObjectsOf(Head(g).span)
      /\ Head(g).objs \cap h = {}
  BY <1>1, <1>4 DEF Tidy, Groups
<1>6. ASSUME NEW o \in Head(g).objs, o \in Objs(Tail(g)) PROVE FALSE
  <2>1. PICK i \in DOMAIN Tail(g) : o \in Tail(g)[i].objs
    BY <1>6, InObjs
  <2>2. o \in ObjectsOf(g[1].span) /\ o \in ObjectsOf(g[i + 1].span) /\ i + 1 \in DOMAIN g /\ i + 1 # 1
    BY <1>1, <1>2, <2>1 DEF Tidy
  <2>3. g[1].span = g[i + 1].span
    BY <2>2, ObjectsApart
  <2> QED BY <1>1, <2>2, <2>3 DEF Tidy
<1>7. Objs(g) = Head(g).objs \cup Objs(Tail(g))
  <2>1. ASSUME NEW o \in Objs(g) PROVE o \in Head(g).objs \cup Objs(Tail(g))
    <3>1. PICK i \in DOMAIN g : o \in g[i].objs
      BY InObjs
    <3>2. CASE i = 1
      BY <1>1, <3>1, <3>2
    <3>3. CASE i # 1
      BY <1>3, <3>1, <3>3, InObjs
    <3> QED BY <3>2, <3>3
  <2>2. Head(g).objs \subseteq Objs(g)
    BY <1>1, InObjs
  <2>3. ASSUME NEW o \in Objs(Tail(g)) PROVE o \in Objs(g)
    <3>1. PICK i \in DOMAIN Tail(g) : o \in Tail(g)[i].objs
      BY InObjs
    <3> QED BY <1>2, <3>1, InObjs
  <2> QED BY <2>1, <2>2, <2>3
<1>8. \A i \in DOMAIN Tail(g) : /\ Tail(g)[i].objs # {} /\ Tail(g)[i].objs \subseteq ObjectsOf(Tail(g)[i].span)
                                /\ Tail(g)[i].objs \cap h = {}
  BY <1>2 DEF Tidy
<1>9. ASSUME NEW i \in DOMAIN Tail(g), NEW j \in DOMAIN Tail(g), Tail(g)[i].span = Tail(g)[j].span PROVE i = j
  <2>1. i + 1 = j + 1
    BY <1>2, <1>9 DEF Tidy
  <2> QED BY <1>2, <2>1
<1>10. IsFiniteSet(h)
  BY DEF Tidy
<1>11. Tidy(h, "splice", Tail(g)) /\ Tidy(h, "locking", Tail(g))
  BY <1>8, <1>9, <1>10 DEF Tidy
<1> QED BY <1>1, <1>5, <1>6, <1>7, <1>11

(* The loop without the lock puts every object of the list R in a group,   *)
(* and makes one group for each span.                                      *)
LEMMA GroupedOK ==
  ASSUME NEW R, R \subseteq Objects, IsFiniteSet(R), NEW g \in Grouped(R)
  PROVE  /\ g \in Seq(Groups) /\ Objs(g) = R
         /\ \A i \in DOMAIN g : g[i].objs # {} /\ g[i].objs \subseteq ObjectsOf(g[i].span)
         /\ \A i, j \in DOMAIN g : g[i].span = g[j].span => i = j
<1> DEFINE owners == {o[1] : o \in R}
           k == Cardinality(owners)
           group(s) == [span |-> s, objs |-> R \cap ObjectsOf(s)]
           T == {group(s) : s \in owners}
<1>1. IsFiniteSet(owners) /\ k \in Nat
  <2>1. PICK f : f = [o \in R |-> o[1]]
    OBVIOUS
  <2>2. f \in Surjection(R, owners)
    BY <2>1 DEF Surjection
  <2>3. IsFiniteSet(owners)
    BY <2>2, FS_Surjection
  <2> QED BY <2>3, FS_CardinalityType
<1>2. IsFiniteSet(T) /\ Cardinality(T) <= k
  <2>1. PICK f : f = [s \in owners |-> group(s)]
    OBVIOUS
  <2>2. f \in Surjection(owners, T)
    BY <2>1 DEF Surjection
  <2> HIDE DEF owners, T
  <2> QED BY <1>1, <2>2, FS_Surjection
<1>3. g \in [1..k -> T] /\ \A i, j \in 1..k : g[i] = g[j] => i = j
  BY DEF Grouped
<1>4. \A s \in owners : s \in CentralSpans /\ \E o \in R : o \in ObjectsOf(s)
  BY ObjectsApart
<1>5. \A o \in R : o[1] \in owners /\ o \in ObjectsOf(o[1])
  BY ObjectsApart
<1>6. \A x \in T : \E s \in owners : x = group(s)
  OBVIOUS
<1>7. \A s \in owners : group(s) \in T
  OBVIOUS
<1> HIDE DEF owners, k, T
<1>8. g \in Injection(1..k, T)
  BY <1>3 DEF Injection, IsInjective
<1>9. Cardinality(1..k) = k /\ Cardinality(T) \in Nat
  BY <1>1, <1>2, FS_Interval, FS_CardinalityType
<1>10. g \in Surjection(1..k, T)
  <2>1. Cardinality(1..k) <= Cardinality(T) /\ (Cardinality(1..k) = Cardinality(T) <=> g \in Surjection(1..k, T))
    BY <1>2, <1>8, FS_Injection
  <2> QED BY <1>1, <1>2, <1>9, <2>1
<1>11. \A s : group(s).span = s /\ group(s).objs = R \cap ObjectsOf(s)
  OBVIOUS
<1>12. \A s \in owners : group(s) \in Groups
  BY <1>4 DEF Groups
<1> HIDE DEF group
<1>13. DOMAIN g = 1..k /\ \A i \in 1..k : \E s \in owners : g[i] = group(s)
  BY <1>3, <1>6
<1>14. g \in [1..k -> Groups]
  BY <1>3, <1>12, <1>13
<1>15. g \in Seq(Groups)
  BY <1>1, <1>14
<1>16. \A i \in DOMAIN g : g[i].objs # {} /\ g[i].objs \subseteq ObjectsOf(g[i].span) /\ g[i].objs \subseteq R
  BY <1>4, <1>11, <1>13
<1>17. \A i, j \in DOMAIN g : g[i].span = g[j].span => i = j
  BY <1>3, <1>11, <1>13
<1>18. ASSUME NEW o \in R PROVE \E i \in DOMAIN g : o \in g[i].objs
  <2>1. PICK i \in 1..k : g[i] = group(o[1])
    BY <1>5, <1>7, <1>10 DEF Surjection
  <2> QED BY <1>5, <1>11, <1>13, <2>1
<1>19. Objs(g) = R
  BY <1>16, <1>18, InObjs
<1> QED BY <1>15, <1>16, <1>17, <1>19

-----------------------------------------------------------------------------
(* The inductive invariant                                                 *)

OwnOf(h, p, g) == h \cup Objs(NotBack(p, g))
GivesOf(p, g)  == IF p = "giveback" THEN {Head(g).span} ELSE {}
Owned  == [t \in Threads |-> OwnOf(has[t], pc[t], groups[t])]
Giving == [t \in Threads |-> GivesOf(pc[t], groups[t])]

CountsAgree == Agree(Owned, free_list, use_count, paged, Giving)
AllTidy     == \A t \in Threads : Tidy(has[t], pc[t], groups[t])

\* Who is inside the bucket's lock, or the page cache's, holds it.
Locked ==
  /\ \A t \in Threads : pc[t] \in {"fetch", "newspan", "splice"} => bucket = t
  /\ \A t \in Threads : pc[t] = "newspan" => central_mtx = t

CentralInv ==
  /\ CentralTypeOK /\ AllTidy /\ CountsAgree /\ ListsMatch /\ Locked /\ BucketReleased

\* Nothing here is about the locks.
CacheInv == CentralTypeOK /\ AllTidy /\ CountsAgree /\ ListsMatch

LEMMA CentralTypes ==
  ASSUME CentralTypeOK, AllTidy
  PROVE  /\ Owned \in [Threads -> SUBSET Objects] /\ Giving \in [Threads -> SUBSET CentralSpans]
         /\ use_count \in [CentralSpans -> Nat]
         /\ \A t \in Threads : groups[t] \in Seq(Groups) /\ has[t] \subseteq Objects
<1>0. PerSpan \in Nat
  BY CentralAssumption DEF CentralConstants
<1>1. \A t \in Threads : groups[t] \in Seq(Groups) /\ has[t] \subseteq Objects
  BY DEF CentralTypeOK
<1>2. ASSUME NEW g \in Seq(Groups) PROVE Objs(g) \subseteq Objects
  <2>1. ASSUME NEW i \in DOMAIN g PROVE g[i].objs \subseteq Objects
    <3>1. g[i] \in Groups
      OBVIOUS
    <3> QED BY <3>1 DEF Groups
  <2> QED BY <2>1, InObjs
<1>3. ASSUME NEW t \in Threads
      PROVE  OwnOf(has[t], pc[t], groups[t]) \subseteq Objects /\ GivesOf(pc[t], groups[t]) \subseteq CentralSpans
  <2>1. Tidy(has[t], pc[t], groups[t]) /\ groups[t] \in Seq(Groups) /\ has[t] \subseteq Objects
    BY <1>1 DEF AllTidy
  <2>2. CASE pc[t] = "giveback"
    <3>1. groups[t] # <<>>
      BY <2>1, <2>2 DEF Tidy
    <3>2. Head(groups[t]).span \in CentralSpans /\ Tail(groups[t]) \in Seq(Groups)
      BY <2>1, <3>1, HeadGroup
    <3> QED BY <1>2, <2>1, <2>2, <3>2 DEF OwnOf, NotBack, GivesOf
  <2>3. CASE pc[t] # "giveback"
    BY <1>2, <2>1, <2>3 DEF OwnOf, NotBack, GivesOf
  <2> QED BY <2>2, <2>3
<1>4. use_count \in [CentralSpans -> Nat]
  BY <1>0 DEF CentralTypeOK
<1> QED BY <1>1, <1>3, <1>4 DEF Owned, Giving

(* In the next state, by parts.                                            *)
LEMMA CacheInvNext ==
  ASSUME CentralTypeOK', \A t \in Threads : Tidy(has'[t], pc'[t], groups'[t]),
         Agree(Owned', free_list', use_count', paged', Giving'), ListsMatch'
  PROVE  CacheInv'
<1>1. AllTidy'
  BY DEF AllTidy, Tidy
<1>2. CountsAgree'
  BY DEF CountsAgree, Agree, Given, OutOf
<1> QED BY <1>1, <1>2 DEF CacheInv

(* A step of the thread t leaves the other threads where they are.         *)
LEMMA OthersStay ==
  ASSUME NEW t \in Threads,
         \A u \in Threads : u # t => has'[u] = has[u] /\ pc'[u] = pc[u] /\ groups'[u] = groups[u]
  PROVE  /\ Owned' = With(Owned, t, OwnOf(has'[t], pc'[t], groups'[t]))
         /\ Giving' = With(Giving, t, GivesOf(pc'[t], groups'[t]))
         /\ Owned[t] = OwnOf(has[t], pc[t], groups[t]) /\ Giving[t] = GivesOf(pc[t], groups[t])
<1>1. Owned' = [u \in Threads |-> OwnOf(has'[u], pc'[u], groups'[u])]
  BY DEF Owned, OwnOf, NotBack, Objs
<1>2. Giving' = [u \in Threads |-> GivesOf(pc'[u], groups'[u])]
  BY DEF Giving, GivesOf
<1> QED BY <1>1, <1>2 DEF With, Owned, Giving

LEMMA WithSame ==
  ASSUME NEW S, NEW T, NEW f \in [S -> T], NEW x \in S
  PROVE  With(f, x, f[x]) = f
BY DEF With

(* A step that moves no object.                                            *)
LEMMA QuietKeeps ==
  ASSUME CacheInv, NEW t \in Threads, UNCHANGED lists, CentralTypeOK',
         \A u \in Threads : u # t => has'[u] = has[u] /\ pc'[u] = pc[u] /\ groups'[u] = groups[u],
         OwnOf(has'[t], pc'[t], groups'[t]) = OwnOf(has[t], pc[t], groups[t]),
         pc[t] # "giveback", pc'[t] # "giveback", Tidy(has'[t], pc'[t], groups'[t])
  PROVE  CacheInv'
<1>1. Owned \in [Threads -> SUBSET Objects] /\ Giving \in [Threads -> SUBSET CentralSpans]
  BY CentralTypes DEF CacheInv
<1>2. UNCHANGED <<paged, nonempty, empty, free_list, use_count>>
  BY DEF lists
<1>3. GivesOf(pc'[t], groups'[t]) = GivesOf(pc[t], groups[t])
  BY DEF GivesOf
<1>4. Owned' = With(Owned, t, Owned[t]) /\ Giving' = With(Giving, t, Giving[t])
  BY <1>3, OthersStay
<1>5. Owned' = Owned /\ Giving' = Giving
  BY <1>1, <1>4, WithSame
<1>6. Agree(Owned', free_list', use_count', paged', Giving')
  BY <1>2, <1>5 DEF CacheInv, CountsAgree
<1>7. ListsMatch'
  BY <1>2 DEF CacheInv, ListsMatch, Members, Distinct
<1>8. \A u \in Threads : Tidy(has'[u], pc'[u], groups'[u])
  BY DEF CacheInv, AllTidy
<1> QED BY <1>6, <1>7, <1>8, CacheInvNext

-----------------------------------------------------------------------------
(* Each step                                                               *)

Places == {"out", "fetch", "newspan", "locking", "splice", "giveback"}

LEMMA NoGroups == Objs(<<>>) = {}
BY DEF Objs

(* Locks taken and given back, and new_span that throws.                   *)
LEMMA LockingKeeps ==
  ASSUME CacheInv, NEW t \in Threads,
         FetchLock(t) \/ FetchMiss(t) \/ NewSpanFails(t) \/ ReleaseLock(t) \/ ReleaseEnds(t)
  PROVE  CacheInv'
<1>1. UNCHANGED <<lists, groups, has>>
  BY DEF FetchLock, FetchMiss, NewSpanFails, ReleaseLock, ReleaseEnds, LockBucket
<1>2. PICK q \in Places \ {"giveback"} :
        /\ pc' = [pc EXCEPT ![t] = q] /\ pc[t] # "giveback"
        /\ q \in {"out", "fetch", "newspan"} =>
             pc[t] \in {"out", "fetch", "newspan"} \/ groups[t] = <<>>
  BY DEF FetchLock, FetchMiss, NewSpanFails, ReleaseLock, ReleaseEnds, LockBucket, Go, Places
<1>3. bucket' \in Threads \cup {Nobody} /\ central_mtx' \in Threads \cup {Nobody}
  BY DEF FetchLock, FetchMiss, NewSpanFails, ReleaseLock, ReleaseEnds, LockBucket, CacheInv, CentralTypeOK
<1>4. CentralTypeOK'
  BY <1>1, <1>2, <1>3 DEF CacheInv, CentralTypeOK, lists, Places
<1>5. pc'[t] = q /\ \A u \in Threads : u # t => has'[u] = has[u] /\ pc'[u] = pc[u] /\ groups'[u] = groups[u]
  BY <1>1, <1>2 DEF CacheInv, CentralTypeOK
<1>6. Tidy(has[t], pc[t], groups[t])
  BY DEF CacheInv, AllTidy
<1>7. Tidy(has'[t], pc'[t], groups'[t])
  BY <1>1, <1>2, <1>5, <1>6 DEF Tidy, Places
<1>8. OwnOf(has'[t], pc'[t], groups'[t]) = OwnOf(has[t], pc[t], groups[t])
  BY <1>1, <1>2, <1>5 DEF OwnOf, NotBack
<1> QED BY <1>1, <1>2, <1>4, <1>5, <1>7, <1>8, QuietKeeps

(* The list to be released is grouped by span.                             *)
LEMMA GroupKeeps ==
  ASSUME CacheInv, NEW t \in Threads, NEW R \in SUBSET has[t], ReleaseGroup(t, R)
  PROVE  CacheInv'
<1>1. PICK g \in Grouped(R) : groups' = [groups EXCEPT ![t] = g]
  BY DEF ReleaseGroup
<1>2. /\ pc[t] = "out" /\ has' = [has EXCEPT ![t] = @ \ R] /\ pc' = [pc EXCEPT ![t] = "locking"]
      /\ UNCHANGED <<lists, bucket, central_mtx>>
  BY DEF ReleaseGroup, Go
<1>3. Tidy(has[t], pc[t], groups[t]) /\ has[t] \subseteq Objects
  BY DEF CacheInv, AllTidy, CentralTypeOK
<1>4. IsFiniteSet(has[t]) /\ groups[t] = <<>>
  BY <1>2, <1>3 DEF Tidy
<1>5. IsFiniteSet(R) /\ IsFiniteSet(has[t] \ R) /\ R \subseteq Objects
  BY <1>3, <1>4, FS_Subset
<1>6. /\ g \in Seq(Groups) /\ Objs(g) = R
      /\ \A i \in DOMAIN g : g[i].objs # {} /\ g[i].objs \subseteq ObjectsOf(g[i].span)
      /\ \A i, j \in DOMAIN g : g[i].span = g[j].span => i = j
  BY <1>5, GroupedOK
<1>7. has'[t] = has[t] \ R /\ pc'[t] = "locking" /\ groups'[t] = g
      /\ \A u \in Threads : u # t => has'[u] = has[u] /\ pc'[u] = pc[u] /\ groups'[u] = groups[u]
  BY <1>1, <1>2 DEF CacheInv, CentralTypeOK
<1>8. CentralTypeOK'
  BY <1>1, <1>2, <1>6 DEF CacheInv, CentralTypeOK, lists
<1>9. \A i \in DOMAIN g : g[i].objs \cap (has[t] \ R) = {}
  BY <1>6, InObjs
<1>10. Tidy(has'[t], pc'[t], groups'[t])
  BY <1>5, <1>6, <1>7, <1>9 DEF Tidy
<1>11. OwnOf(has[t], pc[t], groups[t]) = has[t] /\ OwnOf(has'[t], pc'[t], groups'[t]) = has[t]
  BY <1>2, <1>4, <1>6, <1>7, NoGroups DEF OwnOf, NotBack
<1> QED BY <1>2, <1>7, <1>8, <1>10, <1>11, QuietKeeps

(* A span comes from the page cache.                                       *)
LEMMA NewSpanKeeps ==
  ASSUME CacheInv, NEW t \in Threads, NewSpan(t)
  PROVE  CacheInv'
<1>1. PICK s \in paged :
        /\ paged' = paged \ {s} /\ free_list' = [free_list EXCEPT ![s] = ObjectsOf(s)]
        /\ use_count' = [use_count EXCEPT ![s] = 0] /\ nonempty' = <<s>> \o nonempty
  BY DEF NewSpan
<1>2. /\ pc[t] = "newspan" /\ pc' = [pc EXCEPT ![t] = "fetch"] /\ central_mtx' = Nobody
      /\ UNCHANGED <<empty, bucket, groups, has>>
  BY DEF NewSpan, Go
<1>3. s \in CentralSpans /\ paged \in SUBSET CentralSpans /\ free_list \in [CentralSpans -> SUBSET Objects]
      /\ nonempty \in Seq(CentralSpans) /\ PerSpan \in Nat /\ ObjectsOf(s) \subseteq Objects /\ ObjectsOf(s) # {}
  <2>1. PerSpan \in Nat /\ 1 \in 1..PerSpan
    BY CentralAssumption DEF CentralConstants
  <2>2. <<s, 1>> \in ObjectsOf(s)
    BY <2>1 DEF ObjectsOf
  <2> QED BY <2>1, <2>2, ObjectsApart DEF CacheInv, CentralTypeOK
<1>4. /\ Owned \in [Threads -> SUBSET Objects] /\ Giving \in [Threads -> SUBSET CentralSpans]
      /\ use_count \in [CentralSpans -> Nat] /\ Agree(Owned, free_list, use_count, paged, Giving)
  BY CentralTypes DEF CacheInv, CountsAgree
<1>5. pc'[t] = "fetch" /\ \A u \in Threads : u # t => has'[u] = has[u] /\ pc'[u] = pc[u] /\ groups'[u] = groups[u]
  BY <1>2 DEF CacheInv, CentralTypeOK
<1>6. Owned' = Owned /\ Giving' = Giving
  <2>1. OwnOf(has'[t], pc'[t], groups'[t]) = OwnOf(has[t], pc[t], groups[t])
        /\ GivesOf(pc'[t], groups'[t]) = GivesOf(pc[t], groups[t])
    BY <1>2, <1>5 DEF OwnOf, NotBack, GivesOf
  <2>2. Owned' = With(Owned, t, Owned[t]) /\ Giving' = With(Giving, t, Giving[t])
    BY <1>5, <2>1, OthersStay
  <2> QED BY <1>4, <2>2, WithSame
<1>7. Agree(Owned', free_list', use_count', paged', Giving')
  <2>1. Agree(Owned, With(free_list, s, ObjectsOf(s)), With(use_count, s, 0), paged \ {s}, Giving)
    BY <1>3, <1>4, AgreeNew
  <2> QED BY <1>1, <1>6, <2>1 DEF With
<1>8. free_list[s] = {} /\ use_count[s] = 0
  <2>1. free_list[s] = {} /\ use_count[s] = Cardinality(OutOf(Owned, s)) /\ OutOf(Owned, s) = {}
    BY <1>3, <1>4 DEF Agree
  <2> QED BY <2>1, FS_EmptySet
<1>9. s \notin Members(nonempty) /\ Distinct(nonempty) /\ s \notin empty
  BY <1>3, <1>8 DEF CacheInv, ListsMatch
<1>10. nonempty' \in Seq(CentralSpans) /\ Members(nonempty') = Members(nonempty) \cup {s} /\ Distinct(nonempty')
  BY <1>1, <1>3, <1>9, PushFront
<1>11. \A r \in CentralSpans : /\ free_list'[r] = IF r = s THEN ObjectsOf(s) ELSE free_list[r]
                               /\ use_count'[r] = IF r = s THEN 0 ELSE use_count[r]
  BY <1>1, <1>3, <1>4
<1>12. ListsMatch'
  <2>1. \A r \in CentralSpans : r \in Members(nonempty') <=> free_list'[r] # {}
    BY <1>3, <1>10, <1>11 DEF CacheInv, ListsMatch
  <2>2. \A r \in CentralSpans : r \in empty' <=> free_list'[r] = {} /\ use_count'[r] > 0
    BY <1>2, <1>3, <1>9, <1>11 DEF CacheInv, ListsMatch
  <2> QED BY <1>10, <2>1, <2>2 DEF ListsMatch, Members, Distinct
<1>13. \A u \in Threads : Tidy(has'[u], pc'[u], groups'[u])
  BY <1>2, <1>5 DEF CacheInv, AllTidy, Tidy
<1>14. CentralTypeOK'
  BY <1>1, <1>2, <1>3, <1>10 DEF CacheInv, CentralTypeOK
<1> QED BY <1>7, <1>12, <1>13, <1>14, CacheInvNext

(* A count is never more than the objects there are.                       *)
LEMMA CountRange ==
  ASSUME NEW A, NEW fl, NEW uc, NEW pg, NEW gv, Agree(A, fl, uc, pg, gv), NEW s \in CentralSpans
  PROVE  uc[s] \in 0..PerSpan
BY OutFinite DEF Agree

(* fetch_range_obj takes a batch from the first span of nonempty.          *)
LEMMA FetchKeeps ==
  ASSUME CacheInv, NEW t \in Threads, FetchTake(t)
  PROVE  CacheInv'
<1>1. PICK s : s = Head(nonempty)
  OBVIOUS
<1>2. PICK T \in SUBSET free_list[s] :
        /\ Cardinality(T) = MinOf(Batch, Cardinality(free_list[s]))
        /\ free_list' = [free_list EXCEPT ![s] = @ \ T]
        /\ use_count' = [use_count EXCEPT ![s] = @ + Cardinality(T)]
        /\ has' = [has EXCEPT ![t] = @ \cup T] /\ ListsAfterFetch(s)
  BY <1>1 DEF FetchTake, Counted
<1>3. /\ pc[t] = "fetch" /\ nonempty # <<>> /\ bucket' = Nobody /\ pc' = [pc EXCEPT ![t] = "out"]
      /\ UNCHANGED <<paged, central_mtx, groups>>
  BY DEF FetchTake, Go
<1>4. /\ Owned \in [Threads -> SUBSET Objects] /\ Giving \in [Threads -> SUBSET CentralSpans]
      /\ use_count \in [CentralSpans -> Nat] /\ Agree(Owned, free_list, use_count, paged, Giving)
  BY CentralTypes DEF CacheInv, CountsAgree
<1>5. /\ nonempty \in Seq(CentralSpans) /\ free_list \in [CentralSpans -> SUBSET Objects]
      /\ empty \subseteq CentralSpans /\ has \in [Threads -> SUBSET Objects] /\ pc \in [Threads -> Places]
  BY DEF CacheInv, CentralTypeOK, Places
<1>6. s \in CentralSpans /\ s \in Members(nonempty)
  BY <1>1, <1>3, <1>5, MembersTail
<1>7. free_list[s] # {} /\ Distinct(nonempty) /\ s \notin empty
  BY <1>6 DEF CacheInv, ListsMatch
<1>8. /\ has'[t] = has[t] \cup T /\ pc'[t] = "out" /\ groups'[t] = groups[t]
      /\ \A u \in Threads : u # t => has'[u] = has[u] /\ pc'[u] = pc[u] /\ groups'[u] = groups[u]
  BY <1>2, <1>3, <1>5
<1>9. Tidy(has[t], pc[t], groups[t])
  BY DEF CacheInv, AllTidy
<1>10. groups[t] = <<>> /\ IsFiniteSet(has[t])
  BY <1>3, <1>9 DEF Tidy
<1>11. Owned[t] = has[t] /\ OwnOf(has'[t], pc'[t], groups'[t]) = Owned[t] \cup T
       /\ GivesOf(pc'[t], groups'[t]) = Giving[t]
  <2>1. Owned[t] = OwnOf(has[t], pc[t], groups[t]) /\ Giving[t] = GivesOf(pc[t], groups[t])
    BY DEF Owned, Giving
  <2> QED BY <1>3, <1>8, <1>10, <2>1, NoGroups DEF OwnOf, NotBack, GivesOf
<1>12. Owned' = With(Owned, t, Owned[t] \cup T) /\ Giving' = Giving
  <2>1. Owned' = With(Owned, t, Owned[t] \cup T) /\ Giving' = With(Giving, t, Giving[t])
    BY <1>8, <1>11, OthersStay
  <2> QED BY <1>4, <2>1, WithSame
<1>13. Agree(Owned', free_list', use_count', paged', Giving')
  <2>1. T \subseteq free_list[s]
    BY <1>2
  <2>2. Agree(With(Owned, t, Owned[t] \cup T), With(free_list, s, free_list[s] \ T),
              With(use_count, s, use_count[s] + Cardinality(T)), paged, Giving)
    BY <1>4, <1>5, <1>6, <1>7, <2>1, AgreeFetch
  <2>3. /\ free_list' = With(free_list, s, free_list[s] \ T)
        /\ use_count' = With(use_count, s, use_count[s] + Cardinality(T)) /\ paged' = paged
    BY <1>2, <1>3 DEF With
  <2> QED BY <1>12, <2>2, <2>3
<1>14. \A r \in CentralSpans : /\ free_list'[r] = IF r = s THEN free_list[s] \ T ELSE free_list[r]
                               /\ r # s => use_count'[r] = use_count[r]
  BY <1>2, <1>4, <1>5
<1>15. T \subseteq ObjectsOf(s) /\ T \subseteq Objects /\ IsFiniteSet(T)
  <2>1. T \subseteq ObjectsOf(s)
    BY <1>2, <1>4, <1>6, <1>7 DEF Agree
  <2> QED BY <1>6, <2>1, ObjectsApart, ObjectsFinite, FS_Subset
<1>16. free_list'[s] = {} => use_count'[s] > 0
  <2> SUFFICES ASSUME free_list'[s] = {} PROVE use_count'[s] > 0
    OBVIOUS
  <2>1. T # {}
    BY <1>6, <1>7, <1>14
  <2>2. Cardinality(T) \in Nat /\ Cardinality(T) # 0
    BY <1>15, <2>1, FS_EmptySet, FS_CardinalityType
  <2>3. use_count'[s] = use_count[s] + Cardinality(T) /\ use_count[s] \in Nat
    BY <1>2, <1>4, <1>6
  <2> QED BY <2>2, <2>3
<1>17. nonempty' \in Seq(CentralSpans) /\ empty' \subseteq CentralSpans /\ ListsMatch'
  <2>1. CASE free_list'[s] = {}
    <3>1. nonempty' = Erased(nonempty, s) /\ empty' = empty \cup {s}
      BY <1>2, <2>1 DEF ListsAfterFetch
    <3>2. nonempty' \in Seq(CentralSpans) /\ Members(nonempty') = Members(nonempty) \ {s} /\ Distinct(nonempty')
      BY <1>5, <1>7, <3>1, ErasedOK
    <3>3. \A r \in CentralSpans : r \in Members(nonempty') <=> free_list'[r] # {}
      BY <1>14, <2>1, <3>2 DEF CacheInv, ListsMatch
    <3>4. \A r \in CentralSpans : r \in empty' <=> free_list'[r] = {} /\ use_count'[r] > 0
      BY <1>14, <1>16, <2>1, <3>1 DEF CacheInv, ListsMatch
    <3> QED BY <1>5, <1>6, <3>1, <3>2, <3>3, <3>4 DEF ListsMatch, Members, Distinct
  <2>2. CASE free_list'[s] # {}
    <3>1. nonempty' = nonempty /\ empty' = empty
      BY <1>2, <2>2 DEF ListsAfterFetch
    <3>2. \A r \in CentralSpans : r \in Members(nonempty) <=> free_list'[r] # {}
      BY <1>6, <1>14, <2>2 DEF CacheInv, ListsMatch
    <3>3. \A r \in CentralSpans : r \in empty' <=> free_list'[r] = {} /\ use_count'[r] > 0
      BY <1>7, <1>14, <2>2, <3>1 DEF CacheInv, ListsMatch
    <3> QED BY <1>5, <1>7, <3>1, <3>2, <3>3 DEF ListsMatch, Members, Distinct
  <2> QED BY <2>1, <2>2
<1>18. \A u \in Threads : Tidy(has'[u], pc'[u], groups'[u])
  <2>1. IsFiniteSet(has[t] \cup T)
    BY <1>10, <1>15, FS_Union
  <2>2. Tidy(has'[t], pc'[t], groups'[t])
    BY <1>8, <1>10, <2>1 DEF Tidy
  <2> QED BY <1>8, <2>2 DEF CacheInv, AllTidy
<1>19. CentralTypeOK'
  <2>1. use_count' \in [CentralSpans -> 0..PerSpan]
    <3>1. \A r \in CentralSpans : use_count'[r] \in 0..PerSpan
      BY <1>13, CountRange
    <3>2. use_count' = [r \in CentralSpans |-> use_count'[r]]
      BY <1>2, <1>4
    <3> QED BY <3>1, <3>2
  <2>2. free_list' \in [CentralSpans -> SUBSET Objects] /\ has' \in [Threads -> SUBSET Objects]
        /\ pc' \in [Threads -> Places]
    BY <1>2, <1>3, <1>5, <1>15 DEF Places
  <2> QED BY <1>3, <1>17, <2>1, <2>2 DEF CacheInv, CentralTypeOK, Places
<1> QED BY <1>13, <1>17, <1>18, <1>19, CacheInvNext

(* release_list_to_spans puts the first group back.                        *)
LEMMA SpliceKeeps ==
  ASSUME CacheInv, NEW t \in Threads, Splice(t)
  PROVE  CacheInv'
<1>1. PICK s, B, left : s = Head(groups[t]).span /\ B = Head(groups[t]).objs /\ left = use_count[s] - Cardinality(B)
  OBVIOUS
<1>2. /\ pc[t] = "splice" /\ groups[t] # <<>> /\ use_count' = [use_count EXCEPT ![s] = left]
      /\ UNCHANGED <<paged, central_mtx, has>>
  BY <1>1 DEF Splice, Left
<1>3. /\ Owned \in [Threads -> SUBSET Objects] /\ Giving \in [Threads -> SUBSET CentralSpans]
      /\ use_count \in [CentralSpans -> Nat] /\ Agree(Owned, free_list, use_count, paged, Giving)
  BY CentralTypes DEF CacheInv, CountsAgree
<1>4. /\ nonempty \in Seq(CentralSpans) /\ free_list \in [CentralSpans -> SUBSET Objects]
      /\ empty \subseteq CentralSpans /\ has \in [Threads -> SUBSET Objects] /\ pc \in [Threads -> Places]
      /\ groups \in [Threads -> Seq(Groups)] /\ groups[t] \in Seq(Groups)
  BY DEF CacheInv, CentralTypeOK, Places
<1>5. Tidy(has[t], pc[t], groups[t])
  BY DEF CacheInv, AllTidy
<1>6. /\ s \in CentralSpans /\ B # {} /\ B \subseteq ObjectsOf(s)
      /\ B \cap (has[t] \cup Objs(Tail(groups[t]))) = {}
      /\ Objs(groups[t]) = B \cup Objs(Tail(groups[t])) /\ Tail(groups[t]) \in Seq(Groups)
      /\ Tidy(has[t], "splice", Tail(groups[t]))
  BY <1>1, <1>2, <1>4, <1>5, HeadGroup
<1>7. Owned[t] = has[t] \cup Objs(groups[t]) /\ Giving[t] = {}
  BY <1>2 DEF Owned, Giving, OwnOf, GivesOf, NotBack
<1>8. has[t] \cup Objs(Tail(groups[t])) = Owned[t] \ B /\ B \subseteq Owned[t]
  BY <1>6, <1>7
<1>9. Loss(Owned, free_list, use_count, paged, Giving, s, t, B)
  BY <1>3, <1>4, <1>6, <1>8 DEF Loss
<1>10. LossFacts(Owned, With(Owned, t, Owned[t] \ B), use_count, paged, Giving, s, B)
  BY <1>9, OwnerLoses
<1>11. left \in 0..PerSpan /\ use_count[s] > 0
  BY <1>1, <1>10 DEF LossFacts
<1>12. use_count' \in [CentralSpans -> 0..PerSpan] /\ use_count'[s] = left
       /\ \A r \in CentralSpans : r # s => use_count'[r] = use_count[r]
  BY <1>2, <1>6, <1>11 DEF CacheInv, CentralTypeOK
<1>13. Distinct(nonempty) /\ (s \in Members(nonempty) <=> free_list[s] # {}) /\ (s \in empty <=> free_list[s] = {})
  BY <1>6, <1>11 DEF CacheInv, ListsMatch
<1>14. use_count' = With(use_count, s, use_count[s] - Cardinality(B))
  BY <1>1, <1>2 DEF With
\* The last object of the span: it leaves the lists.
<1>15. CASE left = 0
  <2>1. /\ free_list' = [free_list EXCEPT ![s] = {}] /\ bucket' = Nobody
        /\ pc' = [pc EXCEPT ![t] = "giveback"] /\ UNCHANGED groups
        /\ IF free_list[s] = {} THEN empty' = empty \ {s} /\ UNCHANGED nonempty
                                ELSE nonempty' = Erased(nonempty, s) /\ UNCHANGED empty
    BY <1>1, <1>15 DEF Splice, Left, WasEmpty, Go
  <2>2. /\ has'[t] = has[t] /\ pc'[t] = "giveback" /\ groups'[t] = groups[t]
        /\ \A u \in Threads : u # t => has'[u] = has[u] /\ pc'[u] = pc[u] /\ groups'[u] = groups[u]
    BY <1>2, <1>4, <2>1
  <2>3. OwnOf(has'[t], pc'[t], groups'[t]) = Owned[t] \ B /\ GivesOf(pc'[t], groups'[t]) = {s}
    BY <1>1, <1>8, <2>2 DEF OwnOf, NotBack, GivesOf
  <2>4. Owned' = With(Owned, t, Owned[t] \ B) /\ Giving' = With(Giving, t, {s})
    BY <2>2, <2>3, OthersStay
  <2>5. Agree(Owned', free_list', use_count', paged', Giving')
    <3>1. Agree(With(Owned, t, Owned[t] \ B), With(free_list, s, {}),
                With(use_count, s, use_count[s] - Cardinality(B)), paged, With(Giving, t, {s}))
      BY <1>1, <1>3, <1>7, <1>9, <1>15, AgreeGive
    <3>2. free_list' = With(free_list, s, {}) /\ paged' = paged
      BY <1>2, <2>1 DEF With
    <3> QED BY <1>14, <2>4, <3>1, <3>2
  <2>6. \A r \in CentralSpans : free_list'[r] = IF r = s THEN {} ELSE free_list[r]
    BY <1>4, <2>1
  <2>7. /\ nonempty' \in Seq(CentralSpans) /\ Distinct(nonempty') /\ empty' \subseteq CentralSpans
        /\ Members(nonempty') = Members(nonempty) \ {s} /\ empty' = empty \ {s}
    <3>1. CASE free_list[s] = {}
      BY <1>4, <1>13, <2>1, <3>1
    <3>2. CASE free_list[s] # {}
      <4>1. nonempty' = Erased(nonempty, s) /\ empty' = empty
        BY <2>1, <3>2
      <4>2. nonempty' \in Seq(CentralSpans) /\ Members(nonempty') = Members(nonempty) \ {s} /\ Distinct(nonempty')
        BY <1>4, <1>13, <4>1, ErasedOK
      <4> QED BY <1>4, <1>13, <3>2, <4>1, <4>2
    <3> QED BY <3>1, <3>2
  <2>8. ListsMatch'
    <3>1. \A r \in CentralSpans : r \in Members(nonempty') <=> free_list'[r] # {}
      BY <2>6, <2>7 DEF CacheInv, ListsMatch
    <3>2. \A r \in CentralSpans : r \in empty' <=> free_list'[r] = {} /\ use_count'[r] > 0
      BY <1>12, <1>15, <2>6, <2>7 DEF CacheInv, ListsMatch
    <3> QED BY <2>7, <3>1, <3>2 DEF ListsMatch, Members, Distinct
  <2>9. \A u \in Threads : Tidy(has'[u], pc'[u], groups'[u])
    <3>1. Tidy(has'[t], pc'[t], groups'[t])
      BY <1>2, <1>5, <2>2 DEF Tidy
    <3> QED BY <2>2, <3>1 DEF CacheInv, AllTidy
  <2>10. CentralTypeOK'
    <3>1. free_list' \in [CentralSpans -> SUBSET Objects] /\ pc' \in [Threads -> Places]
      BY <1>4, <2>1 DEF Places
    <3> QED BY <1>2, <1>12, <2>1, <2>7, <3>1 DEF CacheInv, CentralTypeOK, Places
  <2> QED BY <2>5, <2>8, <2>9, <2>10, CacheInvNext
\* Others are out: the objects go back to the free list.
<1>16. CASE left # 0
  <2>1. /\ free_list' = [free_list EXCEPT ![s] = @ \cup B]
        /\ groups' = [groups EXCEPT ![t] = Tail(@)] /\ UNCHANGED <<bucket, pc>>
        /\ IF free_list[s] = {} THEN empty' = empty \ {s} /\ nonempty' = <<s>> \o nonempty
                                ELSE UNCHANGED <<empty, nonempty>>
    BY <1>1, <1>16 DEF Splice, Left, WasEmpty
  <2>2. /\ has'[t] = has[t] /\ pc'[t] = "splice" /\ groups'[t] = Tail(groups[t])
        /\ \A u \in Threads : u # t => has'[u] = has[u] /\ pc'[u] = pc[u] /\ groups'[u] = groups[u]
    BY <1>2, <1>4, <2>1
  <2>3. OwnOf(has'[t], pc'[t], groups'[t]) = Owned[t] \ B /\ GivesOf(pc'[t], groups'[t]) = Giving[t]
    BY <1>7, <1>8, <2>2 DEF OwnOf, NotBack, GivesOf
  <2>4. Owned' = With(Owned, t, Owned[t] \ B) /\ Giving' = Giving
    <3>1. Owned' = With(Owned, t, Owned[t] \ B) /\ Giving' = With(Giving, t, Giving[t])
      BY <2>2, <2>3, OthersStay
    <3> QED BY <1>3, <3>1, WithSame
  <2>5. Agree(Owned', free_list', use_count', paged', Giving')
    <3>1. Agree(With(Owned, t, Owned[t] \ B), With(free_list, s, free_list[s] \cup B),
                With(use_count, s, use_count[s] - Cardinality(B)), paged, Giving)
      BY <1>9, AgreeKeep
    <3>2. free_list' = With(free_list, s, free_list[s] \cup B) /\ paged' = paged
      BY <1>2, <2>1 DEF With
    <3> QED BY <1>14, <2>4, <3>1, <3>2
  <2>6. free_list'[s] = free_list[s] \cup B /\ \A r \in CentralSpans : r # s => free_list'[r] = free_list[r]
    BY <1>4, <1>6, <2>1
  <2>7. /\ nonempty' \in Seq(CentralSpans) /\ Distinct(nonempty') /\ empty' \subseteq CentralSpans
        /\ Members(nonempty') = Members(nonempty) \cup {s} /\ empty' = empty \ {s}
    <3>1. CASE free_list[s] = {}
      <4>1. nonempty' = <<s>> \o nonempty /\ empty' = empty \ {s}
        BY <2>1, <3>1
      <4>2. nonempty' \in Seq(CentralSpans) /\ Members(nonempty') = Members(nonempty) \cup {s} /\ Distinct(nonempty')
        BY <1>4, <1>6, <1>13, <3>1, <4>1, PushFront
      <4> QED BY <1>4, <4>1, <4>2
    <3>2. CASE free_list[s] # {}
      BY <1>4, <1>13, <2>1, <3>2
    <3> QED BY <3>1, <3>2
  <2>8. ListsMatch'
    <3>1. \A r \in CentralSpans : r \in Members(nonempty') <=> free_list'[r] # {}
      BY <1>6, <2>6, <2>7 DEF CacheInv, ListsMatch
    <3>2. \A r \in CentralSpans : r \in empty' <=> free_list'[r] = {} /\ use_count'[r] > 0
      BY <1>6, <1>12, <2>6, <2>7 DEF CacheInv, ListsMatch
    <3> QED BY <2>7, <3>1, <3>2 DEF ListsMatch, Members, Distinct
  <2>9. \A u \in Threads : Tidy(has'[u], pc'[u], groups'[u])
    BY <1>6, <2>2 DEF CacheInv, AllTidy
  <2>10. CentralTypeOK'
    <3>1. free_list' \in [CentralSpans -> SUBSET Objects] /\ groups' \in [Threads -> Seq(Groups)]
      <4>1. B \subseteq Objects
        BY <1>6, ObjectsApart
      <4> QED BY <1>4, <1>6, <2>1, <4>1
    <3> QED BY <1>2, <1>12, <2>1, <2>7, <3>1 DEF CacheInv, CentralTypeOK
  <2> QED BY <2>5, <2>8, <2>9, <2>10, CacheInvNext
<1> QED BY <1>15, <1>16

(* The page cache takes the span, while the bucket is unlocked.            *)
LEMMA GiveBackKeeps ==
  ASSUME CacheInv, NEW t \in Threads, GiveBack(t)
  PROVE  CacheInv'
<1>1. PICK s : s = Head(groups[t]).span
  OBVIOUS
<1>2. /\ pc[t] = "giveback" /\ paged' = paged \cup {s} /\ groups' = [groups EXCEPT ![t] = Tail(@)]
      /\ pc' = [pc EXCEPT ![t] = "locking"]
      /\ UNCHANGED <<nonempty, empty, free_list, use_count, bucket, central_mtx, has>>
  BY <1>1 DEF GiveBack, Go
<1>3. /\ Owned \in [Threads -> SUBSET Objects] /\ Giving \in [Threads -> SUBSET CentralSpans]
      /\ Agree(Owned, free_list, use_count, paged, Giving)
  BY CentralTypes DEF CacheInv, CountsAgree
<1>4. groups \in [Threads -> Seq(Groups)] /\ groups[t] \in Seq(Groups) /\ pc \in [Threads -> Places]
      /\ Tidy(has[t], pc[t], groups[t])
  BY DEF CacheInv, CentralTypeOK, Places, AllTidy
<1>5. groups[t] # <<>>
  BY <1>2, <1>4 DEF Tidy
<1>6. s \in CentralSpans /\ Tail(groups[t]) \in Seq(Groups) /\ Tidy(has[t], "locking", Tail(groups[t]))
  BY <1>1, <1>4, <1>5, HeadGroup
<1>7. /\ has'[t] = has[t] /\ pc'[t] = "locking" /\ groups'[t] = Tail(groups[t])
      /\ \A u \in Threads : u # t => has'[u] = has[u] /\ pc'[u] = pc[u] /\ groups'[u] = groups[u]
  BY <1>2, <1>4
<1>8. Giving[t] = {s} /\ OwnOf(has'[t], pc'[t], groups'[t]) = Owned[t] /\ GivesOf(pc'[t], groups'[t]) = {}
  BY <1>1, <1>2, <1>7 DEF Owned, Giving, OwnOf, GivesOf, NotBack
<1>9. Owned' = Owned /\ Giving' = With(Giving, t, {})
  <2>1. Owned' = With(Owned, t, Owned[t]) /\ Giving' = With(Giving, t, {})
    BY <1>7, <1>8, OthersStay
  <2> QED BY <1>3, <2>1, WithSame
<1>10. Agree(Owned', free_list', use_count', paged', Giving')
  <2>1. Agree(Owned, free_list, use_count, paged \cup {s}, With(Giving, t, {}))
    BY <1>3, <1>6, <1>8, AgreeBack
  <2> QED BY <1>2, <1>9, <2>1
<1>11. ListsMatch'
  BY <1>2 DEF CacheInv, ListsMatch, Members, Distinct
<1>12. \A u \in Threads : Tidy(has'[u], pc'[u], groups'[u])
  BY <1>6, <1>7 DEF CacheInv, AllTidy
<1>13. CentralTypeOK'
  BY <1>2, <1>4, <1>6 DEF CacheInv, CentralTypeOK
<1> QED BY <1>10, <1>11, <1>12, <1>13, CacheInvNext

(* An object is freed on another thread than it was allocated on.          *)
LEMMA PassKeeps ==
  ASSUME CacheInv, NEW t \in Threads, NEW u \in Threads, NEW o \in has[t], PassObject(t, u, o)
  PROVE  CacheInv'
<1>1. /\ pc[t] = "out" /\ pc[u] = "out" /\ t # u
      /\ has' = [has EXCEPT ![t] = @ \ {o}, ![u] = @ \cup {o}]
      /\ UNCHANGED <<lists, bucket, central_mtx, pc, groups>>
  BY DEF PassObject
<1>2. /\ Owned \in [Threads -> SUBSET Objects] /\ Agree(Owned, free_list, use_count, paged, Giving)
  BY CentralTypes DEF CacheInv, CountsAgree
<1>3. has \in [Threads -> SUBSET Objects] /\ Tidy(has[t], pc[t], groups[t]) /\ Tidy(has[u], pc[u], groups[u])
  BY DEF CacheInv, CentralTypeOK, AllTidy
<1>4. /\ has'[t] = has[t] \ {o} /\ has'[u] = has[u] \cup {o}
      /\ \A v \in Threads : v # t /\ v # u => has'[v] = has[v]
  BY <1>1, <1>3
<1>5. groups[t] = <<>> /\ groups[u] = <<>> /\ IsFiniteSet(has[t]) /\ IsFiniteSet(has[u])
  BY <1>1, <1>3 DEF Tidy
<1>6. Owned[t] = has[t] /\ Owned[u] = has[u]
  BY <1>1, <1>5, NoGroups DEF Owned, OwnOf, NotBack
<1>7. Owned' = [v \in Threads |-> OwnOf(has'[v], pc[v], groups[v])] /\ Giving' = Giving
  BY <1>1 DEF Owned, OwnOf, NotBack, Objs, Giving, GivesOf
<1>8. OwnOf(has'[t], pc[t], groups[t]) = Owned[t] \ {o} /\ OwnOf(has'[u], pc[u], groups[u]) = Owned[u] \cup {o}
  BY <1>1, <1>4, <1>5, <1>6, NoGroups DEF OwnOf, NotBack
<1>9. ASSUME NEW v \in Threads, v # t, v # u PROVE OwnOf(has'[v], pc[v], groups[v]) = Owned[v]
  BY <1>4, <1>9 DEF Owned
<1>10. Owned' = With(With(Owned, t, Owned[t] \ {o}), u, Owned[u] \cup {o})
  BY <1>1, <1>2, <1>7, <1>8, <1>9 DEF With
<1>11. Agree(Owned', free_list', use_count', paged', Giving')
  <2>1. Agree(With(With(Owned, t, Owned[t] \ {o}), u, Owned[u] \cup {o}), free_list, use_count, paged, Giving)
    BY <1>1, <1>2, <1>6, AgreePass
  <2> QED BY <1>1, <1>7, <1>10, <2>1 DEF lists
<1>12. ListsMatch'
  BY <1>1 DEF CacheInv, ListsMatch, Members, Distinct, lists
<1>13. Tidy(has'[t], pc'[t], groups'[t]) /\ Tidy(has'[u], pc'[u], groups'[u])
  <2>1. IsFiniteSet(has[t] \ {o}) /\ IsFiniteSet(has[u] \cup {o})
    BY <1>5, FS_RemoveElement, FS_AddElement
  <2>2. ASSUME NEW h, IsFiniteSet(h) PROVE Tidy(h, "out", <<>>)
    BY <2>2 DEF Tidy
  <2>3. pc'[t] = "out" /\ pc'[u] = "out" /\ groups'[t] = <<>> /\ groups'[u] = <<>>
    BY <1>1, <1>5
  <2> QED BY <1>4, <2>1, <2>2, <2>3
<1>14. \A v \in Threads : Tidy(has'[v], pc'[v], groups'[v])
  BY <1>1, <1>4, <1>13 DEF CacheInv, AllTidy
<1>15. CentralTypeOK'
  <2>1. o \in Objects
    BY <1>3
  <2>2. has' \in [Threads -> SUBSET Objects]
    BY <1>1, <1>3, <2>1
  <2> QED BY <1>1, <2>2 DEF CacheInv, CentralTypeOK, lists
<1> QED BY <1>11, <1>12, <1>14, <1>15, CacheInvNext

-----------------------------------------------------------------------------
(* The locks                                                               *)

(* Where a step leaves the locks and the thread that takes it.             *)
LEMMA LocksStep ==
  ASSUME CentralTypeOK, Locked, BucketReleased, CentralNext
  PROVE  Locked' /\ BucketReleased'
<1>1. PICK t \in Threads :
        \/ FetchLock(t) \/ Locking(t) \/ Working(t)
        \/ \E R \in SUBSET has[t] : ReleaseGroup(t, R)
        \/ \E u \in Threads, o \in has[t] : PassObject(t, u, o)
  BY DEF CentralNext
<1>2. Nobody \notin Threads /\ pc \in [Threads -> Places]
  BY CentralAssumption DEF CentralConstants, CentralTypeOK, Places
<1>3. ASSUME NEW q \in Places, pc' = [pc EXCEPT ![t] = q],
             \/ /\ bucket' = bucket /\ central_mtx' = central_mtx
                /\ \/ pc[t] = "newspan" /\ q = "out"
                   \/ pc[t] \in {"out", "giveback"} /\ q = "locking"
             \/ /\ bucket = Nobody /\ bucket' = t /\ central_mtx' = central_mtx
                /\ pc[t] \in {"out", "locking"} /\ q \in {"fetch", "splice"}
             \/ /\ pc[t] \in {"fetch", "splice"} /\ bucket' = Nobody /\ central_mtx' = central_mtx
                /\ q \in {"out", "giveback"}
             \/ /\ pc[t] = "fetch" /\ q = "newspan" /\ central_mtx = Nobody /\ central_mtx' = t /\ bucket' = bucket
             \/ /\ pc[t] = "newspan" /\ q = "fetch" /\ central_mtx' = Nobody /\ bucket' = bucket
      PROVE  Locked' /\ BucketReleased'
  <2>1. pc'[t] = q /\ \A u \in Threads : u # t => pc'[u] = pc[u]
    BY <1>2, <1>3
  <2>2. Locked'
    BY <1>2, <1>3, <2>1 DEF Locked
  <2>3. CASE Abandoned
    <3>1. PICK u \in Threads : central_mtx = u /\ pc[u] # "newspan"
      BY <2>3 DEF Abandoned
    <3>2. pc[t] # "newspan" /\ central_mtx # Nobody
      BY <1>2, <3>1 DEF Locked
    <3>3. central_mtx' = u /\ q # "newspan"
      BY <1>3, <3>1, <3>2
    <3>4. Abandoned'
      BY <2>1, <3>1, <3>3 DEF Abandoned
    <3> QED BY <2>2, <3>4 DEF BucketReleased
  <2>4. CASE pc[t] = "newspan" /\ q # "fetch"
    <3>1. central_mtx' = t /\ pc'[t] # "newspan"
      BY <1>3, <2>1, <2>4 DEF Locked
    <3>2. Abandoned'
      BY <3>1 DEF Abandoned
    <3> QED BY <2>2, <3>2 DEF BucketReleased
  <2>5. CASE ~Abandoned /\ ~(pc[t] = "newspan" /\ q # "fetch")
    <3>1. \A u \in Threads : bucket = u => pc[u] \in {"fetch", "newspan", "splice"}
      BY <2>5 DEF BucketReleased
    <3>2. ASSUME NEW u \in Threads, bucket' = u PROVE pc'[u] \in {"fetch", "newspan", "splice"}
      BY <1>2, <1>3, <2>1, <2>5, <3>1, <3>2
    <3> QED BY <2>2, <3>2 DEF BucketReleased
  <2> QED BY <2>3, <2>4, <2>5
<1>4. CASE FetchLock(t) \/ ReleaseLock(t)
  BY <1>3, <1>4 DEF FetchLock, ReleaseLock, LockBucket, Go, Places
<1>5. CASE FetchMiss(t) \/ NewSpan(t)
  BY <1>3, <1>5 DEF FetchMiss, NewSpan, Go, Places
<1>6. CASE FetchTake(t) \/ ReleaseEnds(t)
  BY <1>3, <1>6 DEF FetchTake, ReleaseEnds, Go, Places
<1>7. CASE NewSpanFails(t)
  <2>1. /\ pc[t] = "newspan" /\ pc' = [pc EXCEPT ![t] = "out"]
        /\ bucket' = bucket /\ central_mtx' = central_mtx /\ "out" \in Places
    BY <1>7 DEF NewSpanFails, Go, Places
  <2> QED BY <1>3, <2>1
<1>8. CASE GiveBack(t)
  BY <1>3, <1>8 DEF GiveBack, Go, Places
<1>9. CASE Splice(t)
  <2>1. /\ pc[t] = "splice" /\ central_mtx' = central_mtx
        /\ \/ bucket' = Nobody /\ pc' = [pc EXCEPT ![t] = "giveback"]
           \/ bucket' = bucket /\ pc' = pc
    BY <1>9 DEF Splice, Go
  <2>2. CASE bucket' = Nobody /\ pc' = [pc EXCEPT ![t] = "giveback"]
    BY <1>3, <2>1, <2>2 DEF Places
  <2>3. CASE bucket' = bucket /\ pc' = pc
    BY <2>1, <2>3 DEF Locked, BucketReleased, Abandoned
  <2> QED BY <2>1, <2>2, <2>3
<1>10. ASSUME NEW R \in SUBSET has[t], ReleaseGroup(t, R) PROVE Locked' /\ BucketReleased'
  BY <1>3, <1>10 DEF ReleaseGroup, Go, Places
<1>11. ASSUME NEW u \in Threads, NEW o \in has[t], PassObject(t, u, o) PROVE Locked' /\ BucketReleased'
  BY <1>11 DEF PassObject, Locked, BucketReleased, Abandoned
<1> QED BY <1>1, <1>4, <1>5, <1>6, <1>7, <1>8, <1>9, <1>10, <1>11 DEF Locking, Working

-----------------------------------------------------------------------------
(* CentralCache: the theorem                                               *)

LEMMA InitCentralInv == CentralInit => CentralInv
<1> SUFFICES ASSUME CentralInit PROVE CentralInv
  OBVIOUS
<1> USE DEF CentralInit
<1>0. PerSpan \in Nat /\ Nobody \notin Threads
  BY CentralAssumption DEF CentralConstants
<1>1. CentralTypeOK
  BY <1>0 DEF CentralTypeOK
<1>2. AllTidy
  <2>1. IsFiniteSet({})
    BY FS_EmptySet
  <2> QED BY <2>1 DEF AllTidy, Tidy
<1>3. \A t \in Threads : Owned[t] = {} /\ Giving[t] = {}
  BY NoGroups DEF Owned, Giving, OwnOf, GivesOf, NotBack
<1>4. \A s : OutOf(Owned, s) = {} /\ ~Given(Giving, s)
  BY <1>3 DEF OutOf, Given
<1>5. Cardinality({}) = 0
  BY FS_EmptySet
<1>6. CountsAgree
  BY <1>3, <1>4, <1>5 DEF CountsAgree, Agree
<1>7. ListsMatch
  BY DEF ListsMatch, Members, Distinct
<1>8. Locked /\ BucketReleased
  BY <1>0 DEF Locked, BucketReleased
<1> QED BY <1>1, <1>2, <1>6, <1>7, <1>8 DEF CentralInv

LEMMA CentralInvStep == CentralInv /\ [CentralNext]_zvars => CentralInv'
<1> SUFFICES ASSUME CentralInv, [CentralNext]_zvars PROVE CentralInv'
  OBVIOUS
<1>1. CacheInv /\ CentralTypeOK /\ Locked /\ BucketReleased
  BY DEF CentralInv, CacheInv
<1>2. CASE CentralNext
  <2>1. CacheInv'
    BY <1>1, <1>2, LockingKeeps, GroupKeeps, NewSpanKeeps, FetchKeeps, SpliceKeeps, GiveBackKeeps, PassKeeps
       DEF CentralNext, Locking, Working
  <2>2. Locked' /\ BucketReleased'
    BY <1>1, <1>2, LocksStep
  <2> QED BY <2>1, <2>2 DEF CentralInv, CacheInv
<1>3. CASE UNCHANGED zvars
  <2>1. UNCHANGED <<paged, nonempty, empty, free_list, use_count, bucket, central_mtx, pc, groups, has>>
    BY <1>3 DEF zvars, lists
  <2>2. CentralTypeOK'
    BY <1>1, <2>1 DEF CentralTypeOK
  <2>3. ListsMatch'
    BY <1>1, <2>1 DEF CacheInv, ListsMatch, Members, Distinct
  <2>4. AllTidy'
    BY <1>1, <2>1 DEF CacheInv, AllTidy, Tidy
  <2>5. Owned' = Owned /\ Giving' = Giving
    BY <2>1 DEF Owned, Giving, OwnOf, NotBack, Objs, GivesOf
  <2>6. CountsAgree'
    BY <1>1, <2>1, <2>5 DEF CacheInv, CountsAgree
  <2>7. Locked' /\ BucketReleased'
    BY <1>1, <2>1 DEF Locked, BucketReleased, Abandoned
  <2> QED BY <2>2, <2>3, <2>4, <2>6, <2>7 DEF CentralInv
<1> QED BY <1>2, <1>3

(* What the property counts is what the invariant counts.                  *)
LEMMA ReturningIs ==
  ASSUME CentralTypeOK, AllTidy, NEW t \in Threads
  PROVE  Owned[t] = has[t] \cup Returning(t)
<1>1. groups[t] \in Seq(Groups) /\ Tidy(has[t], pc[t], groups[t])
  BY DEF CentralTypeOK, AllTidy
<1>2. PICK g \in Seq(Groups) : g = groups[t]
  BY <1>1
<1>3. Len(g) \in Nat /\ DOMAIN g = 1..Len(g)
  OBVIOUS
<1>4. CASE pc[t] # "giveback"
  BY <1>2, <1>3, <1>4 DEF Owned, OwnOf, NotBack, Objs, Returning
<1>5. CASE pc[t] = "giveback"
  <2>1. g # <<>>
    BY <1>1, <1>2, <1>5 DEF Tidy
  <2>2. DOMAIN Tail(g) = 1..(Len(g) - 1) /\ \A i \in DOMAIN Tail(g) : Tail(g)[i] = g[i + 1]
    BY <2>1
  <2>3. \A i \in 2..Len(g) : i - 1 \in DOMAIN Tail(g) /\ Tail(g)[i - 1] = g[i]
    BY <1>3, <2>2
  <2>4. \A i \in DOMAIN Tail(g) : i + 1 \in 2..Len(g) /\ Tail(g)[i] = g[i + 1]
    BY <1>3, <2>2
  <2>5. Objs(Tail(g)) = UNION {g[i].objs : i \in 2..Len(g)}
    BY <2>3, <2>4 DEF Objs
  <2> QED BY <1>2, <1>5, <2>5 DEF Owned, OwnOf, NotBack, Returning
<1> QED BY <1>4, <1>5

LEMMA CentralInvSuffices == CentralInv => CentralSound
<1> SUFFICES ASSUME CentralInv PROVE CentralSound
  OBVIOUS
<1>1. CentralTypeOK /\ AllTidy /\ ListsMatch /\ BucketReleased /\ Agree(Owned, free_list, use_count, paged, Giving)
  BY DEF CentralInv, CountsAgree
<1>2. \A t \in Threads : Owned[t] = has[t] \cup Returning(t)
  BY <1>1, ReturningIs
<1>3. \A s : Outside(s) = OutOf(Owned, s)
  BY <1>2 DEF Outside, OutOf
<1>4. \A s : GivingBack(s) <=> Given(Giving, s)
  BY DEF GivingBack, Given, Giving, GivesOf
<1>5. NothingOutOfPagedSpan
  BY <1>1, <1>3, <1>4 DEF NothingOutOfPagedSpan, Agree
<1>6. ObjectsConserved
  <2> SUFFICES ASSUME NEW s \in CentralSpans
               PROVE  /\ use_count[s] = Cardinality(Outside(s))
                      /\ \A o \in ObjectsOf(s) :
                           /\ o \in free_list[s] => o \notin Outside(s)
                           /\ \A t, u \in Threads :
                                o \in has[t] \cup Returning(t) /\ o \in has[u] \cup Returning(u) => t = u
                      /\ s \notin paged /\ ~GivingBack(s) => free_list[s] \cup Outside(s) = ObjectsOf(s)
    BY DEF ObjectsConserved
  <2>1. /\ use_count[s] = Cardinality(Outside(s)) /\ free_list[s] \cap Outside(s) = {}
        /\ s \notin paged /\ ~GivingBack(s) => free_list[s] \cup Outside(s) = ObjectsOf(s)
    BY <1>1, <1>3, <1>4 DEF Agree
  <2>2. ASSUME NEW o \in ObjectsOf(s), NEW t \in Threads, NEW u \in Threads,
               o \in has[t] \cup Returning(t), o \in has[u] \cup Returning(u)
        PROVE  t = u
    <3>1. o \in Objects /\ o \in Owned[t] /\ o \in Owned[u]
      BY <1>2, <2>2, ObjectsApart
    <3> QED BY <1>1, <3>1 DEF Agree
  <2> QED BY <2>1, <2>2
<1> QED BY <1>1, <1>5, <1>6 DEF CentralSound

(* However the threads fetch, release and pass objects, the counts of the  *)
(* spans are right, no object is in two hands, a span goes back to the     *)
(* page cache whole and the two lists hold the spans they should, whether  *)
(* new_span throws or not; and unless it threw, a thread that has left its *)
(* call has given the bucket lock back.                                    *)
THEOREM CentralIsSound == CentralSpec => []CentralSound
BY InitCentralInv, CentralInvStep, CentralInvSuffices, PTL DEF CentralSpec

-----------------------------------------------------------------------------
(* SharedStack: snapshot buffers                                           *)

Snapshot == [buf : Buffers \cup {NullPtr}, size : Nat, cap : Nat, bucket : SnapshotSizes \cup {Dynamic}]
Saves    == [StackFibers -> Snapshot]
Frees    == [SnapshotSizes -> Seq(Buffers)]

(* A buffer belongs to one fiber or lies in one bucket once, and a bucket  *)
(* keeps to its limit.                                                     *)
BuffersApart(sv, fr) ==
  /\ \A f, g \in StackFibers : sv[f].buf # NullPtr /\ sv[f].buf = sv[g].buf => f = g
  /\ \A k \in SnapshotSizes : Distinct(fr[k]) /\ Len(fr[k]) <= BucketLimit
  /\ \A k, l \in SnapshotSizes : k # l => Members(fr[k]) \cap Members(fr[l]) = {}
  /\ \A f \in StackFibers, k \in SnapshotSizes : sv[f].buf \notin Members(fr[k])

Untaken(b, sv, fr) ==
  /\ b \in Buffers /\ \A f \in StackFibers : sv[f].buf # b
  /\ \A k \in SnapshotSizes : b \notin Members(fr[k])

(* The limits leave an address for new char[].                             *)
LEMMA FreshOK ==
  ASSUME saved \in Saves, free \in Frees, BuffersApart(saved, free)
  PROVE  Untaken(Fresh, saved, free)
<1> DEFINE A == {saved[f].buf : f \in StackFibers}
           P == SnapshotSizes \X (1..BucketLimit)
           Q == {p \in P : p[2] <= Len(free[p[1]])}
           B == {free[p[1]][p[2]] : p \in Q}
<1>1. /\ BucketLimit \in Nat /\ IsFiniteSet(StackFibers) /\ IsFiniteSet(SnapshotSizes) /\ IsFiniteSet(Buffers)
      /\ Cardinality(Buffers) > Cardinality(StackFibers) + Cardinality(SnapshotSizes) * BucketLimit
  BY StackAssumption DEF StackConstants
<1>2. IsFiniteSet(A) /\ Cardinality(A) <= Cardinality(StackFibers)
  <2>1. PICK f : f = [x \in StackFibers |-> saved[x].buf]
    OBVIOUS
  <2>2. f \in Surjection(StackFibers, A)
    BY <2>1 DEF Surjection
  <2> HIDE DEF A
  <2> QED BY <1>1, <2>2, FS_Surjection
<1>3. IsFiniteSet(P) /\ Cardinality(P) = Cardinality(SnapshotSizes) * BucketLimit
  <2>1. IsFiniteSet(1..BucketLimit) /\ Cardinality(1..BucketLimit) = BucketLimit
    BY <1>1, FS_Interval
  <2>2. IsFiniteSet(P) /\ Cardinality(P) = Cardinality(SnapshotSizes) * Cardinality(1..BucketLimit)
    BY <1>1, <2>1, FS_Product
  <2> QED BY <2>1, <2>2
<1>4. IsFiniteSet(Q) /\ Cardinality(Q) <= Cardinality(P)
  <2>1. Q \in SUBSET P
    OBVIOUS
  <2> HIDE DEF P, Q
  <2> QED BY <1>3, <2>1, FS_Subset
<1>5. IsFiniteSet(B) /\ Cardinality(B) <= Cardinality(Q)
  <2>1. PICK f : f = [p \in Q |-> free[p[1]][p[2]]]
    OBVIOUS
  <2>2. f \in Surjection(Q, B)
    BY <2>1 DEF Surjection
  <2> HIDE DEF Q, B
  <2> QED BY <1>4, <2>2, FS_Surjection
<1>6. \A k \in SnapshotSizes : Members(free[k]) \subseteq B
  <2> SUFFICES ASSUME NEW k \in SnapshotSizes, NEW i \in DOMAIN free[k] PROVE free[k][i] \in B
    BY DEF Members
  <2>1. free[k] \in Seq(Buffers) /\ Len(free[k]) <= BucketLimit
    BY DEF Frees, BuffersApart
  <2>2. i \in 1..BucketLimit /\ i <= Len(free[k])
    BY <1>1, <2>1
  <2>3. <<k, i>> \in Q
    BY <2>2
  <2> HIDE DEF Q
  <2> QED BY <2>3
<1> HIDE DEF A, B, P, Q
<1>7. IsFiniteSet(A \cup B) /\ Cardinality(A \cup B) < Cardinality(Buffers)
  <2>1. /\ IsFiniteSet(A \cup B) /\ Cardinality(A \cup B) = Cardinality(A) + Cardinality(B) - Cardinality(A \cap B)
        /\ IsFiniteSet(A \cap B)
    BY <1>2, <1>5, FS_Union, FS_Intersection
  <2>2. /\ Cardinality(A \cap B) \in Nat /\ Cardinality(A) \in Nat /\ Cardinality(B) \in Nat
        /\ Cardinality(Q) \in Nat /\ Cardinality(P) \in Nat /\ Cardinality(Buffers) \in Nat
        /\ Cardinality(StackFibers) \in Nat
    BY <1>1, <1>2, <1>3, <1>4, <1>5, <2>1, FS_CardinalityType
  <2>3. Cardinality(A \cup B) <= Cardinality(StackFibers) + Cardinality(P)
    BY <1>2, <1>4, <1>5, <2>1, <2>2
  <2>4. Cardinality(Buffers) > Cardinality(StackFibers) + Cardinality(P)
    BY <1>1, <1>3
  <2> HIDE DEF Snapshot
  <2> QED BY <2>1, <2>2, <2>3, <2>4
<1>8. \E b \in Buffers : b \notin A \cup B
  <2> SUFFICES ASSUME \A b \in Buffers : b \in A \cup B PROVE FALSE
    OBVIOUS
  <2>1. Buffers \in SUBSET (A \cup B)
    OBVIOUS
  <2>2. Cardinality(Buffers) <= Cardinality(A \cup B)
    BY <1>7, <2>1, FS_Subset
  <2>3. Cardinality(Buffers) \in Nat /\ Cardinality(A \cup B) \in Nat
    BY <1>1, <1>7, FS_CardinalityType
  <2> QED BY <1>7, <2>2, <2>3
<1>9. \E b \in Buffers : Untaken(b, saved, free)
  BY <1>6, <1>8 DEF A, Untaken
<1> QED BY <1>9 DEF Fresh, Untaken

(* The bucket a size is kept in is large enough for it.                    *)
LEMMA BucketFits ==
  ASSUME NEW size \in Nat
  PROVE  /\ PickBucket(size) \in SnapshotSizes \cup {Dynamic}
         /\ CapacityOf(size) \in Nat /\ size <= CapacityOf(size)
<1>1. SnapshotSizes \subseteq Nat \ {0}
  BY StackAssumption DEF StackConstants
<1> DEFINE fit == {b \in SnapshotSizes : size <= b}
<1>2. CASE fit = {}
  BY <1>1, <1>2 DEF PickBucket, CapacityOf
<1>3. CASE fit # {}
  <2>1. PICK k \in fit : TRUE
    BY <1>3
  <2> DEFINE I == {b \in fit : b <= k}
  <2>2. k \in Nat /\ I \subseteq 0..k /\ I # {}
    <3>1. k \in Nat /\ fit \subseteq Nat
      BY <1>1, <2>1
    <3>2. k \in I
      BY <2>1, <3>1
    <3>3. \A b \in I : b \in Nat /\ b <= k
      BY <3>1
    <3>4. I # {}
      BY <3>2
    <3> QED BY <3>1, <3>3, <3>4
  <2>3. PICK i \in I : \A j \in I : i <= j
    <3> HIDE DEF I
    <3> QED BY <2>2, MinOfInterval
  <2>4. i \in fit /\ \A j \in fit : i <= j
    BY <1>1, <2>2, <2>3
  <2>5. Min(fit) \in fit
    <3> HIDE DEF fit
    <3> QED BY <2>4 DEF Min
  <2>6. PickBucket(size) = Min(fit)
    BY <1>3 DEF PickBucket
  <2>7. PickBucket(size) \in SnapshotSizes /\ size <= PickBucket(size)
    BY <2>5, <2>6
  <2> QED BY <1>1, <2>7 DEF CapacityOf, Dynamic
<1> QED BY <1>2, <1>3

(* clear_saved_stack with release: the buffer goes to its bucket or away.  *)
LEMMA ReleaseApart ==
  ASSUME NEW sv \in Saves, NEW fr \in Frees, BuffersApart(sv, fr), NEW f \in StackFibers
  PROVE  /\ [sv EXCEPT ![f] = NoSave] \in Saves /\ Release(fr, sv[f]) \in Frees
         /\ BuffersApart([sv EXCEPT ![f] = NoSave], Release(fr, sv[f]))
         /\ \A b : Untaken(b, sv, fr) => Untaken(b, [sv EXCEPT ![f] = NoSave], Release(fr, sv[f]))
<1> DEFINE sv1 == [sv EXCEPT ![f] = NoSave]
           fr1 == Release(fr, sv[f])
<1>0. NullPtr \notin Buffers /\ BucketLimit \in Nat
  BY StackAssumption DEF StackConstants
<1>1. sv1 \in Saves /\ sv1[f] = NoSave /\ \A g \in StackFibers : g # f => sv1[g] = sv[g]
  BY DEF Saves, Snapshot, NoSave, Dynamic
<1>2. NoSave.buf = NullPtr /\ sv[f] \in Snapshot
  BY DEF NoSave, Saves
<1> HIDE DEF sv1
<1>3. CASE fr1 = fr
  <2>1. \A k \in SnapshotSizes : NullPtr \notin Members(fr[k])
    BY <1>0 DEF Frees, Members
  <2>2. BuffersApart(sv1, fr)
    BY <1>1, <1>2, <2>1 DEF BuffersApart
  <2>3. \A b : Untaken(b, sv, fr) => Untaken(b, sv1, fr)
    BY <1>0, <1>1, <1>2 DEF Untaken
  <2> QED BY <1>1, <1>3, <2>2, <2>3 DEF sv1
<1>4. CASE fr1 # fr
  <2>1. PICK b, k : b = sv[f].buf /\ k = sv[f].bucket
    OBVIOUS
  <2>2. /\ b \in Buffers /\ k \in SnapshotSizes /\ Len(fr[k]) < BucketLimit
        /\ fr1 = [fr EXCEPT ![k] = Append(@, b)]
    BY <1>0, <1>2, <1>4, <2>1 DEF Release, Snapshot, Dynamic, Frees
  <2>3. fr[k] \in Seq(Buffers) /\ b \notin Members(fr[k]) /\ Distinct(fr[k])
    BY <2>1, <2>2 DEF BuffersApart, Frees
  <2>4. /\ Append(fr[k], b) \in Seq(Buffers) /\ Distinct(Append(fr[k], b))
        /\ Members(Append(fr[k], b)) = Members(fr[k]) \cup {b} /\ Len(Append(fr[k], b)) <= BucketLimit
    BY <1>0, <2>2, <2>3, AppendType, DistinctAppend, MembersAppend
  <2>5. fr1 \in Frees /\ fr1[k] = Append(fr[k], b) /\ \A l \in SnapshotSizes : l # k => fr1[l] = fr[l]
    BY <2>2, <2>4 DEF Frees
  <2> HIDE DEF fr1
  <2>6. \A l \in SnapshotSizes : Members(fr1[l]) = IF l = k THEN Members(fr[k]) \cup {b} ELSE Members(fr[l])
    BY <2>4, <2>5
  <2>7. \A l \in SnapshotSizes : Distinct(fr1[l]) /\ Len(fr1[l]) <= BucketLimit
    BY <2>4, <2>5 DEF BuffersApart
  <2>8. \A l \in SnapshotSizes : b \notin Members(fr[l]) /\ NullPtr \notin Members(fr[l])
    BY <1>0, <2>1 DEF BuffersApart, Frees, Members
  <2>9. \A l, m \in SnapshotSizes : l # m => Members(fr1[l]) \cap Members(fr1[m]) = {}
    BY <2>6, <2>8 DEF BuffersApart
  <2>10. ASSUME NEW g \in StackFibers, NEW l \in SnapshotSizes PROVE sv1[g].buf \notin Members(fr1[l])
    <3>1. CASE g = f
      BY <1>0, <1>1, <1>2, <2>2, <2>6, <2>8, <3>1
    <3>2. CASE g # f
      <4>1. sv1[g].buf # b
        BY <1>0, <1>1, <2>1, <2>2, <3>2 DEF BuffersApart
      <4> QED BY <1>1, <2>6, <3>2, <4>1 DEF BuffersApart
    <3> QED BY <3>1, <3>2
  <2>11. \A g, h \in StackFibers : sv1[g].buf # NullPtr /\ sv1[g].buf = sv1[h].buf => g = h
    BY <1>1, <1>2 DEF BuffersApart
  <2>12. BuffersApart(sv1, fr1)
    BY <2>7, <2>9, <2>10, <2>11 DEF BuffersApart
  <2>13. \A c : Untaken(c, sv, fr) => Untaken(c, sv1, fr1)
    BY <1>0, <1>1, <1>2, <2>1, <2>6 DEF Untaken
  <2> QED BY <1>1, <2>5, <2>12, <2>13 DEF sv1, fr1
<1> QED BY <1>3, <1>4

(* acquire: the fiber f, which has no buffer, gets one that nobody has.    *)
LEMMA AcquireApart ==
  ASSUME NEW sv \in Saves, NEW fr \in Frees, BuffersApart(sv, fr), NEW f \in StackFibers,
         sv[f] = NoSave, NEW size \in Nat, Untaken(Fresh, sv, fr), NEW rec,
         rec = [buf |-> Acquired(fr, size), size |-> size, cap |-> CapacityOf(size), bucket |-> PickBucket(size)]
  PROVE  /\ Acquired(fr, size) \in Buffers /\ rec \in Snapshot
         /\ \A g \in StackFibers : sv[g].buf # Acquired(fr, size)
         /\ FreeAfterAcquire(fr, size) \in Frees
         /\ BuffersApart([sv EXCEPT ![f] = rec], FreeAfterAcquire(fr, size))
<1> DEFINE k == PickBucket(size)
           b == Acquired(fr, size)
           sv1 == [sv EXCEPT ![f] = rec]
           fr1 == FreeAfterAcquire(fr, size)
<1>0. NullPtr \notin Buffers /\ BucketLimit \in Nat
  BY StackAssumption DEF StackConstants
<1>1. k \in SnapshotSizes \cup {Dynamic} /\ CapacityOf(size) \in Nat
  BY BucketFits
<1>2. /\ b \in Buffers /\ fr1 \in Frees
      /\ \A g \in StackFibers : sv[g].buf # b
      /\ \A l \in SnapshotSizes : /\ b \notin Members(fr1[l]) /\ Members(fr1[l]) \subseteq Members(fr[l])
                                 /\ Distinct(fr1[l]) /\ Len(fr1[l]) <= BucketLimit
  <2>1. CASE Reused(fr, size)
    <3>1. k \in SnapshotSizes /\ fr[k] # <<>> /\ b = Last(fr[k]) /\ fr1 = [fr EXCEPT ![k] = Front(fr[k])]
      BY <1>1, <2>1 DEF Reused, Acquired, FreeAfterAcquire
    <3> HIDE DEF k, b, fr1
    <3>2. fr[k] \in Seq(Buffers) /\ Distinct(fr[k]) /\ Len(fr[k]) <= BucketLimit
      BY <3>1 DEF Frees, BuffersApart
    <3>3. PICK q \in Seq(Buffers) : q = fr[k]
      BY <3>2
    <3>4. Len(q) \in Nat /\ Len(q) > 0 /\ Len(q) - 1 \in Nat /\ DOMAIN q = 1..Len(q) /\ q[Len(q)] \in Buffers
      BY <3>1, <3>3
    <3>5. /\ Front(q) \in Seq(Buffers) /\ DOMAIN Front(q) = 1..(Len(q) - 1) /\ Len(Front(q)) = Len(q) - 1
          /\ \A i \in DOMAIN Front(q) : Front(q)[i] = q[i] /\ i \in DOMAIN q /\ i # Len(q)
      BY <3>4 DEF Front
    <3>6. b = q[Len(q)] /\ b \in Members(q) /\ Len(q) \in DOMAIN q
      BY <3>1, <3>3, <3>4 DEF Last, Members
    <3>7. /\ b \notin Members(Front(q)) /\ Members(Front(q)) \subseteq Members(q) /\ Distinct(Front(q))
      BY <3>2, <3>3, <3>5, <3>6 DEF Members, Distinct
    <3>8. fr1 \in Frees /\ fr1[k] = Front(q) /\ \A l \in SnapshotSizes : l # k => fr1[l] = fr[l]
      BY <3>1, <3>3, <3>5 DEF Frees
    <3>9. b \in Buffers /\ \A g \in StackFibers : sv[g].buf # b
      BY <3>1, <3>3, <3>4, <3>6 DEF BuffersApart
    <3>10. ASSUME NEW l \in SnapshotSizes
           PROVE  /\ b \notin Members(fr1[l]) /\ Members(fr1[l]) \subseteq Members(fr[l])
                  /\ Distinct(fr1[l]) /\ Len(fr1[l]) <= BucketLimit
      <4>1. CASE l = k
        BY <1>0, <3>2, <3>3, <3>4, <3>5, <3>7, <3>8, <4>1
      <4>2. CASE l # k
        BY <3>1, <3>3, <3>6, <3>8, <4>2 DEF BuffersApart
      <4> QED BY <4>1, <4>2
    <3> QED BY <3>8, <3>9, <3>10
  <2>2. CASE ~Reused(fr, size)
    BY <2>2 DEF Acquired, FreeAfterAcquire, Untaken, BuffersApart
  <2> QED BY <2>1, <2>2
<1>3. rec \in Snapshot /\ rec.buf = b
  BY <1>1, <1>2 DEF Snapshot
<1> HIDE DEF b, fr1, k
<1>4. sv1[f] = rec /\ \A g \in StackFibers : g # f => sv1[g] = sv[g]
  BY DEF Saves
<1> HIDE DEF sv1
<1>5. \A g, h \in StackFibers : sv1[g].buf # NullPtr /\ sv1[g].buf = sv1[h].buf => g = h
  BY <1>2, <1>3, <1>4 DEF BuffersApart
<1>6. \A g \in StackFibers, l \in SnapshotSizes : sv1[g].buf \notin Members(fr1[l])
  BY <1>2, <1>3, <1>4 DEF BuffersApart
<1>7. \A l, m \in SnapshotSizes : l # m => Members(fr1[l]) \cap Members(fr1[m]) = {}
  BY <1>2 DEF BuffersApart
<1>8. BuffersApart(sv1, fr1)
  BY <1>2, <1>5, <1>6, <1>7 DEF BuffersApart
<1> QED BY <1>2, <1>3, <1>8 DEF b, fr1, sv1

(* What the other fibers have saved stays as it is.                        *)
OthersSaved(o) ==
  \A g \in StackFibers : g # o => /\ saved'[g] = saved[g]
                                  /\ saved[g].buf # NullPtr => data'[saved[g].buf] = data[saved[g].buf]

Contents == [Buffers -> Seq(Nat)]
SnapOK   == /\ saved \in Saves /\ free \in Frees /\ data \in Contents /\ BuffersApart(saved, free)
            /\ \A f \in StackFibers : saved[f].size <= saved[f].cap

LEMMA SnapKept ==
  ASSUME SnapOK, UNCHANGED <<saved, data, free>>
  PROVE  SnapOK'
<1>1. saved' \in Saves /\ free' \in Frees /\ data' \in Contents /\ BuffersApart(saved', free')
  BY DEF SnapOK
<1>2. \A f \in StackFibers : saved'[f].size <= saved'[f].cap
  BY DEF SnapOK
<1>3. BuffersApart(saved, free)'
  BY <1>1 DEF BuffersApart, Members, Distinct
<1> QED BY <1>1, <1>2, <1>3 DEF SnapOK, Saves, Frees, Contents

LEMMA ClearKeeps ==
  ASSUME SnapOK, NEW f \in StackFibers, ClearSaved(f)
  PROVE  SnapOK' /\ saved'[f] = NoSave /\ OthersSaved(f)
<1>1. /\ free' = Release(free, saved[f]) /\ saved' = [saved EXCEPT ![f] = NoSave]
      /\ data' = [b \in Buffers |-> IF b = saved[f].buf THEN <<>> ELSE data[b]]
  BY DEF ClearSaved
<1>2. saved \in Saves /\ free \in Frees /\ data \in Contents /\ BuffersApart(saved, free)
  BY DEF SnapOK
<1>3. saved' \in Saves /\ free' \in Frees /\ BuffersApart(saved', free')
  BY <1>1, <1>2, ReleaseApart
<1>4. data' \in Contents
  BY <1>1, <1>2 DEF Contents
<1>5. saved'[f] = NoSave /\ \A g \in StackFibers : g # f => saved'[g] = saved[g]
  BY <1>1, <1>2 DEF Saves
<1>6. \A g \in StackFibers : g # f /\ saved[g].buf # NullPtr => saved[g].buf \in Buffers /\ saved[g].buf # saved[f].buf
  BY <1>2 DEF BuffersApart, Saves, Snapshot
<1>7. OthersSaved(f)
  BY <1>1, <1>5, <1>6 DEF OthersSaved
<1>8. \A g \in StackFibers : saved'[g].size <= saved'[g].cap
  <2>1. NoSave.size <= NoSave.cap
    BY DEF NoSave
  <2> QED BY <1>5, <2>1 DEF SnapOK
<1>9. BuffersApart(saved, free)'
  BY <1>3 DEF BuffersApart, Members, Distinct
<1> QED BY <1>3, <1>4, <1>5, <1>7, <1>8, <1>9 DEF SnapOK, Saves, Frees, Contents

LEMMA SaveKeeps ==
  ASSUME SnapOK, NEW o \in StackFibers, NEW cells \in Seq(Nat), SaveStackData(o, cells)
  PROVE  /\ SnapOK' /\ OthersSaved(o)
         /\ saved'[o].buf \in Buffers /\ saved'[o].size = Len(cells) /\ data'[saved'[o].buf] = cells
<1> DEFINE size == Len(cells)
           kept == saved[o].buf # NullPtr /\ saved[o].cap >= size
           fr   == Release(free, saved[o])
           sv   == [saved EXCEPT ![o] = NoSave]
<1>0. NullPtr \notin Buffers /\ size \in Nat
  BY StackAssumption DEF StackConstants
<1>1. saved \in Saves /\ free \in Frees /\ data \in Contents /\ BuffersApart(saved, free)
  BY DEF SnapOK
<1>2. CASE kept
  <2>1. /\ saved' = [saved EXCEPT ![o].size = size] /\ free' = free
        /\ data' = [data EXCEPT ![saved[o].buf] = cells]
    BY <1>2 DEF SaveStackData
  <2>2. saved[o] \in Snapshot /\ saved[o].buf \in Buffers
    BY <1>1, <1>2 DEF Saves, Snapshot
  <2>3. /\ saved' \in Saves /\ saved'[o].buf = saved[o].buf /\ saved'[o].size = size /\ saved'[o].cap = saved[o].cap
        /\ \A g \in StackFibers : g # o => saved'[g] = saved[g]
    BY <1>0, <1>1, <2>1, <2>2 DEF Saves, Snapshot
  <2>4. data' \in Contents /\ data'[saved[o].buf] = cells /\ \A b \in Buffers : b # saved[o].buf => data'[b] = data[b]
    BY <1>1, <2>1, <2>2 DEF Contents
  <2>5. \A g \in StackFibers : saved'[g].buf = saved[g].buf
    BY <2>3
  <2>6. BuffersApart(saved, free)'
    <3>1. \A f, g \in StackFibers : saved'[f].buf # NullPtr /\ saved'[f].buf = saved'[g].buf => f = g
      BY <1>1, <2>5 DEF BuffersApart
    <3>2. \A f \in StackFibers, k \in SnapshotSizes : saved'[f].buf \notin Members(free[k])
      BY <1>1, <2>5 DEF BuffersApart
    <3>3. BuffersApart(saved', free')
      BY <1>1, <2>1, <3>1, <3>2 DEF BuffersApart
    <3> QED BY <3>3 DEF BuffersApart, Members, Distinct
  <2>7. \A g \in StackFibers : saved'[g].size <= saved'[g].cap
    BY <1>0, <1>1, <1>2, <2>3 DEF SnapOK, Saves, Snapshot
  <2>8. \A g \in StackFibers : g # o /\ saved[g].buf # NullPtr => saved[g].buf \in Buffers /\ saved[g].buf # saved[o].buf
    BY <1>1 DEF BuffersApart, Saves, Snapshot
  <2>9. OthersSaved(o)
    BY <2>3, <2>4, <2>8 DEF OthersSaved
  <2> QED BY <1>1, <2>1, <2>2, <2>3, <2>4, <2>6, <2>7, <2>9 DEF SnapOK, Saves, Frees, Contents
<1>3. CASE ~kept
  <2>1. PICK rec : rec = [buf |-> Acquired(fr, size), size |-> size, cap |-> CapacityOf(size), bucket |-> PickBucket(size)]
    OBVIOUS
  <2>2. /\ saved' = [saved EXCEPT ![o] = rec] /\ free' = FreeAfterAcquire(fr, size)
        /\ data' = [data EXCEPT ![rec.buf] = cells]
    BY <1>3, <2>1 DEF SaveStackData
  <2>3. sv \in Saves /\ fr \in Frees /\ BuffersApart(sv, fr) /\ Untaken(Fresh, sv, fr)
    BY <1>1, FreshOK, ReleaseApart
  <2>4. sv[o] = NoSave /\ saved' = [sv EXCEPT ![o] = rec] /\ \A g \in StackFibers : g # o => sv[g] = saved[g]
    BY <1>1, <2>2 DEF Saves
  <2> HIDE DEF sv, fr
  <2>5. /\ rec.buf \in Buffers /\ rec \in Snapshot /\ \A g \in StackFibers : sv[g].buf # rec.buf
        /\ free' \in Frees /\ BuffersApart(saved', free')
    <3>1. size \in Nat
      BY <1>0
    <3> HIDE DEF size
    <3>2. /\ Acquired(fr, size) \in Buffers /\ rec \in Snapshot
          /\ \A g \in StackFibers : sv[g].buf # Acquired(fr, size)
          /\ FreeAfterAcquire(fr, size) \in Frees
          /\ BuffersApart([sv EXCEPT ![o] = rec], FreeAfterAcquire(fr, size))
      BY <2>1, <2>3, <2>4, <3>1, AcquireApart
    <3>3. rec.buf = Acquired(fr, size)
      BY <2>1
    <3> QED BY <2>2, <2>4, <3>2, <3>3
  <2>6. saved' \in Saves /\ saved'[o] = rec /\ \A g \in StackFibers : g # o => saved'[g] = saved[g]
    BY <1>1, <2>2, <2>5 DEF Saves
  <2>7. data' \in Contents /\ data'[rec.buf] = cells /\ \A b \in Buffers : b # rec.buf => data'[b] = data[b]
    BY <1>1, <2>2, <2>5 DEF Contents
  <2>8. rec.size = size /\ rec.size <= rec.cap
    BY <1>0, <2>1, BucketFits
  <2>9. \A g \in StackFibers : saved'[g].size <= saved'[g].cap
    BY <2>6, <2>8 DEF SnapOK
  <2>10. \A g \in StackFibers : g # o /\ saved[g].buf # NullPtr => saved[g].buf \in Buffers /\ saved[g].buf # rec.buf
    BY <1>1, <2>4, <2>5 DEF Saves, Snapshot
  <2>11. OthersSaved(o)
    BY <2>6, <2>7, <2>10 DEF OthersSaved
  <2>12. BuffersApart(saved, free)'
    BY <2>5 DEF BuffersApart, Members, Distinct
  <2> QED BY <2>5, <2>6, <2>7, <2>8, <2>9, <2>11, <2>12 DEF SnapOK, Saves, Frees, Contents
<1> QED BY <1>2, <1>3
-----------------------------------------------------------------------------
(* SharedStack: who has the stacks                                         *)

Mark(f) == [fiber |-> f, id |-> id[f]]
Row     == [1..StackCells -> Nat]

StackTypes ==
  /\ state \in [StackFibers -> {"absent", "ready", "pooled"}] /\ id \in [StackFibers -> Nat]
  /\ slot \in [StackFibers -> 1..Stacks] /\ frames \in [StackFibers -> Seq(Nat)] /\ pool \in Seq(StackFibers)
  /\ memory \in [1..Stacks -> Row] /\ owner \in [1..Stacks -> [fiber : StackFibers \cup {NullPtr}, id : Nat]]
  /\ current \in StackFibers \cup {NullPtr} /\ next_id \in Nat /\ next_slot \in Nat

PoolOK == Distinct(pool) /\ \A f \in Members(pool) : state[f] = "pooled"

(* The occupant of a stack is a fiber of that stack that has not ended,    *)
(* under the id it has now; the running fiber is one.                      *)
OwnersOK ==
  /\ \A s \in 1..Stacks : owner[s].fiber # NullPtr =>
       /\ state[owner[s].fiber] = "ready" /\ slot[owner[s].fiber] = s
       /\ owner[s] = Mark(owner[s].fiber)
  /\ current # NullPtr => state[current] = "ready" /\ owner[slot[current]] = Mark(current)

Starts(row, cells) == \A c \in 1..Len(cells) : row[c] = cells[c]
Resident(f)        == owner[slot[f]].fiber = f

(* The frames of a live fiber are on its stack when it occupies it, and in *)
(* its snapshot otherwise.                                                 *)
FramesOK ==
  \A f \in StackFibers : state[f] = "ready" =>
    /\ Len(frames[f]) <= StackCells
    /\ Resident(f) => Starts(memory[slot[f]], frames[f])
    /\ ~Resident(f) => /\ saved[f].size = Len(frames[f])
                       /\ frames[f] # <<>> => saved[f].buf # NullPtr /\ data[saved[f].buf] = frames[f]

StackInv == StackTypes /\ SnapOK /\ PoolOK /\ OwnersOK /\ FramesOK

LEMMA PrefixIs ==
  ASSUME NEW row \in Row, NEW cells \in Seq(Nat), Len(cells) <= StackCells, Starts(row, cells)
  PROVE  SubSeq(row, 1, Len(cells)) = cells
<1>1. StackCells \in Nat
  BY StackAssumption DEF StackConstants
<1>2. row \in Seq(Nat) /\ Len(row) = StackCells
  BY <1>1 DEF Row
<1>3. PICK sub : sub = SubSeq(row, 1, Len(cells))
  OBVIOUS
<1>4. sub \in Seq(Nat) /\ Len(sub) = Len(cells) /\ \A c \in 1..Len(cells) : sub[c] = row[c]
  BY <1>1, <1>2, <1>3
<1>5. \A c \in 1..Len(cells) : sub[c] = cells[c]
  BY <1>4 DEF Starts
<1>6. sub = cells
  BY <1>4, <1>5
<1> QED BY <1>3, <1>6

(* A fiber that has not been started occupies no stack.                    *)
LEMMA OnlyLiveOccupy ==
  ASSUME StackTypes, OwnersOK, NEW f \in StackFibers, state[f] # "ready"
  PROVE  \A s \in 1..Stacks : owner[s].fiber # f
<1>1. f # NullPtr
  BY StackAssumption DEF StackConstants
<1> QED BY <1>1 DEF OwnersOK

LEMMA ObtainKeeps ==
  ASSUME StackInv, NEW f \in StackFibers, Obtain(f)
  PROVE  StackInv'
<1>0. Stacks \in Nat \ {0} /\ NullPtr \notin StackFibers
  BY StackAssumption DEF StackConstants
<1>1. SnapOK' /\ saved'[f] = NoSave /\ OthersSaved(f)
  BY ClearKeeps DEF StackInv, Obtain
<1>2. StackTypes /\ PoolOK /\ OwnersOK /\ FramesOK
  BY DEF StackInv
<1>3. /\ state[f] # "ready" /\ pool' \in Seq(StackFibers) /\ Distinct(pool') /\ f \notin Members(pool')
      /\ Members(pool') \subseteq Members(pool)
  <2>1. pool \in Seq(StackFibers) /\ Distinct(pool)
    BY <1>2 DEF StackTypes, PoolOK
  <2>2. CASE pool # <<>>
    <3>1. f = Head(pool) /\ pool' = Tail(pool)
      BY <2>2 DEF Obtain
    <3>2. Tail(pool) \in Seq(StackFibers) /\ Members(pool) = Members(Tail(pool)) \cup {Head(pool)}
      BY <2>1, <2>2, MembersTail
    <3>3. Distinct(Tail(pool)) /\ Head(pool) \notin Members(Tail(pool))
      BY <2>1, <2>2, DistinctTail
    <3>4. state[f] = "pooled"
      BY <1>2, <3>1, <3>2 DEF PoolOK
    <3> QED BY <3>1, <3>2, <3>3, <3>4
  <2>3. CASE pool = <<>>
    <3>1. state[f] = "absent" /\ pool' = pool
      BY <2>3 DEF Obtain
    <3>2. Members(pool) = {}
      BY <2>3 DEF Members
    <3> QED BY <2>1, <3>1, <3>2
  <2> QED BY <2>2, <2>3
<1>4. /\ state' = [state EXCEPT ![f] = "ready"] /\ id' = [id EXCEPT ![f] = next_id] /\ next_id' = next_id + 1
      /\ slot' = [slot EXCEPT ![f] = (next_slot % Stacks) + 1] /\ next_slot' = (next_slot + 1) % Stacks
      /\ frames' = [frames EXCEPT ![f] = <<>>] /\ memory' = memory /\ owner' = owner /\ current' = current
      /\ current = NullPtr
  BY DEF Obtain, stackVars
<1>5. (next_slot % Stacks) + 1 \in 1..Stacks /\ (next_slot + 1) % Stacks \in Nat /\ next_id + 1 \in Nat
  BY <1>0, <1>2 DEF StackTypes
<1>6. StackTypes'
  BY <1>2, <1>3, <1>4, <1>5 DEF StackTypes, Row
<1>7. /\ state'[f] = "ready" /\ frames'[f] = <<>>
      /\ \A g \in StackFibers : g # f => /\ state'[g] = state[g] /\ id'[g] = id[g]
                                         /\ slot'[g] = slot[g] /\ frames'[g] = frames[g]
  BY <1>2, <1>4 DEF StackTypes
<1>8. PoolOK'
  <2>1. \A g \in Members(pool') : state'[g] = "pooled"
    <3> SUFFICES ASSUME NEW g \in Members(pool') PROVE state'[g] = "pooled"
      OBVIOUS
    <3>1. g \in StackFibers /\ g # f /\ g \in Members(pool)
      BY <1>3 DEF Members
    <3> QED BY <1>2, <1>7, <3>1 DEF PoolOK
  <2>2. Distinct(pool')
    BY <1>3
  <2> QED BY <2>1, <2>2 DEF PoolOK, Distinct, Members
<1>9. \A s \in 1..Stacks : owner[s].fiber # f
  BY <1>2, <1>3, OnlyLiveOccupy
<1>10. OwnersOK'
  <2>1. \A s \in 1..Stacks : owner[s].fiber \in StackFibers \cup {NullPtr}
    BY <1>2 DEF StackTypes
  <2> SUFFICES ASSUME NEW s \in 1..Stacks, owner[s].fiber # NullPtr
               PROVE  /\ state'[owner[s].fiber] = "ready" /\ slot'[owner[s].fiber] = s
                      /\ owner[s] = [fiber |-> owner[s].fiber, id |-> id'[owner[s].fiber]]
    BY <1>4 DEF OwnersOK, Mark
  <2> QED BY <1>2, <1>7, <1>9, <2>1 DEF OwnersOK, Mark
<1>11. FramesOK'
  <2> SUFFICES ASSUME NEW g \in StackFibers, state'[g] = "ready"
               PROVE  /\ Len(frames'[g]) <= StackCells
                      /\ Resident(g)' => Starts(memory[slot[g]], frames[g])'
                      /\ ~Resident(g)' => /\ saved'[g].size = Len(frames'[g])
                                          /\ frames'[g] # <<>> =>
                                               saved'[g].buf # NullPtr /\ data'[saved'[g].buf] = frames'[g]
    BY DEF FramesOK
  <2>1. CASE g = f
    <3>1. slot'[f] \in 1..Stacks
      BY <1>6 DEF StackTypes
    <3>2. ~Resident(f)'
      BY <1>4, <1>9, <3>1 DEF Resident
    <3>3. NoSave.size = 0 /\ StackCells \in Nat
      BY StackAssumption DEF NoSave, StackConstants
    <3> QED BY <1>1, <1>7, <2>1, <3>2, <3>3
  <2>2. CASE g # f
    <3>1. saved'[g] = saved[g] /\ (saved[g].buf # NullPtr => data'[saved[g].buf] = data[saved[g].buf])
      BY <1>1, <2>2 DEF OthersSaved
    <3>2. Resident(g)' = Resident(g) /\ Starts(memory[slot[g]], frames[g])' = Starts(memory[slot[g]], frames[g])
      BY <1>4, <1>7, <2>2 DEF Resident, Starts
    <3> QED BY <1>2, <1>7, <2>2, <3>1, <3>2 DEF FramesOK
  <2> QED BY <2>1, <2>2
<1> QED BY <1>1, <1>6, <1>8, <1>10, <1>11 DEF StackInv

LEMMA EndKeeps ==
  ASSUME StackInv, FiberEnds
  PROVE  StackInv'
<1>0. NullPtr \notin StackFibers
  BY StackAssumption DEF StackConstants
<1>1. StackTypes /\ PoolOK /\ OwnersOK /\ FramesOK
  BY DEF StackInv
<1>2. PICK f \in StackFibers : f = current
  BY <1>1 DEF FiberEnds, StackTypes
<1>3. SnapOK' /\ saved'[f] = NoSave /\ OthersSaved(f)
  BY <1>2, ClearKeeps DEF StackInv, FiberEnds
<1>4. f # NullPtr /\ state[f] = "ready" /\ owner[slot[f]] = Mark(f) /\ slot[f] \in 1..Stacks
  BY <1>0, <1>1, <1>2 DEF OwnersOK, StackTypes
<1>5. /\ owner' = [owner EXCEPT ![slot[f]] = NoOwner] /\ frames' = [frames EXCEPT ![f] = <<>>]
      /\ current' = NullPtr /\ UNCHANGED <<id, slot, memory, next_id, next_slot>>
  BY <1>2, <1>4 DEF FiberEnds, Mark, Occupied, genVars
<1>6. \/ state' = [state EXCEPT ![f] = "absent"] /\ pool' = pool
      \/ state' = [state EXCEPT ![f] = "pooled"] /\ pool' = Append(pool, f)
  BY <1>2 DEF FiberEnds
<1>7. NoOwner \in [fiber : StackFibers \cup {NullPtr}, id : Nat] /\ NoOwner.fiber = NullPtr
  BY DEF NoOwner
<1>8. f \notin Members(pool) /\ pool \in Seq(StackFibers) /\ Distinct(pool)
  BY <1>1, <1>4 DEF PoolOK, StackTypes
<1>9. /\ pool' \in Seq(StackFibers) /\ Distinct(pool')
      /\ pool' = pool \/ (state'[f] = "pooled" /\ Members(pool') = Members(pool) \cup {f})
  <2>1. /\ Append(pool, f) \in Seq(StackFibers) /\ Distinct(Append(pool, f))
        /\ Members(Append(pool, f)) = Members(pool) \cup {f}
    BY <1>8, AppendType, DistinctAppend, MembersAppend
  <2>2. [state EXCEPT ![f] = "pooled"][f] = "pooled"
    BY <1>1 DEF StackTypes
  <2> QED BY <1>6, <1>8, <2>1, <2>2
<1>10. state' \in [StackFibers -> {"absent", "ready", "pooled"}] /\ state'[f] # "ready"
  BY <1>1, <1>6 DEF StackTypes
<1>11. StackTypes'
  <2>1. owner' \in [1..Stacks -> [fiber : StackFibers \cup {NullPtr}, id : Nat]]
    <3> DEFINE O == [fiber : StackFibers \cup {NullPtr}, id : Nat]
    <3>1. owner \in [1..Stacks -> O] /\ NoOwner \in O
      BY <1>1, <1>7 DEF StackTypes
    <3> HIDE DEF O
    <3>2. owner' \in [1..Stacks -> O]
      BY <1>5, <3>1
    <3> QED BY <3>2 DEF O
  <2>2. frames' \in [StackFibers -> Seq(Nat)]
    BY <1>1, <1>5 DEF StackTypes
  <2> QED BY <1>1, <1>5, <1>9, <1>10, <2>1, <2>2 DEF StackTypes, Row
<1>12. \A g \in StackFibers : g # f => state'[g] = state[g] /\ frames'[g] = frames[g]
  BY <1>1, <1>5, <1>6 DEF StackTypes
<1>13. PoolOK'
  <2>1. \A g \in Members(pool) : g \in StackFibers /\ g # f
    BY <1>8 DEF Members
  <2>2. \A g \in Members(pool') : state'[g] = "pooled"
    BY <1>1, <1>9, <1>12, <2>1 DEF PoolOK
  <2> QED BY <1>9, <2>2 DEF PoolOK, Distinct, Members
<1>14. /\ owner'[slot[f]].fiber = NullPtr
       /\ \A s \in 1..Stacks : s # slot[f] => owner'[s] = owner[s] /\ owner[s].fiber # f
  <2>1. owner'[slot[f]] = NoOwner /\ \A s \in 1..Stacks : s # slot[f] => owner'[s] = owner[s]
    BY <1>1, <1>4, <1>5 DEF StackTypes
  <2> QED BY <1>1, <1>4, <1>7, <2>1 DEF OwnersOK
<1>15. OwnersOK'
  <2> SUFFICES ASSUME NEW s \in 1..Stacks, owner'[s].fiber # NullPtr
               PROVE  /\ state'[owner'[s].fiber] = "ready" /\ slot[owner'[s].fiber] = s
                      /\ owner'[s] = [fiber |-> owner'[s].fiber, id |-> id[owner'[s].fiber]]
    BY <1>5 DEF OwnersOK, Mark
  <2>1. s # slot[f]
    BY <1>14
  <2>2. owner'[s] = owner[s] /\ owner[s].fiber \in StackFibers /\ owner[s].fiber # f
    <3>1. owner[s].fiber \in StackFibers \cup {NullPtr}
      BY <1>1 DEF StackTypes
    <3> QED BY <1>14, <2>1, <3>1
  <2> QED BY <1>1, <1>12, <2>2 DEF OwnersOK, Mark
<1>16. FramesOK'
  <2> SUFFICES ASSUME NEW g \in StackFibers, state'[g] = "ready"
               PROVE  /\ Len(frames'[g]) <= StackCells
                      /\ Resident(g)' => Starts(memory[slot[g]], frames[g])'
                      /\ ~Resident(g)' => /\ saved'[g].size = Len(frames'[g])
                                          /\ frames'[g] # <<>> =>
                                               saved'[g].buf # NullPtr /\ data'[saved'[g].buf] = frames'[g]
    BY DEF FramesOK
  <2>1. g # f /\ g # NullPtr
    BY <1>0, <1>10
  <2>2. saved'[g] = saved[g] /\ (saved[g].buf # NullPtr => data'[saved[g].buf] = data[saved[g].buf])
    BY <1>3, <2>1 DEF OthersSaved
  <2>3. slot[g] \in 1..Stacks
    BY <1>1 DEF StackTypes
  <2>4. Resident(g)' = Resident(g)
    <3>1. CASE slot[g] = slot[f]
      <4>1. owner[slot[f]].fiber = f
        BY <1>4 DEF Mark
      <4> QED BY <1>5, <1>14, <2>1, <3>1, <4>1 DEF Resident
    <3>2. CASE slot[g] # slot[f]
      BY <1>5, <1>14, <2>3, <3>2 DEF Resident
    <3> QED BY <3>1, <3>2
  <2>5. Starts(memory[slot[g]], frames[g])' = Starts(memory[slot[g]], frames[g])
    BY <1>5, <1>12, <2>1 DEF Starts
  <2> QED BY <1>1, <1>12, <2>1, <2>2, <2>4, <2>5 DEF FramesOK
<1> QED BY <1>3, <1>11, <1>13, <1>15, <1>16 DEF StackInv

LEMMA RunsKeeps ==
  ASSUME StackInv, NEW d \in 1..StackCells, Runs(d)
  PROVE  StackInv'
<1>0. NullPtr \notin StackFibers /\ StackCells \in Nat \ {0} /\ RedZone \in Nat
  BY StackAssumption DEF StackConstants
<1>1. StackTypes /\ SnapOK /\ PoolOK /\ OwnersOK /\ FramesOK
  BY DEF StackInv
<1>2. PICK f \in StackFibers : f = current
  BY <1>1 DEF Runs, StackTypes
<1>3. f # NullPtr /\ state[f] = "ready" /\ owner[slot[f]] = Mark(f) /\ slot[f] \in 1..Stacks
  BY <1>0, <1>1, <1>2 DEF OwnersOK, StackTypes
<1>4. Live(d) \in Nat /\ Live(d) <= StackCells
  BY <1>0 DEF Live, MinOf
<1>5. PICK old : old = IF frames[f] = <<>> THEN 0 ELSE frames[f][1]
  OBVIOUS
<1>6. old \in Nat /\ id[f] \in Nat
  BY <1>1, <1>5 DEF StackTypes
<1>7. PICK tag : tag = IF old = 2 * id[f] THEN old + 1 ELSE 2 * id[f]
  OBVIOUS
<1>8. tag \in Nat
  BY <1>6, <1>7
<1>9. PICK row, cells : /\ row = [c \in 1..StackCells |-> IF c <= Live(d) THEN tag ELSE memory[slot[f]][c]]
                        /\ cells = [c \in 1..Live(d) |-> tag]
  OBVIOUS
<1>10. /\ memory' = [memory EXCEPT ![slot[f]] = row] /\ frames' = [frames EXCEPT ![f] = cells]
       /\ current' = NullPtr /\ UNCHANGED <<state, id, slot, saved, pool, owner, next_id, next_slot, data, free>>
  BY <1>2, <1>5, <1>7, <1>9 DEF Runs, genVars, snapVars
<1>11. memory[slot[f]] \in Row
  BY <1>1, <1>3 DEF StackTypes
<1>12. row \in Row
  BY <1>0, <1>4, <1>8, <1>9, <1>11 DEF Row
<1>13. cells \in Seq(Nat) /\ Len(cells) = Live(d) /\ Starts(row, cells)
  BY <1>0, <1>4, <1>8, <1>9 DEF Starts
<1>14. memory'[slot[f]] = row /\ frames'[f] = cells /\ \A g \in StackFibers : g # f => frames'[g] = frames[g]
  BY <1>1, <1>3, <1>10 DEF StackTypes
<1>15. \A s \in 1..Stacks : s # slot[f] => memory'[s] = memory[s]
  BY <1>1, <1>10 DEF StackTypes
<1>16. StackTypes'
  <2>1. memory' \in [1..Stacks -> Row]
    BY <1>1, <1>10, <1>12 DEF StackTypes
  <2>2. frames' \in [StackFibers -> Seq(Nat)]
    BY <1>1, <1>10, <1>13 DEF StackTypes
  <2> QED BY <1>1, <1>10, <2>1, <2>2 DEF StackTypes, Row
<1>17. SnapOK' /\ PoolOK'
  BY <1>1, <1>10, SnapKept DEF PoolOK, Distinct, Members
<1>18. OwnersOK'
  BY <1>1, <1>10 DEF OwnersOK, Mark
<1>19. FramesOK'
  <2> SUFFICES ASSUME NEW g \in StackFibers, state[g] = "ready"
               PROVE  /\ Len(frames'[g]) <= StackCells
                      /\ Resident(g)' => Starts(memory[slot[g]], frames[g])'
                      /\ ~Resident(g)' => /\ saved[g].size = Len(frames'[g])
                                          /\ frames'[g] # <<>> =>
                                               saved[g].buf # NullPtr /\ data[saved[g].buf] = frames'[g]
    BY <1>10 DEF FramesOK
  <2>1. Resident(g)' = Resident(g) /\ slot[g] \in 1..Stacks
    BY <1>1, <1>10 DEF Resident, StackTypes
  <2>2. CASE g = f
    <3>1. Resident(f)
      BY <1>3 DEF Resident, Mark
    <3>2. Starts(memory[slot[f]], frames[f])'
      BY <1>10, <1>13, <1>14 DEF Starts
    <3> QED BY <1>4, <1>13, <1>14, <2>1, <2>2, <3>1, <3>2
  <2>3. CASE g # f
    <3>1. frames'[g] = frames[g]
      BY <1>14, <2>3
    <3>2. Resident(g) => slot[g] # slot[f]
      BY <1>3, <2>3 DEF Resident, Mark
    <3>3. Resident(g) => Starts(memory[slot[g]], frames[g])'
      BY <1>1, <1>10, <1>15, <2>1, <3>1, <3>2 DEF FramesOK, Starts
    <3> QED BY <1>1, <2>1, <3>1, <3>3 DEF FramesOK
  <2> QED BY <2>2, <2>3
<1> QED BY <1>16, <1>17, <1>18, <1>19 DEF StackInv

(* The fiber f takes a stack that somebody else or nobody occupies.        *)
LEMMA TakeOverKeeps ==
  ASSUME StackInv, NEW f \in StackFibers, SwitchTo(f), owner[slot[f]] # Mark(f)
  PROVE  StackInv'
<1>0. NullPtr \notin StackFibers /\ StackCells \in Nat
  BY StackAssumption DEF StackConstants
<1>1. StackTypes /\ SnapOK /\ PoolOK /\ OwnersOK /\ FramesOK
  BY DEF StackInv
<1>2. PICK s \in 1..Stacks : s = slot[f]
  BY <1>1 DEF StackTypes
<1>3. PICK o \in StackFibers \cup {NullPtr} : o = owner[s].fiber
  BY <1>1, <1>2 DEF StackTypes
<1>4. /\ current = NullPtr /\ state[f] = "ready" /\ current' = f
      /\ owner' = [owner EXCEPT ![s] = Mark(f)] /\ memory' = [memory EXCEPT ![s] = Restored(f, s)]
      /\ UNCHANGED <<state, id, slot, frames, pool, next_id, next_slot>>
  BY <1>2 DEF SwitchTo, Mark, Occupied, genVars
<1>5. o # f
  BY <1>0, <1>1, <1>2, <1>3 DEF OwnersOK
<1>6. o # NullPtr => /\ o \in StackFibers /\ state[o] = "ready" /\ slot[o] = s /\ owner[s] = Mark(o)
                     /\ Len(frames[o]) <= StackCells /\ Starts(memory[s], frames[o])
  BY <1>1, <1>3 DEF OwnersOK, FramesOK, Resident
(* The occupant's frames are in its snapshot now, the other snapshots are  *)
(* as they were.                                                           *)
<1>7. /\ SnapOK'
      /\ \A g \in StackFibers : g # o => /\ saved'[g] = saved[g]
                                         /\ saved[g].buf # NullPtr => data'[saved[g].buf] = data[saved[g].buf]
      /\ o # NullPtr => /\ saved'[o].buf # NullPtr /\ saved'[o].size = Len(frames[o])
                        /\ data'[saved'[o].buf] = frames[o]
  <2>1. CASE o # NullPtr
    <3>1. MustSave(owner[s])
      BY <1>3, <1>6, <2>1 DEF MustSave, Mark
    <3>2. Save(o, s)
      BY <1>2, <1>3, <3>1 DEF SwitchTo, Mark
    <3>3. memory[s] \in Row /\ frames[o] \in Seq(Nat)
      BY <1>1, <1>6, <2>1 DEF StackTypes
    <3>4. SubSeq(memory[s], 1, Len(frames[o])) = frames[o]
      BY <1>6, <2>1, <3>3, PrefixIs
    <3>5. SaveStackData(o, frames[o])
      BY <3>2, <3>4 DEF Save
    <3>6. /\ SnapOK' /\ OthersSaved(o)
          /\ saved'[o].buf \in Buffers /\ saved'[o].size = Len(frames[o]) /\ data'[saved'[o].buf] = frames[o]
      BY <1>1, <1>6, <2>1, <3>3, <3>5, SaveKeeps
    <3>7. NullPtr \notin Buffers
      BY StackAssumption DEF StackConstants
    <3> QED BY <3>6, <3>7 DEF OthersSaved
  <2>2. CASE o = NullPtr
    <3>1. ~MustSave(owner[s])
      BY <1>3, <2>2 DEF MustSave
    <3>2. UNCHANGED <<saved, data, free>>
      BY <1>2, <3>1 DEF SwitchTo, Mark, snapVars
    <3>3. SnapOK'
      BY <1>1, <3>2, SnapKept
    <3> QED BY <2>2, <3>2, <3>3
  <2> QED BY <2>1, <2>2
(* The fiber's own frames come back from its snapshot.                     *)
<1>8. ~Resident(f)
  BY <1>2, <1>3, <1>5 DEF Resident
<1>9. /\ frames[f] \in Seq(Nat) /\ Len(frames[f]) <= StackCells /\ saved'[f].size = Len(frames[f])
      /\ frames[f] # <<>> => data'[saved'[f].buf] = frames[f]
  BY <1>1, <1>4, <1>5, <1>7, <1>8 DEF FramesOK, StackTypes
<1>10. memory[s] \in Row
  BY <1>1 DEF StackTypes
<1>11. Restored(f, s) \in Row /\ Starts(Restored(f, s), frames[f])
  <2>1. CASE frames[f] = <<>>
    <3>1. Len(frames[f]) = 0
      BY <2>1
    <3> QED BY <1>9, <1>10, <3>1 DEF Restored, Starts
  <2>2. CASE frames[f] # <<>>
    <3>1. Len(frames[f]) \in Nat \ {0} /\ \A c \in 1..Len(frames[f]) : frames[f][c] \in Nat
      BY <1>9, <2>2
    <3>2. Restored(f, s) = [c \in 1..StackCells |->
                              IF c <= Len(frames[f]) THEN frames[f][c] ELSE memory[s][c]]
      BY <1>9, <2>2, <3>1 DEF Restored
    <3> QED BY <1>0, <1>9, <1>10, <3>1, <3>2 DEF Row, Starts
  <2> QED BY <2>1, <2>2
<1>12. PICK row \in Row : row = Restored(f, s)
  BY <1>11
<1>13. /\ memory' \in [1..Stacks -> Row] /\ memory'[s] = row
       /\ \A t \in 1..Stacks : t # s => memory'[t] = memory[t]
  BY <1>1, <1>4, <1>12 DEF StackTypes
<1>14. /\ owner' \in [1..Stacks -> [fiber : StackFibers \cup {NullPtr}, id : Nat]] /\ owner'[s] = Mark(f)
       /\ \A t \in 1..Stacks : t # s => owner'[t] = owner[t]
  <2> DEFINE O == [fiber : StackFibers \cup {NullPtr}, id : Nat]
  <2>1. owner \in [1..Stacks -> O] /\ Mark(f) \in O
    BY <1>1 DEF StackTypes, Mark
  <2> HIDE DEF O, Mark
  <2>2. /\ owner' \in [1..Stacks -> O] /\ owner'[s] = Mark(f)
        /\ \A t \in 1..Stacks : t # s => owner'[t] = owner[t]
    BY <1>4, <2>1
  <2> QED BY <2>2 DEF O
<1>15. StackTypes'
  BY <1>1, <1>4, <1>13, <1>14 DEF StackTypes, Row
<1>16. PoolOK'
  BY <1>1, <1>4 DEF PoolOK, Distinct, Members
<1>17. Mark(f).fiber = f /\ \A g : Mark(g)' = Mark(g)
  BY <1>4 DEF Mark
<1>18. OwnersOK'
  <2>1. current' # NullPtr => state'[current'] = "ready" /\ owner'[slot'[current']] = Mark(f)
    BY <1>2, <1>4, <1>14
  <2>2. ASSUME NEW t \in 1..Stacks, owner'[t].fiber # NullPtr
        PROVE  /\ state'[owner'[t].fiber] = "ready" /\ slot'[owner'[t].fiber] = t
               /\ owner'[t] = Mark(owner'[t].fiber)
    <3>1. CASE t = s
      BY <1>2, <1>4, <1>14, <1>17, <3>1
    <3>2. CASE t # s
      BY <1>1, <1>4, <1>14, <2>2, <3>2 DEF OwnersOK
    <3> QED BY <3>1, <3>2
  <2> QED BY <1>4, <2>1, <2>2 DEF OwnersOK, Mark
<1>19. FramesOK'
  <2> SUFFICES ASSUME NEW g \in StackFibers, state[g] = "ready"
               PROVE  /\ Len(frames[g]) <= StackCells
                      /\ Resident(g)' => Starts(memory'[slot[g]], frames[g])
                      /\ ~Resident(g)' => /\ saved'[g].size = Len(frames[g])
                                          /\ frames[g] # <<>> =>
                                               saved'[g].buf # NullPtr /\ data'[saved'[g].buf] = frames[g]
    BY <1>4 DEF FramesOK, Starts
  <2>1. slot[g] \in 1..Stacks /\ g # NullPtr
    BY <1>0, <1>1 DEF StackTypes
  <2>2. CASE g = f
    <3>1. Resident(f)'
      BY <1>2, <1>4, <1>14, <1>17 DEF Resident
    <3>2. Starts(memory'[s], frames[f])
      BY <1>11, <1>12, <1>13
    <3> QED BY <1>2, <1>9, <2>2, <3>1, <3>2
  <2>3. CASE g = o
    <3>1. slot[g] = s /\ ~Resident(g)'
      BY <1>4, <1>5, <1>6, <1>14, <1>17, <2>1, <2>3 DEF Resident
    <3> QED BY <1>6, <1>7, <2>1, <2>3, <3>1
  <2>4. CASE g # f /\ g # o
    <3>1. Resident(g)' = Resident(g)
      <4>1. CASE slot[g] = s
        BY <1>3, <1>4, <1>14, <1>17, <2>4, <4>1 DEF Resident
      <4>2. CASE slot[g] # s
        BY <1>4, <1>14, <2>1, <4>2 DEF Resident
      <4> QED BY <4>1, <4>2
    <3>2. Resident(g) => slot[g] # s
      BY <1>3, <2>4 DEF Resident
    <3>3. Resident(g) => memory'[slot[g]] = memory[slot[g]]
      BY <1>13, <2>1, <3>2
    <3>4. saved'[g] = saved[g] /\ (saved[g].buf # NullPtr => data'[saved[g].buf] = data[saved[g].buf])
      BY <1>7, <2>4
    <3> QED BY <1>1, <3>1, <3>3, <3>4 DEF FramesOK
  <2> QED BY <2>2, <2>3, <2>4
<1> QED BY <1>7, <1>15, <1>16, <1>18, <1>19 DEF StackInv

LEMMA StackKept ==
  ASSUME StackInv, UNCHANGED <<state, id, slot, frames, saved, pool, memory, owner, next_id, next_slot, data, free>>,
         \/ current' = current
         \/ \E f \in StackFibers : current' = f /\ state[f] = "ready" /\ owner[slot[f]] = Mark(f)
  PROVE  StackInv'
<1>1. StackTypes'
  BY DEF StackInv, StackTypes, Row
<1>2. SnapOK'
  BY SnapKept DEF StackInv
<1>3. PoolOK' /\ FramesOK'
  BY DEF StackInv, PoolOK, Distinct, Members, FramesOK, Resident, Starts
<1>4. OwnersOK'
  BY DEF StackInv, OwnersOK, Mark
<1> QED BY <1>1, <1>2, <1>3, <1>4 DEF StackInv

LEMMA StackStarts ==
  ASSUME StackInit
  PROVE  StackInv
<1>0. Stacks \in Nat \ {0} /\ StackCells \in Nat \ {0} /\ BucketLimit \in Nat /\ NullPtr \notin StackFibers \cup Buffers
  BY StackAssumption DEF StackConstants
<1>1. StackTypes
  BY <1>0 DEF StackInit, StackTypes, Row, NoOwner
<1>2. saved \in Saves /\ free \in Frees /\ data \in Contents
  BY DEF StackInit, Saves, Frees, Contents, Snapshot, NoSave, Dynamic
<1>3. \A f \in StackFibers : saved[f].buf = NullPtr /\ saved[f].size = 0 /\ saved[f].cap = 0
  BY DEF StackInit, NoSave
<1>4. \A k \in SnapshotSizes : free[k] = <<>> /\ Members(free[k]) = {} /\ Distinct(free[k]) /\ Len(free[k]) = 0
  BY DEF StackInit, Members, Distinct
<1>5. BuffersApart(saved, free)
  <2>1. \A k \in SnapshotSizes : Distinct(free[k]) /\ Len(free[k]) <= BucketLimit
    BY <1>0, <1>4
  <2>2. \A f \in StackFibers, k \in SnapshotSizes : saved[f].buf \notin Members(free[k])
    BY <1>4
  <2>3. \A k, l \in SnapshotSizes : k # l => Members(free[k]) \cap Members(free[l]) = {}
    BY <1>4
  <2>4. \A f, g \in StackFibers : saved[f].buf # NullPtr /\ saved[f].buf = saved[g].buf => f = g
    BY <1>3
  <2> QED BY <2>1, <2>2, <2>3, <2>4 DEF BuffersApart
<1>6. SnapOK
  BY <1>2, <1>3, <1>5 DEF SnapOK
<1>7. PoolOK
  BY DEF StackInit, PoolOK, Distinct, Members
<1>8. OwnersOK
  BY DEF StackInit, OwnersOK, NoOwner
<1>9. FramesOK
  BY DEF StackInit, FramesOK
<1> QED BY <1>1, <1>6, <1>7, <1>8, <1>9 DEF StackInv

(* RunsOnOwnFrames of SharedStack.tla: a fiber that Processor switches in  *)
(* (prepare_shared_stack_for) finds its frames as it left them, the raw    *)
(* pointer to a stack's occupant is to an object that exists, and no       *)
(* snapshot is longer than its buffer, for any number of fibers, stacks    *)
(* and buckets.                                                            *)
THEOREM FibersFindTheirFrames == StackSpec => []RunsOnOwnFrames
<1>1. StackInit => StackInv
  BY StackStarts
<1>2. StackInv /\ [StackNext]_switchvars => StackInv'
  <2> SUFFICES ASSUME StackInv, [StackNext]_switchvars PROVE StackInv'
    OBVIOUS
  <2>1. ASSUME NEW f \in StackFibers, Obtain(f) PROVE StackInv'
    BY <2>1, ObtainKeeps
  <2>2. ASSUME NEW f \in StackFibers, SwitchTo(f) PROVE StackInv'
    <3>1. CASE owner[slot[f]] = Mark(f)
      <4>1. UNCHANGED <<state, id, slot, frames, saved, pool, memory, owner, next_id, next_slot, data, free>>
        BY <2>2, <3>1 DEF SwitchTo, Mark, genVars, snapVars
      <4>2. current' = f /\ state[f] = "ready"
        BY <2>2 DEF SwitchTo
      <4> QED BY <3>1, <4>1, <4>2, StackKept
    <3>2. CASE owner[slot[f]] # Mark(f)
      BY <2>2, <3>2, TakeOverKeeps
    <3> QED BY <3>1, <3>2
  <2>3. ASSUME NEW d \in 1..StackCells, Runs(d) PROVE StackInv'
    BY <2>3, RunsKeeps
  <2>4. CASE FiberEnds
    BY <2>4, EndKeeps
  <2>5. CASE UNCHANGED switchvars
    BY <2>5, StackKept DEF switchvars, fiberVars, stackVars, genVars, snapVars
  <2> QED BY <2>1, <2>2, <2>3, <2>4, <2>5 DEF StackNext
<1>3. StackInv => RunsOnOwnFrames
  <2> SUFFICES ASSUME StackInv PROVE RunsOnOwnFrames
    OBVIOUS
  <2>1. StackTypes /\ SnapOK /\ OwnersOK /\ FramesOK
    BY DEF StackInv
  <2>2. ASSUME current # NullPtr
        PROVE  SubSeq(memory[slot[current]], 1, Len(frames[current])) = frames[current]
    <3>1. /\ current \in StackFibers /\ frames[current] \in Seq(Nat) /\ slot[current] \in 1..Stacks
          /\ memory[slot[current]] \in Row
      BY <2>1, <2>2 DEF StackTypes
    <3>2. state[current] = "ready" /\ Resident(current)
      BY <2>1, <2>2 DEF OwnersOK, Resident, Mark
    <3>3. Len(frames[current]) <= StackCells /\ Starts(memory[slot[current]], frames[current])
      BY <2>1, <3>1, <3>2 DEF FramesOK
    <3> QED BY <3>1, <3>3, PrefixIs
  <2>3. \A s \in 1..Stacks : owner[s].fiber # NullPtr => state[owner[s].fiber] # "absent"
    BY <2>1 DEF OwnersOK
  <2> QED BY <2>1, <2>2, <2>3 DEF RunsOnOwnFrames, SnapOK
<1> QED BY <1>1, <1>2, <1>3, PTL DEF StackSpec
=============================================================================
