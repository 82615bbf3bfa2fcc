------------------------------ MODULE Override ------------------------------
(***************************************************************************)
(* zmalloc/src/override.cc: malloc, free, realloc, the aligned entry points *)
(* and operator new and delete, put on top of zmalloc.  A pointer says      *)
(* nothing about who made it: deallocate_bytes and reallocate_bytes find    *)
(* out by asking the bootstrap list, the page map with the span it leads    *)
(* to, and a header some cells before the pointer, which may be the stale   *)
(* rest of an earlier allocation.  Memory is cells: NSpans spans of         *)
(* SpanCells cells that zmalloc cuts into objects of one class and cuts     *)
(* anew when they are free, then BootPages pages the system maps for the    *)
(* bootstrap allocator.  zmalloc and the system (external here, see         *)
(* ThreadCache, CentralCache and PageCache) return any memory that is free. *)
(***************************************************************************)
EXTENDS Integers, FiniteSets, FiniteSetsExt

CONSTANTS
  OverThreads,        \* threads that call the allocator
  NSpans, SpanCells,  \* the spans of the page cache
  Classes, MaxSmall,  \* object sizes; one above MAX_BYTES has a span of its own
  BootPages, PageCells,
  OverSizes,          \* sizes asked for
  MaxOverLive,        \* own pointers alive at a time
  SizeLimit,          \* the largest size_t: a sum above it overflows
  HugePages,          \* NPAGES - 1: a longer span has only its first page mapped
  HugeAligned         \* FALSE: no alignment above a page for such a span

VARIABLES
  ready,      \* allocator_ready()
  boot,       \* the bootstrap list: records [at, size], at = user_ptr
  cut,        \* span -> obj_size; 0: is_use is FALSE
  taken,      \* objects zmalloc has handed out
  header,     \* the AlignedHeaders in memory, fresh or stale: [at, raw, user_size]
  over_call,  \* thread -> the allocation it is in
  over_live   \* pointers alive, with what was asked for

overvars == <<ready, boot, cut, taken, header, over_call, over_live>>

max_align == 1
HeaderCells == 1
Foreign == NSpans * SpanCells + (BootPages + 1) * PageCells
NoPtr == -1
Alignments == {max_align, 2, 3, PageCells, 2 * PageCells}
BootBegin == NSpans * SpanCells
NoCall == [at |-> "idle", size |-> 0, align |-> 0, old |-> NoPtr, zero |-> FALSE]

OverTypeOK ==
  /\ ready \in BOOLEAN
  /\ cut \in [0 .. NSpans - 1 -> Classes \cup {0}]
  /\ taken \subseteq 0 .. BootBegin - 1
  /\ \A b \in boot : b.at > BootBegin /\ b.at + b.size <= BootBegin + BootPages * PageCells
  /\ \A t \in OverThreads : over_call[t].at \in {"idle", "warming", "zmalloc"}

-----------------------------------------------------------------------------
(* Where a pointer comes from.                                              *)

bootstrap_mapping_pages(size) == (1 + size + PageCells - 1) \div PageCells

(* The mapping's first cell is the BootstrapAlloc, user_ptr follows it.     *)
MappedCells(b) == b.at - 1 .. b.at - 2 + bootstrap_mapping_pages(b.size) * PageCells

BootPlaces(size) ==
  {b \in {[at |-> BootBegin + p * PageCells + 1, size |-> size] : p \in 0 .. BootPages - 1} :
     /\ b.at - 1 + bootstrap_mapping_pages(size) * PageCells <= BootBegin + BootPages * PageCells
     /\ \A o \in boot : MappedCells(b) \cap MappedCells(o) = {}}

is_bootstrap_pointer(p) == \E b \in boot : b.at = p
bootstrap_size(p) == (CHOOSE b \in boot : b.at = p).size
bootstrap_contains_address(a) == \E b \in boot : a \in b.at .. b.at + b.size - 1

SpanOf(p) == p \div SpanCells

managed_span(p) ==
  /\ p \in 0 .. BootBegin - 1
  /\ LET obj_size == cut[SpanOf(p)]
         offset == p - SpanOf(p) * SpanCells
     IN  /\ obj_size # 0
         /\ IF obj_size > MaxSmall THEN offset = 0 ELSE offset % obj_size = 0

managed_size(p) == cut[SpanOf(p)]

(* try_map_object_to_span: new_span maps every page of a span, but of one   *)
(* longer than HugePages only the first.                                    *)
try_map_object_to_span(a) ==
  /\ a \in 0 .. BootBegin - 1
  /\ cut[SpanOf(a)] <= HugePages * PageCells \/ a % SpanCells < PageCells

(* The header before p is read only where p - HeaderCells is memory of the  *)
(* page map or of the bootstrap list, and believed only when its raw is a   *)
(* pointer of one of the two.                                               *)
Unwraps(p) ==
  /\ try_map_object_to_span(p - HeaderCells) \/ bootstrap_contains_address(p - HeaderCells)
  /\ \E h \in header :
       /\ h.at = p - HeaderCells
       /\ is_bootstrap_pointer(h.raw) \/ managed_span(h.raw)
HeaderOf(p) == CHOOSE h \in header : h.at = p - HeaderCells

(* Who deallocate_bytes gives p back to, and as which block.                *)
Origin(p) ==
  CASE is_bootstrap_pointer(p) -> [by |-> "bootstrap", raw |-> p]
    [] ~is_bootstrap_pointer(p) /\ managed_span(p) -> [by |-> "zmalloc", raw |-> p]
    [] ~is_bootstrap_pointer(p) /\ ~managed_span(p) /\ Unwraps(p) ->
         [by |-> IF is_bootstrap_pointer(HeaderOf(p).raw) THEN "bootstrap" ELSE "zmalloc",
          raw |-> HeaderOf(p).raw]
    [] OTHER -> [by |-> "libc", raw |-> p]

(* How many bytes of p reallocate_bytes copies.                             *)
OldSize(p) ==
  CASE is_bootstrap_pointer(p) -> bootstrap_size(p)
    [] ~is_bootstrap_pointer(p) /\ managed_span(p) -> managed_size(p)
    [] OTHER -> HeaderOf(p).user_size

(* bootstrap_free and zfree: the lists without the block p resolves to.     *)
BootWithout(p) == {b \in boot : ~(Origin(p).by = "bootstrap" /\ b.at = Origin(p).raw)}
TakenWithout(p) == taken \ {r \in {Origin(p).raw} : Origin(p).by = "zmalloc"}

-----------------------------------------------------------------------------
(* Allocation.                                                              *)

should_use_bootstrap_allocator(t) == over_call[t].at \in {"warming", "zmalloc"} \/ ~ready

is_power_of_two(v) == v \in {1, 2, 4, 8, 16, 32}

Actual(size) == IF size = 0 THEN 1 ELSE size

(* What aligned_allocate_bytes asks allocate_bytes for; 0: it returns null. *)
RawSize(size, alignment) ==
  CASE alignment <= max_align -> Actual(size)
    [] alignment > max_align /\ (\/ ~is_power_of_two(alignment)
                                 \/ alignment > SizeLimit - Actual(size) - HeaderCells) -> 0
    [] OTHER -> Actual(size) + alignment + HeaderCells

Aligned(raw, alignment) ==
  IF alignment <= max_align THEN raw
  ELSE ((raw + HeaderCells + alignment - 1) \div alignment) * alignment

(* The cells of a block at raw after the call wrote its header, zeroed      *)
(* before that by calloc.                                                   *)
Written(raw, size, alignment, zero) ==
  LET new_header == {[at |-> Aligned(raw, a) - HeaderCells, raw |-> raw, user_size |-> Actual(size)] :
                       a \in {alignment} \ {max_align}}
      lost == {w.at : w \in new_header} \cup (IF zero THEN raw .. raw + size - 1 ELSE {})
  IN  {h \in header : h.at \notin lost} \cup new_header

Pointer(raw, by, c) ==
  [ptr |-> Aligned(raw, c.align), raw |-> raw, by |-> by, size |-> Actual(c.size),
   align |-> c.align,
   kept |-> \/ c.old = NoPtr
            \/ \E o \in over_live :
                 /\ o.ptr = c.old
                 /\ Min({OldSize(c.old), c.size}) >= Min({o.size, c.size})]

(* zmalloc: an object of the smallest class that fits, of a span cut for it *)
(* or of one cut now.                                                       *)
ClassOf(size) == Min({c \in Classes : c >= size})
ZmallocPlaces(size) ==
  {p \in 0 .. BootBegin - 1 :
     /\ p \notin taken
     /\ IF ClassOf(size) > MaxSmall THEN p % SpanCells = 0
                                    ELSE (p % SpanCells) % ClassOf(size) = 0
     /\ \/ cut[SpanOf(p)] = ClassOf(size)
        \/ cut[SpanOf(p)] = 0 /\ p % SpanCells = 0}

(* The pointer is in the caller's hands; a realloc gives the old one back.  *)
Returned(t, new) ==
  /\ over_live' = {o \in over_live : o.ptr # over_call[t].old} \cup {new}
  /\ over_call' = [over_call EXCEPT ![t] = NoCall]

(* Where a call goes on: ensure_allocator_ready warms zmalloc up, each      *)
(* thread for itself until one has finished; then the call guard is taken   *)
(* and zmalloc entered.                                                     *)
Entered == IF ready THEN "zmalloc" ELSE "warming"

Warmed(t) ==
  /\ over_call[t].at = "warming"
  /\ ready' = TRUE
  /\ over_call' = [over_call EXCEPT ![t].at = "zmalloc"]
  /\ UNCHANGED <<boot, cut, taken, header, over_live>>

(* zmalloc returns; reallocate_bytes copies and gives the old pointer back. *)
LeaveZmalloc(t) ==
  LET c == over_call[t]
      size == RawSize(c.size, c.align)
  IN
  /\ c.at = "zmalloc"
  /\ \E raw \in ZmallocPlaces(size) :
       /\ cut' = [cut EXCEPT ![SpanOf(raw)] = ClassOf(size)]
       /\ header' = Written(raw, c.size, c.align, c.zero)
       /\ Returned(t, Pointer(raw, "zmalloc", c))
       /\ taken' = {raw} \cup (IF c.old = NoPtr THEN taken ELSE TakenWithout(c.old))
       /\ boot' = IF c.old = NoPtr THEN boot ELSE BootWithout(c.old)
  /\ UNCHANGED ready

(* The pointers no call is working on.                                      *)
Idle == {o \in over_live : \A t \in OverThreads : over_call[t].old # o.ptr}

(* bootstrap_reallocate: a bootstrap pointer stays one, also when zmalloc   *)
(* is ready by now.                                                         *)
bootstrap_reallocate(t) ==
  /\ over_call[t] = NoCall
  /\ \E o \in Idle, s \in OverSizes \ {0} :
       /\ is_bootstrap_pointer(o.ptr)
       /\ \E b \in BootPlaces(s) :
            /\ boot' = BootWithout(o.ptr) \cup {b}
            /\ over_live' = (over_live \ {o}) \cup
                 {Pointer(b.at, "bootstrap", [NoCall EXCEPT !.old = o.ptr, !.align = max_align, !.size = s])}
  /\ UNCHANGED <<ready, cut, taken, header, over_call>>

(* A bound on the pointers alive and under way.                             *)
Room == Cardinality({o \in over_live : o.by # "libc"}) +
        Cardinality({t \in OverThreads : over_call[t].at # "idle"}) < MaxOverLive

(* The allocator itself allocates while it warms up or works: the guard     *)
(* sends it to the bootstrap list.                                          *)
NestedAllocate(t) ==
  /\ over_call[t].at \in {"warming", "zmalloc"}
  /\ should_use_bootstrap_allocator(t)
  /\ Room
  /\ \E alignment \in {max_align, 2} : \E b \in BootPlaces(RawSize(1, alignment)) :
       /\ boot' = boot \cup {b}
       /\ header' = Written(b.at, 1, alignment, FALSE)
       /\ over_live' = over_live \cup
                         {Pointer(b.at, "bootstrap", [NoCall EXCEPT !.align = alignment, !.size = 1])}
  /\ UNCHANGED <<ready, cut, taken, over_call>>

-----------------------------------------------------------------------------
(* The entry points.                                                        *)

(* A call that gets past its entry point's checks starts to allocate; the   *)
(* null, exception or error code of the others changes nothing.             *)
Ask(t, size, alignment, old, zero) ==
  LET raw == RawSize(size, alignment) IN
  /\ over_call[t].at = "idle"
  /\ raw \in 1 .. SpanCells
  /\ (raw > HugePages * PageCells /\ alignment > PageCells) => HugeAligned
  /\ over_call' = [over_call EXCEPT ![t] =
                     [at |-> Entered, size |-> size, align |-> alignment, old |-> old, zero |-> zero]]
  /\ UNCHANGED <<ready, boot, cut, taken, header, over_live>>

malloc(t) == Room /\ \E s \in OverSizes \ {0} : Ask(t, s, max_align, NoPtr, FALSE)

(* nmemb * size is computed with an overflow check.                         *)
calloc(t) ==
  /\ Room
  /\ \E nmemb, s \in OverSizes \ {0} :
       nmemb * s <= SizeLimit /\ Ask(t, nmemb * s, max_align, NoPtr, TRUE)

(* operator new and new[]: size 0 asks for one byte.                        *)
new(t) == Room /\ \E s \in OverSizes : Ask(t, Actual(s), max_align, NoPtr, FALSE)

memalign(t) == Room /\ \E s \in OverSizes, a \in Alignments : Ask(t, s, a, NoPtr, FALSE)

aligned_alloc(t) ==
  /\ Room
  /\ \E s \in OverSizes, a \in Alignments :
       is_power_of_two(a) /\ s % a = 0 /\ Ask(t, s, a, NoPtr, FALSE)

(* The alignment is at least a pointer's size, which max_align exceeds.     *)
posix_memalign(t) ==
  Room /\ \E s \in OverSizes, a \in Alignments : is_power_of_two(a) /\ Ask(t, s, a, NoPtr, FALSE)

valloc(t) == Room /\ \E s \in OverSizes : Ask(t, s, PageCells, NoPtr, FALSE)

pvalloc(t) ==
  /\ Room
  /\ \E s \in OverSizes :
       LET rounded == ((s + PageCells - 1) \div PageCells) * PageCells
       IN  s + PageCells - 1 <= SizeLimit /\ Ask(t, rounded, PageCells, NoPtr, FALSE)

(* A pointer glibc made goes to __libc_realloc (external).                  *)
realloc(t) ==
  \E o \in Idle, s \in OverSizes \ {0} :
    Origin(o.ptr).by # "libc" /\ ~is_bootstrap_pointer(o.ptr) /\ Ask(t, s, max_align, o.ptr, FALSE)

(* free, cfree, every operator delete, and realloc to size 0.               *)
free(t) ==
  /\ over_call[t].at \in {"idle", "warming", "zmalloc"}
  /\ \E o \in Idle :
       /\ boot' = BootWithout(o.ptr)
       /\ taken' = TakenWithout(o.ptr)
       /\ over_live' = over_live \ {o}
  /\ UNCHANGED <<ready, cut, header, over_call>>

(* The span of no object goes back to the page cache.                       *)
ReleaseSpan ==
  /\ \E s \in DOMAIN cut :
       /\ cut[s] # 0
       /\ \A p \in taken : SpanOf(p) # s
       /\ cut' = [cut EXCEPT ![s] = 0]
  /\ UNCHANGED <<ready, boot, taken, header, over_call, over_live>>

OverInit ==
  /\ ready = FALSE
  /\ boot = {}
  /\ cut = [s \in 0 .. NSpans - 1 |-> 0]
  /\ taken = {}
  /\ header = {}
  /\ over_call = [t \in OverThreads |-> NoCall]
  /\ over_live = {[ptr |-> Foreign, raw |-> Foreign, by |-> "libc", size |-> 1, align |-> max_align,
                   kept |-> TRUE]}

OverNext ==
  \/ \E t \in OverThreads :
       \/ malloc(t) \/ calloc(t) \/ new(t) \/ memalign(t) \/ aligned_alloc(t) \/ posix_memalign(t)
       \/ valloc(t) \/ pvalloc(t) \/ realloc(t) \/ free(t)
       \/ bootstrap_reallocate(t) \/ Warmed(t) \/ LeaveZmalloc(t) \/ NestedAllocate(t)
  \/ ReleaseSpan

OverSpec == OverInit /\ [][OverNext]_overvars

-----------------------------------------------------------------------------
(* In every reachable state free and realloc would find, for each pointer   *)
(* the program holds, the allocator and the block that made it: whatever    *)
(* was freed, cut anew or left in front of it, whether it was made before   *)
(* zmalloc was ready, during its warm-up or after, aligned or not.          *)
PointersResolve ==
  \A o \in over_live : Origin(o.ptr) = [by |-> o.by, raw |-> o.raw]

(* Pointers are aligned as asked, their bytes lie in the block that was     *)
(* taken for them and overlap no other pointer's bytes, and realloc copied  *)
(* all that the old pointer was asked to hold, up to the new size.          *)
BlockCells(o) ==
  CASE o.by = "zmalloc" -> o.raw .. o.raw + managed_size(o.raw) - 1
    [] o.by = "bootstrap" -> o.raw .. o.raw + bootstrap_size(o.raw) - 1
    [] OTHER -> {o.raw}

BytesAreOwn ==
  /\ \A o \in over_live :
       /\ o.ptr % o.align = 0
       /\ o.ptr .. o.ptr + o.size - 1 \subseteq BlockCells(o)
       /\ o.align > max_align => o.ptr - HeaderCells \in BlockCells(o)
       /\ o.kept
  /\ \A o, q \in over_live : o # q => o.raw # q.raw /\ BlockCells(o) \cap BlockCells(q) = {}

OverrideSound == OverTypeOK /\ PointersResolve /\ BytesAreOwn
=============================================================================
