----------------------------- MODULE SizeClass ------------------------------
(***************************************************************************)
(* zmalloc's size classes: the table init_size_class_lookup builds and     *)
(* lookup reads, over every request a thread cache may get.                *)
(***************************************************************************)
EXTENDS Naturals

PAGE_SHIFT == 13
PAGE_SIZE == 2 ^ PAGE_SHIFT
MAX_BYTES == 256 * 1024
NFREELISTS == 208
MaxAlign == 16       \* alignof(std::max_align_t) of the build

VARIABLE bytes       \* the size asked for

RoundUp(n, align) == ((n + align - 1) \div align) * align

round_up(n) ==
  CASE n <= 128 -> RoundUp(n, MaxAlign)
    [] n > 128 /\ n <= 1024 -> RoundUp(n, 16)
    [] n > 1024 /\ n <= 8 * 1024 -> RoundUp(n, 128)
    [] n > 8 * 1024 /\ n <= 64 * 1024 -> RoundUp(n, 1024)
    [] n > 64 * 1024 /\ n <= 256 * 1024 -> RoundUp(n, 8 * 1024)
    [] n > 256 * 1024 -> RoundUp(n, PAGE_SIZE)

IndexOf(n, align_shift) == ((n + 2 ^ align_shift - 1) \div 2 ^ align_shift) - 1

index(n) ==
  CASE n <= 128 -> IndexOf(n, 3)
    [] n > 128 /\ n <= 1024 -> IndexOf(n - 128, 4) + 16
    [] n > 1024 /\ n <= 8 * 1024 -> IndexOf(n - 1024, 7) + 16 + 56
    [] n > 8 * 1024 /\ n <= 64 * 1024 -> IndexOf(n - 8 * 1024, 10) + 16 + 56 + 56
    [] n > 64 * 1024 -> IndexOf(n - 64 * 1024, 13) + 16 + 56 + 56 + 56

num_move_size(size) ==
  LET num == 4096 \div size
  IN  IF num < 2 THEN 2 ELSE IF num > 128 THEN 128 ELSE num

num_move_page(size) == (num_move_size(size) * size + PAGE_SIZE - 1) \div PAGE_SIZE

\* The table has an entry for every eight bytes.
lookup(n) ==
  LET size == round_up(((n + 7) \div 8) * 8)
  IN  [align_size |-> size, index |-> index(size),
       num_move |-> num_move_size(size), num_pages |-> num_move_page(size)]

Init == bytes = 1

\* Every request up to the largest, one after the other.
Ask == bytes < MAX_BYTES /\ bytes' = bytes + 1

Next == Ask

Spec == Init /\ [][Next]_bytes

-----------------------------------------------------------------------------
(* A request gets an object that is large enough, aligned for any type and *)
(* of one size per free list (free_lists_ of all caches are indexed by it, *)
(* so two sizes on one list would hand out objects that are too small); a  *)
(* larger request never gets an earlier list; a span of num_pages holds a  *)
(* batch and a batch fits the thread cache's array.                        *)
ClassesSound ==
  LET e == lookup(bytes)
      n == lookup(IF bytes = MAX_BYTES THEN bytes ELSE bytes + 1)
  IN  /\ e.align_size >= bytes /\ e.align_size % MaxAlign = 0
      /\ e.index < NFREELISTS
      /\ (e.index = n.index) <=> (e.align_size = n.align_size)
      /\ e.index <= n.index
      /\ e.num_pages * PAGE_SIZE >= e.num_move * e.align_size
      /\ e.num_move \in 1..128
=============================================================================
