--------------------------- MODULE PageAllocSpec ---------------------------
(***************************************************************************)
(* What zmalloc::PageCache promises its callers: runs of pages that nobody *)
(* else holds.                                                             *)
(***************************************************************************)
EXTENDS Naturals

CONSTANT LastPage
VARIABLE held   \* the runs handed out, as [first, n]

Run(r) == r.first..(r.first + r.n - 1)

Init == held = {}

Allocate ==
  \E first, n \in 1..LastPage :
    LET r == [first |-> first, n |-> n]
    IN  /\ \A q \in held : Run(q) \cap Run(r) = {}
        /\ held' = held \cup {r}

Release == \E r \in held : held' = held \ {r}

Spec == Init /\ [][Allocate \/ Release]_held
=============================================================================
