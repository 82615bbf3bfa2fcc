------------------------------ MODULE Queues ------------------------------
(***************************************************************************)
(* The operations on queues and lists the components share: std::deque and *)
(* zmalloc::SpanList as sequences.                                         *)
(***************************************************************************)
EXTENDS Naturals, Sequences

MinOf(a, b)  == IF a <= b THEN a ELSE b
Members(s)   == {s[i] : i \in DOMAIN s}
Distinct(s)  == \A i, j \in DOMAIN s : s[i] = s[j] => i = j

\* SpanList::erase unlinks one node.
Erased(list, e) ==
  IF e \in Members(list)
    THEN LET i == CHOOSE j \in DOMAIN list : list[j] = e
         IN  SubSeq(list, 1, i - 1) \o SubSeq(list, i + 1, Len(list))
    ELSE list
=============================================================================
