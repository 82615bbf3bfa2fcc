------------------------------ MODULE LockSpec ------------------------------
(***************************************************************************)
(* What zco::Mutex promises its clients: at most one holder, and the lock  *)
(* goes only to somebody who asked for it.                                 *)
(***************************************************************************)
CONSTANTS Clients, Nobody
VARIABLES holder, wanting

Init == holder = Nobody /\ wanting = {}

Ask(x) ==
  /\ x \notin wanting /\ holder # x
  /\ wanting' = wanting \cup {x}
  /\ UNCHANGED holder

Grant(x) ==
  /\ holder = Nobody
  /\ x \in wanting
  /\ holder' = x
  /\ wanting' = wanting \ {x}

\* lock() and try_lock() on a free mutex do not wait.
Take(x) ==
  /\ holder = Nobody /\ x \notin wanting
  /\ holder' = x
  /\ UNCHANGED wanting

Release ==
  /\ holder # Nobody
  /\ holder' = Nobody
  /\ UNCHANGED wanting

\* unlock() hands the mutex to a waiter without freeing it.
Pass(x) ==
  /\ holder # Nobody
  /\ x \in wanting
  /\ holder' = x
  /\ wanting' = wanting \ {x}

Next == Release \/ \E x \in Clients : Ask(x) \/ Grant(x) \/ Take(x) \/ Pass(x)

Spec == Init /\ [][Next]_<<holder, wanting>>
=============================================================================
