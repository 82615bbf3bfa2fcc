----------------------------- MODULE MC_CoEvent -----------------------------
(***************************************************************************)
(* CoEvent for TLC.  Coroutines, threads and signallers are told apart by  *)
(* nothing in the specification, so the safety runs identify states that   *)
(* differ by a renaming.                                                   *)
(***************************************************************************)
EXTENDS CoEvent

Renaming ==
  Permutations(Coroutines) \cup Permutations(Threads) \cup Permutations(Signallers)
=============================================================================
