------------------------------ MODULE Zmalloc ------------------------------
(***************************************************************************)
(* What the layers of zmalloc have in common: the threads that allocate    *)
(* and free, and the system behind the page cache.                         *)
(***************************************************************************)
EXTENDS Queues, FiniteSets

CONSTANTS
  Threads,
  MayFail    \* may mmap fail?
=============================================================================
