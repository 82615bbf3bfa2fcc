---------------------------- MODULE ChannelSpec ----------------------------
(***************************************************************************)
(* What zco::Channel promises: a bounded first-in first-out queue that can *)
(* be closed.  A closed channel takes no more elements and can be emptied. *)
(***************************************************************************)
EXTENDS Sequences, Naturals

CONSTANTS Values, Unset, Limit
VARIABLES queue, closed, out

Init ==
  /\ queue = <<>>
  /\ closed = FALSE
  /\ out = Unset

Put(v) ==
  /\ ~closed /\ Len(queue) < Limit
  /\ queue' = Append(queue, v)
  /\ UNCHANGED <<closed, out>>

Take ==
  /\ queue # <<>>
  /\ out' = Head(queue)
  /\ queue' = Tail(queue)
  /\ UNCHANGED closed

Close ==
  /\ closed' = TRUE
  /\ UNCHANGED <<queue, out>>

Next == Close \/ (\E v \in Values : Put(v)) \/ Take

Spec == Init /\ [][Next]_<<queue, closed, out>>
=============================================================================
