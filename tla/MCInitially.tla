---------------------------- MODULE MCInitially -----------------------------
(* Three processes; p1 is the one a loader or scheduler begins with.  No
   symmetry: p1 is not like the others. *)
EXTENDS Initially, TLC

CONSTANTS p1, p2, p3

MCProc == {p1, p2, p3}
MCTurns == [p \in MCProc |-> 3]
=============================================================================
