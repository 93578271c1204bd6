------------------------------ MODULE MCLocate -----------------------------
(* Three nodes; the processes and the invocation are n1's. *)
EXTENDS Locate, TLC

CONSTANTS n1, n2, n3, p1, p2, r1

MCNode  == {n1, n2, n3}
MCPlace == (p1 :> n1) @@ (p2 :> n1) @@ (r1 :> n1)
=============================================================================
