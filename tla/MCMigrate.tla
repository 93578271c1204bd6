------------------------------ MODULE MCMigrate ------------------------------
(* Migrate on small systems: the objects, where they are, and who runs. *)
EXTENDS Migrate, TLC

CONSTANTS n1, n2, n3, A, B, t1, t2

MCHome == A :> n1 @@ B :> n2
MCStart == t1 :> A @@ t2 :> B

Budget(o, m, z, w, c) == [ops |-> o, moves |-> m, sleeps |-> z, switches |-> w, crashes |-> c]

\* What it takes to interpret a process that ended.
CrashBudgets == {Budget(1, 1, 1, 0, 1)}
=============================================================================
