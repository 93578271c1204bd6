------------------------------ MODULE MCObjects ------------------------------
(***************************************************************************)
(* Objects of one node and of several: the heap of one node with its two   *)
(* generations, and processes whose objects move while they run in them.   *)
(***************************************************************************)
EXTENDS Heap, TLC

CONSTANTS o1, o2, o3, n1, n2, n3, A, B, t1, t2, Node, Object, Thread, Limbo, Timer

VARIABLES
  part,   \* the component that is checked; the variables of the others are off
  node, net, alive, queued, used, budget

MCSize == o1 :> 1 @@ o2 :> 1 @@ o3 :> 3
MCHome == A :> n1 @@ B :> n2
MCStart == t1 :> A @@ t2 :> B

\* Moves without faults; deaths without moves; and one of each.
Budget(o, m, z, w, c) == [ops |-> o, moves |-> m, sleeps |-> z, switches |-> w, crashes |-> c]
MCBudgets == {Budget(2, 1, 0, 0, 0), Budget(1, 2, 0, 0, 0), Budget(2, 0, 0, 0, 1), Budget(0, 1, 1, 1, 1)}

Migrating == INSTANCE Migrate WITH
  Home <- MCHome, Start <- MCStart, Budgets <- MCBudgets, MaxDepth <- 3

migrateVars == <<node, net, alive, queued, used, budget>>
all == <<vars, part, migrateVars>>

Off == "off"
MCInit ==
  /\ part \in {"heap", "migrate"}
  /\ Init
  /\ IF part = "migrate" THEN Migrating!Init
     ELSE node = Off /\ net = Off /\ alive = Off /\ queued = Off /\ used = Off /\
          budget = Off

\* The component that was chosen takes its steps, the others none.
MCNext ==
  /\ UNCHANGED part
  /\ IF part = "heap" THEN Next ELSE UNCHANGED vars
  /\ IF part = "migrate" THEN Migrating!Next ELSE UNCHANGED migrateVars

(* The nodes keep turning their main loops; a collection is taken when a   *)
(* request calls for it.                                                   *)
NodesTurn == part = "migrate" /\ Migrating!System /\ UNCHANGED <<part, vars>>
Takes     == part = "heap" /\ (TakeNew \/ Collecting) /\ UNCHANGED <<part, migrateVars>>
Fairness == WF_all(NodesTurn) /\ WF_all(Takes)
MCSpec == MCInit /\ [][MCNext]_all /\ Fairness
-----------------------------------------------------------------------------
(* NoneDangles, OnlyCopiesLeaveTheTable and RequestsEnd are Heap's.        *)

(* A call in progress can return: the segment to return to is at one node, *)
(* or on its way to one, and waits for a segment.                          *)
LinksHold == part = "migrate" => Migrating!LinksHold

(* No thread is lost or run twice by a move, no object is at two nodes, and*)
(* what a node is about to run is in an object it has.                     *)
OneThread ==
  part = "migrate" =>
    Migrating!TypeOK /\ Migrating!OneToken /\ Migrating!OneCopy /\ Migrating!ReadyAtHome

(* Every call ends, in its operation's return or in unavailability.        *)
CallsEnd == <>(part = "heap" \/ Migrating!Over)
=============================================================================
