----------------------------- MODULE MCProcesses -----------------------------
(***************************************************************************)
(* The processes of one machine: in the monitor of an object, before its   *)
(* initially is over, at an object that accepts, and in delays.            *)
(***************************************************************************)
EXTENDS Monitor, TLC

CONSTANTS p1, p2, p3, c1, c2, NoQueue

VARIABLES
  part,   \* the component that is checked; the variables of the others are off
  frozen, fixq, stack, readyToStart, running, sleeping, dead, runs, known, turns,
  lock, entering, readyToRun, inTurn, away, at2, opp, type, failed, begun,
  clock, alarm, timeAdvanced, sleepers, readyAfter, nProcessesDelayed, distributed, pc,
  until, asOf

MCProc == {p1, p2, p3}
MCCond == {c1, c2}
MCOrigins == {"lazy", "active", "scheduled", "created"}
MCTurns == p1 :> 2 @@ p2 :> 2 @@ p3 :> 1
MCFuel == p1 :> 2 @@ p2 :> 1 @@ p3 :> 1 @@ "server" :> 1

Starting == INSTANCE Initially WITH
  Starter <- p1, Origins <- MCOrigins, Fuel <- MCTurns, ready <- readyToStart,
  current <- running, asleep <- sleeping, fuel <- turns
Accepting == INSTANCE Accept WITH
  Callers <- {p1, p2, p3}, Server <- "server", Operations <- {"x", "y"},
  Nobody <- NoProc, Fuel <- MCFuel, busy <- lock, waiting <- entering,
  ready <- readyToRun, current <- inTurn, asleep <- away, at <- at2, fuel <- begun
Delays == INSTANCE Timer WITH
  Processes <- {p1, p2}, Ping <- "ping", Base <- 3, Delays <- {2, 4}, Edges <- FALSE,
  MaxNow <- 3, ready <- readyAfter

initiallyVars == <<frozen, fixq, stack, readyToStart, running, sleeping, dead, runs,
         known, turns>>
acceptVars == <<lock, entering, readyToRun, inTurn, away, at2, opp, type, failed,
         begun>>
timerVars == <<clock, alarm, timeAdvanced, sleepers, readyAfter, nProcessesDelayed,
         distributed, pc, until, asOf>>
all == <<vars, part, initiallyVars, acceptVars, timerVars>>

Off == "off"
MCInit ==
  /\ part \in {"monitor", "initially", "accept", "timer"}
  /\ Init
  /\ IF part = "initially" THEN Starting!Init
     ELSE frozen = Off /\ fixq = Off /\ stack = Off /\ readyToStart = Off /\ running = Off /\
          sleeping = Off /\ dead = Off /\ runs = Off /\ known = Off /\ turns = Off
  /\ IF part = "accept" THEN Accepting!Init
     ELSE lock = Off /\ entering = Off /\ readyToRun = Off /\ inTurn = Off /\ away = Off /\
          at2 = Off /\ opp = Off /\ type = Off /\ failed = Off /\ begun = Off
  /\ IF part = "timer" THEN Delays!Init
     ELSE clock = Off /\ alarm = Off /\ timeAdvanced = Off /\ sleepers = Off /\
          readyAfter = Off /\ nProcessesDelayed = Off /\ distributed = Off /\ pc = Off /\
          until = Off /\ asOf = Off

\* The component that was chosen takes its steps, the others none.
MCNext ==
  /\ UNCHANGED part
  /\ IF part = "monitor" THEN Next ELSE UNCHANGED vars
  /\ IF part = "initially" THEN Starting!Next ELSE UNCHANGED initiallyVars
  /\ IF part = "accept" THEN Accepting!Next ELSE UNCHANGED acceptVars
  /\ IF part = "timer" THEN Delays!Next ELSE UNCHANGED timerVars

(* The main loop keeps turning; of the timers' machine, time goes on too.  *)
Ticks == part = "timer" /\ Delays!Tick /\ UNCHANGED <<vars, part, initiallyVars, acceptVars>>
Loops == part = "timer" /\ Delays!Loop /\ UNCHANGED <<vars, part, initiallyVars, acceptVars>>
Turns == part # "timer" /\ MCNext
Fairness == WF_all(Turns) /\ WF_all(Ticks) /\ WF_all(Loops)
MCSpec == MCInit /\ [][MCNext]_all /\ Fairness
-----------------------------------------------------------------------------
(* What the proofs about Initially, Accept and Timer assume of these values.*)
ASSUME StartingOK == Starting!ConstantsOK

ASSUME AcceptingOK == Accepting!ConstantsOK

ASSUME DelaysOK == Delays!ConstantsOK

(* Monitor's properties are stated in Monitor, for its variables.          *)

(* No process gets to an operation of an object while another runs its     *)
(* initially, whatever fails and whoever waits; and no process is lost or  *)
(* doubled by the queues.                                                  *)
InitialisedFirst == part = "initially" => Starting!InitialisedFirst /\ Starting!OnePlace

(* Who waits for the end of an initially is released, unless nobody is left*)
(* to end it or the object breaks.                                         *)
FixQueueServed ==
  (part = "initially" /\ Starting!Queued # {})
    ~> (part = "initially" /\ (Starting!Queued = {} \/ Starting!Abandoned \/ "RDead" \in frozen))

(* One process is in an object that accepts, its own or the first it       *)
(* accepts; the two bits of the lock are true to that, and the assertions  *)
(* of the instructions hold.                                               *)
AcceptedAlone ==
  /\ [](part = "accept" => Accepting!OneInside)
  /\ [][part = "accept" => Accepting!InTurn]_all

(* Who waits in an object whose process has died is let in, unless a       *)
(* failure left the lock as it was.                                        *)
CallersServed ==
  (part = "accept" /\ at2["server"] = "dead" /\ entering # <<>>)
    ~> (part = "accept" /\ (failed \/ entering = <<>>))

(* A callback is made in the order of the times and not early, the alarm   *)
(* for it is to come or has been seen, and a machine without distribution  *)
(* does not stop before (timer.c, main.c:149).                             *)
InTime ==
  /\ [](part = "timer" => Delays!AlarmComes /\ Delays!NobodyLeft)
  /\ [][part = "timer" => Delays!InTime]_all

(* A process in a delay is made ready again.                               *)
DelayEnds ==
  \A p \in {p1, p2} :
    (part = "timer" /\ \E i \in DOMAIN sleepers : sleepers[i].for = p)
      ~> (part = "timer" /\ \E i \in DOMAIN readyAfter : readyAfter[i] = p)
=============================================================================
