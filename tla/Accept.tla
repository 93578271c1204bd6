------------------------------- MODULE Accept -------------------------------
(***************************************************************************)
(* An object that is synchronised by accept statements of its own process: *)
(* SYNCHINIT, SYNCHENTER, SYNCHEXIT, SYNCHDIE and ACPTBLCK of vm/vm.d, and *)
(* findAcceptable of vm/misc.c, with the scheduler of vm/main.c.           *)
(*                                                                         *)
(* Its processes run one at a time, as in Monitor.  Operations that the    *)
(* object invokes on itself pass the busy (prevOP(fp) == op) and are not   *)
(* seen here.                                                              *)
(***************************************************************************)
EXTENDS Naturals, Sequences, FiniteSets, SequencesExt

CONSTANTS Callers,    \* processes that invoke the object
          Server,     \* the object's own process, none of the Callers
          Operations, \* its operations
          Nobody,     \* no process
          Fuel        \* bound: how often each process may begin something

Procs == Callers \cup {Server}

(* What the proofs assume of the constants *)
ConstantsOK ==
  /\ Server \notin Callers /\ Nobody \notin Procs
  /\ Operations # {}
  /\ Fuel \in [Procs -> Nat]

VARIABLES busy,       \* monitor.busy: 1 locked, 2 the process is alive
          waiting,    \* monitor.waiting
          ready,      \* the ready queue
          current,    \* `state' of the interpreter, or Nobody
          asleep,     \* blocked elsewhere, or not created yet
          at,         \* "outside", "called" or "dead"; of the Server also "accept"
          opp,        \* the operation each process invokes (state->opp)
          type,       \* the operations of the accept statement the Server is at
          failed,     \* an operation or the process failed and left the lock
          fuel

vars == <<busy, waiting, ready, current, asleep, at, opp, type, failed, fuel>>

(* What SYNCHINIT left: locked, and the process is to start.               *)
Init ==
  /\ busy = 3 /\ waiting = <<>>
  /\ ready = <<>> /\ current = Nobody
  /\ asleep = Procs
  /\ at = [p \in Procs |-> "outside"]
  /\ opp = [p \in Callers |-> CHOOSE o \in Operations : TRUE]
  /\ type = {} /\ failed = FALSE
  /\ fuel = Fuel
-----------------------------------------------------------------------------
(* The scheduler *)

Dispatch ==
  /\ current = Nobody /\ ready # <<>>
  /\ current' = Head(ready) /\ ready' = Tail(ready)
  /\ UNCHANGED <<busy, waiting, asleep, at, opp, type, failed, fuel>>

Begins(p) == current = p /\ fuel[p] > 0 /\ fuel' = [fuel EXCEPT ![p] = @ - 1]

Block(p) ==
  /\ at[p] # "accept" /\ Begins(p)
  /\ asleep' = asleep \cup {p} /\ current' = Nobody
  /\ UNCHANGED <<busy, waiting, ready, at, opp, type, failed>>

Wake(p) ==
  /\ p \in asleep
  /\ asleep' = asleep \ {p} /\ ready' = Append(ready, p)
  /\ UNCHANGED <<busy, waiting, current, at, opp, type, failed, fuel>>

Quit(p) ==
  /\ p # Server /\ current = p /\ at[p] = "outside"
  /\ current' = Nobody /\ at' = [at EXCEPT ![p] = "dead"]
  /\ UNCHANGED <<busy, waiting, ready, asleep, opp, type, failed, fuel>>
-----------------------------------------------------------------------------
(* SYNCHENTER.  An object that is locked takes the caller into its queue;  *)
(* one that is open though its process lives has the process at the head,  *)
(* which is run at once and looks again.                                   *)
Queued(p) ==
  \/ busy \in {1, 3} /\ waiting' = Append(waiting, p) /\ current' = Nobody
  \/ busy = 2 /\ current' = Head(waiting) /\ waiting' = Append(Tail(waiting), p)

SynchEnter(p) ==
  /\ p # Server /\ at[p] = "outside" /\ Begins(p)
  /\ at' = [at EXCEPT ![p] = "called"]
  /\ opp' \in {[opp EXCEPT ![p] = o] : o \in Operations}
  /\ \/ busy = 0 /\ busy' = 1 /\ UNCHANGED <<waiting, current>>
     \/ busy # 0 /\ Queued(p) /\ UNCHANGED busy
  /\ UNCHANGED <<ready, asleep, type, failed>>

(* SYNCHEXIT: the object goes to the head of the queue, which is its       *)
(* process as long as that lives (the code asserts busy = 1 otherwise).    *)
SynchExit(p) ==
  /\ p # Server /\ current = p /\ at[p] = "called"
  /\ at' = [at EXCEPT ![p] = "outside"]
  /\ \/ waiting # <<>> /\ ready' = Append(ready, Head(waiting))
          /\ waiting' = Tail(waiting) /\ UNCHANGED busy
     \/ waiting = <<>> /\ busy' = 0 /\ UNCHANGED <<ready, waiting>>
  /\ UNCHANGED <<current, asleep, opp, type, failed, fuel>>

(* A failure that nothing inside the operation handles: its frame is gone  *)
(* without SYNCHEXIT.  maybeKillObject looks for MONENTER only, so that    *)
(* the object is not broken either.                                        *)
Fail(p) ==
  /\ p # Server /\ current = p /\ at[p] = "called"
  /\ \/ at' = [at EXCEPT ![p] = "outside"] /\ UNCHANGED current
     \/ at' = [at EXCEPT ![p] = "dead"] /\ current' = Nobody
  /\ UNCHANGED <<busy, waiting, ready, asleep, opp, type, fuel>>
  /\ failed' = TRUE
-----------------------------------------------------------------------------
(* findAcceptable: the places in the queue of those that may be accepted   *)
(* (the type without operations, Any, accepts them all: t = Operations).   *)
Acceptable(t) == {i \in DOMAIN waiting : opp[waiting[i]] \in t}

(* Mutant: the process goes to the end of the queue.                       *)
AcceptedLast(t) ==
  \E i \in Acceptable(t) :
    /\ \A j \in Acceptable(t) : i <= j
    /\ current' = waiting[i]
    /\ waiting' = Append(RemoveAt(waiting, i), Server)
    /\ busy' = 3 /\ at' = [at EXCEPT ![Server] = "outside"]

(* ACPTBLCK with a caller to accept: the first of them is run, and the     *)
(* process waits before all others.                                        *)
Accepted(t) ==
  \E i \in Acceptable(t) :
    /\ \A j \in Acceptable(t) : i <= j
    /\ current' = waiting[i]
    /\ waiting' = <<Server>> \o RemoveAt(waiting, i)
    /\ busy' = 3 /\ at' = [at EXCEPT ![Server] = "outside"]

(* ... and with none: the object is open, the instruction will be executed *)
(* once more.                                                              *)
Opened(t) ==
  /\ Acceptable(t) = {}
  /\ current' = Nobody /\ busy' = 2
  /\ waiting' = <<Server>> \o waiting
  /\ at' = [at EXCEPT ![Server] = "accept"]

AcptBlck(t) ==
  /\ current = Server
  /\ \/ at[Server] = "outside" /\ Begins(Server)
     \/ at[Server] = "accept" /\ type = t /\ UNCHANGED fuel
  /\ type' = t
  /\ Accepted(t) \/ Opened(t)
  /\ UNCHANGED <<ready, asleep, opp, failed>>

(* Mutant: the busy stays that of a living process.                        *)
SynchDieLocked ==
  /\ current = Server /\ at[Server] = "outside" /\ current' = Nobody
  /\ at' = [at EXCEPT ![Server] = "dead"]
  /\ \/ waiting # <<>> /\ ready' = Append(ready, Head(waiting))
          /\ waiting' = Tail(waiting) /\ busy' = 1
     \/ waiting = <<>> /\ UNCHANGED <<busy, ready, waiting>>
  /\ UNCHANGED <<asleep, opp, type, failed, fuel>>

(* SYNCHDIE and QUITP: from here on the object is open or handed on.       *)
SynchDie ==
  /\ current = Server /\ at[Server] = "outside" /\ current' = Nobody
  /\ at' = [at EXCEPT ![Server] = "dead"]
  /\ \/ waiting # <<>> /\ ready' = Append(ready, Head(waiting))
          /\ waiting' = Tail(waiting) /\ busy' = 1
     \/ waiting = <<>> /\ busy' = 0 /\ UNCHANGED <<ready, waiting>>
  /\ UNCHANGED <<asleep, opp, type, failed, fuel>>

(* The process fails, without SYNCHDIE.                                    *)
ServerFails ==
  /\ current = Server /\ at[Server] = "outside" /\ current' = Nobody
  /\ at' = [at EXCEPT ![Server] = "dead"]
  /\ UNCHANGED <<busy, waiting, ready, asleep, opp, type, fuel>>
  /\ failed' = TRUE

Next ==
  \/ Dispatch
  \/ \E p \in Procs : Block(p) \/ Wake(p) \/ Quit(p) \/ SynchEnter(p) \/ SynchExit(p) \/ Fail(p)
  \/ \E t \in SUBSET Operations \ {{}} : AcptBlck(t)
  \/ SynchDie \/ ServerFails

Spec == Init /\ [][Next]_vars
-----------------------------------------------------------------------------
Inside == {p \in Procs : at[p] \in {"called", "accept"} \/ (p = Server /\ at[p] = "outside")}
            \ ToSet(waiting)

(* One process is in the object, its own or one it accepted, and the two   *)
(* bits of the lock are true to that.  Open with a living process means    *)
(* that this waits at the head, and for none of the others: no caller is   *)
(* missed.  What the instructions assert follows from it.                  *)
OneInside ==
  /\ Cardinality(Inside) <= 1
  /\ busy = 2 /\ current # Server => /\ Inside = {} /\ Head(waiting) = Server
                                     /\ \A i \in 2..Len(waiting) : opp[waiting[i]] \notin type
  /\ busy = 0 => Inside = {} /\ waiting = <<>>
  /\ \A p \in Inside \cap Callers : waiting = <<>> => busy = 1
  /\ Server \in Inside /\ at[Server] = "outside" => busy = 3
  /\ ~failed => (busy \in {0, 1} <=> at[Server] = "dead") /\ (busy \in {1, 3} => Inside # {})

(* A caller leaves the queue in its turn: the first that is accepted while *)
(* the process lives, the first of all when it is dead.                    *)
InTurn ==
  \A i \in DOMAIN waiting : waiting[i] \in Callers /\ waiting[i] \notin ToSet(waiting') =>
    IF busy' = 3 THEN current' = waiting[i] /\ \E t \in {type'} : i \in Acceptable(t) /\ \A j \in Acceptable(t) : i <= j
    ELSE i = 1

(* Who waits when the process has died is let in, unless a failure left    *)
(* the lock as it was.                                                     *)
CallersServed == at[Server] = "dead" /\ waiting # <<>> ~> waiting = <<>> \/ failed
=============================================================================
