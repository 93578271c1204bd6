---------------------------- MODULE HoareMonitor ----------------------------
(***************************************************************************)
(* What an Emerald monitored object promises: one owner at a time; a       *)
(* signalled process takes the monitor over from its signaller at once,    *)
(* and the signaller is resumed before any process that waits to enter;    *)
(* processes enter in the order they came.  A monitor that dies turns its  *)
(* entrants and signallers away and lets nobody in again.                  *)
(***************************************************************************)
EXTENDS Naturals, Sequences

CONSTANTS Proc, Cond, NoProc

VARIABLES owner,    \* the process in the monitor, or NoProc
          urgent,   \* signallers to be resumed, last one first
          entry,    \* entrants, first come first
          queue,    \* condition -> the processes that wait for it
          dead

vars == <<owner, urgent, entry, queue, dead>>

Init ==
  /\ owner = NoProc
  /\ urgent = <<>>
  /\ entry = <<>>
  /\ queue = [c \in Cond |-> <<>>]
  /\ dead = FALSE

(* The owner gives the monitor up to the next in line. *)
PassOn ==
  \/ /\ urgent # <<>>
     /\ owner' = Head(urgent)
     /\ urgent' = Tail(urgent)
     /\ UNCHANGED entry
  \/ /\ urgent = <<>> /\ entry # <<>>
     /\ owner' = Head(entry)
     /\ entry' = Tail(entry)
     /\ UNCHANGED urgent
  \/ /\ urgent = <<>> /\ entry = <<>>
     /\ owner' = NoProc
     /\ UNCHANGED <<urgent, entry>>

Enter(p) ==
  /\ ~dead /\ owner # p
  /\ \/ owner = NoProc /\ owner' = p /\ UNCHANGED entry
     \/ owner # NoProc /\ entry' = Append(entry, p) /\ UNCHANGED owner
  /\ UNCHANGED <<urgent, queue, dead>>

Exit == owner # NoProc /\ PassOn /\ UNCHANGED <<queue, dead>>

Wait(c) ==
  /\ owner # NoProc
  /\ queue' = [queue EXCEPT ![c] = Append(@, owner)]
  /\ PassOn
  /\ UNCHANGED dead

WakeFirst(c) ==
  /\ owner # NoProc /\ queue[c] # <<>>
  /\ owner' = Head(queue[c])
  /\ queue' = [queue EXCEPT ![c] = Tail(@)]

Signal(c) ==
  /\ WakeFirst(c)
  /\ urgent' = <<owner>> \o urgent
  /\ UNCHANGED <<entry, dead>>

SignalAndExit(c) == WakeFirst(c) /\ UNCHANGED <<urgent, entry, dead>>

(* The monitor dies, and with it, perhaps, the owner's visit. *)
Die ==
  /\ dead' = TRUE
  /\ urgent' = <<>>
  /\ entry' = <<>>
  /\ owner' \in {owner, NoProc}
  /\ UNCHANGED queue

(* The owner of a dead monitor fails. *)
Abandon ==
  /\ dead
  /\ owner' = NoProc
  /\ UNCHANGED <<urgent, entry, queue, dead>>

Next ==
  \/ \E p \in Proc : Enter(p)
  \/ Exit
  \/ \E c \in Cond : Wait(c) \/ Signal(c) \/ SignalAndExit(c)
  \/ Die
  \/ Abandon

Spec == Init /\ [][Next]_vars
=============================================================================
