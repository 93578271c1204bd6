------------------------------ MODULE Monitor ------------------------------
(***************************************************************************)
(* One node's scheduler (vm/main.c) and one monitored object: the monitor  *)
(* and condition instructions of vm/vm.d, and what vm/debug.c does to the  *)
(* object when a failure escapes one of its operations.                    *)
(*                                                                         *)
(* A node runs one process at a time, the interpreter's `state', until it  *)
(* blocks; nothing preempts it (vm.d compiles preemption only under        *)
(* TIMESLICE, which no build file sets).  Some instructions switch the     *)
(* interpreter to another process without going through the ready queue.   *)
(***************************************************************************)
EXTENDS Naturals, Sequences, Queues

CONSTANTS Proc,       \* processes
          Cond,       \* conditions of the object
          NoProc,
          Fuel        \* bound: instructions a process may start in its life

ASSUME ConstAssumption == NoProc \notin Proc /\ Fuel \in Nat

VARIABLES busy,       \* monitor.busy
          waiting,    \* monitor.waiting
          cond,       \* condition.waiting, for each condition of the object
          ready,      \* the ready queue
          current,    \* `state' of the running interpreter, or NoProc
          asleep,     \* not created yet, or blocked elsewhere: a delay, a
                      \* remote operation
          at,         \* the last monitor instruction p went through
          broken,     \* isBroken(object): frozen for RDead
          fuel

vars == <<busy, waiting, cond, ready, current, asleep, at, broken, fuel>>

Points    == {"outside", "entered", "signalled", "waited", "dead"}
Inside(p) == at[p] \in {"entered", "signalled", "waited"}

(* The sequences obtained from s by leaving elements out. *)
Subsequences(s) ==
  UNION {{[i \in 1..n |-> s[f[i]]] :
            f \in {g \in [1..n -> 1..Len(s)] :
                     \A i, j \in 1..n : i < j => g[i] < g[j]}} :
         n \in 0..Len(s)}

(* The running process p starts an instruction, and is then at point x. *)
Step(p, x) ==
  /\ current = p
  /\ fuel[p] > 0
  /\ fuel' = [fuel EXCEPT ![p] = @ - 1]
  /\ at' = [at EXCEPT ![p] = x]

Init ==
  /\ busy = 0
  /\ waiting = <<>>
  /\ cond = [c \in Cond |-> <<>>]
  /\ ready = <<>>
  /\ current = NoProc
  /\ asleep = Proc
  /\ at = [p \in Proc |-> "outside"]
  /\ broken = FALSE
  /\ fuel = [p \in Proc |-> Fuel]
-----------------------------------------------------------------------------
(* The scheduler *)

(* processEverythingOnce: the head of the ready queue runs until it blocks. *)
Dispatch ==
  /\ current = NoProc /\ ready # <<>>
  /\ current' = Head(ready)
  /\ ready' = Tail(ready)
  /\ UNCHANGED <<busy, waiting, cond, asleep, at, broken, fuel>>

(* An instruction that leaves the interpreter: delay, a remote operation. *)
Block(p) ==
  /\ Step(p, at[p])
  /\ asleep' = asleep \cup {p}
  /\ current' = NoProc
  /\ UNCHANGED <<busy, waiting, cond, ready, broken>>

(* The timer or a reply makes p ready. *)
Wake(p) ==
  /\ p \in asleep
  /\ asleep' = asleep \ {p}
  /\ ready' = Append(ready, p)
  /\ UNCHANGED <<busy, waiting, cond, current, at, broken, fuel>>

(* A reply finds that the object p is to return into has broken: p's frames in
   it are skipped.  A handler further out takes over, or p dies. *)
ReturnToBrokenObject(p) ==
  /\ p \in asleep /\ Inside(p) /\ broken
  /\ asleep' = asleep \ {p}
  /\ \/ at' = [at EXCEPT ![p] = "outside"] /\ ready' = Append(ready, p)
     \/ at' = [at EXCEPT ![p] = "dead"]    /\ UNCHANGED ready
  /\ UNCHANGED <<busy, waiting, cond, current, broken, fuel>>

(* QUITP: the process ends. *)
Quit(p) ==
  /\ current = p /\ at[p] = "outside"
  /\ current' = NoProc
  /\ at' = [at EXCEPT ![p] = "dead"]
  /\ UNCHANGED <<busy, waiting, cond, ready, asleep, broken, fuel>>
-----------------------------------------------------------------------------
(* Monitor instructions *)

MonEnter(p) ==
  /\ at[p] = "outside" /\ ~broken
  /\ Step(p, "entered")
  /\ \/ /\ busy = 0
        /\ busy' = 1
        /\ UNCHANGED <<waiting, current>>
     \/ /\ busy = 1
        /\ waiting' = Append(waiting, p)
        /\ current' = NoProc
        /\ UNCHANGED busy
  /\ UNCHANGED <<cond, ready, asleep, broken>>

(* invokefrozen of a broken object: a failure, handled by the invoker or not *)
InvokeBroken(p) ==
  /\ at[p] = "outside" /\ broken
  /\ \/ Step(p, "outside") /\ UNCHANGED current
     \/ Step(p, "dead") /\ current' = NoProc
  /\ UNCHANGED <<busy, waiting, cond, ready, asleep, broken>>

MonExitOpening(p) ==        \* mutant: unlocks although it hands the lock on
  /\ current = p /\ Inside(p)
  /\ at' = [at EXCEPT ![p] = "outside"]
  /\ busy' = 0
  /\ \/ waiting = <<>> /\ UNCHANGED <<waiting, ready>>
     \/ waiting # <<>> /\ ready' = Append(ready, Head(waiting)) /\ waiting' = Tail(waiting)
  /\ UNCHANGED <<cond, current, asleep, broken, fuel>>

(* The monitor stays busy when a waiter gets it. *)
MonExit(p) ==
  /\ current = p /\ Inside(p)
  /\ at' = [at EXCEPT ![p] = "outside"]
  /\ \/ /\ waiting = <<>>
        /\ busy' = 0
        /\ UNCHANGED <<waiting, ready>>
     \/ /\ waiting # <<>>
        /\ ready' = Append(ready, Head(waiting))
        /\ waiting' = Tail(waiting)
        /\ UNCHANGED busy
  /\ UNCHANGED <<cond, current, asleep, broken, fuel>>
-----------------------------------------------------------------------------
(* Condition instructions *)

CondWaitOpening(p, c) ==    \* mutant: forgets the processes that wait to enter
  /\ Inside(p)
  /\ Step(p, "waited")
  /\ cond' = [cond EXCEPT ![c] = Append(@, p)]
  /\ busy' = 0
  /\ current' = NoProc
  /\ UNCHANGED <<waiting, ready, asleep, broken>>

CondWaitBusy(p, c) ==       \* mutant: leaves the monitor locked
  /\ Inside(p)
  /\ Step(p, "waited")
  /\ cond' = [cond EXCEPT ![c] = Append(@, p)]
  /\ \/ waiting # <<>> /\ current' = Head(waiting) /\ waiting' = Tail(waiting)
     \/ waiting = <<>> /\ current' = NoProc /\ UNCHANGED waiting
  /\ UNCHANGED <<busy, ready, asleep, broken>>

(* The interpreter goes on with the head of the entry queue, if any. *)
CondWait(p, c) ==
  /\ Inside(p)
  /\ Step(p, "waited")
  /\ cond' = [cond EXCEPT ![c] = Append(@, p)]
  /\ \/ /\ waiting # <<>>
        /\ current' = Head(waiting)
        /\ waiting' = Tail(waiting)
        /\ UNCHANGED busy
     \/ /\ waiting = <<>>
        /\ busy' = 0
        /\ current' = NoProc
        /\ UNCHANGED waiting
  /\ UNCHANGED <<ready, asleep, broken>>

CondSignalLast(p, c) ==     \* mutant: the signaller queues behind the entrants
  /\ Inside(p)
  /\ \/ /\ cond[c] # <<>>
        /\ Step(p, "signalled")
        /\ waiting' = Append(waiting, p)
        /\ current' = Head(cond[c])
        /\ cond' = [cond EXCEPT ![c] = Tail(@)]
     \/ cond[c] = <<>> /\ Step(p, at[p]) /\ UNCHANGED <<waiting, current, cond>>
  /\ UNCHANGED <<busy, ready, asleep, broken>>

CondSignalReady(p, c) ==    \* mutant: the signaller is also made ready
  /\ Inside(p)
  /\ \/ /\ cond[c] # <<>>
        /\ Step(p, "signalled")
        /\ waiting' = <<p>> \o waiting
        /\ ready' = Append(ready, p)
        /\ current' = Head(cond[c])
        /\ cond' = [cond EXCEPT ![c] = Tail(@)]
     \/ cond[c] = <<>> /\ Step(p, at[p]) /\ UNCHANGED <<waiting, ready, current, cond>>
  /\ UNCHANGED <<busy, asleep, broken>>

(* The interpreter switches to the signalled process; the signaller goes to
   the front of the entry queue. *)
CondSignal(p, c) ==
  /\ Inside(p)
  /\ \/ /\ cond[c] # <<>>
        /\ Step(p, "signalled")
        /\ waiting' = <<p>> \o waiting
        /\ current' = Head(cond[c])
        /\ cond' = [cond EXCEPT ![c] = Tail(@)]
     \/ /\ cond[c] = <<>>
        /\ Step(p, at[p])
        /\ UNCHANGED <<waiting, current, cond>>
  /\ UNCHANGED <<busy, ready, asleep, broken>>

(* An operation that ends with a signal: with a process to signal it returns
   at once and never runs MONEXIT, the signalled process has the monitor. *)
CondSignalAndExit(p, c) ==
  /\ Inside(p)
  /\ \/ /\ cond[c] # <<>>
        /\ Step(p, "outside")
        /\ ready' = Append(ready, Head(cond[c]))
        /\ cond' = [cond EXCEPT ![c] = Tail(@)]
     \/ /\ cond[c] = <<>>
        /\ Step(p, at[p])
        /\ UNCHANGED <<ready, cond>>
  /\ UNCHANGED <<busy, waiting, current, asleep, broken>>
-----------------------------------------------------------------------------
(* Failures *)

(* breakMonitoredObject: the object is frozen for good, and each process in
   the entry queue fails.  Those a handler further out saves are made ready in
   queue order, the others die.  Processes in the conditions stay there.
   points is `at' as the caller leaves it. *)
BreakMonitoredObject(points) ==
  \/ /\ broken
     /\ at' = points
     /\ UNCHANGED <<waiting, ready, broken>>
  \/ /\ ~broken
     /\ broken' = TRUE
     /\ waiting' = <<>>
     /\ \E saved \in Subsequences(waiting) :
          /\ ready' = ready \o saved
          /\ at' = [q \in Proc |->
                      IF q \in ElementsOf(saved)        THEN "outside"
                      ELSE IF q \in ElementsOf(waiting) THEN "dead"
                      ELSE points[q]]

(* A failure no handler inside the object takes (findHandler, maybeKillObject):
   the object breaks and the process goes on outside, or dies. *)
Fail(p) ==
  /\ current = p /\ Inside(p)
  /\ \/ /\ BreakMonitoredObject([at EXCEPT ![p] = "outside"])
        /\ UNCHANGED current
     \/ /\ BreakMonitoredObject([at EXCEPT ![p] = "dead"])
        /\ current' = NoProc
  /\ UNCHANGED <<busy, cond, asleep, fuel>>

(* BREAKME executed by a process outside the object. *)
BreakMe(p) ==
  /\ current = p /\ at[p] = "outside" /\ ~broken
  /\ BreakMonitoredObject(at)
  /\ UNCHANGED <<busy, cond, current, asleep, fuel>>

Next ==
  \/ Dispatch
  \/ \E p \in Proc :
       \/ Block(p) \/ Wake(p) \/ ReturnToBrokenObject(p) \/ Quit(p)
       \/ MonEnter(p) \/ InvokeBroken(p) \/ MonExit(p)
       \/ \E c \in Cond : CondWait(p, c) \/ CondSignal(p, c) \/ CondSignalAndExit(p, c)
       \/ Fail(p) \/ BreakMe(p)

Spec == Init /\ [][Next]_vars

(* The main loop keeps turning, timers expire and replies arrive. *)
FairSpec == Spec /\ WF_vars(Next)
-----------------------------------------------------------------------------
TypeOK ==
  /\ busy \in {0, 1}
  /\ waiting \in Seq(Proc)
  /\ cond \in [Cond -> Seq(Proc)]
  /\ ready \in Seq(Proc)
  /\ current \in Proc \cup {NoProc}
  /\ asleep \in SUBSET Proc
  /\ at \in [Proc -> Points]
  /\ broken \in BOOLEAN
  /\ fuel \in [Proc -> Nat]

InWaiting(p)    == p \in ElementsOf(waiting)
InCondition(p)  == \E c \in Cond : p \in ElementsOf(cond[c])

(* The processes that are in the object and not queued in it: they run there,
   or will as soon as they are dispatched. *)
Holds(p) == Inside(p) /\ ~InWaiting(p) /\ ~InCondition(p)

(* At most one process is in the monitor, whichever way it got there: by
   MONENTER, from the entry queue, or signalled. *)
MutualExclusion == \A p, q \in Proc : Holds(p) /\ Holds(q) => p = q

(* Until the object breaks, busy tells whether a process has the monitor: no
   exit, wait or signal leaves it locked with nobody inside, or open while a
   process that was given it waits to be dispatched. *)
BusyMeansHeld == ~broken => (busy = 1 <=> \E p \in Proc : Holds(p))

NoRepeats ==
  /\ Injective(waiting) /\ Injective(ready)
  /\ \A c \in Cond : Injective(cond[c])

Apart ==
  /\ Disjoint(ElementsOf(waiting), ElementsOf(ready) \cup asleep \cup {current})
  /\ Disjoint(ElementsOf(ready), asleep \cup {current})
  /\ current \notin asleep
  /\ \A c \in Cond :
       Disjoint(ElementsOf(cond[c]), ElementsOf(waiting) \cup ElementsOf(ready) \cup asleep \cup {current})
  /\ \A c, d \in Cond : c # d => Disjoint(ElementsOf(cond[c]), ElementsOf(cond[d]))

Accounted ==
  \A p \in Proc :
    at[p] # "dead" <=> \/ InWaiting(p) \/ InCondition(p)
                       \/ p \in ElementsOf(ready) \cup asleep \cup {current}

(* No process is in two queues, twice in one, or in a queue while it runs or
   sleeps; and a live process is somewhere: no switch of the interpreter loses
   or duplicates a process. *)
OnePlace == NoRepeats /\ Apart /\ Accounted

(* The queued signallers are the front of the entry queue. *)
Signallers == LET n == CHOOSE k \in 0..Len(waiting) :
                         \A i \in 1..Len(waiting) : at[waiting[i]] = "signalled" <=> i <= k
              IN  SubSeq(waiting, 1, n)

(* The scheduler and the single queue of the C code implement HoareMonitor. *)
Hoare == INSTANCE HoareMonitor WITH
  owner  <- IF \E p \in Proc : Holds(p) THEN CHOOSE p \in Proc : Holds(p) ELSE NoProc,
  urgent <- Signallers,
  entry  <- SubSeq(waiting, Len(Signallers) + 1, Len(waiting)),
  queue  <- cond,
  dead   <- broken

RefinesHoareMonitor == Hoare!Spec

(* A process queued for the monitor of a live object leaves the queue: it gets
   the monitor, or the object breaks and it fails.  (One that queues itself
   after the break, by signalling, may stay for ever.) *)
EntrantsServed ==
  \A p \in Proc : InWaiting(p) /\ ~broken ~> ~InWaiting(p)

(* debug.c:1380-1386, of breakMonitoredObject: "kill any activities that may
   have been waiting for it to do something.  These include [...] processes in
   any condition objects that it owns."  None is left there by the break. *)
BreakEmptiesConditions == [][broken' /\ ~broken => \A c \in Cond : cond'[c] = <<>>]_vars
=============================================================================
