-------------------------------- MODULE Timer --------------------------------
(***************************************************************************)
(* The event loop of a machine and its clock (vm/timer.c, vm/main.c): what *)
(* is to happen later is kept in order of time, an alarm is set for the    *)
(* first, and its signal, which may come at any instant, leaves a flag for *)
(* the loop to see.  The loop waits in select when no process is ready,    *)
(* sees to the timeouts, and runs one process for a while; a process may   *)
(* ask to be delayed (vm/jsys.c).                                          *)
(***************************************************************************)
EXTENDS Integers, Sequences, FiniteSets, SequencesExt

CONSTANTS
  Processes, Ping,   \* Ping is a callback that asks for the next one
  Base,              \* the microseconds of a second
  Delays,            \* what a process may ask for, see Time
  Edges,             \* may a sum come to a whole second exactly?
  MaxNow             \* bound on the time at which something is asked for

ConstantsOK ==
  /\ Base \in Nat \ {0} /\ Delays \subseteq Nat \ {0} /\ MaxNow \in Nat
  /\ Edges \in BOOLEAN /\ IsFiniteSet(Processes) /\ Ping \notin Processes

VARIABLES
  clock,         \* the microseconds since the start
  alarm,         \* when the signal will come, or None
  timeAdvanced,
  sleepers,      \* in order: when, and what for
  ready, nProcessesDelayed, distributed,
  pc,            \* where the loop is: top, select, io, timeouts, work or ended
  until,         \* select's limit, or None
  asOf           \* the time checkForTimeouts has read
vars == <<clock, alarm, timeAdvanced, sleepers, ready, nProcessesDelayed, distributed, pc, until, asOf>>

None == -1
Time(n) == [sec |-> n \div Base, usec |-> n % Base]
Zero == Time(0)
Units(t) == t.sec * Base + t.usec
now == Time(clock)

TimeMinus(a, b) ==
  LET r == IF b.usec > a.usec THEN [sec |-> a.sec - b.sec - 1, usec |-> a.usec + Base - b.usec]
           ELSE [sec |-> a.sec - b.sec, usec |-> a.usec - b.usec]
  IN IF r.sec < 0 THEN Zero ELSE r
\* A sum of exactly one second stays in the microseconds.
TimePlus(a, b) ==
  LET r == [sec |-> a.sec + b.sec, usec |-> a.usec + b.usec]
  IN IF r.usec > Base THEN [sec |-> r.sec + 1, usec |-> r.usec - Base] ELSE r
TimeLess(a, b) == a.sec < b.sec \/ (a.sec = b.sec /\ a.usec <= b.usec)

Init ==
  /\ clock = 0 /\ alarm = None /\ timeAdvanced = FALSE /\ sleepers = <<>>
  /\ ready \in {s \in [1..Cardinality(Processes) -> Processes] : IsInjective(s)}
  /\ nProcessesDelayed = 0 /\ distributed \in BOOLEAN
  /\ pc = "top" /\ until = None /\ asOf = Zero

-----------------------------------------------------------------------------
(* ScheduleAlarm: setitimer refuses a time with too many microseconds, and *)
(* leaves the alarm that is set.                                           *)
Valid(t) == t.usec < Base
Schedule(t) ==
  IF t = Zero THEN timeAdvanced' = TRUE /\ UNCHANGED alarm
  ELSE alarm' = (IF Valid(t) THEN clock + Units(t) ELSE alarm) /\ UNCHANGED timeAdvanced

(* The signal.  It also ends a select.                                     *)
Tick ==
  /\ clock' = clock + 1 /\ (clock < MaxNow + Base \/ alarm # None)
  /\ IF alarm = clock + 1
     THEN /\ alarm' = None /\ timeAdvanced' = TRUE
          /\ pc' = IF pc = "select" THEN "io" ELSE pc
     ELSE UNCHANGED <<alarm, timeAdvanced, pc>>
  /\ UNCHANGED <<sleepers, ready, nProcessesDelayed, distributed, until, asOf>>

(* afterTime: behind those at the front that are due before or at the same *)
(* time.                                                                   *)
Before(s, e) == Max({k \in 0..Len(s) : \A i \in 1..k : TimeLess(s[i].when, e.when)})
InsertedFirst(s, e) == <<e>> \o s
Inserted(s, e) == InsertAt(s, Before(s, e) + 1, e)
After(s, t, who) ==
  LET all == Inserted(s, [when |-> TimePlus(now, t), for |-> who])
  IN /\ sleepers' = all
     /\ IF Head(all).for = who THEN Schedule(TimeMinus(Head(all).when, now))
        ELSE UNCHANGED <<alarm, timeAdvanced>>
MayAsk(t) == clock <= MaxNow /\ (Edges \/ TimePlus(now, t).usec < Base)

-----------------------------------------------------------------------------
(* processEverything: without distribution it ends when no process is      *)
(* ready or delayed.                                                       *)
StuffReady == distributed \/ ready # <<>>
StuffToDo == distributed \/ ready # <<>> \/ nProcessesDelayed > 0
LoopEnds ==
  /\ pc = "top" /\ ~StuffToDo /\ pc' = "ended"
  /\ UNCHANGED <<clock, alarm, timeAdvanced, sleepers, ready, nProcessesDelayed, distributed, until, asOf>>

(* checkForIO: it waits if there is nothing to run, until something is due *)
(* or for ever.                                                            *)
CheckForIO ==
  /\ pc = "top" /\ StuffToDo
  /\ LET pause == TimeMinus(sleepers[1].when, now)
     IN IF ready # <<>> \/ (sleepers # <<>> /\ (pause = Zero \/ ~Valid(pause)))
        THEN pc' = "io" /\ UNCHANGED until
        ELSE pc' = "select" /\ until' = IF sleepers = <<>> THEN None ELSE clock + Units(pause)
  /\ UNCHANGED <<clock, alarm, timeAdvanced, sleepers, ready, nProcessesDelayed, distributed, asOf>>
SelectReturns ==    \* for the time, or for a message
  /\ pc = "select" /\ (distributed \/ (until # None /\ clock >= until)) /\ pc' = "io"
  /\ UNCHANGED <<clock, alarm, timeAdvanced, sleepers, ready, nProcessesDelayed, distributed, until, asOf>>

(* The flag is cleared before the timeouts are seen to.                    *)
SeesTheFlag ==
  /\ pc = "io"
  /\ IF timeAdvanced THEN timeAdvanced' = FALSE /\ asOf' = now /\ pc' = "timeouts"
     ELSE pc' = "work" /\ UNCHANGED <<timeAdvanced, asOf>>
  /\ UNCHANGED <<clock, alarm, sleepers, ready, nProcessesDelayed, distributed, until>>

(* checkForTimeouts: one callback after the other, delayCallback or one    *)
(* that asks for another timeout, then the alarm for the next.             *)
WakeNobody(who) == UNCHANGED ready /\ nProcessesDelayed' = nProcessesDelayed - 1
DelayCallback(who) == ready' = Append(ready, who) /\ nProcessesDelayed' = nProcessesDelayed - 1
Due == sleepers # <<>> /\ TimeLess(sleepers[1].when, asOf)
Callback ==
  /\ pc = "timeouts" /\ Due
  /\ LET who == sleepers[1].for
     IN IF who = Ping
        THEN /\ IF MayAsk(Time(Base)) THEN After(Tail(sleepers), Time(Base), Ping)
                ELSE sleepers' = Tail(sleepers) /\ UNCHANGED <<alarm, timeAdvanced>>
             /\ UNCHANGED <<ready, nProcessesDelayed>>
        ELSE sleepers' = Tail(sleepers) /\ DelayCallback(who) /\ UNCHANGED <<alarm, timeAdvanced>>
  /\ UNCHANGED <<clock, distributed, pc, until, asOf>>
ScheduleNothing == UNCHANGED <<alarm, timeAdvanced>>
ScheduleNext ==
  IF sleepers = <<>> THEN alarm' = None /\ UNCHANGED timeAdvanced
  ELSE Schedule(TimeMinus(sleepers[1].when, asOf))
TimeoutsDone ==
  /\ pc = "timeouts" /\ ~Due /\ ScheduleNext /\ pc' = "work"
  /\ UNCHANGED <<clock, sleepers, ready, nProcessesDelayed, distributed, until, asOf>>

(* The first ready process runs: it ends, is preempted, or is delayed.     *)
(* The machine pings when it is first told to.                             *)
Ran(after) ==
  /\ pc = "work" /\ ready # <<>> /\ pc' = "top" /\ ready' = Tail(ready) \o after
  /\ UNCHANGED <<clock, distributed, until, asOf>>
Ends == Ran(<<>>) /\ UNCHANGED <<alarm, timeAdvanced, sleepers, nProcessesDelayed>>
Preempted == clock <= MaxNow /\ Ran(<<Head(ready)>>)
             /\ UNCHANGED <<alarm, timeAdvanced, sleepers, nProcessesDelayed>>
Delayed(t) ==
  /\ MayAsk(t) /\ ready # <<>> /\ After(sleepers, t, Head(ready)) /\ Ran(<<>>)
  /\ nProcessesDelayed' = nProcessesDelayed + 1
StartsPing ==
  /\ \A i \in DOMAIN sleepers : sleepers[i].for # Ping
  /\ MayAsk(Time(Base)) /\ ready # <<>> /\ After(sleepers, Time(Base), Ping)
  /\ Ran(<<Head(ready)>>) /\ UNCHANGED nProcessesDelayed
Idles ==
  /\ pc = "work" /\ ready = <<>> /\ pc' = "top"
  /\ UNCHANGED <<clock, alarm, timeAdvanced, sleepers, ready, nProcessesDelayed, distributed, until, asOf>>

Loop ==
  \/ LoopEnds \/ CheckForIO \/ SelectReturns \/ SeesTheFlag \/ Callback \/ TimeoutsDone
  \/ Ends \/ Preempted \/ (\E n \in Delays : Delayed(Time(n))) \/ StartsPing \/ Idles
Next == Tick \/ Loop

(* Time goes on, the loop goes on, and a process does not only start pings *)
(* or use up its turns.                                                    *)
Spec == Init /\ [][Next]_vars /\ WF_vars(Tick) /\ WF_vars(Loop)

-----------------------------------------------------------------------------
(* While something is to happen later the flag is set or the signal is to  *)
(* come: nothing waits for an alarm that was refused, cancelled or seen.   *)
AlarmComes == pc # "timeouts" /\ sleepers # <<>> => timeAdvanced \/ alarm # None

(* Callbacks come in the order of their times, and not early.              *)
InTime ==
  \A s \in {sleepers} : Len(sleepers') < Len(s) \/ (s # <<>> /\ ready' # ready /\ pc = "timeouts") =>
    \A i \in DOMAIN s : TimeLess(s[1].when, s[i].when) /\ Units(s[1].when) <= clock
NeverEarly == [][InTime]_vars

(* A delayed process is made ready again; and without distribution the     *)
(* machine does not stop before.                                           *)
DelayEnds == \A p \in Processes : (\E i \in DOMAIN sleepers : sleepers[i].for = p) ~> p \in ToSet(ready)
NobodyLeft == pc = "ended" => \A i \in DOMAIN sleepers : sleepers[i].for = Ping
=============================================================================
