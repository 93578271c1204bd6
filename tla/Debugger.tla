------------------------------ MODULE Debugger -------------------------------
(***************************************************************************)
(* The interactive debugger of the interpreter (vm/debug.c, vm/vm.d).  A   *)
(* breakpoint is kept in a table, with the byte of code that the           *)
(* instruction BREAKPT takes the place of; while the user is asked what to *)
(* do next the code is as the compiler wrote it.  A process that goes on   *)
(* from a breakpoint owes one instruction of the real code: the            *)
(* breakpoints are left out, and put back before the next.  Stepping, an   *)
(* interrupt (vm/main.c, sigdie) and a checkpoint (vm/write.c) use the     *)
(* same machinery.                                                         *)
(***************************************************************************)
EXTENDS Integers, Sequences, FiniteSets, FiniteSetsExt

CONSTANTS
  Processes,
  NSites,                \* the instructions of the operation, in its order
  PlaceAt(_),            \* the line an instruction is of: its file and its number
  MAXBREAKPOINTS

VARIABLES
  code,                  \* what is at each site: the compiler's byte, or BREAKPT
  breakpoints,           \* the slots of the table
  instructionsToExecute, ran,   \* and how many have been since the last SYNCH, up to 1
  singleStepping, gotsigint, atABreakpoint,
  currentline, oldline,  \* of currentfilename, of oldfilename
  pc, cur,               \* where each process is; the one interpreted, or None
  at,                    \* loop: before an instruction; prompt: the user is asked
  isFailure, inHandler,  \* of the prompt: a failure, or from the handler of the signal
  dropped                \* a handled failure has taken the breakpoints away
vars == <<code, breakpoints, instructionsToExecute, ran, singleStepping, gotsigint, atABreakpoint,
          currentline, oldline, pc, cur, at, isFailure, inHandler, dropped>>

Sites == 1..NSites
Slots == 1..MAXBREAKPOINTS
Free == [site |-> 0, code |-> "none", deleteWhenHit |-> FALSE]
None == "none"
ConstantsOK == NSites \in Nat \ {0} /\ MAXBREAKPOINTS \in Nat /\ None \notin Processes
After(s) == IF s = NSites THEN 1 ELSE s + 1

Init ==
  /\ code = [s \in Sites |-> "own"] /\ breakpoints = [i \in Slots |-> Free]
  /\ instructionsToExecute = 0 /\ ran = 0 /\ singleStepping = 0 /\ gotsigint = FALSE /\ atABreakpoint = FALSE
  /\ currentline = PlaceAt(1) /\ oldline = PlaceAt(1)
  /\ pc = [p \in Processes |-> 1] /\ cur \in Processes
  /\ at = "prompt" /\ isFailure = FALSE /\ inHandler = FALSE     \* "First time"
  /\ dropped = FALSE

-----------------------------------------------------------------------------
(* The table.  Each of these takes the table and the code and returns both *)
(* as they are after.                                                      *)
Both(b, c) == [breakpoints |-> b, code |-> c]
Now == Both(breakpoints, code)
First(S) == CHOOSE i \in S : \A j \in S : i <= j
At(t, s) == {i \in Slots : t.breakpoints[i].site = s}

insertBreakpoint(t, s, del) ==
  IF At(t, 0) = {} THEN t   \* Can't set breakpoint
  ELSE Both([t.breakpoints EXCEPT ![First(At(t, 0))] = [site |-> s, code |-> t.code[s], deleteWhenHit |-> del]], t.code)

deleteBreakpoint(t, s) ==
  IF At(t, s) = {} THEN t
  ELSE LET i == First(At(t, s)) IN
       Both([t.breakpoints EXCEPT ![i].site = 0], [t.code EXCEPT ![s] = t.breakpoints[i].code])

\* Only the first slot of the place is looked at.
checkDeleteWhenHit(t, s) ==
  IF At(t, s) # {} /\ t.breakpoints[First(At(t, s))].deleteWhenHit THEN deleteBreakpoint(t, s) ELSE t

\* Mutant: the user is asked with the breakpoints in the code.
resetNothing(t) == t
\* In the order of the table: the last slot of a place decides.
resetBreakpoints(t) ==
  Both(t.breakpoints, [s \in Sites |-> IF At(t, s) = {} THEN t.code[s]
                                       ELSE t.breakpoints[Max(At(t, s))].code])

setBreakpoints(t) ==
  Both(t.breakpoints, [s \in Sites |-> IF At(t, s) = {} THEN t.code[s] ELSE "BREAKPT"])

Becomes(t) == breakpoints' = t.breakpoints /\ code' = t.code

\* doBreakpoint: the slot for the first instruction of the line, if it has one.
SitesOf(ln) == {s \in Sites : PlaceAt(s) = ln}
SetOn(ln, del) == IF SitesOf(ln) = {} THEN Now ELSE insertBreakpoint(Now, First(SitesOf(ln)), del)
DeletedOn(ln) == IF SitesOf(ln) = {} THEN Now ELSE deleteBreakpoint(Now, First(SitesOf(ln)))

\* summary: where the process is becomes the current line, and a breakpoint
\* that is there for once goes.
Seen(t, s) == checkDeleteWhenHit(t, s)

-----------------------------------------------------------------------------
(* debug, up to the prompt.  SYNCH and UNSYNCH count from 0 again.         *)
Prompt(p, failure, handler) ==
  /\ Becomes(resetBreakpoints(Seen(Now, pc[p]))) /\ currentline' = PlaceAt(pc[p])
  /\ at' = "prompt" /\ cur' = p /\ isFailure' = failure /\ inHandler' = handler
  /\ instructionsToExecute' = 0 /\ singleStepping' = 0 /\ ran' = 0 /\ dropped' = FALSE
  /\ UNCHANGED <<gotsigint, oldline, pc>>

Breakpoint ==
  /\ at = "loop" /\ cur # None /\ ~(instructionsToExecute > 0 /\ ran >= instructionsToExecute)
  /\ code[pc[cur]] = "BREAKPT"
  /\ atABreakpoint' = TRUE
  /\ Prompt(cur, FALSE, FALSE)

StepDue == at = "loop" /\ cur # None /\ instructionsToExecute > 0 /\ ran >= instructionsToExecute

Interrupt ==
  /\ StepDue /\ gotsigint
  /\ atABreakpoint' = FALSE
  /\ Prompt(cur, FALSE, FALSE)

\* A step goes on while the line is the same, and one by S through other files too.
GoesOn == \/ PlaceAt(pc[cur]) = oldline
          \/ singleStepping = -1 /\ PlaceAt(pc[cur]).file # oldline.file
SingleStep ==
  /\ StepDue /\ ~gotsigint
  /\ atABreakpoint' = FALSE
  /\ \/ singleStepping = 0      \* the instruction that was owed is done
        /\ Becomes(setBreakpoints(Now)) /\ instructionsToExecute' = 0 /\ ran' = 0
        /\ UNCHANGED <<singleStepping, gotsigint, currentline, oldline, pc, cur, at, isFailure, inHandler, dropped>>
     \/ singleStepping # 0 /\ GoesOn
        /\ Becomes(Seen(Now, pc[cur])) /\ currentline' = PlaceAt(pc[cur])
        /\ instructionsToExecute' = 1 /\ ran' = 0
        /\ UNCHANGED <<singleStepping, gotsigint, oldline, pc, cur, at, isFailure, inHandler, dropped>>
     \/ singleStepping # 0 /\ ~GoesOn /\ Prompt(cur, FALSE, FALSE)

-----------------------------------------------------------------------------
(* An instruction of the compiler's.                                       *)
CanExecute == at = "loop" /\ cur # None /\ ~StepDue /\ code[pc[cur]] = "own"

\* Many instructions SYNCH and start the count again.
Execute ==
  /\ CanExecute /\ ran' \in {0, 1} /\ pc' = [pc EXCEPT ![cur] = After(@)]
  /\ UNCHANGED <<code, breakpoints, instructionsToExecute, singleStepping, gotsigint, atABreakpoint,
                 currentline, oldline, cur, at, isFailure, inHandler, dropped>>

\* It waits or is preempted: interpret returns, and is called with another if one is ready.
Switch ==
  /\ CanExecute /\ ran' = 0 /\ pc' = [pc EXCEPT ![cur] = After(@)]
  /\ cur' \in Processes \cup {None}
  /\ UNCHANGED <<code, breakpoints, instructionsToExecute, singleStepping, gotsigint, atABreakpoint,
                 currentline, oldline, at, isFailure, inHandler, dropped>>

Dispatch ==
  /\ at = "loop" /\ cur = None /\ cur' \in Processes /\ ran' = 0
  /\ UNCHANGED <<code, breakpoints, instructionsToExecute, singleStepping, gotsigint, atABreakpoint,
                 currentline, oldline, pc, at, isFailure, inHandler, dropped>>

\* It writes a checkpoint: the code goes to the file without breakpoints.
Checkpoint ==
  /\ CanExecute /\ ran' \in {0, 1} /\ pc' = [pc EXCEPT ![cur] = After(@)]
  /\ Becomes(setBreakpoints(resetBreakpoints(Now)))
  /\ UNCHANGED <<instructionsToExecute, singleStepping, gotsigint, atABreakpoint, currentline, oldline,
                 cur, at, isFailure, inHandler, dropped>>

\* It fails, and some frame of the process has a handler.
FailHandled ==
  /\ CanExecute /\ \E h \in Sites : pc' = [pc EXCEPT ![cur] = h]
  /\ instructionsToExecute' = 0 /\ singleStepping' = 0 /\ atABreakpoint' = FALSE /\ ran' = 0
  /\ dropped' = (dropped \/ \E s \in Sites : At(Now, s) # {} /\ code[s] = "own")
  /\ UNCHANGED <<code, breakpoints, gotsigint, currentline, oldline, cur, at, isFailure, inHandler>>

FailUnhandled ==
  /\ CanExecute /\ atABreakpoint' = FALSE
  /\ Prompt(cur, TRUE, FALSE)

\* sigdie: with a process in the interpreter it asks for a step, else it asks the user itself.
Sigint ==
  \/ /\ cur # None /\ ~inHandler /\ instructionsToExecute # 1
     /\ instructionsToExecute' = 1 /\ gotsigint' = TRUE
     /\ UNCHANGED <<code, breakpoints, ran, singleStepping, atABreakpoint, currentline, oldline, pc, cur, at,
                    isFailure, inHandler, dropped>>
  \/ /\ at = "loop" /\ cur = None /\ atABreakpoint' = FALSE
     /\ \E p \in Processes : Prompt(p, FALSE, TRUE)

-----------------------------------------------------------------------------
(* interact: a command that asks for no more, and one that goes on.        *)
Same == UNCHANGED <<instructionsToExecute, ran, singleStepping, gotsigint, atABreakpoint, oldline, pc, cur,
                    at, isFailure, inHandler, dropped>>

Stop(ln) == at = "prompt" /\ Becomes(SetOn(ln, FALSE)) /\ Same /\ UNCHANGED currentline
Delete(ln) == at = "prompt" /\ Becomes(DeletedOn(ln)) /\ Same /\ UNCHANGED currentline
\* bu: at the caller's place, for once.
Bu(s) == at = "prompt" /\ Becomes(insertBreakpoint(Now, s, TRUE)) /\ Same /\ UNCHANGED currentline
\* up, down and process: the place becomes the current one.
Look(s) == at = "prompt" /\ Becomes(Seen(Now, s)) /\ currentline' = PlaceAt(s) /\ Same

\* Mutant: the instruction owed at a breakpoint is not asked for.
LeaveOwingNothing(t, owed, stepping) ==
  /\ at = "prompt" /\ at' = "loop" /\ ran' = 0 /\ singleStepping' = stepping
  /\ isFailure' = FALSE /\ inHandler' = FALSE
  /\ Becomes(IF atABreakpoint \/ owed = 1 THEN t ELSE setBreakpoints(t)) /\ instructionsToExecute' = owed
  /\ cur' = (IF inHandler THEN None ELSE cur)
  /\ UNCHANGED <<pc, gotsigint, atABreakpoint, currentline, dropped>>
\* The end of debug: t is the table when interact returns, owed what it has asked for.
\* A failure kills the process and another goes on; else the same one does.
Leave(t, owed, stepping) ==
  /\ at = "prompt" /\ at' = "loop" /\ ran' = 0 /\ singleStepping' = stepping
  /\ isFailure' = FALSE /\ inHandler' = FALSE
  /\ IF isFailure
     THEN /\ Becomes(setBreakpoints(t)) /\ instructionsToExecute' = owed
          /\ cur' \in Processes \cup {None} /\ pc' = [pc EXCEPT ![cur] = 1]
     ELSE /\ Becomes(IF atABreakpoint \/ owed = 1 THEN t ELSE setBreakpoints(t))
          /\ instructionsToExecute' = IF atABreakpoint THEN 1 ELSE owed
          /\ cur' = (IF inHandler THEN None ELSE cur) /\ UNCHANGED pc
  /\ UNCHANGED <<gotsigint, atABreakpoint, currentline, dropped>>

Continue == Leave(Now, instructionsToExecute, singleStepping) /\ UNCHANGED oldline
NextLine == Leave(SetOn([currentline EXCEPT !.number = @ + 1], TRUE), instructionsToExecute, singleStepping) /\ UNCHANGED oldline
Finish(s) == Leave(insertBreakpoint(Now, s, TRUE), instructionsToExecute, singleStepping) /\ UNCHANGED oldline
Step == \E how \in {1, -1} : Leave(Now, 1, how) /\ oldline' = currentline

Next == \/ Breakpoint \/ Interrupt \/ SingleStep \/ Execute \/ Switch \/ Dispatch \/ Checkpoint
        \/ FailHandled \/ FailUnhandled \/ Sigint
        \/ \E s \in Sites : Stop(PlaceAt(s)) \/ Delete(PlaceAt(s)) \/ Bu(s) \/ Look(s) \/ Finish(s)
        \/ Continue \/ NextLine \/ Step

Spec == Init /\ [][Next]_vars

-----------------------------------------------------------------------------
(* The code can be had back: an instruction that BREAKPT stands for is in  *)
(* the table, and the byte the table has for it is the compiler's, however *)
(* breakpoints are set twice, deleted, met for once or met by a step.      *)
CodeCanBeHadBack ==
  /\ \A s \in Sites : code[s] = "BREAKPT" => At(Now, s) # {}
  /\ \A i \in Slots : breakpoints[i].site # 0 => breakpoints[i].code = "own"

(* No process runs past a breakpoint: whenever no instruction is owed or   *)
(* stepped, every place in the table is set, unless a failure with a       *)
(* handler came instead of the instruction that was owed.                  *)
BreakpointsAreSet ==
  at = "loop" /\ instructionsToExecute # 1 /\ ~dropped =>
    \A i \in Slots : breakpoints[i].site # 0 => code[breakpoints[i].site] = "BREAKPT"
=============================================================================
