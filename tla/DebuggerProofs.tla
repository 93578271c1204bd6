---------------------------- MODULE DebuggerProofs ----------------------------
(***************************************************************************)
(* Debugger, for any number of instructions, lines, breakpoints and        *)
(* processes: the code a breakpoint replaced can always be had back, and   *)
(* no process runs past a breakpoint.                                      *)
(***************************************************************************)
EXTENDS Debugger, WellFoundedInduction, TLAPS

Bytes   == {"own", "BREAKPT"}
Slot    == [site : Sites \cup {0}, code : Bytes \cup {"none"}, deleteWhenHit : BOOLEAN]
Tables  == [breakpoints : [Slots -> Slot], code : [Sites -> Bytes]]

(* Nothing of the code is lost in a table and the code it is for. *)
Good(t) ==
  /\ \A s \in Sites : t.code[s] = "BREAKPT" => At(t, s) # {}
  /\ \A i \in Slots : t.breakpoints[i].site # 0 => t.breakpoints[i].code = "own"

(* The code as the compiler wrote it. *)
Plain(t) == \A s \in Sites : t.code[s] = "own"

(* Every place in the table is set. *)
AllSet(t) == \A i \in Slots : t.breakpoints[i].site # 0 => t.code[t.breakpoints[i].site] = "BREAKPT"

-----------------------------------------------------------------------------
(* The table. *)

Below == {ss \in Nat \X Nat : ss[1] < ss[2]}

LEMMA NumbersHaveALeast ==
  ASSUME NEW S \in SUBSET Nat, S # {}
  PROVE  \E x \in S : \A y \in S : x <= y
<1>1. IsWellFoundedOn(Below, Nat)
  BY NatLessThanWellFounded, Zenon DEF OpToRel, Below
<1>2. PICK x \in S : \A y \in S : <<y, x>> \notin Below
  BY <1>1, WFMin
<1>3. ASSUME NEW y \in S PROVE x <= y
  <2>1. ~ (y < x)
    BY <1>2 DEF Below
  <2> QED BY <2>1
<1> QED BY <1>3

LEMMA LeastOfNumbers ==
  ASSUME NEW S \in SUBSET Nat, S # {}
  PROVE  First(S) \in S /\ \A j \in S : First(S) <= j
BY NumbersHaveALeast DEF First

LEMMA GreatestOfNumbers ==
  ASSUME NEW m \in Nat, NEW S \in SUBSET (1..m), S # {}
  PROVE  Max(S) \in S
<1> DEFINE T == {m - i : i \in S}
<1>1. \A i \in S : i \in Int /\ m - i \in Nat
  OBVIOUS
<1>2. T \in SUBSET Nat /\ T # {} /\ \A i \in S : m - i \in T
  BY <1>1, Zenon
<1>3. PICK y \in T : \A z \in T : y <= z
  BY <1>2, NumbersHaveALeast
<1>4. PICK x \in S : y = m - x
  OBVIOUS
<1>5. ASSUME NEW z \in S PROVE x >= z
  <2>1. m - x <= m - z
    BY <1>2, <1>3, <1>4
  <2> QED BY <1>1, <2>1
<1> QED BY <1>5 DEF Max

LEMMA FirstSlot ==
  ASSUME ConstantsOK, NEW t, NEW s, At(t, s) # {}
  PROVE  /\ First(At(t, s)) \in Slots /\ t.breakpoints[First(At(t, s))].site = s
         /\ Max(At(t, s)) \in Slots /\ t.breakpoints[Max(At(t, s))].site = s
<1>1. At(t, s) \in SUBSET Nat /\ At(t, s) \in SUBSET (1..MAXBREAKPOINTS) /\ MAXBREAKPOINTS \in Nat
  BY DEF At, Slots, ConstantsOK
<1>2. First(At(t, s)) \in At(t, s) /\ Max(At(t, s)) \in At(t, s)
  BY <1>1, LeastOfNumbers, GreatestOfNumbers
<1> QED BY <1>2 DEF At

LEMMA FirstSite ==
  ASSUME NEW ln, SitesOf(ln) # {}
  PROVE  First(SitesOf(ln)) \in Sites
<1>1. SitesOf(ln) \in SUBSET Nat
  BY DEF SitesOf, Sites
<1> QED BY <1>1, LeastOfNumbers DEF SitesOf

LEMMA BothIsATable ==
  ASSUME NEW b \in [Slots -> Slot], NEW c \in [Sites -> Bytes]
  PROVE  Both(b, c) \in Tables /\ Both(b, c).breakpoints = b /\ Both(b, c).code = c
BY DEF Both, Tables

LEMMA InsertKeeps ==
  ASSUME ConstantsOK, NEW t \in Tables, Good(t), Plain(t), NEW s \in Sites, NEW del \in BOOLEAN
  PROVE  LET u == insertBreakpoint(t, s, del) IN u \in Tables /\ Good(u) /\ Plain(u)
<1>1. CASE At(t, 0) = {}
  BY <1>1 DEF insertBreakpoint
<1>2. CASE At(t, 0) # {}
  <2> DEFINE i == First(At(t, 0))
             e == [site |-> s, code |-> t.code[s], deleteWhenHit |-> del]
             b == [t.breakpoints EXCEPT ![i] = e]
  <2>1. i \in Slots
    BY <1>2, FirstSlot
  <2>2. t.breakpoints \in [Slots -> Slot] /\ t.code \in [Sites -> Bytes] /\ t.code[s] = "own"
    BY DEF Tables, Plain
  <2>3. e \in Slot /\ e.code = "own"
    BY <2>2 DEF Slot
  <2> HIDE DEF i, e
  <2>4. b \in [Slots -> Slot] /\ \A j \in Slots : b[j] = IF j = i THEN e ELSE t.breakpoints[j]
    BY <2>1, <2>2, <2>3
  <2>5. insertBreakpoint(t, s, del) = Both(b, t.code)
    BY <1>2 DEF insertBreakpoint, i, e
  <2> HIDE DEF b
  <2>6. insertBreakpoint(t, s, del) \in Tables /\ insertBreakpoint(t, s, del).breakpoints = b
        /\ insertBreakpoint(t, s, del).code = t.code
    BY <2>2, <2>4, <2>5, BothIsATable
  <2> QED BY <2>3, <2>4, <2>6 DEF Good, Plain
<1> QED BY <1>1, <1>2

LEMMA DeleteKeeps ==
  ASSUME ConstantsOK, NEW t \in Tables, Good(t), NEW s \in Sites
  PROVE  LET u == deleteBreakpoint(t, s)
         IN  u \in Tables /\ Good(u) /\ (Plain(t) => Plain(u))
<1>1. CASE At(t, s) = {}
  BY <1>1 DEF deleteBreakpoint
<1>2. CASE At(t, s) # {}
  <2> DEFINE i == First(At(t, s))
             b == [t.breakpoints EXCEPT ![i].site = 0]
             c == [t.code EXCEPT ![s] = t.breakpoints[i].code]
             u == deleteBreakpoint(t, s)
  <2>1. i \in Slots /\ t.breakpoints[i].site = s /\ s # 0
    BY <1>2, FirstSlot DEF Sites
  <2>2. t.breakpoints \in [Slots -> Slot] /\ t.code \in [Sites -> Bytes]
    BY DEF Tables
  <2>3. t.breakpoints[i].code = "own"
    BY <2>1 DEF Good
  <2>4. u = Both(b, c)
    BY <1>2 DEF deleteBreakpoint
  <2> HIDE DEF i, u
  <2>5. c \in [Sites -> Bytes] /\ \A r \in Sites : c[r] = IF r = s THEN "own" ELSE t.code[r]
    BY <2>2, <2>3 DEF Bytes
  <2>6. /\ b \in [Slots -> Slot] /\ b[i].site = 0 /\ \A j \in Slots : j # i => b[j] = t.breakpoints[j]
    BY <2>1, <2>2 DEF Slot
  <2> HIDE DEF b, c
  <2>7. u \in Tables /\ u.breakpoints = b /\ u.code = c
    BY <2>4, <2>5, <2>6, BothIsATable
  <2>8. ASSUME NEW r \in Sites, u.code[r] = "BREAKPT" PROVE At(u, r) # {}
    <3>1. r # s /\ t.code[r] = "BREAKPT"
      BY <2>5, <2>7, <2>8
    <3>2. PICK j \in Slots : t.breakpoints[j].site = r
      BY <3>1 DEF Good, At
    <3>3. b[j].site = r
      BY <2>1, <2>6, <3>1, <3>2
    <3> QED BY <2>7, <3>3 DEF At
  <2>9. Good(u)
    BY <2>6, <2>7, <2>8 DEF Good
  <2>10. Plain(t) => Plain(u)
    BY <2>5, <2>7 DEF Plain
  <2> QED BY <2>7, <2>9, <2>10 DEF u
<1> QED BY <1>1, <1>2

LEMMA SeenKeeps ==
  ASSUME ConstantsOK, NEW t \in Tables, Good(t), NEW s \in Sites
  PROVE  Seen(t, s) \in Tables /\ Good(Seen(t, s)) /\ (Plain(t) => Plain(Seen(t, s)))
BY DeleteKeeps DEF Seen, checkDeleteWhenHit

(* Read through the table, the code is the compiler's: the last slot of a place
   has the same byte as the first. *)
LEMMA ResetGivesPlain ==
  ASSUME ConstantsOK, NEW t \in Tables, Good(t)
  PROVE  LET u == resetBreakpoints(t) IN u \in Tables /\ Good(u) /\ Plain(u)
<1> DEFINE c == [s \in Sites |-> IF At(t, s) = {} THEN t.code[s]
                                ELSE t.breakpoints[Max(At(t, s))].code]
           u == resetBreakpoints(t)
<1>1. t.breakpoints \in [Slots -> Slot] /\ t.code \in [Sites -> Bytes]
  BY DEF Tables
<1>2. ASSUME NEW s \in Sites PROVE c[s] = "own"
  <2>1. CASE At(t, s) = {}
    BY <1>1, <2>1 DEF Good, Bytes
  <2>2. CASE At(t, s) # {}
    <3>1. Max(At(t, s)) \in Slots /\ t.breakpoints[Max(At(t, s))].site = s /\ s # 0
      BY <2>2, FirstSlot DEF Sites
    <3> QED BY <2>2, <3>1 DEF Good
  <2> QED BY <2>1, <2>2
<1>3. u = Both(t.breakpoints, c)
  BY DEF resetBreakpoints
<1>4. c \in [Sites -> Bytes]
  BY <1>2 DEF Bytes
<1> HIDE DEF c, u
<1>5. u \in Tables /\ u.breakpoints = t.breakpoints /\ u.code = c
  BY <1>1, <1>3, <1>4, BothIsATable
<1>6. Plain(u) /\ Good(u)
  BY <1>2, <1>5 DEF Plain, Good
<1> QED BY <1>5, <1>6 DEF u

LEMMA SetGivesAllSet ==
  ASSUME NEW t \in Tables, Good(t)
  PROVE  LET u == setBreakpoints(t) IN u \in Tables /\ Good(u) /\ AllSet(u)
<1> DEFINE c == [s \in Sites |-> IF At(t, s) = {} THEN t.code[s] ELSE "BREAKPT"]
           u == setBreakpoints(t)
<1>1. t.breakpoints \in [Slots -> Slot] /\ t.code \in [Sites -> Bytes]
  BY DEF Tables
<1>2. c \in [Sites -> Bytes]
  BY <1>1 DEF Bytes
<1>3. \A s \in Sites : (At(t, s) = {} => c[s] = t.code[s]) /\ (At(t, s) # {} => c[s] = "BREAKPT")
  OBVIOUS
<1>4. u = Both(t.breakpoints, c)
  BY DEF setBreakpoints
<1> HIDE DEF c, u
<1>5. u \in Tables /\ u.breakpoints = t.breakpoints /\ u.code = c
  BY <1>1, <1>2, <1>4, BothIsATable
<1>6. \A s \in Sites : At(u, s) = At(t, s)
  BY <1>5 DEF At
<1>7. Good(u)
  BY <1>3, <1>5, <1>6 DEF Good
<1>8. ASSUME NEW i \in Slots, t.breakpoints[i].site # 0 PROVE c[t.breakpoints[i].site] = "BREAKPT"
  <2>1. t.breakpoints[i].site \in Sites /\ i \in At(t, t.breakpoints[i].site)
    BY <1>1, <1>8 DEF Slot, At
  <2> QED BY <1>3, <2>1
<1> QED BY <1>5, <1>7, <1>8 DEF AllSet, u

LEMMA SetOnKeeps ==
  ASSUME ConstantsOK, Now \in Tables, Good(Now), Plain(Now), NEW ln, NEW del \in BOOLEAN
  PROVE  SetOn(ln, del) \in Tables /\ Good(SetOn(ln, del)) /\ Plain(SetOn(ln, del))
BY InsertKeeps, FirstSite DEF SetOn

LEMMA DeletedOnKeeps ==
  ASSUME ConstantsOK, Now \in Tables, Good(Now), Plain(Now), NEW ln
  PROVE  DeletedOn(ln) \in Tables /\ Good(DeletedOn(ln)) /\ Plain(DeletedOn(ln))
BY DeleteKeeps, FirstSite DEF DeletedOn

LEMMA BecomesNow ==
  ASSUME NEW t \in Tables, Becomes(t)
  PROVE  Now' = t
BY DEF Tables, Becomes, Now, Both

-----------------------------------------------------------------------------
(* The debugger. *)

Places == {PlaceAt(s) : s \in Sites}

TypeOK ==
  /\ Now \in Tables
  /\ instructionsToExecute \in {0, 1} /\ ran \in {0, 1} /\ singleStepping \in {0, 1, -1}
  /\ gotsigint \in BOOLEAN /\ atABreakpoint \in BOOLEAN /\ isFailure \in BOOLEAN
  /\ inHandler \in BOOLEAN /\ dropped \in BOOLEAN
  /\ currentline \in Places /\ oldline \in Places
  /\ pc \in [Processes -> Sites] /\ cur \in Processes \cup {None} /\ at \in {"loop", "prompt"}

IInv ==
  /\ TypeOK
  /\ Good(Now)
  /\ at = "prompt" => Plain(Now) /\ cur \in Processes /\ ~dropped
  /\ at = "loop" /\ instructionsToExecute # 1 /\ ~dropped => AllSet(Now)

LEMMA AtFirst == ConstantsOK /\ Init => IInv
<1> SUFFICES ASSUME ConstantsOK, Init PROVE IInv
  OBVIOUS
<1>1. 1 \in Sites
  BY DEF ConstantsOK, Sites
<1>2. breakpoints \in [Slots -> Slot] /\ code \in [Sites -> Bytes]
  BY DEF Init, Slot, Free, Bytes
<1>3. Now \in Tables /\ Now.breakpoints = breakpoints /\ Now.code = code
  BY <1>2, BothIsATable DEF Now
<1>4. Good(Now) /\ Plain(Now)
  BY <1>3 DEF Good, Plain, Init, Free
<1>5. TypeOK
  BY <1>1, <1>3 DEF TypeOK, Init, Places
<1> QED BY <1>4, <1>5 DEF IInv, Init

(* At the prompt the code is the compiler's, whatever the way there. *)
LEMMA PromptKeeps ==
  ASSUME ConstantsOK, IInv, NEW p \in Processes, NEW f \in BOOLEAN, NEW h \in BOOLEAN,
         Prompt(p, f, h), atABreakpoint' \in BOOLEAN
  PROVE  IInv'
<1> DEFINE u == resetBreakpoints(Seen(Now, pc[p]))
<1>1. pc[p] \in Sites /\ PlaceAt(pc[p]) \in Places
  BY DEF IInv, TypeOK, Places
<1>2. Now \in Tables /\ Good(Now)
  BY DEF IInv, TypeOK
<1>3. Seen(Now, pc[p]) \in Tables /\ Good(Seen(Now, pc[p]))
  BY <1>1, <1>2, SeenKeeps
<1>4. u \in Tables /\ Good(u) /\ Plain(u)
  BY <1>3, ResetGivesPlain
<1>5. Becomes(u)
  BY DEF Prompt
<1> HIDE DEF u
<1>6. Now' = u
  BY <1>4, <1>5, BecomesNow
<1>7. Now' \in Tables /\ Good(Now)' /\ Plain(Now)'
  BY <1>4, <1>6 DEF Good, Plain, At
<1>8. TypeOK'
  BY <1>1, <1>7 DEF Prompt, IInv, TypeOK, Places
<1> QED BY <1>7, <1>8 DEF Prompt, IInv

(* In the loop: what a step has to see to. *)
LEMMA LoopKeeps ==
  ASSUME ConstantsOK, NEW t \in Tables, Good(t), Becomes(t), Now' \in Tables => TypeOK',
         at' = "loop", instructionsToExecute' # 1 /\ ~dropped' => AllSet(t)
  PROVE  IInv'
<1>1. Now' = t
  BY BecomesNow
<1>2. Good(Now)' /\ (AllSet(t) => AllSet(Now)')
  BY <1>1 DEF Good, AllSet, At
<1> QED BY <1>1, <1>2 DEF IInv

LEMMA LeaveKeeps ==
  ASSUME ConstantsOK, IInv, NEW t \in Tables, Good(t), Plain(t), NEW owed \in {0, 1},
         NEW stepping \in {0, 1, -1}, Leave(t, owed, stepping), oldline' \in Places
  PROVE  IInv'
<1>1. TypeOK /\ cur \in Processes /\ at' = "loop" /\ dropped' = dropped
  BY DEF IInv, Leave
<1>2. 1 \in Sites
  BY DEF ConstantsOK, Sites
<1>3. ASSUME Now' \in Tables PROVE TypeOK'
  <2>1. pc' \in [Processes -> Sites] /\ cur' \in Processes \cup {None} /\ instructionsToExecute' \in {0, 1}
    BY <1>1, <1>2 DEF TypeOK, Leave
  <2> QED BY <1>1, <1>3, <2>1 DEF TypeOK, Leave, Places
<1>4. setBreakpoints(t) \in Tables /\ Good(setBreakpoints(t)) /\ AllSet(setBreakpoints(t))
  BY SetGivesAllSet
<1>5. CASE Becomes(setBreakpoints(t))
  BY <1>1, <1>3, <1>4, <1>5, LoopKeeps
<1>6. CASE Becomes(t) /\ instructionsToExecute' = 1
  BY <1>1, <1>3, <1>6, LoopKeeps
<1> QED BY <1>5, <1>6 DEF Leave

LEMMA SingleStepKeeps ==
  ASSUME ConstantsOK, IInv, SingleStep
  PROVE  IInv'
<1>1. /\ TypeOK /\ Now \in Tables /\ Good(Now) /\ cur \in Processes /\ at = "loop"
      /\ atABreakpoint' = FALSE
  BY DEF IInv, TypeOK, SingleStep, StepDue
<1>2. pc[cur] \in Sites /\ PlaceAt(pc[cur]) \in Places
  BY <1>1 DEF TypeOK, Places
<1>3. CASE Becomes(setBreakpoints(Now)) /\ instructionsToExecute' = 0 /\ ran' = 0
           /\ UNCHANGED <<singleStepping, gotsigint, currentline, oldline, pc, cur, at, isFailure, inHandler, dropped>>
  <2>1. Now' \in Tables => TypeOK'
    BY <1>1, <1>3 DEF TypeOK, Places
  <2> QED BY <1>1, <1>3, <2>1, SetGivesAllSet, LoopKeeps
<1>4. CASE Becomes(Seen(Now, pc[cur])) /\ currentline' = PlaceAt(pc[cur])
           /\ instructionsToExecute' = 1 /\ ran' = 0
           /\ UNCHANGED <<singleStepping, gotsigint, oldline, pc, cur, at, isFailure, inHandler, dropped>>
  <2>1. Now' \in Tables => TypeOK'
    BY <1>1, <1>2, <1>4 DEF TypeOK, Places
  <2>2. Seen(Now, pc[cur]) \in Tables /\ Good(Seen(Now, pc[cur]))
    BY <1>1, <1>2, SeenKeeps
  <2> QED BY <1>1, <1>4, <2>1, <2>2, LoopKeeps
<1>5. CASE Prompt(cur, FALSE, FALSE)
  BY <1>1, <1>5, PromptKeeps
<1> QED BY <1>3, <1>4, <1>5 DEF SingleStep

(* A step of the program itself, of which the code is as it was. *)
LEMMA RunKeeps ==
  ASSUME ConstantsOK, IInv, Execute \/ Switch \/ Dispatch
  PROVE  IInv'
<1>1. /\ TypeOK /\ at = "loop" /\ at' = at /\ code' = code /\ breakpoints' = breakpoints
      /\ instructionsToExecute' = instructionsToExecute /\ dropped' = dropped
  BY DEF IInv, Execute, Switch, Dispatch, CanExecute
<1>2. \A s \in Sites : After(s) \in Sites
  BY DEF Sites, After, ConstantsOK
<1>3. Now' = Now /\ Good(Now)' = Good(Now) /\ AllSet(Now)' = AllSet(Now)
  BY <1>1 DEF Now, Good, AllSet, At
<1>4. CASE Execute
  <2>1. cur \in Processes /\ pc' \in [Processes -> Sites]
    BY <1>1, <1>2, <1>4 DEF TypeOK, Execute, CanExecute
  <2> QED BY <1>1, <1>3, <1>4, <2>1 DEF IInv, TypeOK, Execute, Places
<1>5. CASE Switch
  <2>1. cur \in Processes /\ pc' \in [Processes -> Sites]
    BY <1>1, <1>2, <1>5 DEF TypeOK, Switch, CanExecute
  <2> QED BY <1>1, <1>3, <1>5, <2>1 DEF IInv, TypeOK, Switch, Places
<1>6. CASE Dispatch
  BY <1>1, <1>3, <1>6 DEF IInv, TypeOK, Dispatch, Places
<1> QED BY <1>4, <1>5, <1>6

(* What goes to the file is the compiler's; after it every place is set. *)
LEMMA CheckpointKeeps ==
  ASSUME ConstantsOK, IInv, Checkpoint
  PROVE  IInv'
<1> DEFINE r == resetBreakpoints(Now)
<1>1. TypeOK /\ Now \in Tables /\ Good(Now) /\ cur \in Processes /\ at = "loop" /\ at' = at
  BY DEF IInv, TypeOK, Checkpoint, CanExecute
<1>2. r \in Tables /\ Good(r)
  BY <1>1, ResetGivesPlain
<1>3. Becomes(setBreakpoints(r))
  BY DEF Checkpoint
<1> HIDE DEF r
<1>4. \A s \in Sites : After(s) \in Sites
  BY DEF Sites, After, ConstantsOK
<1>5. pc' \in [Processes -> Sites]
  BY <1>1, <1>4 DEF TypeOK, Checkpoint
<1>6. Now' \in Tables => TypeOK'
  BY <1>1, <1>5 DEF TypeOK, Checkpoint, Places
<1> QED BY <1>1, <1>2, <1>3, <1>6, SetGivesAllSet, LoopKeeps

(* If the failure does not take breakpoints away, it is because they are set. *)
LEMMA FailHandledKeeps ==
  ASSUME ConstantsOK, IInv, FailHandled
  PROVE  IInv'
<1>1. /\ TypeOK /\ Now \in Tables /\ Good(Now) /\ cur \in Processes /\ at = "loop" /\ at' = at
      /\ code' = code /\ breakpoints' = breakpoints
  BY DEF IInv, TypeOK, FailHandled, CanExecute
<1>2. breakpoints \in [Slots -> Slot] /\ code \in [Sites -> Bytes]
      /\ Now.breakpoints = breakpoints /\ Now.code = code
  BY <1>1 DEF Tables, Now, Both
<1>3. Becomes(Now)
  BY <1>1, <1>2 DEF Becomes
<1>4. pc' \in [Processes -> Sites] /\ dropped' \in BOOLEAN
  BY <1>1 DEF TypeOK, FailHandled
<1>5. Now' \in Tables => TypeOK'
  BY <1>1, <1>4 DEF TypeOK, FailHandled, Places
<1>6. ASSUME ~dropped' PROVE AllSet(Now)
  <2>1. \A s \in Sites : At(Now, s) # {} => code[s] # "own"
    BY <1>6 DEF FailHandled
  <2>2. ASSUME NEW i \in Slots, breakpoints[i].site # 0 PROVE code[breakpoints[i].site] = "BREAKPT"
    <3>1. breakpoints[i].site \in Sites /\ i \in At(Now, breakpoints[i].site)
      BY <1>2, <2>2 DEF Slot, At
    <3> QED BY <1>2, <2>1, <3>1 DEF Bytes
  <2> QED BY <1>2, <2>2 DEF AllSet
<1> QED BY <1>1, <1>3, <1>5, <1>6, LoopKeeps

LEMMA SigintKeeps ==
  ASSUME ConstantsOK, IInv, Sigint
  PROVE  IInv'
<1>1. CASE /\ cur # None /\ ~inHandler /\ instructionsToExecute # 1
           /\ instructionsToExecute' = 1 /\ gotsigint' = TRUE
           /\ UNCHANGED <<code, breakpoints, ran, singleStepping, atABreakpoint, currentline, oldline, pc, cur, at,
                          isFailure, inHandler, dropped>>
  <2>1. Now' = Now /\ Good(Now)' = Good(Now) /\ Plain(Now)' = Plain(Now)
    BY <1>1 DEF Now, Good, Plain, At
  <2> QED BY <1>1, <2>1 DEF IInv, TypeOK, Places
<1>2. CASE atABreakpoint' = FALSE /\ \E p \in Processes : Prompt(p, FALSE, TRUE)
  BY <1>2, PromptKeeps
<1> QED BY <1>1, <1>2 DEF Sigint

(* A command that asks for more: the code stays the compiler's. *)
LEMMA CommandKeeps ==
  ASSUME ConstantsOK, IInv, at = "prompt", NEW t \in Tables, Good(t), Plain(t), Becomes(t), Same,
         currentline' \in Places
  PROVE  IInv'
<1>1. Now' = t
  BY BecomesNow
<1>2. Good(Now)' /\ Plain(Now)'
  BY <1>1 DEF Good, Plain, At
<1>3. TypeOK'
  BY <1>1 DEF IInv, TypeOK, Same, Places
<1> QED BY <1>2, <1>3 DEF IInv, Same

LEMMA Always == ConstantsOK /\ IInv /\ [Next]_vars => IInv'
<1> SUFFICES ASSUME ConstantsOK, IInv, [Next]_vars PROVE IInv'
  OBVIOUS
<1>1. /\ TypeOK /\ Now \in Tables /\ Good(Now)
      /\ at = "prompt" => Plain(Now)
  BY DEF IInv, TypeOK
<1>2. CASE Breakpoint
  BY <1>1, <1>2, PromptKeeps DEF Breakpoint, TypeOK
<1>3. CASE Interrupt
  BY <1>1, <1>3, PromptKeeps DEF Interrupt, StepDue, TypeOK
<1>4. CASE FailUnhandled
  BY <1>1, <1>4, PromptKeeps DEF FailUnhandled, CanExecute, TypeOK
<1>5. CASE SingleStep \/ Execute \/ Switch \/ Dispatch \/ Checkpoint \/ FailHandled \/ Sigint
  BY <1>5, SingleStepKeeps, RunKeeps, CheckpointKeeps, FailHandledKeeps, SigintKeeps
<1>6. ASSUME NEW s \in Sites, Stop(PlaceAt(s)) \/ Delete(PlaceAt(s)) \/ Bu(s) \/ Look(s)
      PROVE  IInv'
  <2>1. at = "prompt" /\ Plain(Now) /\ Same
    BY <1>1, <1>6 DEF Stop, Delete, Bu, Look
  <2>2. currentline' \in Places
    BY <1>1, <1>6 DEF Stop, Delete, Bu, Look, TypeOK, Places
  <2>3. \E t \in Tables : Good(t) /\ Plain(t) /\ Becomes(t)
    <3>1. CASE Stop(PlaceAt(s))
      BY <1>1, <2>1, <3>1, SetOnKeeps DEF Stop
    <3>2. CASE Delete(PlaceAt(s))
      BY <1>1, <2>1, <3>2, DeletedOnKeeps DEF Delete
    <3>3. CASE Bu(s)
      BY <1>1, <2>1, <3>3, InsertKeeps DEF Bu
    <3>4. CASE Look(s)
      BY <1>1, <2>1, <3>4, SeenKeeps DEF Look
    <3> QED BY <1>6, <3>1, <3>2, <3>3, <3>4
  <2> QED BY <2>1, <2>2, <2>3, CommandKeeps
<1>7. ASSUME NEW s \in Sites, Finish(s) PROVE IInv'
  <2>1. Plain(Now) /\ oldline' \in Places
    BY <1>1, <1>7 DEF Finish, Leave, TypeOK, Places
  <2>2. insertBreakpoint(Now, s, TRUE) \in Tables /\ Good(insertBreakpoint(Now, s, TRUE))
        /\ Plain(insertBreakpoint(Now, s, TRUE))
    BY <1>1, <2>1, InsertKeeps
  <2> QED BY <1>1, <1>7, <2>1, <2>2, LeaveKeeps DEF Finish, TypeOK
<1>8. CASE NextLine
  <2> DEFINE ln == [currentline EXCEPT !.number = @ + 1]
  <2>1. Plain(Now) /\ oldline' \in Places
        /\ Leave(SetOn(ln, TRUE), instructionsToExecute, singleStepping)
    BY <1>1, <1>8 DEF NextLine, Leave, TypeOK, Places
  <2> HIDE DEF ln
  <2>2. SetOn(ln, TRUE) \in Tables /\ Good(SetOn(ln, TRUE)) /\ Plain(SetOn(ln, TRUE))
    BY <1>1, <2>1, SetOnKeeps
  <2> QED BY <1>1, <2>1, <2>2, LeaveKeeps DEF TypeOK
<1>9. CASE Continue \/ Step
  <2>1. Plain(Now) /\ oldline' \in Places
    BY <1>1, <1>9 DEF Continue, Step, Leave, TypeOK, Places
  <2>2. CASE Continue
    BY <1>1, <2>1, <2>2, LeaveKeeps DEF Continue, TypeOK
  <2>3. CASE Step
    <3>1. PICK how \in {1, -1} : Leave(Now, 1, how)
      BY <2>3 DEF Step
    <3> QED BY <1>1, <2>1, <3>1, LeaveKeeps
  <2> QED BY <1>9, <2>2, <2>3
<1>10. CASE UNCHANGED vars
  <2>1. Now' = Now /\ Good(Now)' = Good(Now) /\ Plain(Now)' = Plain(Now) /\ AllSet(Now)' = AllSet(Now)
    BY <1>10 DEF vars, Now, Good, Plain, AllSet, At
  <2> QED BY <1>10, <2>1 DEF IInv, TypeOK, vars, Places
<1>11. CASE Next
  BY <1>2, <1>3, <1>4, <1>5, <1>6, <1>7, <1>8, <1>9, <1>11, Zenon DEF Next
<1> QED BY <1>10, <1>11

LEMMA Inductive == ConstantsOK => (Spec => []IInv)
<1> SUFFICES ASSUME ConstantsOK PROVE Spec => []IInv
  OBVIOUS
<1>1. Init => IInv
  BY AtFirst
<1>2. IInv /\ [Next]_vars => IInv'
  BY Always
<1> QED BY <1>1, <1>2, PTL DEF Spec

(* debug.c: the breakpoints, the steps and the prompt have the values their
   uses expect; a process is never without an instruction it is at. *)
THEOREM TypeCorrect == ConstantsOK => (Spec => []TypeOK)
<1>1. IInv => TypeOK
  BY DEF IInv
<1> QED BY <1>1, Inductive, PTL

LEMMA TableOfNow ==
  ASSUME Now \in Tables
  PROVE  Now.breakpoints = breakpoints /\ Now.code = code
BY DEF Now, Both

(* debug.c: an instruction that BREAKPT stands for is in the table, and what the
   table has for it is the compiler's.  It holds because a breakpoint is only
   set where the code is the compiler's, at the prompt: two slots of one place
   then hold the same byte, in whatever order they are read and deleted. *)
THEOREM CodeComesBack == ConstantsOK => (Spec => []CodeCanBeHadBack)
<1>1. IInv => CodeCanBeHadBack
  BY TableOfNow DEF IInv, TypeOK, Good, CodeCanBeHadBack
<1> QED BY <1>1, Inductive, PTL

(* debug.c, vm.d: no process runs past a breakpoint, however it came to go on:
   after the instruction it owed, a step, an interrupt, a failure of another
   process or a checkpoint. *)
THEOREM NoneRunsPast == ConstantsOK => (Spec => []BreakpointsAreSet)
<1>1. IInv => BreakpointsAreSet
  BY TableOfNow DEF IInv, TypeOK, AllSet, BreakpointsAreSet
<1> QED BY <1>1, Inductive, PTL
=============================================================================
