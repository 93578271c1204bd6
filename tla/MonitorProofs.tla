--------------------------- MODULE MonitorProofs ---------------------------
(***************************************************************************)
(* Type correctness of Monitor, its safety invariants, and that it         *)
(* implements HoareMonitor, for any sets of processes and conditions and   *)
(* any bound on the instructions.                                          *)
(***************************************************************************)
EXTENDS Monitor, SequenceTheorems, TLAPS

(* What is left of a queue when some of its processes are gone *)

LEMMA SubsequenceElements ==
  ASSUME NEW S, NEW s \in Seq(S), NEW t \in Subsequences(s)
  PROVE  /\ t \in Seq(S)
         /\ ElementsOf(t) \subseteq ElementsOf(s)
         /\ Injective(s) => Injective(t)
<1>0. Len(s) \in Nat /\ \A i \in 1..Len(s) : s[i] \in S
  OBVIOUS
<1>1. PICK n \in 0..Len(s) :
        t \in {[i \in 1..n |-> s[f[i]]] :
                 f \in {g \in [1..n -> 1..Len(s)] :
                          \A i, j \in 1..n : i < j => g[i] < g[j]}}
  BY DEF Subsequences
<1>2. PICK f \in [1..n -> 1..Len(s)] :
        /\ t = [i \in 1..n |-> s[f[i]]]
        /\ \A i, j \in 1..n : i < j => f[i] < f[j]
  BY <1>1
<1>3. /\ n \in Nat /\ t \in Seq(S) /\ Len(t) = n
      /\ \A i \in 1..n : t[i] = s[f[i]] /\ f[i] \in 1..Len(s)
  BY <1>0, <1>2
<1>4. ElementsOf(t) \subseteq ElementsOf(s)
  BY <1>3 DEF ElementsOf
<1>5. ASSUME Injective(s) PROVE Injective(t)
  <2>1. ASSUME NEW i \in 1..n, NEW j \in 1..n, t[i] = t[j] PROVE i = j
    <3>1. f[i] = f[j]
      BY <1>3, <1>5, <2>1 DEF Injective
    <3> QED BY <1>2, <1>3, <3>1
  <2> QED BY <1>3, <2>1 DEF Injective
<1> QED BY <1>3, <1>4, <1>5

-----------------------------------------------------------------------------
(* The inductive invariant: what the runs check, and that the processes in the
   object's queues are in the object. *)
QueuedInside ==
  \A p \in Proc : InWaiting(p) \/ InCondition(p) => Inside(p)

IInv == TypeOK /\ OnePlace /\ QueuedInside /\ MutualExclusion /\ BusyMeansHeld

LEMMA NoProcNowhere ==
  ASSUME TypeOK
  PROVE  /\ NoProc \notin ElementsOf(waiting) \cup ElementsOf(ready) \cup asleep
         /\ \A c \in Cond : NoProc \notin ElementsOf(cond[c])
BY ConstAssumption, ElementsType DEF TypeOK

LEMMA StepBurnsFuel ==
  ASSUME TypeOK, NEW p \in Proc, NEW x, Step(p, x)
  PROVE  fuel' \in [Proc -> Nat]
<1>1. fuel \in [Proc -> Nat] /\ fuel[p] > 0 /\ fuel' = [fuel EXCEPT ![p] = @ - 1]
  BY DEF TypeOK, Step
<1> QED BY <1>1

LEMMA DispatchKeeps ==
  ASSUME IInv, Dispatch
  PROVE  IInv'
<1> USE DEF IInv, OnePlace
<1>1. /\ current = NoProc /\ current' = Head(ready) /\ ready' = Tail(ready)
      /\ UNCHANGED <<busy, waiting, cond, asleep, at, broken>>
  BY DEF Dispatch
<1>2. /\ Head(ready) \in Proc /\ ready' \in Seq(Proc) /\ Injective(ready')
      /\ ElementsOf(ready) = ElementsOf(ready') \cup {Head(ready)}
      /\ Head(ready) \notin ElementsOf(ready')
  BY <1>1, TailElements DEF TypeOK, NoRepeats, Dispatch
<1>3. TypeOK'
  BY <1>1, <1>2 DEF TypeOK, Dispatch
<1>4. NoRepeats' /\ Apart'
  BY <1>1, <1>2 DEF NoRepeats, Apart, Disjoint
<1>5. Accounted'
  BY <1>1, <1>2, ConstAssumption DEF Accounted, InWaiting, InCondition
<1>6. QueuedInside' /\ MutualExclusion' /\ BusyMeansHeld'
  BY <1>1 DEF QueuedInside, MutualExclusion, BusyMeansHeld, Holds, InWaiting, InCondition, Inside
<1> QED BY <1>3, <1>4, <1>5, <1>6

LEMMA BlockKeeps ==
  ASSUME IInv, NEW p \in Proc, Block(p)
  PROVE  IInv'
<1> USE DEF IInv, OnePlace
<1>1. /\ current = p /\ current' = NoProc /\ asleep' = asleep \cup {p} /\ at' = at
      /\ UNCHANGED <<busy, waiting, cond, ready, broken>>
  BY DEF Block, Step, TypeOK
<1>2. TypeOK'
  BY <1>1 DEF TypeOK, Block, Step
<1>3. NoRepeats' /\ Apart'
  <2>1. /\ NoProc \notin ElementsOf(waiting) \cup ElementsOf(ready) \cup asleep
        /\ \A d \in Cond : NoProc \notin ElementsOf(cond[d])
    BY NoProcNowhere
  <2>2. NoRepeats'
    BY <1>1 DEF NoRepeats
  <2>3. Apart'
    BY <1>1, <2>1, ConstAssumption DEF Apart, Disjoint
  <2> QED BY <2>2, <2>3
<1>4. Accounted'
  BY <1>1, ConstAssumption DEF Accounted, InWaiting, InCondition
<1>5. QueuedInside' /\ MutualExclusion' /\ BusyMeansHeld'
  BY <1>1 DEF QueuedInside, MutualExclusion, BusyMeansHeld, Holds, InWaiting, InCondition, Inside
<1> QED BY <1>2, <1>3, <1>4, <1>5

LEMMA WakeKeeps ==
  ASSUME IInv, NEW p \in Proc, Wake(p)
  PROVE  IInv'
<1> USE DEF IInv, OnePlace
<1>1. /\ p \in asleep /\ asleep' = asleep \ {p} /\ ready' = Append(ready, p)
      /\ UNCHANGED <<busy, waiting, cond, current, at, broken>>
  BY DEF Wake
<1>2. /\ ready' \in Seq(Proc) /\ ElementsOf(ready') = ElementsOf(ready) \cup {p}
      /\ Injective(ready) /\ p \notin ElementsOf(ready) => Injective(ready')
  BY <1>1, AppendElements DEF TypeOK
<1>3. TypeOK'
  BY <1>1, <1>2 DEF TypeOK, Wake
<1>4. NoRepeats' /\ Apart'
  BY <1>1, <1>2 DEF NoRepeats, Apart, Disjoint
<1>5. Accounted'
  BY <1>1, <1>2 DEF Accounted, InWaiting, InCondition
<1>6. QueuedInside' /\ MutualExclusion' /\ BusyMeansHeld'
  BY <1>1 DEF QueuedInside, MutualExclusion, BusyMeansHeld, Holds, InWaiting, InCondition, Inside
<1> QED BY <1>3, <1>4, <1>5, <1>6

LEMMA ReturnToBrokenObjectKeeps ==
  ASSUME IInv, NEW p \in Proc, ReturnToBrokenObject(p)
  PROVE  IInv'
<1> USE DEF IInv, OnePlace
<1>1. /\ p \in asleep /\ asleep' = asleep \ {p} /\ broken
      /\ UNCHANGED <<busy, waiting, cond, current, broken>>
  BY DEF ReturnToBrokenObject
<1>2. /\ ElementsOf(Append(ready, p)) = ElementsOf(ready) \cup {p}
      /\ Append(ready, p) \in Seq(Proc)
      /\ Injective(ready) /\ p \notin ElementsOf(ready) => Injective(Append(ready, p))
  BY AppendElements DEF TypeOK
<1>3. \/ at' = [at EXCEPT ![p] = "outside"] /\ ready' = Append(ready, p)
      \/ at' = [at EXCEPT ![p] = "dead"]    /\ ready' = ready
  BY DEF ReturnToBrokenObject
<1>4. TypeOK'
  BY <1>1, <1>2, <1>3 DEF TypeOK, ReturnToBrokenObject, Points
<1>5. NoRepeats' /\ Apart'
  <2>1. CASE ready' = Append(ready, p)
    BY <1>1, <1>2, <2>1 DEF NoRepeats, Apart, Disjoint
  <2>2. CASE ready' = ready
    BY <1>1, <2>2 DEF NoRepeats, Apart, Disjoint
  <2> QED BY <1>3, <2>1, <2>2
<1>6. Accounted'
  <2>1. p \notin ElementsOf(waiting) /\ p \notin ElementsOf(ready) /\ p # current /\ ~InCondition(p)
    BY <1>1 DEF Apart, Disjoint, InCondition
  <2>2. CASE at' = [at EXCEPT ![p] = "outside"] /\ ready' = Append(ready, p)
    BY <1>1, <1>2, <2>1, <2>2 DEF Accounted, TypeOK, InWaiting, InCondition
  <2>3. CASE at' = [at EXCEPT ![p] = "dead"] /\ ready' = ready
    BY <1>1, <2>1, <2>3 DEF Accounted, TypeOK, InWaiting, InCondition
  <2> QED BY <1>3, <2>2, <2>3
<1>7. QueuedInside'
  BY <1>1, <1>3 DEF QueuedInside, TypeOK, Apart, Disjoint, InWaiting, InCondition, Inside
<1>8. \A q \in Proc : Holds(q)' => Holds(q)
  BY <1>1, <1>3 DEF TypeOK, Holds, InWaiting, InCondition, Inside
<1>9. MutualExclusion' /\ BusyMeansHeld'
  BY <1>1, <1>8 DEF MutualExclusion, BusyMeansHeld
<1> QED BY <1>4, <1>5, <1>6, <1>7, <1>9

LEMMA QuitKeeps ==
  ASSUME IInv, NEW p \in Proc, Quit(p)
  PROVE  IInv'
<1> USE DEF IInv, OnePlace
<1>1. /\ current = p /\ current' = NoProc /\ at[p] = "outside"
      /\ at' = [at EXCEPT ![p] = "dead"]
      /\ UNCHANGED <<busy, waiting, cond, ready, asleep, broken>>
  BY DEF Quit
<1>2. TypeOK'
  BY <1>1 DEF TypeOK, Quit, Points
<1>3. NoRepeats' /\ Apart'
  <2>1. /\ NoProc \notin ElementsOf(waiting) \cup ElementsOf(ready) \cup asleep
        /\ \A d \in Cond : NoProc \notin ElementsOf(cond[d])
    BY NoProcNowhere
  <2>2. NoRepeats'
    BY <1>1 DEF NoRepeats
  <2>3. Apart'
    BY <1>1, <2>1, ConstAssumption DEF Apart, Disjoint
  <2> QED BY <2>2, <2>3
<1>4. Accounted'
  <2>1. p \notin ElementsOf(waiting) \cup ElementsOf(ready) \cup asleep /\ ~InCondition(p)
    BY <1>1 DEF Apart, Disjoint, InCondition
  <2> QED BY <1>1, <2>1, ConstAssumption DEF Accounted, TypeOK, InWaiting, InCondition
<1>5. QueuedInside'
  BY <1>1 DEF QueuedInside, TypeOK, Apart, Disjoint, InWaiting, InCondition, Inside
<1>6. \A q \in Proc : Holds(q)' <=> Holds(q)
  BY <1>1 DEF TypeOK, Holds, InWaiting, InCondition, Inside
<1>7. MutualExclusion' /\ BusyMeansHeld'
  BY <1>1, <1>6 DEF MutualExclusion, BusyMeansHeld
<1> QED BY <1>2, <1>3, <1>4, <1>5, <1>7

LEMMA MonEnterKeeps ==
  ASSUME IInv, NEW p \in Proc, MonEnter(p)
  PROVE  IInv'
<1> USE DEF IInv, OnePlace
<1>0. /\ current = p /\ current # NoProc /\ at[p] = "outside" /\ ~broken
      /\ at' = [at EXCEPT ![p] = "entered"]
      /\ UNCHANGED <<cond, ready, asleep, broken>>
  BY ConstAssumption DEF MonEnter, Step
<1>1. CASE busy = 0 /\ busy' = 1 /\ waiting' = waiting /\ current' = current
  <2>1. TypeOK'
    BY <1>0, <1>1 DEF TypeOK, MonEnter, Step, Points
  <2>2. NoRepeats' /\ Apart'
    BY <1>0, <1>1 DEF NoRepeats, Apart
  <2>3. Accounted'
    BY <1>0, <1>1 DEF Accounted, TypeOK, InWaiting, InCondition
  <2>4. QueuedInside'
    BY <1>0, <1>1 DEF QueuedInside, TypeOK, InWaiting, InCondition, Inside
  <2>5. \A q \in Proc : Holds(q)' <=> q = p
    BY <1>0, <1>1 DEF Apart, Disjoint, TypeOK, Holds, InWaiting, InCondition, Inside, BusyMeansHeld
  <2> QED BY <1>0, <1>1, <2>1, <2>2, <2>3, <2>4, <2>5 DEF MutualExclusion, BusyMeansHeld
<1>2. CASE busy = 1 /\ waiting' = Append(waiting, p) /\ current' = NoProc /\ busy' = busy
  <2>1. TypeOK'
    BY <1>0, <1>2 DEF TypeOK, MonEnter, Step, Points
  <2>2. /\ ElementsOf(waiting') = ElementsOf(waiting) \cup {p}
        /\ Injective(waiting) /\ p \notin ElementsOf(waiting) => Injective(waiting')
    BY <1>2, AppendElements DEF TypeOK
  <2>3. NoRepeats' /\ Apart'
    <3>1. /\ NoProc \notin ElementsOf(waiting) \cup ElementsOf(ready) \cup asleep
          /\ \A d \in Cond : NoProc \notin ElementsOf(cond[d])
      BY NoProcNowhere
    <3>2. NoRepeats'
      BY <1>0, <1>2, <2>2 DEF NoRepeats, Apart, Disjoint
    <3>3. Apart'
      BY <1>0, <1>2, <2>2, <3>1, ConstAssumption DEF Apart, Disjoint
    <3> QED BY <3>2, <3>3
  <2>4. Accounted'
    BY <1>0, <1>2, <2>2, ConstAssumption DEF Accounted, TypeOK, InWaiting, InCondition
  <2>5. QueuedInside'
    BY <1>0, <1>2, <2>2 DEF QueuedInside, TypeOK, InWaiting, InCondition, Inside
  <2>6. \A q \in Proc : Holds(q)' <=> Holds(q)
    BY <1>0, <1>2, <2>2 DEF Apart, Disjoint, TypeOK, Holds, InWaiting, InCondition, Inside
  <2> QED BY <1>0, <1>2, <2>1, <2>3, <2>4, <2>5, <2>6 DEF MutualExclusion, BusyMeansHeld
<1> QED BY <1>1, <1>2 DEF MonEnter

LEMMA InvokeBrokenKeeps ==
  ASSUME IInv, NEW p \in Proc, InvokeBroken(p)
  PROVE  IInv'
<1> USE DEF IInv, OnePlace
<1>1. /\ current = p /\ at[p] = "outside" /\ broken
      /\ UNCHANGED <<busy, waiting, cond, ready, asleep, broken>>
      /\ \/ at' = [at EXCEPT ![p] = "outside"] /\ current' = current
         \/ at' = [at EXCEPT ![p] = "dead"] /\ current' = NoProc
  BY DEF InvokeBroken, Step
<1>2. TypeOK'
  <2>1. fuel' \in [Proc -> Nat]
    BY StepBurnsFuel DEF InvokeBroken
  <2> QED BY <1>1, <2>1 DEF TypeOK, Points
<1>3. NoRepeats' /\ Apart'
  <2>1. /\ NoProc \notin ElementsOf(waiting) \cup ElementsOf(ready) \cup asleep
        /\ \A d \in Cond : NoProc \notin ElementsOf(cond[d])
    BY NoProcNowhere
  <2>2. NoRepeats'
    BY <1>1 DEF NoRepeats
  <2>3. Apart'
    BY <1>1, <2>1, ConstAssumption DEF Apart, Disjoint
  <2> QED BY <2>2, <2>3
<1>4. Accounted'
  BY <1>1, ConstAssumption DEF Accounted, Apart, Disjoint, TypeOK, InWaiting, InCondition
<1>5. QueuedInside'
  BY <1>1 DEF QueuedInside, TypeOK, Apart, Disjoint, InWaiting, InCondition, Inside
<1>6. \A q \in Proc : Holds(q)' <=> Holds(q)
  BY <1>1 DEF TypeOK, Holds, InWaiting, InCondition, Inside
<1>7. MutualExclusion' /\ BusyMeansHeld'
  BY <1>1, <1>6 DEF MutualExclusion, BusyMeansHeld
<1> QED BY <1>2, <1>3, <1>4, <1>5, <1>7

(* The process that leaves held the monitor: it passes to the head of the
   entry queue, or to nobody. *)
LEMMA MonExitKeeps ==
  ASSUME IInv, NEW p \in Proc, MonExit(p)
  PROVE  IInv'
<1> USE DEF IInv, OnePlace
<1>0. /\ current = p /\ Inside(p) /\ at' = [at EXCEPT ![p] = "outside"]
      /\ UNCHANGED <<cond, current, asleep, broken>>
  BY DEF MonExit
<1>1. Holds(p) /\ \A q \in Proc : Holds(q) => q = p
  BY <1>0 DEF Holds, MutualExclusion, Apart, Disjoint, InWaiting, InCondition
<1>2. CASE waiting = <<>> /\ busy' = 0 /\ waiting' = waiting /\ ready' = ready
  <2>1. TypeOK'
    BY <1>0, <1>2 DEF TypeOK, MonExit, Points
  <2>2. NoRepeats' /\ Apart'
    BY <1>0, <1>2 DEF NoRepeats, Apart
  <2>3. Accounted'
    BY <1>0, <1>2 DEF Accounted, TypeOK, InWaiting, InCondition
  <2>4. QueuedInside'
    BY <1>0, <1>2 DEF QueuedInside, TypeOK, Apart, Disjoint, InWaiting, InCondition, Inside
  <2>5. \A q \in Proc : ~Holds(q)'
    BY <1>0, <1>1, <1>2 DEF TypeOK, Holds, InWaiting, InCondition, Inside
  <2> QED BY <1>2, <2>1, <2>2, <2>3, <2>4, <2>5 DEF MutualExclusion, BusyMeansHeld
<1>3. CASE /\ waiting # <<>> /\ busy' = busy
           /\ ready' = Append(ready, Head(waiting)) /\ waiting' = Tail(waiting)
  <2> DEFINE h == Head(waiting)
  <2>1. /\ h \in Proc /\ waiting' \in Seq(Proc) /\ Injective(waiting')
        /\ ElementsOf(waiting) = ElementsOf(waiting') \cup {h}
        /\ h \notin ElementsOf(waiting')
    BY <1>3, TailElements DEF TypeOK, NoRepeats
  <2>2. /\ ready' \in Seq(Proc) /\ ElementsOf(ready') = ElementsOf(ready) \cup {h}
        /\ Injective(ready) /\ h \notin ElementsOf(ready) => Injective(ready')
    BY <1>3, <2>1, AppendElements DEF TypeOK
  <2> HIDE DEF h
  <2>3. TypeOK'
    BY <1>0, <1>3, <2>1, <2>2 DEF TypeOK, MonExit, Points
  <2>4. NoRepeats' /\ Apart'
    BY <1>0, <2>1, <2>2 DEF NoRepeats, Apart, Disjoint
  <2>5. Accounted'
    BY <1>0, <2>1, <2>2 DEF Accounted, TypeOK, InWaiting, InCondition
  <2>6. QueuedInside'
    BY <1>0, <2>1 DEF QueuedInside, TypeOK, Apart, Disjoint, InWaiting, InCondition, Inside
  <2>7. \A q \in Proc : Holds(q)' <=> q = h
    BY <1>0, <1>1, <2>1 DEF QueuedInside, Apart, Disjoint, TypeOK, Holds, InWaiting, InCondition, Inside
  <2> QED BY <1>0, <1>1, <1>3, <2>1, <2>3, <2>4, <2>5, <2>6, <2>7 DEF MutualExclusion, BusyMeansHeld
<1> QED BY <1>2, <1>3 DEF MonExit

LEMMA CondWaitKeeps ==
  ASSUME IInv, NEW p \in Proc, NEW c \in Cond, CondWait(p, c)
  PROVE  IInv'
<1> USE DEF IInv, OnePlace
<1>0. /\ current = p /\ Inside(p) /\ at' = [at EXCEPT ![p] = "waited"]
      /\ cond' = [cond EXCEPT ![c] = Append(@, p)]
      /\ UNCHANGED <<ready, asleep, broken>>
  BY DEF CondWait, Step
<1>1. Holds(p) /\ \A q \in Proc : Holds(q) => q = p
  BY <1>0 DEF Holds, MutualExclusion, Apart, Disjoint, InWaiting, InCondition
<1>2. /\ cond' \in [Cond -> Seq(Proc)]
      /\ ElementsOf(cond'[c]) = ElementsOf(cond[c]) \cup {p}
      /\ Injective(cond[c]) /\ p \notin ElementsOf(cond[c]) => Injective(cond'[c])
      /\ \A d \in Cond \ {c} : cond'[d] = cond[d]
  <2>1. cond[c] \in Seq(Proc) /\ cond'[c] = Append(cond[c], p)
    BY <1>0 DEF TypeOK
  <2> QED BY <1>0, <2>1, AppendElements DEF TypeOK
<1>3. CASE waiting = <<>> /\ busy' = 0 /\ waiting' = waiting /\ current' = NoProc
  <2>1. TypeOK'
    BY <1>0, <1>2, <1>3 DEF TypeOK, CondWait, Step, Points
  <2>2. NoRepeats' /\ Apart'
    <3>1. /\ NoProc \notin ElementsOf(waiting) \cup ElementsOf(ready) \cup asleep
          /\ \A d \in Cond : NoProc \notin ElementsOf(cond[d])
      BY NoProcNowhere
    <3>2. NoRepeats'
      BY <1>0, <1>2, <1>3 DEF NoRepeats, Apart, Disjoint
    <3>3. Apart'
      BY <1>0, <1>2, <1>3, <3>1, ConstAssumption DEF Apart, Disjoint
    <3> QED BY <3>2, <3>3
  <2>3. Accounted'
    BY <1>0, <1>2, <1>3, ConstAssumption DEF Accounted, TypeOK, InWaiting, InCondition
  <2>4. QueuedInside'
    BY <1>0, <1>2, <1>3 DEF QueuedInside, TypeOK, InWaiting, InCondition, Inside
  <2>5. \A q \in Proc : ~Holds(q)'
    BY <1>0, <1>1, <1>2, <1>3 DEF TypeOK, Holds, InWaiting, InCondition, Inside
  <2> QED BY <1>3, <2>1, <2>2, <2>3, <2>4, <2>5 DEF MutualExclusion, BusyMeansHeld
<1>4. CASE /\ waiting # <<>> /\ busy' = busy
           /\ current' = Head(waiting) /\ waiting' = Tail(waiting)
  <2>0. PICK h \in Proc : h = Head(waiting)
    BY <1>4, TailElements DEF TypeOK
  <2>1. /\ current' = h /\ waiting' \in Seq(Proc) /\ Injective(waiting')
        /\ ElementsOf(waiting) = ElementsOf(waiting') \cup {h}
        /\ h \notin ElementsOf(waiting')
    BY <1>4, <2>0, TailElements DEF TypeOK, NoRepeats
  <2>2. TypeOK'
    BY <1>0, <1>2, <1>4, <2>1 DEF TypeOK, CondWait, Step, Points
  <2>3. NoRepeats' /\ Apart'
    BY <1>0, <1>2, <2>1 DEF NoRepeats, Apart, Disjoint
  <2>4. Accounted'
    BY <1>0, <1>2, <2>1 DEF Accounted, TypeOK, InWaiting, InCondition
  <2>5. QueuedInside'
    BY <1>0, <1>2, <2>1 DEF QueuedInside, TypeOK, InWaiting, InCondition, Inside
  <2>6. \A q \in Proc : Holds(q)' <=> q = h
    <3>1. Holds(h)'
      <4>1. h # p /\ Inside(h) /\ \A d \in Cond : h \notin ElementsOf(cond[d])
        BY <1>0, <1>1, <2>1 DEF QueuedInside, Apart, Disjoint, Holds, InWaiting
      <4>2. \A d \in Cond : h \notin ElementsOf(cond'[d])
        BY <1>2, <4>1
      <4> QED BY <1>0, <2>1, <4>1, <4>2 DEF TypeOK, Holds, InWaiting, InCondition, Inside
    <3>2. ASSUME NEW q \in Proc, Holds(q)' PROVE q = h
      <4>1. q # p
        BY <1>2, <3>2 DEF Holds, InCondition
      <4>2. ~Holds(q) /\ (Inside(q)' <=> Inside(q)) /\ (InCondition(q)' <=> InCondition(q))
        BY <1>0, <1>1, <1>2, <4>1 DEF TypeOK, Inside, InCondition
      <4> QED BY <2>1, <3>2, <4>2 DEF Holds, InWaiting
    <3> QED BY <2>1, <3>1, <3>2
  <2> QED BY <1>0, <1>1, <1>4, <2>1, <2>2, <2>3, <2>4, <2>5, <2>6 DEF MutualExclusion, BusyMeansHeld
<1> QED BY <1>3, <1>4 DEF CondWait

(* The signaller goes to the front of the entry queue, the signalled process
   takes over. *)
LEMMA CondSignalKeeps ==
  ASSUME IInv, NEW p \in Proc, NEW c \in Cond, CondSignal(p, c)
  PROVE  IInv'
<1> USE DEF IInv, OnePlace
<1>0. current = p /\ Inside(p) /\ UNCHANGED <<busy, ready, asleep, broken>>
  BY DEF CondSignal, Step
<1>1. Holds(p) /\ \A q \in Proc : Holds(q) => q = p
  BY <1>0 DEF Holds, MutualExclusion, Apart, Disjoint, InWaiting, InCondition
<1>2. CASE cond[c] = <<>> /\ at' = [at EXCEPT ![p] = at[p]] /\ UNCHANGED <<waiting, current, cond>>
  <2>1. at' = at
    BY <1>2 DEF TypeOK
  <2>2. TypeOK'
    <3>1. fuel' \in [Proc -> Nat]
      BY StepBurnsFuel DEF CondSignal
    <3> QED BY <1>0, <1>2, <2>1, <3>1 DEF TypeOK
  <2>3. NoRepeats' /\ Apart'
    BY <1>0, <1>2 DEF NoRepeats, Apart
  <2>4. Accounted' /\ QueuedInside' /\ MutualExclusion' /\ BusyMeansHeld'
    BY <1>0, <1>2, <2>1 DEF Accounted, QueuedInside, MutualExclusion, BusyMeansHeld, Holds,
         InWaiting, InCondition, Inside
  <2> QED BY <2>2, <2>3, <2>4
<1>3. CASE /\ cond[c] # <<>> /\ at' = [at EXCEPT ![p] = "signalled"]
           /\ waiting' = <<p>> \o waiting /\ current' = Head(cond[c])
           /\ cond' = [cond EXCEPT ![c] = Tail(@)]
  <2>1. cond[c] \in Seq(Proc) /\ cond'[c] = Tail(cond[c])
    BY <1>3 DEF TypeOK
  <2>2. PICK h \in Proc : h = Head(cond[c])
    BY <1>3, <2>1, TailElements
  <2>3. /\ cond' \in [Cond -> Seq(Proc)] /\ Injective(cond'[c])
        /\ ElementsOf(cond[c]) = ElementsOf(cond'[c]) \cup {h}
        /\ h \notin ElementsOf(cond'[c])
        /\ \A d \in Cond \ {c} : cond'[d] = cond[d]
    BY <1>3, <2>1, <2>2, TailElements DEF TypeOK, NoRepeats
  <2>4. /\ waiting' \in Seq(Proc) /\ ElementsOf(waiting') = ElementsOf(waiting) \cup {p}
        /\ Injective(waiting) /\ p \notin ElementsOf(waiting) => Injective(waiting')
    BY <1>3, PushElements DEF TypeOK
  <2>5. /\ h # p /\ h \notin ElementsOf(waiting) \cup ElementsOf(ready) \cup asleep
        /\ \A d \in Cond \ {c} : h \notin ElementsOf(cond[d])
        /\ Inside(h)
    BY <1>0, <2>3 DEF Apart, Disjoint, QueuedInside, InCondition
  <2>6. TypeOK'
    <3>1. fuel' \in [Proc -> Nat]
      BY StepBurnsFuel DEF CondSignal
    <3> QED BY <1>0, <1>3, <2>2, <2>3, <2>4, <3>1 DEF TypeOK, Points
  <2>7. NoRepeats'
    BY <1>0, <2>3, <2>4 DEF NoRepeats, Apart, Disjoint
  <2>8. Apart'
    BY <1>0, <1>3, <2>2, <2>3, <2>4, <2>5 DEF Apart, Disjoint
  <2>9. Accounted'
    BY <1>0, <1>3, <2>2, <2>3, <2>4, <2>5 DEF Accounted, TypeOK, InWaiting, InCondition, Inside
  <2>10. QueuedInside'
    BY <1>0, <1>3, <2>3, <2>4 DEF QueuedInside, TypeOK, InWaiting, InCondition, Inside
  <2>11. \A q \in Proc : Holds(q)' <=> q = h
    <3>1. Holds(h)'
      <4>1. \A d \in Cond : h \notin ElementsOf(cond'[d])
        BY <2>3, <2>5
      <4> QED BY <1>3, <2>4, <2>5, <4>1 DEF TypeOK, Holds, InWaiting, InCondition, Inside
    <3>2. ASSUME NEW q \in Proc, Holds(q)' PROVE q = h
      <4>1. q # p
        BY <2>4, <3>2 DEF Holds, InWaiting
      <4>2. ~Holds(q) /\ (Inside(q)' <=> Inside(q)) /\ (InWaiting(q)' <=> InWaiting(q))
        BY <1>1, <1>3, <2>4, <4>1 DEF TypeOK, Inside, InWaiting
      <4> QED BY <2>3, <3>2, <4>2 DEF Holds, InCondition
    <3> QED BY <3>1, <3>2
  <2> QED BY <1>0, <1>1, <2>6, <2>7, <2>8, <2>9, <2>10, <2>11 DEF MutualExclusion, BusyMeansHeld
<1> QED BY <1>2, <1>3 DEF CondSignal, Step

(* The signalled process has the monitor, from the ready queue. *)
LEMMA CondSignalAndExitKeeps ==
  ASSUME IInv, NEW p \in Proc, NEW c \in Cond, CondSignalAndExit(p, c)
  PROVE  IInv'
<1> USE DEF IInv, OnePlace
<1>0. current = p /\ Inside(p) /\ UNCHANGED <<busy, waiting, current, asleep, broken>>
  BY DEF CondSignalAndExit, Step
<1>1. Holds(p) /\ \A q \in Proc : Holds(q) => q = p
  BY <1>0 DEF Holds, MutualExclusion, Apart, Disjoint, InWaiting, InCondition
<1>2. CASE cond[c] = <<>> /\ at' = [at EXCEPT ![p] = at[p]] /\ UNCHANGED <<ready, cond>>
  <2>1. at' = at
    BY <1>2 DEF TypeOK
  <2>2. TypeOK'
    <3>1. fuel' \in [Proc -> Nat]
      BY StepBurnsFuel DEF CondSignalAndExit
    <3> QED BY <1>0, <1>2, <2>1, <3>1 DEF TypeOK
  <2>3. NoRepeats' /\ Apart'
    BY <1>0, <1>2 DEF NoRepeats, Apart
  <2>4. Accounted' /\ QueuedInside' /\ MutualExclusion' /\ BusyMeansHeld'
    BY <1>0, <1>2, <2>1 DEF Accounted, QueuedInside, MutualExclusion, BusyMeansHeld, Holds,
         InWaiting, InCondition, Inside
  <2> QED BY <2>2, <2>3, <2>4
<1>3. CASE /\ cond[c] # <<>> /\ at' = [at EXCEPT ![p] = "outside"]
           /\ ready' = Append(ready, Head(cond[c]))
           /\ cond' = [cond EXCEPT ![c] = Tail(@)]
  <2>1. cond[c] \in Seq(Proc) /\ cond'[c] = Tail(cond[c])
    BY <1>3 DEF TypeOK
  <2>2. PICK h \in Proc : h = Head(cond[c])
    BY <1>3, <2>1, TailElements
  <2>3. /\ cond' \in [Cond -> Seq(Proc)] /\ Injective(cond'[c])
        /\ ElementsOf(cond[c]) = ElementsOf(cond'[c]) \cup {h}
        /\ h \notin ElementsOf(cond'[c])
        /\ \A d \in Cond \ {c} : cond'[d] = cond[d]
    BY <1>3, <2>1, <2>2, TailElements DEF TypeOK, NoRepeats
  <2>4. /\ ready' \in Seq(Proc) /\ ElementsOf(ready') = ElementsOf(ready) \cup {h}
        /\ Injective(ready) /\ h \notin ElementsOf(ready) => Injective(ready')
    BY <1>3, <2>2, AppendElements DEF TypeOK
  <2>5. /\ h # p /\ h \notin ElementsOf(waiting) \cup ElementsOf(ready) \cup asleep
        /\ \A d \in Cond \ {c} : h \notin ElementsOf(cond[d])
        /\ Inside(h)
    BY <1>0, <2>3 DEF Apart, Disjoint, QueuedInside, InCondition
  <2>6. TypeOK'
    <3>1. fuel' \in [Proc -> Nat]
      BY StepBurnsFuel DEF CondSignalAndExit
    <3> QED BY <1>0, <1>3, <2>3, <2>4, <3>1 DEF TypeOK, Points
  <2>7. NoRepeats'
    BY <1>0, <2>3, <2>4, <2>5 DEF NoRepeats
  <2>8. Apart'
    BY <1>0, <2>3, <2>4, <2>5 DEF Apart, Disjoint
  <2>9. Accounted'
    BY <1>0, <1>3, <2>3, <2>4, <2>5 DEF Accounted, TypeOK, InWaiting, InCondition, Inside
  <2>10. QueuedInside'
    <3>1. ~InWaiting(p) /\ ~InCondition(p)
      BY <1>1 DEF Holds
    <3> QED BY <1>0, <1>3, <2>3, <3>1 DEF QueuedInside, TypeOK, InWaiting, InCondition, Inside
  <2>11. \A q \in Proc : Holds(q)' <=> q = h
    <3>1. Holds(h)'
      <4>1. \A d \in Cond : h \notin ElementsOf(cond'[d])
        BY <2>3, <2>5
      <4> QED BY <1>0, <1>3, <2>5, <4>1 DEF TypeOK, Holds, InWaiting, InCondition, Inside
    <3>2. ASSUME NEW q \in Proc, Holds(q)' PROVE q = h
      <4>1. q # p
        BY <1>3, <3>2 DEF TypeOK, Holds, Inside
      <4>2. ~Holds(q) /\ (Inside(q)' <=> Inside(q)) /\ (InWaiting(q)' <=> InWaiting(q))
        BY <1>0, <1>1, <1>3, <4>1 DEF TypeOK, Inside, InWaiting
      <4> QED BY <2>3, <3>2, <4>2 DEF Holds, InCondition
    <3> QED BY <3>1, <3>2
  <2> QED BY <1>0, <1>1, <2>6, <2>7, <2>8, <2>9, <2>10, <2>11 DEF MutualExclusion, BusyMeansHeld
<1> QED BY <1>2, <1>3 DEF CondSignalAndExit, Step
(* A break turns the entry queue away: the processes a handler saves are ready,
   the others dead, and nobody new holds the object. *)
LEMMA BreakKeeps ==
  ASSUME IInv, NEW p \in Proc, current = p,
         NEW x \in {"outside", "dead"},
         BreakMonitoredObject([at EXCEPT ![p] = x]),
         UNCHANGED <<busy, cond, asleep, fuel>>,
         \/ x = "outside" /\ current' = current
         \/ x = "dead" /\ current' = NoProc
  PROVE  IInv'
<1> USE DEF IInv, OnePlace
<1> DEFINE points == [at EXCEPT ![p] = x]
<1>0. /\ p \notin ElementsOf(waiting) /\ p \notin ElementsOf(ready) /\ p \notin asleep
      /\ \A d \in Cond : p \notin ElementsOf(cond[d])
      /\ p # NoProc
  BY ConstAssumption DEF Apart, Disjoint
<1>1. /\ NoProc \notin ElementsOf(waiting) \cup ElementsOf(ready) \cup asleep
      /\ \A d \in Cond : NoProc \notin ElementsOf(cond[d])
  BY NoProcNowhere
<1>2. /\ points \in [Proc -> Points] /\ points[p] = x
      /\ \A q \in Proc \ {p} : points[q] = at[q]
  BY DEF TypeOK, Points
<1> HIDE DEF points
<1>3. CASE broken /\ at' = points /\ UNCHANGED <<waiting, ready, broken>>
  <2>1. TypeOK'
    BY <1>2, <1>3 DEF TypeOK
  <2>2. NoRepeats'
    BY <1>3 DEF NoRepeats
  <2>3. Apart'
    BY <1>0, <1>1, <1>3 DEF Apart, Disjoint
  <2>4. Accounted'
    BY <1>0, <1>2, <1>3, ConstAssumption DEF Accounted, InWaiting, InCondition
  <2>5. QueuedInside'
    BY <1>0, <1>2, <1>3 DEF QueuedInside, InWaiting, InCondition, Inside
  <2>6. \A q \in Proc : Holds(q)' => Holds(q)
    BY <1>2, <1>3 DEF Holds, InWaiting, InCondition, Inside
  <2> QED BY <1>3, <2>1, <2>2, <2>3, <2>4, <2>5, <2>6 DEF MutualExclusion, BusyMeansHeld
<1>4. CASE /\ broken' = TRUE /\ waiting' = <<>>
           /\ \E saved \in Subsequences(waiting) :
                /\ ready' = ready \o saved
                /\ at' = [q \in Proc |->
                            IF q \in ElementsOf(saved)        THEN "outside"
                            ELSE IF q \in ElementsOf(waiting) THEN "dead"
                            ELSE points[q]]
  <2>1. PICK saved \in Subsequences(waiting) :
                /\ ready' = ready \o saved
                /\ at' = [q \in Proc |->
                            IF q \in ElementsOf(saved)        THEN "outside"
                            ELSE IF q \in ElementsOf(waiting) THEN "dead"
                            ELSE points[q]]
    BY <1>4
  <2>2. /\ saved \in Seq(Proc) /\ Injective(saved)
        /\ \A q \in ElementsOf(saved) : q \in ElementsOf(waiting)
    BY SubsequenceElements DEF TypeOK, NoRepeats
  <2>3. Disjoint(ElementsOf(ready), ElementsOf(saved))
    BY <2>2 DEF Apart, Disjoint
  <2>4. /\ ready' \in Seq(Proc) /\ Injective(ready')
        /\ ElementsOf(ready') = ElementsOf(ready) \cup ElementsOf(saved)
    BY <2>1, <2>2, <2>3, ConcatElements DEF TypeOK, NoRepeats
  <2>5. waiting' \in Seq(Proc) /\ ElementsOf(waiting') = {} /\ Injective(waiting')
    BY <1>4, EmptyElements
  <2>6. /\ at' \in [Proc -> Points]
        /\ \A q \in ElementsOf(saved) : q \in Proc => at'[q] = "outside"
        /\ \A q \in ElementsOf(waiting) : q \in Proc /\ q \notin ElementsOf(saved) => at'[q] = "dead"
        /\ \A q \in Proc : q \notin ElementsOf(waiting) => at'[q] = points[q]
    BY <1>2, <2>1, <2>2 DEF Points
  <2>7. TypeOK'
    BY <1>4, <2>4, <2>5, <2>6 DEF TypeOK
  <2>8. NoRepeats'
    BY <2>4, <2>5 DEF NoRepeats
  <2>9. Apart'
    BY <1>0, <1>1, <2>2, <2>4, <2>5 DEF Apart, Disjoint
  <2>10. Accounted'
    <3>1. ASSUME NEW q \in Proc
          PROVE  (at[q] # "dead" <=> \/ InWaiting(q) \/ InCondition(q)
                                     \/ q \in ElementsOf(ready) \cup asleep \cup {current})'
      <4>1. InCondition(q)' <=> InCondition(q)
        BY DEF InCondition
      <4>2. CASE q \in ElementsOf(saved)
        BY <2>4, <2>6, <4>2
      <4>3. CASE q \in ElementsOf(waiting) /\ q \notin ElementsOf(saved)
        <5>1. /\ at'[q] = "dead" /\ ~InWaiting(q)' /\ q \notin ElementsOf(ready')
              /\ q \notin asleep /\ q # current /\ ~InCondition(q)
          BY <2>4, <2>5, <2>6, <4>3 DEF Apart, Disjoint, InWaiting, InCondition
        <5>2. q # current'
          BY <5>1, ConstAssumption
        <5> QED BY <4>1, <5>1, <5>2
      <4>4. CASE q \notin ElementsOf(waiting)
        <5>1. at'[q] = points[q] /\ ~InWaiting(q)' /\ (q \in ElementsOf(ready') <=> q \in ElementsOf(ready))
          BY <2>2, <2>4, <2>5, <2>6, <4>4 DEF InWaiting
        <5>2. CASE q = p
          BY <1>0, <1>2, <4>1, <5>1, <5>2 DEF InCondition
        <5>3. CASE q # p
          BY <1>2, <4>1, <4>4, <5>1, <5>3, ConstAssumption DEF Accounted, InWaiting
        <5> QED BY <5>2, <5>3
      <4> QED BY <2>2, <4>2, <4>3, <4>4
    <3> QED BY <3>1 DEF Accounted, InWaiting, InCondition
  <2>11. QueuedInside'
    BY <1>0, <1>2, <2>5, <2>6 DEF QueuedInside, Apart, Disjoint, InWaiting, InCondition, Inside
  <2>12. \A q \in Proc : Holds(q)' => Holds(q)
    BY <1>2, <2>2, <2>6 DEF Holds, InWaiting, InCondition, Inside
  <2> QED BY <1>4, <2>7, <2>8, <2>9, <2>10, <2>11, <2>12 DEF MutualExclusion, BusyMeansHeld
<1> QED BY <1>3, <1>4 DEF BreakMonitoredObject, points

LEMMA FailKeeps ==
  ASSUME IInv, NEW p \in Proc, Fail(p)
  PROVE  IInv'
BY BreakKeeps DEF Fail

LEMMA BreakMeKeeps ==
  ASSUME IInv, NEW p \in Proc, BreakMe(p)
  PROVE  IInv'
<1>1. at = [at EXCEPT ![p] = "outside"]
  BY DEF BreakMe, IInv, TypeOK
<1> QED BY <1>1, BreakKeeps DEF BreakMe
-----------------------------------------------------------------------------
LEMMA Initially == Init => IInv
<1> SUFFICES ASSUME Init PROVE IInv
  OBVIOUS
<1>1. TypeOK
  <2>1. <<>> \in Seq(Proc)
    OBVIOUS
  <2>2. cond \in [Cond -> Seq(Proc)]
    BY <2>1 DEF Init
  <2>3. at \in [Proc -> Points] /\ fuel \in [Proc -> Nat]
    BY ConstAssumption DEF Init, Points
  <2> QED BY <2>1, <2>2, <2>3, ConstAssumption DEF Init, TypeOK
<1>2. \A p \in Proc : ~InWaiting(p) /\ ~InCondition(p) /\ ~Holds(p)
  BY EmptyElements DEF Init, InWaiting, InCondition, Holds, Inside
<1>3. OnePlace
  BY <1>2, EmptyElements, ConstAssumption DEF Init, OnePlace, NoRepeats, Apart, Accounted, Disjoint
<1> QED BY <1>1, <1>2, <1>3 DEF Init, IInv, QueuedInside, MutualExclusion, BusyMeansHeld

LEMMA StutterKeeps ==
  ASSUME IInv, UNCHANGED vars
  PROVE  IInv'
<1>1. TypeOK'
  BY DEF IInv, TypeOK, vars
<1>2. OnePlace'
  BY DEF IInv, OnePlace, NoRepeats, Apart, Accounted, InWaiting, InCondition, vars
<1>3. QueuedInside' /\ MutualExclusion' /\ BusyMeansHeld'
  BY DEF IInv, QueuedInside, MutualExclusion, BusyMeansHeld, Holds, InWaiting, InCondition, Inside, vars
<1> QED BY <1>1, <1>2, <1>3 DEF IInv

LEMMA Inductive == IInv /\ [Next]_vars => IInv'
<1> SUFFICES ASSUME IInv, [Next]_vars PROVE IInv'
  OBVIOUS
<1>1. CASE Dispatch
  BY <1>1, DispatchKeeps
<1>2. ASSUME NEW p \in Proc, Block(p) PROVE IInv'
  BY <1>2, BlockKeeps
<1>3. ASSUME NEW p \in Proc, Wake(p) PROVE IInv'
  BY <1>3, WakeKeeps
<1>4. ASSUME NEW p \in Proc, ReturnToBrokenObject(p) PROVE IInv'
  BY <1>4, ReturnToBrokenObjectKeeps
<1>5. ASSUME NEW p \in Proc, Quit(p) PROVE IInv'
  BY <1>5, QuitKeeps
<1>6. ASSUME NEW p \in Proc, MonEnter(p) PROVE IInv'
  BY <1>6, MonEnterKeeps
<1>7. ASSUME NEW p \in Proc, InvokeBroken(p) PROVE IInv'
  BY <1>7, InvokeBrokenKeeps
<1>8. ASSUME NEW p \in Proc, MonExit(p) PROVE IInv'
  BY <1>8, MonExitKeeps
<1>9. ASSUME NEW p \in Proc, NEW c \in Cond, CondWait(p, c) PROVE IInv'
  BY <1>9, CondWaitKeeps
<1>10. ASSUME NEW p \in Proc, NEW c \in Cond, CondSignal(p, c) PROVE IInv'
  BY <1>10, CondSignalKeeps
<1>11. ASSUME NEW p \in Proc, NEW c \in Cond, CondSignalAndExit(p, c) PROVE IInv'
  BY <1>11, CondSignalAndExitKeeps
<1>12. ASSUME NEW p \in Proc, Fail(p) PROVE IInv'
  BY <1>12, FailKeeps
<1>13. ASSUME NEW p \in Proc, BreakMe(p) PROVE IInv'
  BY <1>13, BreakMeKeeps
<1>14. CASE UNCHANGED vars
  BY <1>14, StutterKeeps
<1> QED
  BY <1>1, <1>2, <1>3, <1>4, <1>5, <1>6, <1>7, <1>8, <1>9, <1>10, <1>11, <1>12, <1>13, <1>14 DEF Next

LEMMA Invariance == Spec => []IInv
BY Initially, Inductive, PTL DEF Spec

(* The monitor record, the queues and the processes' places keep their types,
   in particular busy is never anything but 0 or 1. *)
THEOREM TypeCorrect == Spec => []TypeOK
<1>1. IInv => TypeOK
  BY DEF IInv
<1> QED BY <1>1, Invariance, PTL

(* At most one process is in a monitored object, however it got there: through
   MONENTER, from the entry queue on a MONEXIT or CONDWAIT, or signalled. *)
THEOREM Exclusion == Spec => []MutualExclusion
<1>1. IInv => MutualExclusion
  BY DEF IInv
<1> QED BY <1>1, Invariance, PTL

(* The lock of a live object is taken exactly when a process has it, so a
   process that finds it open may go in and one that queues will be let in. *)
THEOREM LockIsHeld == Spec => []BusyMeansHeld
<1>1. IInv => BusyMeansHeld
  BY DEF IInv
<1> QED BY <1>1, Invariance, PTL

(* The interpreter's switches between processes never lose one, nor leave one
   in two places. *)
THEOREM NobodyLost == Spec => []OnePlace
<1>1. IInv => OnePlace
  BY DEF IInv
<1> QED BY <1>1, Invariance, PTL
-----------------------------------------------------------------------------
(* Monitor implements HoareMonitor.  The entry queue of the code is the two
   queues of the abstract monitor, one behind the other: signallers u, then
   entrants e. *)

Parts(w, points, u, e) ==
  /\ u \in Seq(Proc) /\ e \in Seq(Proc) /\ w = u \o e
  /\ \A x \in ElementsOf(u) : points[x] = "signalled"
  /\ \A x \in ElementsOf(e) : points[x] # "signalled"

SignallersFirst == \E u, e : Parts(waiting, at, u, e)

Owner    == IF \E p \in Proc : Holds(p) THEN CHOOSE p \in Proc : Holds(p) ELSE NoProc
Entrants == SubSeq(waiting, Len(Signallers) + 1, Len(waiting))

FrontOf(w, points) ==
  LET n == CHOOSE k \in 0..Len(w) :
             \A i \in 1..Len(w) : points[w[i]] = "signalled" <=> i <= k
  IN  SubSeq(w, 1, n)

LEMMA PartsAre ==
  ASSUME NEW w, NEW points, NEW u, NEW e, Parts(w, points, u, e)
  PROVE  FrontOf(w, points) = u /\ SubSeq(w, Len(u) + 1, Len(w)) = e
<1>1. /\ u \in Seq(Proc) /\ e \in Seq(Proc) /\ w \in Seq(Proc) /\ w = u \o e
      /\ Len(u) \in Nat /\ Len(e) \in Nat /\ Len(w) = Len(u) + Len(e)
  BY ConcatProperties, LenProperties DEF Parts
<1>2. \A i \in 1..Len(w) : w[i] = IF i <= Len(u) THEN u[i] ELSE e[i - Len(u)]
  BY <1>1, ConcatProperties
<1> DEFINE P(k) == \A i \in 1..Len(w) : points[w[i]] = "signalled" <=> i <= k
<1>3. P(Len(u))
  <2>1. ASSUME NEW i \in 1..Len(w) PROVE points[w[i]] = "signalled" <=> i <= Len(u)
    <3>1. CASE i <= Len(u)
      <4>1. u[i] \in ElementsOf(u)
        BY <1>1, <3>1 DEF ElementsOf
      <4> QED BY <1>2, <3>1, <4>1 DEF Parts
    <3>2. CASE ~(i <= Len(u))
      <4>1. i - Len(u) \in 1..Len(e)
        BY <1>1, <3>2
      <4>2. e[i - Len(u)] \in ElementsOf(e)
        BY <4>1 DEF ElementsOf
      <4> QED BY <1>2, <3>2, <4>2 DEF Parts
    <3> QED BY <3>1, <3>2
  <2> QED BY <2>1
<1>4. ASSUME NEW k \in 0..Len(w), P(k) PROVE k = Len(u)
  <2>1. ~(k < Len(u))
    <3>1. k < Len(u) => k + 1 \in 1..Len(w) /\ k + 1 <= Len(u) /\ ~(k + 1 <= k)
      BY <1>1
    <3> QED BY <1>3, <1>4, <3>1
  <2>2. ~(Len(u) < k)
    <3>1. Len(u) < k => k \in 1..Len(w) /\ ~(k <= Len(u)) /\ k <= k
      BY <1>1
    <3> QED BY <1>3, <1>4, <3>1
  <2> QED BY <1>1, <2>1, <2>2
<1>5. Len(u) \in 0..Len(w)
  BY <1>1
<1>6. (CHOOSE k \in 0..Len(w) : P(k)) = Len(u)
  <2> HIDE DEF P
  <2> QED BY <1>3, <1>4, <1>5
<1>7. SubSeq(w, 1, Len(u)) = u
  <2>1. /\ SubSeq(w, 1, Len(u)) \in Seq(Proc) /\ Len(SubSeq(w, 1, Len(u))) = Len(u)
        /\ \A i \in 1..Len(u) : SubSeq(w, 1, Len(u))[i] = w[i]
    BY <1>1
  <2> QED BY <1>1, <1>2, <2>1, SeqEqual
<1>8. SubSeq(w, Len(u) + 1, Len(w)) = e
  <2>1. /\ SubSeq(w, Len(u) + 1, Len(w)) \in Seq(Proc)
        /\ Len(SubSeq(w, Len(u) + 1, Len(w))) = Len(e)
        /\ \A i \in 1..Len(e) : SubSeq(w, Len(u) + 1, Len(w))[i] = w[Len(u) + i]
    <3> DEFINE m == Len(u) + 1
               n == Len(w)
    <3>1. /\ m \in Int /\ n \in Int /\ n - m + 1 = Len(e)
          /\ (IF m <= n THEN n - m + 1 ELSE 0) = Len(e)
          /\ \A i \in m..n : i \in 1..Len(w)
          /\ \A i \in 1..Len(e) : m + i - 1 = Len(u) + i
      BY <1>1
    <3>2. \A i \in m..n : w[i] \in Proc
      BY <1>1, <3>1, ElementOfSeq
    <3> HIDE DEF m, n
    <3>3. /\ SubSeq(w, m, n) \in Seq(Proc)
          /\ Len(SubSeq(w, m, n)) = Len(e)
          /\ \A i \in 1..Len(e) : SubSeq(w, m, n)[i] = w[Len(u) + i]
      BY <3>1, <3>2, SubSeqProperties
    <3> QED BY <3>3 DEF m, n
  <2>2. \A i \in 1..Len(e) : w[Len(u) + i] = e[i]
    <3>1. \A i \in 1..Len(e) : /\ Len(u) + i \in 1..Len(w) /\ ~(Len(u) + i <= Len(u))
                               /\ (Len(u) + i) - Len(u) = i
      BY <1>1
    <3> QED BY <1>2, <3>1
  <2> QED BY <1>1, <2>1, <2>2, SeqEqual
<1> QED BY <1>6, <1>7, <1>8 DEF FrontOf

LEMMA PartsElements ==
  ASSUME NEW w, NEW points, NEW u, NEW e, Parts(w, points, u, e)
  PROVE  ElementsOf(w) = ElementsOf(u) \cup ElementsOf(e)
BY ConcatElements DEF Parts

LEMMA PartsStay ==
  ASSUME NEW w, NEW points, NEW u, NEW e, Parts(w, points, u, e),
         NEW later, \A q \in ElementsOf(w) : later[q] = points[q]
  PROVE  Parts(w, later, u, e)
<1>1. ElementsOf(u) \subseteq ElementsOf(w) /\ ElementsOf(e) \subseteq ElementsOf(w)
  BY PartsElements
<1>2. /\ \A x \in ElementsOf(u) : later[x] = "signalled"
      /\ \A x \in ElementsOf(e) : later[x] # "signalled"
  BY <1>1 DEF Parts
<1> QED BY <1>2 DEF Parts

(* An entrant comes. *)
LEMMA PartsAppend ==
  ASSUME NEW w, NEW points, NEW u, NEW e, Parts(w, points, u, e),
         NEW p \in Proc, points[p] # "signalled"
  PROVE  Parts(Append(w, p), points, u, Append(e, p))
<1>1. /\ Append(e, p) \in Seq(Proc)
      /\ ElementsOf(Append(e, p)) = ElementsOf(e) \cup {p}
  BY AppendElements DEF Parts
<1>2. Append(u \o e, p) = u \o Append(e, p)
  <2>1. u \in Seq(Proc) /\ e \in Seq(Proc) /\ <<p>> \in Seq(Proc) /\ u \o e \in Seq(Proc)
    BY ConcatProperties DEF Parts
  <2>2. Append(u \o e, p) = (u \o e) \o <<p>> /\ Append(e, p) = e \o <<p>>
    BY <2>1, AppendIsConcat
  <2> QED BY <2>1, <2>2, ConcatAssociative
<1> QED BY <1>1, <1>2 DEF Parts

(* A process signals. *)
LEMMA PartsPush ==
  ASSUME NEW w, NEW points, NEW u, NEW e, Parts(w, points, u, e),
         NEW p \in Proc, points[p] = "signalled"
  PROVE  Parts(<<p>> \o w, points, <<p>> \o u, e)
<1>1. /\ <<p>> \o u \in Seq(Proc)
      /\ ElementsOf(<<p>> \o u) = ElementsOf(u) \cup {p}
  BY PushElements DEF Parts
<1>2. <<p>> \o (u \o e) = (<<p>> \o u) \o e
  <2>1. u \in Seq(Proc) /\ e \in Seq(Proc) /\ <<p>> \in Seq(Proc)
    BY DEF Parts
  <2> QED BY <2>1, ConcatAssociative
<1> QED BY <1>1, <1>2 DEF Parts

(* The first of the queue goes. *)
LEMMA PartsTail ==
  ASSUME NEW w, NEW points, NEW u, NEW e, Parts(w, points, u, e), w # <<>>
  PROVE  \/ u # <<>> /\ Head(u) = Head(w) /\ Parts(Tail(w), points, Tail(u), e)
         \/ u = <<>> /\ e # <<>> /\ Head(e) = Head(w) /\ Parts(Tail(w), points, u, Tail(e))
<1>0. u \in Seq(Proc) /\ e \in Seq(Proc) /\ w \in Seq(Proc) /\ w = u \o e
  BY ConcatProperties DEF Parts
<1>1. CASE u = <<>>
  <2>1. w = e
    BY <1>0, <1>1, ConcatEmptySeq
  <2>2. Tail(e) \in Seq(Proc) /\ ElementsOf(e) = ElementsOf(Tail(e)) \cup {Head(e)}
    BY <1>0, <2>1, TailElements
  <2>3. u \o Tail(e) = Tail(e)
    BY <1>1, <2>2, ConcatEmptySeq
  <2> QED BY <1>1, <2>1, <2>2, <2>3 DEF Parts
<1>2. CASE u # <<>>
  <2>1. /\ Tail(u) \in Seq(Proc) /\ ElementsOf(u) = ElementsOf(Tail(u)) \cup {Head(u)}
        /\ Tail(w) \in Seq(Proc)
    BY <1>0, <1>2, TailElements
  <2>2. /\ Len(u) \in Nat \ {0} /\ Len(e) \in Nat /\ Len(w) = Len(u) + Len(e)
        /\ Len(Tail(u)) = Len(u) - 1 /\ Len(Tail(w)) = Len(w) - 1
        /\ Head(u) = u[1] /\ Head(w) = w[1]
    BY <1>0, <1>2
  <2>3. /\ \A i \in 1..Len(w) : w[i] = IF i <= Len(u) THEN u[i] ELSE e[i - Len(u)]
        /\ \A i \in 1..(Len(u) - 1) : Tail(u)[i] = u[i + 1]
        /\ \A i \in 1..(Len(w) - 1) : Tail(w)[i] = w[i + 1]
    BY <1>0, <1>2, <2>2, ConcatProperties, HeadTailProperties
  <2>4. Head(u) = Head(w)
    BY <2>2, <2>3
  <2>5. Tail(w) = Tail(u) \o e
    <3>1. /\ Tail(u) \o e \in Seq(Proc) /\ Len(Tail(u) \o e) = Len(Tail(w))
          /\ \A i \in 1..Len(Tail(w)) :
               (Tail(u) \o e)[i] = IF i <= Len(u) - 1 THEN Tail(u)[i] ELSE e[i - (Len(u) - 1)]
      BY <1>0, <2>1, <2>2, ConcatProperties
    <3>2. ASSUME NEW i \in 1..Len(Tail(w)) PROVE Tail(w)[i] = (Tail(u) \o e)[i]
      <4>0. i \in 1..(Len(w) - 1) /\ i + 1 \in 1..Len(w)
        BY <2>2
      <4>1. CASE i <= Len(u) - 1
        <5>1. i \in 1..(Len(u) - 1) /\ i + 1 <= Len(u)
          BY <2>2, <4>1
        <5> QED BY <2>3, <3>1, <4>0, <4>1, <5>1
      <4>2. CASE ~(i <= Len(u) - 1)
        <5>1. ~(i + 1 <= Len(u)) /\ (i + 1) - Len(u) = i - (Len(u) - 1)
          BY <2>2, <4>2
        <5> QED BY <2>3, <3>1, <4>0, <4>2, <5>1
      <4> QED BY <4>1, <4>2
    <3> QED BY <2>1, <3>1, <3>2, SeqEqual
  <2> QED BY <1>2, <2>1, <2>4, <2>5 DEF Parts
<1> QED BY <1>1, <1>2

LEMMA NoParts ==
  ASSUME NEW points
  PROVE  Parts(<<>>, points, <<>>, <<>>)
BY EmptyElements, EmptySeq, ConcatEmptySeq DEF Parts

LEMMA PartsEmpty ==
  ASSUME NEW points, NEW u, NEW e, Parts(<<>>, points, u, e)
  PROVE  u = <<>> /\ e = <<>>
BY ConcatEqualIffEmpty, ConcatSimplifications DEF Parts
-----------------------------------------------------------------------------
(* What the abstract monitor's variables are before and after a step *)

LEMMA PartsNow ==
  ASSUME NEW u, NEW e, Parts(waiting, at, u, e)
  PROVE  Signallers = u /\ Entrants = e
<1>1. Signallers = FrontOf(waiting, at)
  BY DEF Signallers, FrontOf
<1> QED BY <1>1, PartsAre DEF Entrants

LEMMA PartsThen ==
  ASSUME NEW u, NEW e, Parts(waiting', at', u, e)
  PROVE  Signallers' = u /\ Entrants' = e /\ SignallersFirst'
<1>1. Signallers' = FrontOf(waiting', at')
  BY DEF Signallers, FrontOf
<1>2. Signallers' = u /\ Entrants' = e
  BY <1>1, PartsAre DEF Entrants
<1>3. SignallersFirst'
  BY DEF SignallersFirst
<1> QED BY <1>2, <1>3

LEMMA OwnerNow ==
  ASSUME MutualExclusion
  PROVE  /\ \A p \in Proc : Holds(p) => Owner = p
         /\ (\A p \in Proc : ~Holds(p)) => Owner = NoProc
BY DEF Owner, MutualExclusion

LEMMA OwnerThen ==
  ASSUME MutualExclusion'
  PROVE  /\ \A p \in Proc : Holds(p)' => Owner' = p
         /\ (\A p \in Proc : ~Holds(p)') => Owner' = NoProc
BY DEF Owner, MutualExclusion

LEMMA SameOwner ==
  ASSUME MutualExclusion, MutualExclusion', \A p \in Proc : Holds(p)' <=> Holds(p)
  PROVE  Owner' = Owner
BY OwnerNow, OwnerThen

(* A process that runs or sleeps inside the object has the monitor. *)
LEMMA Holder ==
  ASSUME IInv, NEW p \in Proc, Inside(p), p = current \/ p \in asleep
  PROVE  Holds(p) /\ p \notin ElementsOf(waiting) /\ Owner = p /\ Owner # NoProc
<1>1. Holds(p) /\ p \notin ElementsOf(waiting)
  BY DEF IInv, OnePlace, Apart, Disjoint, Holds, InWaiting, InCondition
<1> QED BY <1>1, OwnerNow, ConstAssumption DEF IInv

LEMMA StutterRefines ==
  ASSUME IInv, IInv', SignallersFirst, UNCHANGED <<waiting, cond, broken>>,
         \A q \in ElementsOf(waiting) : at'[q] = at[q],
         \A q \in Proc : Holds(q)' <=> Holds(q)
  PROVE  SignallersFirst' /\ UNCHANGED Hoare!vars
<1>1. PICK u, e : Parts(waiting, at, u, e)
  BY DEF SignallersFirst
<1>2. Parts(waiting', at', u, e)
  BY <1>1, PartsStay
<1>3. Owner' = Owner
  BY SameOwner DEF IInv
<1>4. Signallers' = Signallers /\ Entrants' = Entrants
  BY <1>1, <1>2, PartsNow, PartsThen
<1> QED BY <1>2, <1>3, <1>4, PartsThen DEF Hoare!vars, Owner, Entrants

(* The owner of a broken object is gone. *)
LEMMA AbandonRefines ==
  ASSUME IInv, IInv', SignallersFirst, broken, UNCHANGED <<waiting, cond, broken>>,
         NEW p \in Proc, Holds(p), NEW x \in {"outside", "dead"}, at' = [at EXCEPT ![p] = x]
  PROVE  SignallersFirst' /\ Hoare!Abandon
<1>1. PICK u, e : Parts(waiting, at, u, e)
  BY DEF SignallersFirst
<1>2. p \notin ElementsOf(waiting) /\ \A q \in Proc \ {p} : at'[q] = at[q]
  BY DEF Holds, InWaiting, IInv, TypeOK
<1>3. ElementsOf(waiting) \subseteq Proc
  BY ElementsType DEF IInv, TypeOK
<1>4. Parts(waiting', at', u, e)
  BY <1>1, <1>2, <1>3, PartsStay
<1>5. \A q \in Proc : ~Holds(q)'
  <2>1. ~Inside(p)'
    BY DEF IInv, TypeOK, Inside
  <2>2. \A q \in Proc \ {p} : Holds(q)' <=> Holds(q)
    BY <1>2 DEF Holds, Inside, InWaiting, InCondition
  <2>3. \A q \in Proc \ {p} : ~Holds(q)
    BY DEF IInv, MutualExclusion
  <2> QED BY <2>1, <2>2, <2>3 DEF Holds
<1>6. Owner' = NoProc
  BY <1>5, OwnerThen DEF IInv
<1>7. Signallers' = Signallers /\ Entrants' = Entrants
  <2>1. Signallers = u /\ Entrants = e
    BY <1>1, PartsNow
  <2>2. Signallers' = u /\ Entrants' = e
    BY <1>4, PartsThen
  <2> QED BY <2>1, <2>2
<1> QED BY <1>4, <1>6, <1>7, PartsThen DEF Hoare!Abandon, Owner, Entrants
-----------------------------------------------------------------------------
(* Each action is a step of the abstract monitor, or none. *)

LEMMA MonEnterRefines ==
  ASSUME IInv, IInv', SignallersFirst, NEW p \in Proc, MonEnter(p)
  PROVE  SignallersFirst' /\ Hoare!Enter(p)
<1>0. /\ current = p /\ at[p] = "outside" /\ ~broken
      /\ at' = [at EXCEPT ![p] = "entered"] /\ UNCHANGED <<cond, broken>>
  BY DEF MonEnter, Step
<1>1. PICK u, e : Parts(waiting, at, u, e)
  BY DEF SignallersFirst
<1>2. p \notin ElementsOf(waiting) /\ ElementsOf(waiting) \subseteq Proc /\ ~InCondition(p)
  BY <1>0, ElementsType DEF IInv, TypeOK, OnePlace, Apart, Disjoint, InCondition
<1>3. Parts(waiting, at', u, e) /\ at'[p] = "entered" /\ Inside(p)'
  <2>1. /\ \A q \in Proc \ {p} : at'[q] = at[q]
        /\ at'[p] = "entered"
    BY <1>0 DEF IInv, TypeOK
  <2> QED BY <1>1, <1>2, <2>1, PartsStay DEF Inside
<1>4. CASE busy = 0 /\ UNCHANGED waiting
  <2>1. Owner = NoProc
    BY <1>0, <1>4, OwnerNow DEF IInv, BusyMeansHeld
  <2>2. Owner' = p
    <3>1. Holds(p)'
      BY <1>0, <1>2, <1>3, <1>4 DEF Holds, InWaiting, InCondition
    <3> QED BY <3>1, OwnerThen DEF IInv
  <2>3. Signallers' = Signallers /\ Entrants' = Entrants /\ SignallersFirst'
    BY <1>1, <1>3, <1>4, PartsNow, PartsThen
  <2> QED BY <1>0, <2>1, <2>2, <2>3, ConstAssumption DEF Hoare!Enter, Owner, Entrants
<1>5. CASE busy = 1 /\ waiting' = Append(waiting, p)
  <2>1. Owner # NoProc /\ Owner # p
    <3>1. PICK q \in Proc : Holds(q)
      BY <1>0, <1>5 DEF IInv, BusyMeansHeld
    <3>2. q # p
      BY <1>0, <3>1 DEF Holds, Inside
    <3> QED BY <3>1, <3>2, OwnerNow, ConstAssumption DEF IInv
  <2>2. Owner' = Owner
    <3>1. ElementsOf(waiting') = ElementsOf(waiting) \cup {p}
      BY <1>5, AppendElements DEF IInv, TypeOK
    <3>2. \A q \in Proc : Holds(q)' <=> Holds(q)
      BY <1>0, <3>1 DEF IInv, TypeOK, Holds, Inside, InWaiting, InCondition
    <3> QED BY <3>2, SameOwner DEF IInv
  <2>3. Signallers' = Signallers /\ Entrants' = Append(Entrants, p) /\ SignallersFirst'
    BY <1>1, <1>3, <1>5, PartsAppend, PartsNow, PartsThen
  <2> QED BY <1>0, <2>1, <2>2, <2>3 DEF Hoare!Enter, Owner, Entrants
<1> QED BY <1>4, <1>5 DEF MonEnter

(* The monitor is left to who is at the front of the queue. *)
LEMMA PassOnRefines ==
  ASSUME IInv, IInv', SignallersFirst, \A q \in ElementsOf(waiting) : at'[q] = at[q],
         \/ waiting = <<>> /\ waiting' = <<>> /\ \A q \in Proc : ~Holds(q)'
         \/ waiting # <<>> /\ waiting' = Tail(waiting) /\ \E h \in Proc : h = Head(waiting) /\ Holds(h)'
  PROVE  SignallersFirst' /\ Hoare!PassOn
<1>1. PICK u, e : Parts(waiting, at, u, e)
  BY DEF SignallersFirst
<1>2. Parts(waiting, at', u, e) /\ Signallers = u /\ Entrants = e
  BY <1>1, PartsStay, PartsNow
<1>3. CASE waiting = <<>> /\ waiting' = <<>> /\ \A q \in Proc : ~Holds(q)'
  <2>1. u = <<>> /\ e = <<>>
    BY <1>1, <1>3, PartsEmpty
  <2>2. Signallers' = <<>> /\ Entrants' = <<>> /\ SignallersFirst'
    BY <1>3, NoParts, PartsThen
  <2>3. Owner' = NoProc
    BY <1>3, OwnerThen DEF IInv
  <2> QED BY <1>2, <2>1, <2>2, <2>3 DEF Hoare!PassOn, Owner, Entrants
<1>4. CASE waiting # <<>> /\ waiting' = Tail(waiting) /\ \E h \in Proc : h = Head(waiting) /\ Holds(h)'
  <2>2. Owner' = Head(waiting)
    BY <1>4, OwnerThen DEF IInv
  <2>3. CASE u # <<>> /\ Head(u) = Head(waiting) /\ Parts(waiting', at', Tail(u), e)
    <3>1. Signallers' = Tail(u) /\ Entrants' = e /\ SignallersFirst'
      BY <2>3, PartsThen
    <3> QED BY <1>2, <2>2, <2>3, <3>1 DEF Hoare!PassOn, Owner, Entrants
  <2>4. CASE u = <<>> /\ e # <<>> /\ Head(e) = Head(waiting) /\ Parts(waiting', at', u, Tail(e))
    <3>1. Signallers' = u /\ Entrants' = Tail(e) /\ SignallersFirst'
      BY <2>4, PartsThen
    <3> QED BY <1>2, <2>2, <2>4, <3>1 DEF Hoare!PassOn, Owner, Entrants
  <2> QED BY <1>2, <1>4, <2>3, <2>4, PartsTail
<1> QED BY <1>3, <1>4

(* The front of the queue has the monitor once the owner p is out of the way:
   it left the object, or waits in a condition. *)
LEMMA NextInLine ==
  ASSUME IInv, IInv', NEW p \in Proc, Holds(p), \A q \in Proc \ {p} : at'[q] = at[q],
         ~Inside(p)' \/ InCondition(p)',
         \A q \in Proc \ {p} : InCondition(q)' <=> InCondition(q),
         \/ waiting = <<>> /\ UNCHANGED waiting
         \/ waiting # <<>> /\ waiting' = Tail(waiting)
  PROVE  \/ waiting = <<>> /\ waiting' = <<>> /\ \A q \in Proc : ~Holds(q)'
         \/ waiting # <<>> /\ waiting' = Tail(waiting) /\ \E h \in Proc : h = Head(waiting) /\ Holds(h)'
<1>1. CASE waiting = <<>> /\ UNCHANGED waiting
  <2>1. ASSUME NEW q \in Proc, Holds(q)' PROVE FALSE
    <3>1. q # p
      BY <2>1 DEF Holds
    <3>2. Inside(q) /\ ~InCondition(q) /\ ~InWaiting(q)
      BY <1>1, <2>1, <3>1 DEF Holds, Inside, InWaiting
    <3> QED BY <3>1, <3>2 DEF IInv, MutualExclusion, Holds
  <2> QED BY <1>1, <2>1
<1>2. CASE waiting # <<>> /\ waiting' = Tail(waiting)
  <2>0. PICK h : h = Head(waiting)
    OBVIOUS
  <2>1. h \in Proc /\ h \in ElementsOf(waiting) /\ h \notin ElementsOf(waiting')
    BY <1>2, <2>0, TailElements DEF IInv, TypeOK, OnePlace, NoRepeats
  <2>2. h # p /\ Inside(h) /\ ~InCondition(h)
    BY <2>1 DEF IInv, OnePlace, Apart, Disjoint, QueuedInside, Holds, InWaiting, InCondition
  <2>3. at'[h] = at[h] /\ ~InCondition(h)'
    BY <2>1, <2>2
  <2>4. Holds(h)'
    BY <2>1, <2>2, <2>3 DEF Holds, Inside, InWaiting
  <2> QED BY <1>2, <2>0, <2>1, <2>4
<1> QED BY <1>1, <1>2

LEMMA MonExitRefines ==
  ASSUME IInv, IInv', SignallersFirst, NEW p \in Proc, MonExit(p)
  PROVE  SignallersFirst' /\ Hoare!Exit
<1>1. /\ current = p /\ Inside(p) /\ at' = [at EXCEPT ![p] = "outside"]
      /\ UNCHANGED <<cond, broken>>
      /\ \/ waiting = <<>> /\ UNCHANGED waiting
         \/ waiting # <<>> /\ waiting' = Tail(waiting)
  BY DEF MonExit
<1>2. Holds(p) /\ p \notin ElementsOf(waiting) /\ Owner = p /\ Owner # NoProc
  BY <1>1, Holder
<1>3. /\ \A q \in Proc \ {p} : at'[q] = at[q] /\ (InCondition(q)' <=> InCondition(q))
      /\ ~Inside(p)'
  BY <1>1 DEF IInv, TypeOK, Inside, InCondition
<1>4. ElementsOf(waiting) \subseteq Proc
  BY ElementsType DEF IInv, TypeOK
<1>5. \/ waiting = <<>> /\ waiting' = <<>> /\ \A q \in Proc : ~Holds(q)'
      \/ waiting # <<>> /\ waiting' = Tail(waiting) /\ \E h \in Proc : h = Head(waiting) /\ Holds(h)'
  BY <1>1, <1>2, <1>3, NextInLine
<1>6. SignallersFirst' /\ Hoare!PassOn
  BY <1>2, <1>3, <1>4, <1>5, PassOnRefines
<1> QED BY <1>1, <1>2, <1>6 DEF Hoare!Exit, Owner

LEMMA CondWaitRefines ==
  ASSUME IInv, IInv', SignallersFirst, NEW p \in Proc, NEW c \in Cond, CondWait(p, c)
  PROVE  SignallersFirst' /\ Hoare!Wait(c)
<1>1. /\ current = p /\ Inside(p) /\ at' = [at EXCEPT ![p] = "waited"]
      /\ cond' = [cond EXCEPT ![c] = Append(@, p)] /\ UNCHANGED broken
      /\ \/ waiting = <<>> /\ UNCHANGED waiting
         \/ waiting # <<>> /\ waiting' = Tail(waiting)
  BY DEF CondWait, Step
<1>2. Holds(p) /\ p \notin ElementsOf(waiting) /\ Owner = p /\ Owner # NoProc
  BY <1>1, Holder
<1>3. /\ ElementsOf(cond'[c]) = ElementsOf(cond[c]) \cup {p}
      /\ \A d \in Cond \ {c} : cond'[d] = cond[d]
  <2>1. cond[c] \in Seq(Proc) /\ cond'[c] = Append(cond[c], p) /\ \A d \in Cond \ {c} : cond'[d] = cond[d]
    BY <1>1 DEF IInv, TypeOK
  <2> QED BY <2>1, AppendElements
<1>4. /\ \A q \in Proc \ {p} : at'[q] = at[q]
      /\ \A q \in Proc \ {p} : InCondition(q)' <=> InCondition(q)
      /\ InCondition(p)'
  <2>1. \A q \in Proc \ {p} : at'[q] = at[q]
    BY <1>1 DEF IInv, TypeOK
  <2> QED BY <1>3, <2>1 DEF InCondition
<1>5. ElementsOf(waiting) \subseteq Proc
  BY ElementsType DEF IInv, TypeOK
<1>6. \/ waiting = <<>> /\ waiting' = <<>> /\ \A q \in Proc : ~Holds(q)'
      \/ waiting # <<>> /\ waiting' = Tail(waiting) /\ \E h \in Proc : h = Head(waiting) /\ Holds(h)'
  BY <1>1, <1>2, <1>4, NextInLine
<1>7. SignallersFirst' /\ Hoare!PassOn
  BY <1>2, <1>4, <1>5, <1>6, PassOnRefines
<1>8. Owner # NoProc /\ cond' = [cond EXCEPT ![c] = Append(@, Owner)]
  BY <1>1, <1>2
<1> QED BY <1>1, <1>7, <1>8 DEF Hoare!Wait, Owner

(* Who is signalled in a condition has the monitor. *)
LEMMA WakeFirstRefines ==
  ASSUME IInv, IInv', NEW p \in Proc, NEW c \in Cond, current = p, Inside(p), cond[c] # <<>>,
         cond' = [cond EXCEPT ![c] = Tail(@)],
         \A q \in Proc \ {p} : at'[q] = at[q],
         \A q \in Proc \ {p} : q \in ElementsOf(waiting') => q \in ElementsOf(waiting)
  PROVE  /\ Hoare!WakeFirst(c)
         /\ Owner = p /\ Owner # NoProc
<1>1. Owner = p /\ Owner # NoProc
  BY Holder
<1>0. PICK h : h = Head(cond[c])
  OBVIOUS
<1>2. /\ h \in Proc /\ h \in ElementsOf(cond[c]) /\ h \notin ElementsOf(cond'[c])
      /\ \A d \in Cond \ {c} : cond'[d] = cond[d]
  <2>1. /\ cond[c] \in Seq(Proc) /\ cond'[c] = Tail(cond[c]) /\ Injective(cond[c])
        /\ \A d \in Cond \ {c} : cond'[d] = cond[d]
    BY DEF IInv, TypeOK, OnePlace, NoRepeats
  <2> QED BY <1>0, <2>1, TailElements
<1>3. h # p /\ h \notin ElementsOf(waiting) /\ Inside(h)
      /\ \A d \in Cond \ {c} : h \notin ElementsOf(cond[d])
  BY <1>2 DEF IInv, OnePlace, Apart, Disjoint, QueuedInside, InCondition
<1>4. Holds(h)'
  <2>1. Inside(h)' /\ h \notin ElementsOf(waiting')
    BY <1>2, <1>3 DEF Inside
  <2>2. \A d \in Cond : h \notin ElementsOf(cond'[d])
    BY <1>2, <1>3
  <2> QED BY <2>1, <2>2 DEF Holds, InWaiting, InCondition
<1>5. Owner' = h
  BY <1>2, <1>4, OwnerThen DEF IInv
<1>6. Owner' = Head(cond[c])
  BY <1>0, <1>5
<1> QED BY <1>1, <1>6 DEF Hoare!WakeFirst, Owner

LEMMA CondSignalRefines ==
  ASSUME IInv, IInv', SignallersFirst, NEW p \in Proc, NEW c \in Cond, CondSignal(p, c)
  PROVE  SignallersFirst' /\ (Hoare!Signal(c) \/ UNCHANGED Hoare!vars)
<1>0. current = p /\ Inside(p) /\ UNCHANGED broken
  BY DEF CondSignal, Step
<1>1. p \notin ElementsOf(waiting) /\ ElementsOf(waiting) \subseteq Proc
  BY <1>0, Holder, ElementsType DEF IInv, TypeOK
<1>2. CASE /\ cond[c] # <<>> /\ at' = [at EXCEPT ![p] = "signalled"]
           /\ waiting' = <<p>> \o waiting /\ cond' = [cond EXCEPT ![c] = Tail(@)]
  <2>1. PICK u, e : Parts(waiting, at, u, e)
    BY DEF SignallersFirst
  <2>2. at'[p] = "signalled" /\ \A q \in Proc \ {p} : at'[q] = at[q]
    BY <1>2 DEF IInv, TypeOK
  <2>3. Parts(waiting', at', <<p>> \o u, e)
    <3>1. Parts(waiting, at', u, e)
      BY <1>1, <2>1, <2>2, PartsStay
    <3> QED BY <1>2, <2>2, <3>1, PartsPush
  <2>4. ElementsOf(waiting') = ElementsOf(waiting) \cup {p}
    BY <1>2, PushElements DEF IInv, TypeOK
  <2>5. Hoare!WakeFirst(c) /\ Owner = p
    <3>1. \A q \in Proc \ {p} : q \in ElementsOf(waiting') => q \in ElementsOf(waiting)
      BY <2>4
    <3> QED BY <1>0, <1>2, <2>2, <3>1, WakeFirstRefines
  <2>6. Signallers' = <<Owner>> \o Signallers /\ Entrants' = Entrants /\ SignallersFirst'
    <3>1. Signallers = u /\ Entrants = e
      BY <2>1, PartsNow
    <3>2. Signallers' = <<p>> \o u /\ Entrants' = e /\ SignallersFirst'
      BY <2>3, PartsThen
    <3> QED BY <2>5, <3>1, <3>2
  <2> QED BY <1>0, <2>5, <2>6 DEF Hoare!Signal, Owner, Entrants
<1>3. CASE UNCHANGED <<at, waiting, cond>>
  BY <1>0, <1>3, StutterRefines DEF Holds, Inside, InWaiting, InCondition
<1>4. at = [at EXCEPT ![p] = at[p]]
  BY DEF IInv, TypeOK
<1> QED BY <1>2, <1>3, <1>4 DEF CondSignal, Step

LEMMA CondSignalAndExitRefines ==
  ASSUME IInv, IInv', SignallersFirst, NEW p \in Proc, NEW c \in Cond, CondSignalAndExit(p, c)
  PROVE  SignallersFirst' /\ (Hoare!SignalAndExit(c) \/ UNCHANGED Hoare!vars)
<1>0. current = p /\ Inside(p) /\ UNCHANGED <<waiting, broken>>
  BY DEF CondSignalAndExit, Step
<1>1. p \notin ElementsOf(waiting) /\ ElementsOf(waiting) \subseteq Proc
  BY <1>0, Holder, ElementsType DEF IInv, TypeOK
<1>2. CASE /\ cond[c] # <<>> /\ at' = [at EXCEPT ![p] = "outside"]
           /\ cond' = [cond EXCEPT ![c] = Tail(@)]
  <2>1. PICK u, e : Parts(waiting, at, u, e)
    BY DEF SignallersFirst
  <2>2. \A q \in Proc \ {p} : at'[q] = at[q]
    BY <1>2 DEF IInv, TypeOK
  <2>3. Parts(waiting', at', u, e)
    BY <1>0, <1>1, <2>1, <2>2, PartsStay
  <2>4. Hoare!WakeFirst(c)
    BY <1>0, <1>2, <2>2, WakeFirstRefines
  <2>5. Signallers' = Signallers /\ Entrants' = Entrants /\ SignallersFirst'
    BY <2>1, <2>3, PartsNow, PartsThen
  <2> QED BY <1>0, <2>4, <2>5 DEF Hoare!SignalAndExit, Entrants
<1>3. CASE UNCHANGED <<at, cond>>
  BY <1>0, <1>3, StutterRefines DEF Holds, Inside, InWaiting, InCondition
<1>4. at = [at EXCEPT ![p] = at[p]]
  BY DEF IInv, TypeOK
<1> QED BY <1>2, <1>3, <1>4 DEF CondSignalAndExit, Step

(* breakMonitoredObject of a live object *)
LEMMA BreakRefines ==
  ASSUME IInv, IInv', NEW points, ~broken, BreakMonitoredObject(points), UNCHANGED cond,
         \/ \A q \in Proc : Holds(q)' <=> Holds(q)
         \/ \A q \in Proc : ~Holds(q)'
  PROVE  SignallersFirst' /\ Hoare!Die
<1>1. broken' = TRUE /\ waiting' = <<>>
  BY DEF BreakMonitoredObject
<1>2. Signallers' = <<>> /\ Entrants' = <<>> /\ SignallersFirst'
  BY <1>1, NoParts, PartsThen
<1>3. Owner' = Owner \/ Owner' = NoProc
  BY SameOwner, OwnerThen DEF IInv
<1> QED BY <1>1, <1>2, <1>3 DEF Hoare!Die, Owner, Entrants

(* After it, those who were not in the entry queue are where they were. *)
LEMMA BreakPoints ==
  ASSUME IInv, NEW points, ~broken, BreakMonitoredObject(points)
  PROVE  \A q \in Proc : IF q \in ElementsOf(waiting) THEN at'[q] \in {"outside", "dead"}
                         ELSE at'[q] = points[q]
<1>1. PICK saved \in Subsequences(waiting) :
        at' = [q \in Proc |-> IF q \in ElementsOf(saved) THEN "outside"
                              ELSE IF q \in ElementsOf(waiting) THEN "dead"
                              ELSE points[q]]
  BY DEF BreakMonitoredObject
<1>2. ElementsOf(saved) \subseteq ElementsOf(waiting)
  BY SubsequenceElements DEF IInv, TypeOK
<1> QED BY <1>1, <1>2

LEMMA FailRefines ==
  ASSUME IInv, IInv', SignallersFirst, NEW p \in Proc, Fail(p)
  PROVE  SignallersFirst' /\ (Hoare!Die \/ Hoare!Abandon)
<1>1. PICK x \in {"outside", "dead"} : BreakMonitoredObject([at EXCEPT ![p] = x])
  BY DEF Fail
<1>2. current = p /\ Inside(p) /\ UNCHANGED cond
  BY DEF Fail
<1>3. Holds(p)
  BY <1>2, Holder
<1>4. CASE broken
  BY <1>1, <1>2, <1>3, <1>4, AbandonRefines DEF BreakMonitoredObject
<1>5. CASE ~broken
  <2>1. \A q \in Proc : ~Holds(q)'
    <3>1. ASSUME NEW q \in Proc, Holds(q)' PROVE FALSE
      <4>1. Inside(q)' /\ ~InCondition(q)
        BY <1>2, <3>1 DEF Holds, InCondition
      <4>2. q \notin ElementsOf(waiting) /\ at'[q] = [at EXCEPT ![p] = x][q]
        BY <1>1, <1>5, <4>1, BreakPoints DEF Inside
      <4>3. q # p /\ Inside(q)
        BY <4>1, <4>2 DEF Inside, IInv, TypeOK
      <4> QED BY <1>3, <4>1, <4>2, <4>3 DEF IInv, MutualExclusion, Holds, InWaiting
    <3> QED BY <3>1
  <2> QED BY <1>1, <1>2, <1>5, <2>1, BreakRefines
<1> QED BY <1>4, <1>5

LEMMA BreakMeRefines ==
  ASSUME IInv, IInv', NEW p \in Proc, BreakMe(p)
  PROVE  SignallersFirst' /\ Hoare!Die
<1>1. ~broken /\ BreakMonitoredObject(at) /\ UNCHANGED cond
  BY DEF BreakMe
<1>2. waiting' = <<>>
  BY <1>1 DEF BreakMonitoredObject
<1>3. \A q \in Proc : Holds(q)' <=> Holds(q)
  BY <1>1, <1>2, BreakPoints, EmptyElements DEF Holds, Inside, InWaiting, InCondition
<1> QED BY <1>1, <1>3, BreakRefines

(* The scheduler's actions, and what processes do elsewhere *)
LEMMA QuietRefines ==
  ASSUME IInv, IInv', SignallersFirst,
         \/ Dispatch \/ UNCHANGED vars
         \/ \E p \in Proc : Block(p) \/ Wake(p) \/ Quit(p) \/ InvokeBroken(p)
  PROVE  SignallersFirst' /\ UNCHANGED Hoare!vars
<1>1. CASE UNCHANGED <<waiting, cond, broken, at>>
  BY <1>1, StutterRefines DEF Holds, Inside, InWaiting, InCondition
<1>2. ASSUME NEW p \in Proc, Block(p) PROVE UNCHANGED <<waiting, cond, broken, at>>
  BY <1>2 DEF Block, Step, IInv, TypeOK
<1>3. ASSUME NEW p \in Proc, current = p, at[p] = "outside", NEW x \in {"outside", "dead"},
             at' = [at EXCEPT ![p] = x], UNCHANGED <<waiting, cond, broken>>
      PROVE  SignallersFirst' /\ UNCHANGED Hoare!vars
  <2>1. p \notin ElementsOf(waiting) /\ ElementsOf(waiting) \subseteq Proc
    BY <1>3, ElementsType DEF IInv, TypeOK, OnePlace, Apart, Disjoint
  <2>2. at'[p] = x /\ \A q \in Proc \ {p} : at'[q] = at[q]
    BY <1>3 DEF IInv, TypeOK
  <2>3. \A q \in Proc : Holds(q)' <=> Holds(q)
    BY <1>3, <2>2 DEF Holds, Inside, InWaiting, InCondition
  <2> QED BY <1>3, <2>1, <2>2, <2>3, StutterRefines
<1>4. ASSUME NEW p \in Proc, Quit(p) PROVE SignallersFirst' /\ UNCHANGED Hoare!vars
  BY <1>3, <1>4 DEF Quit
<1>5. ASSUME NEW p \in Proc, InvokeBroken(p) PROVE SignallersFirst' /\ UNCHANGED Hoare!vars
  <2>1. current = p /\ at[p] = "outside" /\ UNCHANGED <<waiting, cond, broken>>
    BY <1>5 DEF InvokeBroken, Step
  <2>2. at' = [at EXCEPT ![p] = "outside"] \/ at' = [at EXCEPT ![p] = "dead"]
    BY <1>5 DEF InvokeBroken, Step
  <2> QED BY <1>3, <2>1, <2>2
<1>6. ASSUME NEW p \in Proc, Wake(p) PROVE UNCHANGED <<waiting, cond, broken, at>>
  BY <1>6 DEF Wake
<1> QED BY <1>1, <1>2, <1>4, <1>5, <1>6 DEF Dispatch, vars

LEMMA ReturnRefines ==
  ASSUME IInv, IInv', SignallersFirst, NEW p \in Proc, ReturnToBrokenObject(p)
  PROVE  SignallersFirst' /\ Hoare!Abandon
<1>1. p \in asleep /\ Inside(p) /\ broken /\ UNCHANGED <<waiting, cond, broken>>
  BY DEF ReturnToBrokenObject
<1>2. PICK x \in {"outside", "dead"} : at' = [at EXCEPT ![p] = x]
  BY DEF ReturnToBrokenObject
<1> QED BY <1>1, <1>2, Holder, AbandonRefines

LEMMA StepRefines ==
  ASSUME IInv, IInv', SignallersFirst, [Next]_vars
  PROVE  SignallersFirst' /\ [Hoare!Next]_(Hoare!vars)
<1>1. CASE \/ Dispatch \/ UNCHANGED vars
           \/ \E p \in Proc : Block(p) \/ Wake(p) \/ Quit(p) \/ InvokeBroken(p)
  BY <1>1, QuietRefines
<1>2. ASSUME NEW p \in Proc, \/ ReturnToBrokenObject(p) \/ MonEnter(p) \/ MonExit(p)
                             \/ Fail(p) \/ BreakMe(p)
      PROVE  SignallersFirst' /\ Hoare!Next
  BY <1>2, ReturnRefines, MonEnterRefines, MonExitRefines, FailRefines, BreakMeRefines DEF Hoare!Next
<1>3. ASSUME NEW p \in Proc, NEW c \in Cond,
             CondWait(p, c) \/ CondSignal(p, c) \/ CondSignalAndExit(p, c)
      PROVE  SignallersFirst' /\ [Hoare!Next]_(Hoare!vars)
  BY <1>3, CondWaitRefines, CondSignalRefines, CondSignalAndExitRefines DEF Hoare!Next
<1> QED BY <1>1, <1>2, <1>3 DEF Next

(* The interpreter's switches, the one entry queue and the break of an object
   implement a Hoare monitor: the signalled runs at once, its signaller next,
   then who came first; a broken object lets nobody in. *)
THEOREM Implementation == Spec => RefinesHoareMonitor
<1>1. Init => Hoare!Init /\ SignallersFirst
  <2> SUFFICES ASSUME Init PROVE Hoare!Init /\ SignallersFirst
    OBVIOUS
  <2>1. Parts(waiting, at, <<>>, <<>>)
    BY NoParts DEF Init
  <2>2. Signallers = <<>> /\ Entrants = <<>> /\ SignallersFirst
    BY <2>1, PartsNow DEF SignallersFirst
  <2>3. Owner = NoProc
    <3>1. \A p \in Proc : ~Holds(p)
      BY DEF Init, Holds, Inside
    <3> QED BY <3>1 DEF Owner
  <2> QED BY <2>2, <2>3 DEF Init, Hoare!Init, Owner, Entrants
<1>2. IInv /\ IInv' /\ SignallersFirst /\ [Next]_vars => SignallersFirst' /\ [Hoare!Next]_(Hoare!vars)
  BY StepRefines
<1> QED BY <1>1, <1>2, Invariance, PTL DEF Spec, Hoare!Spec, RefinesHoareMonitor
=============================================================================
