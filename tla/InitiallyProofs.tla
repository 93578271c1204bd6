-------------------------- MODULE InitiallyProofs ---------------------------
(***************************************************************************)
(* Type correctness of Initially and its safety invariants, for any        *)
(* processes, ways the object comes to be, and length of run.              *)
(***************************************************************************)
EXTENDS Initially, TLAPS

(* The stacks of frames *)

Prefix(t, s) ==
  /\ t \in Seq({"op", "initially"}) /\ Len(t) <= Len(s)
  /\ \A i \in 1..Len(t) : t[i] = s[i]

LEMMA CutIsPrefix ==
  ASSUME NEW s \in Seq({"op", "initially"}), NEW k \in 0..Len(s)
  PROVE  Prefix(SubSeq(s, 1, k), s) /\ Len(SubSeq(s, 1, k)) = k
BY DEF Prefix

(* Before the initially is begun nobody has a frame or waits, and the object is
   frozen for it, or is yet to be created. *)
NotBegun ==
  runs = 0 => /\ \A p \in Proc : stack[p] = <<>>
              /\ fixq = NoQueue
              /\ known => frozen = {"RInitially"}
              /\ ~known => frozen = {}

(* As long as the initially was begun once, it has one frame at most, and the
   object is frozen while it has that. *)
OneFrame ==
  runs = 1 =>
    /\ \A p, q \in Proc : \A i \in 1..Len(stack[p]), j \in 1..Len(stack[q]) :
         stack[p][i] = "initially" /\ stack[q][j] = "initially" => p = q /\ i = j
    /\ \A p \in Proc : Initialising(p) => "RInitially" \in frozen

IInv == TypeOK /\ OnePlace /\ NotBegun /\ OneFrame /\ InitialisedFirst

LEMMA NoProcNowhere ==
  ASSUME ConstantsOK, TypeOK
  PROVE  /\ NoProc \notin ElementsOf(ready) \cup Queued \cup asleep \cup dead
         /\ fixq # NoQueue => fixq \in Seq(Proc)
BY ElementsType DEF ConstantsOK, TypeOK, Queued

LEMMA Burnt ==
  ASSUME TypeOK, NEW p \in Proc, Burn(p)
  PROVE  fuel' \in [Proc -> Nat]
<1>1. fuel \in [Proc -> Nat] /\ fuel[p] > 0 /\ fuel' = [fuel EXCEPT ![p] = @ - 1]
  BY DEF TypeOK, Burn
<1> QED BY <1>1

(* The running process goes on, or it ends. *)
LEMMA EndsOrGoesOn ==
  ASSUME ConstantsOK, TypeOK, OnePlace, NEW p \in Proc, current = p,
         UNCHANGED <<ready, fixq, asleep>>,
         \/ UNCHANGED <<current, dead>>
         \/ current' = NoProc /\ dead' = dead \cup {p}
  PROVE  /\ OnePlace'
         /\ current' \in Proc \cup {NoProc} /\ dead' \subseteq Proc
BY NoProcNowhere DEF OnePlace, TypeOK, Disjoint, Queued, ConstantsOK

LEMMA FramesStay ==
  ASSUME IInv, UNCHANGED <<frozen, fixq, stack, runs, known>>
  PROVE  NotBegun' /\ OneFrame' /\ InitialisedFirst'
BY DEF IInv, NotBegun, OneFrame, InitialisedFirst, Initialising, Queued

(* A process that leaves frames behind begins nothing. *)
LEMMA FramesGone ==
  ASSUME IInv, NEW p \in Proc, NEW t, Prefix(t, stack[p]),
         stack' = [stack EXCEPT ![p] = t],
         UNCHANGED runs
  PROVE  /\ stack' \in [Proc -> Seq({"op", "initially"})]
         /\ \A q \in Proc : Prefix(stack'[q], stack[q])
         /\ \A q \in Proc : ElementsOf(stack'[q]) \subseteq ElementsOf(stack[q])
         /\ UNCHANGED fixq => InitialisedFirst'
<1>1. stack \in [Proc -> Seq({"op", "initially"})] /\ t \in Seq({"op", "initially"})
  BY DEF IInv, TypeOK, Prefix
<1>2. stack' \in [Proc -> Seq({"op", "initially"})]
  BY <1>1
<1>3. ASSUME NEW q \in Proc PROVE Prefix(stack'[q], stack[q])
  <2>1. CASE q = p
    BY <1>1, <2>1
  <2>2. CASE q # p
    <3>1. stack'[q] = stack[q] /\ stack[q] \in Seq({"op", "initially"})
      BY <1>1, <2>2
    <3>2. Len(stack[q]) \in Nat
      BY <3>1
    <3> QED BY <3>1, <3>2 DEF Prefix
  <2> QED BY <2>1, <2>2
<1>4. ASSUME NEW q \in Proc PROVE ElementsOf(stack'[q]) \subseteq ElementsOf(stack[q])
  <2>1. Prefix(stack'[q], stack[q]) /\ Len(stack[q]) \in Nat /\ Len(stack'[q]) \in Nat
    BY <1>1, <1>2, <1>3
  <2> QED BY <2>1 DEF Prefix, ElementsOf
<1>5. ASSUME UNCHANGED fixq PROVE InitialisedFirst'
  BY <1>4, <1>5 DEF IInv, InitialisedFirst, Initialising, Queued
<1> QED BY <1>2, <1>3, <1>4, <1>5

LEMMA OneFrameLeft ==
  ASSUME IInv, \A q \in Proc : Prefix(stack'[q], stack[q]),
         UNCHANGED runs,
         \A q \in Proc : Initialising(q)' /\ runs = 1 => "RInitially" \in frozen'
  PROVE  OneFrame'
<1> SUFFICES ASSUME runs = 1,
                    NEW q \in Proc, NEW r \in Proc,
                    NEW i \in 1..Len(stack'[q]), NEW j \in 1..Len(stack'[r]),
                    stack'[q][i] = "initially", stack'[r][j] = "initially"
             PROVE  q = r /\ i = j
  BY DEF OneFrame
<1>1. /\ i \in 1..Len(stack[q]) /\ stack[q][i] = "initially"
      /\ j \in 1..Len(stack[r]) /\ stack[r][j] = "initially"
  <2>1. /\ Len(stack[q]) \in Nat /\ Len(stack'[q]) \in Nat
        /\ Len(stack[r]) \in Nat /\ Len(stack'[r]) \in Nat
    BY DEF IInv, TypeOK, Prefix
  <2> QED BY <2>1 DEF Prefix
<1> QED BY <1>1 DEF IInv, OneFrame

LEMMA NotBegunLeft ==
  ASSUME IInv, NEW p \in Proc, stack[p] # <<>>, UNCHANGED runs
  PROVE  NotBegun'
BY DEF IInv, NotBegun
-----------------------------------------------------------------------------
LEMMA DispatchKeeps ==
  ASSUME ConstantsOK, IInv, Dispatch
  PROVE  IInv'
<1>1. /\ Head(ready) \in Proc /\ Tail(ready) \in Seq(Proc)
      /\ ElementsOf(ready) = ElementsOf(Tail(ready)) \cup {Head(ready)}
      /\ Injective(ready) => /\ Injective(Tail(ready))
                             /\ Head(ready) \notin ElementsOf(Tail(ready))
  BY TailElements DEF IInv, TypeOK, Dispatch
<1>2. TypeOK'
  BY <1>1 DEF IInv, TypeOK, Dispatch
<1>3. OnePlace'
  <2>1. /\ current = NoProc /\ current' = Head(ready) /\ ready' = Tail(ready)
        /\ UNCHANGED <<fixq, asleep, dead>>
    BY DEF Dispatch
  <2> QED BY <1>1, <2>1 DEF IInv, ConstantsOK, OnePlace, Disjoint, Queued
<1>4. NotBegun' /\ OneFrame' /\ InitialisedFirst'
  BY FramesStay DEF Dispatch
<1> QED BY <1>2, <1>3, <1>4 DEF IInv

LEMMA BlockKeeps ==
  ASSUME ConstantsOK, IInv, NEW p \in Proc, Block(p)
  PROVE  IInv'
<1>1. TypeOK'
  BY Burnt DEF IInv, TypeOK, Block
<1>2. OnePlace'
  BY NoProcNowhere DEF IInv, Block, ConstantsOK, OnePlace, Disjoint, Queued
<1>3. NotBegun' /\ OneFrame' /\ InitialisedFirst'
  BY FramesStay DEF Block
<1> QED BY <1>1, <1>2, <1>3 DEF IInv

LEMMA WakeKeeps ==
  ASSUME IInv, NEW p \in Proc, Wake(p)
  PROVE  IInv'
<1>1. /\ Append(ready, p) \in Seq(Proc)
      /\ ElementsOf(Append(ready, p)) = ElementsOf(ready) \cup {p}
      /\ Injective(ready) /\ p \notin ElementsOf(ready) => Injective(Append(ready, p))
  BY AppendElements DEF IInv, TypeOK
<1>2. TypeOK'
  BY <1>1 DEF IInv, TypeOK, Wake
<1>3. OnePlace'
  BY <1>1 DEF IInv, Wake, OnePlace, Disjoint, Queued
<1>4. NotBegun' /\ OneFrame' /\ InitialisedFirst'
  BY FramesStay DEF Wake
<1> QED BY <1>2, <1>3, <1>4 DEF IInv

LEMMA QuitProcessKeeps ==
  ASSUME ConstantsOK, IInv, NEW p \in Proc, QuitProcess(p)
  PROVE  IInv'
<1>1. OnePlace' /\ TypeOK'
  BY EndsOrGoesOn DEF IInv, TypeOK, QuitProcess
<1>2. NotBegun' /\ OneFrame' /\ InitialisedFirst'
  BY FramesStay DEF QuitProcess
<1> QED BY <1>1, <1>2 DEF IInv

LEMMA CreateKeeps ==
  ASSUME ConstantsOK, IInv, NEW p \in Proc, Create(p)
  PROVE  IInv'
<1>1. /\ current = p /\ runs = 0 /\ runs' = 1 /\ frozen' = {"RInitially"}
      /\ stack' = [stack EXCEPT ![p] = <<"initially">>]
      /\ \A q \in Proc : stack[q] = <<>>
      /\ UNCHANGED <<fixq, ready, current, asleep, dead, known, fuel>>
  BY DEF Create, IInv, NotBegun
<1>2. <<"initially">> \in Seq({"op", "initially"})
  OBVIOUS
<1>3. TypeOK'
  BY <1>1, <1>2 DEF IInv, TypeOK
<1>4. OnePlace'
  BY <1>1 DEF IInv, OnePlace, Queued
<1>5. \A q \in Proc : stack'[q] = IF q = p THEN <<"initially">> ELSE <<>>
  BY <1>1 DEF IInv, TypeOK
<1>6. NotBegun' /\ OneFrame'
  BY <1>1, <1>5 DEF NotBegun, OneFrame
<1>7. \A q \in Proc : Initialising(q)' => q = p
  BY <1>5, EmptyElements DEF Initialising
<1>8. InitialisedFirst'
  BY <1>5, <1>7, EmptyElements DEF InitialisedFirst
<1> QED BY <1>3, <1>4, <1>6, <1>8 DEF IInv

LEMMA PublishKeeps ==
  ASSUME IInv, NEW p \in Proc, Publish(p)
  PROVE  IInv'
<1>1. stack[p] # <<>> /\ UNCHANGED runs
  BY DEF Publish, Top
<1>2. NotBegun'
  BY <1>1, NotBegunLeft
<1>3. TypeOK' /\ OnePlace' /\ OneFrame' /\ InitialisedFirst'
  BY DEF Publish, IInv, TypeOK, OnePlace, OneFrame, InitialisedFirst, Initialising, Queued
<1> QED BY <1>2, <1>3 DEF IInv

(* The stack of a process that begins an operation *)
LEMMA OperationBegun ==
  ASSUME IInv, NEW p \in Proc, stack' = [stack EXCEPT ![p] = Append(@, "op")]
  PROVE  /\ stack' \in [Proc -> Seq({"op", "initially"})]
         /\ \A q \in Proc : q # p => stack'[q] = stack[q]
         /\ \A q \in Proc : Initialising(q)' => Initialising(q)
         /\ \A q \in Proc : \A i \in 1..Len(stack'[q]) :
              stack'[q][i] = "initially" =>
                i \in 1..Len(stack[q]) /\ stack[q][i] = "initially"
<1>1. /\ stack \in [Proc -> Seq({"op", "initially"})] /\ stack[p] \in Seq({"op", "initially"})
      /\ "op" \in {"op", "initially"}
  BY DEF IInv, TypeOK
<1>2. /\ Append(stack[p], "op") \in Seq({"op", "initially"})
      /\ Len(stack[p]) \in Nat /\ Len(Append(stack[p], "op")) = Len(stack[p]) + 1
      /\ \A i \in 1..Len(stack[p]) : Append(stack[p], "op")[i] = stack[p][i]
      /\ Append(stack[p], "op")[Len(stack[p]) + 1] = "op"
  BY <1>1
<1>3. /\ stack' \in [Proc -> Seq({"op", "initially"})]
      /\ stack'[p] = Append(stack[p], "op")
      /\ \A q \in Proc : q # p => stack'[q] = stack[q]
  BY <1>1, <1>2
<1>4. \A q \in Proc : \A i \in 1..Len(stack'[q]) :
        stack'[q][i] = "initially" => i \in 1..Len(stack[q]) /\ stack[q][i] = "initially"
  BY <1>2, <1>3
<1>5. \A q \in Proc : Initialising(q)' => Initialising(q)
  BY <1>4 DEF Initialising, ElementsOf
<1> QED BY <1>3, <1>4, <1>5

LEMMA OperationKeepsOneFrame ==
  ASSUME IInv, NEW p \in Proc, stack' = [stack EXCEPT ![p] = Append(@, "op")],
         UNCHANGED <<frozen, runs>>
  PROVE  OneFrame'
<1>1. /\ \A q \in Proc : Initialising(q)' => Initialising(q)
      /\ \A q \in Proc : \A i \in 1..Len(stack'[q]) :
           stack'[q][i] = "initially" =>
             i \in 1..Len(stack[q]) /\ stack[q][i] = "initially"
  BY OperationBegun
<1>2. frozen' = frozen /\ runs' = runs
  OBVIOUS
<1>3. OneFrame
  BY DEF IInv
<1> QED BY <1>1, <1>2, <1>3 DEF OneFrame

LEMMA BegunBefore ==
  ASSUME IInv, NEW p \in Proc, known \/ Initialising(p), frozen # {"RInitially"}
  PROVE  runs # 0
BY EmptyElements DEF IInv, NotBegun, Initialising

LEMMA BrokenInvokeKeeps ==
  ASSUME ConstantsOK, IInv, NEW p \in Proc, NEW direct \in BOOLEAN, Invoke(p, direct),
         "RDead" \in frozen
  PROVE  IInv'
<1>1. PICK k \in 0..Len(stack[p]) :
        /\ Unwound(p, k) /\ current = p /\ Burn(p)
        /\ UNCHANGED <<fixq, runs, frozen, ready, asleep, known>>
  BY DEF Invoke
<1>2. stack[p] \in Seq({"op", "initially"})
  BY DEF IInv, TypeOK
<1>3. /\ Prefix(SubSeq(stack[p], 1, k), stack[p])
      /\ stack' = [stack EXCEPT ![p] = SubSeq(stack[p], 1, k)]
  BY <1>1, <1>2, CutIsPrefix DEF Unwound
<1>4. /\ stack' \in [Proc -> Seq({"op", "initially"})]
      /\ \A q \in Proc : Prefix(stack'[q], stack[q])
      /\ \A q \in Proc : ElementsOf(stack'[q]) \subseteq ElementsOf(stack[q])
      /\ InitialisedFirst'
  BY <1>1, <1>3, FramesGone
<1>5. OnePlace' /\ current' \in Proc \cup {NoProc} /\ dead' \subseteq Proc
  BY <1>1, EndsOrGoesOn DEF IInv, Unwound
<1>6. TypeOK'
  BY <1>1, <1>4, <1>5, Burnt DEF IInv, TypeOK
<1>7. OneFrame'
  BY <1>1, <1>4, OneFrameLeft DEF IInv, OneFrame, Initialising
<1>8. runs # 0 /\ runs' = runs
  BY <1>1, BegunBefore DEF Invoke
<1>9. NotBegun'
  BY <1>8 DEF NotBegun
<1> QED BY <1>4, <1>5, <1>6, <1>7, <1>9 DEF IInv

LEMMA OpenInvokeKeeps ==
  ASSUME ConstantsOK, IInv, NEW p \in Proc, NEW direct \in BOOLEAN, Invoke(p, direct),
         "RDead" \notin frozen,
         frozen = {} \/ (frozen = {"RInitially"} /\ direct),
         stack' = [stack EXCEPT ![p] = Append(@, "op")],
         UNCHANGED <<fixq, current, dead, runs>>
  PROVE  IInv'
<1>1. /\ current = p /\ Burn(p) /\ UNCHANGED <<frozen, ready, asleep, known>>
      /\ direct => stack[p] # <<>>
      /\ known \/ Initialising(p)
  BY DEF Invoke
<1>2. /\ stack' \in [Proc -> Seq({"op", "initially"})]
      /\ \A q \in Proc : q # p => stack'[q] = stack[q]
      /\ \A q \in Proc : Initialising(q)' => Initialising(q)
  BY OperationBegun
<1>3. TypeOK' /\ OnePlace'
  BY <1>1, <1>2, Burnt DEF IInv, TypeOK, OnePlace, Queued
<1>4. runs # 0 /\ NotBegun'
  BY <1>1, BegunBefore DEF IInv, NotBegun
<1>5. OneFrame'
  BY <1>1, OperationKeepsOneFrame
<1>6. ASSUME NEW q \in Proc, NEW r \in Proc, q # r, Initialising(r)', runs' = 1,
             "op" \in ElementsOf(stack'[q])
      PROVE  q \in Queued'
  <2>1. Initialising(r) /\ runs = 1 /\ "RInitially" \in frozen
    BY <1>2, <1>6 DEF IInv, OneFrame
  <2>2. CASE q # p
    BY <1>2, <1>6, <2>1, <2>2 DEF IInv, InitialisedFirst, Queued
  <2>3. CASE q = p
    <3>1. stack[p] \in Seq({"op", "initially"}) /\ stack[p] # <<>>
      BY <1>1, <2>1 DEF IInv, TypeOK
    <3>2. Len(stack[p]) \in Nat \ {0} /\ stack[p][1] \in {"op", "initially"}
      BY <3>1
    <3>3. \/ "op" \in ElementsOf(stack[p])
          \/ Initialising(p)
      BY <3>2 DEF ElementsOf, Initialising
    <3>4. ~Initialising(p)
      BY <1>6, <2>1, <2>3 DEF IInv, OneFrame, Initialising, ElementsOf
    <3>5. p \in Queued
      BY <1>6, <2>1, <2>3, <3>3, <3>4 DEF IInv, InitialisedFirst
    <3> QED BY <1>1, <3>5 DEF IInv, OnePlace, Disjoint
  <2> QED BY <2>2, <2>3
<1>7. InitialisedFirst'
  BY <1>6 DEF InitialisedFirst
<1> QED BY <1>3, <1>4, <1>5, <1>7 DEF IInv

LEMMA FirstInvokeKeeps ==
  ASSUME ConstantsOK, IInv, NEW p \in Proc, NEW direct \in BOOLEAN, Invoke(p, direct),
         frozen = {"RInitially"}, fixq = NoQueue, fixq' = <<>>,
         stack' = [stack EXCEPT ![p] = @ \o <<"op", "initially">>],
         runs' = runs + 1, UNCHANGED <<current, dead>>
  PROVE  IInv'
<1>1. /\ current = p /\ Burn(p) /\ UNCHANGED <<frozen, ready, asleep, known>>
      /\ known \/ Initialising(p)
  BY DEF Invoke
<1>2. /\ stack \in [Proc -> Seq({"op", "initially"})]
      /\ stack[p] \o <<"op", "initially">> \in Seq({"op", "initially"})
      /\ runs \in Nat
  BY DEF IInv, TypeOK
<1>3. TypeOK'
  <2>1. <<>> \in Seq(Proc)
    OBVIOUS
  <2> QED BY <1>1, <1>2, <2>1, Burnt DEF IInv, TypeOK
<1>4. OnePlace'
  <2>1. ElementsOf(fixq') = {} /\ Injective(fixq') /\ Queued = {} /\ Queued' = {}
    BY EmptyElements DEF Queued
  <2> QED BY <1>1, <2>1 DEF IInv, OnePlace
<1>5. NotBegun'
  BY <1>2 DEF NotBegun
<1>6. CASE runs # 0
  <2>1. runs' # 1
    BY <1>2, <1>6
  <2> QED BY <1>3, <1>4, <1>5, <2>1 DEF IInv, OneFrame, InitialisedFirst
<1>7. CASE runs = 0
  <2>1. /\ stack'[p] = <<>> \o <<"op", "initially">>
        /\ \A q \in Proc : q # p => stack'[q] = <<>>
    BY <1>2, <1>7 DEF IInv, NotBegun
  <2>2. stack'[p] = <<"op", "initially">>
    BY <2>1
  <2>3. OneFrame'
    <3>1. \A q \in Proc : \A i \in 1..Len(stack'[q]) :
            stack'[q][i] = "initially" => q = p /\ i = 2
      BY <2>1, <2>2
    <3> QED BY <1>1, <3>1 DEF OneFrame
  <2>4. \A q \in Proc : q # p => ElementsOf(stack'[q]) = {}
    BY <2>1, EmptyElements
  <2>5. InitialisedFirst'
    BY <2>4 DEF InitialisedFirst, Initialising
  <2> QED BY <1>3, <1>4, <1>5, <2>3, <2>5 DEF IInv
<1> QED BY <1>6, <1>7

LEMMA WaitingInvokeKeeps ==
  ASSUME ConstantsOK, IInv, NEW p \in Proc, NEW direct \in BOOLEAN, Invoke(p, direct),
         frozen = {"RInitially"}, fixq # NoQueue, fixq' = Append(fixq, p),
         stack' = [stack EXCEPT ![p] = Append(@, "op")],
         current' = NoProc, UNCHANGED <<dead, runs>>
  PROVE  IInv'
<1>1. /\ current = p /\ Burn(p) /\ UNCHANGED <<frozen, ready, asleep, known>>
      /\ known \/ Initialising(p)
  BY DEF Invoke
<1>2. /\ stack' \in [Proc -> Seq({"op", "initially"})]
      /\ \A q \in Proc : q # p => stack'[q] = stack[q]
      /\ \A q \in Proc : Initialising(q)' => Initialising(q)
  BY OperationBegun
<1>3. /\ fixq \in Seq(Proc) /\ fixq' \in Seq(Proc)
      /\ ElementsOf(fixq') = ElementsOf(fixq) \cup {p}
      /\ Injective(fixq) /\ p \notin ElementsOf(fixq) => Injective(fixq')
  BY AppendElements DEF IInv, TypeOK
<1>4. fixq' # NoQueue /\ Queued' = Queued \cup {p}
  BY <1>3 DEF ConstantsOK, Queued
<1>5. TypeOK'
  BY <1>1, <1>2, <1>3, Burnt DEF IInv, TypeOK
<1>6. OnePlace'
  <2>1. NoProc \notin ElementsOf(ready) \cup Queued \cup asleep \cup dead
    BY NoProcNowhere DEF IInv
  <2>2. p \notin Queued /\ Injective(fixq')
    BY <1>1, <1>3 DEF IInv, OnePlace, Disjoint, Queued
  <2> QED BY <1>1, <1>4, <2>1, <2>2 DEF IInv, OnePlace, Disjoint, ConstantsOK
<1>7. runs # 0 /\ NotBegun'
  BY DEF IInv, NotBegun
<1>8. OneFrame'
  BY <1>1, OperationKeepsOneFrame
<1>9. InitialisedFirst'
  BY <1>2, <1>4 DEF IInv, InitialisedFirst
<1> QED BY <1>5, <1>6, <1>7, <1>8, <1>9 DEF IInv

LEMMA InvokeKeeps ==
  ASSUME ConstantsOK, IInv, NEW p \in Proc, NEW direct \in BOOLEAN, Invoke(p, direct)
  PROVE  IInv'
<1>1. CASE "RDead" \in frozen
  BY <1>1, BrokenInvokeKeeps
<1>2. CASE "RDead" \notin frozen
  <2>1. \/ /\ frozen = {} \/ (frozen = {"RInitially"} /\ direct)
           /\ stack' = [stack EXCEPT ![p] = Append(@, "op")]
           /\ UNCHANGED <<fixq, current, dead, runs>>
        \/ /\ frozen = {"RInitially"} /\ fixq = NoQueue /\ fixq' = <<>>
           /\ stack' = [stack EXCEPT ![p] = @ \o <<"op", "initially">>]
           /\ runs' = runs + 1 /\ UNCHANGED <<current, dead>>
        \/ /\ frozen = {"RInitially"} /\ fixq # NoQueue /\ fixq' = Append(fixq, p)
           /\ stack' = [stack EXCEPT ![p] = Append(@, "op")]
           /\ current' = NoProc /\ UNCHANGED <<dead, runs>>
    BY <1>2 DEF Invoke
  <2> QED BY <1>2, <2>1, OpenInvokeKeeps, FirstInvokeKeeps, WaitingInvokeKeeps
<1> QED BY <1>1, <1>2

(* What the end of the initially, of an operation and a failure have in common:
   frames of p are left, and it goes on or ends. *)
LEMMA FramesLeft ==
  ASSUME ConstantsOK, IInv, NEW p \in Proc, stack[p] # <<>>,
         NEW k \in 0..Len(stack[p]), current = p,
         stack' = [stack EXCEPT ![p] = SubSeq(@, 1, k)],
         \/ UNCHANGED <<current, dead>>
         \/ current' = NoProc /\ dead' = dead \cup {p},
         UNCHANGED <<fixq, ready, asleep, runs, known, fuel>>,
         frozen' \subseteq {"RInitially", "RDead"}, frozen \subseteq frozen'
  PROVE  IInv'
<1>1. stack[p] \in Seq({"op", "initially"})
  BY DEF IInv, TypeOK
<1>2. /\ Prefix(SubSeq(stack[p], 1, k), stack[p])
      /\ stack' = [stack EXCEPT ![p] = SubSeq(stack[p], 1, k)]
  BY <1>1, CutIsPrefix
<1>3. /\ stack' \in [Proc -> Seq({"op", "initially"})]
      /\ \A q \in Proc : Prefix(stack'[q], stack[q])
      /\ \A q \in Proc : ElementsOf(stack'[q]) \subseteq ElementsOf(stack[q])
      /\ InitialisedFirst'
  BY <1>2, FramesGone
<1>4. OnePlace' /\ current' \in Proc \cup {NoProc} /\ dead' \subseteq Proc
  BY EndsOrGoesOn DEF IInv
<1>5. TypeOK'
  BY <1>3, <1>4 DEF IInv, TypeOK
<1>6. OneFrame'
  BY <1>3, OneFrameLeft DEF IInv, OneFrame, Initialising
<1>7. NotBegun'
  BY NotBegunLeft
<1> QED BY <1>3, <1>4, <1>5, <1>6, <1>7 DEF IInv

LEMMA ReturnKeeps ==
  ASSUME ConstantsOK, IInv, NEW p \in Proc, Return(p)
  PROVE  IInv'
<1>1. /\ current = p /\ stack[p] # <<>>
      /\ UNCHANGED <<frozen, fixq, ready, asleep, runs, known, fuel>>
  BY DEF Return, Top
<1>2. stack[p] \in Seq({"op", "initially"}) /\ Len(stack[p]) \in Nat \ {0}
  BY <1>1 DEF IInv, TypeOK
<1>3. frozen' \subseteq {"RInitially", "RDead"} /\ frozen \subseteq frozen'
  BY <1>1 DEF IInv, TypeOK
<1>4. \E k \in 0..Len(stack[p]) :
        /\ stack' = [stack EXCEPT ![p] = SubSeq(@, 1, k)]
        /\ \/ UNCHANGED <<current, dead>>
           \/ current' = NoProc /\ dead' = dead \cup {p}
  <2>1. CASE /\ stack' = [stack EXCEPT ![p] = Front(@)] /\ UNCHANGED <<current, dead>>
    <3>1. Len(stack[p]) - 1 \in 0..Len(stack[p])
      BY <1>2
    <3> QED BY <2>1, <3>1 DEF Front
  <2>2. CASE \E k \in 0..(Len(stack[p]) - 2) : Unwound(p, k)
    <3>1. PICK k \in 0..(Len(stack[p]) - 2) : Unwound(p, k)
      BY <2>2
    <3>2. k \in 0..Len(stack[p])
      BY <1>2
    <3> QED BY <3>1, <3>2 DEF Unwound
  <2> QED BY <2>1, <2>2 DEF Return
<1> QED BY <1>1, <1>3, <1>4, FramesLeft

LEMMA FailKeeps ==
  ASSUME ConstantsOK, IInv, NEW p \in Proc, Fail(p)
  PROVE  IInv'
<1>1. PICK k \in 0..(Len(stack[p]) - 1) :
        /\ Unwound(p, k) /\ current = p
        /\ frozen' = frozen \/ frozen' = frozen \cup {"RDead"}
        /\ UNCHANGED <<fixq, ready, asleep, runs, known, fuel>>
  BY DEF Fail
<1>2. stack[p] \in Seq({"op", "initially"}) /\ Len(stack[p]) \in Nat
  BY DEF IInv, TypeOK
<1>3. stack[p] # <<>> /\ k \in 0..Len(stack[p])
  BY <1>1, <1>2
<1>4. frozen' \subseteq {"RInitially", "RDead"} /\ frozen \subseteq frozen'
  BY <1>1 DEF IInv, TypeOK
<1> QED BY <1>1, <1>3, <1>4, FramesLeft DEF Unwound

LEMMA QuitKeeps ==
  ASSUME ConstantsOK, IInv, NEW p \in Proc, Quit(p)
  PROVE  IInv'
<1>1. /\ current = p /\ stack[p] # <<>> /\ stack[p][Len(stack[p])] = "initially"
      /\ stack' = [stack EXCEPT ![p] = Front(@)]
      /\ frozen' = frozen \ {"RInitially"}
      /\ UNCHANGED <<current, asleep, dead, runs, known, fuel>>
  BY DEF Quit, Top, Last
<1>2. stack[p] \in Seq({"op", "initially"}) /\ Len(stack[p]) \in Nat \ {0}
  BY <1>1 DEF IInv, TypeOK
<1>3. Len(stack[p]) - 1 \in 0..Len(stack[p]) /\ Len(stack[p]) \in 1..Len(stack[p])
  BY <1>2
<1>4. /\ Prefix(Front(stack[p]), stack[p]) /\ Len(Front(stack[p])) = Len(stack[p]) - 1
      /\ stack' = [stack EXCEPT ![p] = Front(stack[p])]
  BY <1>1, <1>2, <1>3, CutIsPrefix DEF Front
<1>5. /\ stack' \in [Proc -> Seq({"op", "initially"})]
      /\ \A q \in Proc : Prefix(stack'[q], stack[q])
      /\ \A q \in Proc : ElementsOf(stack'[q]) \subseteq ElementsOf(stack[q])
      /\ UNCHANGED fixq => InitialisedFirst'
  BY <1>1, <1>4, FramesGone
<1>6. ASSUME runs = 1, NEW q \in Proc
      PROVE  ~Initialising(q)'
  <2>1. ASSUME NEW i \in 1..Len(stack'[q]), stack'[q][i] = "initially"
        PROVE  FALSE
    <3>1. /\ Len(stack[q]) \in Nat /\ Len(stack'[q]) \in Nat
          /\ Len(stack'[q]) <= Len(stack[q]) /\ stack'[q][i] = stack[q][i]
      BY <1>5 DEF IInv, TypeOK, Prefix
    <3>2. i \in 1..Len(stack[q]) /\ stack[q][i] = "initially"
      BY <2>1, <3>1
    <3>3. q = p /\ i = Len(stack[p])
      BY <1>1, <1>3, <1>6, <3>2 DEF IInv, OneFrame
    <3>4. stack'[p] = Front(stack[p])
      BY <1>4 DEF IInv, TypeOK
    <3> QED BY <1>2, <1>4, <3>3, <3>4
  <2> QED BY <2>1 DEF Initialising, ElementsOf
<1>7. OneFrame'
  BY <1>1, <1>5, <1>6, OneFrameLeft
<1>8. InitialisedFirst'
  BY <1>1, <1>6 DEF InitialisedFirst
<1>9. NotBegun'
  BY <1>1, NotBegunLeft
<1>10. CASE fixq # NoQueue /\ ready' = ready \o fixq /\ fixq' = NoQueue
  <2>1. fixq \in Seq(Proc) /\ ready \in Seq(Proc)
    BY <1>10, NoProcNowhere DEF IInv, TypeOK
  <2>2. /\ ready' \in Seq(Proc)
        /\ ElementsOf(ready') = ElementsOf(ready) \cup ElementsOf(fixq)
        /\ Injective(ready) /\ Injective(fixq) /\ Disjoint(ElementsOf(ready), ElementsOf(fixq))
             => Injective(ready')
    BY <1>10, <2>1, ConcatElements
  <2>3. TypeOK'
    BY <1>1, <1>5, <1>10, <2>2 DEF IInv, TypeOK
  <2>4. Queued' = {} /\ Queued = ElementsOf(fixq)
    BY <1>10 DEF Queued
  <2>5. OnePlace'
    BY <1>1, <1>10, <2>2, <2>4 DEF IInv, OnePlace, Disjoint
  <2> QED BY <1>7, <1>8, <1>9, <2>3, <2>5 DEF IInv
<1>11. CASE UNCHANGED <<ready, fixq>>
  <2>1. TypeOK' /\ OnePlace'
    BY <1>1, <1>5, <1>11 DEF IInv, TypeOK, OnePlace, Queued
  <2> QED BY <1>7, <1>8, <1>9, <2>1 DEF IInv
<1> QED BY <1>10, <1>11 DEF Quit
-----------------------------------------------------------------------------
LEMMA Beginning == ASSUME ConstantsOK, Init PROVE IInv
<1>1. PICK origin \in Origins :
        /\ frozen = IF origin = "created" THEN {} ELSE {"RInitially"}
        /\ fixq = IF origin = "active" THEN <<>> ELSE NoQueue
        /\ stack = [p \in Proc |-> IF p = Starter /\ origin \in {"active", "scheduled"}
                                   THEN <<"initially">> ELSE <<>>]
        /\ current = IF origin = "active" THEN Starter ELSE NoProc
        /\ ready = IF origin = "scheduled" THEN <<Starter>> ELSE <<>>
        /\ asleep = IF origin \in {"active", "scheduled"} THEN Proc \ {Starter} ELSE Proc
        /\ runs = IF origin \in {"active", "scheduled"} THEN 1 ELSE 0
        /\ known = (origin # "created")
  BY DEF Init
<1>2. dead = {} /\ fuel \in [Proc -> Nat]
  BY DEF Init, ConstantsOK
<1>3. Starter \in Proc /\ NoProc \notin Proc /\ NoQueue # <<>>
  <2>1. <<>> \in Seq(Proc)
    OBVIOUS
  <2> QED BY <2>1 DEF ConstantsOK
<1>4. ElementsOf(<<Starter>>) = {Starter} /\ Injective(<<Starter>>)
  <2>1. Len(<<Starter>>) = 1 /\ <<Starter>>[1] = Starter
    OBVIOUS
  <2> QED BY <2>1 DEF ElementsOf, Injective
<1>5. TypeOK
  <2>1. /\ <<"initially">> \in Seq({"op", "initially"}) /\ <<>> \in Seq({"op", "initially"})
        /\ <<Starter>> \in Seq(Proc) /\ <<>> \in Seq(Proc)
    BY <1>3
  <2>2. stack \in [Proc -> Seq({"op", "initially"})]
    BY <1>1, <2>1
  <2>3. frozen \subseteq {"RInitially", "RDead"} /\ runs \in Nat /\ known \in BOOLEAN
    BY <1>1
  <2>4. fixq \in Seq(Proc) \cup {NoQueue} /\ ready \in Seq(Proc)
    BY <1>1, <2>1
  <2>5. current \in Proc \cup {NoProc} /\ asleep \subseteq Proc
    BY <1>1, <1>3
  <2> QED BY <1>2, <2>2, <2>3, <2>4, <2>5 DEF TypeOK
<1>6. Queued = {} /\ (fixq # NoQueue => Injective(fixq))
  BY <1>1, EmptyElements DEF Queued
<1>7. OnePlace
  BY <1>1, <1>2, <1>3, <1>4, <1>6, EmptyElements DEF OnePlace, Disjoint
<1>8. \A p \in Proc : \A i \in 1..Len(stack[p]) :
        i = 1 /\ p = Starter /\ stack[p][i] = "initially"
  BY <1>1
<1>9. NotBegun
  <2>1. CASE origin \in {"active", "scheduled"}
    BY <1>1, <2>1 DEF NotBegun
  <2>2. CASE origin \notin {"active", "scheduled"}
    <3>1. \A p \in Proc : stack[p] = <<>>
      BY <1>1, <2>2
    <3>2. fixq = NoQueue /\ (known => frozen = {"RInitially"}) /\ (~known => frozen = {})
      BY <1>1, <2>2
    <3> QED BY <3>1, <3>2 DEF NotBegun
  <2> QED BY <2>1, <2>2
<1>10. OneFrame
  BY <1>1, <1>8 DEF OneFrame
<1>11. InitialisedFirst
  BY <1>8 DEF InitialisedFirst, ElementsOf
<1> QED BY <1>5, <1>7, <1>9, <1>10, <1>11 DEF IInv

LEMMA Inductive == ASSUME ConstantsOK PROVE IInv /\ [Next]_vars => IInv'
<1> SUFFICES ASSUME IInv, [Next]_vars PROVE IInv'
  OBVIOUS
<1>1. CASE Dispatch
  BY <1>1, DispatchKeeps
<1>2. ASSUME NEW p \in Proc,
             Block(p) \/ Wake(p) \/ QuitProcess(p) \/ Create(p) \/ Publish(p)
      PROVE  IInv'
  BY <1>2, BlockKeeps, WakeKeeps, QuitProcessKeeps, CreateKeeps, PublishKeeps
<1>3. ASSUME NEW p \in Proc, NEW direct \in BOOLEAN, Invoke(p, direct)
      PROVE  IInv'
  BY <1>3, InvokeKeeps
<1>4. ASSUME NEW p \in Proc, Quit(p) \/ Return(p) \/ Fail(p)
      PROVE  IInv'
  BY <1>4, QuitKeeps, ReturnKeeps, FailKeeps
<1>5. CASE UNCHANGED vars
  <2>1. TypeOK' /\ OnePlace'
    BY <1>5 DEF vars, IInv, TypeOK, OnePlace, Queued
  <2>2. NotBegun' /\ OneFrame' /\ InitialisedFirst'
    BY <1>5, FramesStay DEF vars
  <2> QED BY <2>1, <2>2 DEF IInv
<1> QED BY <1>1, <1>2, <1>3, <1>4, <1>5 DEF Next

LEMMA Invariance == ConstantsOK => (Spec => []IInv)
<1>1. ConstantsOK => (Init => IInv)
  BY Beginning
<1>2. ConstantsOK => (IInv /\ [Next]_vars => IInv')
  BY Inductive
<1>3. ASSUME ConstantsOK PROVE Spec => []IInv
  BY <1>1, <1>2, <1>3, PTL DEF Spec
<1> QED BY <1>3

(* The object's reasons to be frozen, its queue and the stacks of frames keep
   their types. *)
THEOREM TypeCorrect == ConstantsOK => (Spec => []TypeOK)
<1>1. IInv => TypeOK
  BY DEF IInv
<1> QED BY <1>1, Invariance, PTL

(* No process executes an operation of the object while another runs its
   initially, as long as that is begun once: whoever came meanwhile waits in the
   fix queue. *)
THEOREM NoneBeforeInitially == ConstantsOK => (Spec => []InitialisedFirst)
<1>1. IInv => InitialisedFirst
  BY DEF IInv
<1> QED BY <1>1, Invariance, PTL

(* The fix queue, its release and the unwinding of frames neither lose a
   process nor leave one in two places. *)
THEOREM NobodyLost == ConstantsOK => (Spec => []OnePlace)
<1>1. IInv => OnePlace
  BY DEF IInv
<1> QED BY <1>1, Invariance, PTL
=============================================================================
