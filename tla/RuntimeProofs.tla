---------------------------- MODULE RuntimeProofs ---------------------------
(***************************************************************************)
(* The runtime below the objects.  squeue.c and mqueue.c implement         *)
(* AbstractQueue, for every initial size, every bound on the count and     *)
(* every sequence of calls.  One lemma per operation says what becomes of  *)
(* the elements, counted from first; the theorems combine them.  Then the  *)
(* timeouts of timer.c, a list in the order of their times.  Then the      *)
(* connections of dist.c, which crashes and lost connections interrupt and *)
(* closed descriptors outlive: one lemma per action and part of NetInv.    *)
(***************************************************************************)
EXTENDS SQueue, SequenceTheorems, FiniteSetTheorems, TLAPS

CONSTANT LogInitSize
VARIABLES firstfull, firstempty

(* The message queue: its table, size, count and result are named as squeue's. *)
Messages == INSTANCE MQueue

CONSTANTS Processes, Ping, Base, Delays, Edges, MaxNow
VARIABLES clock, alarm, timeAdvanced, sleepers, ready, nProcessesDelayed, distributed, pc, until, asOf

(* The clock and the timeouts. *)
Clock == INSTANCE Timer

CONSTANTS Nodes, Flows, MaxFD, MaxSent, MaxCrashes, MaxNested, None
VARIABLES fd, backlog, others, cache, local, waits, alive, failed, sent, got, forgotten

(* The connections of the nodes and the messages they carry. *)
Net == INSTANCE Transport

(* In a circle of n slots that starts at f: distinct elements have distinct
   slots, and the slot after an element's, wrapped, is the next element's. *)
LEMMA Slots ==
  ASSUME NEW n \in Nat \ {0}, NEW f \in 0..(n-1)
  PROVE  /\ \A i \in 0..(n-1) : Wrap(f + i, n) \in 0..(n-1)
         /\ \A i, j \in 0..(n-1) : Wrap(f + i, n) = Wrap(f + j, n) => i = j
         /\ \A i \in 0..(n-2) : Wrap(Wrap(f + i, n) + 1, n) = Wrap(f + (i+1), n)
  BY DEF Wrap

(* The table both insertions write to has room, and shows the same elements. *)
LEMMA RoomTableKeepsContents ==
  ASSUME TypeOK
  PROVE  /\ RoomSize \in Nat \ {0} /\ count < RoomSize /\ first < RoomSize
         /\ DOMAIN RoomTable = 0..(RoomSize-1)
         /\ \A i \in 0..(count-1) :
              RoomTable[Wrap(first + i, RoomSize)] = table[Wrap(first + i, size)]
<1>1. CASE ~Full
  BY <1>1 DEF TypeOK, Full, RoomTable, RoomSize
<1>2. CASE Full
  <2>1. count = size /\ RoomSize = 2 * size /\ RoomTable = ExpandTable
    BY <1>2 DEF TypeOK, Full, RoomTable, RoomSize
  <2>2. DOMAIN RoomTable = 0..(RoomSize-1)
    BY <2>1 DEF ExpandTable
  <2>3. ASSUME NEW i \in 0..(count-1)
        PROVE  RoomTable[Wrap(first + i, RoomSize)] = table[Wrap(first + i, size)]
    BY <2>1 DEF ExpandTable, Wrap, TypeOK
  <2>4. count \in Nat /\ first \in Nat /\ size \in Nat \ {0} /\ first < size
    BY DEF TypeOK
  <2>5. RoomSize \in Nat \ {0} /\ count < RoomSize /\ first < RoomSize
    BY ONLY <2>1, <2>4
  <2> QED BY ONLY <2>2, <2>3, <2>5
<1> QED BY <1>1, <1>2

LEMMA InsertElements ==
  ASSUME TypeOK, NEW v \in Value, Insert(v)
  PROVE  /\ TypeOK'
         /\ table'[Wrap(first' + count, size')] = v
         /\ \A i \in 0..(count-1) :
              table'[Wrap(first' + i, size')] = table[Wrap(first + i, size)]
<1> DEFINE s == Wrap(first + count, RoomSize)
<1>1. /\ size' = RoomSize /\ first' = first /\ count' = count + 1
      /\ table' = [RoomTable EXCEPT ![s] = v]
  BY DEF Insert
<1>2. /\ RoomSize \in Nat \ {0} /\ first \in 0..(RoomSize-1)
      /\ count \in 0..(RoomSize-1) /\ DOMAIN RoomTable = 0..(RoomSize-1)
  BY RoomTableKeepsContents DEF TypeOK
<1>3. s \in 0..(RoomSize-1) /\ table'[s] = v
  BY <1>1, <1>2, Slots
<1>4. ASSUME NEW i \in 0..(count-1)
      PROVE  table'[Wrap(first' + i, size')] = table[Wrap(first + i, size)]
  <2>1. i \in 0..(RoomSize-1) /\ i # count
    BY <1>2
  <2>2. Wrap(first + i, RoomSize) \in 0..(RoomSize-1) /\ Wrap(first + i, RoomSize) # s
    BY <1>2, <2>1, Slots
  <2> QED BY <1>1, <1>2, <2>2, RoomTableKeepsContents
<1>5. ASSUME NEW i \in 0..(count'-1)
      PROVE  table'[Wrap(first' + i, size')] \in Value
  <2>1. i \in 0..(count-1) \/ i = count
    BY <1>1, <1>2
  <2> QED BY <1>1, <1>3, <1>4, <2>1 DEF TypeOK
<1>6. count' \in 0..size' /\ DOMAIN table' = 0..(size'-1)
  BY <1>1, <1>2
<1> HIDE DEF s
<1> QED BY <1>1, <1>2, <1>3, <1>4, <1>5, <1>6 DEF TypeOK, Wrap, s

LEMMA InsertFrontElements ==
  ASSUME TypeOK, NEW v \in Value, InsertFront(v)
  PROVE  /\ TypeOK'
         /\ table'[Wrap(first' + 0, size')] = v
         /\ \A i \in 0..(count-1) :
              table'[Wrap(first' + (i+1), size')] = table[Wrap(first + i, size)]
<1> DEFINE f == IF first - 1 < 0 THEN first - 1 + RoomSize ELSE first - 1
<1>1. /\ size' = RoomSize /\ first' = f /\ count' = count + 1
      /\ table' = [RoomTable EXCEPT ![f] = v]
  BY DEF InsertFront
<1>2. /\ RoomSize \in Nat \ {0} /\ first \in 0..(RoomSize-1)
      /\ count \in 0..(RoomSize-1) /\ DOMAIN RoomTable = 0..(RoomSize-1)
  BY RoomTableKeepsContents DEF TypeOK
<1>3. f \in 0..(RoomSize-1) /\ table'[f] = v /\ Wrap(f + 0, RoomSize) = f
  BY <1>1, <1>2 DEF Wrap
<1>4. ASSUME NEW i \in 0..(count-1)
      PROVE  table'[Wrap(first' + (i+1), size')] = table[Wrap(first + i, size)]
  <2>1. i + 1 \in 0..(RoomSize-1) /\ i \in 0..(RoomSize-1)
    BY <1>2
  <2>2. Wrap(f + (i+1), RoomSize) = Wrap(first + i, RoomSize)
    BY <1>2, <2>1 DEF Wrap
  <2> HIDE DEF f
  <2>3. /\ Wrap(f + (i+1), RoomSize) \in 0..(RoomSize-1)
        /\ Wrap(f + (i+1), RoomSize) # Wrap(f + 0, RoomSize)
    <3>1. 0 \in 0..(RoomSize-1) /\ i + 1 # 0
      BY <1>2, <2>1
    <3> QED BY <1>2, <1>3, <2>1, <3>1, Slots
  <2> QED BY <1>1, <1>2, <1>3, <2>2, <2>3, RoomTableKeepsContents
<1>5. ASSUME NEW i \in 0..(count'-1)
      PROVE  table'[Wrap(first' + i, size')] \in Value
  <2>1. CASE i = 0
    BY <1>1, <1>3, <2>1
  <2>2. CASE i # 0
    <3>1. i - 1 \in 0..(count-1) /\ (i - 1) + 1 = i
      BY <1>1, <1>2, <2>2
    <3>2. table'[Wrap(first' + ((i-1)+1), size')] = table[Wrap(first + (i-1), size)]
      BY <1>4, <3>1
    <3> QED BY <3>1, <3>2 DEF TypeOK
  <2> QED BY <2>1, <2>2
<1>6. count' \in 0..size' /\ DOMAIN table' = 0..(size'-1)
  BY <1>1, <1>2
<1> HIDE DEF f
<1> QED BY <1>1, <1>2, <1>3, <1>4, <1>5, <1>6 DEF TypeOK, Wrap

(* SQueueYank, when the match is element k: the elements before it stay, those
   after it move up by one. *)
YankAt(k) ==
  /\ table' = [s \in 0..(size-1) |->
                 IF \E i \in k..(count-2) : s = Wrap(first + i, size)
                 THEN table[Wrap(s + 1, size)] ELSE table[s]]
  /\ count' = count - 1
  /\ UNCHANGED <<size, first>>

LEMMA YankElements ==
  ASSUME TypeOK, NEW k \in 0..(count-1), YankAt(k)
  PROVE  /\ TypeOK'
         /\ \A j \in 0..(count-2) :
              table'[Wrap(first' + j, size')] =
                table[Wrap(first + (IF j < k THEN j ELSE j + 1), size)]
<1>1. ASSUME NEW j \in 0..(count-2)
      PROVE  table'[Wrap(first' + j, size')] =
               table[Wrap(first + (IF j < k THEN j ELSE j + 1), size)]
  <2> DEFINE s == Wrap(first + j, size)
  <2>1. j \in 0..(size-2) /\ j \in 0..(size-1) /\ s \in 0..(size-1)
    BY Slots DEF TypeOK
  <2>2. CASE j < k
    <3>1. ASSUME NEW i \in k..(count-2)
          PROVE  s # Wrap(first + i, size)
      <4>1. i \in 0..(size-1) /\ i # j
        BY <2>2 DEF TypeOK
      <4> QED BY <2>1, <4>1, Slots DEF TypeOK
    <3> QED BY <2>1, <2>2, <3>1 DEF YankAt
  <2>3. CASE ~(j < k)
    <3>1. j \in k..(count-2)
      BY <2>3 DEF TypeOK
    <3>2. table'[s] = table[Wrap(s + 1, size)]
      BY <2>1, <3>1 DEF YankAt
    <3>3. Wrap(s + 1, size) = Wrap(first + (j+1), size)
      BY <2>1, Slots DEF TypeOK
    <3> QED BY <2>3, <3>2, <3>3 DEF YankAt
  <2> QED BY <2>2, <2>3
<1>2. ASSUME NEW j \in 0..(count'-1)
      PROVE  table'[Wrap(first' + j, size')] \in Value
  <2>1. j \in 0..(count-2) /\ (IF j < k THEN j ELSE j + 1) \in 0..(count-1)
    BY DEF TypeOK, YankAt
  <2> QED BY <1>1, <2>1 DEF TypeOK
<1>3. /\ size' \in Nat \ {0} /\ first' \in 0..(size'-1)
      /\ count' \in 0..size' /\ DOMAIN table' = 0..(size'-1)
  BY DEF TypeOK, YankAt
<1>4. TypeOK'
  BY <1>2, <1>3 DEF TypeOK, Wrap
<1> QED BY <1>1, <1>4

LEMMA RemoveElements ==
  ASSUME TypeOK, Remove, count > 0
  PROVE  /\ TypeOK'
         /\ count' = count - 1
         /\ result' = table[Wrap(first + 0, size)]
         /\ \A j \in 0..(count-2) :
              table'[Wrap(first' + j, size')] = table[Wrap(first + (j+1), size)]
<1>1. /\ count' = count - 1 /\ size' = size /\ table' = table /\ result' = table[first]
      /\ first' = IF first + 1 >= size THEN 0 ELSE first + 1
  BY DEF Remove, TypeOK
<1>2. ASSUME NEW j \in 0..(count-2)
      PROVE  table'[Wrap(first' + j, size')] = table[Wrap(first + (j+1), size)]
  BY <1>1 DEF TypeOK, Wrap
<1>3. ASSUME NEW j \in 0..(count'-1)
      PROVE  table'[Wrap(first' + j, size')] \in Value
  <2>1. j \in 0..(count-2) /\ j + 1 \in 0..(count-1)
    BY <1>1 DEF TypeOK
  <2> QED BY <1>2, <2>1 DEF TypeOK
<1>4. /\ size' \in Nat \ {0} /\ first' \in 0..(size'-1)
      /\ count' \in 0..size' /\ DOMAIN table' = 0..(size'-1)
  BY <1>1 DEF TypeOK
<1>5. result' = table[Wrap(first + 0, size)]
  BY <1>1 DEF TypeOK, Wrap
<1> QED BY <1>1, <1>2, <1>3, <1>4, <1>5 DEF TypeOK, Wrap

LEMMA YankCases ==
  ASSUME NEW e, Yank(e)
  PROVE  \/ /\ \E k \in 0..(count-1) :
                 /\ table[Wrap(first + k, size)] = e
                 /\ \A j \in 0..(k-1) : table[Wrap(first + j, size)] # e
                 /\ YankAt(k)
            /\ result' = TRUE
         \/ /\ \A j \in 0..(count-1) : table[Wrap(first + j, size)] # e
            /\ result' = FALSE
            /\ UNCHANGED <<table, size, first, count>>
  BY DEF Yank, YankAt

LEMMA StutterKeepsType ==
  ASSUME TypeOK, UNCHANGED <<table, size, first, count>>
  PROVE  TypeOK'
  BY DEF TypeOK, Wrap

(* No sequence of calls leaves the record malformed: first stays a slot of the
   table, and every slot from first to the rear holds a state. *)
THEOREM TypeCorrect == Spec => []TypeOK
<1>1. Init => TypeOK
  BY SizeAssumption DEF Init, TypeOK
<1>2. TypeOK /\ [Next]_vars => TypeOK'
  <2> SUFFICES ASSUME TypeOK, [Next]_vars
               PROVE  TypeOK'
    OBVIOUS
  <2>1. ASSUME NEW v \in Value, Insert(v)
        PROVE  TypeOK'
    BY <2>1, InsertElements
  <2>2. ASSUME NEW v \in Value, InsertFront(v)
        PROVE  TypeOK'
    BY <2>2, InsertFrontElements
  <2>3. ASSUME NEW v \in Value, Yank(v)
        PROVE  TypeOK'
    BY <2>3, YankCases, YankElements, StutterKeepsType
  <2>4. CASE Remove
    <3>1. CASE count > 0
      BY <2>4, <3>1, RemoveElements
    <3>2. CASE ~(count > 0)
      BY <2>4, <3>2, StutterKeepsType DEF Remove
    <3> QED BY <3>1, <3>2
  <2>5. CASE UNCHANGED vars
    BY <2>5, StutterKeepsType DEF vars
  <2> QED BY <2>1, <2>2, <2>3, <2>4, <2>5 DEF Next
<1> QED BY <1>1, <1>2, PTL DEF Spec
-----------------------------------------------------------------------------
(* Refinement *)

(* The sequence of the c elements from slot f of a table t of n slots. *)
Circle(t, n, f, c) == [i \in 1..c |-> t[Wrap(f + i - 1, n)]]

LEMMA CircleIsSeq ==
  ASSUME NEW t, NEW n \in Nat \ {0}, NEW f \in 0..(n-1), NEW c \in Nat,
         \A i \in 0..(c-1) : t[Wrap(f + i, n)] \in Value
  PROVE  /\ Circle(t, n, f, c) \in Seq(Value)
         /\ Len(Circle(t, n, f, c)) = c
         /\ \A i \in 0..(c-1) : Circle(t, n, f, c)[i+1] = t[Wrap(f + i, n)]
<1>1. ASSUME NEW i \in 1..c
      PROVE  i - 1 \in 0..(c-1) /\ f + i - 1 = f + (i-1)
  OBVIOUS
<1>2. ASSUME NEW i \in 0..(c-1)
      PROVE  i + 1 \in 1..c /\ f + (i+1) - 1 = f + i
  OBVIOUS
<1>3. \A i \in 1..c : t[Wrap(f + i - 1, n)] \in Value
  BY <1>1
<1>4. /\ [i \in 1..c |-> t[Wrap(f + i - 1, n)]] \in Seq(Value)
      /\ Len([i \in 1..c |-> t[Wrap(f + i - 1, n)]]) = c
  BY <1>3
<1> QED BY <1>2, <1>4 DEF Circle

LEMMA ContentsIsCircle ==
  /\ Contents = Circle(table, size, first, count)
  /\ Contents' = Circle(table', size', first', count')
  BY DEF Contents, Circle

(* A step that leaves the record well formed shows it to AbstractQueue as a
   step between two sequences of the right lengths. *)
LEMMA ContentsIsSeq ==
  ASSUME TypeOK, TypeOK'
  PROVE  /\ Contents \in Seq(Value) /\ Len(Contents) = count
         /\ \A i \in 0..(count-1) : Contents[i+1] = table[Wrap(first + i, size)]
         /\ Contents' \in Seq(Value) /\ Len(Contents') = count'
         /\ \A i \in 0..(count'-1) : Contents'[i+1] = table'[Wrap(first' + i, size')]
<1>1. /\ count \in Nat /\ size \in Nat \ {0} /\ first \in 0..(size-1)
      /\ \A i \in 0..(count-1) : table[Wrap(first + i, size)] \in Value
  BY DEF TypeOK
<1>2. /\ count' \in Nat /\ size' \in Nat \ {0} /\ first' \in 0..(size'-1)
      /\ \A i \in 0..(count'-1) : table'[Wrap(first' + i, size')] \in Value
  <2>1. size' \in Nat \ {0} /\ first' \in 0..(size'-1) /\ count' \in 0..size'
    BY DEF TypeOK
  <2>2. \A i \in 0..(count'-1) : table'[Wrap(first' + i, size')] \in Value
    <3>1. \A i \in 0..(count'-1) : (table[Wrap(first + i, size)])' \in Value
      BY DEF TypeOK
    <3> QED BY <3>1 DEF Wrap
  <2>3. count' \in Nat
    BY <2>1
  <2> QED BY ONLY <2>1, <2>2, <2>3
<1>3. /\ Circle(table, size, first, count) \in Seq(Value)
      /\ Len(Circle(table, size, first, count)) = count
      /\ \A i \in 0..(count-1) :
           Circle(table, size, first, count)[i+1] = table[Wrap(first + i, size)]
  BY <1>1, CircleIsSeq
<1>4. /\ Circle(table', size', first', count') \in Seq(Value)
      /\ Len(Circle(table', size', first', count')) = count'
      /\ \A i \in 0..(count'-1) :
           Circle(table', size', first', count')[i+1] = table'[Wrap(first' + i, size')]
  BY <1>2, CircleIsSeq
<1> QED BY ONLY <1>3, <1>4, ContentsIsCircle

LEMMA InsertRefines ==
  ASSUME TypeOK, NEW v \in Value, Insert(v)
  PROVE  Abs!Insert(v)
<1>0. count \in Nat /\ count' = count + 1 /\ result' = NoValue
  BY DEF Insert, TypeOK
<1>1. /\ TypeOK' /\ table'[Wrap(first' + count, size')] = v
      /\ \A i \in 0..(count-1) :
           table'[Wrap(first' + i, size')] = table[Wrap(first + i, size)]
  BY InsertElements
<1>2. /\ Append(Contents, v) \in Seq(Value)
      /\ Len(Append(Contents, v)) = count + 1
  BY <1>0, <1>1, ContentsIsSeq
<1>3. ASSUME NEW i \in 1..Len(Contents')
      PROVE  Contents'[i] = Append(Contents, v)[i]
  <2>1. i - 1 \in 0..(count'-1) /\ (i-1) + 1 = i
    BY <1>0, <1>1, ContentsIsSeq
  <2>2. Contents'[i] = table'[Wrap(first' + (i-1), size')]
    BY <1>0, <1>1, <2>1, ContentsIsSeq
  <2>3. CASE i - 1 \in 0..(count-1)
    BY <1>0, <1>1, <2>1, <2>2, <2>3, ContentsIsSeq
  <2>4. CASE i - 1 = count
    BY <1>0, <1>1, <2>1, <2>2, <2>4, ContentsIsSeq
  <2>5. i - 1 \in 0..(count-1) \/ i - 1 = count
    BY <1>0, <2>1
  <2> QED BY <2>3, <2>4, <2>5
<1>4. Contents' = Append(Contents, v)
  BY <1>0, <1>1, <1>2, <1>3, ContentsIsSeq, SeqEqual
<1> QED BY <1>0, <1>1, <1>4 DEF Abs!Insert

LEMMA InsertFrontRefines ==
  ASSUME TypeOK, NEW v \in Value, InsertFront(v)
  PROVE  Abs!InsertFront(v)
<1>0. count \in Nat /\ count' = count + 1 /\ result' = NoValue
  BY DEF InsertFront, TypeOK
<1>1. /\ TypeOK' /\ table'[Wrap(first' + 0, size')] = v
      /\ \A i \in 0..(count-1) :
           table'[Wrap(first' + (i+1), size')] = table[Wrap(first + i, size)]
  BY InsertFrontElements
<1>2. /\ <<v>> \o Contents \in Seq(Value)
      /\ Len(<<v>> \o Contents) = count + 1
  BY <1>0, <1>1, ContentsIsSeq
<1>3. ASSUME NEW i \in 1..Len(Contents')
      PROVE  Contents'[i] = (<<v>> \o Contents)[i]
  <2>1. i - 1 \in 0..(count'-1) /\ (i-1) + 1 = i
    BY <1>0, <1>1, ContentsIsSeq
  <2>2. Contents'[i] = table'[Wrap(first' + (i-1), size')]
    BY <1>0, <1>1, <2>1, ContentsIsSeq
  <2>3. CASE i = 1
    BY <1>0, <1>1, <2>2, <2>3, ContentsIsSeq
  <2>4. CASE i # 1
    <3>1. i - 2 \in 0..(count-1) /\ (i-2) + 1 = i - 1
      BY <1>0, <1>1, <2>1, <2>4
    <3>2. Contents'[i] = Contents[i-1]
      BY <1>0, <1>1, <2>2, <3>1, ContentsIsSeq
    <3>3. (<<v>> \o Contents)[i] = Contents[i-1]
      BY <1>0, <1>1, <2>1, <3>1, ContentsIsSeq
    <3> QED BY <3>2, <3>3
  <2> QED BY <2>3, <2>4
<1>4. Contents' = <<v>> \o Contents
  BY <1>0, <1>1, <1>2, <1>3, ContentsIsSeq, SeqEqual
<1> QED BY <1>0, <1>1, <1>4 DEF Abs!InsertFront

LEMMA RemoveRefines ==
  ASSUME TypeOK, Remove
  PROVE  Abs!Remove
<1>1. CASE ~(count > 0)
  <2>1. result' = NoValue /\ UNCHANGED <<table, size, first, count>>
    BY <1>1 DEF Remove
  <2>2. Contents' = Contents /\ TypeOK'
    BY <2>1, StutterKeepsType DEF Contents, Wrap
  <2>3. Len(Contents) = 0 /\ Contents \in Seq(Value)
    BY <1>1, <2>2, ContentsIsSeq DEF TypeOK
  <2> QED BY <2>1, <2>2, <2>3 DEF Abs!Remove
<1>2. CASE count > 0
  <2>1. /\ TypeOK' /\ count \in Nat /\ count' = count - 1
        /\ result' = table[Wrap(first + 0, size)]
        /\ \A j \in 0..(count-2) :
             table'[Wrap(first' + j, size')] = table[Wrap(first + (j+1), size)]
    BY <1>2, RemoveElements DEF TypeOK
  <2>2. /\ Contents \in Seq(Value) /\ Contents # <<>>
        /\ Tail(Contents) \in Seq(Value) /\ Len(Tail(Contents)) = count - 1
        /\ Head(Contents) = Contents[1]
        /\ \A i \in 1..(count-1) : Tail(Contents)[i] = Contents[i+1]
    BY <1>2, <2>1, ContentsIsSeq, HeadTailProperties
  <2>3. result' = Head(Contents)
    <3>1. 0 \in 0..(count-1) /\ 0 + 1 = 1
      BY <1>2, <2>1
    <3> QED BY <2>1, <2>2, <3>1, ContentsIsSeq
  <2>4. ASSUME NEW i \in 1..Len(Contents')
        PROVE  Contents'[i] = Tail(Contents)[i]
    <3>1. /\ i - 1 \in 0..(count'-1) /\ i - 1 \in 0..(count-2) /\ (i-1) + 1 = i
          /\ i \in 0..(count-1) /\ i \in 1..(count-1)
      BY <1>2, <2>1, ContentsIsSeq
    <3>2. Contents'[i] = table'[Wrap(first' + (i-1), size')]
      BY <2>1, <3>1, ContentsIsSeq
    <3>3. Contents[i+1] = table[Wrap(first + i, size)]
      BY <2>1, <3>1, ContentsIsSeq
    <3> QED BY <2>1, <2>2, <3>1, <3>2, <3>3
  <2>5. Contents' = Tail(Contents)
    BY <2>1, <2>2, <2>4, ContentsIsSeq, SeqEqual
  <2> QED BY <2>2, <2>3, <2>5 DEF Abs!Remove
<1> QED BY <1>1, <1>2

LEMMA YankRefines ==
  ASSUME TypeOK, NEW e, Yank(e)
  PROVE  Abs!Yank(e)
<1>1. CASE /\ \A j \in 0..(count-1) : table[Wrap(first + j, size)] # e
           /\ result' = FALSE
           /\ UNCHANGED <<table, size, first, count>>
  <2>1. Contents' = Contents /\ TypeOK'
    BY <1>1, StutterKeepsType DEF Contents, Wrap
  <2>2. ASSUME NEW i \in 1..Len(Contents)
        PROVE  Contents[i] # e
    <3>0. count \in Nat
      BY DEF TypeOK
    <3>1. i - 1 \in 0..(count-1) /\ (i-1) + 1 = i
      <4>1. Len(Contents) = count
        BY <2>1, ContentsIsSeq
      <4> QED BY <3>0, <4>1
    <3> QED BY <1>1, <2>1, <3>1, ContentsIsSeq
  <2> QED BY <1>1, <2>1, <2>2 DEF Abs!Yank
<1>2. ASSUME NEW k \in 0..(count-1),
             table[Wrap(first + k, size)] = e,
             \A j \in 0..(k-1) : table[Wrap(first + j, size)] # e,
             YankAt(k), result' = TRUE
      PROVE  Abs!Yank(e)
  <2> DEFINE before == SubSeq(Contents, 1, k)
             after  == SubSeq(Contents, k+2, Len(Contents))
  <2>0. count \in Nat /\ count' = count - 1 /\ count > 0 /\ k + 1 \in 1..count
    BY <1>2 DEF YankAt, TypeOK
  <2>1. TypeOK'
    BY <1>2, YankElements
  <2>2. Contents \in Seq(Value) /\ Len(Contents) = count
    BY <2>1, ContentsIsSeq
  <2>3. /\ Contents[k+1] = e
        /\ \A j \in 1..((k+1)-1) : Contents[j] # e
    <3>1. Contents[k+1] = e
      BY <1>2, <2>1, ContentsIsSeq
    <3>2. ASSUME NEW j \in 1..((k+1)-1)
          PROVE  Contents[j] # e
      <4>1. j - 1 \in 0..(count-1) /\ (j-1) + 1 = j /\ j - 1 \in 0..(k-1)
        BY <2>0
      <4> QED BY <1>2, <2>1, <4>1, ContentsIsSeq
    <3> QED BY <3>1, <3>2
  <2>4. Abs!Without(Contents, e) = before \o after
    <3>1. ASSUME NEW j \in 1..Len(Contents),
                 Contents[j] = e, \A m \in 1..(j-1) : Contents[m] # e
          PROVE  j = k + 1
      <4>1. ~(j < k + 1)
        BY <2>0, <2>2, <2>3, <3>1
      <4>2. ~(k + 1 < j)
        BY <2>0, <2>2, <2>3, <3>1
      <4> QED BY <2>0, <2>2, <4>1, <4>2
    <3>2. (CHOOSE j \in 1..Len(Contents) :
             Contents[j] = e /\ \A m \in 1..(j-1) : Contents[m] # e) = k + 1
      BY <2>0, <2>2, <2>3, <3>1
    <3>3. (k + 1) - 1 = k /\ (k + 1) + 1 = k + 2
      OBVIOUS
    <3> QED BY <3>2, <3>3 DEF Abs!Without
  <2>5. /\ before \in Seq(Value) /\ Len(before) = k
        /\ \A i \in 1..k : before[i] = Contents[i]
    <3>1. \A i \in 1..k : Contents[i] \in Value
      BY <2>0, <2>2
    <3> QED BY <2>0, <2>2, <3>1, SubSeqProperties
  <2>6. /\ after \in Seq(Value) /\ Len(after) = (count - 1) - k
        /\ \A i \in 1..((count-1)-k) : after[i] = Contents[k+2+i-1]
    <3>1. \A i \in (k+2)..count : Contents[i] \in Value
      BY <2>0, <2>2
    <3> QED BY <2>0, <2>2, <3>1, SubSeqProperties
  <2> HIDE DEF before, after
  <2>7. /\ before \o after \in Seq(Value)
        /\ Len(before \o after) = count - 1
        /\ \A i \in 1..(count-1) :
             (before \o after)[i] = IF i <= k THEN Contents[i] ELSE Contents[i+1]
    <3>1. before \o after \in Seq(Value) /\ Len(before \o after) = count - 1
      BY <2>0, <2>5, <2>6
    <3>2. ASSUME NEW i \in 1..(count-1)
          PROVE  (before \o after)[i] = IF i <= k THEN Contents[i] ELSE Contents[i+1]
      <4>1. (before \o after)[i] = IF i <= Len(before) THEN before[i] ELSE after[i - Len(before)]
        BY <2>0, <2>5, <2>6, ConcatProperties
      <4>2. CASE i <= k
        BY <2>5, <4>1, <4>2
      <4>3. CASE ~(i <= k)
        <5>1. i - k \in 1..((count-1)-k) /\ k + 2 + (i-k) - 1 = i + 1
          BY <2>0, <4>3
        <5> QED BY <2>5, <2>6, <4>1, <4>3, <5>1
      <4> QED BY <4>2, <4>3
    <3> QED BY <3>1, <3>2
  <2>8. ASSUME NEW i \in 1..Len(Contents')
        PROVE  Contents'[i] = (before \o after)[i]
    <3>1. /\ i - 1 \in 0..(count'-1) /\ i - 1 \in 0..(count-2) /\ (i-1) + 1 = i
          /\ i - 1 \in 0..(count-1) /\ i \in 0..(count-1) /\ i \in 1..(count-1)
      BY <2>0, <2>1, ContentsIsSeq
    <3>2. Contents'[i] = table[Wrap(first + (IF i - 1 < k THEN i - 1 ELSE (i - 1) + 1), size)]
      <4>1. Contents'[i] = table'[Wrap(first' + (i-1), size')]
        BY <2>1, <3>1, ContentsIsSeq
      <4> QED BY <1>2, <3>1, <4>1, YankElements
    <3>3. Contents[i] = table[Wrap(first + (i-1), size)]
      BY <2>1, <3>1, ContentsIsSeq
    <3>4. Contents[i+1] = table[Wrap(first + i, size)]
      BY <2>1, <3>1, ContentsIsSeq
    <3>5. CASE i <= k
      <4>1. i - 1 < k
        BY <3>1, <3>5
      <4> QED BY <2>7, <3>1, <3>2, <3>3, <3>5, <4>1
    <3>6. CASE ~(i <= k)
      <4>1. ~(i - 1 < k)
        BY <3>1, <3>6
      <4> QED BY <2>7, <3>1, <3>2, <3>4, <3>6, <4>1
    <3> QED BY <3>5, <3>6
  <2>9. Contents' = before \o after
    <3>1. Contents' \in Seq(Value) /\ Len(Contents') = Len(before \o after)
      BY <2>0, <2>1, <2>7, ContentsIsSeq
    <3> QED BY <2>7, <2>8, <3>1, SeqEqual
  <2>10. \E i \in 1..Len(Contents) : Contents[i] = e
    BY <2>0, <2>2, <2>3
  <2> QED BY <1>2, <2>4, <2>9, <2>10 DEF Abs!Yank
<1> QED BY <1>1, <1>2, YankCases

(* Whatever the initial size and however often the table has wrapped and
   doubled, the circular array behaves as a sequence: RefinesAbstractQueue. *)
THEOREM Refinement == Spec => RefinesAbstractQueue
<1>1. Init => Abs!Init
  <2> SUFFICES ASSUME Init
               PROVE  Contents = <<>> /\ result = NoValue
    BY DEF Abs!Init
  <2>1. count = 0
    BY DEF Init
  <2>2. Contents = <<>>
    BY <2>1 DEF Contents
  <2> QED BY <2>2 DEF Init
<1>2. TypeOK /\ [Next]_vars => [Abs!Next]_(Abs!vars)
  <2> SUFFICES ASSUME TypeOK, [Next]_vars
               PROVE  [Abs!Next]_(Abs!vars)
    OBVIOUS
  <2>1. CASE Next
    BY <2>1, InsertRefines, InsertFrontRefines, YankRefines, RemoveRefines
       DEF Next, Abs!Next
  <2>2. CASE UNCHANGED vars
    BY <2>2 DEF vars, Abs!vars, Contents, Wrap
  <2> QED BY <2>1, <2>2
<1> QED BY <1>1, <1>2, TypeCorrect, PTL DEF Spec, Abs!Spec, RefinesAbstractQueue
-----------------------------------------------------------------------------
(* The message queue *)

LEMMA MaskIsWrap ==
  ASSUME NEW n \in Nat \ {0}, NEW x \in 0..(2*n - 1)
  PROVE  Messages!Mask(x, n) = Wrap(x, n)
<1>1. CASE x < n
  BY <1>1 DEF Messages!Mask, Wrap
<1>2. CASE x >= n
  <2>1. PICK r \in 0..(n-1) : x = r + n
    <3>1. x - n \in 0..(n-1) /\ x = (x - n) + n
      BY <1>2
    <3> QED BY <3>1
  <2>2. (r + n) % n = r
    OBVIOUS
  <2> QED BY <1>2, <2>1, <2>2 DEF Messages!Mask, Wrap
<1> QED BY <1>1, <1>2

(* The circle of c elements of a table t of n slots, from f to before e. *)
Ring(t, n, f, e, c) ==
  /\ n \in Nat \ {0}
  /\ f \in 0..(n-1)
  /\ c \in 0..n
  /\ e = Wrap(f + c, n)
  /\ DOMAIN t = 0..(n-1)
  /\ \A i \in 0..(c-1) : t[Wrap(f + i, n)] \in Value

LEMMA RingOfMasks ==
  ASSUME NEW t, NEW n, NEW f, NEW e, NEW c
  PROVE  Ring(t, n, f, e, c) <=>
           /\ n \in Nat \ {0}
           /\ f \in 0..(n-1)
           /\ c \in 0..n
           /\ e = Messages!Mask(f + c, n)
           /\ DOMAIN t = 0..(n-1)
           /\ \A i \in 0..(c-1) : t[Messages!Mask(f + i, n)] \in Value
<1> SUFFICES ASSUME n \in Nat \ {0}, f \in 0..(n-1), c \in 0..n
             PROVE  /\ Messages!Mask(f + c, n) = Wrap(f + c, n)
                    /\ \A i \in 0..(c-1) : Messages!Mask(f + i, n) = Wrap(f + i, n)
  BY DEF Ring
<1>1. f + c \in 0..(2*n - 1)
  OBVIOUS
<1>2. \A i \in 0..(c-1) : f + i \in 0..(2*n - 1)
  OBVIOUS
<1> QED BY <1>1, <1>2, MaskIsWrap

LEMMA EndsOfRing ==
  /\ Messages!Ends <=> Ring(table, size, firstfull, firstempty, count)
  /\ Messages!Ends' <=> Ring(table', size', firstfull', firstempty', count')
<1>1. Messages!Ends <=> Ring(table, size, firstfull, firstempty, count)
  BY RingOfMasks DEF Messages!Ends
<1>2. Messages!Ends' <=> Ring(table', size', firstfull', firstempty', count')
  BY RingOfMasks DEF Messages!Ends, Messages!Mask
<1> QED BY <1>1, <1>2

LEMMA MessagesInCircle ==
  /\ Messages!Ends => Messages!Contents = Circle(table, size, firstfull, count)
  /\ Messages!Ends' => Messages!Contents' = Circle(table', size', firstfull', count')
<1>1. ASSUME NEW t, NEW n \in Nat \ {0}, NEW f \in 0..(n-1), NEW c \in 0..n
      PROVE  [i \in 1..c |-> t[Messages!Mask(f + i - 1, n)]] = Circle(t, n, f, c)
  <2>1. \A i \in 1..c : f + i - 1 \in 0..(2*n - 1)
    OBVIOUS
  <2>2. \A i \in 1..c : Messages!Mask(f + i - 1, n) = Wrap(f + i - 1, n)
    BY <2>1, MaskIsWrap
  <2> QED BY <2>2 DEF Circle
<1>2. ASSUME Messages!Ends
      PROVE  Messages!Contents = Circle(table, size, firstfull, count)
  <2>1. size \in Nat \ {0} /\ firstfull \in 0..(size-1) /\ count \in 0..size
    BY <1>2 DEF Messages!Ends
  <2> QED BY <1>1, <2>1 DEF Messages!Contents
<1>3. ASSUME Messages!Ends'
      PROVE  Messages!Contents' = Circle(table', size', firstfull', count')
  <2>1. size' \in Nat \ {0} /\ firstfull' \in 0..(size'-1) /\ count' \in 0..size'
    BY <1>3 DEF Messages!Ends
  <2>2. Messages!Contents' = [i \in 1..count' |-> table'[Messages!Mask(firstfull' + i - 1, size')]]
    BY DEF Messages!Contents, Messages!Mask
  <2> QED BY <1>1, <2>1, <2>2
<1> QED BY <1>2, <1>3

(* What a message put at the end of a ring that is not full makes of it. *)
LEMMA PutInRing ==
  ASSUME NEW t, NEW n, NEW f, NEW e, NEW c, NEW m \in Value,
         Ring(t, n, f, e, c), c < n,
         NEW u, DOMAIN u = DOMAIN t, u[e] = m, \A s \in DOMAIN t : s # e => u[s] = t[s]
  PROVE  /\ Ring(u, n, f, Messages!Mask(e + 1, n), c + 1)
         /\ Circle(u, n, f, c + 1) = Append(Circle(t, n, f, c), m)
<1>1. /\ n \in Nat \ {0} /\ f \in 0..(n-1) /\ c \in 0..(n-1) /\ c + 1 \in 0..n
      /\ e = Wrap(f + c, n) /\ DOMAIN t = 0..(n-1) /\ c \in Nat /\ c + 1 \in Nat
      /\ \A i \in 0..(c-1) : t[Wrap(f + i, n)] \in Value
  BY DEF Ring
<1>2. e \in 0..(n-1) /\ u[e] = m /\ DOMAIN u = 0..(n-1)
  BY <1>1 DEF Wrap
<1>3. ASSUME NEW i \in 0..(c-1)
      PROVE  u[Wrap(f + i, n)] = t[Wrap(f + i, n)]
  <2>1. i \in 0..(n-1) /\ i # c
    BY <1>1
  <2>2. Wrap(f + i, n) \in 0..(n-1) /\ Wrap(f + i, n) # e
    <3>1. c \in 0..(n-1)
      BY <1>1
    <3> QED BY ONLY <1>1, <2>1, <3>1, Slots
  <2> QED BY <1>1, <2>2
<1>4. Messages!Mask(e + 1, n) = Wrap(f + (c + 1), n)
  <2>1. e + 1 \in 0..(2*n - 1)
    BY <1>1, <1>2
  <2>2. Messages!Mask(e + 1, n) = Wrap(e + 1, n)
    BY <1>1, <2>1, MaskIsWrap
  <2> QED BY <1>1, <2>2 DEF Wrap
<1>5. ASSUME NEW i \in 0..((c+1)-1)
      PROVE  u[Wrap(f + i, n)] \in Value
  <2>1. i \in 0..(c-1) \/ i = c
    BY <1>1
  <2> QED BY <1>1, <1>2, <1>3, <2>1
<1>6. Ring(u, n, f, Messages!Mask(e + 1, n), c + 1)
  BY <1>1, <1>2, <1>4, <1>5 DEF Ring
<1>7. Circle(u, n, f, c + 1) = Append(Circle(t, n, f, c), m)
  <2>1. /\ Circle(u, n, f, c + 1) \in Seq(Value) /\ Len(Circle(u, n, f, c + 1)) = c + 1
        /\ \A i \in 0..((c+1)-1) : Circle(u, n, f, c + 1)[i+1] = u[Wrap(f + i, n)]
    BY ONLY ZenonT(60), <1>1, <1>5, CircleIsSeq
  <2>2. /\ Circle(t, n, f, c) \in Seq(Value) /\ Len(Circle(t, n, f, c)) = c
        /\ \A i \in 0..(c-1) : Circle(t, n, f, c)[i+1] = t[Wrap(f + i, n)]
    BY <1>1, CircleIsSeq
  <2>3. /\ Append(Circle(t, n, f, c), m) \in Seq(Value)
        /\ Len(Append(Circle(t, n, f, c), m)) = c + 1
        /\ Append(Circle(t, n, f, c), m)[c+1] = m
        /\ \A i \in 1..c : Append(Circle(t, n, f, c), m)[i] = Circle(t, n, f, c)[i]
    BY <1>1, <2>2
  <2>4. ASSUME NEW i \in 1..(c+1)
        PROVE  Circle(u, n, f, c + 1)[i] = Append(Circle(t, n, f, c), m)[i]
    <3>1. i - 1 \in 0..((c+1)-1) /\ (i-1) + 1 = i
      BY <1>1
    <3>2. Circle(u, n, f, c + 1)[i] = u[Wrap(f + (i-1), n)]
      BY <2>1, <3>1
    <3>3. CASE i = c + 1
      <4>1. i - 1 = c
        BY <1>1, <3>3
      <4> QED BY <1>1, <1>2, <2>3, <3>2, <3>3, <4>1
    <3>4. CASE i # c + 1
      <4>1. i \in 1..c /\ i - 1 \in 0..(c-1)
        BY <1>1, <3>4
      <4>2. Circle(t, n, f, c)[i] = t[Wrap(f + (i-1), n)]
        BY <2>2, <3>1, <4>1
      <4> QED BY <1>3, <2>3, <3>2, <4>1, <4>2
    <3> QED BY <3>3, <3>4
  <2> QED BY <1>1, <2>1, <2>3, <2>4, SeqEqual
<1> QED BY <1>6, <1>7

(* The expansion of a full table, whose two ends are the same slot: the part
   before it moves up, and the message goes after it. *)
LEMMA ExpandedRing ==
  ASSUME Messages!Ends, Messages!Full
  PROVE  /\ Ring(Messages!ExpandTable, 2 * size, firstfull, firstempty + size, count)
         /\ Circle(Messages!ExpandTable, 2 * size, firstfull, count)
              = Circle(table, size, firstfull, count)
<1> DEFINE t == Messages!ExpandTable
<1>1. /\ size \in Nat \ {0} /\ firstfull \in 0..(size-1) /\ count = size
      /\ firstempty = Wrap(firstfull + count, size) /\ DOMAIN table = 0..(size-1)
      /\ \A i \in 0..(count-1) : table[Wrap(firstfull + i, size)] \in Value
  BY EndsOfRing DEF Ring, Messages!Full
<1>2. firstempty = firstfull /\ firstempty + size = Wrap(firstfull + count, 2 * size)
  BY <1>1 DEF Wrap
<1>3. ASSUME NEW i \in 0..(count-1)
      PROVE  t[Wrap(firstfull + i, 2 * size)] = table[Wrap(firstfull + i, size)]
  BY <1>1, <1>2 DEF Messages!ExpandTable, Wrap
<1>4. DOMAIN t = 0..(2 * size - 1)
  BY DEF Messages!ExpandTable
<1> HIDE DEF t
<1>5. Ring(t, 2 * size, firstfull, firstempty + size, count)
  <2>1. 2 * size \in Nat \ {0} /\ firstfull \in 0..(2 * size - 1) /\ count \in 0..(2 * size)
    BY <1>1
  <2>2. \A i \in 0..(count-1) : t[Wrap(firstfull + i, 2 * size)] \in Value
    BY <1>1, <1>3
  <2> QED BY ONLY <1>2, <1>4, <2>1, <2>2 DEF Ring
<1>6. \A i \in 1..count : i - 1 \in 0..(count-1) /\ firstfull + i - 1 = firstfull + (i-1)
  BY <1>1
<1>7. \A i \in 1..count :
        t[Wrap(firstfull + i - 1, 2 * size)] = table[Wrap(firstfull + i - 1, size)]
  BY <1>3, <1>6
<1>8. Circle(t, 2 * size, firstfull, count) = Circle(table, size, firstfull, count)
  BY <1>7 DEF Circle
<1> QED BY <1>5, <1>8 DEF t

LEMMA MessageInserted ==
  ASSUME Messages!Ends, NEW m \in Value, Messages!Insert(m)
  PROVE  Messages!Ends' /\ Messages!Abs!Insert(m)
<1>1. Ring(table, size, firstfull, firstempty, count)
  BY EndsOfRing
<1>2. PICK t, n, e :
        /\ Ring(t, n, firstfull, e, count) /\ count < n
        /\ Circle(t, n, firstfull, count) = Circle(table, size, firstfull, count)
        /\ Messages!PutAt(t, n, e, m)
  <2>1. CASE ~Messages!Full /\ Messages!PutAt(table, size, firstempty, m)
    <3>1. count < size
      BY <1>1, <2>1 DEF Messages!Full, Ring
    <3> QED BY <1>1, <2>1, <3>1
  <2>2. CASE /\ Messages!Full
             /\ Messages!PutAt(Messages!ExpandTable, 2 * size, firstempty + size, m)
    <3>1. count < 2 * size
      BY <1>1 DEF Ring
    <3> QED BY <2>2, <3>1, ExpandedRing
  <2> QED BY <2>1, <2>2 DEF Messages!Insert
<1>3. /\ table' = [t EXCEPT ![e] = m] /\ size' = n /\ firstfull' = firstfull
      /\ firstempty' = Messages!Mask(e + 1, n) /\ count' = count + 1
      /\ result' = NoValue
  BY <1>2 DEF Messages!PutAt
<1>4. /\ Ring(table', size', firstfull', firstempty', count')
      /\ Circle(table', size', firstfull', count')
           = Append(Circle(table, size, firstfull, count), m)
  <2>1. /\ Ring(table', n, firstfull, Messages!Mask(e + 1, n), count + 1)
        /\ Circle(table', n, firstfull, count + 1) = Append(Circle(t, n, firstfull, count), m)
    <3>1. Ring(t, n, firstfull, e, count) /\ count < n
      BY <1>2
    <3>2. DOMAIN t = 0..(n-1) /\ e \in 0..(n-1)
      BY <3>1 DEF Ring, Wrap
    <3>3. DOMAIN table' = DOMAIN t /\ table'[e] = m /\ \A s \in DOMAIN t : s # e => table'[s] = t[s]
      BY ONLY <1>3, <3>2
    <3> QED BY ONLY <3>1, <3>3, PutInRing, m \in Value
  <2> QED BY ONLY <1>2, <1>3, <2>1
<1>5. Messages!Ends'
  BY <1>4, EndsOfRing
<1>6. Messages!Contents' = Append(Messages!Contents, m)
  BY <1>4, <1>5, MessagesInCircle
<1> QED BY <1>3, <1>5, <1>6 DEF Messages!Abs!Insert

LEMMA MessageRemoved ==
  ASSUME Messages!Ends, Messages!Remove
  PROVE  Messages!Ends' /\ Messages!Abs!Remove
<1>1. /\ size \in Nat \ {0} /\ firstfull \in 0..(size-1) /\ count \in 1..size
      /\ firstempty = Wrap(firstfull + count, size) /\ DOMAIN table = 0..(size-1)
      /\ \A i \in 0..(count-1) : table[Wrap(firstfull + i, size)] \in Value
      /\ count \in Nat /\ count - 1 \in Nat
  BY EndsOfRing DEF Ring, Messages!Remove
<1>2. /\ table' = table /\ size' = size /\ firstempty' = firstempty
      /\ count' = count - 1 /\ result' = table[firstfull]
      /\ firstfull' = Wrap(firstfull + 1, size)
  <2>1. firstfull + 1 \in 0..(2*size - 1)
    BY <1>1
  <2> QED BY <1>1, <2>1, MaskIsWrap DEF Messages!Remove
<1>3. ASSUME NEW i \in 0..(count-2)
      PROVE  table'[Wrap(firstfull' + i, size')] = table[Wrap(firstfull + (i+1), size)]
  BY <1>1, <1>2 DEF Wrap
<1>4. ASSUME NEW i \in 0..(count'-1)
      PROVE  table'[Wrap(firstfull' + i, size')] \in Value
  <2>1. i \in 0..(count-2) /\ i + 1 \in 0..(count-1)
    BY <1>1, <1>2
  <2> QED BY <1>1, <1>3, <2>1
<1>5. firstfull' \in 0..(size'-1) /\ firstempty' = Wrap(firstfull' + count', size')
  BY <1>1, <1>2 DEF Wrap
<1>6. Ring(table', size', firstfull', firstempty', count')
  BY <1>1, <1>2, <1>4, <1>5 DEF Ring
<1>7. Messages!Ends'
  BY <1>6, EndsOfRing
<1>8. /\ Messages!Contents = Circle(table, size, firstfull, count)
      /\ Messages!Contents \in Seq(Value) /\ Len(Messages!Contents) = count
      /\ \A i \in 0..(count-1) : Messages!Contents[i+1] = table[Wrap(firstfull + i, size)]
  <2>1. /\ Circle(table, size, firstfull, count) \in Seq(Value)
        /\ Len(Circle(table, size, firstfull, count)) = count
        /\ \A i \in 0..(count-1) :
             Circle(table, size, firstfull, count)[i+1] = table[Wrap(firstfull + i, size)]
    BY ONLY <1>1, CircleIsSeq
  <2> QED BY <2>1, MessagesInCircle
<1>9. /\ Messages!Contents' = Circle(table', size', firstfull', count')
      /\ Messages!Contents' \in Seq(Value) /\ Len(Messages!Contents') = count - 1
      /\ \A i \in 0..(count'-1) :
           Messages!Contents'[i+1] = table'[Wrap(firstfull' + i, size')]
  <2>1. /\ Circle(table', size', firstfull', count') \in Seq(Value)
        /\ Len(Circle(table', size', firstfull', count')) = count'
        /\ \A i \in 0..(count'-1) : Circle(table', size', firstfull', count')[i+1]
                                     = table'[Wrap(firstfull' + i, size')]
    <3>1. size' \in Nat \ {0} /\ count' \in Nat /\ firstfull' \in 0..(size'-1)
      BY <1>1, <1>2, <1>5
    <3> QED BY ONLY <1>4, <3>1, CircleIsSeq
  <2> QED BY <1>2, <1>7, <2>1, MessagesInCircle
<1>10. /\ Messages!Contents # <<>>
       /\ Tail(Messages!Contents) \in Seq(Value)
       /\ Len(Tail(Messages!Contents)) = count - 1
       /\ Head(Messages!Contents) = Messages!Contents[1]
       /\ \A i \in 1..(count-1) : Tail(Messages!Contents)[i] = Messages!Contents[i+1]
  BY <1>1, <1>8, HeadTailProperties
<1>11. result' = Head(Messages!Contents)
  <2>1. 0 \in 0..(count-1) /\ 0 + 1 = 1 /\ Wrap(firstfull + 0, size) = firstfull
    BY <1>1 DEF Wrap
  <2> QED BY <1>2, <1>8, <1>10, <2>1
<1>12. ASSUME NEW i \in 1..Len(Messages!Contents')
       PROVE  Messages!Contents'[i] = Tail(Messages!Contents)[i]
  <2>1. /\ i - 1 \in 0..(count'-1) /\ i - 1 \in 0..(count-2) /\ (i-1) + 1 = i
        /\ i \in 0..(count-1) /\ i \in 1..(count-1)
    BY <1>1, <1>2, <1>9
  <2>2. Messages!Contents'[i] = table'[Wrap(firstfull' + (i-1), size')]
    BY <1>9, <2>1
  <2>3. Messages!Contents[i+1] = table[Wrap(firstfull + i, size)]
    BY <1>8, <2>1
  <2> QED BY <1>3, <1>10, <2>1, <2>2, <2>3
<1>13. Messages!Contents' = Tail(Messages!Contents)
  BY <1>9, <1>10, <1>12, SeqEqual
<1> QED BY <1>7, <1>10, <1>11, <1>13 DEF Messages!Abs!Remove

(* The two ends of the message queue and its count agree, however often it has
   wrapped and doubled: what the expansion relies on. *)
THEOREM MessageEndsAgree == Messages!ConstantsOK => (Messages!Spec => []Messages!Ends)
<1> SUFFICES ASSUME Messages!ConstantsOK
             PROVE  Messages!Spec => []Messages!Ends
  OBVIOUS
<1>1. Messages!Init => Messages!Ends
  BY DEF Messages!Init, Messages!Ends, Messages!ConstantsOK, Messages!Mask
<1>2. Messages!Ends /\ [Messages!Next]_(Messages!vars) => Messages!Ends'
  <2> SUFFICES ASSUME Messages!Ends, [Messages!Next]_(Messages!vars)
               PROVE  Messages!Ends'
    OBVIOUS
  <2>1. CASE Messages!Next
    BY <2>1, MessageInserted, MessageRemoved DEF Messages!Next
  <2>2. CASE UNCHANGED Messages!vars
    BY <2>2 DEF Messages!vars, Messages!Ends, Messages!Mask
  <2> QED BY <2>1, <2>2
<1> QED BY <1>1, <1>2, PTL DEF Messages!Spec

(* The messages of other nodes are served in the order they arrived, none lost
   or repeated by a wrap or an expansion: mqueue.c implements AbstractQueue. *)
THEOREM MessageQueue ==
  Messages!ConstantsOK => (Messages!Spec => Messages!RefinesAbstractQueue)
<1> SUFFICES ASSUME Messages!ConstantsOK
             PROVE  Messages!Spec => Messages!RefinesAbstractQueue
  OBVIOUS
<1>1. Messages!Init => Messages!Abs!Init
  BY DEF Messages!Init, Messages!Abs!Init, Messages!Contents
<1>2. Messages!Ends /\ [Messages!Next]_(Messages!vars) => [Messages!Abs!Next]_(Messages!Abs!vars)
  <2> SUFFICES ASSUME Messages!Ends, [Messages!Next]_(Messages!vars)
               PROVE  [Messages!Abs!Next]_(Messages!Abs!vars)
    OBVIOUS
  <2>1. CASE Messages!Next
    BY <2>1, MessageInserted, MessageRemoved DEF Messages!Next, Messages!Abs!Next
  <2>2. CASE UNCHANGED Messages!vars
    BY <2>2 DEF Messages!vars, Messages!Abs!vars, Messages!Contents, Messages!Mask
  <2> QED BY <2>1, <2>2
<1>3. Messages!Spec => []Messages!Ends
  BY MessageEndsAgree
<1> QED BY <1>1, <1>2, <1>3, PTL DEF Messages!Spec, Messages!Abs!Spec, Messages!RefinesAbstractQueue

-----------------------------------------------------------------------------
(* A set of numbers that has 0, and with each number the next, has them all. *)
LEMMA Inductive ==
  ASSUME NEW S \in SUBSET Nat, 0 \in S, \A n \in S : n + 1 \in S
  PROVE  S = Nat
<1> SUFFICES ASSUME NEW n \in Nat, n \notin S
             PROVE  FALSE
  OBVIOUS
<1> DEFINE A == S \cap 0..n   B == A \ {0}   f == [a \in A |-> a + 1]
<1>1. IsFiniteSet(A)
  <2>1. 0 \in Int /\ n \in Int
    OBVIOUS
  <2>2. IsFiniteSet(0..n)
    BY ONLY <2>1, FS_Interval
  <2> QED BY <2>2, FS_Subset
<1>2. 0 \in A
  OBVIOUS
<1>3. f \in [A -> B] /\ \A a, b \in A : f[a] = f[b] => a = b
  <2>1. \A a \in A : a + 1 \in B
    OBVIOUS
  <2> QED BY <2>1
<1> HIDE DEF A, f
<1>4. IsFiniteSet(B) /\ Cardinality(B) = Cardinality(A) - 1
  BY <1>1, <1>2, FS_RemoveElement
<1>5. Cardinality(A) \in Nat
  BY <1>1, FS_CardinalityType
<1>6. Cardinality(B) < Cardinality(A)
  BY <1>4, <1>5
<1> HIDE DEF B
<1> QED BY <1>1, <1>3, <1>4, <1>6, FS_PigeonHole

(* A set of numbers up to n has a greatest. *)
LEMMA Greatest ==
  ASSUME NEW n \in Nat, NEW T \in SUBSET (0..n), T # {}
  PROVE  \E x \in T : \A y \in T : x >= y
<1> SUFFICES ASSUME \A x \in T : \E y \in T : ~(x >= y)
             PROVE  FALSE
  OBVIOUS
<1> DEFINE S == {k \in Nat : \E x \in T : k <= x}
<1>1. S = Nat
  <2>1. 0 \in S
    <3>1. PICK x \in T : TRUE
      OBVIOUS
    <3> QED BY <3>1
  <2>2. ASSUME NEW k \in S
        PROVE  k + 1 \in S
    <3>1. PICK x \in T : k <= x
      OBVIOUS
    <3>2. PICK y \in T : ~(x >= y)
      OBVIOUS
    <3> QED BY <3>1, <3>2
  <2> HIDE DEF S
  <2>3. S \in SUBSET Nat
    BY DEF S
  <2> QED BY ONLY <2>1, <2>2, <2>3, Inductive
<1>2. n + 1 \in S
  BY <1>1
<1> QED BY <1>2

-----------------------------------------------------------------------------
(* What waits for its time, and times. *)

Clocked == [sec : Nat, usec : 0..(Base - 1)]
When == [sec : Nat, usec : 0..Base]
Sleeper == [when : When, for : Processes \cup {Ping}]
Sorted(s) == \A i, j \in 1..Len(s) : i < j => Clock!TimeLess(s[i].when, s[j].when)

LEMMA DivMod ==
  ASSUME NEW b \in Nat \ {0}, NEW n \in Nat
  PROVE  n \div b \in Nat /\ n % b \in 0..(b - 1) /\ (n \div b) * b + (n % b) = n
<1>1. n % b \in 0..(b - 1)
  OBVIOUS
<1>2. n \div b \in Nat
  OBVIOUS
<1>3. (n \div b) * b + (n % b) = n
  OBVIOUS
<1> QED BY <1>1, <1>2, <1>3

LEMMA TimeOf ==
  ASSUME Clock!ConstantsOK, NEW n \in Nat
  PROVE  Clock!Time(n) \in Clocked /\ Clock!Units(Clock!Time(n)) = n
<1>1. Base \in Nat \ {0}
  BY DEF Clock!ConstantsOK
<1>2. n \div Base \in Nat /\ n % Base \in 0..(Base - 1) /\ (n \div Base) * Base + (n % Base) = n
  BY ONLY <1>1, n \in Nat, DivMod
<1>3. Clock!Time(n) = [sec |-> n \div Base, usec |-> n % Base]
  BY DEF Clock!Time
<1>4. Clock!Time(n).sec = n \div Base /\ Clock!Time(n).usec = n % Base
  BY <1>3
<1> QED BY <1>2, <1>3, <1>4 DEF Clock!Units, Clocked

LEMMA LessUnits ==
  ASSUME Clock!ConstantsOK, NEW a \in When, NEW b \in Clocked, Clock!TimeLess(a, b)
  PROVE  Clock!Units(a) <= Clock!Units(b)
<1>1. Base \in Nat /\ a.sec \in Nat /\ a.usec \in 0..Base /\ b.sec \in Nat /\ b.usec \in 0..(Base - 1)
  BY DEF Clock!ConstantsOK, When, Clocked
<1>2. PICK x, y, B : x = a.sec /\ y = b.sec /\ B = Base
  OBVIOUS
<1>3. CASE x < y
  <2>1. PICK d \in Nat : y = x + 1 + d
    <3>1. y - x - 1 \in Nat /\ y = x + 1 + (y - x - 1)
      BY <1>1, <1>2, <1>3
    <3> QED BY <3>1
  <2>2. y * B = x * B + B + d * B
    BY <1>1, <1>2, <2>1
  <2>3. d * B \in Nat /\ x * B \in Nat /\ B \in Nat /\ y * B \in Nat
    BY <1>1, <1>2, <2>1
  <2> QED BY <1>1, <1>2, <2>2, <2>3 DEF Clock!Units
<1>4. CASE x = y /\ a.usec <= b.usec
  <2>1. x * B \in Nat
    BY <1>1, <1>2
  <2> QED BY <1>1, <1>2, <1>4, <2>1 DEF Clock!Units
<1> QED BY <1>1, <1>2, <1>3, <1>4 DEF Clock!TimeLess

LEMMA PlusWhen ==
  ASSUME Clock!ConstantsOK, NEW a \in Clocked, NEW b \in Clocked
  PROVE  Clock!TimePlus(a, b) \in When
BY DEF Clock!ConstantsOK, Clock!TimePlus, When, Clocked

LEMMA MinusWhen ==
  ASSUME Clock!ConstantsOK, NEW a \in When, NEW b \in Clocked
  PROVE  /\ Clock!TimeMinus(a, b) \in When
         /\ a.usec < Base => Clock!Valid(Clock!TimeMinus(a, b))
         /\ Clock!Units(Clock!TimeMinus(a, b)) \in Nat
<1> DEFINE t == Clock!TimeMinus(a, b)
<1>1. Clock!Zero \in Clocked
  BY TimeOf DEF Clock!Zero
<1>2. t \in When /\ (a.usec < Base => t.usec < Base)
  BY <1>1 DEF Clock!ConstantsOK, Clock!TimeMinus, When, Clocked
<1> HIDE DEF t
<1>3. t.sec \in Nat /\ t.usec \in Nat /\ Base \in Nat
  BY <1>2 DEF When, Clock!ConstantsOK
<1>4. t.sec * Base \in Nat
  BY <1>3
<1>5. Clock!Units(t) \in Nat
  BY <1>3, <1>4 DEF Clock!Units
<1> QED BY <1>2, <1>5 DEF Clock!Valid, t

LEMMA BeforeIsLongest ==
  ASSUME NEW s \in Seq(Sleeper), NEW e \in Sleeper
  PROVE  LET k == Clock!Before(s, e)
         IN /\ k \in 0..Len(s)
            /\ \A i \in 1..k : Clock!TimeLess(s[i].when, e.when)
            /\ k < Len(s) => ~Clock!TimeLess(s[k + 1].when, e.when)
<1> DEFINE P(i) == Clock!TimeLess(s[i].when, e.when)
           T == {k \in 0..Len(s) : \A i \in 1..k : P(i)}
           k == Clock!Before(s, e)
<1>1. Len(s) \in Nat
  OBVIOUS
<1>2. k = Clock!Max(T)
  BY DEF Clock!Before
<1> HIDE DEF P
<1>3. T \in SUBSET (0..Len(s)) /\ 0 \in T
  BY <1>1
<1>4. \E x \in T : \A y \in T : x >= y
  BY ONLY <1>1, <1>3, Greatest
<1> HIDE DEF k
<1>5. k \in T /\ \A y \in T : k >= y
  BY <1>2, <1>4 DEF Clock!Max
<1>6. ASSUME k < Len(s), P(k + 1)
      PROVE  FALSE
  <2>1. k + 1 \in T
    BY <1>1, <1>5, <1>6
  <2> QED BY <1>1, <1>5, <2>1
<1>7. /\ k \in 0..Len(s) /\ \A i \in 1..k : P(i)
      /\ k < Len(s) => ~P(k + 1)
  BY <1>5, <1>6
<1> QED BY <1>7 DEF P, k

Behind(k, s, e) == Clock!InsertAt(s, k + 1, e)

LEMMA InsertedAt ==
  ASSUME NEW s \in Seq(Sleeper), NEW e \in Sleeper, NEW k \in 0..Len(s)
  PROVE  \E t \in Seq(Sleeper) :
           /\ t = Behind(k, s, e) /\ Len(t) = Len(s) + 1 /\ t[k + 1] = e
           /\ \A i \in 1..k : t[i] = s[i]
           /\ \A i \in (k + 1)..Len(s) : t[i + 1] = s[i]
<1> DEFINE a == SubSeq(s, 1, k)   b == <<e>>   c == SubSeq(s, k + 1, Len(s))
<1>0. PICK t : t = Behind(k, s, e)
  OBVIOUS
<1>1. t = (a \o b) \o c /\ Len(s) \in Nat /\ k \in Nat
  BY <1>0 DEF Clock!InsertAt, Behind
<1>2. a \in Seq(Sleeper) /\ Len(a) = k /\ \A i \in 1..k : a[i] = s[i]
  <2>1. 1 \in Int /\ k \in Int /\ \A i \in 1..k : s[i] \in Sleeper
    BY <1>1
  <2>2. /\ SubSeq(s, 1, k) \in Seq(Sleeper)
        /\ Len(SubSeq(s, 1, k)) = IF 1 <= k THEN k - 1 + 1 ELSE 0
        /\ \A i \in 1..(k - 1 + 1) : SubSeq(s, 1, k)[i] = s[1 + i - 1]
    BY ONLY <2>1, SubSeqProperties
  <2> QED BY <1>1, <2>2
<1>3. b \in Seq(Sleeper) /\ Len(b) = 1 /\ b[1] = e
  OBVIOUS
<1>4. c \in Seq(Sleeper) /\ Len(c) = Len(s) - k /\ \A i \in 1..(Len(s) - k) : c[i] = s[k + i]
  <2>1. k + 1 \in Int /\ Len(s) \in Int /\ \A i \in (k + 1)..Len(s) : s[i] \in Sleeper
    BY <1>1
  <2>2. PICK m, n : m = k + 1 /\ n = Len(s)
    OBVIOUS
  <2>3. /\ SubSeq(s, m, n) \in Seq(Sleeper)
        /\ Len(SubSeq(s, m, n)) = IF m <= n THEN n - m + 1 ELSE 0
        /\ \A i \in 1..(n - m + 1) : SubSeq(s, m, n)[i] = s[m + i - 1]
    BY ONLY <2>1, <2>2, SubSeqProperties
  <2> QED BY <1>1, <2>2, <2>3
<1> HIDE DEF a, b, c
<1>5. /\ a \o b \in Seq(Sleeper) /\ Len(a \o b) = k + 1
      /\ \A i \in 1..(k + 1) : (a \o b)[i] = IF i <= k THEN a[i] ELSE b[i - k]
  <2>1. /\ a \o b \in Seq(Sleeper) /\ Len(a \o b) = Len(a) + Len(b)
        /\ \A i \in 1..(Len(a) + Len(b)) : (a \o b)[i] = IF i <= Len(a) THEN a[i] ELSE b[i - Len(a)]
    BY ONLY <1>2, <1>3, ConcatProperties
  <2> QED BY <1>2, <1>3, <2>1
<1>6. PICK d : d = a \o b
  OBVIOUS
<1>7. /\ d \o c \in Seq(Sleeper) /\ Len(d \o c) = Len(s) + 1
      /\ \A i \in 1..(Len(s) + 1) : (d \o c)[i] = IF i <= k + 1 THEN d[i] ELSE c[i - (k + 1)]
  <2>1. /\ d \o c \in Seq(Sleeper) /\ Len(d \o c) = Len(d) + Len(c)
        /\ \A i \in 1..(Len(d) + Len(c)) : (d \o c)[i] = IF i <= Len(d) THEN d[i] ELSE c[i - Len(d)]
    <3>1. d \in Seq(Sleeper)
      BY <1>5, <1>6
    <3>2. c \in Seq(Sleeper)
      BY <1>4
    <3> QED BY ONLY <3>1, <3>2, ConcatProperties, Zenon
  <2>2. Len(d) = k + 1 /\ Len(c) = Len(s) - k /\ Len(d) + Len(c) = Len(s) + 1
    <3>1. Len(d) = k + 1
      BY <1>5, <1>6, Zenon
    <3>2. Len(c) = Len(s) - k
      BY <1>4
    <3>3. Len(s) \in Nat /\ k \in Nat
      BY <1>1
    <3> QED BY ONLY <3>1, <3>2, <3>3
  <2> QED BY <2>1, <2>2
<1>8. t = d \o c
  BY <1>1, <1>6
<1>9. t[k + 1] = e
  <2>1. k + 1 \in 1..(Len(s) + 1) /\ k + 1 <= k + 1 /\ k + 1 \in 1..(k + 1) /\ ~(k + 1 <= k) /\ (k + 1) - k = 1
    BY <1>1
  <2> QED BY <1>3, <1>5, <1>6, <1>7, <1>8, <2>1
<1>10. ASSUME NEW i \in 1..k
       PROVE  t[i] = s[i]
  <2>1. i \in 1..(Len(s) + 1) /\ i <= k + 1 /\ i \in 1..(k + 1) /\ i <= k
    BY <1>1
  <2> QED BY <1>2, <1>5, <1>6, <1>7, <1>8, <2>1
<1>11. ASSUME NEW i \in (k + 1)..Len(s)
       PROVE  t[i + 1] = s[i]
  <2>1. i + 1 \in 1..(Len(s) + 1) /\ ~(i + 1 <= k + 1) /\ (i + 1) - (k + 1) = i - k
        /\ i - k \in 1..(Len(s) - k) /\ k + (i - k) = i
    BY <1>1
  <2> QED BY <1>4, <1>7, <1>8, <2>1
<1> QED BY <1>0, <1>7, <1>8, <1>9, <1>10, <1>11

(* The sleepers stay in the order of their times. *)
LEMMA LessIsOrder ==
  ASSUME NEW a \in When, NEW b \in When, NEW c \in When
  PROVE  /\ Clock!TimeLess(a, b) \/ Clock!TimeLess(b, a)
         /\ Clock!TimeLess(a, b) /\ Clock!TimeLess(b, c) => Clock!TimeLess(a, c)
<1>1. /\ a.sec \in Nat /\ b.sec \in Nat /\ c.sec \in Nat
      /\ a.usec \in Int /\ b.usec \in Int /\ c.usec \in Int
  <2>1. Base \in Nat \/ Base \notin Nat
    OBVIOUS
  <2> QED BY DEF When
<1> QED BY <1>1 DEF Clock!TimeLess

LEMMA InsertedKeepsOrder ==
  ASSUME NEW s \in Seq(Sleeper), Sorted(s), NEW e \in Sleeper
  PROVE  \E k \in 0..Len(s) :
           /\ Clock!Inserted(s, e) = Behind(k, s, e)
           /\ Sorted(Clock!Inserted(s, e))
<1>1. PICK k : k = Clock!Before(s, e)
  OBVIOUS
<1>2. /\ k \in 0..Len(s) /\ \A i \in 1..k : Clock!TimeLess(s[i].when, e.when)
      /\ k < Len(s) => ~Clock!TimeLess(s[k + 1].when, e.when)
  BY ONLY <1>1, s \in Seq(Sleeper), e \in Sleeper, BeforeIsLongest
<1>3. PICK t : t = Clock!Inserted(s, e)
  OBVIOUS
<1>4. t = Behind(k, s, e)
  BY <1>1, <1>3 DEF Clock!Inserted, Behind
<1>5. /\ Len(t) = Len(s) + 1 /\ t[k + 1] = e
      /\ \A i \in 1..k : t[i] = s[i]
      /\ \A i \in (k + 1)..Len(s) : t[i + 1] = s[i]
  <2>1. k \in 0..Len(s)
    BY <1>2
  <2>2. PICK u \in Seq(Sleeper) :
           /\ u = Behind(k, s, e) /\ Len(u) = Len(s) + 1 /\ u[k + 1] = e
           /\ \A i \in 1..k : u[i] = s[i]
           /\ \A i \in (k + 1)..Len(s) : u[i + 1] = s[i]
    BY ONLY <2>1, s \in Seq(Sleeper), e \in Sleeper, InsertedAt, Zenon
  <2>3. u = t
    BY <2>2, <1>4
  <2> QED BY <2>2, <2>3
<1>6. Len(s) \in Nat /\ e.when \in When /\ \A i \in 1..Len(s) : s[i].when \in When
  <2>1. Len(s) \in Nat /\ \A i \in 1..Len(s) : s[i] \in Sleeper
    OBVIOUS
  <2> QED BY <2>1 DEF Sleeper
<1>7. ASSUME NEW i \in (k + 1)..Len(s)
      PROVE  Clock!TimeLess(e.when, s[i].when)
  <2>1. k + 1 \in 1..Len(s) /\ i \in 1..Len(s) /\ k < Len(s)
    BY <1>2, <1>6
  <2>2. Clock!TimeLess(e.when, s[k + 1].when)
    BY <1>2, <1>6, <2>1, LessIsOrder
  <2>3. i = k + 1 \/ Clock!TimeLess(s[k + 1].when, s[i].when)
    BY <1>2, <1>6, <2>1 DEF Sorted
  <2> QED BY <1>6, <2>1, <2>2, <2>3, LessIsOrder
<1>8. ASSUME NEW i \in 1..Len(t), NEW j \in 1..Len(t), i < j
      PROVE  Clock!TimeLess(t[i].when, t[j].when)
  <2>1. CASE j <= k
    <3>1. i \in 1..k /\ j \in 1..k /\ i \in 1..Len(s) /\ j \in 1..Len(s)
      BY <1>2, <1>5, <1>6, <1>8, <2>1
    <3>2. t[i] = s[i] /\ t[j] = s[j]
      BY <1>5, <3>1
    <3> QED BY <1>8, <3>1, <3>2 DEF Sorted
  <2>2. CASE i <= k /\ j = k + 1
    BY <1>2, <1>5, <1>6, <1>8, <2>2
  <2>3. CASE j > k + 1
    <3>1. j - 1 \in (k + 1)..Len(s) /\ (j - 1) + 1 = j /\ t[j] = s[j - 1]
      BY <1>2, <1>5, <1>6, <2>3
    <3>2. CASE i <= k
      <4>1. i \in 1..Len(s) /\ j - 1 \in 1..Len(s) /\ i < j - 1 /\ t[i] = s[i]
        BY <1>2, <1>5, <1>6, <2>3, <3>2
      <4> QED BY <3>1, <4>1 DEF Sorted
    <3>3. CASE i = k + 1
      BY <1>5, <1>7, <3>1, <3>3
    <3>4. CASE i > k + 1
      <4>1. i - 1 \in (k + 1)..Len(s) /\ (i - 1) + 1 = i /\ t[i] = s[i - 1]
        BY <1>2, <1>5, <1>6, <1>8, <3>4
      <4>2. i - 1 \in 1..Len(s) /\ j - 1 \in 1..Len(s) /\ i - 1 < j - 1
        BY <1>2, <1>6, <1>8, <3>1, <4>1
      <4> QED BY <3>1, <4>1, <4>2 DEF Sorted
    <3> QED BY <1>2, <1>5, <1>6, <3>2, <3>3, <3>4
  <2> QED BY <1>2, <1>5, <1>6, <1>8, <2>1, <2>2, <2>3
<1>9. Sorted(t)
  BY <1>8 DEF Sorted
<1> QED BY <1>2, <1>3, <1>4, <1>9

(* How many are delayed. *)
Asleep(s) == {i \in 1..Len(s) : s[i].for # Ping}

LEMMA AsleepAfterInsert ==
  ASSUME NEW s \in Seq(Sleeper), NEW e \in Sleeper, NEW k \in 0..Len(s), NEW t,
         Len(t) = Len(s) + 1, t[k + 1] = e, \A i \in 1..k : t[i] = s[i],
         \A i \in (k + 1)..Len(s) : t[i + 1] = s[i]
  PROVE  /\ IsFiniteSet(Asleep(s)) /\ Cardinality(Asleep(s)) \in Nat
         /\ Cardinality(Asleep(t)) = IF e.for = Ping THEN Cardinality(Asleep(s)) ELSE Cardinality(Asleep(s)) + 1
<1> DEFINE A == Asleep(s)   B == Asleep(t) \ {k + 1}   f == [i \in A |-> IF i <= k THEN i ELSE i + 1]
<1>1. Len(s) \in Nat /\ k \in Nat /\ k <= Len(s)
  OBVIOUS
<1>2. IsFiniteSet(A) /\ Cardinality(A) \in Nat
  <2>1. 1 \in Int /\ Len(s) \in Int
    BY <1>1
  <2>2. IsFiniteSet(1..Len(s))
    BY ONLY <2>1, FS_Interval
  <2>3. A \in SUBSET (1..Len(s))
    BY DEF Asleep
  <2> HIDE DEF A
  <2> QED BY <2>2, <2>3, FS_Subset, FS_CardinalityType
<1>3. ASSUME NEW i \in A
      PROVE  f[i] \in B
  <2>1. CASE i <= k
    BY <1>1, <2>1 DEF Asleep
  <2>2. CASE ~(i <= k)
    BY <1>1, <2>2 DEF Asleep
  <2> QED BY <2>1, <2>2
<1>4. ASSUME NEW i \in A, NEW j \in A, f[i] = f[j]
      PROVE  i = j
  BY <1>1, <1>4 DEF Asleep
<1>5. ASSUME NEW j \in B
      PROVE  \E i \in A : f[i] = j
  <2>1. j \in 1..(Len(s) + 1) /\ j # k + 1 /\ t[j].for # Ping
    BY DEF Asleep
  <2>2. CASE j <= k
    <3>1. j \in A /\ f[j] = j
      BY <1>1, <2>1, <2>2 DEF Asleep
    <3> QED BY <3>1
  <2>3. CASE ~(j <= k)
    <3>1. j - 1 \in (k + 1)..Len(s) /\ (j - 1) + 1 = j
      BY <1>1, <2>1, <2>3
    <3>2. j - 1 \in A
      BY <1>1, <2>1, <3>1 DEF Asleep
    <3>3. f[j - 1] = j
      BY <1>1, <3>1, <3>2
    <3> QED BY <3>2, <3>3
  <2> QED BY <2>2, <2>3
<1>6. f \in [A -> B]
  BY <1>3
<1> HIDE DEF A, B, f
<1>7. f \in Bijection(A, B)
  BY <1>4, <1>5, <1>6 DEF Bijection, Injection, Surjection, IsInjective
<1>8. IsFiniteSet(B) /\ Cardinality(B) = Cardinality(A)
  <2>1. ExistsBijection(A, B)
    BY <1>7 DEF ExistsBijection
  <2> QED BY ONLY <1>2, <2>1, FS_Bijection
<1>9. CASE e.for = Ping
  <2>1. Asleep(t) = B
    BY <1>9 DEF Asleep, B
  <2> QED BY <1>2, <1>8, <1>9, <2>1 DEF A
<1>10. CASE e.for # Ping
  <2>1. Asleep(t) = B \cup {k + 1} /\ k + 1 \notin B
    BY <1>1, <1>10 DEF Asleep, B
  <2>2. Cardinality(B \cup {k + 1}) = Cardinality(B) + 1
    BY <1>8, <2>1, FS_AddElement
  <2> QED BY <1>2, <1>8, <1>10, <2>1, <2>2 DEF A
<1> QED BY <1>9, <1>10

-----------------------------------------------------------------------------
Delaying(n, e) == IF e.for = Ping THEN n ELSE n + 1
Waiting(s, n) ==
  /\ s \in Seq(Sleeper) /\ Sorted(s) /\ n = Cardinality(Asleep(s))
  /\ ~Edges => \A i \in 1..Len(s) : s[i].when.usec < Base

LEMMA OneMoreWaits ==
  ASSUME NEW s, NEW n, Waiting(s, n), NEW e \in Sleeper, ~Edges => e.when.usec < Base
  PROVE  \E t \in Seq(Sleeper) :
           /\ t = Clock!Inserted(s, e) /\ Waiting(t, Delaying(n, e))
           /\ Len(t) = Len(s) + 1 /\ (s = <<>> => t[1] = e)
<1>1. s \in Seq(Sleeper) /\ Sorted(s) /\ n = Cardinality(Asleep(s))
  BY DEF Waiting
<1>2. PICK k \in 0..Len(s) : Clock!Inserted(s, e) = Behind(k, s, e) /\ Sorted(Clock!Inserted(s, e))
  BY ONLY <1>1, e \in Sleeper, InsertedKeepsOrder, Zenon
<1>3. PICK t \in Seq(Sleeper) :
        /\ t = Behind(k, s, e) /\ Len(t) = Len(s) + 1 /\ t[k + 1] = e
        /\ \A i \in 1..k : t[i] = s[i]
        /\ \A i \in (k + 1)..Len(s) : t[i + 1] = s[i]
  BY ONLY <1>1, <1>2, e \in Sleeper, InsertedAt, Zenon
<1>4. Cardinality(Asleep(t)) = Delaying(n, e)
  <2>1. Cardinality(Asleep(t)) = IF e.for = Ping THEN Cardinality(Asleep(s)) ELSE Cardinality(Asleep(s)) + 1
    BY ONLY <1>1, <1>3, k \in 0..Len(s), e \in Sleeper, AsleepAfterInsert, Zenon
  <2> QED BY <1>1, <2>1 DEF Delaying
<1>5. Len(s) \in Nat /\ k \in Nat /\ k <= Len(s)
  BY <1>1
<1>6. ASSUME ~Edges, NEW j \in 1..Len(t)
      PROVE  t[j].when.usec < Base
  <2>1. \A i \in 1..Len(s) : s[i].when.usec < Base
    BY <1>6 DEF Waiting
  <2>2. CASE j <= k
    BY <1>3, <1>5, <1>6, <2>1, <2>2
  <2>3. CASE j = k + 1
    BY <1>3, <1>6, <2>3
  <2>4. CASE j > k + 1
    <3>1. j - 1 \in (k + 1)..Len(s) /\ j - 1 \in 1..Len(s) /\ (j - 1) + 1 = j
      BY <1>3, <1>5, <2>4
    <3>2. t[j] = s[j - 1]
      BY <1>3, <3>1
    <3> QED BY <2>1, <3>1, <3>2
  <2> QED BY <1>3, <1>5, <2>2, <2>3, <2>4
<1>7. s = <<>> => t[1] = e
  <2>1. s = <<>> => k + 1 = 1
    BY <1>5
  <2> QED BY <1>3, <2>1
<1>8. Sorted(t) /\ t = Clock!Inserted(s, e)
  BY <1>2, <1>3
<1>9. Waiting(t, Delaying(n, e))
  BY <1>3, <1>4, <1>6, <1>8 DEF Waiting
<1> QED BY <1>3, <1>7, <1>8, <1>9

LEMMA FirstGoes ==
  ASSUME NEW s, NEW n, Waiting(s, n), s # <<>>
  PROVE  /\ s[1] \in Sleeper /\ Tail(s) \in Seq(Sleeper) /\ Len(Tail(s)) = Len(s) - 1
         /\ \A m : n = Delaying(m, s[1]) /\ m \in Nat => Waiting(Tail(s), m)
         /\ \E m \in Nat : n = Delaying(m, s[1])
<1>1. s \in Seq(Sleeper) /\ Sorted(s) /\ n = Cardinality(Asleep(s))
  BY DEF Waiting
<1>2. PICK t, e : t = Tail(s) /\ e = s[1]
  OBVIOUS
<1>3. t \in Seq(Sleeper) /\ Len(s) = Len(t) + 1 /\ e \in Sleeper /\ \A i \in 1..Len(t) : t[i] = s[i + 1]
  BY <1>1, <1>2
<1>4. Len(t) \in Nat /\ 0 \in 0..Len(t)
  BY <1>3
<1>5. /\ Cardinality(Asleep(t)) \in Nat
      /\ Cardinality(Asleep(s)) = IF e.for = Ping THEN Cardinality(Asleep(t)) ELSE Cardinality(Asleep(t)) + 1
  <2>1. PICK k : k = 0
    OBVIOUS
  <2>2. k \in 0..Len(t) /\ s[k + 1] = e /\ (\A i \in 1..k : s[i] = t[i])
    BY <1>2, <1>4, <2>1
  <2>3. \A i \in (k + 1)..Len(t) : s[i + 1] = t[i]
    BY <1>3, <2>1
  <2>4. Len(s) = Len(t) + 1 /\ t \in Seq(Sleeper) /\ e \in Sleeper /\ k \in 0..Len(t) /\ s[k + 1] = e
    BY <1>3, <2>2
  <2>5. /\ IsFiniteSet(Asleep(t)) /\ Cardinality(Asleep(t)) \in Nat
        /\ Cardinality(Asleep(s)) = IF e.for = Ping THEN Cardinality(Asleep(t)) ELSE Cardinality(Asleep(t)) + 1
    BY ONLY <2>2, <2>3, <2>4, AsleepAfterInsert, Zenon
  <2> QED BY <2>5
<1>6. Sorted(t)
  <2> SUFFICES ASSUME NEW i \in 1..Len(t), NEW j \in 1..Len(t), i < j
               PROVE  Clock!TimeLess(t[i].when, t[j].when)
    BY DEF Sorted
  <2>1. i + 1 \in 1..Len(s) /\ j + 1 \in 1..Len(s) /\ i + 1 < j + 1
    BY <1>3, <1>4
  <2>2. Clock!TimeLess(s[i + 1].when, s[j + 1].when)
    BY <1>1, <2>1 DEF Sorted
  <2> QED BY <1>3, <2>2
<1>7. ASSUME ~Edges, NEW j \in 1..Len(t)
      PROVE  t[j].when.usec < Base
  <2>1. j + 1 \in 1..Len(s) /\ t[j] = s[j + 1]
    BY <1>3, <1>4
  <2> QED BY <1>7, <2>1 DEF Waiting
<1>8. Waiting(t, Cardinality(Asleep(t)))
  BY <1>3, <1>6, <1>7 DEF Waiting
<1>9. n = Delaying(Cardinality(Asleep(t)), e)
  BY <1>1, <1>5 DEF Delaying
<1>10. ASSUME NEW m \in Nat, n = Delaying(m, e)
       PROVE  m = Cardinality(Asleep(t))
  BY <1>5, <1>9, <1>10 DEF Delaying
<1>11. Len(t) = Len(s) - 1
  BY <1>3, <1>4
<1> QED BY <1>2, <1>3, <1>5, <1>8, <1>9, <1>10, <1>11

LEMMA AfterWaits ==
  ASSUME Clock!ConstantsOK, clock \in Nat, NEW s, NEW n, Waiting(s, n),
         NEW d \in Nat, NEW who \in Processes \cup {Ping},
         Clock!MayAsk(Clock!Time(d)), Clock!After(s, Clock!Time(d), who)
  PROVE  \E t, e : /\ sleepers' = t /\ e.for = who /\ Waiting(t, Delaying(n, e)) /\ Len(t) = Len(s) + 1
                  /\ (timeAdvanced \in BOOLEAN => timeAdvanced' \in BOOLEAN)
                  /\ (~Edges /\ (s # <<>> => timeAdvanced \/ alarm # Clock!None)
                        => timeAdvanced' \/ alarm' # Clock!None)
<1> DEFINE w == Clock!TimePlus(Clock!now, Clock!Time(d))
<1>1. Clock!now \in Clocked /\ Clock!Time(d) \in Clocked
  BY TimeOf DEF Clock!now
<1>2. w \in When /\ (~Edges => w.usec < Base)
  BY <1>1, PlusWhen DEF Clock!MayAsk
<1> HIDE DEF w
<1>3. PICK e : e = [when |-> w, for |-> who]
  OBVIOUS
<1>4. e \in Sleeper /\ (~Edges => e.when.usec < Base) /\ e.for = who
  BY <1>2, <1>3 DEF Sleeper
<1>5. PICK t \in Seq(Sleeper) :
        /\ t = Clock!Inserted(s, e) /\ Waiting(t, Delaying(n, e))
        /\ Len(t) = Len(s) + 1 /\ (s = <<>> => t[1] = e)
  BY ONLY <1>4, Waiting(s, n), OneMoreWaits, Zenon
<1>6. /\ sleepers' = t
      /\ IF Head(t).for = who THEN Clock!Schedule(Clock!TimeMinus(Head(t).when, Clock!now))
         ELSE UNCHANGED <<alarm, timeAdvanced>>
  BY <1>3, <1>5 DEF Clock!After, w
<1>7. t # <<>> /\ Head(t) = t[1] /\ t[1] \in Sleeper /\ 1 \in 1..Len(t)
  <2>1. s \in Seq(Sleeper)
    BY DEF Waiting
  <2>2. Len(t) > 0
    BY <1>5, <2>1
  <2> QED BY <2>2
<1>8. t[1].when \in When /\ (~Edges => t[1].when.usec < Base)
  BY <1>5, <1>7 DEF Sleeper, Waiting
<1>9. CASE Head(t).for = who
  <2>1. PICK m : m = Clock!TimeMinus(t[1].when, Clock!now)
    OBVIOUS
  <2>2. Clock!Units(m) \in Nat /\ (~Edges => Clock!Valid(m))
    BY <1>1, <1>8, <2>1, MinusWhen
  <2>3. Clock!Schedule(m)
    BY <1>6, <1>7, <1>9, <2>1
  <2>4. /\ timeAdvanced \in BOOLEAN => timeAdvanced' \in BOOLEAN
        /\ ~Edges => timeAdvanced' \/ alarm' # Clock!None
    <3>1. clock + Clock!Units(m) # -1
      BY <2>2
    <3> QED BY <2>2, <2>3, <3>1 DEF Clock!Schedule, Clock!None
  <2> QED BY <1>4, <1>5, <1>6, <2>4
<1>10. CASE Head(t).for # who
  <2>1. s # <<>>
    BY <1>4, <1>5, <1>7, <1>10
  <2>2. timeAdvanced' = timeAdvanced /\ alarm' = alarm
    BY <1>6, <1>10
  <2> QED BY <1>4, <1>5, <1>6, <2>1, <2>2
<1> QED BY <1>9, <1>10

(* Timely is the inductive invariant: the sleepers are in order, as many   *)
(* as the machine counts of those that are not pings, the time the loop    *)
(* has read is past, and the flag or the alarm is for the first of them.   *)
SetFor == ~Edges /\ pc # "timeouts" /\ sleepers # <<>> => timeAdvanced \/ alarm # Clock!None
Timely ==
  /\ clock \in Nat /\ timeAdvanced \in BOOLEAN /\ ready \in Seq(Processes)
  /\ Waiting(sleepers, nProcessesDelayed)
  /\ \E c \in 0..clock : asOf = Clock!Time(c)
  /\ pc = "ended" => nProcessesDelayed = 0
  /\ SetFor

LEMMA TimelyAtFirst == Clock!ConstantsOK /\ Clock!Init => Timely
<1> SUFFICES ASSUME Clock!ConstantsOK, Clock!Init
             PROVE  Timely
  OBVIOUS
<1>1. IsFiniteSet(Processes) /\ Clock!Cardinality(Processes) = Cardinality(Processes)
  BY DEF Clock!ConstantsOK, Clock!IsFiniteSet, IsFiniteSet, Clock!Cardinality, Cardinality
<1>2. PICK n : n = Cardinality(Processes)
  OBVIOUS
<1>3. n \in Nat
  BY <1>1, <1>2, FS_CardinalityType
<1>4. ready \in [1..n -> Processes]
  BY <1>1, <1>2 DEF Clock!Init
<1>5. ready \in Seq(Processes)
  BY <1>3, <1>4
<1>6. Asleep(<<>>) = {}
  BY DEF Asleep
<1>7. Waiting(sleepers, nProcessesDelayed)
  <2>1. sleepers = <<>> /\ nProcessesDelayed = 0
    BY DEF Clock!Init
  <2>2. Len(<<>>) = 0 /\ <<>> \in Seq(Sleeper)
    OBVIOUS
  <2>3. Cardinality(Asleep(<<>>)) = 0
    BY <1>6, FS_EmptySet
  <2> QED BY <2>1, <2>2, <2>3 DEF Waiting, Sorted
<1>8. asOf = Clock!Time(0)
  BY DEF Clock!Init, Clock!Zero
<1>9. clock = 0 /\ timeAdvanced = FALSE /\ sleepers = <<>> /\ pc = "top" /\ 0 \in 0..0
  BY DEF Clock!Init
<1> QED BY <1>5, <1>7, <1>8, <1>9 DEF Timely, SetFor

(* What leaves the sleepers and their count alone. *)
LEMMA LoopGoesOn ==
  ASSUME Timely, UNCHANGED <<clock, alarm, sleepers, nProcessesDelayed>>,
         timeAdvanced' \in BOOLEAN, ready' \in Seq(Processes),
         (\E c \in 0..clock : asOf' = Clock!Time(c)),
         (pc' = "ended" => nProcessesDelayed = 0),
         (timeAdvanced' = timeAdvanced /\ pc # "timeouts") \/ pc' = "timeouts"
  PROVE  Timely'
<1>1. Waiting(sleepers, nProcessesDelayed)'
  BY DEF Timely, Waiting, Sorted, Asleep
<1> QED BY <1>1 DEF Timely, SetFor

LEMMA TicksTimely == Timely /\ Clock!Tick => Timely'
<1> SUFFICES ASSUME Timely, Clock!Tick
             PROVE  Timely'
  OBVIOUS
<1>1. /\ clock' = clock + 1 /\ sleepers' = sleepers /\ ready' = ready
      /\ nProcessesDelayed' = nProcessesDelayed /\ asOf' = asOf
      /\ \/ timeAdvanced' = TRUE /\ pc' = (IF pc = "select" THEN "io" ELSE pc)
         \/ alarm' = alarm /\ timeAdvanced' = timeAdvanced /\ pc' = pc
  BY DEF Clock!Tick
<1>2. Waiting(sleepers, nProcessesDelayed)'
  BY <1>1 DEF Timely, Waiting, Sorted, Asleep
<1>3. \E c \in 0..clock' : asOf' = Clock!Time(c)
  <2>1. PICK c \in 0..clock : asOf = Clock!Time(c)
    BY DEF Timely
  <2>2. clock \in Nat
    BY DEF Timely
  <2>3. c \in 0..clock'
    BY <1>1, <2>2
  <2> QED BY <1>1, <2>1, <2>3
<1>4. clock' \in Nat
  BY <1>1 DEF Timely
<1> QED BY <1>1, <1>2, <1>3, <1>4 DEF Timely, SetFor

LEMMA RunsTimely ==
  ASSUME Clock!ConstantsOK, Timely
  PROVE  /\ Clock!Ends \/ Clock!Preempted => Timely'
         /\ \A n \in Delays : Clock!Delayed(Clock!Time(n)) => Timely'
         /\ Clock!StartsPing => Timely'
<1>1. ready \in Seq(Processes) /\ clock \in Nat /\ Waiting(sleepers, nProcessesDelayed)
  BY DEF Timely
<1>2. ASSUME NEW a, a = <<>> \/ (ready # <<>> /\ a = <<Head(ready)>>), Clock!Ran(a)
      PROVE  /\ ready' \in Seq(Processes) /\ pc = "work" /\ pc' = "top" /\ clock' = clock /\ asOf' = asOf
             /\ ready # <<>> /\ Head(ready) \in Processes
  <2>1. ready # <<>> /\ pc = "work" /\ pc' = "top" /\ ready' = Tail(ready) \o a /\ clock' = clock /\ asOf' = asOf
    BY <1>2 DEF Clock!Ran
  <2>2. Head(ready) \in Processes /\ Tail(ready) \in Seq(Processes)
    BY <1>1, <2>1
  <2>3. a \in Seq(Processes)
    <3>1. PICK p \in Processes : p = Head(ready)
      BY <2>2
    <3>2. <<p>> \in Seq(Processes) /\ <<>> \in Seq(Processes)
      OBVIOUS
    <3> QED BY <1>2, <3>1, <3>2
  <2> QED BY <2>1, <2>2, <2>3
<1>3. ASSUME Clock!Ends \/ Clock!Preempted
      PROVE  Timely'
  <2>1. PICK a : (a = <<>> \/ (ready # <<>> /\ a = <<Head(ready)>>)) /\ Clock!Ran(a)
    BY <1>3 DEF Clock!Ends, Clock!Preempted, Clock!Ran
  <2>2. UNCHANGED <<alarm, timeAdvanced, sleepers, nProcessesDelayed>>
    BY <1>3 DEF Clock!Ends, Clock!Preempted
  <2>3. /\ ready' \in Seq(Processes) /\ pc = "work" /\ pc' = "top" /\ clock' = clock /\ asOf' = asOf
    BY <1>2, <2>1
  <2> QED BY <2>2, <2>3, LoopGoesOn DEF Timely
<1>4. ASSUME NEW d \in Nat, NEW who \in Processes \cup {Ping},
             Clock!MayAsk(Clock!Time(d)), Clock!After(sleepers, Clock!Time(d), who),
             ready' \in Seq(Processes), pc = "work", pc' = "top", clock' = clock, asOf' = asOf,
             nProcessesDelayed' = IF who = Ping THEN nProcessesDelayed ELSE nProcessesDelayed + 1
      PROVE  Timely'
  <2>1. PICK s, n : s = sleepers /\ n = nProcessesDelayed
    OBVIOUS
  <2>2. Waiting(s, n) /\ Clock!After(s, Clock!Time(d), who)
    BY <1>1, <1>4, <2>1
  <2>3. PICK t, e : /\ sleepers' = t /\ e.for = who /\ Waiting(t, Delaying(n, e)) /\ Len(t) = Len(s) + 1
                    /\ (timeAdvanced \in BOOLEAN => timeAdvanced' \in BOOLEAN)
                    /\ (~Edges /\ (s # <<>> => timeAdvanced \/ alarm # Clock!None)
                          => timeAdvanced' \/ alarm' # Clock!None)
    BY <1>1, <1>4, <2>2, AfterWaits
  <2>4. nProcessesDelayed' = Delaying(n, e)
    BY <1>4, <2>1, <2>3 DEF Delaying
  <2>5. Waiting(sleepers, nProcessesDelayed)'
    BY <2>3, <2>4 DEF Waiting, Sorted, Asleep
  <2>6. SetFor'
    BY <1>4, <2>1, <2>3 DEF SetFor, Timely
  <2> QED BY <1>1, <1>4, <2>3, <2>5, <2>6 DEF Timely
<1>5. ASSUME NEW d \in Delays, Clock!Delayed(Clock!Time(d))
      PROVE  Timely'
  <2>1. d \in Nat
    BY DEF Clock!ConstantsOK
  <2>2. /\ Clock!MayAsk(Clock!Time(d)) /\ Clock!After(sleepers, Clock!Time(d), Head(ready))
        /\ Clock!Ran(<<>>) /\ nProcessesDelayed' = nProcessesDelayed + 1
    BY <1>5 DEF Clock!Delayed
  <2>3. /\ ready' \in Seq(Processes) /\ pc = "work" /\ pc' = "top" /\ clock' = clock /\ asOf' = asOf
        /\ Head(ready) \in Processes
    BY <1>2, <2>2
  <2>4. PICK who : who = Head(ready)
    OBVIOUS
  <2>5. who \in Processes /\ who # Ping
    BY <2>3, <2>4 DEF Clock!ConstantsOK
  <2> QED BY <1>4, <2>1, <2>2, <2>3, <2>4, <2>5
<1>6. ASSUME Clock!StartsPing
      PROVE  Timely'
  <2>1. Base \in Nat
    BY DEF Clock!ConstantsOK
  <2>2. /\ Clock!MayAsk(Clock!Time(Base)) /\ Clock!After(sleepers, Clock!Time(Base), Ping)
        /\ ready # <<>> /\ Clock!Ran(<<Head(ready)>>) /\ nProcessesDelayed' = nProcessesDelayed
    BY <1>6 DEF Clock!StartsPing
  <2>3. /\ ready' \in Seq(Processes) /\ pc = "work" /\ pc' = "top" /\ clock' = clock /\ asOf' = asOf
    BY <1>2, <2>2
  <2> QED BY <1>4, <2>1, <2>2, <2>3
<1> QED BY <1>3, <1>5, <1>6

LEMMA CallbackTimely ==
  ASSUME Clock!ConstantsOK, Timely, Clock!Callback
  PROVE  Timely'
<1>1. PICK s, n : s = sleepers /\ n = nProcessesDelayed
  OBVIOUS
<1>2. /\ pc = "timeouts" /\ s # <<>> /\ clock' = clock /\ pc' = pc /\ asOf' = asOf
  BY <1>1 DEF Clock!Callback, Clock!Due
<1>3. clock \in Nat /\ timeAdvanced \in BOOLEAN /\ ready \in Seq(Processes) /\ Waiting(s, n)
  BY <1>1 DEF Timely
<1>4. PICK m \in Nat : n = Delaying(m, s[1])
  BY ONLY <1>2, <1>3, FirstGoes
<1>5. s[1] \in Sleeper /\ Waiting(Tail(s), m)
  <2>1. /\ s[1] \in Sleeper
        /\ \A k : n = Delaying(k, s[1]) /\ k \in Nat => Waiting(Tail(s), k)
    BY ONLY <1>2, <1>3, FirstGoes
  <2> QED BY <1>4, <2>1
<1>6. PICK r, who : r = Tail(s) /\ who = s[1].for
  OBVIOUS
<1>7. who \in Processes \cup {Ping} /\ Waiting(r, m)
  BY <1>5, <1>6 DEF Sleeper
<1>8. \E t, k : /\ sleepers' = t /\ nProcessesDelayed' = k /\ Waiting(t, k)
                /\ timeAdvanced' \in BOOLEAN /\ ready' \in Seq(Processes)
  <2>1. CASE who = Ping /\ Clock!MayAsk(Clock!Time(Base))
    <3>1. Base \in Nat
      BY DEF Clock!ConstantsOK
    <3>2. Clock!After(r, Clock!Time(Base), who) /\ ready' = ready /\ nProcessesDelayed' = n
      BY <1>1, <1>6, <2>1 DEF Clock!Callback
    <3>3. PICK t, e : /\ sleepers' = t /\ e.for = who /\ Waiting(t, Delaying(m, e)) /\ Len(t) = Len(r) + 1
                      /\ (timeAdvanced \in BOOLEAN => timeAdvanced' \in BOOLEAN)
                      /\ (~Edges /\ (r # <<>> => timeAdvanced \/ alarm # Clock!None)
                            => timeAdvanced' \/ alarm' # Clock!None)
      BY <1>3, <1>7, <2>1, <3>1, <3>2, AfterWaits
    <3>4. Delaying(m, e) = n
      BY <1>4, <1>6, <2>1, <3>3 DEF Delaying
    <3> QED BY <1>3, <3>2, <3>3, <3>4
  <2>2. CASE who = Ping /\ ~Clock!MayAsk(Clock!Time(Base))
    <3>1. /\ sleepers' = r /\ timeAdvanced' = timeAdvanced /\ ready' = ready /\ nProcessesDelayed' = n
      BY <1>1, <1>6, <2>2 DEF Clock!Callback
    <3>2. m = n
      BY <1>4, <1>6, <2>2 DEF Delaying
    <3> QED BY <1>3, <1>7, <3>1, <3>2
  <2>3. CASE who # Ping
    <3>1. /\ sleepers' = r /\ timeAdvanced' = timeAdvanced /\ ready' = Append(ready, who)
          /\ nProcessesDelayed' = n - 1
      BY <1>1, <1>6, <2>3 DEF Clock!Callback, Clock!DelayCallback
    <3>2. n - 1 = m
      BY <1>4, <1>6, <2>3 DEF Delaying
    <3>3. Append(ready, who) \in Seq(Processes)
      BY <1>3, <1>7, <2>3
    <3> QED BY <1>3, <1>7, <3>1, <3>2, <3>3
  <2> QED BY <2>1, <2>2, <2>3
<1>9. Waiting(sleepers, nProcessesDelayed)'
  BY <1>8 DEF Waiting, Sorted, Asleep
<1> QED BY <1>2, <1>3, <1>8, <1>9 DEF Timely, SetFor

LEMMA TimeoutsDoneTimely ==
  ASSUME Clock!ConstantsOK, Timely, Clock!TimeoutsDone
  PROVE  Timely'
<1>1. /\ pc = "timeouts" /\ pc' = "work" /\ Clock!ScheduleNext
      /\ UNCHANGED <<clock, sleepers, ready, nProcessesDelayed, asOf>>
  BY DEF Clock!TimeoutsDone
<1>2. clock \in Nat /\ timeAdvanced \in BOOLEAN
  BY DEF Timely
<1>3. Waiting(sleepers, nProcessesDelayed)'
  BY <1>1 DEF Timely, Waiting, Sorted, Asleep
<1>4. timeAdvanced' \in BOOLEAN /\ SetFor'
  <2>1. CASE sleepers = <<>>
    BY <1>1, <1>2, <2>1 DEF Clock!ScheduleNext, SetFor
  <2>2. CASE sleepers # <<>>
    <3>1. PICK c \in 0..clock : asOf = Clock!Time(c)
      BY DEF Timely
    <3>2. asOf \in Clocked
      <4>1. c \in Nat
        BY <1>2
      <4> QED BY <3>1, <4>1, TimeOf
    <3>3. sleepers[1].when \in When /\ (~Edges => sleepers[1].when.usec < Base)
      <4>1. sleepers \in Seq(Sleeper) /\ 1 \in 1..Len(sleepers)
        BY <2>2 DEF Timely, Waiting
      <4>2. sleepers[1] \in Sleeper
        BY <4>1
      <4>3. sleepers[1].when \in When
        BY <4>2 DEF Sleeper
      <4>4. ~Edges => sleepers[1].when.usec < Base
        BY <4>1 DEF Timely, Waiting
      <4> QED BY <4>3, <4>4
    <3>4. PICK m : m = Clock!TimeMinus(sleepers[1].when, asOf)
      OBVIOUS
    <3>5. Clock!Units(m) \in Nat /\ (~Edges => Clock!Valid(m))
      BY <3>2, <3>3, <3>4, MinusWhen
    <3>6. Clock!Schedule(m)
      BY <1>1, <2>2, <3>4 DEF Clock!ScheduleNext
    <3>7. clock + Clock!Units(m) # -1
      BY <1>2, <3>5
    <3> QED BY <1>2, <3>5, <3>6, <3>7 DEF Clock!Schedule, Clock!None, SetFor
  <2> QED BY <2>1, <2>2
<1> QED BY <1>1, <1>3, <1>4 DEF Timely

LEMMA TimelyNext == Clock!ConstantsOK /\ Timely /\ [Clock!Next]_(Clock!vars) => Timely'
<1> SUFFICES ASSUME Clock!ConstantsOK, Timely, [Clock!Next]_(Clock!vars)
             PROVE  Timely'
  OBVIOUS
<1>1. CASE Clock!Tick
  BY <1>1, TicksTimely
<1>2. CASE Clock!LoopEnds
  <2>1. nProcessesDelayed = 0
    <3>1. nProcessesDelayed = Cardinality(Asleep(sleepers)) /\ ~(nProcessesDelayed > 0)
      BY <1>2 DEF Timely, Waiting, Clock!LoopEnds, Clock!StuffToDo
    <3>2. Cardinality(Asleep(sleepers)) \in Nat
      <4>1. sleepers = <<>> \/ sleepers # <<>>
        OBVIOUS
      <4>2. CASE sleepers = <<>>
        BY <4>2, FS_EmptySet DEF Asleep
      <4>3. CASE sleepers # <<>>
        <5>1. PICK s, n : s = sleepers /\ n = nProcessesDelayed
          OBVIOUS
        <5>2. Waiting(s, n) /\ s # <<>>
          BY <4>3, <5>1 DEF Timely
        <5>3. PICK m \in Nat : n = Delaying(m, s[1])
          BY ONLY <5>2, FirstGoes
        <5> QED BY <3>1, <5>1, <5>3 DEF Delaying
      <4> QED BY <4>2, <4>3
    <3> QED BY <3>1, <3>2
  <2> QED BY <1>2, <2>1, LoopGoesOn DEF Timely, Clock!LoopEnds
<1>3. CASE Clock!CheckForIO
  BY <1>3, LoopGoesOn DEF Timely, Clock!CheckForIO
<1>4. CASE Clock!SelectReturns
  BY <1>4, LoopGoesOn DEF Timely, Clock!SelectReturns
<1>5. CASE Clock!SeesTheFlag
  <2>1. \E c \in 0..clock : asOf' = Clock!Time(c)
    <3>1. clock \in Nat /\ clock \in 0..clock
      BY DEF Timely
    <3> QED BY <1>5, <3>1 DEF Timely, Clock!SeesTheFlag, Clock!now
  <2> QED BY <1>5, <2>1, LoopGoesOn DEF Timely, Clock!SeesTheFlag
<1>6. CASE Clock!Callback
  BY <1>6, CallbackTimely
<1>7. CASE Clock!TimeoutsDone
  BY <1>7, TimeoutsDoneTimely
<1>8. CASE Clock!Ends \/ Clock!Preempted \/ (\E n \in Delays : Clock!Delayed(Clock!Time(n))) \/ Clock!StartsPing
  BY <1>8, RunsTimely
<1>9. CASE Clock!Idles
  BY <1>9, LoopGoesOn DEF Timely, Clock!Idles
<1>10. CASE UNCHANGED Clock!vars
  <2>1. UNCHANGED <<clock, alarm, timeAdvanced, sleepers, ready, nProcessesDelayed, pc, asOf>>
    BY <1>10 DEF Clock!vars
  <2>2. Waiting(sleepers, nProcessesDelayed)'
    BY <2>1 DEF Timely, Waiting, Sorted, Asleep
  <2> QED BY <2>1, <2>2 DEF Timely, SetFor
<1> QED BY <1>1, <1>2, <1>3, <1>4, <1>5, <1>6, <1>7, <1>8, <1>9, <1>10 DEF Clock!Next, Clock!Loop

LEMMA TimelyIsInvariant == Clock!ConstantsOK => (Clock!Spec => []Timely)
<1> SUFFICES ASSUME Clock!ConstantsOK
             PROVE  Clock!Spec => []Timely
  OBVIOUS
<1>1. Clock!Init => Timely
  BY TimelyAtFirst
<1>2. Timely /\ [Clock!Next]_(Clock!vars) => Timely'
  BY TimelyNext
<1> QED BY <1>1, <1>2, PTL DEF Clock!Spec

(* Callbacks are made in the order of their times, and none before its     *)
(* time: checkForTimeouts takes the first sleeper, and only one that is    *)
(* due at a time that has been read (timer.c:194).                         *)
THEOREM CallbacksInTime == Clock!ConstantsOK => (Clock!Spec => Clock!NeverEarly)
<1> SUFFICES ASSUME Clock!ConstantsOK
             PROVE  Clock!Spec => Clock!NeverEarly
  OBVIOUS
<1>1. Timely /\ [Clock!Next]_(Clock!vars) => [Clock!InTime]_(Clock!vars)
  <2> SUFFICES ASSUME Timely, Clock!Next
               PROVE  Clock!InTime
    BY DEF Clock!vars
  <2>1. sleepers \in Seq(Sleeper) /\ Sorted(sleepers) /\ Waiting(sleepers, nProcessesDelayed)
    BY DEF Timely, Waiting
  <2>2. CASE Clock!Callback
    <3>1. sleepers # <<>> /\ Clock!TimeLess(sleepers[1].when, asOf)
      BY <2>2 DEF Clock!Callback, Clock!Due
    <3>2. PICK c \in 0..clock : asOf = Clock!Time(c)
      BY DEF Timely
    <3>3. c \in Nat /\ clock \in Nat
      BY DEF Timely
    <3>4. asOf \in Clocked /\ Clock!Units(asOf) = c
      BY <3>2, <3>3, TimeOf
    <3>5. 1 \in 1..Len(sleepers) /\ sleepers[1] \in Sleeper
      BY <2>1, <3>1
    <3>6. sleepers[1].when \in When
      BY <3>5 DEF Sleeper
    <3>7. Clock!Units(sleepers[1].when) <= c
      BY <3>1, <3>4, <3>6, LessUnits
    <3>8. Clock!Units(sleepers[1].when) <= clock
      <4>1. Clock!Units(sleepers[1].when) \in Int
        <5>1. PICK w \in When : w = sleepers[1].when
          BY <3>6
        <5>2. w.sec \in Int /\ w.usec \in Int /\ Base \in Int
          BY DEF When, Clock!ConstantsOK
        <5>3. w.sec * Base \in Int
          BY <5>2
        <5> QED BY <5>1, <5>2, <5>3 DEF Clock!Units
      <4> QED BY <3>2, <3>3, <3>7, <4>1
    <3>9. ASSUME NEW i \in 1..Len(sleepers)
          PROVE  Clock!TimeLess(sleepers[1].when, sleepers[i].when)
      <4>1. CASE i = 1
        BY <3>6, <4>1, LessIsOrder
      <4>2. CASE i # 1
        BY <2>1, <3>5, <4>2 DEF Sorted
      <4> QED BY <4>1, <4>2
    <3>10. DOMAIN sleepers = 1..Len(sleepers)
      BY <2>1
    <3> QED BY <3>8, <3>9, <3>10 DEF Clock!InTime
  <2>3. CASE UNCHANGED sleepers /\ (UNCHANGED ready \/ pc # "timeouts")
    BY <2>1, <2>3 DEF Clock!InTime
  <2>4. ASSUME pc = "work", NEW d \in Nat, NEW who \in Processes \cup {Ping},
               Clock!MayAsk(Clock!Time(d)), Clock!After(sleepers, Clock!Time(d), who)
        PROVE  Clock!InTime
    <3>1. PICK s, n : s = sleepers /\ n = nProcessesDelayed
      OBVIOUS
    <3>2. Waiting(s, n) /\ Clock!After(s, Clock!Time(d), who) /\ clock \in Nat
      BY <2>1, <2>4, <3>1 DEF Timely
    <3>3. PICK t, e : /\ sleepers' = t /\ e.for = who /\ Waiting(t, Delaying(n, e)) /\ Len(t) = Len(s) + 1
                      /\ (timeAdvanced \in BOOLEAN => timeAdvanced' \in BOOLEAN)
                      /\ (~Edges /\ (s # <<>> => timeAdvanced \/ alarm # Clock!None)
                            => timeAdvanced' \/ alarm' # Clock!None)
      BY <2>4, <3>2, AfterWaits
    <3>4. ~(Len(sleepers') < Len(sleepers))
      BY <2>1, <3>1, <3>3
    <3> QED BY <2>4, <3>4 DEF Clock!InTime
  <2>5. ASSUME NEW d \in Delays, Clock!Delayed(Clock!Time(d))
        PROVE  Clock!InTime
    <3>1. d \in Nat
      BY DEF Clock!ConstantsOK
    <3>2. /\ Clock!MayAsk(Clock!Time(d)) /\ Clock!After(sleepers, Clock!Time(d), Head(ready))
          /\ ready # <<>> /\ pc = "work"
      BY <2>5 DEF Clock!Delayed, Clock!Ran
    <3>3. PICK who \in Processes : who = Head(ready)
      BY <3>2 DEF Timely
    <3> QED BY <2>4, <3>1, <3>2, <3>3
  <2>6. CASE Clock!StartsPing
    <3>1. Base \in Nat
      BY DEF Clock!ConstantsOK
    <3>2. Clock!MayAsk(Clock!Time(Base)) /\ Clock!After(sleepers, Clock!Time(Base), Ping) /\ pc = "work"
      BY <2>6 DEF Clock!StartsPing, Clock!Ran
    <3> QED BY <2>4, <3>1, <3>2
  <2>7. CASE Clock!Ends \/ Clock!Preempted
    <3>1. UNCHANGED sleepers /\ pc # "timeouts"
      BY <2>7 DEF Clock!Ends, Clock!Preempted, Clock!Ran
    <3> QED BY <2>3, <3>1
  <2>8. CASE \/ Clock!Tick \/ Clock!LoopEnds \/ Clock!CheckForIO \/ Clock!SelectReturns
             \/ Clock!SeesTheFlag \/ Clock!TimeoutsDone \/ Clock!Idles
    <3>1. UNCHANGED <<sleepers, ready>>
      BY <2>8 DEF Clock!Tick, Clock!LoopEnds, Clock!CheckForIO, Clock!SelectReturns,
                  Clock!SeesTheFlag, Clock!TimeoutsDone, Clock!Idles
    <3> QED BY <2>3, <3>1
  <2> QED BY <2>2, <2>5, <2>6, <2>7, <2>8 DEF Clock!Next, Clock!Loop
<1>2. Clock!Spec => []Timely
  BY TimelyIsInvariant
<1> QED BY <1>1, <1>2, PTL DEF Clock!Spec, Clock!NeverEarly

(* The loop ends with nobody delayed, so a count that is kept apart from   *)
(* the list of sleepers is enough to see by (main.c:149); and as long as   *)
(* no sum comes to a whole second, whose microseconds setitimer would      *)
(* refuse, a sleeper has the flag or the alarm to wait for (timer.c:73,    *)
(* timer.c:140).                                                           *)
THEOREM SleepersAreWoken ==
  Clock!ConstantsOK => (Clock!Spec => []Clock!NobodyLeft /\ (~Edges => []Clock!AlarmComes))
<1> SUFFICES ASSUME Clock!ConstantsOK
             PROVE  Clock!Spec => []Clock!NobodyLeft /\ (~Edges => []Clock!AlarmComes)
  OBVIOUS
<1>1. Timely => Clock!NobodyLeft
  <2> SUFFICES ASSUME Timely, pc = "ended", NEW i \in DOMAIN sleepers
               PROVE  sleepers[i].for = Ping
    BY DEF Clock!NobodyLeft
  <2>1. sleepers \in Seq(Sleeper) /\ Cardinality(Asleep(sleepers)) = 0
    BY DEF Timely, Waiting
  <2>2. Len(sleepers) \in Nat /\ i \in 1..Len(sleepers)
    BY <2>1
  <2>3. PICK A : A = Asleep(sleepers)
    OBVIOUS
  <2>4. IsFiniteSet(A)
    <3>1. PICK n \in Nat : n = Len(sleepers)
      BY <2>2
    <3>2. 1 \in Int /\ n \in Int
      OBVIOUS
    <3>3. IsFiniteSet(1..n)
      BY ONLY <3>2, FS_Interval
    <3>4. A \in SUBSET (1..n)
      BY <2>3, <3>1 DEF Asleep
    <3> QED BY <3>3, <3>4, FS_Subset
  <2>5. A = {}
    BY <2>1, <2>3, <2>4, FS_EmptySet
  <2> QED BY <2>2, <2>3, <2>5 DEF Asleep
<1>2. Clock!Spec => []Timely
  BY TimelyIsInvariant
<1>3. CASE Edges
  BY <1>1, <1>2, <1>3, PTL
<1>4. CASE ~Edges
  <2>1. Timely => Clock!AlarmComes
    BY <1>4 DEF Timely, SetFor, Clock!AlarmComes
  <2> QED BY <1>1, <1>2, <2>1, PTL
<1> QED BY <1>3, <1>4
-----------------------------------------------------------------------------
(* A set of numbers up to n has a least. *)
LEMMA Least ==
  ASSUME NEW n \in Nat, NEW T \in SUBSET (0..n), T # {}
  PROVE  \E x \in T : \A y \in T : x <= y
<1> SUFFICES ASSUME \A x \in T : \E y \in T : ~(x <= y)
             PROVE  FALSE
  OBVIOUS
<1> DEFINE S == {k \in Nat : \A x \in T : k <= x}
<1>1. S = Nat
  <2>1. 0 \in S
    OBVIOUS
  <2>2. ASSUME NEW k \in S
        PROVE  k + 1 \in S
    <3>1. k \notin T
      OBVIOUS
    <3>2. \A x \in T : k <= x /\ k # x /\ x \in Nat
      BY <3>1
    <3> QED BY <3>2
  <2> HIDE DEF S
  <2>3. S \in SUBSET Nat
    BY DEF S
  <2> QED BY ONLY <2>1, <2>2, <2>3, Inductive
<1>2. PICK x \in T : TRUE
  OBVIOUS
<1>3. n + 1 <= x
  BY <1>1
<1> QED BY <1>3

LEMMA MinOf ==
  ASSUME NEW n \in Nat, NEW T \in SUBSET (0..n), T # {}
  PROVE  Net!Min(T) \in T /\ \A y \in T : Net!Min(T) <= y
<1>1. \E x \in T : \A y \in T : x <= y
  BY ONLY T \in SUBSET (0..n), n \in Nat, T # {}, Least
<1> QED BY <1>1 DEF Net!Min

-----------------------------------------------------------------------------
(* Connections. *)
Counts(S, i) == Cardinality(S \cap 1..i)

LEMMA CountsUp ==
  ASSUME NEW n \in Nat, NEW S \in SUBSET (1..n)
  PROVE  /\ \A i \in 0..n : Counts(S, i) \in Nat
         /\ Counts(S, 0) = 0 /\ Counts(S, n) = Cardinality(S)
         /\ \A i \in 1..n : Counts(S, i) = IF i \in S THEN Counts(S, i - 1) + 1 ELSE Counts(S, i - 1)
<1>1. ASSUME NEW i \in 0..n
      PROVE  IsFiniteSet(S \cap 1..i) /\ Counts(S, i) \in Nat
  <2>1. 1 \in Int /\ i \in Int
    OBVIOUS
  <2>2. IsFiniteSet(1..i)
    BY ONLY <2>1, FS_Interval
  <2>3. S \cap 1..i \in SUBSET (1..i)
    OBVIOUS
  <2> QED BY <2>2, <2>3, FS_Subset, FS_CardinalityType DEF Counts
<1>2. Counts(S, 0) = 0
  <2>1. S \cap 1..0 = {}
    OBVIOUS
  <2> QED BY <2>1, FS_EmptySet DEF Counts
<1>3. Counts(S, n) = Cardinality(S)
  <2>1. S \cap 1..n = S
    OBVIOUS
  <2> QED BY <2>1 DEF Counts
<1>4. ASSUME NEW i \in 1..n
      PROVE  Counts(S, i) = IF i \in S THEN Counts(S, i - 1) + 1 ELSE Counts(S, i - 1)
  <2>1. i - 1 \in 0..n
    OBVIOUS
  <2>2. CASE i \in S
    <3>1. PICK T : T = S \cap 1..(i - 1)
      OBVIOUS
    <3>2. S \cap 1..i = T \cup {i} /\ i \notin T
      BY <2>2, <3>1
    <3>3. IsFiniteSet(T)
      BY <1>1, <2>1, <3>1
    <3>4. Cardinality(T \cup {i}) = Cardinality(T) + 1
      BY <3>2, <3>3, FS_AddElement
    <3> QED BY <2>2, <3>1, <3>2, <3>4 DEF Counts
  <2>3. CASE i \notin S
    <3>1. S \cap 1..i = S \cap 1..(i - 1)
      BY <2>3
    <3> QED BY <2>3, <3>1 DEF Counts
  <2> QED BY <2>2, <2>3
<1> QED BY <1>1, <1>2, <1>3, <1>4

(* Each count up to the last is that of one element, and greater elements  *)
(* have greater counts.                                                    *)
LEMMA CountsOrder ==
  ASSUME NEW n \in Nat, NEW S \in SUBSET (1..n)
  PROVE  /\ \A i, j \in S : i < j => Counts(S, i) < Counts(S, j)
         /\ \A i \in S : Counts(S, i) \in 1..Cardinality(S)
         /\ \A c \in 1..Cardinality(S) : \E i \in S : Counts(S, i) = c
         /\ Cardinality(S) \in Nat
<1>1. /\ \A i \in 0..n : Counts(S, i) \in Nat
      /\ Counts(S, 0) = 0 /\ Counts(S, n) = Cardinality(S)
      /\ \A i \in 1..n : Counts(S, i) = IF i \in S THEN Counts(S, i - 1) + 1 ELSE Counts(S, i - 1)
  BY ONLY n \in Nat, S \in SUBSET (1..n), CountsUp
<1>2. ASSUME NEW i \in 0..n
      PROVE  \A k \in Nat : i + k <= n => Counts(S, i) <= Counts(S, i + k)
  <2> DEFINE T == {k \in Nat : i + k <= n => Counts(S, i) <= Counts(S, i + k)}
  <2>1. 0 \in T
    BY <1>1
  <2>2. ASSUME NEW k \in T
        PROVE  k + 1 \in T
    <3>1. SUFFICES ASSUME i + (k + 1) <= n
                   PROVE  Counts(S, i) <= Counts(S, i + (k + 1))
      OBVIOUS
    <3>2. PICK j : j = i + (k + 1)
      OBVIOUS
    <3>3. j \in 1..n /\ j - 1 = i + k /\ i + k <= n /\ i + k \in 0..n
      BY <3>1, <3>2
    <3>4. Counts(S, i) <= Counts(S, j - 1)
      BY <3>3
    <3>5. Counts(S, j - 1) <= Counts(S, j)
      BY <1>1, <3>3
    <3>6. Counts(S, i) \in Nat /\ Counts(S, j - 1) \in Nat /\ Counts(S, j) \in Nat
      BY <1>1, <3>3
    <3> QED BY <3>2, <3>4, <3>5, <3>6
  <2> HIDE DEF T
  <2>3. T \in SUBSET Nat
    BY DEF T
  <2>4. T = Nat
    BY ONLY <2>1, <2>2, <2>3, Inductive
  <2> QED BY <2>4 DEF T
<1>3. ASSUME NEW i \in 0..n, NEW j \in 0..n, i <= j
      PROVE  Counts(S, i) <= Counts(S, j)
  <2>1. j - i \in Nat /\ i + (j - i) = j
    BY <1>3
  <2> QED BY <1>2, <2>1
<1>4. ASSUME NEW i \in S, NEW j \in S, i < j
      PROVE  Counts(S, i) < Counts(S, j)
  <2>1. i \in 0..n /\ j - 1 \in 0..n /\ i <= j - 1 /\ j \in 1..n /\ j \in 0..n
    BY <1>4
  <2>2. Counts(S, i) <= Counts(S, j - 1)
    BY <1>3, <2>1
  <2>3. Counts(S, j) = Counts(S, j - 1) + 1
    BY <1>1, <2>1
  <2>4. Counts(S, i) \in Nat /\ Counts(S, j - 1) \in Nat
    BY <1>1, <2>1
  <2> QED BY <2>2, <2>3, <2>4
<1>5. ASSUME NEW i \in S
      PROVE  Counts(S, i) \in 1..Cardinality(S)
  <2>1. i \in 1..n /\ i \in 0..n /\ i - 1 \in 0..n /\ n \in 0..n /\ i <= n
    OBVIOUS
  <2>2. Counts(S, i) = Counts(S, i - 1) + 1 /\ Counts(S, i - 1) \in Nat
    BY <1>1, <2>1
  <2>3. Counts(S, i) <= Counts(S, n)
    BY <1>3, <2>1
  <2>4. Counts(S, n) \in Nat
    BY <1>1, <2>1
  <2> QED BY <1>1, <2>2, <2>3, <2>4
<1>6. ASSUME NEW c \in 1..Cardinality(S)
      PROVE  \E i \in S : Counts(S, i) = c
  <2>1. Cardinality(S) \in Nat /\ c \in Nat /\ c # 0
    <3>1. n \in 0..n
      OBVIOUS
    <3>2. Cardinality(S) \in Nat
      BY <1>1, <3>1
    <3> QED BY <3>2
  <2> DEFINE T == {k \in 0..n : Counts(S, k) < c}
  <2>2. 0 \in T /\ T \in SUBSET (0..n)
    BY <1>1, <2>1
  <2> HIDE DEF T
  <2>3. \E x \in T : \A y \in T : x >= y
    BY ONLY n \in Nat, <2>2, Greatest
  <2>4. PICK x \in T : \A y \in T : x >= y
    BY <2>3
  <2>5. x \in 0..n /\ Counts(S, x) < c
    BY <2>4 DEF T
  <2>6. x # n
    BY <1>1, <2>1, <2>5
  <2>7. x + 1 \in 1..n /\ x + 1 \in 0..n /\ (x + 1) - 1 = x
    BY <2>5, <2>6
  <2>8. x + 1 \notin T
    BY <2>4, <2>5, <2>7
  <2>9. ~(Counts(S, x + 1) < c)
    BY <2>7, <2>8 DEF T
  <2>10. Counts(S, x) \in Nat /\ Counts(S, x + 1) \in Nat
    BY <1>1, <2>5, <2>7
  <2>11. x + 1 \in S
    <3>1. Counts(S, x + 1) # Counts(S, x)
      BY <2>5, <2>9
    <3> QED BY <1>1, <2>7, <3>1
  <2>12. Counts(S, x + 1) = Counts(S, x) + 1
    BY <1>1, <2>7, <2>11
  <2>13. Counts(S, x + 1) = c
    BY <2>1, <2>5, <2>9, <2>10, <2>12
  <2> QED BY <2>11, <2>13
<1>7. Cardinality(S) \in Nat
  <2>1. n \in 0..n
    OBVIOUS
  <2> QED BY <1>1, <2>1
<1> QED BY <1>4, <1>5, <1>6, <1>7

LEMMA SameCardinality == \A S : Net!Cardinality(S) = Cardinality(S)
  BY DEF Net!Cardinality, Cardinality

(* What nukeother leaves: the entries of other descriptors, in their order. *)
Entry == Net!Entries
LEMMA WithoutIs ==
  ASSUME NEW l \in Seq(Entry), NEW s
  PROVE  \E r \in Seq(Entry) : \E h \in [1..Len(r) -> 1..Len(l)] :
           /\ r = Net!Without(l, s)
           /\ \A k \in 1..Len(r) : r[k] = l[h[k]] /\ l[h[k]].s # s
           /\ \A j, k \in 1..Len(r) : j < k => h[j] < h[k]
           /\ \A i \in 1..Len(l) : l[i].s # s => \E k \in 1..Len(r) : h[k] = i
<1> DEFINE n == Len(l)   S == {i \in 1..n : l[i].s # s}
           h == [k \in 1..Cardinality(S) |-> CHOOSE i \in S : Counts(S, i) = k]
           r == [k \in 1..Cardinality(S) |-> l[h[k]]]
<1>1. n \in Nat /\ S \in SUBSET (1..n)
  OBVIOUS
<1>2. DOMAIN l = 1..n /\ \A i \in 1..n : l[i] \in Entry
  OBVIOUS
<1>3. r = Net!Without(l, s)
  <2>1. Net!Without(l, s) = LET stay == {i \in DOMAIN l : l[i].s # s}
                            IN [to \in 1..Cardinality(stay) |->
                                  l[CHOOSE from \in stay : Cardinality(stay \cap 1..from) = to]]
    BY Zenon DEF Net!Without, Net!Cardinality, Cardinality
  <2>2. S = {i \in DOMAIN l : l[i].s # s}
    BY <1>2
  <2>3. PICK T : T = {i \in DOMAIN l : l[i].s # s}
    OBVIOUS
  <2>4. Net!Without(l, s) = [to \in 1..Cardinality(T) |->
                                  l[CHOOSE from \in T : Cardinality(T \cap 1..from) = to]]
    BY <2>1, <2>3
  <2>5. S = T
    BY <2>2, <2>3
  <2> HIDE DEF S
  <2> QED BY <2>4, <2>5 DEF Counts
<1>4. \A i \in S : l[i].s # s /\ i \in 1..n
  OBVIOUS
<1>5. \A i \in 1..n : l[i].s # s => i \in S
  OBVIOUS
<1> HIDE DEF S
<1>6. /\ \A i, j \in S : i < j => Counts(S, i) < Counts(S, j)
      /\ \A i \in S : Counts(S, i) \in 1..Cardinality(S)
      /\ \A c \in 1..Cardinality(S) : \E i \in S : Counts(S, i) = c
      /\ Cardinality(S) \in Nat
  BY ONLY <1>1, CountsOrder
<1> HIDE DEF n
<1>7. \A k \in 1..Cardinality(S) : h[k] \in S /\ Counts(S, h[k]) = k
  <2> SUFFICES ASSUME NEW k \in 1..Cardinality(S)
               PROVE  h[k] \in S /\ Counts(S, h[k]) = k
    OBVIOUS
  <2>1. h[k] = CHOOSE i \in S : Counts(S, i) = k
    OBVIOUS
  <2>2. \E i \in S : Counts(S, i) = k
    BY <1>6
  <2> QED BY <2>1, <2>2
<1> HIDE DEF h
<1>8. r \in Seq(Entry) /\ Len(r) = Cardinality(S)
  <2>1. \A k \in 1..Cardinality(S) : l[h[k]] \in Entry
    BY <1>2, <1>4, <1>7
  <2>2. r \in [1..Cardinality(S) -> Entry]
    BY <2>1
  <2> HIDE DEF r
  <2> QED BY <1>6, <2>2
<1>9. h \in [1..Len(r) -> 1..Len(l)]
  <2>1. \A k \in 1..Cardinality(S) : h[k] \in 1..n
    BY <1>4, <1>7
  <2>2. h \in [1..Cardinality(S) -> 1..n]
    BY <2>1 DEF h
  <2> QED BY <1>8, <2>2 DEF n
<1>13. (\A i \in S : i \in Nat) /\ \A k \in 1..Len(r) : k \in Nat /\ h[k] \in S
  <2>1. \A i \in S : i \in Nat
    BY <1>1
  <2>2. \A k \in 1..Len(r) : k \in Nat /\ h[k] \in S
    BY <1>6, <1>7, <1>8
  <2> QED BY <2>1, <2>2
<1>10. \A k \in 1..Len(r) : r[k] = l[h[k]] /\ l[h[k]].s # s
  BY <1>4, <1>7, <1>8
<1>11. ASSUME NEW j \in 1..Len(r), NEW k \in 1..Len(r), j < k
       PROVE  h[j] < h[k]
  <2>1. h[j] \in S /\ h[k] \in S /\ Counts(S, h[j]) = j /\ Counts(S, h[k]) = k
    BY <1>7, <1>8
  <2>2. h[j] \in Nat /\ h[k] \in Nat /\ j \in Nat /\ k \in Nat
    BY ONLY <1>13, j \in 1..Len(r), k \in 1..Len(r)
  <2>3. CASE h[k] < h[j]
    <3>1. Counts(S, h[k]) < Counts(S, h[j])
      BY <1>6, <2>1, <2>3
    <3> QED BY <1>11, <2>1, <2>2, <3>1
  <2>4. CASE h[j] = h[k]
    BY <1>11, <2>1, <2>2, <2>4
  <2> QED BY <2>2, <2>3, <2>4
<1>12. ASSUME NEW i \in 1..Len(l), l[i].s # s
       PROVE  \E k \in 1..Len(r) : h[k] = i
  <2>1. i \in S
    BY <1>5, <1>12 DEF n
  <2>2. PICK k : k = Counts(S, i)
    OBVIOUS
  <2>3. k \in 1..Len(r) /\ h[k] \in S /\ Counts(S, h[k]) = k
    BY <1>6, <1>7, <1>8, <2>1, <2>2
  <2>4. h[k] \in Nat /\ i \in Nat /\ k \in Nat
    BY ONLY <1>13, <2>1, <2>3
  <2>5. ~(h[k] < i) /\ ~(i < h[k])
    BY <1>6, <2>1, <2>2, <2>3, <2>4
  <2>6. h[k] = i
    BY <2>4, <2>5
  <2> QED BY <2>3, <2>6
<1> HIDE DEF r
<1> QED BY <1>3, <1>8, <1>9, <1>10, <1>11, <1>12

(* The entry findsocket finds: the first with the node's id. *)
FirstIn(l, m, s) == \E i \in 1..Len(l) : l[i] = Net!Other(m, s) /\ \A j \in 1..(i - 1) : l[j].id # m

LEMMA FirstStays ==
  ASSUME NEW l \in Seq(Entry), NEW m, NEW s, FirstIn(l, m, s)
  PROVE  /\ \A e \in Entry : FirstIn(Append(l, e), m, s)
         /\ \A x : s # x => FirstIn(Net!Without(l, x), m, s)
         /\ l[Len(l)].id # m => FirstIn(Net!Front(l), m, s)
<1>1. PICK i \in 1..Len(l) : l[i] = Net!Other(m, s) /\ \A j \in 1..(i - 1) : l[j].id # m
  BY DEF FirstIn
<1>2. Len(l) \in Nat /\ i \in Nat /\ i <= Len(l) /\ i >= 1 /\ l[i].id = m /\ l[i].s = s
  BY <1>1 DEF Net!Other
<1>3. ASSUME NEW e \in Entry
      PROVE  FirstIn(Append(l, e), m, s)
  <2>1. Len(Append(l, e)) = Len(l) + 1 /\ \A j \in 1..Len(l) : Append(l, e)[j] = l[j]
    OBVIOUS
  <2>2. i \in 1..Len(Append(l, e)) /\ \A j \in 1..(i - 1) : j \in 1..Len(l)
    BY <1>2, <2>1
  <2> QED BY <1>1, <2>1, <2>2 DEF FirstIn
<1>4. ASSUME NEW x, s # x
      PROVE  FirstIn(Net!Without(l, x), m, s)
  <2>1. PICK r \in Seq(Entry) : \E h \in [1..Len(r) -> 1..Len(l)] :
           /\ r = Net!Without(l, x)
           /\ \A k \in 1..Len(r) : r[k] = l[h[k]] /\ l[h[k]].s # x
           /\ \A j, k \in 1..Len(r) : j < k => h[j] < h[k]
           /\ \A j \in 1..Len(l) : l[j].s # x => \E k \in 1..Len(r) : h[k] = j
    BY ONLY ZenonT(60), l \in Seq(Entry), WithoutIs
  <2>2. PICK h \in [1..Len(r) -> 1..Len(l)] :
           /\ r = Net!Without(l, x)
           /\ \A k \in 1..Len(r) : r[k] = l[h[k]] /\ l[h[k]].s # x
           /\ \A j, k \in 1..Len(r) : j < k => h[j] < h[k]
           /\ \A j \in 1..Len(l) : l[j].s # x => \E k \in 1..Len(r) : h[k] = j
    BY <2>1
  <2>3. PICK k \in 1..Len(r) : h[k] = i
    BY <1>2, <1>4, <2>2
  <2>4. r[k] = Net!Other(m, s)
    BY <1>1, <2>2, <2>3
  <2>5. ASSUME NEW j \in 1..(k - 1)
        PROVE  r[j].id # m
    <3>1. j \in 1..Len(r) /\ j < k
      OBVIOUS
    <3>2. h[j] < i /\ h[j] \in 1..Len(l) /\ r[j] = l[h[j]]
      BY <2>2, <2>3, <3>1
    <3>3. h[j] \in 1..(i - 1)
      BY <1>2, <3>2
    <3> QED BY <1>1, <3>2, <3>3
  <2> QED BY <2>2, <2>4, <2>5 DEF FirstIn
<1>5. ASSUME l[Len(l)].id # m
      PROVE  FirstIn(Net!Front(l), m, s)
  <2>1. i # Len(l)
    BY <1>2, <1>5
  <2>2. Len(Net!Front(l)) = Len(l) - 1 /\ \A j \in 1..(Len(l) - 1) : Net!Front(l)[j] = l[j]
    <3>1. PICK n : n = Len(l) - 1
      OBVIOUS
    <3>2. 1 \in Int /\ n \in Int /\ \A j \in 1..n : l[j] \in Entry
      BY <1>2, <3>1
    <3>3. /\ SubSeq(l, 1, n) \in Seq(Entry)
          /\ Len(SubSeq(l, 1, n)) = IF 1 <= n THEN n - 1 + 1 ELSE 0
          /\ \A j \in 1..(n - 1 + 1) : SubSeq(l, 1, n)[j] = l[1 + j - 1]
      BY ONLY <3>2, SubSeqProperties
    <3>4. Net!Front(l) = SubSeq(l, 1, n)
      BY <3>1 DEF Net!Front
    <3> QED BY <1>2, <2>1, <3>1, <3>3, <3>4
  <2>3. i \in 1..Len(Net!Front(l)) /\ \A j \in 1..(i - 1) : j \in 1..(Len(l) - 1)
    BY <1>2, <2>1, <2>2
  <2> QED BY <1>1, <1>2, <2>1, <2>2, <2>3 DEF FirstIn
<1> QED BY <1>3, <1>4, <1>5

LEMMA FrontIs ==
  ASSUME NEW l \in Seq(Entry), l # <<>>
  PROVE  /\ Net!Front(l) \in Seq(Entry) /\ Len(Net!Front(l)) = Len(l) - 1
         /\ \A j \in 1..(Len(l) - 1) : Net!Front(l)[j] = l[j]
<1>1. PICK n : n = Len(l) - 1
  OBVIOUS
<1>2. Len(l) \in Nat /\ Len(l) > 0
  OBVIOUS
<1>3. 1 \in Int /\ n \in Int /\ \A j \in 1..n : l[j] \in Entry
  BY <1>1, <1>2
<1>4. /\ SubSeq(l, 1, n) \in Seq(Entry)
      /\ Len(SubSeq(l, 1, n)) = IF 1 <= n THEN n - 1 + 1 ELSE 0
      /\ \A j \in 1..(n - 1 + 1) : SubSeq(l, 1, n)[j] = l[1 + j - 1]
  BY ONLY <1>3, SubSeqProperties
<1>5. Net!Front(l) = SubSeq(l, 1, n)
  BY <1>1 DEF Net!Front
<1> QED BY <1>1, <1>2, <1>4, <1>5

LEMMA FoundIsFirst ==
  ASSUME Net!ConstantsOK, NEW n, NEW m, others[n] \in Seq(Entry),
         cache[n] # None => FirstIn(others[n], cache[n].id, cache[n].s) /\ cache[n] \in Entry
  PROVE  LET o == Net!FindSocket(n, m)
         IN /\ o = None => \A i \in 1..Len(others[n]) : others[n][i].id # m
            /\ o # None => o \in Entry /\ o = Net!Other(m, o.s) /\ FirstIn(others[n], m, o.s)
<1>1. CASE cache[n] # None /\ cache[n].id = m
  BY <1>1 DEF Net!FindSocket, Net!Other, Entry, Net!Entries
<1>2. CASE ~(cache[n] # None /\ cache[n].id = m)
  <2>1. PICK l, N : l = others[n] /\ N = Len(l)
    OBVIOUS
  <2>2. l \in Seq(Entry) /\ N \in Nat /\ DOMAIN l = 1..N
    BY <2>1
  <2>3. PICK At : At = {i \in DOMAIN l : l[i].id = m}
    OBVIOUS
  <2>4. Net!FindSocket(n, m) = IF At = {} THEN None ELSE l[Net!Min(At)]
    BY <1>2, <2>1, <2>3 DEF Net!FindSocket, Net!FirstOther
  <2>5. At \in SUBSET (0..N)
    BY <2>2, <2>3
  <2>6. CASE At = {}
    <3>1. \A i \in 1..N : l[i].id # m
      BY <2>2, <2>3, <2>6
    <3> QED BY <2>1, <2>4, <2>6, <3>1
  <2>7. CASE At # {}
    <3>1. PICK i : i = Net!Min(At)
      OBVIOUS
    <3>2. i \in At /\ \A j \in At : i <= j
      BY ONLY <2>2, <2>5, <2>7, <3>1, MinOf
    <3>3. i \in 1..N /\ l[i].id = m /\ l[i] \in Entry
      BY <2>2, <2>3, <3>2
    <3>4. l[i] = Net!Other(m, l[i].s)
      BY <3>3 DEF Entry, Net!Entries, Net!Other
    <3>5. \A j \in 1..(i - 1) : l[j].id # m
      <4> SUFFICES ASSUME NEW j \in 1..(i - 1), l[j].id = m
                   PROVE  FALSE
        OBVIOUS
      <4>1. j \in 1..N /\ j < i
        BY <2>2, <3>3
      <4>2. j \in At
        BY <2>2, <2>3, <4>1
      <4> QED BY <2>2, <3>2, <3>3, <4>1, <4>2
    <3>6. FirstIn(l, m, l[i].s)
      BY <2>1, <3>3, <3>4, <3>5 DEF FirstIn
    <3>7. l[i] # None
      BY <3>3 DEF Net!ConstantsOK, Entry
    <3> QED BY <2>1, <2>4, <2>7, <3>1, <3>3, <3>4, <3>6, <3>7
  <2> QED BY <2>6, <2>7
<1> QED BY <1>1, <1>2

-----------------------------------------------------------------------------
(* What holds of the descriptors F of all nodes while the nodes of A run:  *)
(* a socket's data are from one node, its other end has it for its other   *)
(* end or is closed because the node stopped, and only what another node   *)
(* has accepted has data.                                                  *)
Ports == Net!FDs
Fds == [Nodes -> [Ports -> Net!Sockets \cup {None}]]
IsMessage(x) == x[1] = "message"
From(k) == IF k.handler = "stage2" THEN k.in[1][2] ELSE k.ri
DataOK(k) ==
  /\ k.handler = "stage2" => k.in # <<>>
  /\ \A i \in 1..Len(k.in) : IsMessage(k.in[i]) <=> (i # 1 \/ k.handler = "reader")
PeerOK(F, A, n, f, k) ==
  /\ From(k) \in Nodes \ {n}
  /\ \/ k.peer = Net!Closed /\ From(k) \notin A
     \/ /\ k.peer = <<From(k), 0>> /\ From(k) \in A /\ k.handler = "none" /\ k.in = <<>>
     \/ /\ From(k) \in A /\ (k.handler = "none" => k.in # <<>>)
        /\ \E g \in Ports : /\ k.peer = <<From(k), g>>
                            /\ F[From(k)][g] # None /\ F[From(k)][g].peer = <<n, f>>
SocketsOK(F, A) ==
  \A n \in Nodes, f \in Ports : F[n][f] # None =>
    n \in A /\ DataOK(F[n][f]) /\ PeerOK(F, A, n, f, F[n][f])

Put(F, n, f, k) == [F EXCEPT ![n][f] = k]

LEMMA PutIs ==
  ASSUME NEW F \in Fds, NEW n \in Nodes, NEW f \in Ports, NEW k \in Net!Sockets \cup {None}
  PROVE  /\ Put(F, n, f, k) \in Fds /\ Put(F, n, f, k)[n][f] = k
         /\ \A m \in Nodes, g \in Ports : m # n \/ g # f => Put(F, n, f, k)[m][g] = F[m][g]
         /\ \A m \in Nodes : m # n => Put(F, n, f, k)[m] = F[m]
<1> DEFINE G == Put(F, n, f, k)
<1>1. G = [F EXCEPT ![n] = [F[n] EXCEPT ![f] = k]]
  BY DEF Put
<1>2. F[n] \in [Ports -> Net!Sockets \cup {None}]
  BY DEF Fds
<1>3. PICK r : r = [F[n] EXCEPT ![f] = k]
  OBVIOUS
<1>4. r \in [Ports -> Net!Sockets \cup {None}] /\ r[f] = k /\ \A g \in Ports : g # f => r[g] = F[n][g]
  BY <1>2, <1>3
<1>5. G \in Fds /\ G[n] = r /\ \A m \in Nodes : m # n => G[m] = F[m]
  BY <1>1, <1>3, <1>4 DEF Fds
<1> QED BY <1>4, <1>5

LEMMA SocketIs ==
  ASSUME NEW k \in Net!Sockets
  PROVE  /\ k.in \in Seq(Net!Data) /\ k.handler \in {"none", "stage2", "reader"}
         /\ k.ri \in Nodes \cup {None} /\ k.peer \in (Nodes \X (0..MaxFD)) \cup {Net!Closed}
         /\ k = Net!Socket(k.peer, k.in, k.handler, k.ri)
BY DEF Net!Sockets, Net!Socket

LEMMA SocketHas ==
  ASSUME NEW p \in (Nodes \X (0..MaxFD)) \cup {Net!Closed}, NEW i \in Seq(Net!Data),
         NEW h \in {"none", "stage2", "reader"}, NEW d \in Nodes \cup {None}
  PROVE  LET k == Net!Socket(p, i, h, d)
         IN k \in Net!Sockets /\ k.peer = p /\ k.in = i /\ k.handler = h /\ k.ri = d
BY DEF Net!Sockets, Net!Socket

LEMMA ClosedIs ==
  ASSUME Net!ConstantsOK
  PROVE  /\ \A m \in Nodes : m # None /\ \A g : <<m, g>> # Net!Closed
         /\ \A k \in Net!Sockets : k # None
         /\ MaxFD \in Nat /\ Ports = 1..MaxFD /\ 0 \notin Ports
BY DEF Net!ConstantsOK, Net!Closed, Ports, Net!FDs

(* A socket is replaced by one with the same other end, data added or taken. *)
LEMMA ReplacedOK ==
  ASSUME Net!ConstantsOK, NEW F \in Fds, NEW A, SocketsOK(F, A), NEW n \in Nodes, NEW f \in Ports,
         F[n][f] # None, NEW k \in Net!Sockets, k.peer = F[n][f].peer, From(k) = From(F[n][f]), DataOK(k),
         F[n][f].peer # <<From(F[n][f]), 0>>, k.handler = "none" => k.in # <<>>
  PROVE  SocketsOK(Put(F, n, f, k), A)
<1>1. PICK G : G = Put(F, n, f, k)
  OBVIOUS
<1>2. /\ G[n][f] = k
      /\ \A m \in Nodes, g \in Ports : m # n \/ g # f => G[m][g] = F[m][g]
  <2>1. k \in Net!Sockets \cup {None}
    OBVIOUS
  <2> QED BY ONLY <1>1, <2>1, F \in Fds, n \in Nodes, f \in Ports, PutIs
<1>3. \A m \in Nodes, g \in Ports : F[m][g] # None => G[m][g] # None /\ G[m][g].peer = F[m][g].peer
  BY <1>2, ClosedIs
<1>4. n \in A /\ PeerOK(F, A, n, f, F[n][f])
  BY DEF SocketsOK
<1>5. PeerOK(G, A, n, f, k)
  BY ZenonT(60), <1>3, <1>4 DEF PeerOK
<1>6. ASSUME NEW m \in Nodes, NEW g \in Ports, m # n \/ g # f, G[m][g] # None
      PROVE  m \in A /\ DataOK(G[m][g]) /\ PeerOK(G, A, m, g, G[m][g])
  <2>1. G[m][g] = F[m][g]
    BY <1>2, <1>6
  <2>2. m \in A /\ DataOK(F[m][g]) /\ PeerOK(F, A, m, g, F[m][g])
    BY <1>6, <2>1 DEF SocketsOK
  <2>3. PeerOK(G, A, m, g, F[m][g])
    BY Zenon, <1>3, <2>2 DEF PeerOK
  <2> QED BY <2>1, <2>2, <2>3
<1>7. SocketsOK(G, A)
  BY <1>2, <1>4, <1>5, <1>6 DEF SocketsOK
<1> QED BY <1>1, <1>7

(* A socket whose other end is closed is closed. *)
LEMMA ClosingOK ==
  ASSUME Net!ConstantsOK, NEW F \in Fds, NEW A, SocketsOK(F, A), NEW n \in Nodes, NEW f \in Ports,
         F[n][f] # None, F[n][f].peer = Net!Closed
  PROVE  SocketsOK(Put(F, n, f, None), A)
<1>1. PICK G : G = Put(F, n, f, None)
  OBVIOUS
<1>2. /\ G[n][f] = None
      /\ \A m \in Nodes, g \in Ports : m # n \/ g # f => G[m][g] = F[m][g]
  <2>1. None \in Net!Sockets \cup {None}
    OBVIOUS
  <2> QED BY ONLY <1>1, <2>1, F \in Fds, n \in Nodes, f \in Ports, PutIs
<1>3. ASSUME NEW m \in Nodes, NEW g \in Ports, G[m][g] # None
      PROVE  m \in A /\ DataOK(G[m][g]) /\ PeerOK(G, A, m, g, G[m][g])
  <2>1. G[m][g] = F[m][g]
    BY <1>2, <1>3
  <2>2. m \in A /\ DataOK(F[m][g]) /\ PeerOK(F, A, m, g, F[m][g])
    BY <1>3, <2>1 DEF SocketsOK
  <2>3. PeerOK(G, A, m, g, F[m][g])
    <3>1. ASSUME NEW x \in Nodes, NEW h \in Ports, F[x][h].peer = <<m, g>>
          PROVE  G[x][h] = F[x][h]
      <4>1. x # n \/ h # f
        BY <3>1, ClosedIs
      <4> QED BY <1>2, <4>1
    <3> QED BY Zenon, <2>2, <3>1 DEF PeerOK
  <2> QED BY <2>1, <2>2, <2>3
<1>4. SocketsOK(G, A)
  BY <1>3 DEF SocketsOK
<1> QED BY <1>1, <1>4

(* A new socket, for the connection to a node that runs. *)
LEMMA OpeningOK ==
  ASSUME Net!ConstantsOK, NEW F \in Fds, NEW A, SocketsOK(F, A), NEW n \in Nodes, NEW f \in Ports,
         n \in A, F[n][f] = None, NEW m \in Nodes \ {n}, m \in A
  PROVE  SocketsOK(Put(F, n, f, Net!Socket(<<m, 0>>, <<>>, "none", m)), A)
<1>1. PICK k : k = Net!Socket(<<m, 0>>, <<>>, "none", m)
  OBVIOUS
<1>2. k \in Net!Sockets /\ k.peer = <<m, 0>> /\ k.in = <<>> /\ k.handler = "none" /\ k.ri = m
  <2>1. PICK p, i, h : p = <<m, 0>> /\ i = <<>> /\ h = "none"
    OBVIOUS
  <2>2. /\ p \in (Nodes \X (0..MaxFD)) \cup {Net!Closed} /\ i \in Seq(Net!Data)
        /\ h \in {"none", "stage2", "reader"} /\ m \in Nodes \cup {None}
    BY <2>1, ClosedIs
  <2>3. k = Net!Socket(p, i, h, m)
    BY <1>1, <2>1
  <2>4. k \in Net!Sockets /\ k.peer = p /\ k.in = i /\ k.handler = h /\ k.ri = m
    BY ONLY <2>2, <2>3, SocketHas
  <2> QED BY <2>1, <2>4
<1>3. PICK G : G = Put(F, n, f, k)
  OBVIOUS
<1>4. /\ G[n][f] = k
      /\ \A x \in Nodes, g \in Ports : x # n \/ g # f => G[x][g] = F[x][g]
  <2>1. k \in Net!Sockets \cup {None}
    BY <1>2
  <2> QED BY ONLY <1>3, <2>1, F \in Fds, n \in Nodes, f \in Ports, PutIs
<1>5. DataOK(k) /\ PeerOK(G, A, n, f, k)
  BY <1>2 DEF DataOK, PeerOK, From
<1>6. ASSUME NEW x \in Nodes, NEW g \in Ports, x # n \/ g # f, G[x][g] # None
      PROVE  x \in A /\ DataOK(G[x][g]) /\ PeerOK(G, A, x, g, G[x][g])
  <2>1. G[x][g] = F[x][g]
    BY <1>4, <1>6
  <2>2. x \in A /\ DataOK(F[x][g]) /\ PeerOK(F, A, x, g, F[x][g])
    BY <1>6, <2>1 DEF SocketsOK
  <2>3. PeerOK(G, A, x, g, F[x][g])
    BY Zenon, <1>4, <2>2 DEF PeerOK
  <2> QED BY <2>1, <2>2, <2>3
<1>7. SocketsOK(G, A)
  BY <1>4, <1>5, <1>6 DEF SocketsOK
<1> QED BY <1>1, <1>3, <1>7

(* A connection is accepted: the new socket has the epoch of the node that *)
(* connects, and that node's has the new one for its other end.            *)
Accepted(F, n, s, p) == Put(Put(F, n, s, Net!Socket(p, <<Net!Epoch(p[1])>>, "stage2", None)),
                            p[1], p[2], Net!Socket(<<n, s>>, <<Net!Epoch(n)>>, "none", n))

LEMMA EpochIs ==
  ASSUME NEW a \in Nodes
  PROVE  /\ <<Net!Epoch(a)>> \in Seq(Net!Data) /\ ~IsMessage(Net!Epoch(a)) /\ Net!Epoch(a)[2] = a
<1>1. PICK e : e = Net!Epoch(a)
  OBVIOUS
<1>2. e \in Net!Data /\ ~IsMessage(e) /\ e[2] = a
  BY <1>1 DEF Net!Epoch, Net!Data, IsMessage
<1>3. <<e>> \in Seq(Net!Data)
  BY <1>2
<1> QED BY <1>1, <1>2, <1>3

LEMMA Stage2Is ==
  ASSUME Net!ConstantsOK, NEW p \in (Nodes \X (0..MaxFD)) \cup {Net!Closed}, NEW a \in Nodes
  PROVE  LET k == Net!Socket(p, <<Net!Epoch(a)>>, "stage2", None)
         IN /\ k \in Net!Sockets /\ k.peer = p /\ k.in = <<Net!Epoch(a)>> /\ k.handler = "stage2"
            /\ From(k) = a /\ DataOK(k)
<1>1. PICK i, h : i = <<Net!Epoch(a)>> /\ h = "stage2"
  OBVIOUS
<1>2. PICK k : k = Net!Socket(p, i, h, None)
  OBVIOUS
<1>3. i \in Seq(Net!Data) /\ h \in {"none", "stage2", "reader"} /\ None \in Nodes \cup {None}
  BY <1>1, EpochIs
<1>4. k \in Net!Sockets /\ k.peer = p /\ k.in = i /\ k.handler = h
  BY ONLY <1>2, <1>3, p \in (Nodes \X (0..MaxFD)) \cup {Net!Closed}, SocketHas
<1>5. Len(i) = 1 /\ i[1] = Net!Epoch(a) /\ i # <<>>
  BY <1>1
<1>6. From(k) = a /\ DataOK(k)
  BY <1>1, <1>4, <1>5, EpochIs DEF From, DataOK
<1> QED BY <1>1, <1>2, <1>4, <1>6

LEMMA AcceptingClosedOK ==
  ASSUME Net!ConstantsOK, NEW F \in Fds, NEW A, SocketsOK(F, A), NEW n \in Nodes, NEW f \in Ports,
         n \in A, F[n][f] = None, NEW a \in Nodes \ {n}, a \notin A
  PROVE  SocketsOK(Put(F, n, f, Net!Socket(Net!Closed, <<Net!Epoch(a)>>, "stage2", None)), A)
<1>1. PICK k : k = Net!Socket(Net!Closed, <<Net!Epoch(a)>>, "stage2", None)
  OBVIOUS
<1>2. k \in Net!Sockets /\ k.peer = Net!Closed /\ From(k) = a /\ DataOK(k)
  <2>1. Net!Closed \in (Nodes \X (0..MaxFD)) \cup {Net!Closed}
    OBVIOUS
  <2> QED BY <1>1, <2>1, Stage2Is
<1>3. PICK G : G = Put(F, n, f, k)
  OBVIOUS
<1>4. /\ G[n][f] = k
      /\ \A x \in Nodes, g \in Ports : x # n \/ g # f => G[x][g] = F[x][g]
  <2>1. k \in Net!Sockets \cup {None}
    BY <1>2
  <2> QED BY ONLY <1>3, <2>1, F \in Fds, n \in Nodes, f \in Ports, PutIs
<1>5. PeerOK(G, A, n, f, k)
  BY <1>2 DEF PeerOK
<1>6. ASSUME NEW x \in Nodes, NEW g \in Ports, x # n \/ g # f, G[x][g] # None
      PROVE  x \in A /\ DataOK(G[x][g]) /\ PeerOK(G, A, x, g, G[x][g])
  <2>1. G[x][g] = F[x][g]
    BY <1>4, <1>6
  <2>2. x \in A /\ DataOK(F[x][g]) /\ PeerOK(F, A, x, g, F[x][g])
    BY <1>6, <2>1 DEF SocketsOK
  <2>3. PeerOK(G, A, x, g, F[x][g])
    BY Zenon, <1>4, <2>2 DEF PeerOK
  <2> QED BY <2>1, <2>2, <2>3
<1>7. SocketsOK(G, A)
  BY <1>2, <1>4, <1>5, <1>6 DEF SocketsOK
<1> QED BY <1>1, <1>3, <1>7

LEMMA AcceptingOK ==
  ASSUME Net!ConstantsOK, NEW F \in Fds, NEW A, SocketsOK(F, A), NEW n \in Nodes, NEW f \in Ports,
         n \in A, F[n][f] = None, NEW a \in Nodes \ {n}, NEW g \in Ports,
         F[a][g] # None, F[a][g].peer = <<n, 0>>, NEW G, G = Accepted(F, n, f, <<a, g>>)
  PROVE  /\ SocketsOK(G, A) /\ G \in Fds /\ F[a][g].handler = "none" /\ F[a][g].ri = n
         /\ G[n][f] \in Net!Sockets /\ G[a][g] \in Net!Sockets /\ G[a][g].handler = "none"
         /\ G[n][f].handler = "stage2" /\ G[n][f].in = <<Net!Epoch(a)>>
         /\ G[a][g].in = <<Net!Epoch(n)>> /\ G[a][g].ri = n
         /\ \A x \in Nodes, y \in Ports : ~(x = n /\ y = f) /\ ~(x = a /\ y = g) => G[x][y] = F[x][y]
<1>1. PICK p, k, r : /\ p = <<a, g>> /\ k = Net!Socket(p, <<Net!Epoch(a)>>, "stage2", None)
                     /\ r = Net!Socket(<<n, f>>, <<Net!Epoch(n)>>, "none", n)
  OBVIOUS
<1>2. p \in (Nodes \X (0..MaxFD)) \cup {Net!Closed} /\ p[1] = a /\ p[2] = g
  BY <1>1, ClosedIs
<1>3. k \in Net!Sockets /\ k.peer = p /\ k.in = <<Net!Epoch(a)>> /\ k.handler = "stage2" /\ From(k) = a /\ DataOK(k)
  BY ONLY <1>1, <1>2, Net!ConstantsOK, a \in Nodes \ {n}, Stage2Is
<1>4. /\ r \in Net!Sockets /\ r.peer = <<n, f>> /\ r.in = <<Net!Epoch(n)>> /\ r.handler = "none" /\ r.ri = n
      /\ DataOK(r) /\ From(r) = n
  <2>1. PICK u, i, h : u = <<n, f>> /\ i = <<Net!Epoch(n)>> /\ h = "none"
    OBVIOUS
  <2>2. /\ u \in (Nodes \X (0..MaxFD)) \cup {Net!Closed} /\ i \in Seq(Net!Data)
        /\ h \in {"none", "stage2", "reader"} /\ n \in Nodes \cup {None}
    BY <2>1, ClosedIs, EpochIs
  <2>3. r = Net!Socket(u, i, h, n)
    BY <1>1, <2>1
  <2>4. r \in Net!Sockets /\ r.peer = u /\ r.in = i /\ r.handler = h /\ r.ri = n
    BY ONLY <2>2, <2>3, SocketHas
  <2>5. Len(i) = 1 /\ i[1] = Net!Epoch(n)
    BY <2>1
  <2>6. DataOK(r) /\ From(r) = n
    BY <2>1, <2>4, <2>5, EpochIs DEF DataOK, From
  <2> QED BY <2>1, <2>4, <2>6
<1>5. PICK H : H = Put(F, n, f, k)
  OBVIOUS
<1>6. H \in Fds /\ H[n][f] = k /\ \A x \in Nodes, y \in Ports : x # n \/ y # f => H[x][y] = F[x][y]
  <2>1. k \in Net!Sockets \cup {None}
    BY <1>3
  <2> QED BY ONLY <1>5, <2>1, F \in Fds, n \in Nodes, f \in Ports, PutIs
<1>7. G = Put(H, a, g, r)
  BY <1>1, <1>2, <1>5 DEF Accepted
<1>8. G \in Fds /\ G[a][g] = r /\ \A x \in Nodes, y \in Ports : x # a \/ y # g => G[x][y] = H[x][y]
  <2>1. r \in Net!Sockets \cup {None} /\ a \in Nodes
    BY <1>4
  <2> QED BY ONLY <1>6, <1>7, <2>1, g \in Ports, PutIs
<1>9. /\ G[n][f] = k
      /\ \A x \in Nodes, y \in Ports : ~(x = n /\ y = f) /\ ~(x = a /\ y = g) => G[x][y] = F[x][y]
  BY <1>6, <1>8
<1>11. a \in A /\ PeerOK(F, A, a, g, F[a][g]) /\ DataOK(F[a][g])
  BY DEF SocketsOK
<1>12. From(F[a][g]) = n /\ F[a][g].handler = "none" /\ F[a][g].ri = n
  <2>1. /\ From(F[a][g]) = n /\ F[a][g].handler = "none"
    BY <1>11, ClosedIs DEF PeerOK
  <2> QED BY <2>1 DEF From
<1>13. PeerOK(G, A, n, f, k) /\ PeerOK(G, A, a, g, r)
  <2>1. k.peer = <<a, g>> /\ G[a][g] # None /\ G[a][g].peer = <<n, f>>
    BY <1>1, <1>3, <1>4, <1>8, ClosedIs
  <2>2. PeerOK(G, A, n, f, k)
    <3>1. \E y \in Ports : k.peer = <<a, y>> /\ G[a][y] # None /\ G[a][y].peer = <<n, f>>
      BY <2>1
    <3>2. k.handler # "none" /\ a \in A /\ From(k) = a
      BY <1>3, <1>11
    <3> QED BY <3>1, <3>2 DEF PeerOK
  <2>3. r.peer = <<n, f>> /\ G[n][f] # None /\ G[n][f].peer = <<a, g>>
    BY <1>1, <1>3, <1>4, <1>9, ClosedIs
  <2>4. PeerOK(G, A, a, g, r)
    <3>1. \E y \in Ports : r.peer = <<n, y>> /\ G[n][y] # None /\ G[n][y].peer = <<a, g>>
      BY <2>3
    <3>2. r.in # <<>> /\ n \in A /\ From(r) = n /\ n # a
      BY <1>4
    <3> QED BY <3>1, <3>2 DEF PeerOK
  <2> QED BY <2>2, <2>4
<1>14. ASSUME NEW x \in Nodes, NEW y \in Ports, ~(x = n /\ y = f), ~(x = a /\ y = g), G[x][y] # None
      PROVE  x \in A /\ DataOK(G[x][y]) /\ PeerOK(G, A, x, y, G[x][y])
  <2>1. G[x][y] = F[x][y]
    BY <1>9, <1>14
  <2>2. x \in A /\ DataOK(F[x][y]) /\ PeerOK(F, A, x, y, F[x][y])
    BY <1>14, <2>1 DEF SocketsOK
  <2>3. ASSUME NEW z \in Nodes, NEW h \in Ports, F[z][h] # None, F[z][h].peer = <<x, y>>
        PROVE  G[z][h] = F[z][h]
    <3>1. ~(z = n /\ h = f)
      BY <2>3
    <3>2. ~(z = a /\ h = g)
      BY <2>3, ClosedIs
    <3> QED BY <1>9, <3>1, <3>2
  <2>4. PeerOK(G, A, x, y, F[x][y])
    BY Zenon, <2>2, <2>3 DEF PeerOK
  <2> QED BY <2>1, <2>2, <2>4
<1>15. SocketsOK(G, A)
  BY <1>3, <1>4, <1>8, <1>9, <1>11, <1>13, <1>14 DEF SocketsOK
<1> QED BY <1>3, <1>4, <1>8, <1>9, <1>12, <1>15

(* A node stops: its sockets go, and the other ends find them closed. *)
Stopped(F, n, m, f) ==
  IF m = n THEN None
  ELSE IF F[m][f] # None /\ F[m][f].peer[1] = n THEN [F[m][f] EXCEPT !.peer = Net!Closed]
  ELSE F[m][f]
AllStopped(F, n, G) == \A m \in Nodes, f \in Ports : G[m][f] = Stopped(F, n, m, f)
Others(F, n, G) ==
  \A m \in Nodes \ {n}, f \in Ports :
    /\ (G[m][f] # None => F[m][f] # None) /\ (F[m][f] # None => G[m][f] # None)
    /\ F[m][f] # None => /\ G[m][f].in = F[m][f].in /\ G[m][f].handler = F[m][f].handler
                         /\ G[m][f].ri = F[m][f].ri /\ From(G[m][f]) = From(F[m][f])
                         /\ F[m][f].peer[1] # n => G[m][f] = F[m][f]

LEMMA CrashingOK ==
  ASSUME Net!ConstantsOK, NEW F \in Fds, NEW A, SocketsOK(F, A), NEW n \in Nodes, NEW G \in Fds,
         AllStopped(F, n, G), NEW B, B = A \ {n}
  PROVE  /\ SocketsOK(G, B)
         /\ Others(F, n, G)
<1>1. ASSUME NEW m \in Nodes \ {n}, NEW f \in Ports, F[m][f] # None
      PROVE  /\ G[m][f] # None /\ G[m][f].in = F[m][f].in /\ G[m][f].handler = F[m][f].handler
             /\ G[m][f].ri = F[m][f].ri /\ From(G[m][f]) = From(F[m][f]) /\ (DataOK(F[m][f]) => DataOK(G[m][f]))
             /\ IF F[m][f].peer[1] = n THEN G[m][f].peer = Net!Closed ELSE G[m][f] = F[m][f]
  <2>1. PICK k : k = F[m][f]
    OBVIOUS
  <2>2. k \in Net!Sockets
    BY <1>1, <2>1 DEF Fds
  <2>3. CASE k.peer[1] = n
    <3>1. PICK c : c = Net!Closed
      OBVIOUS
    <3>2. PICK q : q = [k EXCEPT !.peer = c]
      OBVIOUS
    <3>3. q.peer = c /\ q.in = k.in /\ q.handler = k.handler /\ q.ri = k.ri /\ q \in Net!Sockets
      BY <2>2, <3>1, <3>2 DEF Net!Sockets
    <3>4. G[m][f] = q
      BY <1>1, <2>1, <2>3, <3>1, <3>2 DEF AllStopped, Stopped
    <3>5. From(q) = From(k) /\ (DataOK(k) => DataOK(q)) /\ q # None
      BY <3>3, ClosedIs DEF From, DataOK
    <3> QED BY <2>1, <2>3, <3>1, <3>3, <3>4, <3>5
  <2>4. CASE k.peer[1] # n
    BY <1>1, <2>1, <2>4 DEF AllStopped, Stopped
  <2> QED BY <2>3, <2>4
<1>2. \A m \in Nodes \ {n}, f \in Ports : F[m][f] = None => G[m][f] = None
  BY DEF AllStopped, Stopped
<1>3. ASSUME NEW m \in Nodes, NEW f \in Ports, G[m][f] # None
      PROVE  m \in B /\ DataOK(G[m][f]) /\ PeerOK(G, B, m, f, G[m][f])
  <2>1. m # n /\ F[m][f] # None
    BY <1>2, <1>3 DEF AllStopped, Stopped
  <2>2. m \in A /\ DataOK(F[m][f]) /\ PeerOK(F, A, m, f, F[m][f])
    BY <2>1 DEF SocketsOK
  <2>3. CASE F[m][f].peer[1] = n
    <3>1. G[m][f].peer = Net!Closed /\ From(G[m][f]) = From(F[m][f])
      BY <1>1, <2>1, <2>3
    <3>2. From(F[m][f]) = n
      BY <2>2, <2>3, ClosedIs DEF PeerOK, Net!Closed
    <3> QED BY <1>1, <2>1, <2>2, <3>1, <3>2 DEF PeerOK
  <2>4. CASE F[m][f].peer[1] # n
    <3>1. G[m][f] = F[m][f]
      BY <1>1, <2>1, <2>4
    <3>2. ASSUME NEW x \in Nodes \ {n}, NEW h \in Ports, F[x][h] # None, F[x][h].peer = <<m, f>>
          PROVE  G[x][h] # None /\ G[x][h].peer = F[x][h].peer
      <4>1. F[x][h].peer[1] = m
        BY <3>2
      <4>2. F[x][h].peer[1] # n
        BY <2>1, <4>1
      <4> QED BY <1>1, <3>2, <4>2
    <3>3. PeerOK(G, B, m, f, F[m][f])
      <4>1. PICK k, x : k = F[m][f] /\ x = From(k)
        OBVIOUS
      <4>2. CASE k.peer = Net!Closed /\ x \notin A
        BY <2>2, <4>1, <4>2 DEF PeerOK
      <4>3. CASE k.peer = <<x, 0>> /\ x \in A /\ k.handler = "none" /\ k.in = <<>>
        <5>1. x # n
          BY <2>4, <4>1, <4>3
        <5> QED BY <2>2, <4>1, <4>3, <5>1 DEF PeerOK
      <4>4. CASE /\ x \in A /\ (k.handler = "none" => k.in # <<>>)
                 /\ \E g \in Ports : k.peer = <<x, g>> /\ F[x][g] # None /\ F[x][g].peer = <<m, f>>
        <5>1. PICK g \in Ports : k.peer = <<x, g>> /\ F[x][g] # None /\ F[x][g].peer = <<m, f>>
          BY <4>4
        <5>2. x # n
          BY <2>4, <4>1, <5>1
        <5>3. x \in Nodes \ {n}
          BY <2>2, <4>1, <5>2 DEF PeerOK
        <5>4. G[x][g] # None /\ G[x][g].peer = <<m, f>>
          BY <3>2, <5>1, <5>3
        <5> QED BY Zenon, <2>2, <4>1, <4>4, <5>1, <5>2, <5>4 DEF PeerOK
      <4> QED BY Zenon, <2>2, <4>1, <4>2, <4>3, <4>4 DEF PeerOK
    <3> QED BY <2>1, <2>2, <3>1, <3>3
  <2> QED BY <2>3, <2>4
<1>4. SocketsOK(G, B)
  BY <1>3 DEF SocketsOK
<1>5. ASSUME NEW m \in Nodes \ {n}, NEW f \in Ports
      PROVE  /\ (G[m][f] # None => F[m][f] # None) /\ (F[m][f] # None => G[m][f] # None)
             /\ F[m][f] # None => /\ G[m][f].in = F[m][f].in /\ G[m][f].handler = F[m][f].handler
                                  /\ G[m][f].ri = F[m][f].ri /\ From(G[m][f]) = From(F[m][f])
                                  /\ F[m][f].peer[1] # n => G[m][f] = F[m][f]
  BY <1>1, <1>2
<1> QED BY <1>4, <1>5 DEF Others

-----------------------------------------------------------------------------
(* What holds of the table l of a node with the descriptors r that waits   *)
(* for w: an entry is that of an open socket, and when it has a node, of   *)
(* one from that node, but for the entries to be removed; while the node   *)
(* connects to another the last entry is the new one, no other has that    *)
(* node, and those to be removed have only nodes that have stopped.        *)
Conn(w) == w # None /\ w.id # None
Nuking(w, s) == w # None /\ w.nuke = s
EntryOK(r, e) == r[e.s] # None /\ (e.id # None => r[e.s].handler # "stage2" /\ r[e.s].ri = e.id)
WaitOK(r, w) ==
  /\ \A f \in Ports : r[f] # None /\ r[f].handler = "none" => Conn(w) /\ w.s = f
  /\ IF Conn(w) THEN w.s \in Ports /\ w.id \in Nodes /\ r[w.s] # None /\ r[w.s].handler = "none" /\ r[w.s].ri = w.id
     ELSE \A f \in Ports : ~Nuking(w, f)
LastOK(l, w, A, K, n) ==
  /\ l # <<>> /\ l[Len(l)] = Net!Other(w.id, w.s)
  /\ \A i \in 1..(Len(l) - 1) : /\ l[i].id # w.id /\ (l[i].s = w.s => w.nuke = w.s)
                                /\ l[i].s = w.nuke => l[i].id \notin A
  /\ w.nuke = w.s => <<n, w.id>> \in K
TableOK(r, l, w, A, K, n) ==
  /\ WaitOK(r, w)
  /\ \A i \in 1..Len(l) : ~Nuking(w, l[i].s) => EntryOK(r, l[i])
  /\ Conn(w) => LastOK(l, w, A, K, n)
CacheOK(c, l, w) ==
  c # None /\ ~Nuking(w, c.s) => c.id \in Nodes /\ FirstIn(l, c.id, c.s) /\ (Conn(w) => c.id # w.id)

SameShape(r, q) ==
  \A f \in Ports : /\ r[f] = None <=> q[f] = None
                   /\ r[f] # None => q[f].handler = r[f].handler /\ q[f].ri = r[f].ri

LEMMA EntryIs ==
  ASSUME Net!ConstantsOK, NEW l \in Seq(Entry)
  PROVE  /\ Len(l) \in Nat
         /\ \A i \in 1..Len(l) : l[i] \in Entry /\ l[i].id \in Nodes \cup {None} /\ l[i].s \in Ports
         /\ \A m \in Nodes \cup {None}, s \in Ports :
              /\ Net!Other(m, s) \in Entry /\ Net!Other(m, s).id = m /\ Net!Other(m, s).s = s
              /\ LET t == Append(l, Net!Other(m, s))
                 IN /\ t \in Seq(Entry) /\ t # <<>> /\ Len(t) = Len(l) + 1 /\ t[Len(t)] = Net!Other(m, s)
                    /\ \A i \in 1..Len(l) : t[i] = l[i]
                    /\ \A i \in 1..Len(t) : i \in 1..Len(l) \/ i = Len(l) + 1
         /\ \A e \in Entry : e # None
<1>1. \A m \in Nodes \cup {None}, s \in Ports :
        Net!Other(m, s) \in Entry /\ Net!Other(m, s).id = m /\ Net!Other(m, s).s = s
  BY DEF Entry, Net!Entries, Net!Other, Ports
<1>2. ASSUME NEW e \in Entry
      PROVE  e # None /\ e.id \in Nodes \cup {None} /\ e.s \in Ports
  BY DEF Entry, Net!Entries, Net!ConstantsOK, Ports
<1>3. \A i \in 1..Len(l) : l[i] \in Entry
  OBVIOUS
<1>4. ASSUME NEW e \in Entry
      PROVE  LET t == Append(l, e)
             IN /\ t \in Seq(Entry) /\ t # <<>> /\ Len(t) = Len(l) + 1 /\ t[Len(t)] = e
                /\ \A i \in 1..Len(l) : t[i] = l[i]
                /\ \A i \in 1..Len(t) : i \in 1..Len(l) \/ i = Len(l) + 1
  OBVIOUS
<1>5. Len(l) \in Nat
  OBVIOUS
<1> QED BY <1>1, <1>2, <1>3, <1>4, <1>5

LEMMA SameTable ==
  ASSUME Net!ConstantsOK, NEW r, NEW q, NEW l \in Seq(Entry), NEW w, NEW A, NEW B \in SUBSET A, NEW K, NEW M, K \subseteq M,
         NEW n, SameShape(r, q), TableOK(r, l, w, A, K, n)
  PROVE  TableOK(q, l, w, B, M, n)
<1>1. \A i \in 1..Len(l) : l[i].s \in Ports
  BY EntryIs
<1>2. WaitOK(q, w)
  BY DEF WaitOK, TableOK, SameShape
<1>3. \A i \in 1..Len(l) : ~Nuking(w, l[i].s) => EntryOK(q, l[i])
  BY <1>1 DEF TableOK, SameShape, EntryOK
<1>4. Conn(w) => LastOK(l, w, B, M, n)
  BY DEF TableOK, LastOK
<1> QED BY <1>2, <1>3, <1>4 DEF TableOK

(* A node that waits for nothing connects to another it has no entry of,   *)
(* after which the entries of nuke are to be removed.                      *)
LEMMA ConnectingTable ==
  ASSUME Net!ConstantsOK, NEW r, NEW l \in Seq(Entry), NEW A, NEW K, NEW n, NEW m \in Nodes, NEW nuke \in 0..MaxFD,
         NEW s \in Ports, NEW c, c # None => c.id \in Nodes /\ FirstIn(l, c.id, c.s),
         \A f \in Ports : r[f] # None => r[f].handler # "none",
         \A i \in 1..Len(l) : IF l[i].s = nuke THEN l[i].id \notin A ELSE EntryOK(r, l[i]),
         \A i \in 1..Len(l) : l[i].id # m,
         r[s] = None, s = nuke => <<n, m>> \in K,
         NEW q, q[s] = Net!Socket(<<m, 0>>, <<>>, "none", m), \A f \in Ports : f # s => q[f] = r[f]
  PROVE  /\ TableOK(q, Append(l, Net!Other(m, s)), Net!Waiting(s, m, nuke), A, K, n)
         /\ CacheOK(c, Append(l, Net!Other(m, s)), Net!Waiting(s, m, nuke))
<1>1. PICK t, w, k : /\ t = Append(l, Net!Other(m, s)) /\ w = Net!Waiting(s, m, nuke)
                     /\ k = Net!Socket(<<m, 0>>, <<>>, "none", m)
  OBVIOUS
<1>2. w.s = s /\ w.id = m /\ w.nuke = nuke /\ w \in Net!Calls
  BY <1>1 DEF Net!Waiting, Net!Calls, Ports, Net!FDs, Net!ConstantsOK
<1>3. k.handler = "none" /\ k.ri = m /\ k # None
  <2>1. PICK p : p = <<m, 0>>
    OBVIOUS
  <2>2. p \in (Nodes \X (0..MaxFD)) \cup {Net!Closed}
    BY <2>1, ClosedIs
  <2>3. PICK i, h : i = <<>> /\ h = "none"
    OBVIOUS
  <2>4. k = Net!Socket(p, i, h, m) /\ i \in Seq(Net!Data) /\ h \in {"none", "stage2", "reader"} /\ m \in Nodes \cup {None}
    BY <1>1, <2>1, <2>3
  <2>5. k \in Net!Sockets /\ k.handler = h /\ k.ri = m
    BY ONLY <2>2, <2>4, SocketHas
  <2> QED BY <2>3, <2>5, ClosedIs
<1>4. w # None /\ m # None /\ Conn(w)
  BY <1>2, ClosedIs DEF Conn, Net!ConstantsOK
<1>5. /\ t \in Seq(Entry) /\ t # <<>> /\ Len(t) = Len(l) + 1 /\ t[Len(t)] = Net!Other(m, s)
      /\ \A i \in 1..Len(l) : t[i] = l[i]
      /\ \A i \in 1..Len(t) : i \in 1..Len(l) \/ i = Len(l) + 1
      /\ Net!Other(m, s).id = m /\ Net!Other(m, s).s = s /\ Net!Other(m, s) \in Entry
      /\ Len(l) \in Nat /\ \A i \in 1..Len(l) : l[i] \in Entry /\ l[i].s \in Ports
  BY <1>1, EntryIs
<1>6. WaitOK(q, w)
  BY <1>1, <1>2, <1>3, <1>4 DEF WaitOK
<1>7. ASSUME NEW i \in 1..Len(t), ~Nuking(w, t[i].s)
      PROVE  EntryOK(q, t[i])
  <2>1. CASE i \in 1..Len(l)
    <3>1. t[i] = l[i] /\ l[i].s # nuke /\ EntryOK(r, l[i]) /\ l[i].s \in Ports
      BY <1>2, <1>4, <1>5, <1>7, <2>1 DEF Nuking
    <3>2. q[l[i].s] = r[l[i].s]
      BY <3>1 DEF EntryOK
    <3> QED BY <3>1, <3>2 DEF EntryOK
  <2>2. CASE i = Len(l) + 1
    <3>1. t[i] = Net!Other(m, s)
      BY <1>5, <2>2
    <3>2. t[i].id = m /\ t[i].s = s
      BY <1>5, <3>1
    <3> QED BY <1>1, <1>3, <3>2 DEF EntryOK
  <2> QED BY <1>5, <2>1, <2>2
<1>8. LastOK(t, w, A, K, n)
  <2>1. ASSUME NEW i \in 1..(Len(t) - 1)
        PROVE  t[i].id # w.id /\ (t[i].s = w.s => w.nuke = w.s) /\ (t[i].s = w.nuke => t[i].id \notin A)
    <3>1. i \in 1..Len(l) /\ t[i] = l[i]
      BY <1>5
    <3>2. l[i].id # m /\ (l[i].s = nuke => l[i].id \notin A) /\ (l[i].s = s => s = nuke)
      BY <3>1 DEF EntryOK
    <3> QED BY <1>2, <3>1, <3>2
  <2>2. w.nuke = w.s => <<n, w.id>> \in K
    BY <1>2
  <2> QED BY <1>2, <1>5, <2>1, <2>2 DEF LastOK
<1>9. CacheOK(c, t, w)
  <2> SUFFICES ASSUME c # None
               PROVE  c.id \in Nodes /\ FirstIn(t, c.id, c.s) /\ c.id # w.id
    BY DEF CacheOK
  <2>1. FirstIn(l, c.id, c.s) /\ c.id \in Nodes
    OBVIOUS
  <2>2. PICK i \in 1..Len(l) : l[i] = Net!Other(c.id, c.s)
    BY <2>1 DEF FirstIn
  <2>3. l[i].id = c.id
    BY <2>2 DEF Net!Other
  <2>4. FirstIn(t, c.id, c.s)
    BY <1>1, <1>5, <2>1, FirstStays
  <2> QED BY <1>2, <2>1, <2>3, <2>4
<1> QED BY <1>1, <1>4, <1>6, <1>7, <1>8, <1>9 DEF TableOK

(* What stays of a table when the entries of nuke are removed, if any. *)
Finally(l, nuke) == IF nuke = 0 THEN l ELSE Net!Without(l, nuke)

LEMMA FinallyIs ==
  ASSUME Net!ConstantsOK, NEW l \in Seq(Entry), NEW nuke
  PROVE  /\ Finally(l, nuke) \in Seq(Entry)
         /\ \A k \in 1..Len(Finally(l, nuke)) : \E i \in 1..Len(l) :
              Finally(l, nuke)[k] = l[i] /\ l[i].s # nuke
         /\ \A m, s : FirstIn(l, m, s) /\ s # nuke => FirstIn(Finally(l, nuke), m, s)
<1>1. CASE nuke = 0
  <2>1. Finally(l, nuke) = l
    BY <1>1 DEF Finally
  <2>2. \A k \in 1..Len(l) : l[k].s # 0
    BY EntryIs, ClosedIs
  <2> QED BY <1>1, <2>1, <2>2
<1>2. CASE nuke # 0
  <2>1. PICK r \in Seq(Entry) : \E h \in [1..Len(r) -> 1..Len(l)] :
           /\ r = Net!Without(l, nuke)
           /\ \A k \in 1..Len(r) : r[k] = l[h[k]] /\ l[h[k]].s # nuke
           /\ \A j, k \in 1..Len(r) : j < k => h[j] < h[k]
           /\ \A i \in 1..Len(l) : l[i].s # nuke => \E k \in 1..Len(r) : h[k] = i
    BY ONLY l \in Seq(Entry), WithoutIs
  <2>2. r = Finally(l, nuke) /\ r = Net!Without(l, nuke)
    BY <1>2, <2>1 DEF Finally
  <2>3. \A k \in 1..Len(r) : \E i \in 1..Len(l) : r[k] = l[i] /\ l[i].s # nuke
    BY <2>1
  <2>4. ASSUME NEW m, NEW s, FirstIn(l, m, s), s # nuke
        PROVE  FirstIn(r, m, s)
    BY <2>2, <2>4, FirstStays
  <2> QED BY <2>1, <2>2, <2>3, <2>4
<1> QED BY <1>1, <1>2

(* The other has answered: the descriptor gets the reader.                 *)
LEMMA ConnectedTable ==
  ASSUME Net!ConstantsOK, NEW r, NEW l \in Seq(Entry), NEW w, NEW A, NEW K, NEW n, Conn(w), TableOK(r, l, w, A, K, n),
         NEW q, q[w.s] # None, q[w.s].handler = "reader", q[w.s].ri = w.id,
         \A f \in Ports : f # w.s => q[f] = r[f]
  PROVE  /\ TableOK(q, Finally(l, w.nuke), None, A, K, n)
         /\ w.nuke = 0 => CacheOK(Net!Other(w.id, w.s), Finally(l, w.nuke), None)
         /\ CacheOK(None, Finally(l, w.nuke), None)
<1>1. PICK t : t = Finally(l, w.nuke)
  OBVIOUS
<1>2. t \in Seq(Entry) /\ \A k \in 1..Len(t) : \E i \in 1..Len(l) : t[k] = l[i] /\ l[i].s # w.nuke
  BY <1>1, FinallyIs
<1>3. WaitOK(r, w) /\ LastOK(l, w, A, K, n) /\ \A i \in 1..Len(l) : ~Nuking(w, l[i].s) => EntryOK(r, l[i])
  BY DEF TableOK
<1>4. w # None /\ w.s \in Ports /\ w.id \in Nodes /\ r[w.s] # None /\ r[w.s].handler = "none"
  BY <1>3 DEF Conn, WaitOK
<1>5. Len(l) \in Nat /\ Len(l) \in 1..Len(l) /\ l[Len(l)].id = w.id /\ l[Len(l)].s = w.s
  <2>1. l # <<>> /\ l[Len(l)] = Net!Other(w.id, w.s)
    BY <1>3 DEF LastOK
  <2>2. Len(l) \in Nat /\ Len(l) \in 1..Len(l)
    BY <2>1
  <2> QED BY <2>1, <2>2 DEF Net!Other
<1>6. \A i \in 1..Len(l) : l[i] \in Entry /\ l[i].s \in Ports
  BY EntryIs
<1>7. ASSUME NEW k \in 1..Len(t)
      PROVE  EntryOK(q, t[k])
  <2>1. PICK i \in 1..Len(l) : t[k] = l[i] /\ l[i].s # w.nuke
    BY <1>2
  <2>2. EntryOK(r, l[i]) /\ l[i].s \in Ports
    BY <1>3, <1>4, <1>6, <2>1 DEF Nuking
  <2>3. CASE l[i].s # w.s
    <3>1. q[l[i].s] = r[l[i].s]
      BY <2>2, <2>3
    <3> QED BY <2>1, <2>2, <3>1 DEF EntryOK
  <2>4. CASE l[i].s = w.s
    <3>1. i = Len(l)
      <4>1. i # Len(l) => i \in 1..(Len(l) - 1)
        BY <1>5
      <4> QED BY <1>3, <2>1, <2>4, <4>1 DEF LastOK
    <3> QED BY <1>5, <2>1, <2>4, <3>1 DEF EntryOK
  <2> QED BY <2>3, <2>4
<1>8. ~Conn(None) /\ \A f : ~Nuking(None, f)
  BY DEF Conn, Nuking
<1>9. WaitOK(q, None)
  <2>1. ASSUME NEW f \in Ports, q[f] # None
        PROVE  q[f].handler # "none"
    <3>1. CASE f = w.s
      BY <3>1
    <3>2. CASE f # w.s
      BY <1>3, <2>1, <3>2 DEF WaitOK
    <3> QED BY <3>1, <3>2
  <2> QED BY <1>8, <2>1 DEF WaitOK
<1>10. TableOK(q, t, None, A, K, n)
  BY <1>7, <1>8, <1>9 DEF TableOK
<1>11. ASSUME w.nuke = 0
       PROVE  CacheOK(Net!Other(w.id, w.s), t, None)
  <2>1. t = l
    BY <1>1, <1>11 DEF Finally
  <2>2. FirstIn(l, w.id, w.s)
    BY <1>3, <1>5 DEF FirstIn, LastOK
  <2>3. Net!Other(w.id, w.s).id = w.id /\ Net!Other(w.id, w.s).s = w.s
    BY DEF Net!Other
  <2> QED BY <1>4, <1>8, <2>1, <2>2, <2>3 DEF CacheOK
<1>12. CacheOK(None, t, None)
  BY DEF CacheOK
<1> QED BY <1>1, <1>10, <1>11, <1>12

(* The other is gone: the descriptor is closed and the last entry goes.    *)
LEMMA RefusedTable ==
  ASSUME Net!ConstantsOK, NEW r, NEW l \in Seq(Entry), NEW w, NEW A, NEW K, NEW n, Conn(w), TableOK(r, l, w, A, K, n),
         NEW c \in Entry \cup {None}, CacheOK(c, l, w),
         NEW q, q[w.s] = None, \A f \in Ports : f # w.s => q[f] = r[f]
  PROVE  /\ l # <<>>
         /\ TableOK(q, Finally(Net!Front(l), w.nuke), None, A, K, n)
         /\ w.nuke = 0 => CacheOK(c, Finally(Net!Front(l), w.nuke), None)
         /\ CacheOK(None, Finally(Net!Front(l), w.nuke), None)
<1>1. PICK u : u = Net!Front(l)
  OBVIOUS
<1>2. WaitOK(r, w) /\ LastOK(l, w, A, K, n) /\ \A i \in 1..Len(l) : ~Nuking(w, l[i].s) => EntryOK(r, l[i])
  BY DEF TableOK
<1>3. l # <<>> /\ l[Len(l)] = Net!Other(w.id, w.s)
  BY <1>2 DEF LastOK
<1>4. u \in Seq(Entry) /\ Len(u) = Len(l) - 1 /\ \A j \in 1..(Len(l) - 1) : u[j] = l[j]
  BY <1>1, <1>3, FrontIs
<1>5. PICK t : t = Finally(u, w.nuke)
  OBVIOUS
<1>6. /\ t \in Seq(Entry) /\ \A k \in 1..Len(t) : \E i \in 1..Len(u) : t[k] = u[i] /\ u[i].s # w.nuke
      /\ \A m, s : FirstIn(u, m, s) /\ s # w.nuke => FirstIn(t, m, s)
  <2>1. PICK v : v = w.nuke
    OBVIOUS
  <2>2. u \in Seq(Entry) /\ t = Finally(u, v)
    BY <1>4, <1>5, <2>1
  <2>3. /\ Finally(u, v) \in Seq(Entry)
        /\ \A k \in 1..Len(Finally(u, v)) : \E i \in 1..Len(u) : Finally(u, v)[k] = u[i] /\ u[i].s # v
        /\ \A m, s : FirstIn(u, m, s) /\ s # v => FirstIn(Finally(u, v), m, s)
    BY ONLY Net!ConstantsOK, <2>2, FinallyIs
  <2>4. /\ t \in Seq(Entry) /\ \A k \in 1..Len(t) : \E i \in 1..Len(u) : t[k] = u[i] /\ u[i].s # v
        /\ \A m, s : FirstIn(u, m, s) /\ s # v => FirstIn(t, m, s)
    BY ONLY <2>2, <2>3
  <2> QED BY ONLY <2>1, <2>4
<1>7. Len(l) \in Nat /\ \A i \in 1..Len(l) : l[i] \in Entry /\ l[i].s \in Ports
  BY EntryIs
<1>8. w # None /\ w.s \in Ports /\ r[w.s] # None /\ r[w.s].handler = "none" /\ l[Len(l)].id = w.id
  BY <1>2, <1>3 DEF Conn, WaitOK, Net!Other
<1>9. ASSUME NEW k \in 1..Len(t)
      PROVE  EntryOK(q, t[k])
  <2>1. PICK i \in 1..Len(u) : t[k] = u[i] /\ u[i].s # w.nuke
    BY <1>6
  <2>2. i \in 1..(Len(l) - 1) /\ i \in 1..Len(l) /\ t[k] = l[i]
    BY <1>4, <1>7, <2>1
  <2>3. EntryOK(r, l[i]) /\ l[i].s \in Ports /\ l[i].s # w.s
    BY <1>2, <1>7, <1>8, <2>1, <2>2 DEF Nuking, LastOK
  <2>4. q[l[i].s] = r[l[i].s]
    BY <2>3
  <2> QED BY <2>2, <2>3, <2>4 DEF EntryOK
<1>10. ~Conn(None) /\ \A f : ~Nuking(None, f)
  BY DEF Conn, Nuking
<1>11. WaitOK(q, None)
  <2>1. ASSUME NEW f \in Ports, q[f] # None
        PROVE  q[f].handler # "none"
    <3>1. f # w.s /\ q[f] = r[f]
      BY <2>1
    <3> QED BY <1>2, <2>1, <3>1 DEF WaitOK
  <2> QED BY <1>10, <2>1 DEF WaitOK
<1>12. TableOK(q, t, None, A, K, n)
  BY <1>9, <1>10, <1>11 DEF TableOK
<1>13. ASSUME w.nuke = 0
       PROVE  CacheOK(c, t, None)
  <2> SUFFICES ASSUME c # None
               PROVE  c.id \in Nodes /\ FirstIn(t, c.id, c.s)
    BY <1>10 DEF CacheOK
  <2>1. c.s \in Ports /\ c.s # 0
    BY ClosedIs DEF Entry, Net!Entries, Ports
  <2>2. c.id \in Nodes /\ FirstIn(l, c.id, c.s) /\ c.id # w.id
    BY <1>13, <2>1 DEF CacheOK, Nuking
  <2>3. FirstIn(u, c.id, c.s)
    BY <1>1, <1>8, <2>2, FirstStays
  <2> QED BY <1>6, <1>13, <2>1, <2>2, <2>3
<1>14. CacheOK(None, t, None)
  BY DEF CacheOK
<1> QED BY <1>1, <1>3, <1>5, <1>12, <1>13, <1>14

(* A node that waits for nothing adds the entry of a descriptor.           *)
LEMMA AddedTable ==
  ASSUME Net!ConstantsOK, NEW r, NEW l \in Seq(Entry), NEW A, NEW K, NEW n, TableOK(r, l, None, A, K, n),
         NEW c, CacheOK(c, l, None), NEW m \in Nodes \cup {None}, NEW f \in Ports,
         NEW q, q[f] # None, q[f].handler # "none", m # None => q[f].handler = "reader" /\ q[f].ri = m,
         r[f] # None => r[f].handler = "stage2",
         \A g \in Ports : g # f => q[g] = r[g]
  PROVE  /\ TableOK(q, Append(l, Net!Other(m, f)), None, A, K, n)
         /\ CacheOK(c, Append(l, Net!Other(m, f)), None)
<1>1. PICK t, e : t = Append(l, e) /\ e = Net!Other(m, f)
  OBVIOUS
<1>2. /\ e.id = m /\ e.s = f /\ e \in Entry /\ Len(l) \in Nat /\ t \in Seq(Entry) /\ t[Len(l) + 1] = e
      /\ \A i \in 1..Len(l) : t[i] = l[i] /\ l[i].s \in Ports
      /\ \A i \in 1..Len(t) : i \in 1..Len(l) \/ i = Len(l) + 1
  <2>1. e \in Entry /\ e.id = m /\ e.s = f /\ Len(l) \in Nat /\ \A i \in 1..Len(l) : l[i].s \in Ports
    BY <1>1, EntryIs
  <2>2. /\ t \in Seq(Entry) /\ Len(t) = Len(l) + 1 /\ t[Len(l) + 1] = e
        /\ \A i \in 1..Len(l) : t[i] = l[i]
    BY ONLY <1>1, <2>1, l \in Seq(Entry)
  <2> QED BY <2>1, <2>2
<1>3. ~Conn(None) /\ \A g : ~Nuking(None, g)
  BY DEF Conn, Nuking
<1>4. WaitOK(q, None)
  BY <1>3 DEF WaitOK, TableOK
<1>5. ASSUME NEW i \in 1..Len(t)
      PROVE  EntryOK(q, t[i])
  <2>1. CASE i \in 1..Len(l)
    <3>1. EntryOK(r, l[i]) /\ t[i] = l[i] /\ l[i].s \in Ports
      BY <1>2, <1>3, <2>1 DEF TableOK
    <3>2. CASE l[i].s = f
      BY <3>1, <3>2 DEF EntryOK
    <3>3. CASE l[i].s # f
      BY <3>1, <3>3 DEF EntryOK
    <3> QED BY <3>2, <3>3
  <2>2. CASE i = Len(l) + 1
    BY <1>2, <2>2 DEF EntryOK
  <2> QED BY <1>2, <2>1, <2>2
<1>6. TableOK(q, t, None, A, K, n)
  BY <1>3, <1>4, <1>5 DEF TableOK
<1>7. CacheOK(c, t, None)
  BY <1>1, <1>2, <1>3, FirstStays DEF CacheOK
<1> QED BY <1>1, <1>6, <1>7

(* A node that waits for nothing closes a descriptor and removes its entries. *)
LEMMA RemovedTable ==
  ASSUME Net!ConstantsOK, NEW r, NEW l \in Seq(Entry), NEW A, NEW K, NEW n, TableOK(r, l, None, A, K, n),
         NEW f \in Ports, NEW q, q[f] = None, \A g \in Ports : g # f => q[g] = r[g]
  PROVE  /\ TableOK(q, Finally(l, f), None, A, K, n)
         /\ CacheOK(None, Finally(l, f), None)
<1>1. PICK t : t = Finally(l, f)
  OBVIOUS
<1>2. t \in Seq(Entry) /\ \A k \in 1..Len(t) : \E i \in 1..Len(l) : t[k] = l[i] /\ l[i].s # f
  BY <1>1, FinallyIs
<1>3. ~Conn(None) /\ \A g : ~Nuking(None, g)
  BY DEF Conn, Nuking
<1>4. WaitOK(q, None)
  BY <1>3 DEF WaitOK, TableOK
<1>5. ASSUME NEW k \in 1..Len(t)
      PROVE  EntryOK(q, t[k])
  <2>1. PICK i \in 1..Len(l) : t[k] = l[i] /\ l[i].s # f
    BY <1>2
  <2>2. EntryOK(r, l[i]) /\ l[i].s \in Ports
    BY <1>3, EntryIs DEF TableOK
  <2> QED BY <2>1, <2>2 DEF EntryOK
<1>6. TableOK(q, t, None, A, K, n)
  BY <1>3, <1>4, <1>5 DEF TableOK
<1> QED BY <1>1, <1>6 DEF CacheOK

-----------------------------------------------------------------------------
(* What holds of the messages of node a to node b, whose sockets are F[b]: *)
(* the numbers g that b got increase, what is on its way is greater than   *)
(* they and increases too, it is all in one socket, and a finds the other  *)
(* end of that one first in its table l.  D has the numbers a has written. *)
HasMessage(x) == \E i \in 1..Len(x) : IsMessage(x[i])
ComingOK(F, A, l, D, g, a, b, h) ==
  \A i \in 1..Len(F[b][h].in) : IsMessage(F[b][h].in[i]) =>
    /\ F[b][h].in[i][2] \in D
    /\ \A j \in 1..Len(g) : g[j] < F[b][h].in[i][2]
    /\ \A j \in 1..Len(F[b][h].in) : IsMessage(F[b][h].in[j]) /\ i < j => F[b][h].in[i][2] < F[b][h].in[j][2]
    /\ a \in A => FirstIn(l, b, F[b][h].peer[2])
    /\ \A y \in Ports : F[b][y] # None /\ From(F[b][y]) = a /\ HasMessage(F[b][y].in) => y = h
OrderOK(F, A, l, D, g, a, b) ==
  /\ \A i, j \in 1..Len(g) : i < j => g[i] < g[j]
  /\ \A i \in 1..Len(g) : g[i] \in D
  /\ \A h \in Ports : F[b][h] # None /\ From(F[b][h]) = a => ComingOK(F, A, l, D, g, a, b, h)

LEMMA TailIs ==
  ASSUME NEW S, NEW x \in Seq(S), x # <<>>
  PROVE  /\ Tail(x) \in Seq(S) /\ Len(Tail(x)) = Len(x) - 1 /\ Len(x) \in Nat /\ 1 \in 1..Len(x) /\ Head(x) = x[1]
         /\ \A i \in 1..Len(Tail(x)) : i + 1 \in 1..Len(x) /\ Tail(x)[i] = x[i + 1]
OBVIOUS

(* The numbers b got stay, and its sockets have what they had or less.     *)
LEMMA FewerOK ==
  ASSUME NEW F \in Fds, NEW G \in Fds, NEW A, NEW B \in SUBSET A, NEW l, NEW u, NEW D \in SUBSET Nat, NEW E, D \subseteq E,
         NEW g, NEW a, NEW b \in Nodes, OrderOK(F, A, l, D, g, a, b),
         \A h \in Ports : G[b][h] # None /\ From(G[b][h]) = a /\ HasMessage(G[b][h].in) =>
           /\ F[b][h] # None /\ From(F[b][h]) = a
           /\ G[b][h].in = F[b][h].in \/ (F[b][h].in # <<>> /\ G[b][h].in = Tail(F[b][h].in))
           /\ a \in B => /\ G[b][h].peer = F[b][h].peer
                         /\ FirstIn(l, b, F[b][h].peer[2]) => FirstIn(u, b, F[b][h].peer[2])
  PROVE  OrderOK(G, B, u, E, g, a, b)
<1>1. ASSUME NEW h \in Ports, G[b][h] # None, From(G[b][h]) = a, HasMessage(G[b][h].in)
      PROVE  /\ F[b][h] # None /\ From(F[b][h]) = a /\ HasMessage(F[b][h].in)
             /\ \E n \in {0, 1} : /\ \A i \in 1..Len(G[b][h].in) : i + n \in 1..Len(F[b][h].in) /\ i \in Nat
                                  /\ \A i \in 1..Len(G[b][h].in) : G[b][h].in[i] = F[b][h].in[i + n]
             /\ a \in B => G[b][h].peer = F[b][h].peer /\ (FirstIn(l, b, F[b][h].peer[2]) => FirstIn(u, b, F[b][h].peer[2]))
  <2>1. PICK x, y : x = F[b][h].in /\ y = G[b][h].in
    OBVIOUS
  <2>2. /\ F[b][h] # None /\ From(F[b][h]) = a /\ (y = x \/ (x # <<>> /\ y = Tail(x)))
        /\ a \in B => G[b][h].peer = F[b][h].peer /\ (FirstIn(l, b, F[b][h].peer[2]) => FirstIn(u, b, F[b][h].peer[2]))
    BY <1>1, <2>1
  <2>3. x \in Seq(Net!Data)
    <3>1. F[b][h] \in Net!Sockets
      BY <2>2 DEF Fds
    <3> QED BY <2>1, <3>1, SocketIs
  <2>4. Len(x) \in Nat
    BY <2>3
  <2>5. \E n \in {0, 1} : (\A i \in 1..Len(y) : i + n \in 1..Len(x) /\ i \in Nat) /\ \A i \in 1..Len(y) : y[i] = x[i + n]
    <3>1. CASE y = x
      <4>1. \A i \in 1..Len(y) : i + 0 \in 1..Len(x) /\ i \in Nat /\ y[i] = x[i + 0]
        BY <2>4, <3>1
      <4> QED BY <4>1
    <3>2. CASE x # <<>> /\ y = Tail(x)
      <4>1. /\ Len(y) = Len(x) - 1
            /\ \A i \in 1..Len(y) : i + 1 \in 1..Len(x) /\ y[i] = x[i + 1]
        BY <2>3, <3>2, TailIs
      <4>2. \A i \in 1..Len(y) : i \in Nat
        BY <2>4, <4>1
      <4> QED BY <4>1, <4>2
    <3> QED BY <2>2, <3>1, <3>2
  <2>6. HasMessage(x)
    <3>1. PICK i \in 1..Len(y) : IsMessage(y[i])
      BY <1>1, <2>1 DEF HasMessage
    <3>2. PICK n \in {0, 1} : i + n \in 1..Len(x) /\ y[i] = x[i + n]
      BY <2>5
    <3> QED BY <3>1, <3>2 DEF HasMessage
  <2> QED BY <2>1, <2>2, <2>5, <2>6
<1>2. ASSUME NEW h \in Ports, G[b][h] # None, From(G[b][h]) = a, NEW i \in 1..Len(G[b][h].in), IsMessage(G[b][h].in[i])
      PROVE  /\ G[b][h].in[i][2] \in E
             /\ \A j \in 1..Len(g) : g[j] < G[b][h].in[i][2]
             /\ \A j \in 1..Len(G[b][h].in) : IsMessage(G[b][h].in[j]) /\ i < j => G[b][h].in[i][2] < G[b][h].in[j][2]
             /\ a \in B => FirstIn(u, b, G[b][h].peer[2])
             /\ \A y \in Ports : G[b][y] # None /\ From(G[b][y]) = a /\ HasMessage(G[b][y].in) => y = h
  <2>1. PICK x, y : x = F[b][h].in /\ y = G[b][h].in
    OBVIOUS
  <2>2. HasMessage(G[b][h].in)
    BY <1>2 DEF HasMessage
  <2>3. /\ F[b][h] # None /\ From(F[b][h]) = a /\ HasMessage(F[b][h].in)
        /\ a \in B => G[b][h].peer = F[b][h].peer /\ (FirstIn(l, b, F[b][h].peer[2]) => FirstIn(u, b, F[b][h].peer[2]))
    BY <1>1, <1>2, <2>2
  <2>4. PICK n \in {0, 1} : /\ \A j \in 1..Len(y) : j + n \in 1..Len(x) /\ j \in Nat
                            /\ \A j \in 1..Len(y) : y[j] = x[j + n]
    BY <1>1, <1>2, <2>1, <2>2
  <2>5. i + n \in 1..Len(x) /\ IsMessage(x[i + n]) /\ y[i] = x[i + n] /\ i \in Nat
    BY <1>2, <2>1, <2>4
  <2>6. PICK o : o = i + n
    OBVIOUS
  <2>7. /\ x[o][2] \in D
        /\ \A j \in 1..Len(g) : g[j] < x[o][2]
        /\ \A j \in 1..Len(x) : IsMessage(x[j]) /\ o < j => x[o][2] < x[j][2]
        /\ a \in A => FirstIn(l, b, F[b][h].peer[2])
        /\ \A z \in Ports : F[b][z] # None /\ From(F[b][z]) = a /\ HasMessage(F[b][z].in) => z = h
    <3>1. ComingOK(F, A, l, D, g, a, b, h)
      BY <2>3 DEF OrderOK
    <3>2. o \in 1..Len(F[b][h].in) /\ IsMessage(F[b][h].in[o])
      BY <2>1, <2>5, <2>6
    <3> QED BY <2>1, <3>1, <3>2 DEF ComingOK
  <2>8. ASSUME NEW j \in 1..Len(y), IsMessage(y[j]), i < j
        PROVE  y[i][2] < y[j][2]
    <3>1. PICK z : z = j + n
      OBVIOUS
    <3>2. z \in 1..Len(x) /\ y[j] = x[z] /\ j \in Nat
      BY <2>4, <3>1
    <3>3. o < z
      BY ONLY <2>5, <2>6, <2>8, <3>1, <3>2, n \in {0, 1}
    <3> QED BY <2>5, <2>6, <2>7, <2>8, <3>2, <3>3
  <2>9. \A z \in Ports : G[b][z] # None /\ From(G[b][z]) = a /\ HasMessage(G[b][z].in) => z = h
    BY <1>1, <2>7
  <2>10. y[i][2] \in E /\ \A j \in 1..Len(g) : g[j] < y[i][2]
    BY <2>5, <2>6, <2>7
  <2>11. a \in B => FirstIn(u, b, G[b][h].peer[2])
    BY <2>3, <2>7
  <2> QED BY <2>1, <2>8, <2>9, <2>10, <2>11
<1>3. \A h \in Ports : G[b][h] # None /\ From(G[b][h]) = a => ComingOK(G, B, u, E, g, a, b, h)
  BY <1>2 DEF ComingOK
<1>4. (\A i, j \in 1..Len(g) : i < j => g[i] < g[j]) /\ \A i \in 1..Len(g) : g[i] \in E
  BY DEF OrderOK
<1> QED BY <1>3, <1>4 DEF OrderOK

(* A message is written to the one socket that may have others.            *)
LEMMA MoreOK ==
  ASSUME NEW F \in Fds, NEW G \in Fds, NEW A, NEW l, NEW u, NEW D \in SUBSET Nat, NEW E, D \subseteq E,
         NEW g, NEW a, NEW b \in Nodes, OrderOK(F, A, l, D, g, a, b),
         NEW h \in Ports, F[b][h] # None, From(F[b][h]) = a,
         \A y \in Ports : F[b][y] # None /\ From(F[b][y]) = a /\ HasMessage(F[b][y].in) => y = h,
         NEW k \in Nat, k \in E, \A d \in D : d < k, a \in A => FirstIn(u, b, F[b][h].peer[2]),
         G[b][h] # None, From(G[b][h]) = a, G[b][h].peer = F[b][h].peer,
         G[b][h].in = Append(F[b][h].in, Net!Message(k)),
         \A y \in Ports : y # h => G[b][y] = F[b][y]
  PROVE  OrderOK(G, A, u, E, g, a, b)
<1>1. PICK x, t : x = F[b][h].in /\ t = G[b][h].in
  OBVIOUS
<1>2. x \in Seq(Net!Data)
  <2>1. F[b][h] \in Net!Sockets
    BY DEF Fds
  <2> QED BY <1>1, <2>1, SocketIs
<1>3. PICK e : e = Net!Message(k)
  OBVIOUS
<1>4. e[2] = k /\ IsMessage(e)
  BY <1>3 DEF Net!Message, IsMessage
<1>5. /\ Len(x) \in Nat /\ Len(t) = Len(x) + 1 /\ t[Len(x) + 1] = e
      /\ \A i \in 1..Len(x) : t[i] = x[i]
      /\ \A i \in 1..Len(t) : i \in Nat /\ (i \in 1..Len(x) \/ i = Len(x) + 1)
  <2>1. t = Append(x, e)
    BY <1>1, <1>3
  <2>2. Len(x) \in Nat
    BY <1>2
  <2> QED BY <1>2, <2>1, <2>2
<1>6. ASSUME NEW i \in 1..Len(x), IsMessage(x[i])
      PROVE  /\ x[i][2] \in D
             /\ \A j \in 1..Len(g) : g[j] < x[i][2]
             /\ \A j \in 1..Len(x) : IsMessage(x[j]) /\ i < j => x[i][2] < x[j][2]
  <2>1. ComingOK(F, A, l, D, g, a, b, h)
    BY DEF OrderOK
  <2> QED BY <1>1, <1>6, <2>1 DEF ComingOK
<1>7. \A j \in 1..Len(g) : g[j] < k
  BY DEF OrderOK
<1>8. \A y \in Ports : G[b][y] # None /\ From(G[b][y]) = a /\ HasMessage(G[b][y].in) => y = h
  OBVIOUS
<1>9. ASSUME NEW i \in 1..Len(t), IsMessage(t[i])
      PROVE  /\ t[i][2] \in E
             /\ \A j \in 1..Len(g) : g[j] < t[i][2]
             /\ \A j \in 1..Len(t) : IsMessage(t[j]) /\ i < j => t[i][2] < t[j][2]
  <2>1. CASE i \in 1..Len(x)
    <3>1. t[i] = x[i] /\ t[i][2] \in D
      BY <1>5, <1>6, <1>9, <2>1
    <3>2. ASSUME NEW j \in 1..Len(t), IsMessage(t[j]), i < j
          PROVE  t[i][2] < t[j][2]
      <4>1. CASE j \in 1..Len(x)
        <5>1. t[j] = x[j]
          BY <1>5, <4>1
        <5> QED BY <1>6, <1>9, <2>1, <3>1, <3>2, <4>1, <5>1
      <4>2. CASE j = Len(x) + 1
        <5>1. t[j][2] = k
          BY <1>4, <1>5, <4>2
        <5> QED BY <3>1, <5>1
      <4> QED BY <1>5, <4>1, <4>2
    <3>3. \A j \in 1..Len(g) : g[j] < t[i][2]
      BY <1>6, <1>9, <2>1, <3>1
    <3> QED BY <3>1, <3>2, <3>3
  <2>2. CASE i = Len(x) + 1
    <3>1. t[i][2] = k
      BY <1>4, <1>5, <2>2
    <3>2. \A j \in 1..Len(t) : ~(i < j)
      BY SMTT(30), <1>5, <2>2
    <3> QED BY <1>7, <3>1, <3>2
  <2> QED BY <1>5, <2>1, <2>2
<1>10. ComingOK(G, A, u, E, g, a, b, h)
  BY <1>1, <1>8, <1>9 DEF ComingOK
<1>11. ASSUME NEW y \in Ports, y # h, G[b][y] # None, From(G[b][y]) = a
       PROVE  ComingOK(G, A, u, E, g, a, b, y)
  BY <1>8, <1>11 DEF ComingOK, HasMessage
<1>12. (\A i, j \in 1..Len(g) : i < j => g[i] < g[j]) /\ \A i \in 1..Len(g) : g[i] \in E
  BY DEF OrderOK
<1> QED BY <1>10, <1>11, <1>12 DEF OrderOK

(* The first message is taken.                                             *)
LEMMA TakenOK ==
  ASSUME NEW F \in Fds, NEW G \in Fds, NEW A, NEW l, NEW D \in SUBSET Nat,
         NEW g \in Seq(Nat), NEW a, NEW b \in Nodes, OrderOK(F, A, l, D, g, a, b),
         NEW h \in Ports, F[b][h] # None, From(F[b][h]) = a, F[b][h].in # <<>>, IsMessage(F[b][h].in[1]),
         G[b][h] # None, From(G[b][h]) = a, G[b][h].peer = F[b][h].peer, G[b][h].in = Tail(F[b][h].in),
         \A y \in Ports : y # h => G[b][y] = F[b][y]
  PROVE  OrderOK(G, A, l, D, Append(g, Head(F[b][h].in)[2]), a, b)
<1>1. PICK x, k, s : x = F[b][h].in /\ k = Head(x)[2] /\ s = Append(g, k)
  OBVIOUS
<1>2. x \in Seq(Net!Data)
  <2>1. F[b][h] \in Net!Sockets
    BY DEF Fds
  <2> QED BY <1>1, <2>1, SocketIs
<1>3. /\ Len(Tail(x)) = Len(x) - 1 /\ Len(x) \in Nat /\ 1 \in 1..Len(x) /\ Head(x) = x[1]
      /\ \A i \in 1..Len(Tail(x)) : i + 1 \in 1..Len(x) /\ Tail(x)[i] = x[i + 1]
  BY <1>1, <1>2, TailIs
<1>4. ComingOK(F, A, l, D, g, a, b, h)
  BY DEF OrderOK
<1>5. /\ k \in D /\ k \in Nat
      /\ \A j \in 1..Len(g) : g[j] < k
      /\ \A j \in 1..Len(x) : IsMessage(x[j]) /\ 1 < j => k < x[j][2]
      /\ \A y \in Ports : F[b][y] # None /\ From(F[b][y]) = a /\ HasMessage(F[b][y].in) => y = h
  <2>1. 1 \in 1..Len(F[b][h].in) /\ k = F[b][h].in[1][2]
    BY <1>1, <1>3
  <2> QED BY <1>1, <1>4, <2>1 DEF ComingOK
<1>6. /\ Len(g) \in Nat /\ Len(s) = Len(g) + 1 /\ s[Len(g) + 1] = k
      /\ \A i \in 1..Len(g) : s[i] = g[i]
      /\ \A i \in 1..Len(s) : i \in Nat /\ (i \in 1..Len(g) \/ i = Len(g) + 1)
  <2>1. k \in Nat /\ s = Append(g, k)
    BY <1>1, <1>5
  <2>2. Len(g) \in Nat
    OBVIOUS
  <2> QED BY <2>1, <2>2
<1>7. OrderOK(G, A, l, D, g, a, b)
  <2>1. A \in SUBSET A /\ D \subseteq D
    OBVIOUS
  <2>2. \A y \in Ports : G[b][y] # None /\ From(G[b][y]) = a /\ HasMessage(G[b][y].in) =>
           /\ F[b][y] # None /\ From(F[b][y]) = a
           /\ G[b][y].in = F[b][y].in \/ (F[b][y].in # <<>> /\ G[b][y].in = Tail(F[b][y].in))
           /\ a \in A => /\ G[b][y].peer = F[b][y].peer
                         /\ FirstIn(l, b, F[b][y].peer[2]) => FirstIn(l, b, F[b][y].peer[2])
    OBVIOUS
  <2> QED BY ONLY <2>1, <2>2, F \in Fds, G \in Fds, D \in SUBSET Nat, b \in Nodes, OrderOK(F, A, l, D, g, a, b), FewerOK
<1>8. \A i, j \in 1..Len(s) : i < j => s[i] < s[j]
  <2> SUFFICES ASSUME NEW i \in 1..Len(s), NEW j \in 1..Len(s), i < j
               PROVE  s[i] < s[j]
    OBVIOUS
  <2>1. i \in Nat /\ j \in Nat /\ i \in 1..Len(g)
    BY <1>6
  <2>2. CASE j \in 1..Len(g)
    <3>1. g[i] < g[j]
      BY <2>1, <2>2 DEF OrderOK
    <3> QED BY <1>6, <2>1, <2>2, <3>1
  <2>3. CASE j = Len(g) + 1
    BY <1>5, <1>6, <2>1, <2>3
  <2> QED BY <1>6, <2>2, <2>3
<1>9. \A i \in 1..Len(s) : s[i] \in D
  BY <1>5, <1>6 DEF OrderOK
<1>10. ASSUME NEW y \in Ports, G[b][y] # None, From(G[b][y]) = a
       PROVE  ComingOK(G, A, l, D, s, a, b, y)
  <2>1. ComingOK(G, A, l, D, g, a, b, y)
    BY <1>7, <1>10 DEF OrderOK
  <2>2. ASSUME NEW i \in 1..Len(G[b][y].in), IsMessage(G[b][y].in[i])
        PROVE  \A j \in 1..Len(s) : s[j] < G[b][y].in[i][2]
    <3>1. \A j \in 1..Len(g) : g[j] < G[b][y].in[i][2]
      BY <2>1, <2>2 DEF ComingOK
    <3>2. y = h
      <4>1. y # h => F[b][y] # None /\ From(F[b][y]) = a /\ HasMessage(F[b][y].in)
        BY <1>10, <2>2 DEF HasMessage
      <4> QED BY <1>5, <4>1
    <3>3. i \in 1..Len(Tail(x)) /\ G[b][y].in[i] = Tail(x)[i]
      BY <1>1, <2>2, <3>2
    <3>4. i + 1 \in 1..Len(x) /\ G[b][y].in[i] = x[i + 1] /\ 1 < i + 1
      BY <1>3, <3>3
    <3>5. k < G[b][y].in[i][2]
      BY <1>5, <2>2, <3>4
    <3> QED BY <1>6, <3>1, <3>5
  <2> QED BY <2>1, <2>2 DEF ComingOK
<1> QED BY <1>1, <1>8, <1>9, <1>10 DEF OrderOK

-----------------------------------------------------------------------------
(* What waits to be accepted by a node: each once, with its descriptor, as *)
(* long as the node that connects runs.                                    *)
Pending(F, n, p) == F[p[1]][p[2]] # None /\ F[p[1]][p[2]].peer = <<n, 0>>
BacklogOK(F, A, b) ==
  \A n \in Nodes : \A i \in 1..Len(b[n]) :
    /\ b[n][i][1] # n
    /\ b[n][i][1] \in A => Pending(F, n, b[n][i]) /\ \A j \in 1..Len(b[n]) : b[n][j] = b[n][i] => j = i
Backlogs == [Nodes -> Seq(Nodes \X Ports)]

SamePending(F, G, B) ==
  \A n \in Nodes, x \in B, y \in Ports :
    F[x][y] # None /\ F[x][y].peer = <<n, 0>> => G[x][y] # None /\ G[x][y].peer = F[x][y].peer

LEMMA SameBacklog ==
  ASSUME NEW F, NEW G, NEW A, NEW B \in SUBSET A, NEW b \in Backlogs, BacklogOK(F, A, b),
         SamePending(F, G, B)
  PROVE  BacklogOK(G, B, b)
<1> SUFFICES ASSUME NEW n \in Nodes, NEW i \in 1..Len(b[n])
             PROVE  /\ b[n][i][1] # n
                    /\ b[n][i][1] \in B => Pending(G, n, b[n][i]) /\ \A j \in 1..Len(b[n]) : b[n][j] = b[n][i] => j = i
  BY DEF BacklogOK
<1>1. PICK p : p = b[n][i]
  OBVIOUS
<1>2. p[1] \in Nodes /\ p[2] \in Ports
  <2>1. b[n] \in Seq(Nodes \X Ports)
    BY DEF Backlogs
  <2>2. p \in Nodes \X Ports
    BY <1>1, <2>1
  <2> QED BY <2>2
<1>3. /\ b[n][i][1] # n
      /\ p[1] \in A => Pending(F, n, p) /\ \A j \in 1..Len(b[n]) : b[n][j] = b[n][i] => j = i
  BY <1>1 DEF BacklogOK
<1>4. p[1] \in B => Pending(G, n, p)
  BY <1>2, <1>3 DEF Pending, SamePending
<1> QED BY <1>1, <1>3, <1>4

LEMMA AddedBacklog ==
  ASSUME Net!ConstantsOK, NEW F, NEW A, NEW b \in Backlogs, BacklogOK(F, A, b),
         NEW n \in Nodes, n \in A, NEW s \in Ports, F[n][s] = None, NEW m \in Nodes \ {n},
         NEW G, Pending(G, m, <<n, s>>), \A x \in Nodes, y \in Ports : x # n \/ y # s => G[x][y] = F[x][y]
  PROVE  LET c == [b EXCEPT ![m] = Append(@, <<n, s>>)]
         IN c \in Backlogs /\ BacklogOK(G, A, c)
<1>1. PICK p, q, c : p = <<n, s>> /\ q = Append(b[m], p) /\ c = [b EXCEPT ![m] = q]
  OBVIOUS
<1>2. p \in Nodes \X Ports /\ p[1] = n /\ p[2] = s
  BY <1>1
<1>3. b[m] \in Seq(Nodes \X Ports) /\ \A x \in Nodes : b[x] \in Seq(Nodes \X Ports)
  BY DEF Backlogs
<1>4. /\ q \in Seq(Nodes \X Ports) /\ Len(q) = Len(b[m]) + 1 /\ Len(b[m]) \in Nat /\ q[Len(b[m]) + 1] = p
      /\ \A i \in 1..Len(b[m]) : q[i] = b[m][i]
      /\ \A i \in 1..Len(q) : i \in 1..Len(b[m]) \/ i = Len(b[m]) + 1
  BY ONLY <1>1, <1>2, <1>3
<1>5. c \in Backlogs /\ c[m] = q /\ \A x \in Nodes : x # m => c[x] = b[x]
  BY <1>1, <1>4 DEF Backlogs
<1>6. ASSUME NEW x \in Nodes, NEW i \in 1..Len(b[x])
      PROVE  /\ b[x][i][1] # x
             /\ b[x][i][1] \in A => /\ Pending(G, x, b[x][i]) /\ b[x][i] # p
                                    /\ \A j \in 1..Len(b[x]) : b[x][j] = b[x][i] => j = i
  <2>1. PICK o : o = b[x][i]
    OBVIOUS
  <2>2. o[1] \in Nodes /\ o[2] \in Ports
    BY <1>3, <2>1
  <2>3. o[1] # x /\ (o[1] \in A => Pending(F, x, o) /\ \A j \in 1..Len(b[x]) : b[x][j] = b[x][i] => j = i)
    BY <2>1 DEF BacklogOK
  <2>4. ASSUME o[1] \in A
        PROVE  Pending(G, x, o) /\ o # p
    <3>1. ~(o[1] = n /\ o[2] = s)
      BY <2>3, <2>4 DEF Pending
    <3>2. G[o[1]][o[2]] = F[o[1]][o[2]]
      BY <2>2, <3>1
    <3> QED BY <1>2, <2>3, <2>4, <3>1, <3>2 DEF Pending
  <2> QED BY <2>1, <2>3, <2>4
<1>7. ASSUME NEW i \in 1..Len(q)
      PROVE  /\ q[i][1] # m
             /\ q[i][1] \in A => Pending(G, m, q[i]) /\ \A j \in 1..Len(q) : q[j] = q[i] => j = i
  <2>1. CASE i \in 1..Len(b[m])
    <3>1. q[i] = b[m][i]
      BY <1>4, <2>1
    <3>2. ASSUME q[i][1] \in A, NEW j \in 1..Len(q), q[j] = q[i]
          PROVE  j = i
      <4>1. b[m][i] # p /\ \A z \in 1..Len(b[m]) : b[m][z] = b[m][i] => z = i
        BY <1>6, <2>1, <3>1, <3>2
      <4>2. CASE j \in 1..Len(b[m])
        BY <1>4, <3>1, <3>2, <4>1, <4>2
      <4>3. CASE j = Len(b[m]) + 1
        BY <1>4, <3>1, <3>2, <4>1, <4>3
      <4> QED BY <1>4, <4>2, <4>3
    <3> QED BY <1>6, <2>1, <3>1, <3>2
  <2>2. CASE i = Len(b[m]) + 1
    <3>1. q[i] = p
      BY <1>4, <2>2
    <3>2. ASSUME NEW j \in 1..Len(q), q[j] = q[i]
          PROVE  j = i
      <4>1. CASE j \in 1..Len(b[m])
        <5>1. b[m][j] = p
          BY <1>4, <3>1, <3>2, <4>1
        <5> QED BY <1>2, <1>6, <4>1, <5>1
      <4>2. CASE j = Len(b[m]) + 1
        BY <2>2, <4>2
      <4> QED BY <1>4, <4>1, <4>2
    <3> QED BY <1>1, <1>2, <3>1, <3>2
  <2> QED BY <1>4, <2>1, <2>2
<1>8. BacklogOK(G, A, c)
  BY <1>5, <1>6, <1>7 DEF BacklogOK
<1> QED BY <1>1, <1>5, <1>8

LEMMA TakenBacklog ==
  ASSUME Net!ConstantsOK, NEW F, NEW A, NEW b \in Backlogs, BacklogOK(F, A, b),
         NEW n \in Nodes, b[n] # <<>>, NEW f \in Ports, F[n][f] = None,
         NEW G, \A x \in Nodes, y \in Ports : /\ ~(x = n /\ y = f)
                                              /\ ~(Head(b[n])[1] \in A /\ x = Head(b[n])[1] /\ y = Head(b[n])[2])
                                              => G[x][y] = F[x][y]
  PROVE  LET c == [b EXCEPT ![n] = Tail(@)]
         IN c \in Backlogs /\ BacklogOK(G, A, c)
<1>1. PICK p, q, c : p = Head(b[n]) /\ q = Tail(b[n]) /\ c = [b EXCEPT ![n] = q]
  OBVIOUS
<1>2. b[n] \in Seq(Nodes \X Ports) /\ \A x \in Nodes : b[x] \in Seq(Nodes \X Ports)
  BY DEF Backlogs
<1>3. /\ q \in Seq(Nodes \X Ports) /\ Len(q) = Len(b[n]) - 1 /\ Len(b[n]) \in Nat /\ 1 \in 1..Len(b[n]) /\ p = b[n][1]
      /\ \A i \in 1..Len(q) : i + 1 \in 1..Len(b[n]) /\ q[i] = b[n][i + 1] /\ i \in Nat
  <2>1. /\ Tail(b[n]) \in Seq(Nodes \X Ports) /\ Len(Tail(b[n])) = Len(b[n]) - 1 /\ Len(b[n]) \in Nat
        /\ 1 \in 1..Len(b[n]) /\ Head(b[n]) = b[n][1]
        /\ \A i \in 1..Len(Tail(b[n])) : i + 1 \in 1..Len(b[n]) /\ Tail(b[n])[i] = b[n][i + 1]
    BY <1>2, TailIs
  <2>2. \A i \in 1..Len(q) : i \in Nat
    BY <1>1, <2>1
  <2> QED BY <1>1, <2>1, <2>2
<1>4. p \in Nodes \X Ports
  BY <1>2, <1>3
<1>5. c \in Backlogs /\ c[n] = q /\ \A x \in Nodes : x # n => c[x] = b[x]
  BY <1>1, <1>3 DEF Backlogs
<1>6. ASSUME NEW x \in Nodes, NEW i \in 1..Len(b[x]), x # n \/ i # 1
      PROVE  /\ b[x][i][1] # x
             /\ b[x][i][1] \in A => /\ Pending(G, x, b[x][i])
                                    /\ \A j \in 1..Len(b[x]) : b[x][j] = b[x][i] => j = i
  <2>1. PICK o : o = b[x][i]
    OBVIOUS
  <2>2. o \in Nodes \X Ports /\ o[1] \in Nodes /\ o[2] \in Ports
    BY <1>2, <2>1
  <2>3. o[1] # x /\ (o[1] \in A => Pending(F, x, o) /\ \A j \in 1..Len(b[x]) : b[x][j] = b[x][i] => j = i)
    BY <2>1 DEF BacklogOK
  <2>4. ASSUME o[1] \in A
        PROVE  Pending(G, x, o)
    <3>1. ~(o[1] = n /\ o[2] = f)
      BY <2>3, <2>4 DEF Pending
    <3>2. ~(p[1] \in A /\ o[1] = p[1] /\ o[2] = p[2])
      <4> SUFFICES ASSUME p[1] \in A, o[1] = p[1], o[2] = p[2]
                   PROVE  FALSE
        OBVIOUS
      <4>1. o = p
        BY <1>4, <2>2
      <4>2. Pending(F, n, p)
        BY <1>3 DEF BacklogOK
      <4>3. n = x
        BY <2>3, <4>1, <4>2 DEF Pending
      <4>4. i = 1
        BY <1>3, <2>1, <2>3, <2>4, <4>1, <4>3
      <4> QED BY <1>6, <4>3, <4>4
    <3>3. G[o[1]][o[2]] = F[o[1]][o[2]]
      BY <1>1, <2>2, <3>1, <3>2
    <3> QED BY <2>3, <2>4, <3>3 DEF Pending
  <2> QED BY <2>1, <2>3, <2>4
<1>7. ASSUME NEW i \in 1..Len(q)
      PROVE  /\ q[i][1] # n
             /\ q[i][1] \in A => Pending(G, n, q[i]) /\ \A j \in 1..Len(q) : q[j] = q[i] => j = i
  <2>1. i + 1 \in 1..Len(b[n]) /\ q[i] = b[n][i + 1] /\ i + 1 # 1
    BY <1>3
  <2>2. /\ q[i][1] # n
        /\ q[i][1] \in A => /\ Pending(G, n, q[i]) /\ \A j \in 1..Len(b[n]) : b[n][j] = q[i] => j = i + 1
    BY <1>6, <2>1
  <2>3. ASSUME q[i][1] \in A, NEW j \in 1..Len(q), q[j] = q[i]
        PROVE  j = i
    <3>1. j + 1 \in 1..Len(b[n]) /\ q[j] = b[n][j + 1] /\ j \in Nat /\ i \in Nat
      BY <1>3
    <3>2. j + 1 = i + 1
      BY <2>2, <2>3, <3>1
    <3> QED BY <3>1, <3>2
  <2> QED BY <2>2, <2>3
<1>8. BacklogOK(G, A, c)
  BY <1>5, <1>6, <1>7 DEF BacklogOK
<1> QED BY <1>1, <1>5, <1>8

-----------------------------------------------------------------------------
(* The invariant.                                                          *)
Below(S, A, w, a, b) == {k \in Nat : k <= S /\ (a \in A /\ Conn(w) /\ w.id = b => k < S)}
NetTyped ==
  /\ fd \in Fds /\ backlog \in Backlogs /\ others \in [Nodes -> Seq(Entry)]
  /\ cache \in [Nodes -> Entry \cup {None}] /\ waits \in [Nodes -> Net!Calls \cup {None}] /\ alive \in SUBSET Nodes
  /\ sent \in [Nodes -> [Nodes -> Nat]] /\ got \in [Nodes -> [Nodes -> Seq(Nat)]]
Linked ==
  /\ SocketsOK(fd, alive) /\ BacklogOK(fd, alive, backlog)
  /\ \A n \in alive : TableOK(fd[n], others[n], waits[n], alive, forgotten, n) /\ CacheOK(cache[n], others[n], waits[n])
FlowOK(a, b) == OrderOK(fd, alive, others[a], Below(sent[a][b], alive, waits[a], a, b), got[b][a], a, b)
Ordered == \A a, b \in Nodes : <<a, b>> \in Flows \ forgotten => FlowOK(a, b)
NetInv == NetTyped /\ Linked /\ Ordered

LEMMA TypedIs ==
  ASSUME Net!ConstantsOK, NetTyped
  PROVE  /\ \A n \in Nodes : /\ others[n] \in Seq(Entry) /\ cache[n] \in Entry \cup {None}
                             /\ backlog[n] \in Seq(Nodes \X Ports)
                             /\ \A m \in Nodes : sent[n][m] \in Nat /\ got[n][m] \in Seq(Nat)
                             /\ fd[n] \in [Ports -> Net!Sockets \cup {None}]
                             /\ \A f \in Ports : fd[n][f] \in Net!Sockets \cup {None} /\ (fd[n][f] # None => fd[n][f] \in Net!Sockets)
         /\ \A p \in Flows : p[1] \in Nodes /\ p[2] \in Nodes /\ p[1] # p[2]
<1>1. \A p \in Flows : p[1] \in Nodes /\ p[2] \in Nodes /\ p[1] # p[2]
  BY DEF Net!ConstantsOK
<1>2. ASSUME NEW n \in Nodes
      PROVE  /\ others[n] \in Seq(Entry) /\ cache[n] \in Entry \cup {None}
             /\ backlog[n] \in Seq(Nodes \X Ports)
             /\ fd[n] \in [Ports -> Net!Sockets \cup {None}]
  BY DEF NetTyped, Fds, Backlogs
<1>3. ASSUME NEW n \in Nodes, NEW m \in Nodes
      PROVE  sent[n][m] \in Nat /\ got[n][m] \in Seq(Nat)
  BY DEF NetTyped
<1> QED BY <1>1, <1>2, <1>3

(* A step that changes what one node waits for and has in its table.       *)
LEMMA NodeChanges ==
  ASSUME Net!ConstantsOK, NetTyped, Linked, NetTyped', NEW n \in Nodes,
         SocketsOK(fd', alive), BacklogOK(fd', alive, backlog'), alive' = alive, forgotten \subseteq forgotten',
         \A m \in Nodes : m # n => /\ SameShape(fd[m], fd'[m]) /\ others'[m] = others[m]
                                   /\ waits'[m] = waits[m] /\ cache'[m] = cache[m],
         n \in alive => /\ TableOK(fd'[n], others'[n], waits'[n], alive, forgotten', n)
                        /\ CacheOK(cache'[n], others'[n], waits'[n])
  PROVE  Linked'
<1>1. ASSUME NEW m \in alive, m # n
      PROVE  /\ TableOK(fd'[m], others'[m], waits'[m], alive', forgotten', m)
             /\ CacheOK(cache'[m], others'[m], waits'[m])
  <2>1. m \in Nodes /\ others[m] \in Seq(Entry)
    BY TypedIs DEF NetTyped
  <2>2. TableOK(fd[m], others[m], waits[m], alive, forgotten, m) /\ CacheOK(cache[m], others[m], waits[m])
    BY DEF Linked
  <2>3. SameShape(fd[m], fd'[m]) /\ others'[m] = others[m] /\ waits'[m] = waits[m] /\ cache'[m] = cache[m]
    BY <1>1, <2>1
  <2>4. alive \in SUBSET alive
    OBVIOUS
  <2>5. PICK r, q, l, w, K, M : /\ r = fd[m] /\ q = fd'[m] /\ l = others[m] /\ w = waits[m]
                                /\ K = forgotten /\ M = forgotten'
    OBVIOUS
  <2>6. /\ SameShape(r, q) /\ l \in Seq(Entry) /\ K \subseteq M /\ TableOK(r, l, w, alive, K, m)
    BY <2>1, <2>2, <2>3, <2>5
  <2>7. TableOK(q, l, w, alive, M, m)
    BY ONLY Net!ConstantsOK, <2>4, <2>6, SameTable
  <2> QED BY <2>2, <2>3, <2>5, <2>7
<1>2. SocketsOK(fd', alive') /\ BacklogOK(fd', alive', backlog')
  OBVIOUS
<1>3. \A m \in alive' : /\ TableOK(fd'[m], others'[m], waits'[m], alive', forgotten', m)
                        /\ CacheOK(cache'[m], others'[m], waits'[m])
  BY <1>1
<1> QED BY <1>2, <1>3 DEF Linked

LEMMA FlowKeeps ==
  ASSUME NetTyped, NetTyped', NEW a \in Nodes, NEW b \in Nodes, FlowOK(a, b), alive' \subseteq alive,
         got'[b][a] = got[b][a],
         Below(sent[a][b], alive, waits[a], a, b) \subseteq Below(sent'[a][b], alive', waits'[a], a, b),
         \A h \in Ports : fd'[b][h] # None /\ From(fd'[b][h]) = a /\ HasMessage(fd'[b][h].in) =>
           /\ fd[b][h] # None /\ From(fd[b][h]) = a
           /\ fd'[b][h].in = fd[b][h].in \/ (fd[b][h].in # <<>> /\ fd'[b][h].in = Tail(fd[b][h].in))
           /\ a \in alive' => /\ fd'[b][h].peer = fd[b][h].peer
                              /\ FirstIn(others[a], b, fd[b][h].peer[2]) => FirstIn(others'[a], b, fd[b][h].peer[2])
  PROVE  FlowOK(a, b)'
<1>1. PICK F, G, A, B, l, u, D, E, g :
        /\ F = fd /\ G = fd' /\ A = alive /\ B = alive' /\ l = others[a] /\ u = others'[a]
        /\ D = Below(sent[a][b], alive, waits[a], a, b) /\ E = Below(sent'[a][b], alive', waits'[a], a, b)
        /\ g = got[b][a]
  OBVIOUS
<1>2. F \in Fds /\ G \in Fds /\ B \in SUBSET A /\ D \subseteq E
  BY <1>1 DEF NetTyped
<1>3. D \in SUBSET Nat
  BY <1>1 DEF Below
<1>4. OrderOK(F, A, l, D, g, a, b)
  BY <1>1 DEF FlowOK
<1>5. \A h \in Ports : G[b][h] # None /\ From(G[b][h]) = a /\ HasMessage(G[b][h].in) =>
           /\ F[b][h] # None /\ From(F[b][h]) = a
           /\ G[b][h].in = F[b][h].in \/ (F[b][h].in # <<>> /\ G[b][h].in = Tail(F[b][h].in))
           /\ a \in B => /\ G[b][h].peer = F[b][h].peer
                         /\ FirstIn(l, b, F[b][h].peer[2]) => FirstIn(u, b, F[b][h].peer[2])
  BY <1>1
<1>6. OrderOK(G, B, u, E, g, a, b)
  BY ONLY ZenonT(60), <1>2, <1>3, <1>4, <1>5, b \in Nodes, FewerOK
<1> QED BY <1>1, <1>6 DEF FlowOK

LEMMA TailOK ==
  ASSUME NEW k \in Net!Sockets, DataOK(k), k.in # <<>>, NEW q, q.in = Tail(k.in), q.handler = "reader"
  PROVE  DataOK(q)
<1>1. PICK x, y : x = k.in /\ y = q.in
  OBVIOUS
<1>2. x \in Seq(Net!Data) /\ x # <<>> /\ y = Tail(x)
  BY <1>1, SocketIs
<1>3. Len(x) \in Nat /\ Len(y) = Len(x) - 1 /\ \A i \in 1..Len(y) : i + 1 \in 1..Len(x) /\ y[i] = x[i + 1]
  BY <1>2, TailIs
<1>4. \A i \in 1..Len(y) : i + 1 # 1
  BY <1>3
<1>5. \A i \in 1..Len(y) : IsMessage(y[i])
  BY <1>1, <1>3, <1>4 DEF DataOK
<1> QED BY <1>1, <1>5 DEF DataOK

LEMMA AppendOK ==
  ASSUME NEW k \in Net!Sockets, DataOK(k), k.handler = "none" => k.in # <<>>, NEW c \in Nat
  PROVE  LET q == Net!Socket(k.peer, Append(k.in, Net!Message(c)), k.handler, k.ri)
         IN /\ q \in Net!Sockets /\ q.peer = k.peer /\ q.in = Append(k.in, Net!Message(c)) /\ q.handler = k.handler /\ q.ri = k.ri
            /\ q.in # <<>> /\ DataOK(q) /\ From(q) = From(k)
<1>1. PICK e, x, y, q : /\ e = Net!Message(c) /\ x = k.in /\ y = Append(x, e)
                        /\ q = Net!Socket(k.peer, Append(k.in, Net!Message(c)), k.handler, k.ri)
  OBVIOUS
<1>2. e \in Net!Data /\ IsMessage(e)
  BY <1>1 DEF Net!Message, Net!Data, IsMessage
<1>3. x \in Seq(Net!Data)
  BY <1>1, SocketIs
<1>4. /\ y \in Seq(Net!Data) /\ y # <<>> /\ Len(x) \in Nat /\ Len(y) = Len(x) + 1 /\ y[Len(x) + 1] = e
      /\ \A i \in 1..Len(x) : y[i] = x[i]
      /\ \A i \in 1..Len(y) : i \in 1..Len(x) \/ i = Len(x) + 1
  BY ONLY <1>1, <1>2, <1>3
<1>5. q \in Net!Sockets /\ q.peer = k.peer /\ q.in = y /\ q.handler = k.handler /\ q.ri = k.ri
  <2>1. PICK p, h, d : p = k.peer /\ h = k.handler /\ d = k.ri
    OBVIOUS
  <2>2. /\ p \in (Nodes \X (0..MaxFD)) \cup {Net!Closed} /\ h \in {"none", "stage2", "reader"} /\ d \in Nodes \cup {None}
    BY <2>1, SocketIs
  <2>3. q = Net!Socket(p, y, h, d)
    BY <1>1, <2>1
  <2>4. q \in Net!Sockets /\ q.peer = p /\ q.in = y /\ q.handler = h /\ q.ri = d
    BY ONLY <1>4, <2>2, <2>3, SocketHas
  <2> QED BY <2>1, <2>4
<1>6. k.handler # "reader" => 1 \in 1..Len(x)
  BY <1>1, <1>3, SocketIs DEF DataOK
<1>7. DataOK(q)
  <2>1. \A i \in 1..Len(x) : IsMessage(x[i]) <=> (i # 1 \/ k.handler = "reader")
    BY <1>1 DEF DataOK
  <2>2. ASSUME NEW i \in 1..Len(y)
        PROVE  IsMessage(y[i]) <=> (i # 1 \/ k.handler = "reader")
    <3>1. CASE i \in 1..Len(x)
      <4>1. y[i] = x[i]
        BY <1>4, <3>1
      <4> QED BY <2>1, <3>1, <4>1
    <3>2. CASE i = Len(x) + 1
      <4>1. y[i] = e
        BY <1>4, <3>2
      <4>2. k.handler # "reader" => i # 1
        BY <1>4, <1>6, <3>2
      <4> QED BY <1>2, <4>1, <4>2
    <3> QED BY <1>4, <3>1, <3>2
  <2> QED BY <1>4, <1>5, <2>2 DEF DataOK
<1>8. From(q) = From(k)
  <2>1. CASE k.handler = "stage2"
    <3>1. y[1] = x[1]
      BY <1>4, <1>6, <2>1
    <3> QED BY <1>1, <1>5, <2>1, <3>1 DEF From
  <2>2. CASE k.handler # "stage2"
    BY <1>5, <2>2 DEF From
  <2> QED BY <2>1, <2>2
<1> QED BY <1>1, <1>4, <1>5, <1>7, <1>8

LEMMA InIs ==
  ASSUME NEW k \in Net!Sockets, NEW x
  PROVE  [k EXCEPT !.in = x] = Net!Socket(k.peer, x, k.handler, k.ri)
BY DEF Net!Sockets, Net!Socket

LEMMA ChangedIs ==
  ASSUME NEW k \in Net!Sockets, NEW i \in Seq(Net!Data), NEW h \in {"none", "stage2", "reader"},
         NEW d \in Nodes \cup {None}, NEW q, q = Net!Socket(k.peer, i, h, d)
  PROVE  q \in Net!Sockets /\ q.peer = k.peer /\ q.in = i /\ q.handler = h /\ q.ri = d
<1>1. PICK p : p = k.peer
  OBVIOUS
<1>2. p \in (Nodes \X (0..MaxFD)) \cup {Net!Closed} /\ q = Net!Socket(p, i, h, d)
  BY <1>1, SocketIs
<1>3. q \in Net!Sockets /\ q.peer = p /\ q.in = i /\ q.handler = h /\ q.ri = d
  BY ONLY <1>2, i \in Seq(Net!Data), h \in {"none", "stage2", "reader"}, d \in Nodes \cup {None}, SocketHas
<1> QED BY <1>1, <1>3

LEMMA AcceptedPeer ==
  ASSUME Net!ConstantsOK, NEW F, NEW A, NEW n, NEW f, NEW k, PeerOK(F, A, n, f, k), k.handler # "none" \/ k.in # <<>>
  PROVE  k.peer # <<From(k), 0>>
<1>1. From(k) \in Nodes
  BY DEF PeerOK
<1>2. CASE k.peer = Net!Closed
  BY <1>1, <1>2, ClosedIs
<1>3. CASE \E g \in Ports : k.peer = <<From(k), g>>
  BY <1>3, ClosedIs
<1> QED BY <1>2, <1>3 DEF PeerOK

LEMMA BacklogStays ==
  ASSUME NetTyped, BacklogOK(fd, alive, backlog), backlog' = backlog, alive' \subseteq alive,
         \A y \in Nodes, x \in alive', g \in Ports : fd[x][g] # None /\ fd[x][g].peer = <<y, 0>> =>
           fd'[x][g] # None /\ fd'[x][g].peer = fd[x][g].peer
  PROVE  BacklogOK(fd', alive', backlog')
<1>1. PICK F, G, A, B, b : F = fd /\ G = fd' /\ A = alive /\ B = alive' /\ b = backlog
  OBVIOUS
<1>2. /\ B \in SUBSET A /\ b \in Backlogs /\ BacklogOK(F, A, b)
      /\ SamePending(F, G, B)
  BY <1>1 DEF NetTyped, SamePending
<1>3. BacklogOK(G, B, b)
  BY ONLY <1>2, SameBacklog
<1> QED BY <1>1, <1>3

LEMMA SameKeeps ==
  ASSUME NetInv, UNCHANGED <<fd, backlog, others, cache, waits, alive, sent, got, forgotten>>
  PROVE  NetInv'
<1>1. NetTyped'
  BY DEF NetInv, NetTyped
<1>2. Linked'
  BY DEF NetInv, Linked
<1>3. Ordered'
  BY DEF NetInv, Ordered, FlowOK
<1> QED BY <1>1, <1>2, <1>3 DEF NetInv

(* A node starts to wait, or stops waiting, for data to read.              *)
LEMMA WaitKeeps ==
  ASSUME Net!ConstantsOK, NetInv, UNCHANGED <<fd, backlog, others, cache, alive, sent, got, forgotten>>,
         NEW n \in Nodes, NEW w \in Net!Calls \cup {None}, waits' = [waits EXCEPT ![n] = w],
         ~Conn(waits[n]), ~Conn(w), \A f \in Ports : ~Nuking(w, f)
  PROVE  NetInv'
<1>1. NetTyped /\ Linked /\ Ordered
  BY DEF NetInv
<1>2. waits' \in [Nodes -> Net!Calls \cup {None}] /\ waits'[n] = w /\ \A m \in Nodes : m # n => waits'[m] = waits[m]
  BY <1>1 DEF NetTyped
<1>3. NetTyped'
  BY <1>1, <1>2 DEF NetTyped
<1>4. Linked'
  <2>1. \A m \in Nodes : SameShape(fd[m], fd'[m])
    BY DEF SameShape
  <2>2. ASSUME n \in alive
        PROVE  TableOK(fd[n], others[n], w, alive, forgotten, n) /\ CacheOK(cache[n], others[n], w)
    <3>1. TableOK(fd[n], others[n], waits[n], alive, forgotten, n) /\ CacheOK(cache[n], others[n], waits[n])
      BY <1>1, <2>2 DEF Linked
    <3>2. \A f \in Ports : ~Nuking(waits[n], f)
      BY <3>1 DEF TableOK, WaitOK
    <3>3. \A i \in 1..Len(others[n]) : others[n][i].s \in Ports
      BY <1>1, TypedIs, EntryIs
    <3>4. cache[n] # None => cache[n].s \in Ports
      BY <1>1, TypedIs DEF Entry, Net!Entries, Ports
    <3>5. WaitOK(fd[n], w)
      BY <3>1 DEF TableOK, WaitOK
    <3>6. TableOK(fd[n], others[n], w, alive, forgotten, n)
      BY <3>1, <3>2, <3>3, <3>5 DEF TableOK
    <3> QED BY <3>1, <3>2, <3>4, <3>6 DEF CacheOK
  <2>3. SocketsOK(fd', alive) /\ BacklogOK(fd', alive, backlog')
    BY <1>1 DEF Linked
  <2> QED BY <1>1, <1>2, <1>3, <2>1, <2>2, <2>3, NodeChanges
<1>5. Ordered'
  <2> SUFFICES ASSUME NEW a \in Nodes, NEW b \in Nodes, FlowOK(a, b)
               PROVE  FlowOK(a, b)'
    BY <1>1 DEF Ordered
  <2>1. Conn(waits'[a]) => waits'[a] = waits[a]
    BY <1>2
  <2>2. Conn(waits[a]) => waits'[a] = waits[a]
    BY <1>2
  <2>3. Below(sent[a][b], alive, waits[a], a, b) = Below(sent[a][b], alive, waits'[a], a, b)
    BY <2>1, <2>2 DEF Below
  <2> QED BY <2>3 DEF FlowOK
<1> QED BY <1>3, <1>4, <1>5 DEF NetInv

LEMMA FreeIs ==
  ASSUME NetInv, NEW n \in Nodes, Net!Free(n)
  PROVE  /\ n \in alive /\ waits[n] = None
         /\ TableOK(fd[n], others[n], None, alive, forgotten, n) /\ CacheOK(cache[n], others[n], None)
         /\ \A f \in Ports : fd[n][f] # None => fd[n][f].handler # "none"
         /\ \A i \in 1..Len(others[n]) : EntryOK(fd[n], others[n][i])
         /\ cache[n] # None => cache[n].id \in Nodes /\ FirstIn(others[n], cache[n].id, cache[n].s)
<1>1. n \in alive /\ waits[n] = None
  BY DEF Net!Free
<1>2. ~Conn(None) /\ \A f : ~Nuking(None, f)
  BY DEF Conn, Nuking
<1>3. TableOK(fd[n], others[n], None, alive, forgotten, n) /\ CacheOK(cache[n], others[n], None)
  BY <1>1 DEF NetInv, Linked
<1> QED BY <1>1, <1>2, <1>3 DEF TableOK, WaitOK, CacheOK

LEMMA ReadKeeps ==
  ASSUME Net!ConstantsOK, NetInv, NEW n \in Nodes, NEW f \in Ports, Net!Read(n, f)
  PROVE  NetInv'
<1>0. NetTyped /\ Linked /\ Ordered
  BY DEF NetInv
<1>1. PICK k, q : k = fd[n][f] /\ q = Net!Socket(k.peer, Tail(k.in), k.handler, k.ri)
  OBVIOUS
<1>2. /\ Net!Free(n) /\ k # None /\ k.handler = "reader" /\ k.in # <<>>
      /\ got' = [got EXCEPT ![n][k.ri] = Append(@, Head(k.in)[2])]
      /\ UNCHANGED <<backlog, others, cache, waits, alive, sent, forgotten>>
  BY Zenon, <1>1 DEF Net!Read, Net!Calling, Net!Handles, Net!Open
<1>3. k \in Net!Sockets /\ k.in \in Seq(Net!Data)
  BY <1>0, <1>1, <1>2, TypedIs, SocketIs
<1>4. fd' = Put(fd, n, f, q)
  <2>1. fd' = [fd EXCEPT ![n][f].in = Tail(@)]
    BY DEF Net!Read
  <2>2. [k EXCEPT !.in = Tail(k.in)] = q
    BY <1>1, <1>3, InIs
  <2>3. fd' = [fd EXCEPT ![n] = [fd[n] EXCEPT ![f] = [k EXCEPT !.in = Tail(k.in)]]]
    BY <1>1, <2>1
  <2> QED BY <2>2, <2>3 DEF Put
<1>5. q \in Net!Sockets /\ q.peer = k.peer /\ q.in = Tail(k.in) /\ q.handler = "reader" /\ q.ri = k.ri
  <2>1. PICK i, h, d : i = Tail(k.in) /\ h = k.handler /\ d = k.ri
    OBVIOUS
  <2>2. /\ i \in Seq(Net!Data) /\ h \in {"none", "stage2", "reader"} /\ d \in Nodes \cup {None}
        /\ q = Net!Socket(k.peer, i, h, d)
    BY <1>1, <1>2, <1>3, <2>1, SocketIs
  <2>3. q \in Net!Sockets /\ q.peer = k.peer /\ q.in = i /\ q.handler = h /\ q.ri = d
    BY <1>3, <2>2, ChangedIs
  <2> QED BY <1>2, <2>1, <2>3
<1>6. /\ fd' \in Fds /\ fd'[n][f] = q
      /\ \A m \in Nodes, g \in Ports : m # n \/ g # f => fd'[m][g] = fd[m][g]
  <2>1. fd \in Fds /\ q \in Net!Sockets \cup {None}
    BY <1>0, <1>5 DEF NetTyped
  <2> QED BY ONLY <1>4, <2>1, n \in Nodes, f \in Ports, PutIs
<1>7. q # None /\ From(q) = k.ri /\ From(k) = k.ri
  BY <1>2, <1>5, ClosedIs DEF From
<1>8. n \in alive /\ DataOK(k) /\ PeerOK(fd, alive, n, f, k) /\ k.ri \in Nodes /\ k.ri # n
  <2>1. n \in alive /\ DataOK(k) /\ PeerOK(fd, alive, n, f, k)
    BY <1>0, <1>1, <1>2 DEF Linked, SocketsOK
  <2> QED BY <1>7, <2>1 DEF PeerOK
<1>9. DataOK(q) /\ k.peer # <<From(k), 0>>
  <2>1. DataOK(q)
    BY SMTT(30), <1>2, <1>3, <1>5, <1>8, TailOK
  <2> QED BY <1>2, <1>8, <2>1, AcceptedPeer
<1>10. SocketsOK(fd', alive)
  <2>1. fd \in Fds /\ SocketsOK(fd, alive)
    BY <1>0 DEF NetTyped, Linked
  <2> QED BY <1>1, <1>2, <1>4, <1>5, <1>7, <1>9, <2>1, ReplacedOK
<1>11. PICK d : d = Head(k.in)[2]
  OBVIOUS
<1>12. d \in Nat /\ k.in[1] = Head(k.in) /\ IsMessage(k.in[1])
  <2>1. 1 \in 1..Len(k.in) /\ k.in[1] = Head(k.in) /\ k.in[1] \in Net!Data
    BY <1>2, <1>3
  <2>2. IsMessage(k.in[1])
    BY <1>2, <1>8, <2>1 DEF DataOK
  <2>3. k.in[1][2] \in Nat
    BY <2>1, <2>2 DEF Net!Data, IsMessage
  <2> QED BY <1>11, <2>1, <2>2, <2>3
<1>13. /\ got' \in [Nodes -> [Nodes -> Seq(Nat)]] /\ got'[n][k.ri] = Append(got[n][k.ri], d)
       /\ \A x, y \in Nodes : x # n \/ y # k.ri => got'[x][y] = got[x][y]
  <2>1. got \in [Nodes -> [Nodes -> Seq(Nat)]] /\ k.ri \in Nodes
    BY <1>0, <1>8 DEF NetTyped
  <2>2. PICK x : x = k.ri
    OBVIOUS
  <2>3. got' = [got EXCEPT ![n] = [got[n] EXCEPT ![x] = Append(got[n][x], d)]]
    BY <1>2, <1>11, <2>2
  <2>4. got[n][x] \in Seq(Nat) /\ got[n] \in [Nodes -> Seq(Nat)]
    BY <2>1, <2>2
  <2>5. Append(got[n][x], d) \in Seq(Nat)
    BY <1>12, <2>4
  <2> QED BY <2>1, <2>2, <2>3, <2>4, <2>5
<1>14. NetTyped'
  BY <1>0, <1>2, <1>6, <1>13 DEF NetTyped
<1>15. \A m \in Nodes : SameShape(fd[m], fd'[m])
  BY <1>1, <1>2, <1>5, <1>6, <1>7 DEF SameShape
<1>16. Linked'
  <2>1. BacklogOK(fd', alive, backlog')
    <3>1. \A y \in Nodes, x \in alive, g \in Ports : fd[x][g] # None /\ fd[x][g].peer = <<y, 0>> =>
             fd'[x][g] # None /\ fd'[x][g].peer = fd[x][g].peer
      BY <1>0, <1>1, <1>2, <1>5, <1>6, <1>7 DEF NetTyped
    <3>2. BacklogOK(fd, alive, backlog)
      BY <1>0 DEF Linked
    <3> QED BY SMTT(30), <1>0, <1>2, <3>1, <3>2, BacklogStays
  <2>2. n \in alive => TableOK(fd'[n], others'[n], waits'[n], alive, forgotten', n) /\ CacheOK(cache'[n], others'[n], waits'[n])
    <3>1. TableOK(fd[n], others[n], waits[n], alive, forgotten, n) /\ CacheOK(cache[n], others[n], waits[n])
      BY <1>0, <1>8 DEF Linked
    <3>2. others[n] \in Seq(Entry) /\ alive \in SUBSET alive /\ forgotten \subseteq forgotten
      BY <1>0, TypedIs
    <3>3. TableOK(fd'[n], others[n], waits[n], alive, forgotten, n)
      BY <1>15, <3>1, <3>2, SameTable
    <3> QED BY <1>2, <3>1, <3>3
  <2> QED BY <1>0, <1>2, <1>10, <1>14, <1>15, <2>1, <2>2, NodeChanges
<1>17. Ordered'
  <2> SUFFICES ASSUME NEW a \in Nodes, NEW b \in Nodes, FlowOK(a, b)
               PROVE  FlowOK(a, b)'
    BY <1>0, <1>2 DEF Ordered
  <2>1. CASE b = n /\ a = k.ri
    <3>1. PICK l, D, g : l = others[a] /\ D = Below(sent[a][b], alive, waits[a], a, b) /\ g = got[b][a]
      OBVIOUS
    <3>2. D \in SUBSET Nat /\ g \in Seq(Nat) /\ fd \in Fds /\ OrderOK(fd, alive, l, D, g, a, b)
      BY SMTT(30), <1>0, <3>1, TypedIs DEF Below, NetTyped, FlowOK
    <3>3. /\ fd[b][f] # None /\ From(fd[b][f]) = a /\ fd[b][f].in # <<>> /\ IsMessage(fd[b][f].in[1])
          /\ fd'[b][f] # None /\ From(fd'[b][f]) = a /\ fd'[b][f].peer = fd[b][f].peer /\ fd'[b][f].in = Tail(fd[b][f].in)
          /\ \A y \in Ports : y # f => fd'[b][y] = fd[b][y]
      BY <1>1, <1>2, <1>5, <1>6, <1>7, <1>12, <2>1
    <3>4. OrderOK(fd', alive, l, D, Append(g, Head(fd[b][f].in)[2]), a, b)
      BY <1>6, <3>2, <3>3, TakenOK
    <3>5. got'[b][a] = Append(g, Head(fd[b][f].in)[2])
      BY Zenon, <1>1, <1>11, <1>13, <2>1, <3>1
    <3> QED BY <1>2, <3>1, <3>4, <3>5 DEF FlowOK
  <2>2. CASE ~(b = n /\ a = k.ri)
    <3>1. \A h \in Ports : fd'[b][h] # None /\ From(fd'[b][h]) = a => fd'[b][h] = fd[b][h]
      BY <1>6, <1>7, <2>2
    <3>2. got'[b][a] = got[b][a]
      BY <1>13, <2>2
    <3> QED BY <1>0, <1>2, <1>14, <3>1, <3>2, FlowKeeps
  <2> QED BY <2>1, <2>2
<1> QED BY <1>14, <1>16, <1>17 DEF NetInv

LEMMA Stage2Keeps ==
  ASSUME Net!ConstantsOK, NetInv, NEW n \in Nodes, NEW f \in Ports, NEW nested \in BOOLEAN, Net!Stage2(n, f, nested)
  PROVE  NetInv'
<1>0. NetTyped /\ Linked /\ Ordered
  BY DEF NetInv
<1>1. PICK k, id, q : k = fd[n][f] /\ id = Head(k.in)[2] /\ q = Net!Socket(k.peer, Tail(k.in), "reader", id)
  OBVIOUS
<1>2. /\ Net!Free(n) /\ k # None /\ k.handler = "stage2" /\ k.in # <<>>
      /\ others' = [others EXCEPT ![n] = Append(@, Net!Other(id, f))]
      /\ UNCHANGED <<backlog, cache, waits, alive, sent, got, forgotten>>
  BY Zenon, <1>1 DEF Net!Stage2, Net!Calling, Net!Handles, Net!Open
<1>3. k \in Net!Sockets /\ k.in \in Seq(Net!Data)
  BY <1>0, <1>1, <1>2, TypedIs, SocketIs
<1>4. fd' = Put(fd, n, f, q)
  <2>1. fd' = [fd EXCEPT ![n][f] = Net!Socket(@.peer, Tail(@.in), "reader", id)]
    BY <1>1 DEF Net!Stage2
  <2> QED BY <1>1, <2>1 DEF Put
<1>5. /\ n \in alive /\ waits[n] = None /\ TableOK(fd[n], others[n], None, alive, forgotten, n) /\ CacheOK(cache[n], others[n], None)
      /\ DataOK(k) /\ PeerOK(fd, alive, n, f, k)
  <2>1. n \in alive /\ waits[n] = None /\ TableOK(fd[n], others[n], None, alive, forgotten, n) /\ CacheOK(cache[n], others[n], None)
    BY <1>2, FreeIs
  <2>2. DataOK(k) /\ PeerOK(fd, alive, n, f, k)
    BY <1>0, <1>1, <1>2 DEF Linked, SocketsOK
  <2> QED BY <2>1, <2>2
<1>6. id = From(k) /\ id \in Nodes /\ id # None
  <2>1. Head(k.in) = k.in[1]
    BY <1>2, <1>3
  <2>2. id = From(k)
    BY <1>1, <1>2, <2>1 DEF From
  <2> QED BY <1>5, <2>2, ClosedIs DEF PeerOK
<1>7. q \in Net!Sockets /\ q.peer = k.peer /\ q.in = Tail(k.in) /\ q.handler = "reader" /\ q.ri = id
  <2>1. PICK i, h : i = Tail(k.in) /\ h = "reader"
    OBVIOUS
  <2>2. /\ i \in Seq(Net!Data) /\ h \in {"none", "stage2", "reader"} /\ id \in Nodes \cup {None}
        /\ q = Net!Socket(k.peer, i, h, id)
    BY <1>1, <1>2, <1>3, <1>6, <2>1
  <2>3. q \in Net!Sockets /\ q.peer = k.peer /\ q.in = i /\ q.handler = h /\ q.ri = id
    BY <1>3, <2>2, ChangedIs
  <2> QED BY <2>1, <2>3
<1>8. /\ fd' \in Fds /\ fd'[n][f] = q
      /\ \A m \in Nodes, g \in Ports : m # n \/ g # f => fd'[m][g] = fd[m][g]
      /\ \A m \in Nodes : m # n => fd'[m] = fd[m]
  <2>1. fd \in Fds /\ q \in Net!Sockets \cup {None}
    BY <1>0, <1>7 DEF NetTyped
  <2> QED BY ONLY <1>4, <2>1, n \in Nodes, f \in Ports, PutIs
<1>9. q # None /\ From(q) = id /\ DataOK(q) /\ k.peer # <<From(k), 0>>
  <2>1. q # None /\ From(q) = id
    BY <1>7, ClosedIs DEF From
  <2>2. DataOK(q)
    BY <1>2, <1>3, <1>5, <1>7, TailOK
  <2>3. k.peer # <<From(k), 0>>
    BY <1>2, <1>5, AcceptedPeer
  <2> QED BY <2>1, <2>2, <2>3
<1>10. SocketsOK(fd', alive)
  <2>1. fd \in Fds /\ SocketsOK(fd, alive)
    BY <1>0 DEF NetTyped, Linked
  <2> QED BY Zenon, <1>1, <1>2, <1>4, <1>6, <1>7, <1>9, <2>1, ReplacedOK
<1>11. PICK l, e, t : l = others[n] /\ e = Net!Other(id, f) /\ t = Append(l, e)
  OBVIOUS
<1>12. l \in Seq(Entry) /\ e \in Entry /\ t \in Seq(Entry) /\ \A m, s : FirstIn(l, m, s) => FirstIn(t, m, s)
  <2>1. l \in Seq(Entry) /\ e \in Entry
    BY <1>0, <1>6, <1>11, TypedIs, EntryIs
  <2>2. t \in Seq(Entry)
    BY <1>11, <2>1
  <2>3. ASSUME NEW m, NEW s, FirstIn(l, m, s)
        PROVE  FirstIn(t, m, s)
    BY <1>11, <2>1, <2>3, FirstStays
  <2> QED BY <2>1, <2>2, <2>3
<1>13. /\ others' \in [Nodes -> Seq(Entry)] /\ others'[n] = t
       /\ \A m \in Nodes : m # n => others'[m] = others[m]
  <2>1. others' = [others EXCEPT ![n] = t] /\ others \in [Nodes -> Seq(Entry)]
    BY <1>0, <1>2, <1>11 DEF NetTyped
  <2> QED BY <1>12, <2>1
<1>14. NetTyped'
  BY <1>0, <1>2, <1>8, <1>13 DEF NetTyped
<1>15. BacklogOK(fd', alive, backlog')
  <2>1. \A y \in Nodes, x \in alive', g \in Ports : fd[x][g] # None /\ fd[x][g].peer = <<y, 0>> =>
           fd'[x][g] # None /\ fd'[x][g].peer = fd[x][g].peer
    BY ZenonT(60), <1>0, <1>1, <1>2, <1>7, <1>8, <1>9 DEF NetTyped
  <2>2. BacklogOK(fd, alive, backlog)
    BY <1>0 DEF Linked
  <2> QED BY SMTT(30), <1>0, <1>2, <2>1, <2>2, BacklogStays
<1>16. Linked'
  <2>1. TableOK(fd'[n], t, None, alive, forgotten, n) /\ CacheOK(cache[n], t, None)
    <3>1. PICK r, z, c : r = fd[n] /\ z = fd'[n] /\ c = cache[n]
      OBVIOUS
    <3>2. /\ TableOK(r, l, None, alive, forgotten, n) /\ CacheOK(c, l, None) /\ id \in Nodes \cup {None}
          /\ z[f] # None /\ z[f].handler # "none" /\ z[f].handler = "reader" /\ z[f].ri = id
          /\ r[f].handler = "stage2" /\ \A g \in Ports : g # f => z[g] = r[g]
      BY Zenon, <1>1, <1>2, <1>5, <1>6, <1>7, <1>8, <1>9, <1>11, <3>1
    <3>3. TableOK(z, Append(l, Net!Other(id, f)), None, alive, forgotten, n) /\ CacheOK(c, Append(l, Net!Other(id, f)), None)
      BY ONLY Net!ConstantsOK, <1>12, <3>2, f \in Ports, AddedTable
    <3> QED BY <1>11, <3>1, <3>3
  <2>2. \A m \in Nodes : m # n => SameShape(fd[m], fd'[m])
    BY <1>8 DEF SameShape
  <2> QED BY <1>0, <1>2, <1>5, <1>10, <1>13, <1>14, <1>15, <2>1, <2>2, NodeChanges
<1>17. Ordered'
  <2> SUFFICES ASSUME NEW a \in Nodes, NEW b \in Nodes, FlowOK(a, b)
               PROVE  FlowOK(a, b)'
    BY <1>0, <1>2 DEF Ordered
  <2>1. ASSUME NEW h \in Ports, fd'[b][h] # None, From(fd'[b][h]) = a
        PROVE  /\ fd[b][h] # None /\ From(fd[b][h]) = a /\ fd'[b][h].peer = fd[b][h].peer
               /\ fd'[b][h].in = fd[b][h].in \/ (fd[b][h].in # <<>> /\ fd'[b][h].in = Tail(fd[b][h].in))
    <3>1. CASE b = n /\ h = f
      BY <1>1, <1>2, <1>6, <1>7, <1>8, <1>9, <2>1, <3>1
    <3>2. CASE ~(b = n /\ h = f)
      BY <1>8, <2>1, <3>2
    <3> QED BY SMTT(30), <3>1, <3>2
  <2>2. \A x : FirstIn(others[a], b, x) => FirstIn(others'[a], b, x)
    BY <1>11, <1>12, <1>13
  <2> QED BY <1>0, <1>2, <1>14, <2>1, <2>2, FlowKeeps
<1> QED BY <1>14, <1>16, <1>17 DEF NetInv

(* A descriptor whose other end is closed is closed. *)
LEMMA ClosedKeeps ==
  ASSUME Net!ConstantsOK, NetInv, NEW n \in Nodes, NEW f \in Ports, fd[n][f] # None, fd[n][f].peer = Net!Closed
  PROVE  /\ n \in alive /\ Net!Shut(fd, n, f) = Put(fd, n, f, None) /\ Put(fd, n, f, None) \in Fds
         /\ Put(fd, n, f, None)[n][f] = None
         /\ \A m \in Nodes, g \in Ports : m # n \/ g # f => Put(fd, n, f, None)[m][g] = fd[m][g]
         /\ \A m \in Nodes : m # n => Put(fd, n, f, None)[m] = fd[m]
         /\ SocketsOK(Put(fd, n, f, None), alive) /\ BacklogOK(Put(fd, n, f, None), alive, backlog)
         /\ From(fd[n][f]) \notin alive
<1>0. NetTyped /\ Linked
  BY DEF NetInv
<1>1. fd \in Fds /\ SocketsOK(fd, alive) /\ BacklogOK(fd, alive, backlog) /\ backlog \in Backlogs /\ alive \in SUBSET Nodes
  BY <1>0 DEF NetTyped, Linked
<1>2. PICK G : G = Put(fd, n, f, None)
  OBVIOUS
<1>3. /\ G \in Fds /\ G[n][f] = None
      /\ \A m \in Nodes, g \in Ports : m # n \/ g # f => G[m][g] = fd[m][g]
      /\ \A m \in Nodes : m # n => G[m] = fd[m]
  <2>1. None \in Net!Sockets \cup {None}
    OBVIOUS
  <2> QED BY ONLY <1>1, <1>2, <2>1, n \in Nodes, f \in Ports, PutIs
<1>4. Net!Shut(fd, n, f) = G
  BY <1>2 DEF Net!Shut, Put
<1>5. SocketsOK(G, alive)
  BY <1>1, <1>2, ClosingOK
<1>6. SamePending(fd, G, alive)
  <2> SUFFICES ASSUME NEW y \in Nodes, NEW x \in alive, NEW g \in Ports, fd[x][g] # None, fd[x][g].peer = <<y, 0>>
               PROVE  G[x][g] # None /\ G[x][g].peer = fd[x][g].peer
    BY DEF SamePending
  <2>1. ~(x = n /\ g = f)
    BY ClosedIs
  <2> QED BY <1>1, <1>3, <2>1
<1>7. BacklogOK(G, alive, backlog)
  <2>1. PICK F, A, b : F = fd /\ A = alive /\ b = backlog
    OBVIOUS
  <2>2. A \in SUBSET A /\ b \in Backlogs /\ BacklogOK(F, A, b) /\ SamePending(F, G, A)
    BY <1>1, <1>6, <2>1
  <2>3. BacklogOK(G, A, b)
    BY ONLY <2>2, SameBacklog
  <2> QED BY <2>1, <2>3
<1>8. n \in alive /\ From(fd[n][f]) \notin alive
  <2>1. n \in alive /\ PeerOK(fd, alive, n, f, fd[n][f])
    BY <1>1 DEF SocketsOK
  <2> QED BY <2>1, ClosedIs DEF PeerOK
<1> QED BY <1>2, <1>3, <1>4, <1>5, <1>7, <1>8

LEMMA ReadEndKeeps ==
  ASSUME Net!ConstantsOK, NetInv, NEW n \in Nodes, NEW f \in Ports, Net!Free(n),
         fd[n][f] # None, fd[n][f].in = <<>>, fd[n][f].peer = Net!Closed,
         fd' = Net!Shut(fd, n, f), others' = [others EXCEPT ![n] = Net!Nuked(n, f)],
         cache' = [cache EXCEPT ![n] = Net!NukedCache(n, f, @)],
         UNCHANGED <<backlog, waits, alive, sent, got, forgotten>>
  PROVE  NetInv'
<1>0. NetTyped /\ Linked /\ Ordered
  BY DEF NetInv
<1>1. /\ n \in alive /\ fd' \in Fds /\ fd'[n][f] = None
      /\ \A m \in Nodes, g \in Ports : m # n \/ g # f => fd'[m][g] = fd[m][g]
      /\ \A m \in Nodes : m # n => fd'[m] = fd[m]
      /\ SocketsOK(fd', alive) /\ BacklogOK(fd', alive, backlog)
  BY ClosedKeeps
<1>2. waits[n] = None /\ TableOK(fd[n], others[n], None, alive, forgotten, n) /\ CacheOK(cache[n], others[n], None)
  BY FreeIs
<1>3. PICK l, t : l = others[n] /\ t = Finally(l, f)
  OBVIOUS
<1>4. l \in Seq(Entry) /\ t \in Seq(Entry) /\ \A m, s : FirstIn(l, m, s) /\ s # f => FirstIn(t, m, s)
  <2>1. l \in Seq(Entry)
    BY <1>0, <1>3, TypedIs
  <2> QED BY ONLY Net!ConstantsOK, <1>3, <2>1, FinallyIs
<1>5. others' = [others EXCEPT ![n] = t] /\ cache' = [cache EXCEPT ![n] = None]
  BY <1>3, ClosedIs DEF Net!Nuked, Net!NukedCache, Finally
<1>6. /\ others' \in [Nodes -> Seq(Entry)] /\ others'[n] = t
      /\ \A m \in Nodes : m # n => others'[m] = others[m]
      /\ cache' \in [Nodes -> Entry \cup {None}] /\ cache'[n] = None
      /\ \A m \in Nodes : m # n => cache'[m] = cache[m]
  BY <1>0, <1>4, <1>5 DEF NetTyped
<1>7. NetTyped'
  BY <1>0, <1>1, <1>6 DEF NetTyped
<1>8. Linked'
  <2>1. TableOK(fd'[n], t, None, alive, forgotten, n) /\ CacheOK(None, t, None)
    <3>1. PICK r, z : r = fd[n] /\ z = fd'[n]
      OBVIOUS
    <3>2. TableOK(r, l, None, alive, forgotten, n) /\ z[f] = None /\ \A g \in Ports : g # f => z[g] = r[g]
      BY <1>1, <1>2, <1>3, <3>1
    <3>3. TableOK(z, Finally(l, f), None, alive, forgotten, n) /\ CacheOK(None, Finally(l, f), None)
      BY ONLY Net!ConstantsOK, <1>4, <3>2, f \in Ports, RemovedTable
    <3> QED BY <1>3, <3>1, <3>3
  <2>2. \A m \in Nodes : m # n => SameShape(fd[m], fd'[m])
    BY <1>1 DEF SameShape
  <2> QED BY <1>0, <1>1, <1>2, <1>6, <1>7, <2>1, <2>2, NodeChanges
<1>9. Ordered'
  <2> SUFFICES ASSUME NEW a \in Nodes, NEW b \in Nodes, FlowOK(a, b)
               PROVE  FlowOK(a, b)'
    BY <1>0 DEF Ordered
  <2>1. ASSUME NEW h \in Ports, fd'[b][h] # None, From(fd'[b][h]) = a
        PROVE  fd'[b][h] = fd[b][h]
    BY <1>1, <2>1
  <2>2. ASSUME NEW h \in Ports, fd[b][h] # None, From(fd[b][h]) = a, HasMessage(fd[b][h].in), a \in alive,
               FirstIn(others[a], b, fd[b][h].peer[2])
        PROVE  FirstIn(others'[a], b, fd[b][h].peer[2])
    <3>1. CASE a = n
      <4>1. PICK k : k = fd[b][h]
        OBVIOUS
      <4>2. PeerOK(fd, alive, b, h, k) /\ From(k) = n /\ n \in alive
        BY <1>0, <2>2, <3>1, <4>1 DEF Linked, SocketsOK
      <4>3. k.in # <<>>
        BY <2>2, <4>1 DEF HasMessage
      <4>4. PICK g \in Ports : k.peer = <<n, g>> /\ fd[n][g].peer = <<b, h>>
        BY <4>2, <4>3 DEF PeerOK
      <4>5. g # f
        BY <4>4, ClosedIs
      <4>6. k.peer[2] = g
        BY <4>4
      <4> QED BY <1>3, <1>4, <1>6, <2>2, <3>1, <4>1, <4>5, <4>6
    <3>2. CASE a # n
      BY <1>6, <2>2, <3>2
    <3> QED BY <3>1, <3>2
  <2> QED BY <1>0, <1>7, <2>1, <2>2, FlowKeeps
<1> QED BY <1>7, <1>8, <1>9 DEF NetInv

LEMMA LowestIs ==
  ASSUME Net!ConstantsOK, NEW n
  PROVE  /\ Net!Open(n) # Net!FDs => Net!Lowest(n) \in Ports /\ fd[n][Net!Lowest(n)] = None
         /\ \A f \in Ports : LET s == Net!Min((Net!FDs \ Net!Open(n)) \cup {f})
                             IN s \in Ports /\ (s = f \/ fd[n][s] = None)
<1>1. MaxFD \in Nat /\ Net!FDs = 1..MaxFD /\ Ports = Net!FDs
  BY DEF Net!ConstantsOK, Net!FDs, Ports
<1>2. ASSUME Net!Open(n) # Net!FDs
      PROVE  Net!Lowest(n) \in Ports /\ fd[n][Net!Lowest(n)] = None
  <2>1. PICK T : T = Net!FDs \ Net!Open(n)
    OBVIOUS
  <2>2. T \in SUBSET (0..MaxFD) /\ T # {}
    BY <1>1, <1>2, <2>1 DEF Net!Open
  <2>3. Net!Min(T) \in T
    BY <1>1, <2>2, MinOf
  <2> QED BY <1>1, <2>1, <2>3 DEF Net!Lowest, Net!Open
<1>3. ASSUME NEW f \in Ports
      PROVE  LET s == Net!Min((Net!FDs \ Net!Open(n)) \cup {f})
             IN s \in Ports /\ (s = f \/ fd[n][s] = None)
  <2>1. PICK T : T = (Net!FDs \ Net!Open(n)) \cup {f}
    OBVIOUS
  <2>2. T \in SUBSET (0..MaxFD) /\ T # {}
    BY <1>1, <2>1
  <2>3. Net!Min(T) \in T
    BY <1>1, <2>2, MinOf
  <2>4. \A s \in T : s \in Ports /\ (s = f \/ fd[n][s] = None)
    BY <1>1, <2>1 DEF Net!Open
  <2> QED BY <2>1, <2>3, <2>4
<1> QED BY <1>2, <1>3

LEMMA NewSocketIs ==
  ASSUME Net!ConstantsOK, NEW m \in Nodes, NEW k, k = Net!Socket(<<m, 0>>, <<>>, "none", m)
  PROVE  k \in Net!Sockets /\ k # None /\ k.peer = <<m, 0>> /\ k.in = <<>> /\ k.handler = "none" /\ k.ri = m /\ ~HasMessage(k.in)
<1>1. PICK p, i, h : p = <<m, 0>> /\ i = <<>> /\ h = "none"
  OBVIOUS
<1>2. /\ p \in (Nodes \X (0..MaxFD)) \cup {Net!Closed} /\ i \in Seq(Net!Data)
      /\ h \in {"none", "stage2", "reader"} /\ m \in Nodes \cup {None}
  BY <1>1, ClosedIs
<1>3. k = Net!Socket(p, i, h, m)
  BY <1>1
<1>4. k \in Net!Sockets /\ k.peer = p /\ k.in = i /\ k.handler = h /\ k.ri = m
  BY ONLY <1>2, <1>3, SocketHas
<1>5. ~HasMessage(i)
  BY <1>1 DEF HasMessage
<1> QED BY <1>1, <1>4, <1>5, ClosedIs

LEMMA FoundIs ==
  ASSUME Net!ConstantsOK, NetInv, NEW n \in Nodes, Net!Free(n), NEW m
  PROVE  LET o == Net!FindSocket(n, m)
         IN /\ o = None => \A i \in 1..Len(others[n]) : others[n][i].id # m
            /\ o # None => o \in Entry /\ o = Net!Other(m, o.s) /\ FirstIn(others[n], m, o.s)
<1>1. others[n] \in Seq(Entry) /\ cache[n] \in Entry \cup {None}
  BY TypedIs DEF NetInv
<1>2. cache[n] # None => FirstIn(others[n], cache[n].id, cache[n].s) /\ cache[n] \in Entry
  BY <1>1, FreeIs
<1> QED BY <1>1, <1>2, FoundIsFirst

(* A node connects to another, with the descriptors H it has after it has  *)
(* closed nuke, if it has.                                                 *)
LEMMA ConnectKeeps ==
  ASSUME Net!ConstantsOK, NetInv, NEW n \in Nodes, Net!Free(n), NEW m \in Nodes \ {n}, m \in alive,
         Net!FindSocket(n, m) = None, NEW nuke \in 0..MaxFD, NEW s \in Ports,
         NEW H \in Fds, SocketsOK(H, alive), BacklogOK(H, alive, backlog), H[n][s] = None,
         \A x \in Nodes : x # n => H[x] = fd[x],
         \A h \in Ports : H[n][h] # None => H[n][h] = fd[n][h],
         \A i \in 1..Len(others[n]) :
           IF others[n][i].s = nuke THEN others[n][i].id \notin alive ELSE EntryOK(H[n], others[n][i]),
         fd' = [H EXCEPT ![n][s] = Net!Socket(<<m, 0>>, <<>>, "none", m)],
         backlog' = [backlog EXCEPT ![m] = Append(@, <<n, s>>)],
         others' = [others EXCEPT ![n] = Append(@, Net!Other(m, s))],
         waits' = [waits EXCEPT ![n] = Net!Waiting(s, m, nuke)],
         sent' = [sent EXCEPT ![n][m] = @ + 1],
         forgotten' = IF s = nuke THEN forgotten \cup {<<n, m>>} ELSE forgotten,
         UNCHANGED <<cache, alive, got>>
  PROVE  NetInv'
<1>0. NetTyped /\ Linked /\ Ordered
  BY DEF NetInv
<1>1. /\ n \in alive /\ waits[n] = None /\ \A h \in Ports : fd[n][h] # None => fd[n][h].handler # "none"
      /\ cache[n] # None => cache[n].id \in Nodes /\ FirstIn(others[n], cache[n].id, cache[n].s)
  BY FreeIs
<1>2. \A i \in 1..Len(others[n]) : others[n][i].id # m
  BY FoundIs
<1>3. PICK k : k = Net!Socket(<<m, 0>>, <<>>, "none", m)
  OBVIOUS
<1>4. k \in Net!Sockets /\ k # None /\ k.peer = <<m, 0>> /\ ~HasMessage(k.in)
  BY <1>3, NewSocketIs
<1>5. /\ fd' = Put(H, n, s, k) /\ fd' \in Fds /\ fd'[n][s] = k
      /\ \A x \in Nodes, g \in Ports : x # n \/ g # s => fd'[x][g] = H[x][g]
      /\ \A x \in Nodes : x # n => fd'[x] = fd[x]
  <2>1. fd' = Put(H, n, s, k) /\ k \in Net!Sockets \cup {None}
    BY <1>3, <1>4 DEF Put
  <2>2. /\ fd' \in Fds /\ fd'[n][s] = k
        /\ \A x \in Nodes, g \in Ports : x # n \/ g # s => fd'[x][g] = H[x][g]
        /\ \A x \in Nodes : x # n => fd'[x] = H[x]
    BY ONLY <2>1, H \in Fds, n \in Nodes, s \in Ports, PutIs
  <2> QED BY <2>1, <2>2
<1>6. SocketsOK(fd', alive)
  <2>1. PICK A : A = alive
    OBVIOUS
  <2>2. SocketsOK(H, A) /\ n \in A /\ m \in A
    BY <1>1, <2>1
  <2>3. SocketsOK(Put(H, n, s, Net!Socket(<<m, 0>>, <<>>, "none", m)), A)
    BY ONLY Net!ConstantsOK, H \in Fds, n \in Nodes, s \in Ports, m \in Nodes \ {n}, H[n][s] = None, <2>2, OpeningOK
  <2> QED BY <1>3, <1>5, <2>1, <2>3
<1>7. backlog' \in Backlogs /\ BacklogOK(fd', alive, backlog')
  <2>1. PICK G, b, A : G = fd' /\ b = backlog /\ A = alive
    OBVIOUS
  <2>2. /\ b \in Backlogs /\ BacklogOK(H, A, b) /\ n \in A
        /\ \A x \in Nodes, y \in Ports : x # n \/ y # s => G[x][y] = H[x][y]
    BY <1>0, <1>1, <1>5, <2>1 DEF NetTyped
  <2>3. Pending(G, m, <<n, s>>)
    <3>1. PICK p : p = <<n, s>>
      OBVIOUS
    <3>2. p[1] = n /\ p[2] = s
      BY <3>1
    <3> QED BY <1>4, <1>5, <2>1, <3>1, <3>2 DEF Pending
  <2>4. LET c == [b EXCEPT ![m] = Append(@, <<n, s>>)]
        IN c \in Backlogs /\ BacklogOK(G, A, c)
    BY ONLY Net!ConstantsOK, n \in Nodes, s \in Ports, m \in Nodes \ {n}, H[n][s] = None, <2>2, <2>3, AddedBacklog
  <2> QED BY <2>1, <2>4
<1>8. PICK l, t, w : l = others[n] /\ t = Append(l, Net!Other(m, s)) /\ w = Net!Waiting(s, m, nuke)
  OBVIOUS
<1>9. l \in Seq(Entry) /\ t \in Seq(Entry) /\ \A x, y : FirstIn(l, x, y) => FirstIn(t, x, y)
  <2>1. PICK e : e = Net!Other(m, s)
    OBVIOUS
  <2>2. l \in Seq(Entry) /\ e \in Entry
    BY <1>0, <1>8, <2>1, TypedIs, EntryIs
  <2>3. t \in Seq(Entry)
    BY <1>8, <2>1, <2>2
  <2>4. ASSUME NEW x, NEW y, FirstIn(l, x, y)
        PROVE  FirstIn(t, x, y)
    BY <1>8, <2>1, <2>2, <2>4, FirstStays
  <2> QED BY <2>2, <2>3, <2>4
<1>10. w \in Net!Calls /\ w.id = m
  BY <1>8 DEF Net!Waiting, Net!Calls, Ports, Net!FDs, Net!ConstantsOK
<1>11. /\ others' \in [Nodes -> Seq(Entry)] /\ others'[n] = t
       /\ \A x \in Nodes : x # n => others'[x] = others[x]
  BY <1>0, <1>8, <1>9 DEF NetTyped
<1>12. /\ waits' \in [Nodes -> Net!Calls \cup {None}] /\ waits'[n] = w
       /\ \A x \in Nodes : x # n => waits'[x] = waits[x]
  BY <1>0, <1>8, <1>10 DEF NetTyped
<1>13. /\ sent' \in [Nodes -> [Nodes -> Nat]] /\ sent'[n][m] = sent[n][m] + 1
       /\ \A x, y \in Nodes : x # n \/ y # m => sent'[x][y] = sent[x][y]
  <2>1. sent \in [Nodes -> [Nodes -> Nat]]
    BY <1>0 DEF NetTyped
  <2>2. sent[n] \in [Nodes -> Nat] /\ sent[n][m] + 1 \in Nat
    BY <2>1
  <2>3. sent' = [sent EXCEPT ![n] = [sent[n] EXCEPT ![m] = sent[n][m] + 1]]
    OBVIOUS
  <2> QED BY <2>1, <2>2, <2>3
<1>14. NetTyped'
  BY <1>0, <1>5, <1>7, <1>11, <1>12, <1>13 DEF NetTyped
<1>15. Linked'
  <2>1. TableOK(fd'[n], t, w, alive, forgotten', n) /\ CacheOK(cache[n], t, w)
    <3>1. PICK r, q, c, A, K : r = H[n] /\ q = fd'[n] /\ c = cache[n] /\ A = alive /\ K = forgotten'
      OBVIOUS
    <3>2. /\ c # None => c.id \in Nodes /\ FirstIn(l, c.id, c.s)
          /\ \A f \in Ports : r[f] # None => r[f].handler # "none"
          /\ \A i \in 1..Len(l) : IF l[i].s = nuke THEN l[i].id \notin A ELSE EntryOK(r, l[i])
          /\ \A i \in 1..Len(l) : l[i].id # m
      BY <1>1, <1>2, <1>8, <3>1
    <3>3. /\ r[s] = None /\ (s = nuke => <<n, m>> \in K)
          /\ q[s] = Net!Socket(<<m, 0>>, <<>>, "none", m) /\ \A f \in Ports : f # s => q[f] = r[f]
      BY <1>3, <1>5, <3>1
    <3>4. /\ TableOK(q, Append(l, Net!Other(m, s)), Net!Waiting(s, m, nuke), A, K, n)
          /\ CacheOK(c, Append(l, Net!Other(m, s)), Net!Waiting(s, m, nuke))
      BY ONLY ZenonT(60), Net!ConstantsOK, m \in Nodes \ {n}, s \in Ports, nuke \in 0..MaxFD, <1>9, <3>2, <3>3, ConnectingTable
    <3> QED BY <1>8, <3>1, <3>4
  <2>2. \A x \in Nodes : x # n => SameShape(fd[x], fd'[x])
    BY <1>5 DEF SameShape
  <2>3. forgotten \subseteq forgotten'
    OBVIOUS
  <2> QED BY <1>0, <1>5, <1>6, <1>7, <1>11, <1>12, <1>14, <2>1, <2>2, <2>3, NodeChanges
<1>16. Ordered'
  <2> SUFFICES ASSUME NEW a \in Nodes, NEW b \in Nodes, FlowOK(a, b)
               PROVE  FlowOK(a, b)'
    BY <1>0 DEF Ordered
  <2>1. ASSUME NEW h \in Ports, fd'[b][h] # None, HasMessage(fd'[b][h].in)
        PROVE  fd'[b][h] = fd[b][h]
    <3>1. ~(b = n /\ h = s)
      BY <1>4, <1>5, <2>1
    <3>2. fd'[b][h] = H[b][h]
      BY <1>5, <3>1
    <3> QED BY <2>1, <3>2
  <2>2. \A x : FirstIn(others[a], b, x) => FirstIn(others'[a], b, x)
    BY <1>8, <1>9, <1>11
  <2>3. Below(sent[a][b], alive, waits[a], a, b) \subseteq Below(sent'[a][b], alive', waits'[a], a, b)
    <3>1. CASE a = n /\ b = m
      <4>1. sent[a][b] \in Nat /\ sent'[a][b] = sent[a][b] + 1
        BY <1>0, <1>13, <3>1, TypedIs
      <4> QED BY <4>1 DEF Below
    <3>2. CASE a = n /\ b # m
      BY <1>10, <1>12, <1>13, <3>2 DEF Below
    <3>3. CASE a # n
      BY <1>12, <1>13, <3>3
    <3> QED BY <3>1, <3>2, <3>3
  <2>4. got'[b][a] = got[b][a] /\ alive' \subseteq alive
    OBVIOUS
  <2>5. \A h \in Ports : fd'[b][h] # None /\ From(fd'[b][h]) = a /\ HasMessage(fd'[b][h].in) =>
          /\ fd[b][h] # None /\ From(fd[b][h]) = a
          /\ fd'[b][h].in = fd[b][h].in \/ (fd[b][h].in # <<>> /\ fd'[b][h].in = Tail(fd[b][h].in))
          /\ a \in alive' => /\ fd'[b][h].peer = fd[b][h].peer
                             /\ FirstIn(others[a], b, fd[b][h].peer[2]) => FirstIn(others'[a], b, fd[b][h].peer[2])
    BY <2>1, <2>2
  <2> QED BY ONLY <1>0, <1>14, <2>3, <2>4, <2>5, a \in Nodes, b \in Nodes, FlowOK(a, b), FlowKeeps
<1> QED BY <1>14, <1>15, <1>16 DEF NetInv

(* The descriptor is closed and, before its entries are removed, the node  *)
(* connects to another.                                                    *)
LEMMA ReadEndAllKeeps ==
  ASSUME Net!ConstantsOK, NetInv, NEW n \in Nodes, NEW f \in Ports, Net!ReadEnd(n, f)
  PROVE  NetInv'
<1>0. NetTyped /\ Linked /\ Ordered
  BY DEF NetInv
<1>1. /\ Net!Free(n) /\ fd[n][f] # None /\ fd[n][f].in = <<>> /\ fd[n][f].peer = Net!Closed
      /\ UNCHANGED <<alive, failed, got>>
  BY DEF Net!ReadEnd, Net!Calling, Net!Open
<1>2. CASE /\ fd' = Net!Shut(fd, n, f)
           /\ others' = [others EXCEPT ![n] = Net!Nuked(n, f)]
           /\ cache' = [cache EXCEPT ![n] = Net!NukedCache(n, f, @)]
           /\ UNCHANGED <<backlog, waits, sent, forgotten>>
  BY <1>1, <1>2, ReadEndKeeps
<1>3. ASSUME NEW m \in alive \ (failed \cup {n}),
             /\ fd[n][f].handler = "reader" /\ <<n, m>> \in Flows /\ Net!FindSocket(n, m) = None /\ sent[n][m] < MaxSent
             /\ sent' = [sent EXCEPT ![n][m] = @ + 1]
             /\ LET s == Net!Min((Net!FDs \ Net!Open(n)) \cup {f})
                IN /\ fd' = [Net!Shut(fd, n, f) EXCEPT ![n][s] = Net!Socket(<<m, 0>>, <<>>, "none", m)]
                   /\ backlog' = [backlog EXCEPT ![m] = Append(@, <<n, s>>)]
                   /\ others' = [others EXCEPT ![n] = Append(@, Net!Other(m, s))]
                   /\ waits' = [waits EXCEPT ![n] = Net!Waiting(s, m, f)]
                   /\ forgotten' = IF s = f THEN forgotten \cup {<<n, m>>} ELSE forgotten
             /\ UNCHANGED cache
      PROVE  NetInv'
  <2>1. PICK s : s = Net!Min((Net!FDs \ Net!Open(n)) \cup {f})
    OBVIOUS
  <2>2. s \in Ports /\ (s = f \/ fd[n][s] = None)
    BY <2>1, LowestIs
  <2>3. PICK H : H = Put(fd, n, f, None)
    OBVIOUS
  <2>4. /\ n \in alive /\ Net!Shut(fd, n, f) = H /\ H \in Fds /\ H[n][f] = None
        /\ \A x \in Nodes, g \in Ports : x # n \/ g # f => H[x][g] = fd[x][g]
        /\ \A x \in Nodes : x # n => H[x] = fd[x]
        /\ SocketsOK(H, alive) /\ BacklogOK(H, alive, backlog)
        /\ From(fd[n][f]) \notin alive
    BY <1>1, <2>3, ClosedKeeps
  <2>5. m \in Nodes \ {n} /\ m \in alive /\ f \in 0..MaxFD
    BY <1>0, ClosedIs DEF NetTyped
  <2>6. H[n][s] = None
    BY <2>2, <2>4
  <2>7. \A h \in Ports : H[n][h] # None => H[n][h] = fd[n][h]
    BY <2>4
  <2>8. \A i \in 1..Len(others[n]) :
          IF others[n][i].s = f THEN others[n][i].id \notin alive ELSE EntryOK(H[n], others[n][i])
    <3> SUFFICES ASSUME NEW i \in 1..Len(others[n])
                 PROVE  IF others[n][i].s = f THEN others[n][i].id \notin alive ELSE EntryOK(H[n], others[n][i])
      OBVIOUS
    <3>1. PICK e : e = others[n][i]
      OBVIOUS
    <3>2. EntryOK(fd[n], e) /\ e.s \in Ports /\ e.id \in Nodes \cup {None}
      <4>1. EntryOK(fd[n], e)
        BY <1>1, <3>1, FreeIs
      <4> QED BY <1>0, <3>1, <4>1, TypedIs, EntryIs
    <3>3. ASSUME e.s = f
          PROVE  e.id \notin alive
      <4>1. e.id # None => e.id = fd[n][f].ri
        BY <3>2, <3>3 DEF EntryOK
      <4>2. fd[n][f].ri = From(fd[n][f])
        BY <1>3 DEF From
      <4>3. None \notin alive
        BY <1>0, ClosedIs DEF NetTyped
      <4> QED BY <2>4, <4>1, <4>2, <4>3
    <3>4. ASSUME e.s # f
          PROVE  EntryOK(H[n], e)
      BY <2>4, <3>2, <3>4 DEF EntryOK
    <3> QED BY <3>1, <3>3, <3>4
  <2>9. /\ fd' = [H EXCEPT ![n][s] = Net!Socket(<<m, 0>>, <<>>, "none", m)]
        /\ backlog' = [backlog EXCEPT ![m] = Append(@, <<n, s>>)]
        /\ others' = [others EXCEPT ![n] = Append(@, Net!Other(m, s))]
        /\ waits' = [waits EXCEPT ![n] = Net!Waiting(s, m, f)]
        /\ sent' = [sent EXCEPT ![n][m] = @ + 1]
        /\ forgotten' = IF s = f THEN forgotten \cup {<<n, m>>} ELSE forgotten
        /\ UNCHANGED <<cache, alive, got>> /\ Net!FindSocket(n, m) = None
    BY <1>1, <1>3, <2>1, <2>4
  <2> QED BY ONLY ZenonT(60), Net!ConstantsOK, NetInv, n \in Nodes, <1>1, <2>2, <2>4, <2>5, <2>6, <2>7, <2>8, <2>9, ConnectKeeps
<1>4. \/ /\ fd' = Net!Shut(fd, n, f)
         /\ others' = [others EXCEPT ![n] = Net!Nuked(n, f)]
         /\ cache' = [cache EXCEPT ![n] = Net!NukedCache(n, f, @)]
         /\ UNCHANGED <<backlog, waits, sent, forgotten>>
      \/ \E m \in alive \ (failed \cup {n}) :
             /\ fd[n][f].handler = "reader" /\ <<n, m>> \in Flows /\ Net!FindSocket(n, m) = None /\ sent[n][m] < MaxSent
             /\ sent' = [sent EXCEPT ![n][m] = @ + 1]
             /\ LET s == Net!Min((Net!FDs \ Net!Open(n)) \cup {f})
                IN /\ fd' = [Net!Shut(fd, n, f) EXCEPT ![n][s] = Net!Socket(<<m, 0>>, <<>>, "none", m)]
                   /\ backlog' = [backlog EXCEPT ![m] = Append(@, <<n, s>>)]
                   /\ others' = [others EXCEPT ![n] = Append(@, Net!Other(m, s))]
                   /\ waits' = [waits EXCEPT ![n] = Net!Waiting(s, m, f)]
                   /\ forgotten' = IF s = f THEN forgotten \cup {<<n, m>>} ELSE forgotten
             /\ UNCHANGED cache
  BY Zenon DEF Net!ReadEnd
<1> QED BY <1>2, <1>3, <1>4

(* A message is written to the connection that was found, or lost when its *)
(* other end is closed.                                                    *)
Receives(F, G, A, n, f, b, g, c) ==
  /\ F[n][f].peer = <<b, g>> /\ b \in Nodes \ {n} /\ b \in A /\ n \in A
  /\ F[b][g] # None /\ F[b][g].peer = <<n, f>> /\ From(F[b][g]) = n
  /\ G \in Fds /\ SocketsOK(G, A) /\ G[b][g] # None
  /\ G[b][g].in = Append(F[b][g].in, Net!Message(c)) /\ G[b][g].peer = F[b][g].peer
  /\ From(G[b][g]) = n /\ G[b][g].handler = F[b][g].handler /\ G[b][g].ri = F[b][g].ri
  /\ \A x \in Nodes, y \in Ports : x # b \/ y # g => G[x][y] = F[x][y]
  /\ \A x \in Nodes : x # b => G[x] = F[x]

LEMMA WrittenIs ==
  ASSUME Net!ConstantsOK, NEW F \in Fds, NEW A, SocketsOK(F, A), NEW n \in Nodes, NEW f \in Ports,
         F[n][f] # None, F[n][f].handler # "none" \/ F[n][f].in # <<>>, NEW c \in Nat
  PROVE  \/ F[n][f].peer = Net!Closed /\ From(F[n][f]) \notin A
         \/ \E g \in Ports :
              Receives(F, [F EXCEPT ![F[n][f].peer[1]][F[n][f].peer[2]].in = Append(@, Net!Message(c))],
                       A, n, f, From(F[n][f]), g, c)
<1>1. PICK k, b : k = F[n][f] /\ b = From(k)
  OBVIOUS
<1>2. PeerOK(F, A, n, f, k) /\ n \in A /\ b \in Nodes \ {n}
  BY <1>1 DEF SocketsOK, PeerOK
<1>3. CASE k.peer = Net!Closed /\ b \notin A
  BY <1>1, <1>3
<1>4. ASSUME NEW g \in Ports, k.peer = <<b, g>>, b \in A, F[b][g] # None, F[b][g].peer = <<n, f>>
      PROVE  LET G == [F EXCEPT ![k.peer[1]][k.peer[2]].in = Append(@, Net!Message(c))]
             IN /\ From(F[b][g]) = n
                /\ G \in Fds /\ SocketsOK(G, A) /\ G[b][g] # None
                /\ G[b][g].in = Append(F[b][g].in, Net!Message(c)) /\ G[b][g].peer = F[b][g].peer
                /\ From(G[b][g]) = n /\ G[b][g].handler = F[b][g].handler /\ G[b][g].ri = F[b][g].ri
                /\ \A x \in Nodes, y \in Ports : x # b \/ y # g => G[x][y] = F[x][y]
                /\ \A x \in Nodes : x # b => G[x] = F[x]
  <2>1. PICK j, q : j = F[b][g] /\ q = Net!Socket(j.peer, Append(j.in, Net!Message(c)), j.handler, j.ri)
    OBVIOUS
  <2>2. j \in Net!Sockets
    BY <1>2, <1>4, <2>1 DEF Fds
  <2>3. PeerOK(F, A, b, g, j) /\ DataOK(j)
    BY <1>2, <1>4, <2>1 DEF SocketsOK
  <2>4. From(j) = n /\ (j.handler = "none" => j.in # <<>>) /\ j.peer # <<From(j), 0>>
    <3>1. j.peer = <<n, f>> /\ f # 0 /\ j.peer # Net!Closed
      BY <1>4, <2>1, ClosedIs
    <3>2. CASE j.peer = <<From(j), 0>>
      BY <3>1, <3>2
    <3>3. CASE (j.handler = "none" => j.in # <<>>) /\ \E y \in Ports : j.peer = <<From(j), y>>
      BY <3>1, <3>3
    <3> QED BY <2>3, <3>1, <3>2, <3>3 DEF PeerOK
  <2>5. /\ q \in Net!Sockets /\ q.peer = j.peer /\ q.in = Append(j.in, Net!Message(c)) /\ q.handler = j.handler /\ q.ri = j.ri
        /\ q.in # <<>> /\ DataOK(q) /\ From(q) = From(j)
    BY ONLY ZenonT(60), c \in Nat, <2>1, <2>2, <2>3, <2>4, AppendOK
  <2>6. PICK G : G = Put(F, b, g, q)
    OBVIOUS
  <2>7. [F EXCEPT ![k.peer[1]][k.peer[2]].in = Append(@, Net!Message(c))] = G
    <3>1. k.peer[1] = b /\ k.peer[2] = g
      BY <1>4
    <3>2. PICK v : v = Append(F[b][g].in, Net!Message(c))
      OBVIOUS
    <3>3. [F EXCEPT ![b][g].in = Append(@, Net!Message(c))] = [F EXCEPT ![b] = [F[b] EXCEPT ![g] = [F[b][g] EXCEPT !.in = v]]]
      BY <3>2
    <3>4. [F[b][g] EXCEPT !.in = v] = q
      BY <2>1, <2>2, <3>2, InIs
    <3> QED BY <2>6, <3>1, <3>3, <3>4 DEF Put
  <2>8. /\ G \in Fds /\ G[b][g] = q
        /\ \A x \in Nodes, y \in Ports : x # b \/ y # g => G[x][y] = F[x][y]
        /\ \A x \in Nodes : x # b => G[x] = F[x]
    <3>1. q \in Net!Sockets \cup {None} /\ b \in Nodes
      BY <1>2, <2>5
    <3> QED BY ONLY <2>6, <3>1, F \in Fds, g \in Ports, PutIs
  <2>9. SocketsOK(G, A)
    <3>1. /\ b \in Nodes /\ F[b][g] # None /\ q.peer = F[b][g].peer /\ From(q) = From(F[b][g])
          /\ F[b][g].peer # <<From(F[b][g]), 0>> /\ (q.handler = "none" => q.in # <<>>) /\ q \in Net!Sockets /\ DataOK(q)
      BY Zenon, <1>2, <1>4, <2>1, <2>4, <2>5
    <3>2. SocketsOK(Put(F, b, g, q), A)
      BY ONLY Net!ConstantsOK, F \in Fds, SocketsOK(F, A), g \in Ports, <3>1, ReplacedOK
    <3> QED BY <2>6, <3>2
  <2>10. q # None
    BY <2>5, ClosedIs
  <2> QED BY Zenon, <2>1, <2>4, <2>5, <2>7, <2>8, <2>9, <2>10
<1>5. CASE \E g \in Ports : k.peer = <<b, g>> /\ b \in A /\ F[b][g] # None /\ F[b][g].peer = <<n, f>>
  <2>1. PICK g \in Ports : k.peer = <<b, g>> /\ b \in A /\ F[b][g] # None /\ F[b][g].peer = <<n, f>>
    BY <1>5
  <2>2. PICK G : G = [F EXCEPT ![k.peer[1]][k.peer[2]].in = Append(@, Net!Message(c))]
    OBVIOUS
  <2>3. /\ From(F[b][g]) = n
        /\ G \in Fds /\ SocketsOK(G, A) /\ G[b][g] # None
        /\ G[b][g].in = Append(F[b][g].in, Net!Message(c)) /\ G[b][g].peer = F[b][g].peer
        /\ From(G[b][g]) = n /\ G[b][g].handler = F[b][g].handler /\ G[b][g].ri = F[b][g].ri
        /\ \A x \in Nodes, y \in Ports : x # b \/ y # g => G[x][y] = F[x][y]
        /\ \A x \in Nodes : x # b => G[x] = F[x]
    BY ONLY ZenonT(60), <1>4, <2>1, <2>2
  <2>4. Receives(F, G, A, n, f, b, g, c)
    BY Zenon, <1>1, <1>2, <2>1, <2>3 DEF Receives
  <2> QED BY Zenon, <1>1, <2>2, <2>4
<1>6. k.peer # <<b, 0>>
  BY <1>1, <1>2, AcceptedPeer
<1> QED BY Zenon, <1>1, <1>2, <1>3, <1>5, <1>6 DEF PeerOK

LEMMA FirstOnly ==
  ASSUME NEW l \in Seq(Entry), NEW m, NEW s, NEW x, FirstIn(l, m, s), FirstIn(l, m, x)
  PROVE  s = x
<1>1. PICK i \in 1..Len(l) : l[i] = Net!Other(m, s) /\ \A j \in 1..(i - 1) : l[j].id # m
  BY DEF FirstIn
<1>2. PICK k \in 1..Len(l) : l[k] = Net!Other(m, x) /\ \A j \in 1..(k - 1) : l[j].id # m
  BY DEF FirstIn
<1>3. l[i].id = m /\ l[i].s = s /\ l[k].id = m /\ l[k].s = x
  BY <1>1, <1>2 DEF Net!Other
<1>4. i \in Nat /\ k \in Nat /\ i > 0 /\ k > 0
  OBVIOUS
<1>5. i < k => i \in 1..(k - 1)
  BY <1>4
<1>6. k < i => k \in 1..(i - 1)
  BY <1>4
<1>7. i = k
  BY <1>1, <1>2, <1>3, <1>4, <1>5, <1>6
<1> QED BY <1>3, <1>7

LEMMA OneSocket ==
  ASSUME Net!ConstantsOK, NetInv, NEW a \in Nodes, NEW b \in Nodes, FlowOK(a, b), a \in alive, NEW y \in Ports,
         fd[b][y] # None, From(fd[b][y]) = a, HasMessage(fd[b][y].in)
  PROVE  \E x \in Ports : /\ fd[b][y].peer = <<a, x>> /\ fd[a][x].peer = <<b, y>> /\ FirstIn(others[a], b, x)
                          /\ fd[b][y].peer[2] = x /\ fd[b][y].peer[1] = a /\ b \in alive
<1>1. PICK k : k = fd[b][y]
  OBVIOUS
<1>2. b \in alive /\ PeerOK(fd, alive, b, y, k)
  BY <1>1 DEF NetInv, Linked, SocketsOK
<1>3. k.in # <<>>
  BY <1>1 DEF HasMessage
<1>4. PICK x \in Ports : k.peer = <<a, x>> /\ fd[a][x].peer = <<b, y>>
  BY <1>1, <1>2, <1>3 DEF PeerOK
<1>5. k.peer[2] = x /\ k.peer[1] = a
  BY <1>4
<1>6. FirstIn(others[a], b, x)
  <2>1. ComingOK(fd, alive, others[a], Below(sent[a][b], alive, waits[a], a, b), got[b][a], a, b, y)
    BY DEF FlowOK, OrderOK
  <2>2. PICK i \in 1..Len(fd[b][y].in) : IsMessage(fd[b][y].in[i])
    BY DEF HasMessage
  <2>3. FirstIn(others[a], b, fd[b][y].peer[2])
    BY <2>1, <2>2 DEF ComingOK
  <2> QED BY <1>1, <1>5, <2>3
<1> QED BY <1>1, <1>2, <1>4, <1>5, <1>6

(* What a node writes to a connection goes to the one socket that may have *)
(* more of its messages.                                                   *)
LEMMA FlowGrows ==
  ASSUME Net!ConstantsOK, NetInv, NetTyped', alive' = alive, NEW a \in Nodes, NEW b \in Nodes, FlowOK(a, b), a \in alive,
         NEW s \in Ports, NEW g \in Ports, fd[a][s].peer = <<b, g>>, fd[b][g] # None, fd[b][g].peer = <<a, s>>, From(fd[b][g]) = a,
         \A x \in Ports : FirstIn(others[a], b, x) => x = s,
         FirstIn(others'[a], b, s), got'[b][a] = got[b][a],
         NEW c \in Nat, c \in Below(sent'[a][b], alive, waits'[a], a, b),
         \A d \in Below(sent[a][b], alive, waits[a], a, b) : d < c,
         Below(sent[a][b], alive, waits[a], a, b) \subseteq Below(sent'[a][b], alive, waits'[a], a, b),
         fd'[b][g] # None, fd'[b][g].in = Append(fd[b][g].in, Net!Message(c)), fd'[b][g].peer = fd[b][g].peer, From(fd'[b][g]) = a,
         \A y \in Ports : y # g => fd'[b][y] = fd[b][y]
  PROVE  FlowOK(a, b)'
<1>1. PICK F, G, A, l, u, D, E, z :
        /\ F = fd /\ G = fd' /\ A = alive /\ l = others[a] /\ u = others'[a]
        /\ D = Below(sent[a][b], alive, waits[a], a, b) /\ E = Below(sent'[a][b], alive, waits'[a], a, b)
        /\ z = got[b][a]
  OBVIOUS
<1>2. \A y \in Ports : fd[b][y] # None /\ From(fd[b][y]) = a /\ HasMessage(fd[b][y].in) => y = g
  <2> SUFFICES ASSUME NEW y \in Ports, fd[b][y] # None, From(fd[b][y]) = a, HasMessage(fd[b][y].in)
               PROVE  y = g
    OBVIOUS
  <2>1. PICK x \in Ports : fd[a][x].peer = <<b, y>> /\ FirstIn(others[a], b, x)
    BY OneSocket
  <2>2. x = s
    BY <2>1
  <2> QED BY <2>1, <2>2
<1>3. /\ F \in Fds /\ G \in Fds /\ D \in SUBSET Nat /\ D \subseteq E /\ OrderOK(F, A, l, D, z, a, b)
      /\ F[b][g] # None /\ From(F[b][g]) = a
      /\ \A y \in Ports : F[b][y] # None /\ From(F[b][y]) = a /\ HasMessage(F[b][y].in) => y = g
      /\ c \in E /\ \A d \in D : d < c
  <2>1. F \in Fds /\ G \in Fds
    BY <1>1 DEF NetInv, NetTyped
  <2>2. D \in SUBSET Nat
    BY <1>1 DEF Below
  <2>3. OrderOK(F, A, l, D, z, a, b)
    BY <1>1 DEF FlowOK
  <2> QED BY <1>1, <1>2, <2>1, <2>2, <2>3
<1>4. /\ A = A /\ (a \in A => FirstIn(u, b, F[b][g].peer[2]))
      /\ G[b][g] # None /\ From(G[b][g]) = a /\ G[b][g].peer = F[b][g].peer
      /\ G[b][g].in = Append(F[b][g].in, Net!Message(c))
      /\ \A y \in Ports : y # g => G[b][y] = F[b][y]
  <2>1. fd[b][g].peer[2] = s
    OBVIOUS
  <2> QED BY <1>1, <2>1
<1>5. OrderOK(G, A, u, E, z, a, b)
  BY ONLY ZenonT(60), <1>3, <1>4, b \in Nodes, g \in Ports, c \in Nat, MoreOK
<1> QED BY <1>1, <1>5 DEF FlowOK

(* A message is counted, and goes nowhere. *)
LEMMA CountedOnly ==
  ASSUME Net!ConstantsOK, NetInv, NEW n \in Nodes, NEW m \in Nodes, sent' = [sent EXCEPT ![n][m] = @ + 1], waits[n] = None
  PROVE  /\ sent' \in [Nodes -> [Nodes -> Nat]] /\ sent'[n][m] = sent[n][m] + 1 /\ sent[n][m] \in Nat /\ sent'[n][m] \in Nat
         /\ \A x, y \in Nodes : x # n \/ y # m => sent'[x][y] = sent[x][y]
         /\ \A x, y \in Nodes : Below(sent[x][y], alive, waits[x], x, y) \subseteq Below(sent'[x][y], alive, waits[x], x, y)
<1>1. sent \in [Nodes -> [Nodes -> Nat]]
  BY DEF NetInv, NetTyped
<1>2. sent[n] \in [Nodes -> Nat] /\ sent[n][m] \in Nat /\ sent[n][m] + 1 \in Nat
  BY <1>1
<1>3. sent' = [sent EXCEPT ![n] = [sent[n] EXCEPT ![m] = sent[n][m] + 1]]
  OBVIOUS
<1>4. /\ sent' \in [Nodes -> [Nodes -> Nat]] /\ sent'[n][m] = sent[n][m] + 1
      /\ \A x, y \in Nodes : x # n \/ y # m => sent'[x][y] = sent[x][y]
  BY <1>1, <1>2, <1>3
<1>5. ASSUME NEW x \in Nodes, NEW y \in Nodes
      PROVE  Below(sent[x][y], alive, waits[x], x, y) \subseteq Below(sent'[x][y], alive, waits[x], x, y)
  <2>1. CASE x = n /\ y = m
    <3>1. ~Conn(waits[x])
      BY <2>1 DEF Conn
    <3> QED BY <1>2, <1>4, <2>1, <3>1 DEF Below
  <2>2. CASE ~(x = n /\ y = m)
    BY <1>4, <2>2
  <2> QED BY <2>1, <2>2
<1> QED BY <1>2, <1>4, <1>5

LEMMA DSendKeeps ==
  ASSUME Net!ConstantsOK, NetInv, NEW n \in Nodes, NEW m \in Nodes, <<n, m>> \in Flows, Net!DSend(n, m)
  PROVE  NetInv'
<1>0. NetTyped /\ Linked /\ Ordered /\ n # m
  <2>1. <<n, m>>[1] # <<n, m>>[2]
    BY TypedIs DEF NetInv
  <2> QED BY <2>1 DEF NetInv
<1>1. /\ Net!Free(n) /\ sent' = [sent EXCEPT ![n][m] = @ + 1]
      /\ UNCHANGED <<alive, got, forgotten>>
  BY DEF Net!DSend, Net!Send
<1>2. /\ n \in alive /\ waits[n] = None
      /\ TableOK(fd[n], others[n], None, alive, forgotten, n) /\ CacheOK(cache[n], others[n], None)
      /\ \A h \in Ports : fd[n][h] # None => fd[n][h].handler # "none"
      /\ \A i \in 1..Len(others[n]) : EntryOK(fd[n], others[n][i])
  BY <1>1, FreeIs
<1>3. /\ sent' \in [Nodes -> [Nodes -> Nat]] /\ sent'[n][m] = sent[n][m] + 1 /\ sent[n][m] \in Nat /\ sent'[n][m] \in Nat
      /\ \A x, y \in Nodes : x # n \/ y # m => sent'[x][y] = sent[x][y]
      /\ \A x, y \in Nodes : Below(sent[x][y], alive, waits[x], x, y) \subseteq Below(sent'[x][y], alive, waits[x], x, y)
  BY <1>1, <1>2, CountedOnly
<1>4. PICK o, c : o = Net!FindSocket(n, m) /\ c = sent'[n][m]
  OBVIOUS
<1>5. ASSUME o # None, cache' = [cache EXCEPT ![n] = o], fd' = Net!Written(n, o.s, Net!Message(c)),
             UNCHANGED <<backlog, others, waits>>
      PROVE  NetInv'
  <2>1. o \in Entry /\ o = Net!Other(m, o.s) /\ FirstIn(others[n], m, o.s) /\ o.s \in Ports /\ o.id = m
    <3>1. o \in Entry /\ o = Net!Other(m, o.s) /\ FirstIn(others[n], m, o.s)
      BY <1>1, <1>4, <1>5, FoundIs
    <3> QED BY <3>1 DEF Entry, Net!Entries, Net!Other, Ports
  <2>2. PICK s, k : s = o.s /\ k = fd[n][s]
    OBVIOUS
  <2>3. k # None /\ From(k) = m /\ k.handler # "none" /\ s \in Ports
    <3>1. PICK i \in 1..Len(others[n]) : others[n][i] = Net!Other(m, s)
      BY <2>1, <2>2 DEF FirstIn
    <3>2. others[n][i].id = m /\ others[n][i].s = s /\ m # None
      BY <3>1, ClosedIs DEF Net!Other
    <3>3. EntryOK(fd[n], others[n][i])
      BY <1>2
    <3>4. k # None /\ k.handler # "stage2" /\ k.ri = m
      BY <2>2, <3>2, <3>3 DEF EntryOK
    <3> QED BY <1>2, <2>1, <2>2, <3>4 DEF From
  <2>4. /\ cache' \in [Nodes -> Entry \cup {None}] /\ cache'[n] = o
        /\ \A x \in Nodes : x # n => cache'[x] = cache[x]
    BY <1>0, <1>5, <2>1 DEF NetTyped
  <2>5. CacheOK(o, others[n], None)
    <3>1. ~Conn(None)
      BY DEF Conn
    <3> QED BY <2>1, <3>1 DEF CacheOK
  <2>6. \/ k.peer = Net!Closed /\ m \notin alive /\ fd' = fd
        \/ \E g \in Ports : Receives(fd, fd', alive, n, s, m, g, c)
    <3>1. fd \in Fds /\ SocketsOK(fd, alive)
      BY <1>0 DEF NetTyped, Linked
    <3>2. \/ fd[n][s].peer = Net!Closed /\ From(fd[n][s]) \notin alive
          \/ \E g \in Ports :
               Receives(fd, [fd EXCEPT ![fd[n][s].peer[1]][fd[n][s].peer[2]].in = Append(@, Net!Message(c))],
                        alive, n, s, From(fd[n][s]), g, c)
      <4>1. PICK F, A : F = fd /\ A = alive
        OBVIOUS
      <4>2. F \in Fds /\ SocketsOK(F, A) /\ F[n][s] # None /\ (F[n][s].handler # "none" \/ F[n][s].in # <<>>) /\ c \in Nat /\ s \in Ports
        BY <1>3, <1>4, <2>2, <2>3, <3>1, <4>1
      <4>3. \/ F[n][s].peer = Net!Closed /\ From(F[n][s]) \notin A
            \/ \E g \in Ports :
                 Receives(F, [F EXCEPT ![F[n][s].peer[1]][F[n][s].peer[2]].in = Append(@, Net!Message(c))],
                          A, n, s, From(F[n][s]), g, c)
        BY ONLY Zenon, Net!ConstantsOK, n \in Nodes, <4>2, WrittenIs
      <4> QED BY Zenon, <4>1, <4>3
    <3>3. CASE fd[n][s].peer = Net!Closed /\ From(fd[n][s]) \notin alive
      BY <1>5, <2>2, <2>3, <3>3 DEF Net!Written
    <3>4. ASSUME NEW g \in Ports,
                 Receives(fd, [fd EXCEPT ![fd[n][s].peer[1]][fd[n][s].peer[2]].in = Append(@, Net!Message(c))],
                          alive, n, s, From(fd[n][s]), g, c)
          PROVE  Receives(fd, fd', alive, n, s, m, g, c)
      <4>1. fd[n][s].peer = <<m, g>>
        BY Zenon, <2>2, <2>3, <3>4 DEF Receives
      <4>2. fd[n][s].peer # Net!Closed /\ fd[n][s].peer[2] # 0
        BY <4>1, ClosedIs
      <4>3. fd' = [fd EXCEPT ![fd[n][s].peer[1]][fd[n][s].peer[2]].in = Append(@, Net!Message(c))]
        BY Zenon, <1>5, <2>2, <4>2 DEF Net!Written
      <4> QED BY ZenonT(60), <2>2, <2>3, <3>4, <4>3
    <3> QED BY Zenon, <3>2, <3>3, <3>4
  <2>7. /\ fd' \in Fds /\ SocketsOK(fd', alive)
        /\ \A x \in Nodes : SameShape(fd[x], fd'[x])
        /\ \A x \in Nodes, y \in Ports : fd[x][y] # None => fd'[x][y] # None /\ fd'[x][y].peer = fd[x][y].peer
    <3>1. CASE fd' = fd
      BY <1>0, <3>1 DEF NetTyped, Linked, SameShape
    <3>2. ASSUME NEW g \in Ports, Receives(fd, fd', alive, n, s, m, g, c)
          PROVE  /\ fd' \in Fds /\ SocketsOK(fd', alive)
                 /\ \A x \in Nodes : SameShape(fd[x], fd'[x])
                 /\ \A x \in Nodes, y \in Ports : fd[x][y] # None => fd'[x][y] # None /\ fd'[x][y].peer = fd[x][y].peer
      BY <3>2 DEF Receives, SameShape
    <3> QED BY <2>6, <3>1, <3>2
  <2>8. NetTyped'
    BY <1>0, <1>1, <1>3, <1>5, <2>4, <2>7 DEF NetTyped
  <2>9. Linked'
    <3>1. BacklogOK(fd', alive, backlog')
      <4>1. BacklogOK(fd, alive, backlog)
        BY <1>0 DEF Linked
      <4>2. \A y \in Nodes, x \in alive', g \in Ports : fd[x][g] # None /\ fd[x][g].peer = <<y, 0>> =>
               fd'[x][g] # None /\ fd'[x][g].peer = fd[x][g].peer
        BY <1>0, <1>1, <2>7 DEF NetTyped
      <4>3. backlog' = backlog /\ alive' \subseteq alive /\ alive' = alive
        BY <1>1, <1>5
      <4>4. BacklogOK(fd', alive', backlog')
        BY ONLY <1>0, <4>1, <4>2, <4>3, BacklogStays
      <4> QED BY <4>3, <4>4
    <3>2. TableOK(fd'[n], others[n], None, alive, forgotten, n)
      <4>1. PICK r, q, l, A, K : r = fd[n] /\ q = fd'[n] /\ l = others[n] /\ A = alive /\ K = forgotten
        OBVIOUS
      <4>2. SameShape(r, q) /\ TableOK(r, l, None, A, K, n) /\ l \in Seq(Entry) /\ A \in SUBSET A /\ K \subseteq K
        BY <1>0, <1>2, <2>7, <4>1, TypedIs
      <4>3. TableOK(q, l, None, A, K, n)
        BY ONLY Net!ConstantsOK, <4>2, SameTable
      <4> QED BY <4>1, <4>3
    <3>3. SocketsOK(fd', alive) /\ alive' = alive /\ forgotten \subseteq forgotten'
      BY <1>1, <2>7
    <3>4. \A x \in Nodes : x # n => /\ SameShape(fd[x], fd'[x]) /\ others'[x] = others[x]
                                   /\ waits'[x] = waits[x] /\ cache'[x] = cache[x]
      BY <1>5, <2>4, <2>7
    <3>5. n \in alive => /\ TableOK(fd'[n], others'[n], waits'[n], alive, forgotten', n)
                         /\ CacheOK(cache'[n], others'[n], waits'[n])
      BY <1>1, <1>2, <1>5, <2>4, <2>5, <3>2
    <3> QED BY ONLY Net!ConstantsOK, <1>0, <2>8, n \in Nodes, <3>1, <3>3, <3>4, <3>5, NodeChanges
  <2>10. Ordered'
    <3> SUFFICES ASSUME NEW a \in Nodes, NEW b \in Nodes, FlowOK(a, b)
                 PROVE  FlowOK(a, b)'
      BY <1>0, <1>1 DEF Ordered
    <3>1. got'[b][a] = got[b][a] /\ alive' \subseteq alive /\ others' = others /\ alive' = alive
      BY <1>1, <1>5
    <3>2. Below(sent[a][b], alive, waits[a], a, b) \subseteq Below(sent'[a][b], alive', waits'[a], a, b)
      BY <1>1, <1>3, <1>5
    <3>3. ASSUME \A h \in Ports : fd'[b][h] # None /\ From(fd'[b][h]) = a => fd'[b][h] = fd[b][h]
          PROVE  FlowOK(a, b)'
      <4>1. \A h \in Ports : fd'[b][h] # None /\ From(fd'[b][h]) = a /\ HasMessage(fd'[b][h].in) =>
              /\ fd[b][h] # None /\ From(fd[b][h]) = a
              /\ fd'[b][h].in = fd[b][h].in \/ (fd[b][h].in # <<>> /\ fd'[b][h].in = Tail(fd[b][h].in))
              /\ a \in alive' => /\ fd'[b][h].peer = fd[b][h].peer
                                 /\ FirstIn(others[a], b, fd[b][h].peer[2]) => FirstIn(others'[a], b, fd[b][h].peer[2])
        BY <3>1, <3>3
      <4> QED BY ONLY <1>0, <2>8, <3>1, <3>2, <4>1, a \in Nodes, b \in Nodes, FlowOK(a, b), FlowKeeps
    <3>4. CASE fd' = fd
      BY <3>3, <3>4
    <3>5. ASSUME NEW g \in Ports, Receives(fd, fd', alive, n, s, m, g, c)
          PROVE  FlowOK(a, b)'
      <4>1. CASE a = n /\ b = m
        <5>1. /\ fd[a][s].peer = <<b, g>> /\ fd[b][g] # None /\ fd[b][g].peer = <<a, s>> /\ From(fd[b][g]) = a
              /\ fd'[b][g] # None /\ fd'[b][g].in = Append(fd[b][g].in, Net!Message(c))
              /\ fd'[b][g].peer = fd[b][g].peer /\ From(fd'[b][g]) = a
              /\ \A y \in Ports : y # g => fd'[b][y] = fd[b][y]
          BY <3>5, <4>1 DEF Receives
        <5>2. (\A x \in Ports : FirstIn(others[a], b, x) => x = s) /\ FirstIn(others'[a], b, s)
          <6>1. others[a] \in Seq(Entry) /\ FirstIn(others[a], b, s)
            BY <1>0, <2>1, <2>2, <4>1, TypedIs
          <6>2. \A x \in Ports : FirstIn(others[a], b, x) => x = s
            BY ONLY <6>1, FirstOnly
          <6> QED BY <3>1, <6>1, <6>2
        <5>3. /\ c \in Nat /\ c \in Below(sent'[a][b], alive, waits'[a], a, b)
              /\ \A d \in Below(sent[a][b], alive, waits[a], a, b) : d < c
          <6>1. waits[a] = None /\ waits' = waits /\ ~Conn(None) /\ c = sent[a][b] + 1 /\ sent[a][b] \in Nat /\ sent'[a][b] = c
            BY <1>2, <1>3, <1>4, <1>5, <4>1 DEF Conn
          <6>2. c \in Below(c, alive, None, a, b)
            BY <6>1 DEF Below
          <6>3. \A d \in Below(sent[a][b], alive, None, a, b) : d < c
            BY <6>1 DEF Below
          <6> QED BY <6>1, <6>2, <6>3
        <5>4. a \in alive /\ s \in Ports
          BY <1>2, <2>3, <4>1
        <5>5. Below(sent[a][b], alive, waits[a], a, b) \subseteq Below(sent'[a][b], alive, waits'[a], a, b)
          BY <3>1, <3>2
        <5> QED BY ONLY ZenonT(60), Net!ConstantsOK, NetInv, <2>8, <3>1, a \in Nodes, b \in Nodes, g \in Ports, FlowOK(a, b),
                        <5>1, <5>2, <5>3, <5>4, <5>5, FlowGrows
      <4>2. CASE ~(a = n /\ b = m)
        <5>1. \A h \in Ports : fd'[b][h] # None /\ From(fd'[b][h]) = a => fd'[b][h] = fd[b][h]
          BY <3>5, <4>2 DEF Receives
        <5> QED BY <3>3, <5>1
      <4> QED BY <4>1, <4>2
    <3> QED BY <2>6, <3>4, <3>5
  <2> QED BY <2>8, <2>9, <2>10 DEF NetInv
<1>6. ASSUME o = None, m \in alive, Net!Open(n) # Net!FDs,
             LET s == Net!Lowest(n)
             IN /\ fd' = [fd EXCEPT ![n][s] = Net!Socket(<<m, 0>>, <<>>, "none", m)]
                /\ backlog' = [backlog EXCEPT ![m] = Append(@, <<n, s>>)]
                /\ others' = [others EXCEPT ![n] = Append(@, Net!Other(m, s))]
                /\ waits' = [waits EXCEPT ![n] = Net!Waiting(s, m, 0)],
             UNCHANGED cache
      PROVE  NetInv'
  <2>1. PICK s : s = Net!Lowest(n)
    OBVIOUS
  <2>2. s \in Ports /\ fd[n][s] = None /\ s # 0
    BY <1>6, <2>1, LowestIs, ClosedIs
  <2>3. /\ fd \in Fds /\ SocketsOK(fd, alive) /\ BacklogOK(fd, alive, backlog)
        /\ \A x \in Nodes : x # n => fd[x] = fd[x]
        /\ \A h \in Ports : fd[n][h] # None => fd[n][h] = fd[n][h]
    BY <1>0 DEF NetTyped, Linked
  <2>4. \A i \in 1..Len(others[n]) :
          IF others[n][i].s = 0 THEN others[n][i].id \notin alive ELSE EntryOK(fd[n], others[n][i])
    <3>1. \A i \in 1..Len(others[n]) : others[n][i].s # 0
      BY <1>0, TypedIs, EntryIs, ClosedIs
    <3> QED BY <1>2, <3>1
  <2>5. /\ fd' = [fd EXCEPT ![n][s] = Net!Socket(<<m, 0>>, <<>>, "none", m)]
        /\ backlog' = [backlog EXCEPT ![m] = Append(@, <<n, s>>)]
        /\ others' = [others EXCEPT ![n] = Append(@, Net!Other(m, s))]
        /\ waits' = [waits EXCEPT ![n] = Net!Waiting(s, m, 0)]
        /\ sent' = [sent EXCEPT ![n][m] = @ + 1]
        /\ forgotten' = IF s = 0 THEN forgotten \cup {<<n, m>>} ELSE forgotten
        /\ UNCHANGED <<cache, alive, got>> /\ Net!FindSocket(n, m) = None
    BY <1>1, <1>4, <1>6, <2>1, <2>2
  <2>6. m \in Nodes \ {n} /\ m \in alive /\ 0 \in 0..MaxFD
    BY <1>0, <1>6, ClosedIs
  <2> QED BY ONLY Net!ConstantsOK, NetInv, n \in Nodes, <1>1, <2>2, <2>3, <2>4, <2>5, <2>6, ConnectKeeps
<1>7. ASSUME UNCHANGED <<fd, backlog, others, cache, waits>>
      PROVE  NetInv'
  <2>1. NetTyped'
    BY <1>0, <1>1, <1>3, <1>7 DEF NetTyped
  <2>2. Linked'
    BY <1>0, <1>1, <1>7 DEF Linked
  <2>3. Ordered'
    <3> SUFFICES ASSUME NEW a \in Nodes, NEW b \in Nodes, FlowOK(a, b)
                 PROVE  FlowOK(a, b)'
      BY <1>0, <1>1 DEF Ordered
    <3>1. got'[b][a] = got[b][a] /\ alive' \subseteq alive
      BY <1>1
    <3>2. Below(sent[a][b], alive, waits[a], a, b) \subseteq Below(sent'[a][b], alive', waits'[a], a, b)
      BY <1>1, <1>3, <1>7
    <3>3. \A h \in Ports : fd'[b][h] # None /\ From(fd'[b][h]) = a /\ HasMessage(fd'[b][h].in) =>
            /\ fd[b][h] # None /\ From(fd[b][h]) = a
            /\ fd'[b][h].in = fd[b][h].in \/ (fd[b][h].in # <<>> /\ fd'[b][h].in = Tail(fd[b][h].in))
            /\ a \in alive' => /\ fd'[b][h].peer = fd[b][h].peer
                               /\ FirstIn(others[a], b, fd[b][h].peer[2]) => FirstIn(others'[a], b, fd[b][h].peer[2])
      BY <1>7
    <3> QED BY ONLY <1>0, <2>1, <3>1, <3>2, <3>3, a \in Nodes, b \in Nodes, FlowOK(a, b), FlowKeeps
  <2> QED BY <2>1, <2>2, <2>3 DEF NetInv
<1> QED BY <1>4, <1>5, <1>6, <1>7 DEF Net!DSend, Net!Send

LEMMA AcceptKeeps ==
  ASSUME Net!ConstantsOK, NetInv, NEW n \in Nodes, Net!Accept(n)
  PROVE  NetInv'
<1>0. NetTyped /\ Linked /\ Ordered
  BY DEF NetInv
<1>1. PICK b, p, a, g, s, e : /\ b = backlog[n] /\ p = Head(b) /\ a = p[1] /\ g = p[2] /\ s = Net!Lowest(n)
                              /\ e = Net!Other(None, s)
  OBVIOUS
<1>2. /\ Net!Free(n) /\ b # <<>> /\ Net!Open(n) # Net!FDs
      /\ backlog' = [backlog EXCEPT ![n] = Tail(@)]
      /\ others' = [others EXCEPT ![n] = Append(@, e)]
      /\ UNCHANGED <<cache, waits, alive, sent, got, forgotten>>
  BY Zenon, <1>1 DEF Net!Accept, Net!Calling
<1>3. /\ n \in alive /\ waits[n] = None
      /\ TableOK(fd[n], others[n], None, alive, forgotten, n) /\ CacheOK(cache[n], others[n], None)
  BY <1>2, FreeIs
<1>4. s \in Ports /\ fd[n][s] = None
  BY SMTT(30), <1>1, <1>2, LowestIs
<1>5. /\ a \in Nodes \ {n} /\ g \in Ports /\ p = <<a, g>> /\ p = Head(backlog[n])
      /\ a \in alive => fd[a][g] # None /\ fd[a][g].peer = <<n, 0>>
  <2>1. b \in Seq(Nodes \X Ports)
    BY <1>0, <1>1, TypedIs
  <2>2. 1 \in 1..Len(b) /\ p = b[1] /\ p \in Nodes \X Ports
    BY <1>1, <1>2, <2>1
  <2>3. p[1] # n /\ (p[1] \in alive => Pending(fd, n, p))
    BY <1>0, <1>1, <2>2 DEF Linked, BacklogOK
  <2> QED BY <1>1, <2>2, <2>3 DEF Pending
<1>6. fd \in Fds /\ SocketsOK(fd, alive) /\ BacklogOK(fd, alive, backlog) /\ backlog \in Backlogs
  BY <1>0 DEF NetTyped, Linked
<1>7. PICK k : k = Net!Socket(Net!Closed, <<Net!Epoch(a)>>, "stage2", None)
  OBVIOUS
(* In both cases: only sockets without a message change. *)
<1>8. /\ fd' \in Fds /\ SocketsOK(fd', alive) /\ fd'[n][s] # None /\ fd'[n][s].handler = "stage2"
      /\ \A x \in Nodes, y \in Ports : ~(x = n /\ y = s) /\ ~(a \in alive /\ x = a /\ y = g) => fd'[x][y] = fd[x][y]
      /\ \A x \in Nodes : x # n => SameShape(fd[x], fd'[x])
      /\ ~HasMessage(fd'[n][s].in) /\ (a \in alive => ~HasMessage(fd'[a][g].in))
  <2>1. CASE a \notin alive
    <3>1. fd' = [fd EXCEPT ![n][s] = k]
      BY <1>1, <1>7, <2>1 DEF Net!Accept
    <3>2. Net!Closed \in (Nodes \X (0..MaxFD)) \cup {Net!Closed} /\ a \in Nodes
      BY <1>5
    <3>3. k \in Net!Sockets /\ k.in = <<Net!Epoch(a)>> /\ k.handler = "stage2"
      BY <1>7, <3>2, Stage2Is
    <3>4. fd' = Put(fd, n, s, k) /\ k \in Net!Sockets \cup {None}
      BY <3>1, <3>3 DEF Put
    <3>5. /\ fd' \in Fds /\ fd'[n][s] = k
          /\ \A x \in Nodes, y \in Ports : x # n \/ y # s => fd'[x][y] = fd[x][y]
          /\ \A x \in Nodes : x # n => fd'[x] = fd[x]
      BY ONLY <1>4, <1>6, <3>4, n \in Nodes, PutIs
    <3>6. SocketsOK(fd', alive)
      <4>1. PICK F, A : F = fd /\ A = alive
        OBVIOUS
      <4>2. F \in Fds /\ SocketsOK(F, A) /\ F[n][s] = None /\ n \in A /\ s \in Ports /\ a \in Nodes \ {n} /\ a \notin A
        BY <1>3, <1>4, <1>5, <1>6, <2>1, <4>1
      <4>3. SocketsOK(Put(F, n, s, Net!Socket(Net!Closed, <<Net!Epoch(a)>>, "stage2", None)), A)
        BY ONLY Net!ConstantsOK, n \in Nodes, <4>2, AcceptingClosedOK
      <4> QED BY <1>7, <3>4, <4>1, <4>3
    <3>7. ~HasMessage(k.in)
      <4>1. PICK ep : ep = Net!Epoch(a)
        OBVIOUS
      <4>2. k.in = <<ep>> /\ ~IsMessage(ep)
        BY <1>5, <3>3, <4>1, EpochIs
      <4> QED BY <4>2 DEF HasMessage
    <3>8. k # None /\ \A x \in Nodes : x # n => SameShape(fd[x], fd'[x])
      BY <3>3, <3>5, ClosedIs DEF SameShape
    <3> QED BY <2>1, <3>3, <3>5, <3>6, <3>7, <3>8
  <2>2. CASE a \in alive
    <3>1. fd[a][g] # None /\ fd[a][g].peer = <<n, 0>>
      BY <1>5, <2>2
    <3>2. PICK F, A, q, G : F = fd /\ A = alive /\ q = F[a][g] /\ G = Accepted(F, n, s, <<a, g>>)
      OBVIOUS
    <3>3. /\ F \in Fds /\ SocketsOK(F, A) /\ F[n][s] = None /\ n \in A /\ s \in Ports /\ a \in Nodes \ {n} /\ g \in Ports
          /\ F[a][g] # None /\ F[a][g].peer = <<n, 0>> /\ G = Accepted(F, n, s, <<a, g>>)
      BY <1>3, <1>4, <1>5, <1>6, <3>1, <3>2
    <3>4. /\ SocketsOK(G, A) /\ G \in Fds /\ F[a][g].handler = "none" /\ F[a][g].ri = n
          /\ G[n][s] \in Net!Sockets /\ G[a][g] \in Net!Sockets /\ G[a][g].handler = "none"
          /\ G[n][s].handler = "stage2" /\ G[n][s].in = <<Net!Epoch(a)>>
          /\ G[a][g].in = <<Net!Epoch(n)>> /\ G[a][g].ri = n
          /\ \A x \in Nodes, y \in Ports : ~(x = n /\ y = s) /\ ~(x = a /\ y = g) => G[x][y] = F[x][y]
      BY ONLY Net!ConstantsOK, n \in Nodes, <3>3, AcceptingOK
    <3>5. q.handler = "none" /\ q.ri = n
      BY <3>2, <3>4
    <3>6. fd' = G
      <4>1. PICK j, z : /\ j = Net!Socket(p, <<Net!Epoch(a)>>, "stage2", None)
                        /\ z = Net!Socket(<<n, s>>, <<Net!Epoch(n)>>, q.handler, q.ri)
        OBVIOUS
      <4>2. fd' = [fd EXCEPT ![n][s] = j,
                             ![a][g] = Net!Socket(<<n, s>>, <<Net!Epoch(n)>>, @.handler, @.ri)]
        BY Zenon, <1>1, <2>2, <3>1, <4>1 DEF Net!Accept
      <4>3. PICK F1 : F1 = [F EXCEPT ![n][s] = j]
        OBVIOUS
      <4>4. F1[a][g] = q
        BY <3>2, <3>3, <4>3 DEF Fds
      <4>5. fd' = [F EXCEPT ![n][s] = j, ![a][g] = z]
        BY <3>2, <3>3, <4>1, <4>2, <4>4
      <4>6. fd' = [F1 EXCEPT ![a][g] = z]
        BY <4>3, <4>5
      <4>7. G = Put(F1, a, g, Net!Socket(<<n, s>>, <<Net!Epoch(n)>>, "none", n))
        <5>1. <<a, g>>[1] = a /\ <<a, g>>[2] = g
          OBVIOUS
        <5> QED BY <1>5, <3>2, <4>1, <4>3, <5>1 DEF Accepted, Put
      <4> QED BY <3>5, <4>1, <4>6, <4>7 DEF Put
    <3>7. ~HasMessage(G[n][s].in) /\ ~HasMessage(G[a][g].in)
      <4>1. PICK e1, e2 : e1 = Net!Epoch(a) /\ e2 = Net!Epoch(n)
        OBVIOUS
      <4>2. G[n][s].in = <<e1>> /\ G[a][g].in = <<e2>> /\ ~IsMessage(e1) /\ ~IsMessage(e2)
        BY <1>5, <3>4, <4>1, EpochIs
      <4> QED BY <4>2 DEF HasMessage
    <3>8. G[n][s] # None /\ G[a][g] # None
      BY <3>4, ClosedIs
    <3>9. \A x \in Nodes : x # n => SameShape(fd[x], G[x])
      BY <3>1, <3>2, <3>4, <3>8 DEF SameShape
    <3>10. \A x \in Nodes, y \in Ports : ~(x = n /\ y = s) /\ ~(a \in alive /\ x = a /\ y = g) => G[x][y] = fd[x][y]
      BY <2>2, <3>2, <3>4
    <3>11. G \in Fds /\ SocketsOK(G, alive) /\ G[n][s] # None /\ G[n][s].handler = "stage2"
      BY <3>2, <3>4, <3>8
    <3> QED BY ONLY <3>6, <3>7, <3>9, <3>10, <3>11
  <2> QED BY <2>1, <2>2
<1>9. backlog' \in Backlogs /\ BacklogOK(fd', alive, backlog')
  <2>1. PICK F, G, A, B : F = fd /\ G = fd' /\ A = alive /\ B = backlog
    OBVIOUS
  <2>2. /\ B \in Backlogs /\ BacklogOK(F, A, B) /\ B[n] # <<>> /\ s \in Ports /\ F[n][s] = None
        /\ \A x \in Nodes, y \in Ports : /\ ~(x = n /\ y = s)
                                         /\ ~(Head(B[n])[1] \in A /\ x = Head(B[n])[1] /\ y = Head(B[n])[2])
                                         => G[x][y] = F[x][y]
    BY <1>1, <1>2, <1>4, <1>6, <1>8, <2>1
  <2>3. LET c == [B EXCEPT ![n] = Tail(@)]
        IN c \in Backlogs /\ BacklogOK(G, A, c)
    BY ONLY Net!ConstantsOK, n \in Nodes, <2>2, TakenBacklog
  <2> QED BY <1>2, <2>1, <2>3
<1>10. PICK l, t : l = others[n] /\ t = Append(l, e)
  OBVIOUS
<1>11. l \in Seq(Entry) /\ t \in Seq(Entry) /\ \A x, y : FirstIn(l, x, y) => FirstIn(t, x, y)
  <2>1. l \in Seq(Entry) /\ e \in Entry
    BY <1>0, <1>1, <1>4, <1>10, TypedIs, EntryIs
  <2>2. t \in Seq(Entry)
    BY <1>10, <2>1
  <2>3. ASSUME NEW x, NEW y, FirstIn(l, x, y)
        PROVE  FirstIn(t, x, y)
    BY <1>10, <2>1, <2>3, FirstStays
  <2> QED BY <2>1, <2>2, <2>3
<1>12. /\ others' \in [Nodes -> Seq(Entry)] /\ others'[n] = t
       /\ \A x \in Nodes : x # n => others'[x] = others[x]
  BY <1>0, <1>2, <1>10, <1>11 DEF NetTyped
<1>13. NetTyped'
  BY <1>0, <1>2, <1>8, <1>9, <1>12 DEF NetTyped
<1>14. Linked'
  <2>1. TableOK(fd'[n], t, None, alive, forgotten, n) /\ CacheOK(cache[n], t, None)
    <3>1. PICK r, z, c, A, K : r = fd[n] /\ z = fd'[n] /\ c = cache[n] /\ A = alive /\ K = forgotten
      OBVIOUS
    <3>2. None \in Nodes \cup {None} /\ (None # None => z[s].handler = "reader" /\ z[s].ri = None)
      OBVIOUS
    <3>3. /\ TableOK(r, l, None, A, K, n) /\ CacheOK(c, l, None)
          /\ z[s] # None /\ z[s].handler # "none" /\ s \in Ports
          /\ r[s] # None => r[s].handler = "stage2"
          /\ \A y \in Ports : y # s => z[y] = r[y]
      BY <1>3, <1>4, <1>5, <1>8, <1>10, <3>1
    <3>4. TableOK(z, Append(l, Net!Other(None, s)), None, A, K, n) /\ CacheOK(c, Append(l, Net!Other(None, s)), None)
      BY ONLY Net!ConstantsOK, <1>11, <3>2, <3>3, AddedTable
    <3> QED BY <1>1, <1>10, <3>1, <3>4
  <2>2. forgotten \subseteq forgotten'
    BY <1>2
  <2> QED BY <1>0, <1>2, <1>3, <1>8, <1>9, <1>12, <1>13, <2>1, <2>2, NodeChanges
<1>15. Ordered'
  <2> SUFFICES ASSUME NEW x \in Nodes, NEW y \in Nodes, FlowOK(x, y)
               PROVE  FlowOK(x, y)'
    BY <1>0, <1>2 DEF Ordered
  <2>1. ASSUME NEW h \in Ports, fd'[y][h] # None, HasMessage(fd'[y][h].in)
        PROVE  fd'[y][h] = fd[y][h]
    BY <1>8, <2>1
  <2>2. \A z : FirstIn(others[x], y, z) => FirstIn(others'[x], y, z)
    BY <1>10, <1>11, <1>12
  <2> QED BY <1>0, <1>2, <1>13, <2>1, <2>2, FlowKeeps
<1> QED BY <1>13, <1>14, <1>15 DEF NetInv

(* The end of an exchange of epochs: the new entry is the last, the first  *)
(* of its node, and the removed ones are not those of nodes that run.      *)
LEMMA LastIs ==
  ASSUME Net!ConstantsOK, NEW l \in Seq(Entry), NEW w, NEW A, NEW K, NEW n, LastOK(l, w, A, K, n)
  PROVE  /\ \A x : FirstIn(l, w.id, x) => x = w.s
         /\ w.nuke # w.s => FirstIn(Finally(l, w.nuke), w.id, w.s)
         /\ \A b \in A : \A x : b # w.id /\ FirstIn(l, b, x) =>
              FirstIn(Finally(l, w.nuke), b, x) /\ FirstIn(Finally(Net!Front(l), w.nuke), b, x)
<1>1. PICK m, s, nuke : m = w.id /\ s = w.s /\ nuke = w.nuke
  OBVIOUS
<1>2. PICK z : z = Len(l)
  OBVIOUS
<1>3. /\ l # <<>> /\ l[z] = Net!Other(m, s)
      /\ \A i \in 1..(z - 1) : l[i].id # m /\ (l[i].s = nuke => l[i].id \notin A)
  BY <1>1, <1>2 DEF LastOK
<1>4. z \in Nat /\ z \in 1..z /\ \A i \in 1..z : i = z \/ i \in 1..(z - 1)
  BY <1>2, <1>3
<1>5. \A x, y : Net!Other(x, y).id = x /\ Net!Other(x, y).s = y
  BY DEF Net!Other
<1>6. ASSUME NEW x, FirstIn(l, m, x)
      PROVE  x = s
  <2>1. PICK i \in 1..z : l[i] = Net!Other(m, x)
    BY <1>2, <1>6 DEF FirstIn
  <2>2. l[i].id = m /\ l[i].s = x
    BY <1>5, <2>1
  <2>3. i = z
    BY <1>3, <1>4, <2>2
  <2> QED BY <1>3, <1>5, <2>2, <2>3
<1>7. FirstIn(l, m, s)
  BY <1>2, <1>3, <1>4 DEF FirstIn
<1>8. PICK u : u = Net!Front(l)
  OBVIOUS
<1>9. u \in Seq(Entry)
  BY <1>3, <1>8, FrontIs
<1>10. \A x, y : FirstIn(l, x, y) /\ y # nuke => FirstIn(Finally(l, nuke), x, y)
  BY FinallyIs
<1>11. \A x, y : FirstIn(u, x, y) /\ y # nuke => FirstIn(Finally(u, nuke), x, y)
  BY ONLY <1>9, Net!ConstantsOK, FinallyIs
<1>12. ASSUME NEW b \in A, NEW x, b # m, FirstIn(l, b, x)
       PROVE  FirstIn(Finally(l, nuke), b, x) /\ FirstIn(Finally(u, nuke), b, x)
  <2>1. PICK i \in 1..z : l[i] = Net!Other(b, x)
    BY <1>2, <1>12 DEF FirstIn
  <2>2. l[i].id = b /\ l[i].s = x
    BY <1>5, <2>1
  <2>3. i \in 1..(z - 1)
    BY <1>3, <1>4, <1>5, <1>12, <2>2
  <2>4. x # nuke
    BY <1>3, <2>2, <2>3
  <2>5. l[Len(l)].id # b
    BY <1>2, <1>3, <1>5, <1>12
  <2>6. FirstIn(u, b, x)
    BY <1>8, <1>12, <2>5, FirstStays
  <2> QED BY <1>10, <1>11, <1>12, <2>4, <2>6
<1> QED BY <1>1, <1>6, <1>7, <1>8, <1>10, <1>12

LEMMA ExchangingIs ==
  ASSUME Net!ConstantsOK, NetInv, NEW n \in alive, NEW w, w = waits[n], Conn(w), NEW k, k = fd[n][w.s]
  PROVE  /\ n \in Nodes /\ w.s \in Ports /\ w.id \in Nodes \ {n} /\ k \in Net!Sockets
         /\ k # None /\ k.handler = "none" /\ k.ri = w.id /\ From(k) = w.id
         /\ DataOK(k) /\ PeerOK(fd, alive, n, w.s, k)
         /\ TableOK(fd[n], others[n], w, alive, forgotten, n) /\ CacheOK(cache[n], others[n], w)
         /\ LastOK(others[n], w, alive, forgotten, n)
<1>1. NetTyped /\ Linked /\ n \in Nodes
  BY DEF NetInv, NetTyped
<1>2. TableOK(fd[n], others[n], w, alive, forgotten, n) /\ CacheOK(cache[n], others[n], w)
  BY <1>1 DEF Linked
<1>3. w.s \in Ports /\ w.id \in Nodes /\ k # None /\ k.handler = "none" /\ k.ri = w.id
  BY <1>2 DEF TableOK, WaitOK
<1>4. From(k) = w.id
  BY <1>3 DEF From
<1>5. DataOK(k) /\ PeerOK(fd, alive, n, w.s, k)
  BY <1>1, <1>3 DEF Linked, SocketsOK
<1>6. w.id # n
  BY Zenon, <1>4, <1>5 DEF PeerOK
<1>7. k \in Net!Sockets
  BY <1>1, <1>3, TypedIs
<1> QED BY <1>1, <1>2, <1>3, <1>4, <1>5, <1>6, <1>7 DEF TableOK

LEMMA RefusedKeeps ==
  ASSUME Net!ConstantsOK, NetInv, NEW n \in alive, Conn(waits[n]),
         fd[n][waits[n].s].in = <<>>, fd[n][waits[n].s].peer = Net!Closed,
         fd' = Net!Shut(fd, n, waits[n].s),
         others' = [others EXCEPT ![n] = Finally(Net!Front(others[n]), waits[n].nuke)],
         cache' = IF waits[n].nuke = 0 THEN cache ELSE [cache EXCEPT ![n] = None],
         waits' = [waits EXCEPT ![n] = None],
         UNCHANGED <<backlog, alive, sent, got, forgotten>>
  PROVE  NetInv'
<1>0. NetTyped /\ Linked /\ Ordered
  BY DEF NetInv
<1>1. PICK w, k, l, c, z : /\ w = waits[n] /\ k = fd[n][w.s] /\ l = others[n] /\ c = cache[n]
                           /\ z = IF w.nuke = 0 THEN c ELSE None
  OBVIOUS
<1>2. /\ n \in Nodes /\ w.s \in Ports /\ w.id \in Nodes \ {n} /\ k # None /\ From(k) = w.id
      /\ TableOK(fd[n], l, w, alive, forgotten, n) /\ CacheOK(c, l, w)
      /\ LastOK(l, w, alive, forgotten, n) /\ Conn(w)
  BY <1>1, ExchangingIs
<1>3. PICK s : s = w.s
  OBVIOUS
<1>4. /\ fd' \in Fds /\ fd'[n][s] = None
      /\ \A x \in Nodes, y \in Ports : x # n \/ y # s => fd'[x][y] = fd[x][y]
      /\ \A x \in Nodes : x # n => fd'[x] = fd[x]
      /\ SocketsOK(fd', alive) /\ BacklogOK(fd', alive, backlog) /\ w.id \notin alive
  BY <1>1, <1>2, <1>3, ClosedKeeps
<1>5. PICK u, t : u = Net!Front(l) /\ t = Finally(u, w.nuke)
  OBVIOUS
<1>6. l \in Seq(Entry) /\ u \in Seq(Entry) /\ t \in Seq(Entry)
  <2>1. l \in Seq(Entry) /\ l # <<>>
    BY <1>0, <1>1, <1>2, TypedIs DEF LastOK
  <2>2. u \in Seq(Entry)
    BY <1>5, <2>1, FrontIs
  <2> QED BY <1>5, <2>1, <2>2, FinallyIs
<1>7. /\ others' \in [Nodes -> Seq(Entry)] /\ others'[n] = t
      /\ \A x \in Nodes : x # n => others'[x] = others[x]
  BY <1>0, <1>1, <1>2, <1>5, <1>6 DEF NetTyped
<1>8. /\ cache' \in [Nodes -> Entry \cup {None}] /\ cache'[n] = z
      /\ \A x \in Nodes : x # n => cache'[x] = cache[x]
  BY <1>0, <1>1, <1>2 DEF NetTyped
<1>9. /\ waits' \in [Nodes -> Net!Calls \cup {None}] /\ waits'[n] = None
      /\ \A x \in Nodes : x # n => waits'[x] = waits[x]
  BY <1>0, <1>2 DEF NetTyped
<1>10. NetTyped'
  BY <1>0, <1>4, <1>7, <1>8, <1>9 DEF NetTyped
<1>11. Linked'
  <2>1. TableOK(fd'[n], t, None, alive, forgotten, n) /\ CacheOK(z, t, None)
    <3>1. PICK r, q, A, K : r = fd[n] /\ q = fd'[n] /\ A = alive /\ K = forgotten
      OBVIOUS
    <3>2. /\ TableOK(r, l, w, A, K, n) /\ Conn(w) /\ CacheOK(c, l, w) /\ l \in Seq(Entry) /\ c \in Entry \cup {None}
          /\ q[w.s] = None /\ \A f \in Ports : f # w.s => q[f] = r[f]
      BY <1>0, <1>1, <1>2, <1>3, <1>4, <1>6, <3>1, TypedIs
    <3>3. /\ TableOK(q, Finally(Net!Front(l), w.nuke), None, A, K, n)
          /\ w.nuke = 0 => CacheOK(c, Finally(Net!Front(l), w.nuke), None)
          /\ CacheOK(None, Finally(Net!Front(l), w.nuke), None)
      BY ONLY Net!ConstantsOK, <3>2, RefusedTable
    <3> QED BY <1>1, <1>5, <3>1, <3>3
  <2>2. \A x \in Nodes : x # n => SameShape(fd[x], fd'[x])
    BY <1>4 DEF SameShape
  <2>3. alive' = alive /\ backlog' = backlog /\ forgotten' = forgotten /\ forgotten \subseteq forgotten'
    OBVIOUS
  <2> QED BY <1>0, <1>2, <1>4, <1>7, <1>8, <1>9, <1>10, <2>1, <2>2, <2>3, NodeChanges
<1>12. Ordered'
  <2> SUFFICES ASSUME NEW a \in Nodes, NEW b \in Nodes, FlowOK(a, b)
               PROVE  FlowOK(a, b)'
    BY <1>0 DEF Ordered
  <2>1. ASSUME NEW h \in Ports, fd'[b][h] # None
        PROVE  fd'[b][h] = fd[b][h] /\ b \in alive
    <3>1. ~(b = n /\ h = s)
      BY <1>4, <2>1
    <3>2. fd'[b][h] = fd[b][h]
      BY <1>4, <3>1
    <3>3. b \in alive
      BY <1>4, <2>1 DEF SocketsOK
    <3> QED BY <3>2, <3>3
  <2>2. ASSUME b \in alive, NEW x, FirstIn(others[a], b, x)
        PROVE  FirstIn(others'[a], b, x)
    <3>1. CASE a = n
      <4>1. FirstIn(l, b, x) /\ b # w.id /\ l \in Seq(Entry) /\ LastOK(l, w, alive, forgotten, n)
        BY <1>1, <1>2, <1>4, <1>6, <2>2, <3>1
      <4>2. PICK A, K : A = alive /\ K = forgotten
        OBVIOUS
      <4>3. LastOK(l, w, A, K, n)
        BY <4>1, <4>2
      <4>4. \A y \in A : \A v : y # w.id /\ FirstIn(l, y, v) => FirstIn(Finally(Net!Front(l), w.nuke), y, v)
        BY ONLY <4>1, <4>3, Net!ConstantsOK, LastIs
      <4> QED BY <1>5, <1>7, <2>2, <3>1, <4>1, <4>2, <4>4
    <3>2. CASE a # n
      BY <1>7, <2>2, <3>2
    <3> QED BY <3>1, <3>2
  <2>3. Below(sent[a][b], alive, waits[a], a, b) \subseteq Below(sent'[a][b], alive', waits'[a], a, b)
    <3>1. CASE a = n
      <4>1. ~Conn(waits'[a])
        BY <1>9, <3>1 DEF Conn
      <4> QED BY <4>1 DEF Below
    <3>2. CASE a # n
      BY <1>9, <3>2
    <3> QED BY <3>1, <3>2
  <2>4. got'[b][a] = got[b][a] /\ alive' \subseteq alive
    OBVIOUS
  <2>5. \A h \in Ports : fd'[b][h] # None /\ From(fd'[b][h]) = a /\ HasMessage(fd'[b][h].in) =>
          /\ fd[b][h] # None /\ From(fd[b][h]) = a
          /\ fd'[b][h].in = fd[b][h].in \/ (fd[b][h].in # <<>> /\ fd'[b][h].in = Tail(fd[b][h].in))
          /\ a \in alive' => /\ fd'[b][h].peer = fd[b][h].peer
                             /\ FirstIn(others[a], b, fd[b][h].peer[2]) => FirstIn(others'[a], b, fd[b][h].peer[2])
    BY <2>1, <2>2
  <2> QED BY ONLY <1>0, <1>10, <2>3, <2>4, <2>5, a \in Nodes, b \in Nodes, FlowOK(a, b), FlowKeeps
<1> QED BY <1>10, <1>11, <1>12 DEF NetInv

LEMMA ConnectedKeeps ==
  ASSUME Net!ConstantsOK, NetInv, NEW n \in Nodes, Net!Exchanged(n), fd[n][waits[n].s].in # <<>>
  PROVE  NetInv'
<1>0. NetTyped /\ Linked /\ Ordered
  BY DEF NetInv
<1>1. PICK w, k, l, z, m, s, c, f1 :
        /\ w = waits[n] /\ k = fd[n][w.s] /\ l = others[n] /\ m = w.id /\ s = w.s /\ c = sent[n][m]
        /\ z = IF w.nuke = 0 THEN Net!Other(m, s) ELSE None
        /\ f1 = Put(fd, n, s, Net!Socket(k.peer, Tail(k.in), "reader", k.ri))
  OBVIOUS
<1>2. /\ n \in alive /\ Conn(w) /\ waits' = [waits EXCEPT ![n] = None]
      /\ UNCHANGED <<backlog, alive, sent, got, forgotten>> /\ k.in # <<>>
  BY ZenonT(60), <1>1 DEF Net!Exchanged, Conn
<1>3. fd' = IF k.peer = Net!Closed THEN f1
             ELSE [f1 EXCEPT ![k.peer[1]][k.peer[2]].in = Append(@, Net!Message(c))]
  BY ZenonT(60), <1>1, <1>2 DEF Net!Exchanged, Put
<1>4. others' = [others EXCEPT ![n] = Finally(l, w.nuke)] /\ cache' = [cache EXCEPT ![n] = z]
  BY ZenonT(60), <1>1, <1>2 DEF Net!Exchanged, Finally
<1>5. /\ s \in Ports /\ m \in Nodes \ {n} /\ k \in Net!Sockets
      /\ k # None /\ k.handler = "none" /\ k.ri = m /\ From(k) = m
      /\ DataOK(k) /\ PeerOK(fd, alive, n, s, k)
      /\ TableOK(fd[n], l, w, alive, forgotten, n)
      /\ LastOK(l, w, alive, forgotten, n)
  BY <1>1, <1>2, ExchangingIs
<1>6. PICK q : q = Net!Socket(k.peer, Tail(k.in), "reader", k.ri)
  OBVIOUS
<1>7. q \in Net!Sockets /\ q.peer = k.peer /\ q.in = Tail(k.in) /\ q.handler = "reader" /\ q.ri = m
  <2>1. PICK i, h : i = Tail(k.in) /\ h = "reader"
    OBVIOUS
  <2>2. k.in \in Seq(Net!Data)
    BY <1>5, SocketIs
  <2>3. /\ i \in Seq(Net!Data) /\ h \in {"none", "stage2", "reader"} /\ m \in Nodes \cup {None}
        /\ q = Net!Socket(k.peer, i, h, m)
    BY <1>5, <1>6, <1>2, <2>1, <2>2
  <2>4. q \in Net!Sockets /\ q.peer = k.peer /\ q.in = i /\ q.handler = h /\ q.ri = m
    BY <1>5, <2>3, ChangedIs
  <2> QED BY <2>1, <2>4
<1>8. q # None /\ From(q) = m /\ DataOK(q) /\ k.peer # <<From(k), 0>>
  <2>1. q # None /\ From(q) = m
    BY <1>7, ClosedIs DEF From
  <2>2. DataOK(q)
    BY <1>5, <1>7, <1>2, TailOK
  <2>3. k.peer # <<From(k), 0>>
    BY <1>5, <1>2, AcceptedPeer
  <2> QED BY <2>1, <2>2, <2>3
<1>9. fd \in Fds /\ SocketsOK(fd, alive) /\ f1 = Put(fd, n, s, q)
  BY <1>0, <1>1, <1>6 DEF NetTyped, Linked
<1>10. /\ f1 \in Fds /\ f1[n][s] = q
       /\ \A x \in Nodes, y \in Ports : x # n \/ y # s => f1[x][y] = fd[x][y]
       /\ \A x \in Nodes : x # n => f1[x] = fd[x]
  <2>1. q \in Net!Sockets \cup {None} /\ n \in Nodes /\ s \in Ports
    BY SMTT(30), <1>5, <1>7
  <2> QED BY ONLY <1>9, <2>1, PutIs
<1>11. SocketsOK(f1, alive)
  BY <1>1, <1>5, <1>7, <1>8, <1>9, ReplacedOK
<1>12. \/ q.peer = Net!Closed /\ m \notin alive /\ fd' = f1
       \/ \E g \in Ports : Receives(f1, fd', alive, n, s, m, g, c)
  <2>1. c \in Nat
    BY <1>0, <1>1, <1>5, TypedIs
  <2>2. \/ f1[n][s].peer = Net!Closed /\ From(f1[n][s]) \notin alive
        \/ \E g \in Ports :
             Receives(f1, [f1 EXCEPT ![f1[n][s].peer[1]][f1[n][s].peer[2]].in = Append(@, Net!Message(c))],
                      alive, n, s, From(f1[n][s]), g, c)
    <3>1. PICK F, A : F = f1 /\ A = alive
      OBVIOUS
    <3>2. F \in Fds /\ SocketsOK(F, A) /\ F[n][s] # None /\ (F[n][s].handler # "none" \/ F[n][s].in # <<>>) /\ s \in Ports /\ n \in Nodes
      BY <1>5, <1>7, <1>8, <1>10, <1>11, <3>1
    <3>3. \/ F[n][s].peer = Net!Closed /\ From(F[n][s]) \notin A
          \/ \E g \in Ports :
               Receives(F, [F EXCEPT ![F[n][s].peer[1]][F[n][s].peer[2]].in = Append(@, Net!Message(c))],
                        A, n, s, From(F[n][s]), g, c)
      BY ONLY Zenon, Net!ConstantsOK, <2>1, <3>2, WrittenIs
    <3> QED BY Zenon, <3>1, <3>3
  <2>3. CASE f1[n][s].peer = Net!Closed /\ From(f1[n][s]) \notin alive
    BY <1>7, <1>8, <1>10, <1>3, <2>3
  <2>4. ASSUME NEW g \in Ports,
               Receives(f1, [f1 EXCEPT ![f1[n][s].peer[1]][f1[n][s].peer[2]].in = Append(@, Net!Message(c))],
                        alive, n, s, From(f1[n][s]), g, c)
        PROVE  Receives(f1, fd', alive, n, s, m, g, c)
    <3>1. f1[n][s].peer = <<m, g>> /\ f1[n][s].peer = k.peer /\ From(f1[n][s]) = m
      BY Zenon, <1>7, <1>8, <1>10, <2>4 DEF Receives
    <3>2. k.peer # Net!Closed
      BY <1>5, <3>1, ClosedIs
    <3>3. fd' = [f1 EXCEPT ![f1[n][s].peer[1]][f1[n][s].peer[2]].in = Append(@, Net!Message(c))]
      BY <1>3, <3>1, <3>2
    <3> QED BY Zenon, <2>4, <3>1, <3>3
  <2> QED BY ZenonT(60), <2>2, <2>3, <2>4
<1>13. /\ fd' \in Fds /\ SocketsOK(fd', alive) /\ fd'[n] = f1[n]
       /\ \A x \in Nodes : x # n => SameShape(fd[x], fd'[x])
       /\ \A x \in Nodes, y \in Ports : fd[x][y] # None => fd'[x][y] # None /\ fd'[x][y].peer = fd[x][y].peer
  <2>1. \A x \in Nodes : x # n => SameShape(fd[x], f1[x])
    BY <1>10 DEF SameShape
  <2>2. \A x \in Nodes, y \in Ports : fd[x][y] # None => f1[x][y] # None /\ f1[x][y].peer = fd[x][y].peer
    BY ZenonT(60), <1>1, <1>7, <1>8, <1>10
  <2>3. CASE fd' = f1
    BY <1>10, <1>11, <2>1, <2>2, <2>3
  <2>4. ASSUME NEW g \in Ports, Receives(f1, fd', alive, n, s, m, g, c)
        PROVE  /\ fd' \in Fds /\ SocketsOK(fd', alive) /\ fd'[n] = f1[n]
               /\ \A x \in Nodes : SameShape(f1[x], fd'[x])
               /\ \A x \in Nodes, y \in Ports : f1[x][y] # None => fd'[x][y] # None /\ fd'[x][y].peer = f1[x][y].peer
    BY <1>5, <2>4 DEF Receives, SameShape
  <2>5. ASSUME NEW g \in Ports, Receives(f1, fd', alive, n, s, m, g, c)
        PROVE  /\ \A x \in Nodes : x # n => SameShape(fd[x], fd'[x])
               /\ \A x \in Nodes, y \in Ports : fd[x][y] # None => fd'[x][y] # None /\ fd'[x][y].peer = fd[x][y].peer
    BY <1>10, <2>2, <2>4, <2>5
  <2> QED BY <1>12, <2>3, <2>4, <2>5
<1>14. BacklogOK(fd', alive, backlog')
  <2>1. BacklogOK(fd, alive, backlog) /\ backlog' = backlog /\ alive' \subseteq alive /\ alive' = alive
    BY <1>0, <1>2 DEF Linked
  <2>2. \A y \in Nodes, x \in alive', g \in Ports : fd[x][g] # None /\ fd[x][g].peer = <<y, 0>> =>
          fd'[x][g] # None /\ fd'[x][g].peer = fd[x][g].peer
    BY <1>0, <1>13, <2>1 DEF NetTyped
  <2>3. BacklogOK(fd', alive', backlog')
    BY ONLY <1>0, <2>1, <2>2, BacklogStays
  <2> QED BY <2>1, <2>3
<1>15. PICK t : t = Finally(l, w.nuke)
  OBVIOUS
<1>16. l \in Seq(Entry) /\ t \in Seq(Entry) /\ z \in Entry \cup {None}
  <2>1. l \in Seq(Entry)
    BY <1>0, <1>1, <1>5, TypedIs
  <2>2. Net!Other(m, s) \in Entry
    BY <1>5, <2>1, EntryIs
  <2> QED BY <1>1, <1>15, <2>1, <2>2, FinallyIs
<1>17. /\ others' \in [Nodes -> Seq(Entry)] /\ others'[n] = t
       /\ \A x \in Nodes : x # n => others'[x] = others[x]
       /\ cache' \in [Nodes -> Entry \cup {None}] /\ cache'[n] = z
       /\ \A x \in Nodes : x # n => cache'[x] = cache[x]
  <2>1. others' = [others EXCEPT ![n] = t] /\ cache' = [cache EXCEPT ![n] = z]
    BY <1>15, <1>4
  <2> QED BY <1>0, <1>5, <1>16, <2>1 DEF NetTyped
<1>18. /\ waits' \in [Nodes -> Net!Calls \cup {None}] /\ waits'[n] = None
       /\ \A x \in Nodes : x # n => waits'[x] = waits[x]
  BY <1>0, <1>2 DEF NetTyped
<1>19. NetTyped'
  <2>1. backlog' \in Backlogs /\ alive' \in SUBSET Nodes
    BY <1>0, <1>2 DEF NetTyped
  <2>2. sent' \in [Nodes -> [Nodes -> Nat]] /\ got' \in [Nodes -> [Nodes -> Seq(Nat)]]
    BY <1>0, <1>2 DEF NetTyped
  <2> QED BY <1>13, <1>17, <1>18, <2>1, <2>2 DEF NetTyped
<1>20. Linked'
  <2>1. TableOK(fd'[n], t, None, alive, forgotten, n) /\ CacheOK(z, t, None)
    <3>1. PICK r, v, A, K : r = fd[n] /\ v = fd'[n] /\ A = alive /\ K = forgotten
      OBVIOUS
    <3>2. /\ TableOK(r, l, w, A, K, n) /\ Conn(w) /\ l \in Seq(Entry)
          /\ v[w.s] # None /\ v[w.s].handler = "reader" /\ v[w.s].ri = w.id
          /\ \A f \in Ports : f # w.s => v[f] = r[f]
      <4>1. v = f1[n] /\ v[s] = q /\ \A f \in Ports : f # s => v[f] = r[f]
        BY <1>10, <1>13, <3>1
      <4>2. w.s = s /\ w.id = m
        BY <1>1
      <4>3. v[s] # None /\ v[s].handler = "reader" /\ v[s].ri = m
        BY <1>7, <1>8, <4>1
      <4> QED BY <1>5, <1>16, <1>2, <3>1, <4>1, <4>2, <4>3
    <3>3. /\ TableOK(v, Finally(l, w.nuke), None, A, K, n)
          /\ w.nuke = 0 => CacheOK(Net!Other(w.id, w.s), Finally(l, w.nuke), None)
          /\ CacheOK(None, Finally(l, w.nuke), None)
      BY ONLY Net!ConstantsOK, <3>2, ConnectedTable
    <3> QED BY <1>1, <1>15, <3>1, <3>3
  <2>2. alive' = alive /\ backlog' = backlog /\ forgotten' = forgotten /\ forgotten \subseteq forgotten'
    BY <1>2
  <2> QED BY <1>0, <1>5, <1>13, <1>14, <1>17, <1>18, <1>19, <2>1, <2>2, NodeChanges
<1>21. Ordered'
  <2> SUFFICES ASSUME NEW a \in Nodes, NEW b \in Nodes, <<a, b>> \notin forgotten, FlowOK(a, b)
               PROVE  FlowOK(a, b)'
    BY <1>0, <1>2 DEF Ordered
  <2>1. Below(sent[a][b], alive, waits[a], a, b) \subseteq Below(sent'[a][b], alive', waits'[a], a, b)
    <3>1. CASE a = n
      <4>1. ~Conn(waits'[a])
        BY <1>18, <3>1 DEF Conn
      <4> QED BY <1>2, <4>1 DEF Below
    <3>2. CASE a # n
      BY <1>18, <1>2, <3>2
    <3> QED BY <3>1, <3>2
  <2>2. got'[b][a] = got[b][a] /\ alive' \subseteq alive /\ alive' = alive /\ sent' = sent
    BY <1>2
  <2>3. /\ \A x : FirstIn(l, m, x) => x = s
        /\ w.nuke # s => FirstIn(t, m, s)
        /\ \A y \in alive : \A x : y # m /\ FirstIn(l, y, x) => FirstIn(t, y, x)
        /\ FirstIn(l, m, s) \/ w.nuke = s
        /\ w.nuke = s => <<n, m>> \in forgotten
    <3>1. PICK A, K : A = alive /\ K = forgotten
      OBVIOUS
    <3>2. LastOK(l, w, A, K, n)
      BY <1>5, <3>1
    <3>3. /\ \A x : FirstIn(l, w.id, x) => x = w.s
          /\ w.nuke # w.s => FirstIn(Finally(l, w.nuke), w.id, w.s)
          /\ \A y \in A : \A x : y # w.id /\ FirstIn(l, y, x) =>
               FirstIn(Finally(l, w.nuke), y, x) /\ FirstIn(Finally(Net!Front(l), w.nuke), y, x)
      BY ONLY <1>16, <3>2, Net!ConstantsOK, LastIs
    <3>4. w.nuke = w.s => <<n, w.id>> \in K
      BY <3>2 DEF LastOK
    <3>5. FirstIn(l, m, s)
      <4>1. Len(l) \in Nat /\ l # <<>>
        BY <1>16, <3>2 DEF LastOK
      <4>2. Len(l) \in 1..Len(l)
        BY <1>16, <4>1
      <4> QED BY <1>1, <3>2, <4>2 DEF LastOK, FirstIn
    <3> QED BY <1>1, <1>15, <3>1, <3>3, <3>4, <3>5
  <2>4. ASSUME a = n => b # m \/ fd' = f1
        PROVE  FlowOK(a, b)'
    <3>1. ASSUME NEW h \in Ports, fd'[b][h] # None, From(fd'[b][h]) = a
          PROVE  /\ fd[b][h] # None /\ From(fd[b][h]) = a
                 /\ fd'[b][h].in = fd[b][h].in \/ (fd[b][h].in # <<>> /\ fd'[b][h].in = Tail(fd[b][h].in))
                 /\ fd'[b][h].peer = fd[b][h].peer
      <4>1. fd'[b][h] = f1[b][h]
        <5>1. CASE fd' = f1
          BY <5>1
        <5>2. ASSUME NEW g \in Ports, Receives(f1, fd', alive, n, s, m, g, c)
              PROVE  fd'[b][h] = f1[b][h]
          <6>1. CASE b = m /\ h = g
            <7>1. From(fd'[b][h]) = n
              BY <5>2, <6>1 DEF Receives
            <7> QED BY <2>4, <3>1, <6>1, <7>1
          <6>2. CASE ~(b = m /\ h = g)
            BY <5>2, <6>2 DEF Receives
          <6> QED BY <6>1, <6>2
        <5> QED BY <1>12, <5>1, <5>2
      <4>2. CASE b = n /\ h = s
        BY ZenonT(60), <1>1, <1>5, <1>7, <1>8, <1>10, <3>1, <4>1, <4>2
      <4>3. CASE ~(b = n /\ h = s)
        BY <1>10, <3>1, <4>1, <4>3
      <4> QED BY <4>2, <4>3
    <3>2. ASSUME NEW h \in Ports, fd'[b][h] # None, NEW x, FirstIn(others[a], b, x)
          PROVE  FirstIn(others'[a], b, x)
      <4>1. b \in alive
        BY <1>13, <3>2 DEF SocketsOK
      <4>2. CASE a # n
        BY <1>17, <3>2, <4>2
      <4>3. CASE a = n
        <5>1. b # m
          BY <1>12, <2>4, <4>1, <4>3 DEF Receives
        <5> QED BY <1>1, <1>17, <2>3, <3>2, <4>1, <4>3, <5>1
      <4> QED BY <4>2, <4>3
    <3>3. \A h \in Ports : fd'[b][h] # None /\ From(fd'[b][h]) = a /\ HasMessage(fd'[b][h].in) =>
            /\ fd[b][h] # None /\ From(fd[b][h]) = a
            /\ fd'[b][h].in = fd[b][h].in \/ (fd[b][h].in # <<>> /\ fd'[b][h].in = Tail(fd[b][h].in))
            /\ a \in alive' => /\ fd'[b][h].peer = fd[b][h].peer
                               /\ FirstIn(others[a], b, fd[b][h].peer[2]) => FirstIn(others'[a], b, fd[b][h].peer[2])
      BY <3>1, <3>2
    <3> QED BY ONLY <1>0, <1>19, <2>1, <2>2, <3>3, a \in Nodes, b \in Nodes, FlowOK(a, b), FlowKeeps
  <2>5. ASSUME NEW g \in Ports, Receives(f1, fd', alive, n, s, m, g, c), a = n, b = m
        PROVE  FlowOK(a, b)'
    <3>1. f1[b] = fd[b] /\ f1[a][s] = q /\ q.peer = fd[a][s].peer
      BY ZenonT(60), <1>1, <1>5, <1>7, <1>10, <2>5
    <3>2. /\ fd[a][s].peer = <<b, g>> /\ fd[b][g] # None /\ fd[b][g].peer = <<a, s>> /\ From(fd[b][g]) = a
          /\ fd'[b][g] # None /\ fd'[b][g].in = Append(fd[b][g].in, Net!Message(c))
          /\ fd'[b][g].peer = fd[b][g].peer /\ From(fd'[b][g]) = a
          /\ \A y \in Ports : y # g => fd'[b][y] = fd[b][y]
      BY ZenonT(60), <2>5, <3>1 DEF Receives
    <3>3. (\A x \in Ports : FirstIn(others[a], b, x) => x = s) /\ FirstIn(others'[a], b, s)
      BY <1>1, <1>17, <2>3, <2>5
    <3>4. /\ c \in Nat /\ c \in Below(sent'[a][b], alive, waits'[a], a, b)
          /\ \A d \in Below(sent[a][b], alive, waits[a], a, b) : d < c
      <4>1. sent[a][b] \in Nat /\ c = sent[a][b] /\ waits'[a] = None /\ ~Conn(None) /\ Conn(waits[a]) /\ waits[a].id = b /\ a \in alive
        BY <1>0, <1>1, <1>5, <1>18, <1>2, <2>5, TypedIs DEF Conn
      <4>2. c \in Below(sent'[a][b], alive, None, a, b)
        BY <2>2, <4>1 DEF Below
      <4>3. \A d \in Below(sent[a][b], alive, waits[a], a, b) : d < c
        BY <4>1 DEF Below
      <4> QED BY SMTT(30), <4>1, <4>2, <4>3
    <3>5. a \in alive /\ s \in Ports
      BY <1>5, <1>2, <2>5
    <3>6. Below(sent[a][b], alive, waits[a], a, b) \subseteq Below(sent'[a][b], alive, waits'[a], a, b)
      BY <2>1, <2>2
    <3> QED BY ONLY ZenonT(60), Net!ConstantsOK, NetInv, <1>19, <2>2, a \in Nodes, b \in Nodes, g \in Ports, FlowOK(a, b),
                    <3>2, <3>3, <3>4, <3>5, <3>6, FlowGrows
  <2> QED BY <1>12, <2>4, <2>5
<1> QED BY <1>19, <1>20, <1>21 DEF NetInv

LEMMA ExchangedKeeps ==
  ASSUME Net!ConstantsOK, NetInv, NEW n \in Nodes, Net!Exchanged(n)
  PROVE  NetInv'
<1>1. CASE fd[n][waits[n].s].in # <<>>
  BY <1>1, ConnectedKeeps
<1>2. CASE fd[n][waits[n].s].in = <<>>
  <2>1. /\ n \in alive /\ Conn(waits[n]) /\ waits' = [waits EXCEPT ![n] = None]
        /\ UNCHANGED <<backlog, alive, sent, got, forgotten>>
    BY Zenon DEF Net!Exchanged, Conn
  <2>2. /\ fd[n][waits[n].s].peer = Net!Closed
        /\ fd' = Net!Shut(fd, n, waits[n].s)
        /\ others' = [others EXCEPT ![n] = Finally(Net!Front(others[n]), waits[n].nuke)]
        /\ cache' = IF waits[n].nuke = 0 THEN cache ELSE [cache EXCEPT ![n] = None]
    BY <1>2 DEF Net!Exchanged, Finally
  <2> QED BY Zenon, <1>2, <2>1, <2>2, RefusedKeeps
<1> QED BY <1>1, <1>2

LEMMA CrashKeeps ==
  ASSUME Net!ConstantsOK, NetInv, NEW n \in Nodes, Net!Crash(n)
  PROVE  NetInv'
<1>0. NetTyped /\ Linked /\ Ordered
  BY DEF NetInv
<1>1. /\ n \in alive /\ alive' = alive \ {n} /\ backlog' = [backlog EXCEPT ![n] = <<>>]
      /\ UNCHANGED <<others, cache, waits, sent, got, forgotten>>
  BY DEF Net!Crash
<1>2. PICK F, A, G : F = fd /\ A = alive /\ G = fd'
  OBVIOUS
<1>3. F \in Fds /\ SocketsOK(F, A) /\ A \in SUBSET Nodes
  BY <1>0, <1>2 DEF NetTyped, Linked
<1>4. /\ DOMAIN G = Nodes /\ G = [m \in Nodes |-> G[m]]
      /\ \A m \in Nodes : G[m] = [f \in Ports |-> G[m][f]]
      /\ \A m \in Nodes, f \in Ports :
           G[m][f] = IF m = n THEN None
                     ELSE IF F[m][f] # None /\ F[m][f].peer[1] = n THEN [F[m][f] EXCEPT !.peer = Net!Closed]
                     ELSE F[m][f]
  <2>1. G = [m \in Nodes |-> [f \in Ports |->
              IF m = n THEN None
              ELSE IF F[m][f] # None /\ F[m][f].peer[1] = n THEN [F[m][f] EXCEPT !.peer = Net!Closed]
              ELSE F[m][f]]]
    BY <1>2 DEF Net!Crash, Ports
  <2> QED BY <2>1
<1>5. G \in Fds
  <2>1. ASSUME NEW m \in Nodes, NEW f \in Ports
        PROVE  G[m][f] \in Net!Sockets \cup {None}
    <3>1. PICK k : k = F[m][f]
      OBVIOUS
    <3>2. k \in Net!Sockets \cup {None}
      BY <1>3, <3>1 DEF Fds
    <3>3. ASSUME k # None
          PROVE  [k EXCEPT !.peer = Net!Closed] \in Net!Sockets
      <4>1. k \in Net!Sockets
        BY <3>2, <3>3
      <4>2. PICK c : c = Net!Closed
        OBVIOUS
      <4>3. c \in (Nodes \X (0..MaxFD)) \cup {Net!Closed}
        BY <4>2
      <4>4. [k EXCEPT !.peer = c] \in Net!Sockets
        BY <4>1, <4>3 DEF Net!Sockets
      <4> QED BY <4>2, <4>4
    <3> QED BY <1>4, <3>1, <3>2, <3>3
  <2>2. \A m \in Nodes : G[m] \in [Ports -> Net!Sockets \cup {None}]
    BY <1>4, <2>1
  <2> QED BY <1>4, <2>2 DEF Fds
<1>6. SocketsOK(G, alive') /\ Others(F, n, G)
  <2>1. AllStopped(F, n, G)
    BY <1>4 DEF Stopped, AllStopped
  <2>2. PICK B : B = alive'
    OBVIOUS
  <2>3. B = A \ {n}
    BY <1>1, <1>2, <2>2
  <2>4. SocketsOK(G, B) /\ Others(F, n, G)
    BY ONLY Net!ConstantsOK, n \in Nodes, <1>3, <1>5, <2>1, <2>3, CrashingOK
  <2> QED BY <2>2, <2>4
<1>7. /\ backlog' \in Backlogs /\ backlog'[n] = <<>>
      /\ \A x \in Nodes : x # n => backlog'[x] = backlog[x]
  BY <1>0, <1>1 DEF NetTyped, Backlogs
<1>8. NetTyped'
  <2>1. fd' \in Fds /\ alive' \in SUBSET Nodes
    BY <1>1, <1>2, <1>3, <1>5
  <2> QED BY <1>0, <1>1, <1>7, <2>1 DEF NetTyped
<1>9. BacklogOK(fd', alive', backlog')
  <2> SUFFICES ASSUME NEW x \in Nodes, NEW i \in 1..Len(backlog'[x])
               PROVE  /\ backlog'[x][i][1] # x
                      /\ backlog'[x][i][1] \in alive' => /\ Pending(fd', x, backlog'[x][i])
                                                         /\ \A j \in 1..Len(backlog'[x]) : backlog'[x][j] = backlog'[x][i] => j = i
    BY DEF BacklogOK
  <2>1. x # n
    BY <1>7
  <2>2. backlog'[x] = backlog[x]
    BY <1>7, <2>1
  <2>3. PICK p : p = backlog[x][i]
    OBVIOUS
  <2>4. /\ p[1] # x /\ p \in Nodes \X Ports
        /\ p[1] \in alive => Pending(fd, x, p) /\ \A j \in 1..Len(backlog[x]) : backlog[x][j] = p => j = i
    <3>1. BacklogOK(fd, alive, backlog) /\ backlog[x] \in Seq(Nodes \X Ports)
      BY <1>0, TypedIs DEF Linked
    <3> QED BY <2>2, <2>3, <3>1 DEF BacklogOK
  <2>5. ASSUME p[1] \in alive'
        PROVE  Pending(fd', x, p)
    <3>1. p[1] \in alive /\ p[1] \in Nodes \ {n} /\ p[2] \in Ports
      BY <1>1, <2>4, <2>5
    <3>2. F[p[1]][p[2]] # None /\ F[p[1]][p[2]].peer = <<x, 0>>
      BY <1>2, <2>4, <3>1 DEF Pending
    <3>3. F[p[1]][p[2]].peer[1] # n
      BY <2>1, <3>2
    <3>4. G[p[1]][p[2]] # None /\ G[p[1]][p[2]] = F[p[1]][p[2]]
      BY <1>6, <3>1, <3>2, <3>3 DEF Others
    <3> QED BY <1>2, <3>2, <3>4 DEF Pending
  <2> QED BY <1>1, <2>2, <2>3, <2>4, <2>5
<1>10. ASSUME NEW m \in alive'
       PROVE  TableOK(fd'[m], others'[m], waits'[m], alive', forgotten', m) /\ CacheOK(cache'[m], others'[m], waits'[m])
  <2>1. m \in alive /\ m \in Nodes \ {n}
    BY <1>1, <1>2, <1>3
  <2>2. TableOK(fd[m], others[m], waits[m], alive, forgotten, m) /\ CacheOK(cache[m], others[m], waits[m])
    BY <1>0, <2>1 DEF Linked
  <2>3. PICK r, q, l, w, B, K : r = F[m] /\ q = G[m] /\ l = others[m] /\ w = waits[m] /\ B = alive' /\ K = forgotten
    OBVIOUS
  <2>4. SameShape(r, q)
    BY <1>6, <2>1, <2>3 DEF SameShape, Others
  <2>5. TableOK(r, l, w, A, K, m) /\ l \in Seq(Entry) /\ B \in SUBSET A /\ K \subseteq K
    BY <1>0, <1>1, <1>2, <2>1, <2>2, <2>3, TypedIs
  <2>6. TableOK(q, l, w, B, K, m)
    BY ONLY Net!ConstantsOK, <2>4, <2>5, SameTable
  <2> QED BY <1>1, <1>2, <2>2, <2>3, <2>6
<1>11. Linked'
  BY <1>1, <1>2, <1>6, <1>9, <1>10 DEF Linked
<1>12. Ordered'
  <2> SUFFICES ASSUME NEW a \in Nodes, NEW b \in Nodes, FlowOK(a, b)
               PROVE  FlowOK(a, b)'
    BY <1>0, <1>1 DEF Ordered
  <2>1. Below(sent[a][b], alive, waits[a], a, b) \subseteq Below(sent'[a][b], alive', waits'[a], a, b)
    BY <1>1 DEF Below
  <2>2. got'[b][a] = got[b][a] /\ alive' \subseteq alive /\ others' = others
    BY <1>1
  <2>3. ASSUME NEW h \in Ports, fd'[b][h] # None, From(fd'[b][h]) = a
        PROVE  /\ fd[b][h] # None /\ From(fd[b][h]) = a /\ fd'[b][h].in = fd[b][h].in
               /\ a \in alive' => fd'[b][h].peer = fd[b][h].peer
    <3>1. b \in Nodes \ {n} /\ b \in A
      BY <1>1, <1>2, <1>3, <1>6, <2>3 DEF SocketsOK
    <3>2. PICK k : k = F[b][h]
      OBVIOUS
    <3>3. k # None /\ From(k) = a /\ G[b][h].in = k.in /\ (k.peer[1] # n => G[b][h] = k)
      BY <1>2, <1>6, <2>3, <3>1, <3>2 DEF Others
    <3>4. PeerOK(F, A, b, h, k)
      BY <1>3, <3>2, <3>3 DEF SocketsOK
    <3>5. ASSUME a # n
          PROVE  k.peer[1] # n
      <4>1. CASE k.peer = Net!Closed
        <5>1. k.peer[1] = None
          BY <4>1 DEF Net!Closed
        <5> QED BY <5>1, ClosedIs
      <4>2. CASE \E g : k.peer = <<a, g>>
        BY <3>5, <4>2
      <4> QED BY <3>3, <3>4, <4>1, <4>2 DEF PeerOK
    <3>6. a \in alive' => a # n
      BY <1>1
    <3> QED BY <1>2, <3>2, <3>3, <3>5, <3>6
  <2>4. \A h \in Ports : fd'[b][h] # None /\ From(fd'[b][h]) = a /\ HasMessage(fd'[b][h].in) =>
          /\ fd[b][h] # None /\ From(fd[b][h]) = a
          /\ fd'[b][h].in = fd[b][h].in \/ (fd[b][h].in # <<>> /\ fd'[b][h].in = Tail(fd[b][h].in))
          /\ a \in alive' => /\ fd'[b][h].peer = fd[b][h].peer
                             /\ FirstIn(others[a], b, fd[b][h].peer[2]) => FirstIn(others'[a], b, fd[b][h].peer[2])
    BY <2>2, <2>3
  <2> QED BY ONLY <1>0, <1>8, <2>1, <2>2, <2>4, a \in Nodes, b \in Nodes, FlowOK(a, b), FlowKeeps
<1> QED BY <1>8, <1>11, <1>12 DEF NetInv

(* What does not change the connections: the callbacks that wait, and      *)
(* those that there are to call.                                           *)
LEMMA WaitingKeeps ==
  ASSUME Net!ConstantsOK, NetInv, NEW n \in Nodes,
         Net!ListenerEmpty(n) \/ Net!ReadResumes(n) \/ \E f \in Net!FDs : Net!ReadNothing(n, f)
  PROVE  NetInv'
<1>1. ASSUME NEW f \in 0..MaxFD, Net!Free(n), waits' = [waits EXCEPT ![n] = Net!Waiting(f, None, 0)],
             UNCHANGED <<fd, backlog, others, cache, alive, sent, got, forgotten>>
      PROVE  NetInv'
  <2>1. PICK w : w = Net!Waiting(f, None, 0)
    OBVIOUS
  <2>2. w \in Net!Calls /\ w.id = None /\ w.nuke = 0
    BY <2>1 DEF Net!Waiting, Net!Calls, Net!ConstantsOK
  <2>3. ~Conn(w) /\ \A g \in Ports : ~Nuking(w, g)
    BY <2>2, ClosedIs DEF Conn, Nuking
  <2>4. ~Conn(waits[n])
    BY <1>1 DEF Net!Free, Conn
  <2>5. w \in Net!Calls \cup {None} /\ waits' = [waits EXCEPT ![n] = w]
    BY <1>1, <2>1, <2>2
  <2> QED BY ONLY Net!ConstantsOK, NetInv, <1>1, n \in Nodes, <2>3, <2>4, <2>5, WaitKeeps
<1>2. CASE Net!ListenerEmpty(n)
  <2>1. 0 \in 0..MaxFD
    BY ClosedIs
  <2> QED BY <1>1, <1>2, <2>1 DEF Net!ListenerEmpty, Net!Calling, Net!Listener
<1>3. ASSUME NEW f \in Net!FDs, Net!ReadNothing(n, f)
      PROVE  NetInv'
  <2>1. f \in 0..MaxFD
    BY ClosedIs DEF Ports
  <2> QED BY <1>1, <1>3, <2>1 DEF Net!ReadNothing, Net!Calling
<1>4. CASE Net!ReadResumes(n)
  <2>1. /\ ~Conn(waits[n]) /\ waits' = [waits EXCEPT ![n] = None]
        /\ UNCHANGED <<fd, backlog, others, cache, alive, sent, got, forgotten>>
    BY <1>4 DEF Net!ReadResumes, Conn
  <2>2. PICK w : w = None
    OBVIOUS
  <2>3. w \in Net!Calls \cup {None} /\ ~Conn(w) /\ \A f \in Ports : ~Nuking(w, f)
    BY <2>2 DEF Conn, Nuking
  <2>4. waits' = [waits EXCEPT ![n] = w]
    BY <2>1, <2>2
  <2> QED BY ONLY Net!ConstantsOK, NetInv, <2>1, <2>3, <2>4, n \in Nodes, WaitKeeps
<1> QED BY <1>2, <1>3, <1>4

LEMMA NextKeeps ==
  ASSUME Net!ConstantsOK, NetInv, [Net!Next]_(Net!vars)
  PROVE  NetInv'
<1>1. CASE UNCHANGED Net!vars
  BY <1>1, SameKeeps DEF Net!vars
<1>2. ASSUME NEW p \in Flows, Net!DSend(p[1], p[2])
      PROVE  NetInv'
  <2>1. p[1] \in Nodes /\ p[2] \in Nodes /\ <<p[1], p[2]>> \in Flows
    BY DEF Net!ConstantsOK
  <2> QED BY <1>2, <2>1, DSendKeeps
<1>3. ASSUME NEW n \in Nodes, Net!Exchanged(n)
      PROVE  NetInv'
  BY <1>3, ExchangedKeeps
<1>4. ASSUME NEW n \in Nodes, Net!Accept(n)
      PROVE  NetInv'
  BY <1>4, AcceptKeeps
<1>5. ASSUME NEW n \in Nodes, Net!Crash(n)
      PROVE  NetInv'
  BY <1>5, CrashKeeps
<1>6. ASSUME NEW n \in Nodes, Net!ListenerEmpty(n) \/ Net!ReadResumes(n) \/ \E f \in Net!FDs : Net!ReadNothing(n, f)
      PROVE  NetInv'
  BY <1>6, WaitingKeeps
<1>7. ASSUME NEW n \in Nodes, Net!Select(n) \/ Net!Return(n) \/ \E f \in Net!FDs : Net!NoHandler(n, f)
      PROVE  NetInv'
  <2>1. UNCHANGED <<fd, backlog, others, cache, waits, alive, sent, got, forgotten>>
    BY <1>7 DEF Net!Select, Net!Return, Net!NoHandler
  <2> QED BY <2>1, SameKeeps
<1>8. ASSUME NEW n \in Nodes, NEW f \in Net!FDs, Net!Read(n, f)
      PROVE  NetInv'
  BY <1>8, ReadKeeps DEF Ports
<1>9. ASSUME NEW n \in Nodes, NEW f \in Net!FDs, Net!ReadEnd(n, f)
      PROVE  NetInv'
  BY <1>9, ReadEndAllKeeps DEF Ports
<1>10. ASSUME NEW n \in Nodes, NEW f \in Net!FDs, NEW nested \in BOOLEAN, Net!Stage2(n, f, nested)
       PROVE  NetInv'
  BY <1>10, Stage2Keeps DEF Ports
<1> QED BY <1>1, <1>2, <1>3, <1>4, <1>5, <1>6, <1>7, <1>8, <1>9, <1>10 DEF Net!Next

LEMMA InitNet ==
  ASSUME Net!ConstantsOK, Net!Init
  PROVE  NetInv
<1>1. NetTyped
  <2>1. fd \in Fds /\ backlog \in Backlogs /\ others \in [Nodes -> Seq(Entry)]
    BY DEF Net!Init, Fds, Ports, Backlogs
  <2>2. cache \in [Nodes -> Entry \cup {None}] /\ waits \in [Nodes -> Net!Calls \cup {None}] /\ alive \in SUBSET Nodes
    BY DEF Net!Init
  <2>3. sent \in [Nodes -> [Nodes -> Nat]] /\ got \in [Nodes -> [Nodes -> Seq(Nat)]]
    BY DEF Net!Init
  <2> QED BY <2>1, <2>2, <2>3 DEF NetTyped
<1>2. /\ \A n \in Nodes, f \in Ports : fd[n][f] = None
      /\ \A n \in Nodes : others[n] = <<>> /\ backlog[n] = <<>> /\ waits[n] = None /\ cache[n] = None
      /\ \A n, m \in Nodes : got[n][m] = <<>>
  BY DEF Net!Init, Ports
<1>3. Linked
  <2>1. SocketsOK(fd, alive)
    BY <1>2 DEF SocketsOK
  <2>2. BacklogOK(fd, alive, backlog)
    BY <1>2 DEF BacklogOK
  <2>3. ASSUME NEW n \in alive
        PROVE  TableOK(fd[n], others[n], waits[n], alive, forgotten, n) /\ CacheOK(cache[n], others[n], waits[n])
    <3>1. n \in Nodes /\ others[n] = <<>> /\ waits[n] = None /\ cache[n] = None
      BY <1>1, <1>2 DEF NetTyped
    <3>2. ~Conn(waits[n]) /\ \A f : ~Nuking(waits[n], f)
      BY <3>1 DEF Conn, Nuking
    <3>3. WaitOK(fd[n], waits[n])
      BY <1>2, <3>1, <3>2 DEF WaitOK
    <3>4. Len(others[n]) = 0
      BY <3>1
    <3> QED BY <3>1, <3>2, <3>3, <3>4 DEF TableOK, CacheOK
  <2> QED BY <2>1, <2>2, <2>3 DEF Linked
<1>4. Ordered
  <2> SUFFICES ASSUME NEW a \in Nodes, NEW b \in Nodes
               PROVE  FlowOK(a, b)
    BY DEF Ordered
  <2>1. Len(got[b][a]) = 0
    BY <1>2
  <2> QED BY <1>2, <2>1 DEF FlowOK, OrderOK
<1> QED BY <1>1, <1>3, <1>4 DEF NetInv

LEMMA NetInvHolds ==
  ASSUME Net!ConstantsOK
  PROVE  Net!Spec => []NetInv
<1>1. Net!Init => NetInv
  BY InitNet
<1>2. NetInv /\ [Net!Next]_(Net!vars) => NetInv'
  BY NextKeeps
<1> QED BY <1>1, <1>2, PTL DEF Net!Spec

LEMMA EntriesAreRight ==
  ASSUME Net!ConstantsOK, NetInv
  PROVE  Net!RightNode
<1>0. NetTyped /\ Linked
  BY DEF NetInv
<1>1. ASSUME NEW n \in alive, NEW o, o.s \in Ports, o.id \in Nodes, EntryOK(fd[n], o)
      PROVE  fd[n][o.s] # None /\ fd[n][o.s].peer[1] \in {o.id, None}
  <2>1. PICK k : k = fd[n][o.s]
    OBVIOUS
  <2>2. k # None /\ k.handler # "stage2" /\ k.ri = o.id
    BY <1>1, <2>1, ClosedIs DEF EntryOK
  <2>3. From(k) = o.id
    BY <2>2 DEF From
  <2>4. n \in Nodes
    BY <1>0 DEF NetTyped
  <2>5. PeerOK(fd, alive, n, o.s, k)
    BY <1>0, <1>1, <2>1, <2>2, <2>4 DEF Linked, SocketsOK
  <2>6. Net!Closed[1] = None
    BY DEF Net!Closed
  <2> QED BY <2>1, <2>2, <2>3, <2>5, <2>6 DEF PeerOK
<1>2. ASSUME NEW n \in alive, NEW i \in 1..Len(others[n]), ~Nuking(waits[n], others[n][i].s)
      PROVE  EntryOK(fd[n], others[n][i])
  BY <1>0, <1>2 DEF Linked, TableOK
<1>3. ASSUME NEW n \in alive, cache[n] # None, ~Nuking(waits[n], cache[n].s)
      PROVE  EntryOK(fd[n], cache[n])
  <2>1. PICK i \in 1..Len(others[n]) : others[n][i] = Net!Other(cache[n].id, cache[n].s)
    BY <1>0, <1>3 DEF Linked, CacheOK, FirstIn
  <2>2. others[n][i].s = cache[n].s /\ others[n][i].id = cache[n].id
    BY <2>1 DEF Net!Other
  <2>3. EntryOK(fd[n], others[n][i])
    BY <1>2, <1>3, <2>2
  <2> QED BY <2>2, <2>3 DEF EntryOK
<1> SUFFICES ASSUME NEW n \in alive \ failed, NEW o \in Net!ToSet(others[n]) \cup {cache[n]},
                    o # None, o.id # None, ~(waits[n] # None /\ waits[n].nuke = o.s)
             PROVE  o.s \in Net!Open(n) /\ fd[n][o.s].peer[1] \in {o.id, None}
  BY DEF Net!RightNode
<1>4. n \in Nodes /\ n \in alive /\ ~Nuking(waits[n], o.s)
  BY <1>0 DEF NetTyped, Nuking
<1>5. others[n] \in Seq(Entry) /\ cache[n] \in Entry \cup {None}
  BY <1>0, <1>4, TypedIs
<1>6. EntryOK(fd[n], o) /\ o \in Entry
  <2>1. CASE o = cache[n]
    BY <1>3, <1>4, <1>5, <2>1
  <2>2. CASE o \in Net!ToSet(others[n])
    <3>1. PICK i \in 1..Len(others[n]) : o = others[n][i]
      BY <1>5, <2>2 DEF Net!ToSet
    <3> QED BY <1>2, <1>4, <1>5, <3>1
  <2> QED BY <2>1, <2>2
<1>7. o.s \in Ports /\ o.id \in Nodes
  BY <1>6 DEF Entry, Net!Entries, Ports
<1>8. fd[n][o.s] # None /\ fd[n][o.s].peer[1] \in {o.id, None}
  BY <1>1, <1>4, <1>6, <1>7
<1> QED BY <1>7, <1>8 DEF Net!Open, Ports

LEMMA NumbersIncrease ==
  ASSUME Net!ConstantsOK, NetInv
  PROVE  Net!InOrder
<1> SUFFICES ASSUME NEW p \in Flows \ forgotten, NEW i \in DOMAIN got[p[2]][p[1]], NEW j \in DOMAIN got[p[2]][p[1]], i < j
             PROVE  got[p[2]][p[1]][i] < got[p[2]][p[1]][j]
  BY DEF Net!InOrder
<1>1. PICK a, b : a = p[1] /\ b = p[2]
  OBVIOUS
<1>2. a \in Nodes /\ b \in Nodes /\ <<a, b>> \in Flows \ forgotten
  BY <1>1 DEF Net!ConstantsOK
<1>3. FlowOK(a, b)
  BY <1>2 DEF NetInv, Ordered
<1>4. got[b][a] \in Seq(Nat)
  BY <1>2, TypedIs DEF NetInv
<1>5. PICK x : x = got[b][a]
  OBVIOUS
<1>6. \A y, z \in 1..Len(x) : y < z => x[y] < x[z]
  BY <1>3, <1>5 DEF FlowOK, OrderOK
<1>7. i \in 1..Len(x) /\ j \in 1..Len(x)
  BY <1>1, <1>4, <1>5
<1> QED BY <1>1, <1>5, <1>6, <1>7

(* A message for a node is written to a connection with that node: an      *)
(* entry of the table, or the last one used, never outlives its descriptor *)
(* (findsocket, nukeother, ReaderCB).                                      *)
THEOREM MessagesToTheRightNode == Net!ConstantsOK => (Net!Spec => []Net!RightNode)
<1> SUFFICES ASSUME Net!ConstantsOK
             PROVE  Net!Spec => []Net!RightNode
  OBVIOUS
<1>1. Net!Spec => []NetInv
  BY NetInvHolds
<1>2. NetInv => Net!RightNode
  BY EntriesAreRight
<1> QED BY <1>1, <1>2, PTL

(* The messages of one node arrive at another in the order they were sent, *)
(* whatever connections the two have made and lost (DSend, ReaderCB), but  *)
(* for those of a node that forgot a connection it had made.               *)
THEOREM MessagesInOrder == Net!ConstantsOK => (Net!Spec => []Net!InOrder)
<1> SUFFICES ASSUME Net!ConstantsOK
             PROVE  Net!Spec => []Net!InOrder
  OBVIOUS
<1>1. Net!Spec => []NetInv
  BY NetInvHolds
<1>2. NetInv => Net!InOrder
  BY NumbersIncrease
<1> QED BY <1>1, <1>2, PTL
=============================================================================
