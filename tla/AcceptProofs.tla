---------------------------- MODULE AcceptProofs ----------------------------
(***************************************************************************)
(* Type correctness of Accept, the lock of its object, and the order in    *)
(* which callers leave the queue, for any callers and operations and any   *)
(* length of run.                                                          *)
(***************************************************************************)
EXTENDS Accept, Queues, SequenceTheorems, FiniteSetTheorems

(* The values of the variables; only the process itself is ever at an accept
   statement, and only callers are inside an operation. *)
TypeOK ==
  /\ busy \in 0..3
  /\ waiting \in Seq(Procs) /\ ready \in Seq(Procs)
  /\ current \in Procs \cup {Nobody} /\ asleep \subseteq Procs
  /\ at \in [Procs -> {"outside", "called", "accept", "dead"}]
  /\ at[Server] # "called" /\ \A c \in Callers : at[c] # "accept"
  /\ opp \in [Callers -> Operations]
  /\ type \subseteq Operations
  /\ failed \in BOOLEAN
  /\ fuel \in [Procs -> Nat]

(* Every process is in one place, once, or dead and in none. *)
OnePlace ==
  /\ Injective(ready) /\ Injective(waiting)
  /\ Disjoint(ElementsOf(ready), ElementsOf(waiting))
  /\ Disjoint(asleep, ElementsOf(ready) \cup ElementsOf(waiting))
  /\ current \notin ElementsOf(ready) \cup ElementsOf(waiting) \cup asleep
  /\ \A p \in Procs : at[p] = "dead" <=>
       p # current /\ p \notin ElementsOf(ready) \cup ElementsOf(waiting) \cup asleep

Member(p) == at[p] \in {"called", "accept"} \/ (p = Server /\ at[p] = "outside")
In(p)     == Member(p) /\ p \notin ElementsOf(waiting)

(* Who waits has called, but for the object's own process, which waits before
   all others. *)
Queue ==
  /\ \A p \in ElementsOf(waiting) : Member(p)
  /\ Server \in ElementsOf(waiting) => Head(waiting) = Server

Alone == \A p, q \in Procs : In(p) /\ In(q) => p = q

(* What each value of busy says of who is inside and who waits. *)
Lock ==
  /\ busy = 2 <=> at[Server] = "accept"
  /\ busy = 2 => \A c \in Callers : ~In(c)
  /\ busy = 2 /\ current # Server =>
       /\ Server \in ElementsOf(waiting)
       /\ \A c \in ElementsOf(waiting) : c # Server => opp[c] \notin type
  /\ busy = 0 => waiting = <<>> /\ \A p \in Procs : ~In(p)
  /\ busy \in {0, 1} => at[Server] = "dead"
  /\ \A c \in Callers : In(c) => busy = 1 \/ (busy = 3 /\ Server \in ElementsOf(waiting))

(* What a failure destroys: a lock that is taken has been taken by someone, and
   the process, when it dies, leaves it open or to a caller. *)
Kept ==
  ~failed => /\ at[Server] = "dead" => busy \in {0, 1}
             /\ busy \in {1, 3} => \E p \in Procs : In(p)

IInv == TypeOK /\ OnePlace /\ Queue /\ Alone /\ Lock /\ Kept

(* findAcceptable's caller leaves the queue: all others stay. *)
LEMMA RemoveElements ==
  ASSUME NEW S, NEW s \in Seq(S), NEW i \in 1..Len(s)
  PROVE  /\ RemoveAt(s, i) \in Seq(S)
         /\ ElementsOf(s) = ElementsOf(RemoveAt(s, i)) \cup {s[i]}
         /\ Injective(s) => /\ Injective(RemoveAt(s, i))
                            /\ s[i] \notin ElementsOf(RemoveAt(s, i))
<1> DEFINE a == SubSeq(s, 1, i - 1)
           b == SubSeq(s, i + 1, Len(s))
<1>1. Len(s) \in Nat /\ i \in Nat /\ i <= Len(s) /\ i > 0
  BY LenProperties
<1>2. /\ a \in Seq(S) /\ Len(a) = i - 1
      /\ \A k \in 1..(i - 1) : a[k] = s[k]
  <2>1. /\ 1 \in Int /\ i - 1 \in Int /\ (IF 1 <= i - 1 THEN (i - 1) - 1 + 1 ELSE 0) = i - 1
        /\ \A k \in 1..(i - 1) : k \in 1..Len(s)
        /\ (i - 1) - 1 + 1 = i - 1
        /\ \A k \in 1..(i - 1) : 1 + k - 1 = k
    BY <1>1
  <2>2. \A k \in 1..(i - 1) : s[k] \in S
    BY <2>1, ElementOfSeq
  <2> QED BY <2>1, <2>2, SubSeqProperties
<1>3. /\ b \in Seq(S) /\ Len(b) = Len(s) - i
      /\ \A k \in 1..(Len(s) - i) : b[k] = s[i + k]
  <2> DEFINE m == i + 1
             n == Len(s)
  <2>1. /\ m \in Int /\ n \in Int /\ (IF m <= n THEN n - m + 1 ELSE 0) = Len(s) - i
        /\ \A k \in m..n : k \in 1..Len(s)
        /\ n - m + 1 = Len(s) - i
        /\ \A k \in 1..(Len(s) - i) : m + k - 1 = i + k
    BY <1>1
  <2>2. \A k \in m..n : s[k] \in S
    BY <2>1, ElementOfSeq
  <2> HIDE DEF m, n
  <2>3. /\ SubSeq(s, m, n) \in Seq(S) /\ Len(SubSeq(s, m, n)) = Len(s) - i
        /\ \A k \in 1..(Len(s) - i) : SubSeq(s, m, n)[k] = s[i + k]
    BY <2>1, <2>2, SubSeqProperties
  <2> QED BY <2>3 DEF m, n
<1>4. RemoveAt(s, i) = a \o b
  BY DEF RemoveAt
<1> HIDE DEF a, b
<1>5. /\ a \o b \in Seq(S) /\ ElementsOf(a \o b) = ElementsOf(a) \cup ElementsOf(b)
      /\ Injective(a) /\ Injective(b) /\ Disjoint(ElementsOf(a), ElementsOf(b))
           => Injective(a \o b)
  BY <1>2, <1>3, ConcatElements
<1>6. ElementsOf(s) = ElementsOf(a) \cup ElementsOf(b) \cup {s[i]}
  <2>1. ElementsOf(a) \subseteq ElementsOf(s)
    BY <1>1, <1>2 DEF ElementsOf
  <2>2. ElementsOf(b) \subseteq ElementsOf(s)
    <3>1. \A k \in 1..(Len(s) - i) : i + k \in 1..Len(s)
      BY <1>1
    <3> QED BY <1>3, <3>1 DEF ElementsOf
  <2>3. ASSUME NEW k \in 1..Len(s) PROVE s[k] \in ElementsOf(a) \cup ElementsOf(b) \cup {s[i]}
    <3>1. CASE k < i
      BY <1>1, <1>2, <3>1 DEF ElementsOf
    <3>2. CASE k = i
      BY <3>2
    <3>3. CASE k > i
      <4>1. k - i \in 1..(Len(s) - i) /\ i + (k - i) = k
        BY <1>1, <3>3
      <4>2. b[k - i] = s[k] /\ k - i \in 1..Len(b)
        BY <1>3, <4>1
      <4> QED BY <4>2 DEF ElementsOf
    <3> QED BY <1>1, <3>1, <3>2, <3>3
  <2>4. ElementsOf(s) \subseteq ElementsOf(a) \cup ElementsOf(b) \cup {s[i]}
    BY <2>3 DEF ElementsOf
  <2>5. s[i] \in ElementsOf(s)
    BY DEF ElementsOf
  <2> QED BY <2>1, <2>2, <2>4, <2>5
<1>7. ASSUME Injective(s)
      PROVE  /\ Injective(a) /\ Injective(b) /\ Disjoint(ElementsOf(a), ElementsOf(b))
             /\ s[i] \notin ElementsOf(a) \cup ElementsOf(b)
  <2>0. \A j, k \in 1..Len(s) : s[j] = s[k] => j = k
    BY <1>7 DEF Injective
  <2>1. Injective(a)
    <3>1. \A k \in 1..(i - 1) : k \in 1..Len(s)
      BY <1>1
    <3> QED BY <1>2, <2>0, <3>1 DEF Injective
  <2>2. \A k \in 1..(Len(s) - i) : i + k \in 1..Len(s) /\ i + k # i
    BY <1>1
  <2>3. Injective(b)
    <3>1. ASSUME NEW j \in 1..(Len(s) - i), NEW k \in 1..(Len(s) - i), b[j] = b[k]
          PROVE  j = k
      <4>1. i + j = i + k
        BY <1>3, <2>0, <2>2, <3>1
      <4> QED BY <1>1, <4>1
    <3> QED BY <1>3, <3>1 DEF Injective
  <2>4. ASSUME NEW j \in 1..(i - 1), NEW k \in 1..(Len(s) - i) PROVE a[j] # b[k]
    <3>1. j \in 1..Len(s) /\ i + k \in 1..Len(s) /\ j # i + k
      BY <1>1
    <3> QED BY <1>2, <1>3, <2>0, <3>1
  <2>5. Disjoint(ElementsOf(a), ElementsOf(b))
    BY <1>2, <1>3, <2>4 DEF Disjoint, ElementsOf
  <2>6. s[i] \notin ElementsOf(a)
    <3>1. \A k \in 1..(i - 1) : k \in 1..Len(s) /\ k # i
      BY <1>1
    <3> QED BY <1>2, <2>0, <3>1 DEF ElementsOf
  <2>7. s[i] \notin ElementsOf(b)
    BY <1>3, <2>0, <2>2 DEF ElementsOf
  <2> QED BY <2>1, <2>3, <2>5, <2>6, <2>7
<1> QED BY <1>4, <1>5, <1>6, <1>7

LEMMA Burnt ==
  ASSUME TypeOK, NEW p \in Procs, Begins(p)
  PROVE  fuel' \in [Procs -> Nat]
<1>1. fuel \in [Procs -> Nat] /\ fuel[p] > 0 /\ fuel' = [fuel EXCEPT ![p] = @ - 1]
  BY DEF TypeOK, Begins
<1> QED BY <1>1

LEMMA NobodyNowhere ==
  ASSUME ConstantsOK, TypeOK
  PROVE  /\ ElementsOf(ready) \subseteq Procs /\ ElementsOf(waiting) \subseteq Procs
         /\ Nobody \notin ElementsOf(ready) \cup ElementsOf(waiting) \cup asleep
         /\ Server \in Procs /\ Nobody # Server
BY ElementsType DEF ConstantsOK, TypeOK, Procs

(* The process that runs, if it is one of the object, is the one inside. *)
LEMMA RunnerIsAlone ==
  ASSUME ConstantsOK, IInv, NEW p \in Procs, current = p, Member(p)
  PROVE  In(p) /\ \A q \in Procs : In(q) => q = p
BY DEF IInv, OnePlace, In, Alone

(* Nothing happens in the object or at its lock. *)
LEMMA InsideStays ==
  ASSUME ConstantsOK, IInv, UNCHANGED <<busy, waiting, opp, type, failed>>,
         \A p \in Procs : Member(p)' <=> Member(p),
         \A s \in {"accept", "dead"} : at[Server] = s <=> at'[Server] = s,
         current = Server => current' = Server \/ at[Server] # "accept"
  PROVE  Queue' /\ Alone' /\ Lock' /\ Kept'
<1>1. \A p \in Procs : In(p)' <=> In(p)
  BY DEF In
<1>2. Queue'
  BY NobodyNowhere DEF IInv, Queue
<1>3. Alone'
  BY <1>1 DEF IInv, Alone
<1>4. Callers \subseteq Procs
  BY DEF Procs
<1>5. Lock'
  BY <1>1, <1>4 DEF IInv, Lock
<1>6. Kept'
  BY <1>1 DEF IInv, Kept
<1> QED BY <1>2, <1>3, <1>5, <1>6
-----------------------------------------------------------------------------
(* The scheduler *)

LEMMA DispatchKeeps ==
  ASSUME ConstantsOK, IInv, Dispatch
  PROVE  IInv'
<1>1. /\ Head(ready) \in Procs /\ Tail(ready) \in Seq(Procs)
      /\ ElementsOf(ready) = ElementsOf(Tail(ready)) \cup {Head(ready)}
      /\ Injective(ready) => /\ Injective(Tail(ready))
                             /\ Head(ready) \notin ElementsOf(Tail(ready))
  BY TailElements DEF IInv, TypeOK, Dispatch
<1>2. TypeOK'
  BY <1>1 DEF IInv, TypeOK, Dispatch
<1>3. OnePlace'
  <2>1. /\ current = Nobody /\ current' = Head(ready) /\ ready' = Tail(ready)
        /\ UNCHANGED <<waiting, asleep, at>>
    BY DEF Dispatch
  <2> QED BY <1>1, <2>1, NobodyNowhere DEF IInv, ConstantsOK, OnePlace, Disjoint
<1>4. Queue' /\ Alone' /\ Lock' /\ Kept'
  <2>1. current # Server
    BY NobodyNowhere DEF IInv, Dispatch
  <2> QED BY <2>1, InsideStays DEF Dispatch, Member
<1> QED BY <1>2, <1>3, <1>4 DEF IInv

LEMMA BlockKeeps ==
  ASSUME ConstantsOK, IInv, NEW p \in Procs, Block(p)
  PROVE  IInv'
<1>1. TypeOK'
  BY Burnt DEF IInv, TypeOK, Block
<1>2. OnePlace'
  <2>1. /\ current = p /\ current' = Nobody /\ asleep' = asleep \cup {p}
        /\ UNCHANGED <<ready, waiting, at>>
    BY DEF Block, Begins
  <2> QED BY <2>1, NobodyNowhere DEF IInv, ConstantsOK, OnePlace, Disjoint
<1>3. Queue' /\ Alone' /\ Lock' /\ Kept'
  BY InsideStays DEF Block, Begins, Member
<1> QED BY <1>1, <1>2, <1>3 DEF IInv

LEMMA WakeKeeps ==
  ASSUME ConstantsOK, IInv, NEW p \in Procs, Wake(p)
  PROVE  IInv'
<1>1. /\ Append(ready, p) \in Seq(Procs)
      /\ ElementsOf(Append(ready, p)) = ElementsOf(ready) \cup {p}
      /\ Injective(ready) /\ p \notin ElementsOf(ready) => Injective(Append(ready, p))
  BY AppendElements DEF IInv, TypeOK
<1>2. TypeOK'
  BY <1>1 DEF IInv, TypeOK, Wake
<1>3. OnePlace'
  <2>1. /\ p \in asleep /\ asleep' = asleep \ {p} /\ ready' = Append(ready, p)
        /\ UNCHANGED <<current, waiting, at>>
    BY DEF Wake
  <2> QED BY <1>1, <2>1 DEF IInv, OnePlace, Disjoint
<1>4. Queue' /\ Alone' /\ Lock' /\ Kept'
  BY InsideStays DEF Wake, Member
<1> QED BY <1>2, <1>3, <1>4 DEF IInv

(* The process that runs ends. *)
LEMMA EndKeepsPlaces ==
  ASSUME ConstantsOK, IInv, NEW p \in Procs, current = p, current' = Nobody,
         at' = [at EXCEPT ![p] = "dead"],
         UNCHANGED <<ready, waiting, asleep>>
  PROVE  OnePlace'
BY NobodyNowhere DEF IInv, TypeOK, ConstantsOK, OnePlace, Disjoint

LEMMA QuitKeeps ==
  ASSUME ConstantsOK, IInv, NEW p \in Procs, Quit(p)
  PROVE  IInv'
<1>1. TypeOK'
  BY DEF IInv, TypeOK, Quit
<1>2. OnePlace'
  BY EndKeepsPlaces DEF Quit
<1>3. Queue' /\ Alone' /\ Lock' /\ Kept'
  <2>1. /\ at \in [Procs -> {"outside", "called", "accept", "dead"}]
        /\ p # Server /\ current = p /\ at[p] = "outside" /\ at' = [at EXCEPT ![p] = "dead"]
        /\ UNCHANGED <<busy, waiting, opp, type, failed>>
    BY DEF IInv, TypeOK, Quit
  <2>2. \A q \in Procs : Member(q)' <=> Member(q)
    BY <2>1 DEF Member
  <2>3. at'[Server] = at[Server]
    BY <2>1, NobodyNowhere DEF IInv
  <2> QED BY <2>1, <2>2, <2>3, InsideStays
<1> QED BY <1>1, <1>2, <1>3 DEF IInv
-----------------------------------------------------------------------------
(* The calls *)

(* A caller is in the object, and nobody was. *)
LEMMA OpenEnterKeeps ==
  ASSUME ConstantsOK, IInv, NEW p \in Procs, SynchEnter(p), busy = 0
  PROVE  IInv'
<1>0. /\ p \in Callers /\ p # Server /\ current = p /\ at[p] = "outside"
      /\ at \in [Procs -> {"outside", "called", "accept", "dead"}]
      /\ at' = [at EXCEPT ![p] = "called"] /\ busy' = 1
      /\ UNCHANGED <<waiting, current, ready, asleep, type, failed>>
  BY DEF SynchEnter, Procs, IInv, TypeOK, Begins
<1>1. opp' \in [Callers -> Operations]
  BY <1>0 DEF SynchEnter, IInv, TypeOK
<1>2. at'[Server] = at[Server] /\ Server \in Procs /\ Callers \subseteq Procs
  BY <1>0, NobodyNowhere DEF IInv, Procs
<1>3. TypeOK'
  BY <1>0, <1>1, <1>2, Burnt DEF IInv, TypeOK, SynchEnter
<1>4. OnePlace'
  BY <1>0 DEF IInv, OnePlace
<1>5. waiting = <<>> /\ ElementsOf(waiting) = {} /\ at[Server] = "dead" /\ \A q \in Procs : ~In(q)
  BY EmptyElements DEF IInv, Lock
<1>6. \A q \in Procs : In(q)' <=> q = p
  BY <1>0, <1>5 DEF In, Member
<1>7. Queue' /\ Alone'
  BY <1>0, <1>5, <1>6 DEF Queue, Alone
<1>8. Lock' /\ Kept'
  BY <1>0, <1>2, <1>5, <1>6 DEF Lock, Kept
<1> QED BY <1>3, <1>4, <1>7, <1>8 DEF IInv

(* A caller joins the queue. *)
LEMMA LockedEnterKeeps ==
  ASSUME ConstantsOK, IInv, NEW p \in Procs, SynchEnter(p), busy \in {1, 3}
  PROVE  IInv'
<1>0. /\ p \in Callers /\ p # Server /\ current = p /\ at[p] = "outside"
      /\ at \in [Procs -> {"outside", "called", "accept", "dead"}]
      /\ at' = [at EXCEPT ![p] = "called"] /\ current' = Nobody
      /\ waiting' = Append(waiting, p)
      /\ UNCHANGED <<busy, ready, asleep, type, failed>>
  BY DEF SynchEnter, Queued, Procs, IInv, TypeOK, Begins
<1>1. opp' \in [Callers -> Operations]
  BY <1>0 DEF SynchEnter, IInv, TypeOK
<1>2. /\ waiting' \in Seq(Procs)
      /\ ElementsOf(waiting') = ElementsOf(waiting) \cup {p}
      /\ Injective(waiting) /\ p \notin ElementsOf(waiting) => Injective(waiting')
  BY <1>0, AppendElements DEF IInv, TypeOK
<1>3. at'[Server] = at[Server] /\ Server \in Procs /\ Callers \subseteq Procs
  BY <1>0, NobodyNowhere DEF IInv, Procs
<1>4. TypeOK'
  BY <1>0, <1>1, <1>2, <1>3, Burnt DEF IInv, TypeOK, SynchEnter
<1>5. OnePlace'
  BY <1>0, <1>2, NobodyNowhere DEF IInv, ConstantsOK, OnePlace, Disjoint
<1>6. \A q \in Procs : In(q)' <=> In(q)
  BY <1>0, <1>2 DEF In, Member
<1>7. Queue'
  <2>1. \A q \in ElementsOf(waiting') : Member(q)'
    BY <1>0, <1>2, NobodyNowhere DEF IInv, Queue, Member
  <2>2. ASSUME Server \in ElementsOf(waiting') PROVE Head(waiting') = Server
    <3>1. Server \in ElementsOf(waiting) /\ Head(waiting) = Server
      BY <1>0, <1>2, <2>2 DEF IInv, Queue
    <3>2. waiting # <<>>
      BY <3>1, EmptyElements
    <3> QED BY <1>0, <3>1, <3>2 DEF IInv, TypeOK
  <2> QED BY <2>1, <2>2 DEF Queue
<1>8. Alone'
  BY <1>6 DEF IInv, Alone
<1>9. Lock' /\ Kept'
  BY <1>0, <1>2, <1>3, <1>6 DEF IInv, Lock, Kept
<1> QED BY <1>4, <1>5, <1>7, <1>8, <1>9 DEF IInv

(* The object's process is run and looks at the queue again. *)
LEMMA WaitedForEnterKeeps ==
  ASSUME ConstantsOK, IInv, NEW p \in Procs, SynchEnter(p), busy = 2
  PROVE  IInv'
<1>0. /\ p \in Callers /\ p # Server /\ current = p /\ at[p] = "outside"
      /\ at \in [Procs -> {"outside", "called", "accept", "dead"}]
      /\ at' = [at EXCEPT ![p] = "called"] /\ current' = Head(waiting)
      /\ waiting' = Append(Tail(waiting), p)
      /\ UNCHANGED <<busy, ready, asleep, type, failed>>
  BY DEF SynchEnter, Queued, Procs, IInv, TypeOK, Begins
<1>1. opp' \in [Callers -> Operations]
  BY <1>0 DEF SynchEnter, IInv, TypeOK
<1>2. Server \in ElementsOf(waiting) /\ Head(waiting) = Server /\ waiting # <<>>
  BY <1>0, EmptyElements DEF IInv, Lock, Queue
<1>3. /\ Tail(waiting) \in Seq(Procs)
      /\ ElementsOf(waiting) = ElementsOf(Tail(waiting)) \cup {Server}
      /\ Injective(waiting) => /\ Injective(Tail(waiting))
                               /\ Server \notin ElementsOf(Tail(waiting))
  BY <1>2, TailElements DEF IInv, TypeOK
<1>4. /\ waiting' \in Seq(Procs)
      /\ ElementsOf(waiting') = ElementsOf(Tail(waiting)) \cup {p}
      /\ Injective(Tail(waiting)) /\ p \notin ElementsOf(Tail(waiting)) => Injective(waiting')
  <2> DEFINE t == Tail(waiting)
  <2>1. t \in Seq(Procs)
    BY <1>3
  <2> HIDE DEF t
  <2>2. /\ Append(t, p) \in Seq(Procs) /\ ElementsOf(Append(t, p)) = ElementsOf(t) \cup {p}
        /\ Injective(t) /\ p \notin ElementsOf(t) => Injective(Append(t, p))
    BY <2>1, AppendElements
  <2> QED BY <1>0, <2>2 DEF t
<1>5. at'[Server] = at[Server] /\ Server \in Procs /\ Callers \subseteq Procs
  BY <1>0, NobodyNowhere DEF IInv, Procs
<1>6. TypeOK'
  BY <1>0, <1>1, <1>2, <1>4, <1>5, Burnt DEF IInv, TypeOK, SynchEnter
<1>7. OnePlace'
  BY <1>0, <1>2, <1>3, <1>4 DEF IInv, OnePlace, Disjoint
<1>8. Server \notin ElementsOf(waiting')
  BY <1>0, <1>3, <1>4 DEF IInv, OnePlace
<1>9. \A c \in Callers : ~In(c) /\ c # Server
  BY DEF IInv, Lock, ConstantsOK
<1>10. \A c \in Callers : ~In(c)'
  BY <1>0, <1>3, <1>4, <1>9 DEF In, Member
<1>11. Queue'
  <2>1. \A q \in ElementsOf(waiting') : Member(q)'
    BY <1>0, <1>3, <1>4, NobodyNowhere DEF IInv, Queue, Member
  <2> QED BY <1>8, <2>1 DEF Queue
<1>12. Alone'
  BY <1>10 DEF Alone, Procs
<1>13. Lock' /\ Kept'
  BY <1>0, <1>2, <1>5, <1>10 DEF IInv, Lock, Kept
<1> QED BY <1>6, <1>7, <1>11, <1>12, <1>13 DEF IInv

LEMMA SynchEnterKeeps ==
  ASSUME ConstantsOK, IInv, NEW p \in Procs, SynchEnter(p)
  PROVE  IInv'
BY OpenEnterKeeps, LockedEnterKeeps, WaitedForEnterKeeps DEF IInv, TypeOK

(* The first of the queue takes the lock over from the process inside, a caller
   that returns or the object's own process that dies. *)
LEMMA HandOver ==
  ASSUME ConstantsOK, IInv, NEW p \in Procs, current = p, Member(p), at[p] # "accept",
         waiting # <<>>,
         ready' = Append(ready, Head(waiting)), waiting' = Tail(waiting)
  PROVE  /\ Head(waiting) \in Procs \ {p} /\ Member(Head(waiting))
         /\ ready' \in Seq(Procs) /\ waiting' \in Seq(Procs)
         /\ ElementsOf(ready') = ElementsOf(ready) \cup {Head(waiting)}
         /\ ElementsOf(waiting) = ElementsOf(waiting') \cup {Head(waiting)}
         /\ Head(waiting) \notin ElementsOf(waiting')
         /\ Server \notin ElementsOf(waiting')
         /\ Injective(ready') /\ Injective(waiting')
         /\ Head(waiting) \notin ElementsOf(ready)
         /\ \A q \in Procs \ {p} : Member(q) /\ q \notin ElementsOf(waiting') <=> q = Head(waiting)
<1> DEFINE h == Head(waiting)
<1>1. /\ h \in Procs /\ waiting' \in Seq(Procs)
      /\ h \in ElementsOf(waiting) /\ ElementsOf(waiting) = ElementsOf(waiting') \cup {h}
      /\ Injective(waiting) => Injective(waiting') /\ h \notin ElementsOf(waiting')
  BY TailElements DEF IInv, TypeOK
<1>2. Injective(waiting') /\ h \notin ElementsOf(waiting') /\ h \notin ElementsOf(ready) /\ h # p
  BY <1>1 DEF IInv, OnePlace, Disjoint
<1>3. Server \notin ElementsOf(waiting')
  BY <1>1, <1>2 DEF IInv, Queue
<1> HIDE DEF h
<1>4. /\ Append(ready, h) \in Seq(Procs)
      /\ ElementsOf(Append(ready, h)) = ElementsOf(ready) \cup {h}
      /\ Injective(ready) /\ h \notin ElementsOf(ready) => Injective(Append(ready, h))
  BY <1>1, AppendElements DEF IInv, TypeOK
<1>5. Injective(ready)
  BY DEF IInv, OnePlace
<1>6. Member(h)
  BY <1>1 DEF IInv, Queue
<1>7. \A q \in Procs \ {p} : Member(q) /\ q \notin ElementsOf(waiting') <=> q = h
  <2>1. \A q \in Procs : In(q) => q = p
    BY RunnerIsAlone
  <2> QED BY <1>1, <1>2, <1>6, <2>1 DEF In
<1>8. ready' = Append(ready, h)
  BY DEF h
<1> QED BY <1>1, <1>2, <1>3, <1>4, <1>5, <1>6, <1>7, <1>8 DEF h

LEMMA SynchExitKeeps ==
  ASSUME ConstantsOK, IInv, NEW p \in Procs, SynchExit(p)
  PROVE  IInv'
<1>0. /\ p \in Callers /\ p # Server /\ current = p /\ at[p] = "called" /\ Member(p)
      /\ at \in [Procs -> {"outside", "called", "accept", "dead"}]
      /\ at' = [at EXCEPT ![p] = "outside"]
      /\ UNCHANGED <<current, asleep, opp, type, failed, fuel>>
  BY DEF SynchExit, Procs, IInv, TypeOK, Member
<1>1. In(p) /\ \A q \in Procs : In(q) => q = p
  BY <1>0, RunnerIsAlone
<1>2. busy = 1 \/ (busy = 3 /\ Server \in ElementsOf(waiting))
  BY <1>0, <1>1 DEF IInv, Lock
<1>3. /\ at'[Server] = at[Server] /\ Server \in Procs /\ Callers \subseteq Procs
      /\ \A q \in Procs : Member(q)' <=> Member(q) /\ q # p
  BY <1>0, NobodyNowhere DEF IInv, Procs, Member
<1>4. CASE waiting # <<>> /\ ready' = Append(ready, Head(waiting))
             /\ waiting' = Tail(waiting) /\ UNCHANGED busy
  <2> PICK h : h = Head(waiting)
    OBVIOUS
  <2>1. /\ h \in Procs \ {p} /\ Member(h)
        /\ ready' \in Seq(Procs) /\ waiting' \in Seq(Procs)
        /\ ElementsOf(ready') = ElementsOf(ready) \cup {h}
        /\ ElementsOf(waiting) = ElementsOf(waiting') \cup {h}
        /\ h \notin ElementsOf(waiting') /\ Server \notin ElementsOf(waiting')
        /\ Injective(ready') /\ Injective(waiting')
        /\ h \notin ElementsOf(ready)
        /\ \A q \in Procs \ {p} : Member(q) /\ q \notin ElementsOf(waiting') <=> q = h
    BY <1>0, <1>4, HandOver
  <2>2. TypeOK'
    BY <1>0, <1>3, <1>4, <2>1 DEF IInv, TypeOK
  <2>3. OnePlace'
    BY <1>0, <1>4, <2>1 DEF IInv, OnePlace, Disjoint
  <2>4. \A q \in Procs : In(q)' <=> q = h
    BY <1>3, <2>1 DEF In
  <2>5. Alone'
    BY <2>4 DEF Alone
  <2>6. Queue'
    <3>1. p \notin ElementsOf(waiting)
      BY <1>1 DEF In
    <3>2. \A q \in ElementsOf(waiting') : Member(q)'
      BY <1>3, <2>1, <3>1, NobodyNowhere DEF IInv, Queue
    <3> QED BY <2>1, <3>2 DEF Queue
  <2>7. h = Server \/ Server \notin ElementsOf(waiting)
    BY DEF IInv, Queue
  <2>8. Lock'
    <3>1. busy' = 1 \/ (busy' = 3 /\ h = Server)
      BY <1>2, <1>4, <2>7
    <3> QED BY <1>2, <1>3, <1>4, <2>4, <3>1 DEF IInv, Lock, ConstantsOK
  <2>9. Kept'
    BY <1>0, <1>3, <1>4, <2>1, <2>4 DEF IInv, Kept
  <2> QED BY <2>2, <2>3, <2>5, <2>6, <2>8, <2>9 DEF IInv
<1>5. CASE waiting = <<>> /\ busy' = 0 /\ UNCHANGED <<ready, waiting>>
  <2>1. ElementsOf(waiting) = {} /\ busy = 1 /\ at[Server] = "dead"
    BY <1>2, <1>5, EmptyElements DEF IInv, Lock
  <2>2. TypeOK'
    BY <1>0, <1>3, <1>5 DEF IInv, TypeOK
  <2>3. OnePlace'
    BY <1>0, <1>5 DEF IInv, OnePlace
  <2>4. \A q \in Procs : ~In(q)'
    BY <1>1, <1>3, <1>5, <2>1 DEF In
  <2>5. Queue' /\ Alone'
    BY <1>5, <2>1, <2>4 DEF Queue, Alone
  <2>6. Lock' /\ Kept'
    BY <1>3, <1>5, <2>1, <2>4 DEF Lock, Kept
  <2> QED BY <2>2, <2>3, <2>5, <2>6 DEF IInv
<1> QED BY <1>4, <1>5 DEF SynchExit

LEMMA FailKeeps ==
  ASSUME ConstantsOK, IInv, NEW p \in Procs, Fail(p)
  PROVE  IInv'
<1>0. /\ p \in Callers /\ p # Server /\ current = p /\ at[p] = "called"
      /\ at \in [Procs -> {"outside", "called", "accept", "dead"}]
      /\ \/ at' = [at EXCEPT ![p] = "outside"] /\ UNCHANGED current
         \/ at' = [at EXCEPT ![p] = "dead"] /\ current' = Nobody
      /\ UNCHANGED <<busy, waiting, ready, asleep, opp, type, fuel>>
      /\ failed' = TRUE
  BY DEF Fail, Procs, IInv, TypeOK
<1>1. /\ at'[Server] = at[Server] /\ Server \in Procs /\ Callers \subseteq Procs
      /\ \A q \in Procs : Member(q)' <=> Member(q) /\ q # p
  BY <1>0, NobodyNowhere DEF IInv, Procs, Member
<1>2. TypeOK'
  BY <1>0, <1>1 DEF IInv, TypeOK
<1>3. OnePlace'
  <2>1. CASE at' = [at EXCEPT ![p] = "outside"] /\ UNCHANGED current
    BY <1>0, <2>1 DEF IInv, OnePlace
  <2>2. CASE at' = [at EXCEPT ![p] = "dead"] /\ current' = Nobody
    BY <1>0, <2>2, EndKeepsPlaces
  <2> QED BY <1>0, <2>1, <2>2
<1>4. \A q \in Procs : In(q)' => In(q)
  BY <1>0, <1>1 DEF In
<1>5. Queue' /\ Alone'
  <2>1. p \notin ElementsOf(waiting)
    BY <1>0 DEF IInv, OnePlace
  <2> QED BY <1>0, <1>1, <1>4, <2>1, NobodyNowhere DEF IInv, Queue, Alone
<1>6. Lock' /\ Kept'
  <2>1. current' # Server => current # Server
    BY <1>0
  <2> QED BY <1>0, <1>1, <1>4, <2>1 DEF IInv, Lock, Kept
<1> QED BY <1>2, <1>3, <1>5, <1>6 DEF IInv
-----------------------------------------------------------------------------
(* The object's process *)

(* At an accept statement nobody is inside but the process. *)
LEMMA AtAccept ==
  ASSUME ConstantsOK, IInv, current = Server, at[Server] \in {"outside", "accept"}
  PROVE  /\ Server \in Procs /\ Callers \subseteq Procs
         /\ Server \notin ElementsOf(waiting)
         /\ \A c \in Callers : ~In(c) /\ c # Server
<1>1. Server \in Procs /\ Callers \subseteq Procs /\ Member(Server)
  BY NobodyNowhere DEF IInv, Procs, Member
<1>2. In(Server) /\ \A q \in Procs : In(q) => q = Server
  BY <1>1, RunnerIsAlone
<1> QED BY <1>1, <1>2 DEF In, ConstantsOK

LEMMA ServersFuel ==
  ASSUME ConstantsOK, TypeOK, NEW t, AcptBlck(t)
  PROVE  fuel' \in [Procs -> Nat]
BY Burnt, NobodyNowhere DEF AcptBlck, TypeOK

LEMMA AcceptedKeeps ==
  ASSUME ConstantsOK, IInv, NEW t \in SUBSET Operations, AcptBlck(t), Accepted(t)
  PROVE  IInv'
<1>0. /\ current = Server /\ at[Server] \in {"outside", "accept"}
      /\ type' = t /\ UNCHANGED <<ready, asleep, opp, failed>>
  BY DEF AcptBlck
<1>1. PICK i \in 1..Len(waiting) :
        /\ current' = waiting[i]
        /\ waiting' = <<Server>> \o RemoveAt(waiting, i)
        /\ busy' = 3 /\ at' = [at EXCEPT ![Server] = "outside"]
  BY LenProperties DEF Accepted, Acceptable, IInv, TypeOK
<1>2. PICK h, w : h = waiting[i] /\ w = RemoveAt(waiting, i)
  OBVIOUS
<1>3. /\ w \in Seq(Procs)
      /\ ElementsOf(waiting) = ElementsOf(w) \cup {h}
      /\ Injective(waiting) => Injective(w) /\ h \notin ElementsOf(w)
  BY <1>2, RemoveElements DEF IInv, TypeOK
<1>4. /\ Server \in Procs /\ Callers \subseteq Procs
      /\ Server \notin ElementsOf(waiting)
      /\ \A c \in Callers : ~In(c) /\ c # Server
  BY <1>0, AtAccept
<1>5. /\ waiting' \in Seq(Procs)
      /\ ElementsOf(waiting') = ElementsOf(w) \cup {Server}
      /\ Injective(w) /\ Server \notin ElementsOf(w) => Injective(waiting')
  BY <1>1, <1>2, <1>3, <1>4, PushElements
<1>6. h \in Callers /\ Injective(w) /\ h \notin ElementsOf(w) /\ Server \notin ElementsOf(w)
  BY <1>3, <1>4, NobodyNowhere DEF IInv, OnePlace, Procs
<1>7. /\ at \in [Procs -> {"outside", "called", "accept", "dead"}]
      /\ at'[Server] = "outside" /\ \A c \in Callers : at'[c] = at[c]
  BY <1>1, <1>4 DEF IInv, TypeOK
<1>8. TypeOK'
  BY <1>0, <1>1, <1>2, <1>4, <1>5, <1>6, <1>7, ServersFuel DEF IInv, TypeOK
<1>9. OnePlace'
  <2>1. /\ current' = h /\ UNCHANGED <<ready, asleep>>
        /\ \A p \in Procs : at'[p] = "dead" <=> at[p] = "dead"
    BY <1>0, <1>1, <1>2, <1>7 DEF Procs
  <2> QED BY <1>0, <1>3, <1>4, <1>5, <1>6, <2>1 DEF IInv, OnePlace, Disjoint
<1>10. \A p \in Procs : Member(p)' <=> Member(p)
  BY <1>0, <1>7 DEF Member, Procs
<1>11. \A p \in Procs : In(p)' <=> p = h
  <2>1. \A p \in Procs : Member(p) /\ p \notin ElementsOf(waiting) => p = Server
    BY <1>4 DEF In, Procs
  <2>2. Member(h)
    BY <1>3 DEF IInv, Queue
  <2>3. h # Server /\ h \notin ElementsOf(w)
    BY <1>4, <1>6
  <2> QED BY <1>3, <1>5, <1>10, <2>1, <2>2, <2>3 DEF In
<1>12. Queue' /\ Alone'
  <2>1. Head(waiting') = Server
    BY <1>1, <1>2, <1>3
  <2>2. \A p \in ElementsOf(waiting') : Member(p)'
    BY <1>3, <1>4, <1>5, <1>7, <1>10, NobodyNowhere DEF IInv, Queue, Member
  <2> QED BY <1>11, <2>1, <2>2 DEF Queue, Alone
<1>13. Lock' /\ Kept'
  BY <1>1, <1>4, <1>5, <1>6, <1>7, <1>11 DEF Lock, Kept
<1> QED BY <1>8, <1>9, <1>12, <1>13 DEF IInv

LEMMA OpenedKeeps ==
  ASSUME ConstantsOK, IInv, NEW t \in SUBSET Operations, AcptBlck(t), Opened(t)
  PROVE  IInv'
<1>0. /\ current = Server /\ at[Server] \in {"outside", "accept"}
      /\ type' = t /\ UNCHANGED <<ready, asleep, opp, failed>>
      /\ Acceptable(t) = {} /\ current' = Nobody /\ busy' = 2
      /\ waiting' = <<Server>> \o waiting
      /\ at' = [at EXCEPT ![Server] = "accept"]
  BY DEF AcptBlck, Opened
<1>1. /\ Server \in Procs /\ Callers \subseteq Procs
      /\ Server \notin ElementsOf(waiting)
      /\ \A c \in Callers : ~In(c) /\ c # Server
  BY <1>0, AtAccept
<1>2. /\ waiting' \in Seq(Procs)
      /\ ElementsOf(waiting') = ElementsOf(waiting) \cup {Server}
      /\ Injective(waiting) /\ Server \notin ElementsOf(waiting) => Injective(waiting')
  BY <1>0, <1>1, PushElements DEF IInv, TypeOK
<1>3. /\ at \in [Procs -> {"outside", "called", "accept", "dead"}]
      /\ at'[Server] = "accept" /\ \A c \in Callers : at'[c] = at[c]
  BY <1>0, <1>1 DEF IInv, TypeOK
<1>4. TypeOK'
  BY <1>0, <1>1, <1>2, <1>3, ServersFuel DEF IInv, TypeOK
<1>5. OnePlace'
  <2>1. \A p \in Procs : at'[p] = "dead" <=> at[p] = "dead"
    BY <1>0, <1>3 DEF Procs
  <2>2. /\ ElementsOf(ready) \subseteq Procs /\ ElementsOf(waiting) \subseteq Procs
        /\ asleep \subseteq Procs /\ Nobody \notin Procs
    BY NobodyNowhere DEF IInv, TypeOK, ConstantsOK
  <2> QED BY <1>0, <1>1, <1>2, <2>1, <2>2 DEF IInv, OnePlace, Disjoint
<1>6. \A p \in Procs : Member(p)' <=> Member(p)
  BY <1>0, <1>3 DEF Member, Procs
<1>7. \A p \in Procs : ~In(p)'
  BY <1>1, <1>2, <1>6 DEF In, Procs
<1>8. Queue' /\ Alone'
  <2>1. Head(waiting') = Server
    BY <1>0 DEF IInv, TypeOK
  <2>2. \A p \in ElementsOf(waiting') : Member(p)'
    BY <1>2, <1>3, <1>6, NobodyNowhere DEF IInv, Queue, Member
  <2> QED BY <1>7, <2>1, <2>2 DEF Queue, Alone
<1>9. \A c \in ElementsOf(waiting') : c # Server => opp[c] \notin t
  <2>1. \A i \in 1..Len(waiting) : opp[waiting[i]] \notin t
    BY <1>0, LenProperties DEF Acceptable, IInv, TypeOK
  <2> QED BY <1>2, <2>1 DEF ElementsOf
<1>10. Lock' /\ Kept'
  BY <1>0, <1>1, <1>2, <1>3, <1>7, <1>9 DEF Lock, Kept
<1> QED BY <1>4, <1>5, <1>8, <1>10 DEF IInv

LEMMA AcptBlckKeeps ==
  ASSUME ConstantsOK, IInv, NEW t \in SUBSET Operations, AcptBlck(t)
  PROVE  IInv'
BY AcceptedKeeps, OpenedKeeps DEF AcptBlck

LEMMA SynchDieKeeps ==
  ASSUME ConstantsOK, IInv, SynchDie
  PROVE  IInv'
<1>0. /\ current = Server /\ at[Server] = "outside" /\ current' = Nobody
      /\ at' = [at EXCEPT ![Server] = "dead"]
      /\ UNCHANGED <<asleep, opp, type, failed, fuel>>
  BY DEF SynchDie
<1>1. /\ Server \in Procs /\ Callers \subseteq Procs
      /\ Server \notin ElementsOf(waiting) /\ Member(Server)
      /\ \A c \in Callers : ~In(c) /\ c # Server
  BY <1>0, AtAccept DEF Member
<1>2. /\ at \in [Procs -> {"outside", "called", "accept", "dead"}]
      /\ at'[Server] = "dead" /\ \A c \in Callers : at'[c] = at[c]
      /\ \A q \in Procs : Member(q)' <=> Member(q) /\ q # Server
  BY <1>0, <1>1 DEF IInv, TypeOK, Member, Procs
<1>3. CASE waiting # <<>> /\ ready' = Append(ready, Head(waiting))
             /\ waiting' = Tail(waiting) /\ busy' = 1
  <2> PICK h : h = Head(waiting)
    OBVIOUS
  <2>1. /\ h \in Procs \ {Server} /\ Member(h)
        /\ ready' \in Seq(Procs) /\ waiting' \in Seq(Procs)
        /\ ElementsOf(ready') = ElementsOf(ready) \cup {h}
        /\ ElementsOf(waiting) = ElementsOf(waiting') \cup {h}
        /\ h \notin ElementsOf(waiting') /\ Server \notin ElementsOf(waiting')
        /\ Injective(ready') /\ Injective(waiting')
        /\ h \notin ElementsOf(ready)
        /\ \A q \in Procs \ {Server} : Member(q) /\ q \notin ElementsOf(waiting') <=> q = h
    BY <1>0, <1>1, <1>3, HandOver
  <2>2. TypeOK'
    BY <1>0, <1>1, <1>2, <1>3, <2>1 DEF IInv, TypeOK
  <2>3. OnePlace'
    <3>1. /\ ElementsOf(ready) \subseteq Procs /\ ElementsOf(waiting) \subseteq Procs
          /\ asleep \subseteq Procs /\ Nobody \notin Procs
      BY NobodyNowhere DEF IInv, TypeOK, ConstantsOK
    <3>2. \A p \in Procs : at'[p] = "dead" <=> at[p] = "dead" \/ p = Server
      BY <1>2 DEF Procs
    <3> QED BY <1>0, <1>3, <2>1, <3>1, <3>2 DEF IInv, OnePlace, Disjoint
  <2>4. \A q \in Procs : In(q)' <=> q = h
    BY <1>2, <2>1 DEF In
  <2>5. Queue' /\ Alone'
    BY <1>1, <1>2, <2>1, <2>4, NobodyNowhere DEF IInv, Queue, Alone
  <2>6. Lock' /\ Kept'
    BY <1>2, <1>3, <2>1, <2>4 DEF Lock, Kept
  <2> QED BY <2>2, <2>3, <2>5, <2>6 DEF IInv
<1>4. CASE waiting = <<>> /\ busy' = 0 /\ UNCHANGED <<ready, waiting>>
  <2>1. ElementsOf(waiting) = {}
    BY <1>4, EmptyElements
  <2>2. TypeOK'
    BY <1>0, <1>1, <1>2, <1>4 DEF IInv, TypeOK
  <2>3. OnePlace'
    BY <1>0, <1>1, <1>4, EndKeepsPlaces
  <2>4. \A q \in Procs : ~In(q)'
    BY <1>1, <1>2, <1>4, <2>1 DEF In, Procs
  <2>5. Queue' /\ Alone'
    BY <1>4, <2>1, <2>4 DEF Queue, Alone
  <2>6. Lock' /\ Kept'
    BY <1>1, <1>2, <1>4, <2>4 DEF Lock, Kept
  <2> QED BY <2>2, <2>3, <2>5, <2>6 DEF IInv
<1> QED BY <1>3, <1>4 DEF SynchDie

LEMMA ServerFailsKeeps ==
  ASSUME ConstantsOK, IInv, ServerFails
  PROVE  IInv'
<1>0. /\ current = Server /\ at[Server] = "outside" /\ current' = Nobody
      /\ at' = [at EXCEPT ![Server] = "dead"]
      /\ UNCHANGED <<busy, waiting, ready, asleep, opp, type, fuel>>
      /\ failed' = TRUE
  BY DEF ServerFails
<1>1. /\ Server \in Procs /\ Callers \subseteq Procs
      /\ Server \notin ElementsOf(waiting)
      /\ \A c \in Callers : ~In(c) /\ c # Server
  BY <1>0, AtAccept
<1>2. /\ at \in [Procs -> {"outside", "called", "accept", "dead"}]
      /\ at'[Server] = "dead" /\ \A c \in Callers : at'[c] = at[c]
      /\ \A q \in Procs : Member(q)' <=> Member(q) /\ q # Server
  BY <1>0, <1>1 DEF IInv, TypeOK, Member, Procs
<1>3. TypeOK'
  BY <1>0, <1>1, <1>2 DEF IInv, TypeOK
<1>4. OnePlace'
  BY <1>0, <1>1, EndKeepsPlaces
<1>5. \A q \in Procs : ~In(q)'
  BY <1>0, <1>1, <1>2 DEF In, Procs
<1>6. Queue' /\ Alone'
  BY <1>0, <1>1, <1>2, <1>5, NobodyNowhere DEF IInv, Queue, Alone
<1>7. busy = 3
  BY <1>0 DEF IInv, Lock, TypeOK
<1>8. Lock' /\ Kept'
  BY <1>0, <1>1, <1>2, <1>5, <1>7 DEF Lock, Kept
<1> QED BY <1>3, <1>4, <1>6, <1>8 DEF IInv
-----------------------------------------------------------------------------
LEMMA Beginning == ASSUME ConstantsOK, Init PROVE IInv
<1>1. /\ ElementsOf(waiting) = {} /\ ElementsOf(ready) = {}
      /\ Injective(waiting) /\ Injective(ready)
  BY EmptyElements DEF Init
<1>2. Server \in Procs /\ Callers \subseteq Procs /\ Server \notin Callers
  BY DEF Procs, ConstantsOK
<1>3. TypeOK
  <2>1. (CHOOSE o \in Operations : TRUE) \in Operations
    BY DEF ConstantsOK
  <2>2. opp \in [Callers -> Operations]
    BY <2>1 DEF Init
  <2>3. fuel \in [Procs -> Nat]
    BY DEF Init, ConstantsOK
  <2>4. /\ at \in [Procs -> {"outside", "called", "accept", "dead"}]
        /\ \A p \in Procs : at[p] = "outside"
    BY DEF Init
  <2>5. busy \in 0..3 /\ waiting \in Seq(Procs) /\ ready \in Seq(Procs)
    BY DEF Init
  <2> QED BY <1>2, <2>2, <2>3, <2>4, <2>5 DEF Init, TypeOK
<1>4. OnePlace
  BY <1>1, <1>2 DEF Init, OnePlace, Disjoint, ConstantsOK
<1>5. \A p \in Procs : In(p) <=> p = Server
  BY <1>1, <1>2 DEF Init, In, Member
<1>6. Queue /\ Alone /\ Lock /\ Kept
  BY <1>1, <1>2, <1>5 DEF Init, Queue, Alone, Lock, Kept
<1> QED BY <1>3, <1>4, <1>6 DEF IInv

LEMMA Inductive == ASSUME ConstantsOK PROVE IInv /\ [Next]_vars => IInv'
<1> SUFFICES ASSUME IInv, [Next]_vars PROVE IInv'
  OBVIOUS
<1>1. ASSUME NEW p \in Procs,
             Block(p) \/ Wake(p) \/ Quit(p) \/ SynchEnter(p) \/ SynchExit(p) \/ Fail(p)
      PROVE  IInv'
  BY <1>1, BlockKeeps, WakeKeeps, QuitKeeps, SynchEnterKeeps, SynchExitKeeps, FailKeeps
<1>2. ASSUME NEW t \in SUBSET Operations, AcptBlck(t) PROVE IInv'
  BY <1>2, AcptBlckKeeps
<1>3. CASE Dispatch \/ SynchDie \/ ServerFails
  BY <1>3, DispatchKeeps, SynchDieKeeps, ServerFailsKeeps
<1>4. CASE UNCHANGED vars
  <2>1. TypeOK' /\ OnePlace'
    BY <1>4 DEF IInv, TypeOK, OnePlace, vars
  <2>2. Queue' /\ Alone' /\ Lock' /\ Kept'
    BY <1>4, InsideStays DEF vars, Member
  <2> QED BY <2>1, <2>2 DEF IInv
<1> QED BY <1>1, <1>2, <1>3, <1>4 DEF Next

LEMMA Invariance == ConstantsOK => (Spec => []IInv)
<1> SUFFICES ASSUME ConstantsOK PROVE Spec => []IInv
  OBVIOUS
<1>1. Init => IInv
  BY Beginning
<1>2. IInv /\ [Next]_vars => IInv'
  BY Inductive
<1> QED BY <1>1, <1>2, PTL DEF Spec

(* Type correctness of the lock, the queue and the processes; as long as the
   object's process is none of its callers. *)
THEOREM TypeCorrect == ConstantsOK => (Spec => []TypeOK)
<1>1. IInv => TypeOK
  BY DEF IInv
<1> QED BY <1>1, Invariance, PTL

(* SYNCHENTER, SYNCHEXIT, SYNCHDIE, ACPTBLCK and the failures lose no process
   and put none in two places. *)
THEOREM NobodyLost == ConstantsOK => (Spec => []OnePlace)
<1>1. IInv => OnePlace
  BY DEF IInv
<1> QED BY <1>1, Invariance, PTL

(* One process at a time is in an object that accepts, and busy says who may
   come next, whatever the callers do and when. *)
THEOREM AcceptedAlone == ConstantsOK => (Spec => []OneInside)
<1> SUFFICES ASSUME ConstantsOK PROVE Spec => []OneInside
  OBVIOUS
<1>1. ASSUME IInv PROVE OneInside
  <2>0. /\ waiting \in Seq(Procs) /\ Len(waiting) \in Nat
        /\ DOMAIN waiting = 1..Len(waiting)
        /\ ToSet(waiting) = ElementsOf(waiting)
    <3>1. waiting \in Seq(Procs)
      BY <1>1 DEF IInv, TypeOK
    <3>2. Len(waiting) \in Nat /\ DOMAIN waiting = 1..Len(waiting)
      BY <3>1, LenProperties
    <3> QED BY <3>1, <3>2 DEF ToSet, ElementsOf
  <2>1. \A p \in Procs : p \in Inside <=> In(p)
    BY <2>0 DEF Inside, In, Member
  <2>2. Inside \subseteq Procs /\ Server \in Procs /\ Callers \subseteq Procs
    BY DEF Inside, Procs
  <2>3. Cardinality(Inside) <= 1
    <3>1. CASE Inside = {}
      BY <3>1, FS_EmptySet
    <3>2. CASE Inside # {}
      <4>1. PICK p \in Procs : In(p)
        BY <2>1, <2>2, <3>2
      <4>2. Inside = {p}
        BY <1>1, <2>1, <2>2, <4>1 DEF IInv, Alone
      <4> QED BY <4>2, FS_Singleton
    <3> QED BY <3>1, <3>2
  <2>4. ASSUME busy = 2, current # Server
        PROVE  /\ Inside = {} /\ Head(waiting) = Server
               /\ \A i \in 2..Len(waiting) : opp[waiting[i]] \notin type
    <3>1. /\ Server \in ElementsOf(waiting) /\ Head(waiting) = Server
          /\ \A c \in ElementsOf(waiting) : c # Server => opp[c] \notin type
          /\ \A c \in Callers : ~In(c)
      BY <1>1, <2>4 DEF IInv, Lock, Queue
    <3>2. Inside = {}
      BY <2>1, <2>2, <3>1 DEF In, Procs
    <3>3. waiting # <<>> /\ waiting[1] = Server /\ 1 \in 1..Len(waiting)
      <4>1. waiting # <<>>
        BY <3>1, EmptyElements
      <4> QED BY <2>0, <3>1, <4>1
    <3>4. ASSUME NEW i \in 2..Len(waiting) PROVE opp[waiting[i]] \notin type
      <4>1. i \in 1..Len(waiting) /\ i # 1
        BY <2>0
      <4>2. waiting[i] \in ElementsOf(waiting) /\ waiting[i] # Server
        BY <1>1, <3>3, <4>1 DEF IInv, OnePlace, Injective, ElementsOf
      <4> QED BY <3>1, <4>2
    <3> QED BY <3>1, <3>2, <3>4
  <2>5. busy = 0 => Inside = {} /\ waiting = <<>>
    BY <1>1, <2>1, <2>2 DEF IInv, Lock
  <2>6. \A p \in Inside \cap Callers : waiting = <<>> => busy = 1
    BY <1>1, <2>1, <2>2, EmptyElements DEF IInv, Lock
  <2>7. Server \in Inside /\ at[Server] = "outside" => busy = 3
    BY <1>1 DEF IInv, TypeOK, Lock
  <2>8. ~failed => (busy \in {0, 1} <=> at[Server] = "dead") /\ (busy \in {1, 3} => Inside # {})
    BY <1>1, <2>1 DEF IInv, Lock, Kept
  <2> QED BY <2>3, <2>4, <2>5, <2>6, <2>7, <2>8 DEF OneInside
<1>2. Spec => []IInv
  BY Invariance
<1> QED BY <1>1, <1>2, PTL
-----------------------------------------------------------------------------
(* The queue as it was, but for one that left it *)
Leaves(h) == ElementsOf(waiting) \subseteq ElementsOf(waiting') \cup {h}

LEMMA OnlyOneLeft ==
  ASSUME TypeOK, NEW h, Leaves(h), NEW i \in DOMAIN waiting,
         waiting[i] \notin ToSet(waiting'), waiting' \in Seq(Procs)
  PROVE  waiting[i] = h /\ i \in 1..Len(waiting)
<1>1. DOMAIN waiting = 1..Len(waiting) /\ DOMAIN waiting' = 1..Len(waiting')
  BY LenProperties DEF TypeOK
<1>2. ToSet(waiting') = ElementsOf(waiting')
  BY <1>1 DEF ToSet, ElementsOf
<1>3. waiting[i] \in ElementsOf(waiting)
  BY <1>1 DEF ElementsOf
<1> QED BY <1>1, <1>2, <1>3 DEF Leaves

(* The head is handed the lock. *)
LEMMA HeadInTurn ==
  ASSUME ConstantsOK, IInv, IInv', waiting # <<>>, Leaves(Head(waiting)),
         busy' = 3 => Head(waiting) = Server
  PROVE  InTurn
<1> SUFFICES ASSUME NEW i \in DOMAIN waiting,
                    waiting[i] \in Callers, waiting[i] \notin ToSet(waiting')
             PROVE  i = 1 /\ busy' # 3
  BY DEF InTurn
<1>1. waiting \in Seq(Procs) /\ waiting' \in Seq(Procs)
  BY DEF IInv, TypeOK
<1>2. waiting[i] = Head(waiting) /\ i \in 1..Len(waiting)
  BY <1>1, OnlyOneLeft DEF IInv
<1>3. Head(waiting) = waiting[1] /\ 1 \in 1..Len(waiting)
  BY <1>1
<1>4. i = 1
  BY <1>2, <1>3 DEF IInv, OnePlace, Injective
<1>5. waiting[i] # Server
  BY DEF ConstantsOK
<1> QED BY <1>2, <1>4, <1>5

LEMMA NoneLeaves ==
  ASSUME IInv, IInv', ElementsOf(waiting) \subseteq ElementsOf(waiting')
  PROVE  InTurn
<1> SUFFICES ASSUME NEW i \in DOMAIN waiting, waiting[i] \notin ToSet(waiting')
             PROVE  FALSE
  BY DEF InTurn
<1>1. waiting[i] \in ElementsOf(waiting)
  BY LenProperties DEF IInv, TypeOK, ElementsOf
<1>2. ToSet(waiting') = ElementsOf(waiting')
  <2>1. DOMAIN waiting' = 1..Len(waiting')
    BY LenProperties DEF IInv, TypeOK
  <2> QED BY <2>1 DEF ToSet, ElementsOf
<1> QED BY <1>1, <1>2

LEMMA EnterInTurn ==
  ASSUME ConstantsOK, IInv, IInv', NEW p \in Procs, SynchEnter(p)
  PROVE  InTurn
<1>1. waiting \in Seq(Procs) /\ p \in Procs
  BY DEF IInv, TypeOK
<1>2. CASE busy = 2
  <2>1. waiting' = Append(Tail(waiting), p) /\ busy' = 2
    BY <1>2 DEF SynchEnter, Queued
  <2>2. Server \in ElementsOf(waiting) /\ waiting # <<>>
    BY <1>2, EmptyElements DEF IInv, Lock, SynchEnter, Begins
  <2>3. PICK t, h : t = Tail(waiting) /\ h = Head(waiting)
    OBVIOUS
  <2>4. t \in Seq(Procs) /\ ElementsOf(waiting) = ElementsOf(t) \cup {h}
    BY <1>1, <2>2, <2>3, TailElements
  <2>5. ElementsOf(waiting') = ElementsOf(t) \cup {p}
    <3>1. ElementsOf(Append(t, p)) = ElementsOf(t) \cup {p}
      BY <2>4, AppendElements
    <3> QED BY <2>1, <2>3, <3>1
  <2> QED BY <2>1, <2>2, <2>3, <2>4, <2>5, HeadInTurn DEF Leaves
<1>3. CASE busy # 2
  <2>1. waiting' = waiting \/ waiting' = Append(waiting, p)
    BY <1>3 DEF SynchEnter, Queued
  <2>2. ElementsOf(Append(waiting, p)) = ElementsOf(waiting) \cup {p}
    BY <1>1, AppendElements
  <2>3. ElementsOf(waiting) \subseteq ElementsOf(waiting')
    BY <2>1, <2>2
  <2> QED BY <2>3, NoneLeaves
<1> QED BY <1>2, <1>3

LEMMA ExitInTurn ==
  ASSUME ConstantsOK, IInv, IInv', NEW p \in Procs, SynchExit(p)
  PROVE  InTurn
<1>1. CASE waiting # <<>> /\ waiting' = Tail(waiting) /\ UNCHANGED busy
  <2>1. Leaves(Head(waiting))
    BY <1>1, TailElements DEF IInv, TypeOK, Leaves
  <2>2. busy = 3 => Head(waiting) = Server
    <3>1. p \in Callers /\ current = p /\ Member(p)
      BY DEF SynchExit, Procs, Member
    <3>2. In(p)
      BY <3>1, RunnerIsAlone
    <3> QED BY <3>1, <3>2 DEF IInv, Lock, Queue
  <2> QED BY <1>1, <2>1, <2>2, HeadInTurn
<1>2. CASE UNCHANGED waiting
  BY <1>2, NoneLeaves
<1> QED BY <1>1, <1>2 DEF SynchExit

LEMMA DieInTurn ==
  ASSUME ConstantsOK, IInv, IInv', SynchDie
  PROVE  InTurn
<1>1. CASE waiting # <<>> /\ waiting' = Tail(waiting) /\ busy' = 1
  <2>1. Leaves(Head(waiting))
    BY <1>1, TailElements DEF IInv, TypeOK, Leaves
  <2> QED BY <1>1, <2>1, HeadInTurn
<1>2. CASE UNCHANGED waiting
  BY <1>2, NoneLeaves
<1> QED BY <1>1, <1>2 DEF SynchDie

LEMMA AcceptInTurn ==
  ASSUME ConstantsOK, IInv, IInv', NEW t \in SUBSET Operations, AcptBlck(t)
  PROVE  InTurn
<1>0. /\ waiting \in Seq(Procs) /\ waiting' \in Seq(Procs) /\ DOMAIN waiting = 1..Len(waiting)
      /\ current = Server /\ at[Server] \in {"outside", "accept"} /\ type' = t
  BY LenProperties DEF IInv, TypeOK, AcptBlck
<1>1. CASE Accepted(t)
  <2>1. PICK k \in Acceptable(t) :
          /\ \A j \in Acceptable(t) : k <= j
          /\ current' = waiting[k] /\ waiting' = <<Server>> \o RemoveAt(waiting, k)
          /\ busy' = 3
    BY <1>1 DEF Accepted
  <2>2. k \in 1..Len(waiting)
    BY <1>0, <2>1 DEF Acceptable
  <2>3. Leaves(waiting[k])
    <3>1. PICK h, w : h = waiting[k] /\ w = RemoveAt(waiting, k)
      OBVIOUS
    <3>2. w \in Seq(Procs) /\ ElementsOf(waiting) = ElementsOf(w) \cup {h}
      BY <1>0, <2>2, <3>1, RemoveElements
    <3>3. Server \in Procs
      BY DEF Procs
    <3>4. ElementsOf(waiting') = ElementsOf(w) \cup {Server}
      BY <2>1, <3>1, <3>2, <3>3, PushElements
    <3> QED BY <3>1, <3>2, <3>4 DEF Leaves
  <2>4. ASSUME NEW i \in DOMAIN waiting, waiting[i] \notin ToSet(waiting')
        PROVE  i = k
    <3>1. waiting[i] = waiting[k] /\ i \in 1..Len(waiting)
      BY <1>0, <2>3, <2>4, OnlyOneLeft DEF IInv
    <3> QED BY <2>2, <3>1 DEF IInv, OnePlace, Injective
  <2> QED BY <1>0, <2>1, <2>4 DEF InTurn
<1>2. CASE Opened(t)
  <2>1. waiting' = <<Server>> \o waiting /\ Server \in Procs
    BY <1>2 DEF Opened, Procs
  <2>2. ElementsOf(waiting) \subseteq ElementsOf(waiting')
    BY <1>0, <2>1, PushElements
  <2> QED BY <2>2, NoneLeaves
<1> QED BY <1>1, <1>2 DEF AcptBlck

(* While the process lives, a caller leaves the queue only when it is the first
   one whose operation is accepted; when it is dead, the first of all leaves. *)
THEOREM CallersInTurn == ConstantsOK => (Spec => [][InTurn]_vars)
<1> SUFFICES ASSUME ConstantsOK PROVE Spec => [][InTurn]_vars
  OBVIOUS
<1>1. ASSUME IInv, IInv', [Next]_vars PROVE [InTurn]_vars
  <2>1. ASSUME NEW p \in Procs, Block(p) \/ Wake(p) \/ Quit(p) \/ Fail(p) PROVE InTurn
    <3>1. UNCHANGED waiting
      BY <2>1 DEF Block, Wake, Quit, Fail
    <3> QED BY <1>1, <3>1, NoneLeaves
  <2>2. ASSUME NEW p \in Procs, SynchEnter(p) \/ SynchExit(p) PROVE InTurn
    BY <1>1, <2>2, EnterInTurn, ExitInTurn
  <2>3. ASSUME NEW t \in SUBSET Operations, AcptBlck(t) PROVE InTurn
    BY <1>1, <2>3, AcceptInTurn
  <2>4. CASE SynchDie
    BY <1>1, <2>4, DieInTurn
  <2>5. CASE Dispatch \/ ServerFails
    <3>1. UNCHANGED waiting
      BY <2>5 DEF Dispatch, ServerFails
    <3> QED BY <1>1, <3>1, NoneLeaves
  <2> QED BY <1>1, <2>1, <2>2, <2>3, <2>4, <2>5 DEF Next
<1>2. Spec => []IInv
  BY Invariance
<1> QED BY <1>1, <1>2, PTL DEF Spec
=============================================================================
