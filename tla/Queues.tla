------------------------------- MODULE Queues -------------------------------
(***************************************************************************)
(* What the models of processes say of their queues, as sequences: who is  *)
(* in one, that nobody is in one twice, that nobody is in two; and lemmas: *)
(* what a queue holds after the operations of squeue.c, for any contents.  *)
(***************************************************************************)
EXTENDS Naturals, Sequences, TLAPS

ElementsOf(s)  == {s[i] : i \in 1..Len(s)}
Injective(s)   == \A i, j \in 1..Len(s) : s[i] = s[j] => i = j
Disjoint(S, T) == \A x \in S : x \notin T
-----------------------------------------------------------------------------
(* SQueueInsert: one more, at the end. *)
LEMMA AppendElements ==
  ASSUME NEW S, NEW s \in Seq(S), NEW x \in S
  PROVE  /\ Append(s, x) \in Seq(S)
         /\ ElementsOf(Append(s, x)) = ElementsOf(s) \cup {x}
         /\ Injective(s) /\ x \notin ElementsOf(s) => Injective(Append(s, x))
<1>1. /\ Append(s, x) \in Seq(S) /\ Len(s) \in Nat /\ Len(Append(s, x)) = Len(s) + 1
      /\ \A i \in 1..Len(s) : Append(s, x)[i] = s[i]
      /\ Append(s, x)[Len(s) + 1] = x
  OBVIOUS
<1> QED BY <1>1 DEF ElementsOf, Injective

(* SQueueInsertFront: one more, at the front. *)
LEMMA PushElements ==
  ASSUME NEW S, NEW s \in Seq(S), NEW x \in S
  PROVE  /\ <<x>> \o s \in Seq(S)
         /\ ElementsOf(<<x>> \o s) = ElementsOf(s) \cup {x}
         /\ Injective(s) /\ x \notin ElementsOf(s) => Injective(<<x>> \o s)
<1> DEFINE t == <<x>> \o s
<1>1. /\ t \in Seq(S) /\ Len(s) \in Nat /\ Len(t) = Len(s) + 1
      /\ t[1] = x
      /\ \A i \in 1..Len(s) : t[i + 1] = s[i]
  OBVIOUS
<1>2. \A i \in 1..Len(t) : i = 1 \/ (i - 1 \in 1..Len(s) /\ t[i] = s[i - 1])
  BY <1>1
<1> HIDE DEF t
<1>3. ElementsOf(t) = ElementsOf(s) \cup {x}
  <2>1. 1 \in 1..Len(t) /\ \A i \in 1..Len(s) : i + 1 \in 1..Len(t) /\ t[i + 1] = s[i]
    BY <1>1
  <2>2. ElementsOf(t) \subseteq ElementsOf(s) \cup {x}
    <3>1. ASSUME NEW i \in 1..Len(t) PROVE t[i] \in ElementsOf(s) \cup {x}
      BY <1>1, <1>2 DEF ElementsOf
    <3> QED BY <3>1 DEF ElementsOf
  <2>3. ElementsOf(s) \subseteq ElementsOf(t) /\ x \in ElementsOf(t)
    BY <1>1, <2>1 DEF ElementsOf
  <2> QED BY <2>2, <2>3
<1>4. ASSUME Injective(s), x \notin ElementsOf(s) PROVE Injective(t)
  <2>1. ASSUME NEW i \in 1..Len(t), NEW j \in 1..Len(t), t[i] = t[j] PROVE i = j
    <3>1. CASE i = 1 \/ j = 1
      BY <1>1, <1>2, <1>4, <2>1, <3>1 DEF ElementsOf
    <3>2. CASE i # 1 /\ j # 1
      <4>1. i - 1 = j - 1
        BY <1>2, <1>4, <2>1, <3>2 DEF Injective
      <4> QED BY <1>1, <4>1
    <3> QED BY <3>1, <3>2
  <2> QED BY <2>1 DEF Injective
<1> QED BY <1>1, <1>3, <1>4 DEF t

(* SQueueRemove: the first is gone. *)
LEMMA TailElements ==
  ASSUME NEW S, NEW s \in Seq(S), s # <<>>
  PROVE  /\ Head(s) \in S /\ Tail(s) \in Seq(S)
         /\ Head(s) \in ElementsOf(s)
         /\ ElementsOf(s) = ElementsOf(Tail(s)) \cup {Head(s)}
         /\ Injective(s) => Injective(Tail(s)) /\ Head(s) \notin ElementsOf(Tail(s))
<1> DEFINE t == Tail(s)
<1>1. /\ t \in Seq(S) /\ Head(s) \in S /\ Len(s) \in Nat \ {0} /\ Len(t) = Len(s) - 1
      /\ Head(s) = s[1]
      /\ \A i \in 1..Len(t) : t[i] = s[i + 1]
  OBVIOUS
<1>2. \A i \in 1..Len(s) : i = 1 \/ (i - 1 \in 1..Len(t) /\ s[i] = t[i - 1])
  BY <1>1
<1> HIDE DEF t
<1>3. ElementsOf(s) = ElementsOf(t) \cup {Head(s)} /\ Head(s) \in ElementsOf(s)
  BY <1>1, <1>2 DEF ElementsOf
<1>4. ASSUME Injective(s) PROVE Injective(t) /\ Head(s) \notin ElementsOf(t)
  <2>1. ASSUME NEW i \in 1..Len(t), NEW j \in 1..Len(t), t[i] = t[j] PROVE i = j
    <3>1. i + 1 \in 1..Len(s) /\ j + 1 \in 1..Len(s) /\ s[i + 1] = s[j + 1]
      BY <1>1, <2>1
    <3> QED BY <1>1, <1>4, <3>1 DEF Injective
  <2>2. ASSUME NEW i \in 1..Len(t) PROVE t[i] # Head(s)
    <3>1. i + 1 \in 1..Len(s) /\ 1 \in 1..Len(s) /\ t[i] = s[i + 1] /\ i + 1 # 1
      BY <1>1
    <3> QED BY <1>1, <1>4, <3>1 DEF Injective
  <2> QED BY <2>1, <2>2 DEF Injective, ElementsOf
<1> QED BY <1>1, <1>3, <1>4 DEF t

(* One queue is emptied into another. *)
LEMMA ConcatElements ==
  ASSUME NEW S, NEW s \in Seq(S), NEW t \in Seq(S)
  PROVE  /\ s \o t \in Seq(S)
         /\ ElementsOf(s \o t) = ElementsOf(s) \cup ElementsOf(t)
         /\ Injective(s) /\ Injective(t) /\ Disjoint(ElementsOf(s), ElementsOf(t))
              => Injective(s \o t)
<1> DEFINE u == s \o t
<1>1. /\ u \in Seq(S) /\ Len(s) \in Nat /\ Len(t) \in Nat /\ Len(u) = Len(s) + Len(t)
      /\ \A i \in 1..Len(s) : u[i] = s[i]
      /\ \A i \in 1..Len(t) : u[i + Len(s)] = t[i]
  OBVIOUS
<1>2. \A i \in 1..Len(u) : \/ i \in 1..Len(s) /\ u[i] = s[i]
                           \/ i - Len(s) \in 1..Len(t) /\ u[i] = t[i - Len(s)]
  BY <1>1
<1> HIDE DEF u
<1>3. ElementsOf(u) = ElementsOf(s) \cup ElementsOf(t)
  <2>1. \A i \in 1..Len(s) : i \in 1..Len(u) /\ u[i] = s[i]
    BY <1>1
  <2>2. \A i \in 1..Len(t) : i + Len(s) \in 1..Len(u) /\ u[i + Len(s)] = t[i]
    BY <1>1
  <2>3. ElementsOf(u) \subseteq ElementsOf(s) \cup ElementsOf(t)
    BY <1>2 DEF ElementsOf
  <2>4. ElementsOf(s) \subseteq ElementsOf(u) /\ ElementsOf(t) \subseteq ElementsOf(u)
    BY <2>1, <2>2 DEF ElementsOf
  <2> QED BY <2>3, <2>4
<1>4. ASSUME Injective(s), Injective(t), Disjoint(ElementsOf(s), ElementsOf(t))
      PROVE  Injective(u)
  <2>1. \A i \in 1..Len(s), j \in 1..Len(t) : s[i] # t[j]
    BY <1>4 DEF ElementsOf, Disjoint
  <2>2. ASSUME NEW i \in 1..Len(u), NEW j \in 1..Len(u), u[i] = u[j] PROVE i = j
    <3>1. CASE i \in 1..Len(s) /\ j \in 1..Len(s)
      BY <1>1, <1>4, <2>2, <3>1 DEF Injective
    <3>2. CASE i - Len(s) \in 1..Len(t) /\ j - Len(s) \in 1..Len(t)
      <4>1. u[i] = t[i - Len(s)] /\ u[j] = t[j - Len(s)]
        BY <1>1, <1>2, <3>2
      <4>2. i - Len(s) = j - Len(s)
        BY <1>4, <2>2, <3>2, <4>1 DEF Injective
      <4> QED BY <1>1, <4>2
    <3> QED BY <1>2, <2>1, <2>2, <3>1, <3>2
  <2> QED BY <2>2 DEF Injective
<1> QED BY <1>1, <1>3, <1>4 DEF u

(* A queue as SQueueCreate makes it. *)
LEMMA EmptyElements == ElementsOf(<<>>) = {} /\ Injective(<<>>)
BY DEF ElementsOf, Injective

(* A queue of members of S has members of S, and is empty when it has none. *)
LEMMA ElementsType ==
  ASSUME NEW S, NEW s \in Seq(S)
  PROVE  ElementsOf(s) \subseteq S /\ (ElementsOf(s) = {} <=> s = <<>>)
<1>1. Len(s) \in Nat /\ (\A i \in 1..Len(s) : s[i] \in S) /\ (s = <<>> <=> Len(s) = 0)
  OBVIOUS
<1> QED BY <1>1 DEF ElementsOf
=============================================================================
