---------------------------- MODULE OverflowTable ----------------------------
(***************************************************************************)
(* The table from object ids to words (vm/oisc.c): a home slot for every   *)
(* hash, an overflow area of as many slots, chained from the home slots    *)
(* and, when free, to each other, and the loop of locateHandleDown, which  *)
(* goes down the table and may delete what it visits.                      *)
(***************************************************************************)
EXTENDS Naturals, Sequences, FiniteSets, Functions

CONSTANTS
  Keys,       \* numbers; the hash of a key is the key modulo the size
  Values,
  MaxKeys,    \* bound on the number of keys in the table
  NIL

VARIABLES
  sc,         \* table (by index), size, of (head of the free chain), ofcount
  loop        \* the running loop: its index, what it met, what was there
vars == <<sc, loop>>

Slot(k, v, chain) == [key |-> k, value |-> v, chain |-> chain]
CreateN(size) ==
  [table |-> [i \in 0..(2 * size - 1) |->
                Slot(0, NIL, IF i \in size..(2 * size - 2) THEN i + 1 ELSE 0)],
   size |-> size, of |-> size, ofcount |-> 0]

Used(t) == {i \in DOMAIN t.table : t.table[i].value # NIL}
KeysOf(t) == {t.table[i].key : i \in Used(t)}
Hash(k, t) == k % t.size

\* The slots of the chain that starts in slot i, in order.
Chain(i, t) ==
  LET C[s \in DOMAIN t.table] ==
        IF t.table[s].chain = 0 THEN <<s>> ELSE <<s>> \o C[t.table[s].chain]
  IN C[i]
Bucket(k, t) ==
  IF t.table[Hash(k, t)].value = NIL THEN <<>> ELSE Chain(Hash(k, t), t)
\* The place of a key in its chain, 0 for a key that is not there.
Place(k, t) ==
  LET b == Bucket(k, t)
      At == {n \in DOMAIN b : t.table[b[n]].key = k}
  IN IF At = {} THEN 0 ELSE CHOOSE n \in At : \A m \in At : n <= m
Lookup(k, t) ==
  LET n == Place(k, t) IN IF n = 0 THEN NIL ELSE t.table[Bucket(k, t)[n]].value

(* IOIScInsert, without the expansion.                                     *)
Put(k, v, t) ==
  LET b == Bucket(k, t)
      n == Place(k, t)
      last == b[Len(b)]
  IN IF b = <<>> THEN [t EXCEPT !.table[Hash(k, t)] = Slot(k, v, 0)]
     ELSE IF n # 0 THEN [t EXCEPT !.table[b[n]].value = v]
     ELSE [t EXCEPT !.table[last].chain = t.of,
                    !.table[t.of] = Slot(k, v, 0),
                    !.of = t.table[t.of].chain,
                    !.ofcount = @ + 1]

Full(t) == Cardinality(Used(t)) >= (t.size * 17) \div 20 \/ t.ofcount >= t.size
ExpandHashTable(t) ==
  LET R[i \in 0..(2 * t.size)] ==
        IF i = 0 THEN CreateN(2 * t.size)
        ELSE CHOOSE r \in {IF i - 1 \in Used(t)
                            THEN Put(t.table[i - 1].key, t.table[i - 1].value, p)
                            ELSE p : p \in {R[i - 1]}} : TRUE
  IN R[2 * t.size]
Inserted(k, v, t) == Put(k, v, IF Full(t) THEN ExpandHashTable(t) ELSE t)

(* OIScDelete of a key that is there: an overflow slot is unchained; a     *)
(* home slot takes the first overflow slot's entry.                        *)
FreedUncounted(i, t) == [t EXCEPT !.table[i] = Slot(@.key, NIL, t.of), !.of = i]
Freed(i, t) ==
  [t EXCEPT !.table[i] = Slot(@.key, NIL, t.of), !.of = i, !.ofcount = @ - 1]
RemoveHome(k, t) == [t EXCEPT !.table[Bucket(k, t)[Place(k, t)]].value = NIL]
Remove(k, t) ==
  LET b == Bucket(k, t)
      n == Place(k, t)
      e == t.table[b[n]]
  IN IF n > 1 THEN Freed(b[n], [t EXCEPT !.table[b[n - 1]].chain = e.chain])
     ELSE IF e.chain # 0 THEN Freed(e.chain, [t EXCEPT !.table[b[1]] = t.table[e.chain]])
     ELSE [t EXCEPT !.table[b[1]].value = NIL]

-----------------------------------------------------------------------------
Idle == [on |-> FALSE, next |-> 0, seen |-> {}, given |-> {}]
Init == sc = CreateN(4) /\ loop = Idle

Insert(k, v) ==
  /\ ~loop.on /\ (k \in KeysOf(sc) \/ Cardinality(Used(sc)) < MaxKeys)
  /\ sc' = Inserted(k, v, sc) /\ UNCHANGED loop

(* Callers delete keys that are there, or ones whose bucket is empty.      *)
Delete(k) ==
  /\ ~loop.on /\ (Place(k, sc) # 0 \/ Bucket(k, sc) = <<>>)
  /\ sc' = (IF Bucket(k, sc) = <<>> THEN sc ELSE Remove(k, sc)) /\ UNCHANGED loop

ForEachHome ==
  /\ ~loop.on /\ Used(sc) # {}
  /\ loop' = [on |-> TRUE, next |-> sc.size, seen |-> {}, given |-> KeysOf(sc)]
  /\ UNCHANGED sc
\* "next" is one more than the index, so that the loop ends at 0.
ForEachBackwards ==
  /\ ~loop.on /\ Used(sc) # {}
  /\ loop' = [on |-> TRUE, next |-> 2 * sc.size, seen |-> {}, given |-> KeysOf(sc)]
  /\ UNCHANGED sc

Skip ==
  /\ loop.on /\ loop.next > 0 /\ loop.next - 1 \notin Used(sc)
  /\ loop' = [loop EXCEPT !.next = @ - 1] /\ UNCHANGED sc

VisitAgain(deletes) ==
  /\ loop.on /\ loop.next > 0 /\ loop.next - 1 \in Used(sc)
  /\ LET k == sc.table[loop.next - 1].key
     IN /\ sc' = IF deletes THEN Remove(k, sc) ELSE sc
        /\ loop' = [loop EXCEPT !.seen = @ \cup {k}]
(* A visit may delete its key; it then looks at the same slot again.       *)
Visit(deletes) ==
  /\ loop.on /\ loop.next > 0 /\ loop.next - 1 \in Used(sc)
  /\ LET k == sc.table[loop.next - 1].key
     IN /\ sc' = IF deletes THEN Remove(k, sc) ELSE sc
        /\ loop' = [loop EXCEPT !.seen = @ \cup {k},
                                !.next = IF deletes THEN @ ELSE @ - 1]

LoopEnds == loop.on /\ loop.next = 0 /\ loop' = Idle /\ UNCHANGED sc

Next ==
  \/ \E k \in Keys, v \in Values : Insert(k, v)
  \/ \E k \in Keys : Delete(k)
  \/ ForEachBackwards \/ Skip \/ LoopEnds
  \/ \E deletes \in BOOLEAN : Visit(deletes)

Spec == Init /\ [][Next]_vars

-----------------------------------------------------------------------------
(* The table acts as a finite map under Lookup: no insertion, expansion or *)
(* deletion loses, doubles or resurrects an entry of another key.          *)
Found == {k \in Keys : Lookup(k, sc) # NIL}
AsMap == [k \in Found |-> Lookup(k, sc)]
Abstract == INSTANCE AbstractTable WITH map <- AsMap
RefinesTable == Abstract!Spec

(* The overflow slots are shared out: each is on the free chain or in the  *)
(* bucket of its key's hash, in no two buckets, and ofcount counts them.   *)
FreeSlots == IF sc.of = 0 THEN {} ELSE {s \in DOMAIN sc.table : \E n \in DOMAIN Chain(sc.of, sc) : Chain(sc.of, sc)[n] = s}
SlotsShared ==
  /\ FreeSlots = {i \in sc.size..(2 * sc.size - 1) : i \notin Used(sc)}
  /\ \A i \in Used(sc) :
       \E n \in DOMAIN Bucket(sc.table[i].key, sc) : Bucket(sc.table[i].key, sc)[n] = i
  /\ sc.ofcount = sc.size - Cardinality(FreeSlots)

(* The loop meets every key that was there when it began.                  *)
LoopMeetsAll == loop.on /\ loop.next = 0 => loop.seen = loop.given

(* And it ends, although it looks again at a slot it deleted from: every   *)
(* step of it takes it further or leaves fewer entries.                    *)
StepsLeft(t, l) == 2 * Cardinality(Used(t)) + l.next
Advances == loop.on /\ loop'.on => StepsLeft(sc', loop') < StepsLeft(sc, loop)
LoopAdvances == [][Advances]_vars
=============================================================================
