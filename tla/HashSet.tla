------------------------------- MODULE HashSet -------------------------------
(***************************************************************************)
(* The open-addressing tables of the virtual machine (vm/iset.c, vm/iisc.c *)
(* and the copies of that template for other types): linear probing with   *)
(* wrap-around, deletion by hashing the rest of the cluster again, and the *)
(* loop over a table that deletes what it visits.                          *)
(***************************************************************************)
EXTENDS Naturals, FiniteSets, FiniteSetsExt, Functions

CONSTANTS
  Keys,       \* numbers; the hash of a key is the key modulo the size
  Values,
  Sizes,      \* the sizes a table may have
  MaxKeys,    \* bound on the number of keys in the table
  NoEntry

VARIABLES
  slots,      \* the table, by index from 0
  loop        \* the running ForEach: its index, what it met, what was there
vars == <<slots, loop>>

Idle == [index |-> 0, seen |-> {}, given |-> {}, on |-> FALSE]
Size(t) == Cardinality(DOMAIN t)
Count(t) == Cardinality({i \in DOMAIN t : t[i] # NoEntry})
KeysOf(t) == {t[i].key : i \in {j \in DOMAIN t : t[j] # NoEntry}}
EmptyTable(size) == [i \in 0..(size - 1) |-> NoEntry]
CreateN(n) == EmptyTable(Min({s \in Sizes : s >= n}))

Hash(k, t) == k % Size(t)
\* How far index i is from index h on the way the probes go.
Way(h, i, t) == (i + Size(t) - h) % Size(t)

\* Where probing for a key stops: at the key, or at the first empty slot.
Probe(k, t) ==
  LET h == Hash(k, t)
      Stops == {i \in DOMAIN t : t[i] = NoEntry \/ (t[i] # NoEntry /\ t[i].key = k)}
  IN CHOOSE i \in Stops : \A j \in Stops : Way(h, i, t) <= Way(h, j, t)
Lookup(k, t) == IF t[Probe(k, t)] = NoEntry THEN NoEntry ELSE t[Probe(k, t)].value

Put(k, v, t) == [t EXCEPT ![Probe(k, t)] = [key |-> k, value |-> v]]

MaxFillWhole(size) == size
MaxFill(size) == (size * 17) \div 20
ConstantsOK ==
  /\ Keys \subseteq Nat /\ Values \subseteq Nat /\ 1 \in Values
  /\ NoEntry \notin Values \cup [key : Keys, value : Values]
  /\ MaxKeys \in Nat /\ Sizes \subseteq Nat \ {0} /\ \E s \in Sizes : MaxFill(s) > MaxKeys

\* The entry e of an old table goes to the new one, p.
Again(e, p) == IF e = NoEntry THEN p ELSE Put(e.key, e.value, p)
ExpandHashTable(t) ==
  LET R[i \in 0..Size(t)] ==   \* after the first i slots
        IF i = 0 THEN EmptyTable(Min({s \in Sizes : s > Size(t)}))
        ELSE LET p == R[i - 1] IN Again(t[i - 1], p)
  IN R[Size(t)]
RoomFor(t) == IF Count(t) >= MaxFill(Size(t)) THEN ExpandHashTable(t) ELSE t

\* The cluster after a hole, up to the next empty slot, is taken out and put
\* back entry by entry.
Hole(i, t) == [t EXCEPT ![i] = NoEntry]
RehashNone(i, t) == Hole(i, t)
RehashFrom(i, t) ==
  LET R[d \in 1..Size(t)] ==   \* after the entries at distance 1..d-1
        IF d = 1 THEN [t |-> Hole(i, t), ends |-> FALSE]
        ELSE LET j == (i + d - 1) % Size(t)
                 p == R[d - 1]
             IN IF p.ends \/ p.t[j] = NoEntry THEN [p EXCEPT !.ends = TRUE]
                ELSE [p EXCEPT !.t = Again(p.t[j], Hole(j, p.t))]
  IN R[Size(t)].t
RemoveNothing(k, t) == t
Remove(k, t) ==
  LET i == Probe(k, t) IN IF t[i] = NoEntry THEN t ELSE RehashFrom(i, t)

-----------------------------------------------------------------------------
Init == slots = CreateN(0) /\ loop = Idle

Insert(k, v) ==
  /\ ~loop.on /\ (k \in KeysOf(slots) \/ Count(slots) < MaxKeys)
  /\ slots' = Put(k, v, RoomFor(slots))
  /\ UNCHANGED loop

(* Bump adds one to the value of a key, and inserts 1 for one that is not   *)
(* there.                                                                  *)
Bump(k) ==
  /\ ~loop.on /\ (k \in KeysOf(slots) \/ Count(slots) < MaxKeys)
  /\ LET v == Lookup(k, slots)
     IN IF v = NoEntry THEN slots' = Put(k, 1, RoomFor(slots))
        ELSE v + 1 \in Values /\ slots' = Put(k, v + 1, slots)
  /\ UNCHANGED loop

Delete(k) ==
  /\ ~loop.on /\ slots' = Remove(k, slots) /\ UNCHANGED loop

(* The collector has moved the objects that are the keys, f says where:    *)
(* the entries go to a new table, in the order of the old one.             *)
Moved(f, t) ==
  LET R[i \in 0..Size(t)] ==
        IF i = 0 THEN CreateN(Count(t))
        ELSE LET p == R[i - 1]
             IN IF t[i - 1] = NoEntry THEN p ELSE Put(f[t[i - 1].key], t[i - 1].value, RoomFor(p))
  IN R[Size(t)]
Move(f) == ~loop.on /\ slots' = Moved(f, slots) /\ UNCHANGED loop

(* A loop over the table; where it deletes the entry it is at, it steps    *)
(* its index back, as a later entry may have come to the slot.             *)
ForEach ==
  /\ ~loop.on /\ KeysOf(slots) # {}
  /\ loop' = [Idle EXCEPT !.on = TRUE, !.given = KeysOf(slots)]
  /\ UNCHANGED slots

Skip ==
  /\ loop.on /\ loop.index < Size(slots) /\ slots[loop.index] = NoEntry
  /\ loop' = [loop EXCEPT !.index = @ + 1] /\ UNCHANGED slots

AfterDeleteOn(index) == index + 1
AfterDelete(index) == index
Visit(deletes) ==
  /\ loop.on /\ loop.index < Size(slots) /\ slots[loop.index] # NoEntry
  /\ LET k == slots[loop.index].key
     IN /\ slots' = IF deletes THEN Remove(k, slots) ELSE slots
        /\ loop' = [loop EXCEPT !.seen = @ \cup {k},
                                !.index = IF deletes THEN AfterDelete(@) ELSE @ + 1]

LoopEnds == loop.on /\ loop.index >= Size(slots) /\ loop' = Idle /\ UNCHANGED slots

Next ==
  \/ \E k \in Keys, v \in Values : Insert(k, v)
  \/ \E k \in Keys : Bump(k) \/ Delete(k)
  \/ \E f \in Injection(Keys, Keys) : Move(f)
  \/ ForEach \/ Skip \/ LoopEnds
  \/ \E deletes \in BOOLEAN : Visit(deletes)

Spec == Init /\ [][Next]_vars

-----------------------------------------------------------------------------
(* The table acts as a finite map under Lookup, through wraps, clusters    *)
(* and expansions.                                                         *)
Found == {k \in Keys : Lookup(k, slots) # NoEntry}
AsMap == [k \in Found |-> Lookup(k, slots)]
Abstract == INSTANCE AbstractTable WITH map <- AsMap
RefinesTable == Abstract!Spec

(* No key is in two slots, and one slot is always empty: every probe ends. *)
ProbesEnd ==
  /\ Count(slots) < Size(slots)
  /\ Cardinality(KeysOf(slots)) = Count(slots)

(* A loop that deletes nothing but what it visits meets every key.         *)
LoopMeetsAll == loop.on /\ loop.index >= Size(slots) => loop.seen = loop.given

(* Such a loop ends, although it steps back: every step of it takes it     *)
(* further or leaves fewer entries.                                        *)
StepsLeft(t, l) == 2 * Count(t) + Size(t) - l.index
Advances == loop.on /\ loop'.on => StepsLeft(slots', loop') < StepsLeft(slots, loop)
LoopAdvances == [][Advances]_vars
=============================================================================
