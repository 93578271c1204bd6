----------------------------- MODULE ObjectTable -----------------------------
(***************************************************************************)
(* The object table (vm/otable.c) and the operations on it by object id    *)
(* and by address (vm/oidtoobj.c).  One array of entries holds two sets of *)
(* chains, by the hash of the id and by the hash of the address; entry 0   *)
(* is never used, and the free entries are chained through ochain.  An     *)
(* object that the collector moves keeps its entry: its address changes.   *)
(* relocations are the places that wait for an id to be defined.           *)
(***************************************************************************)
EXTENDS Naturals, Sequences, FiniteSets, Functions

CONSTANTS
  OIDs, Objects,   \* numbers; the hashes are these modulo the size
  Places,          \* words that may wait for an id to be defined
  FirstSize,       \* of the table: OBJECTTABLESIZE
  JNIL

VARIABLES
  sc,              \* table, olookup, oidlookup, size, free, count
  relocationMap,   \* the places that wait for an id
  word             \* what each place holds
vars == <<sc, relocationMap, word>>

CreateN(size) ==
  [table |-> [i \in 0..(size - 1) |->
     [key |-> 0, value |-> JNIL, ochain |-> IF i = 0 THEN 0 ELSE i + 1, oidchain |-> 0]],
   olookup |-> [h \in 0..(size - 1) |-> 0], oidlookup |-> [h \in 0..(size - 1) |-> 0],
   size |-> size, free |-> 1, count |-> 0]

Used(t) == {i \in DOMAIN t.table : t.table[i].value # JNIL}
Put(oid, o, t) ==
  LET n == t.free
  IN [t EXCEPT !.free = t.table[n].ochain,
               !.table[n] = [key |-> oid, value |-> o, ochain |-> t.olookup[o % t.size],
                             oidchain |-> t.oidlookup[oid % t.size]],
               !.olookup[o % t.size] = n,
               !.oidlookup[oid % t.size] = n,
               !.count = @ + 1]
FullAt(t) == t.count >= t.size
Full(t) == t.count >= t.size - 1
ExpandHashTableEmpty(t) == CreateN(2 * t.size)
ExpandHashTable(t) ==
  LET R[i \in 0..t.size] ==
        IF i = 0 THEN CreateN(2 * t.size)
        ELSE CHOOSE r \in {IF i - 1 \in Used(t)
                            THEN Put(t.table[i - 1].key, t.table[i - 1].value, p)
                            ELSE p : p \in {R[i - 1]}} : TRUE
  IN R[t.size]
OTableInsert(oid, o, t) == Put(oid, o, IF Full(t) THEN ExpandHashTable(t) ELSE t)

\* The entries of a chain, in order, by either link.
OIDChain(i, t) ==
  LET C[e \in DOMAIN t.table] == IF e = 0 THEN <<>> ELSE <<e>> \o C[t.table[e].oidchain]
  IN C[i]
OChain(i, t) ==
  LET C[e \in DOMAIN t.table] == IF e = 0 THEN <<>> ELSE <<e>> \o C[t.table[e].ochain]
  IN C[i]
FirstIn(found) == IF found = <<>> THEN 0 ELSE Head(found)
LookupByOID(oid, t) ==
  FirstIn(SelectSeq(OIDChain(t.oidlookup[oid % t.size], t), LAMBDA e : t.table[e].key = oid))
LookupByObject(o, t) ==
  FirstIn(SelectSeq(OChain(t.olookup[o % t.size], t), LAMBDA e : t.table[e].value = o))

RemoveFromOIDChain(e, t) ==
  LET h == t.table[e].key % t.size
      next == t.table[e].oidchain
  IN IF t.oidlookup[h] = e THEN [t EXCEPT !.oidlookup[h] = next]
     ELSE [t EXCEPT !.table = [x \in DOMAIN @ |->
             IF x \in Used(t) /\ @[x].oidchain = e THEN [@[x] EXCEPT !.oidchain = next] ELSE @[x]]]
RemoveFromOChain(e, t) ==
  LET h == t.table[e].value % t.size
      next == t.table[e].ochain
  IN IF t.olookup[h] = e THEN [t EXCEPT !.olookup[h] = next]
     ELSE [t EXCEPT !.table = [x \in DOMAIN @ |->
             IF x \in Used(t) /\ @[x].ochain = e THEN [@[x] EXCEPT !.ochain = next] ELSE @[x]]]
Delete(e, t) ==
  [RemoveFromOChain(e, RemoveFromOIDChain(e, t)) EXCEPT
     !.table[e] = [key |-> 0, value |-> JNIL, ochain |-> t.free, oidchain |-> 0],
     !.free = e, !.count = @ - 1]

OTableUpdateValueInPlace(old, new, t) == [t EXCEPT !.table[LookupByObject(old, t)].value = new]
OTableUpdateValue(old, new, t) ==
  LET e == LookupByObject(old, t)
      r == RemoveFromOChain(e, t)
  IN [r EXCEPT !.table[e].value = new, !.table[e].ochain = r.olookup[new % t.size],
               !.olookup[new % t.size] = e]

OIDFetch(oid) == LET e == LookupByOID(oid, sc) IN IF e = 0 THEN JNIL ELSE sc.table[e].value
OIDOf(o) == LET e == LookupByObject(o, sc) IN IF e = 0 THEN 0 ELSE sc.table[e].key

-----------------------------------------------------------------------------
Init ==
  /\ sc = CreateN(FirstSize)
  /\ relocationMap = [oid \in OIDs |-> {}]
  /\ word = [p \in Places |-> JNIL]

(* resolveRelocations: the places that wait for the id get the address.    *)
ResolveNone(oid, o) == UNCHANGED <<relocationMap, word>>
Resolve(oid, o) ==
  /\ word' = [p \in Places |-> IF p \in relocationMap[oid] THEN o ELSE word[p]]
  /\ relocationMap' = [relocationMap EXCEPT ![oid] = {}]

(* OIDInsert and UpdateOIDTables: an object gets an id; the object that    *)
(* had the id loses it.                                                    *)
OIDInsert(oid, o) ==
  /\ OIDOf(o) = 0
  /\ \E t \in {IF OIDFetch(oid) = JNIL THEN sc ELSE Delete(LookupByObject(OIDFetch(oid), sc), sc)} :
       sc' = OTableInsert(oid, o, t)
  /\ Resolve(oid, o)

(* OIDRemove, OIDRemoveAny and the collector's purge.                      *)
OIDRemove(o) ==
  /\ OIDOf(o) # 0 /\ o \notin Range(word)
  /\ sc' = Delete(LookupByObject(o, sc), sc)
  /\ UNCHANGED <<relocationMap, word>>

(* UpdateObjectLocation, in a collection: the words follow their objects.  *)
UpdateObjectLocation(old, new) ==
  /\ OIDOf(old) # 0 /\ OIDOf(new) = 0 /\ old # new
  /\ sc' = OTableUpdateValue(old, new, sc)
  /\ word' = [p \in Places |-> IF word[p] = old THEN new ELSE word[p]]
  /\ UNCHANGED relocationMap

(* A word read from a stream refers to an id: the object, or a wait for it *)
(* (GetRelocatablePointer, vm/read.c).                                     *)
Refer(p, oid) ==
  /\ word[p] = JNIL /\ \A x \in OIDs : p \notin relocationMap[x]
  /\ IF OIDFetch(oid) # JNIL
     THEN word' = [word EXCEPT ![p] = OIDFetch(oid)] /\ UNCHANGED relocationMap
     ELSE relocationMap' = [relocationMap EXCEPT ![oid] = @ \cup {p}] /\ UNCHANGED word
  /\ UNCHANGED sc

(* The program stores something else in the word.                          *)
Overwrite(p) ==
  /\ word[p] # JNIL /\ word' = [word EXCEPT ![p] = JNIL]
  /\ UNCHANGED <<sc, relocationMap>>

Next ==
  \/ \E oid \in OIDs, o \in Objects : OIDInsert(oid, o)
  \/ \E o \in Objects : OIDRemove(o)
  \/ \E old, new \in Objects : UpdateObjectLocation(old, new)
  \/ \E p \in Places : Overwrite(p) \/ \E oid \in OIDs : Refer(p, oid)
Spec == Init /\ [][Next]_vars

-----------------------------------------------------------------------------
(* By id, the table is a finite map, whatever is inserted, deleted, moved  *)
(* or expanded.                                                            *)
Known == {oid \in OIDs : OIDFetch(oid) # JNIL}
AsMap == [oid \in Known |-> OIDFetch(oid)]
Abstract == INSTANCE AbstractTable WITH map <- AsMap, Keys <- OIDs, Values <- Objects
RefinesTable == Abstract!Spec

(* The two lookups agree: by id and by address they find the same entries, *)
(* and every entry in use is found both ways.                              *)
LookupsAgree ==
  /\ \A oid \in Known : OIDOf(OIDFetch(oid)) = oid
  /\ \A o \in Objects : OIDOf(o) # 0 => OIDFetch(OIDOf(o)) = o
  /\ Cardinality(Known) = sc.count

(* The free chain ends in the size of the table, not in 0, and an insertion*)
(* takes its head unasked: there is always an entry to take.               *)
FreeEntry == ~Full(sc) => sc.free \in (1..(sc.size - 1)) \ Used(sc)

(* No word waits for an id that is defined: a reference is either resolved *)
(* or resolved when its object arrives.                                    *)
NoWaitForKnown == \A oid \in OIDs : relocationMap[oid] # {} => OIDFetch(oid) = JNIL
=============================================================================
