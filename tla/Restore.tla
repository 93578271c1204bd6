------------------------------- MODULE Restore -------------------------------
(***************************************************************************)
(* Starting a machine from checkpoint files (vm/read.c): each file is read *)
(* record by record, equal strings and operation vector elements are       *)
(* folded into one (vm/jvisc.c, vm/joveisc.c), indices become addresses,   *)
(* and a reference to an object of a file that is still to come is noted   *)
(* and filled in when that object gets its id (vm/oidtoobj.c).  Then the   *)
(* objects the file asks for are made and those to be recovered or         *)
(* initialised are frozen and get a process.                               *)
(***************************************************************************)
EXTENDS Naturals, Sequences, FiniteSets, SequencesExt, Functions

CONSTANTS
  Inputs,     \* what the machine may be started with: compression, files
  NIL

VARIABLES
  input, phase, at,   \* the files, the pass, and the index it is at
  f,          \* the number of the file
  contents,   \* per file and index: the address of what the record became
  folded,     \* translateMap, per file: an index that was folded, and into what
  memory,     \* by address: an object; its words are indices until it is hosted
  table,      \* the object table: an address for each id
  relocations,\* what is to be filled in: an id, an object, a word
  frozen, started \* the objects frozen in RInitially; what each object is to run
vars == <<input, phase, at, f, contents, folded, memory, table, relocations, frozen, started>>

File == input.files[f]
AddressAt(n, i) == IF i \in DOMAIN folded[n] THEN folded[n][i] ELSE contents[n][i]
Fetch(tab, oid) == IF oid \in DOMAIN tab THEN tab[oid] ELSE NIL

Init ==
  /\ input \in Inputs /\ phase = "read" /\ at = 1 /\ f = 1
  /\ contents = [n \in DOMAIN input.files |-> <<>>]
  /\ folded = [n \in DOMAIN input.files |-> <<>>]
  /\ memory = <<>> /\ table = <<>> /\ relocations = {} /\ frozen = {} /\ started = <<>>

NextPass(to) ==
  IF at < Len(File) THEN at' = at + 1 /\ UNCHANGED phase ELSE at' = 1 /\ phase' = to

-----------------------------------------------------------------------------
(* UpdateOIDTables and resolveRelocations: what waited for the id is       *)
(* filled in.                                                              *)
Due(oid) == {r \in relocations : r.oid = oid}
Filled(mem, oid, a) ==
  [b \in DOMAIN mem |->
     [mem[b] EXCEPT !.words = [k \in DOMAIN @ |->
        IF \E r \in Due(oid) : r.in = b /\ r.word = k THEN a ELSE @[k]]]]
UpdateNoRelocations(mem, oid, a) ==
  memory' = mem /\ table' = (oid :> a) @@ table /\ UNCHANGED relocations
UpdateOIDTables(mem, oid, a) ==
  /\ memory' = Filled(mem, oid, a)
  /\ table' = (oid :> a) @@ table
  /\ relocations' = relocations \ Due(oid)

(* ReadTheCheckpointStream: an object whose id is known is read over what  *)
(* is there, a new one is allocated; an extern and a request to make an    *)
(* object take an index and no memory.                                     *)
ObjectOf(r) == [from |-> <<f, at>>, hosted |-> FALSE, words |-> r.words]
Read ==
  /\ phase = "read"
  /\ LET r == File[at]
         known == Fetch(table, r.oid)
         new == Len(memory) + 1
         a == IF r.sig # "object" THEN NIL ELSE IF known # NIL THEN known ELSE new
     IN /\ contents' = [contents EXCEPT ![f] = Append(@, a)]
        /\ IF a = new /\ r.oid # NIL
           THEN UpdateOIDTables(Append(memory, ObjectOf(r)), r.oid, a)
           ELSE /\ memory' = IF a = NIL THEN memory ELSE (a :> ObjectOf(r)) @@ memory
                /\ UNCHANGED <<table, relocations>>
  /\ NextPass(IF input.compress THEN "fold" ELSE "translate")
  /\ UNCHANGED <<input, f, folded, frozen, started>>

(* foldObjects.  A string with an id is left alone.  An operation vector   *)
(* element is like another if its numbers and its strings are, where a     *)
(* string that was folded meanwhile is found through translateMap.         *)
StringAt(i) == File[memory[AddressAt(f, i)].from[2]].data
SameNumbers(i, j) == File[i].data = File[j].data
SameOperation(i, j) ==
  /\ File[i].data = File[j].data
  /\ \A k \in DOMAIN File[i].words : StringAt(File[i].words[k]) = StringAt(File[j].words[k])
SameString(i, j) == File[i].data = File[j].data
FoldsAnyString(i) == File[i].sig = "object" /\ File[i].kind \in {"ove", "string"}
Folds(i) == File[i].sig = "object" /\ (File[i].kind = "ove" \/ (File[i].kind = "string" /\ File[i].oid = NIL))
Earlier(i) == {j \in 1..(i - 1) : Folds(j) /\ contents[f][j] # NIL /\ File[j].kind = File[i].kind}
FoundString(i) == {j \in Earlier(i) : File[i].kind = "string" /\ SameString(j, i)}
FoundOperation(i) == {j \in Earlier(i) : File[i].kind = "ove" /\ SameOperation(j, i)}
Found(i) == FoundString(i) \cup FoundOperation(i)
FoldObjects ==
  /\ phase = "fold"
  /\ IF Folds(at) /\ Found(at) # {}
        THEN \E i \in Found(at) :
               /\ contents' = [contents EXCEPT ![f][at] = NIL]
               /\ folded' = [folded EXCEPT ![f] = (at :> contents[f][i]) @@ @]
        ELSE UNCHANGED <<contents, folded>>
  /\ NextPass("translate")
  /\ UNCHANGED <<input, f, memory, table, relocations, frozen, started>>

-----------------------------------------------------------------------------
(* indexToObject: folded, read, or an id; an id that is not there yet is   *)
(* registered (registerRelocation), with the word that is to be filled in. *)
IndexToObject(i) ==
  IF i = 0 THEN NIL
  ELSE IF AddressAt(f, i) # NIL THEN AddressAt(f, i) ELSE Fetch(table, File[i].oid)
Missing(i) == i # 0 /\ IndexToObject(i) = NIL
\* A variable is a word and, after it, its concrete type: where that is
\* missing, it is the word before it that is registered.
WordOf(o, k) == IF k \in o.types THEN k - 1 ELSE k

RegisterNothing(a, o) == {}
Register(a, o) ==
  {[oid |-> File[o.words[k]].oid, in |-> a, word |-> WordOf(File[o.from[2]], k)] :
     k \in {k \in DOMAIN o.words : Missing(o.words[k])}}
Hosted(o) == [o EXCEPT !.hosted = TRUE, !.words = [k \in DOMAIN @ |-> IndexToObject(@[k])]]

(* translateOneObject and translateCT: an object is translated with the    *)
(* concrete types it needs that are not, and none is translated twice.     *)
Unhosted(S) == {a \in S : a # NIL /\ ~memory[a].hosted}
CodeOf(a) ==
  LET r == File[memory[a].from[2]]
  IN {IndexToObject(r.code)} \cup {IndexToObject(r.words[k]) : k \in r.types}
Translate ==
  /\ phase = "translate"
  /\ LET a == contents[f][at]
         now == IF a = NIL \/ memory[a].hosted THEN {} ELSE {a} \cup Unhosted(CodeOf(a))
     IN /\ memory' = [b \in DOMAIN memory |-> IF b \in now THEN Hosted(memory[b]) ELSE memory[b]]
        /\ relocations' = relocations \cup UNION {Register(b, memory[b]) : b \in now}
  /\ NextPass("make")
  /\ UNCHANGED <<input, f, contents, folded, table, frozen, started>>

-----------------------------------------------------------------------------
(* doMakeObjects: an object that is asked for by id, and is not there.     *)
Made == [from |-> <<0, 0>>, hosted |-> TRUE, words |-> <<>>]
MakeObject ==
  /\ phase = "make"
  /\ IF File[at].sig = "make" /\ File[at].oid # NIL /\ Fetch(table, File[at].oid) = NIL
     THEN UpdateOIDTables(Append(memory, Made), File[at].oid, Len(memory) + 1)
     ELSE UNCHANGED <<memory, table, relocations>>
  /\ NextPass("recover")
  /\ UNCHANGED <<input, f, contents, folded, frozen, started>>

(* findRecoveries.                                                         *)
Scheduled(a, op, process) == started' = IF process THEN (a :> op) @@ started ELSE started
FindRecovery ==
  /\ phase = "recover"
  /\ LET a == contents[f][at]
         class == input.class[IF a = NIL THEN "none" ELSE File[at].class]
     IN IF a # NIL /\ class.recovery
        THEN frozen' = frozen \cup {a} /\ Scheduled(a, "recovery", class.process)
        ELSE UNCHANGED <<frozen, started>>
  /\ NextPass("initially")
  /\ UNCHANGED <<input, f, contents, folded, memory, table, relocations>>

(* findInitiallies: one without an id is made now.                         *)
FindAnother(r) == Len(memory) + 1
FindMade(r) == IF r.oid # NIL THEN Fetch(table, r.oid) ELSE Len(memory) + 1
FindInitially ==
  /\ phase = "initially"
  /\ IF File[at].sig = "make"
     THEN LET a == FindMade(File[at])
              class == input.class[File[at].class]
          IN /\ memory' = IF a \in DOMAIN memory THEN memory ELSE Append(memory, Made)
             /\ frozen' = IF class.initially THEN frozen \cup {a} ELSE frozen
             /\ Scheduled(a, IF class.initially THEN "initially" ELSE "process", class.process)
     ELSE UNCHANGED <<memory, frozen, started>>
  /\ IF at = Len(File) /\ f < Len(input.files)
     THEN f' = f + 1 /\ phase' = "read" /\ at' = 1
     ELSE NextPass("done") /\ UNCHANGED f
  /\ UNCHANGED <<input, contents, folded, table, relocations>>

Next == Read \/ FoldObjects \/ Translate \/ MakeObject \/ FindRecovery \/ FindInitially
Spec == Init /\ [][Next]_vars

-----------------------------------------------------------------------------
RecordOf(a) == input.files[memory[a].from[1]][memory[a].from[2]]
FromFile(a) == memory[a].from[1] # 0
Target(n, i) ==
  IF i = 0 THEN NIL
  ELSE IF AddressAt(n, i) # NIL THEN AddressAt(n, i) ELSE Fetch(table, input.files[n][i].oid)

(* Between the passes every word refers to what its index meant: also to   *)
(* an object that only a later file defined.                               *)
WordsRight ==
  \A a \in DOMAIN memory : memory[a].hosted /\ FromFile(a) =>
    \A k \in DOMAIN memory[a].words :
      memory[a].words[k] = Target(memory[a].from[1], RecordOf(a).words[k])

(* What waits for an id waits for one that is not there, and is a word     *)
(* of an object that is empty meanwhile.                                   *)
RelocationsWait ==
  \A r \in relocations : r.oid \notin DOMAIN table /\ memory[r.in].words[r.word] = NIL

(* Only what is alike is folded, and after the pass no two are alike.      *)
Value(n, i) ==
  LET r == input.files[n][i]
  IN <<r.kind, r.data, [k \in DOMAIN r.words |->
        IF r.kind # "ove" THEN 0 ELSE input.files[n][memory[AddressAt(n, r.words[k])].from[2]].data]>>
FoldsAlike ==
  /\ \A n \in 1..f : \A i \in DOMAIN folded[n] :
       Value(n, i) = Value(n, memory[folded[n][i]].from[2])
  /\ phase = "translate" /\ input.compress =>
       \A i, j \in DOMAIN File : i < j /\ Folds(i) /\ Folds(j) /\ contents[f][i] # NIL /\ contents[f][j] # NIL
         => Value(f, i) # Value(f, j)

(* What is found by its id can be used: its words are addresses.           *)
KnownAreHosted ==
  phase \in {"make", "recover", "initially", "done"} => \A oid \in DOMAIN table : memory[table[oid]].hosted

(* Each object that is asked for is made once, under its id, and what has  *)
(* a process is started with the operation that is its due.                *)
MadeOnce ==
  phase = "done" =>
    /\ \A n \in DOMAIN input.files : \A i \in DOMAIN input.files[n] :
         LET r == input.files[n][i]
         IN r.sig = "make" /\ input.class[r.class].process =>
              /\ Fetch(table, r.oid) \in DOMAIN started
              /\ started[Fetch(table, r.oid)] = "initially"
    /\ DOMAIN started \subseteq frozen
    /\ \A a \in DOMAIN memory : ~FromFile(a) => a \in Range(table)
=============================================================================
