----------------------------- MODULE Checkpoint -----------------------------
(***************************************************************************)
(* A graph of objects on its way from one machine to another: Checkpoint   *)
(* (vm/write.c) finds what goes along and writes it, ExtractObjects and    *)
(* DoCheckpoint (vm/read.c) read it and turn the indices into addresses.   *)
(* A move takes the root, what is attached, and immutable objects, and     *)
(* refers to the rest by id; a checkpoint file takes everything resident   *)
(* and is read by a machine that starts.  An object keeps its name here on *)
(* its way, as a ghost: the code knows it again only by id or by index.    *)
(***************************************************************************)
EXTENDS Naturals, FiniteSets, Sequences, SequencesExt

CONSTANTS
  Root, Others,   \* the objects
  Queue,          \* the queue of processes waiting in the root's monitor
  NIL

Objects == {Root} \cup Others

VARIABLES
  mode,       \* "move" or "file"
  refs,       \* the fields of every object: what each refers to, and if attached
  kind,       \* mutable, immutable or builtin
  here,       \* the objects of the writer: resident, stub or none; with an id?
  there,      \* the same for the reader, and the words of the objects it read
  todo,       \* what was found, in order; the index of an entry is from the end
  whole,      \* the entries that are traversed, and written as objects
  at,         \* the entry, record or object a phase is at
  phase,
  stream,     \* the records written, in order
  contents    \* what each record read became (theContents->Objects)
vars == <<mode, refs, kind, here, there, todo, whole, at, phase, stream, contents>>

Field(to, attached) == [to |-> to, attached |-> attached]
Entry(place, oid) == [place |-> place, oid |-> oid, words |-> <<>>]

\* What the two machines may know of an object other than the root.
Situations ==
  {[kind |-> k, here |-> h, there |-> t] :
     k \in {"mutable"}, h \in {Entry("resident", TRUE), Entry("stub", TRUE)},
     t \in {Entry("none", FALSE), Entry("stub", TRUE), Entry("resident", TRUE)}}
  \cup {[kind |-> k, here |-> Entry("resident", FALSE), there |-> Entry("none", FALSE)] :
          k \in {"mutable", "immutable"}}
  \cup {[kind |-> k, here |-> Entry("resident", TRUE), there |-> Entry("resident", TRUE)] :
          k \in {"immutable", "builtin"}}
Possible(s) == s.kind = "mutable" => ~(s.here.place = "resident" /\ s.there.place = "resident")

Fields == {Field(NIL, FALSE)} \cup [to : Objects, attached : BOOLEAN]
Init ==
  /\ mode \in {"move", "file"}
  /\ \E x, y \in Fields, f \in [Others -> Fields] :
       /\ Root \notin {x.to, y.to} /\ \A o \in Others : f[o].to # o
       /\ refs = [o \in Objects |-> IF o = Root THEN <<x, y>> ELSE <<f[o]>>]
  /\ \E s \in [Others -> {t \in Situations : Possible(t)}] :
       /\ kind = [o \in Objects |-> IF o = Root THEN "mutable" ELSE s[o].kind]
       /\ here = [o \in Objects |-> IF o = Root THEN Entry("resident", TRUE) ELSE s[o].here]
       /\ there = [o \in Objects |->
            IF o = Root \/ (mode = "file" /\ s[o].kind # "builtin") THEN Entry("none", FALSE)
            ELSE s[o].there]
  /\ todo = <<Root>> /\ whole = {Root} /\ at = 1 /\ phase = "traverse"
  /\ stream = <<>> /\ contents = <<>>

-----------------------------------------------------------------------------
(* foundone: an entry is made once; what is found first decides whether it *)
(* is traversed.                                                           *)
FoundOneAttached(found, field) ==
  IF field.to = NIL \/ field.to \in ToSet(found.todo) THEN found
  ELSE [todo |-> Append(found.todo, field.to),
        whole |-> IF field.attached \/ kind[field.to] = "immutable"
                  THEN found.whole \cup {field.to} ELSE found.whole]
FoundOne(found, field) ==
  IF field.to = NIL \/ field.to \in ToSet(found.todo) THEN found
  ELSE [todo |-> Append(found.todo, field.to),
        whole |-> IF mode = "file" \/ field.attached \/ kind[field.to] = "immutable"
                  THEN found.whole \cup {field.to} ELSE found.whole]

(* One turn of Checkpoint's loop, with traverse and foundsqueue: builtins, *)
(* stubs and what does not go along are not looked into.  The waiters of   *)
(* the monitor go with a move, and are forgotten by a file.                *)
Traverse ==
  /\ phase = "traverse"
  /\ LET o == todo[at]
         queue == IF mode = "move" /\ o = Root THEN <<Field(Queue, FALSE)>> ELSE <<>>
         found == IF o = Queue \/ o \notin whole THEN [todo |-> todo, whole |-> whole]
                  ELSE IF kind[o] = "builtin" \/ here[o].place # "resident"
                  THEN [todo |-> todo, whole |-> whole]
                  ELSE FoldLeft(FoundOne, [todo |-> todo, whole |-> whole], refs[o])
         all == [found EXCEPT !.todo = @ \o [n \in DOMAIN queue |-> Queue]]
     IN /\ todo' = all.todo /\ whole' = all.whole
        /\ IF at < Len(all.todo) THEN at' = at + 1 /\ UNCHANGED phase
           ELSE at' = Len(all.todo) /\ phase' = "write"
  /\ UNCHANGED <<mode, refs, kind, here, there, stream, contents>>

(* getindex: entries are written from the last to the first.               *)
IndexForward(o) == IF o = NIL THEN 0 ELSE SelectInSeq(todo, LAMBDA x : x = o)
Index(o) == IF o = NIL THEN 0 ELSE Len(todo) + 1 - SelectInSeq(todo, LAMBDA x : x = o)

AsExtern(o) == kind[o] = "builtin"
AsStub(o) == here[o].place # "resident" \/ o \notin whole
Words(o) == [n \in DOMAIN refs[o] |-> Index(refs[o][n].to)]
            \o (IF mode = "move" /\ o = Root THEN <<Index(Queue)>> ELSE <<>>)
Record(o) ==
  IF o = Queue THEN [sig |-> "SQ", obj |-> Queue, words |-> <<>>]
  ELSE IF AsExtern(o) THEN [sig |-> "Extern", obj |-> o, words |-> <<>>]
  ELSE IF AsStub(o) THEN [sig |-> "Stub", obj |-> o, words |-> <<>>]
  ELSE [sig |-> IF here'[o].oid THEN "ObjectWithID" ELSE "ObjectWithoutID", obj |-> o,
        words |-> Words(o)]

(* writeone and writeem: in a message, a reference and an immutable object *)
(* need an id.  A mutable object that went along becomes a stub when it is *)
(* written (movecpcallback), the root when everything is (move).           *)
NeedsIDStubs(o) == FALSE
NeedsID(o) == mode = "move" /\ (AsStub(o) \/ kind[o] = "immutable")
LeavesRootOnly(o) == mode = "move" /\ o = Root
Leaves(o) == mode = "move" /\ ~AsStub(o) /\ kind[o] = "mutable"
WriteOne ==
  /\ phase = "write"
  /\ LET o == todo[at]
     IN /\ here' = [x \in Objects |->
              IF x # o THEN here[x]
              ELSE [here[x] EXCEPT !.oid = @ \/ NeedsID(x),
                                   !.place = IF Leaves(x) THEN "stub" ELSE @]]
        /\ stream' = Append(stream, Record(o))
  /\ IF at > 1 THEN at' = at - 1 /\ UNCHANGED phase ELSE at' = 1 /\ phase' = "read"
  /\ UNCHANGED <<mode, refs, kind, there, todo, whole, contents>>

(* ReadTheCheckpointStream: an object or stub whose id is known is read    *)
(* into the object that has it; a stub of a resident object changes        *)
(* nothing.                                                                *)
Known(o) == there[o].oid
ReadOne ==
  /\ phase = "read"
  /\ LET r == stream[at]
         o == r.obj
     IN /\ there' =
             IF r.sig \in {"SQ", "Extern"} THEN there
             ELSE IF r.sig = "Stub"
             THEN IF Known(o) THEN there ELSE [there EXCEPT ![o] = Entry("stub", TRUE)]
             ELSE [there EXCEPT ![o] = [place |-> "resident", oid |-> r.sig = "ObjectWithID",
                                        words |-> r.words]]
        \* an external reference has no address in the array: its id is looked up
        /\ contents' = Append(contents, o)
  /\ IF at < Len(stream) THEN at' = at + 1 /\ UNCHANGED phase ELSE at' = 1 /\ phase' = "translate"
  /\ UNCHANGED <<mode, refs, kind, here, todo, whole, stream>>

(* translateOneObject and indexToObject: the words of what was read become *)
(* addresses.                                                              *)
IndexToObject(i) == IF i = 0 THEN NIL ELSE contents[i]
Translate ==
  /\ phase = "translate"
  /\ LET o == contents[at]
     IN there' = IF o = Queue \/ stream[at].sig \notin {"ObjectWithID", "ObjectWithoutID"} THEN there
                 ELSE [there EXCEPT ![o].words = [n \in DOMAIN @ |-> IndexToObject(@[n])]]
  /\ IF at < Len(contents) THEN at' = at + 1 /\ UNCHANGED phase
     ELSE UNCHANGED at /\ phase' = "done"
  /\ UNCHANGED <<mode, refs, kind, here, todo, whole, stream, contents>>

Done == phase = "done" /\ UNCHANGED vars

Next == Traverse \/ WriteOne \/ ReadOne \/ Translate \/ Done
Spec == Init /\ [][Next]_vars

-----------------------------------------------------------------------------
(* The objects that went along have the same fields there as they had      *)
(* here: indices count from the end of what was found, and are read from   *)
(* the beginning of the stream.  The root's monitor keeps its waiters.     *)
Written == {o \in whole : ~AsExtern(o) /\ \E n \in DOMAIN stream :
                            stream[n].obj = o /\ stream[n].sig # "Stub"}
SameShape ==
  phase = "done" => \A o \in Written :
    /\ \A n \in DOMAIN refs[o] : there[o].words[n] = refs[o][n].to
    /\ mode = "move" /\ o = Root => Last(there[o].words) = Queue

(* Every reference in what was read leads to an object, and one that leads *)
(* away has an id by which it can be found.                                *)
ReferencesLead ==
  phase = "done" => \A o \in Written : \A n \in DOMAIN refs[o] :
    LET to == refs[o][n].to
    IN to # NIL => there[to].place # "none" /\ (there[to].place = "stub" => there[to].oid /\ here[to].oid)

(* A mutable object is resident in one place; when the move is done it is  *)
(* at one of the two machines if it was before.                            *)
Residents(o) == {m \in {here[o], there[o]} : m.place = "resident"}
OnePlace ==
  mode = "move" => \A o \in Objects : kind[o] = "mutable" =>
    /\ ~(here[o].place = "resident" /\ there[o].place = "resident")
    /\ phase = "done" /\ o \in Written => there[o].place = "resident"

(* A file gives back everything that was resident and reachable.           *)
Reach == {Root} \cup UNION {{f.to : f \in ToSet(refs[o])} : o \in Written}
FileComplete ==
  phase = "done" /\ mode = "file" =>
    \A o \in Reach \ {NIL} : here[o].place = "resident" => there[o].place = "resident"
=============================================================================
