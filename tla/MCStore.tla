------------------------------- MODULE MCStore -------------------------------
(***************************************************************************)
(* Objects in memory and in files, and the streams of bytes: the           *)
(* compaction of old space, the stack as the collector finds it, a         *)
(* checkpoint or a move written and read, files restored at the start,     *)
(* type conformity; the buffers the virtual machine reads and writes       *)
(* messages through, and the streams of Emerald programs.                  *)
(***************************************************************************)
EXTENDS Naturals

CONSTANTS NIL, NoOp

VARIABLES
  part,   \* the component that is checked; the variables of the others are off
  objects, sweep, next, boundary, liveSizes, unplaced, hole, holes, chunk, free, fillers,
  moved,
  mode, refs, kind, here, there, todo, whole, at, phase, stream, contents,
  input, pass, record, f, made, folded, memory, table, relocations, frozen, started,
  place, segments, collections,
  medium, turn, mem, buf, file, pos, count, seen, failed,
  ibuf, eof, arrived, ended, read, handlers, data_available, calls, taken, obuf, isatty,
  open, put, sent,
  type, conformMap, abCon

\* Files of objects for Restore, two that refer to each other, with what may be
\* folded, found again, or started.
Record(sig, oid, sort, data, code, words, types, class) ==
  [sig |-> sig, oid |-> oid, kind |-> sort, data |-> data, code |-> code, words |-> words,
   types |-> types, class |-> class]
Obj(oid, code, words, class) == Record("object", oid, "plain", 0, code, words, {}, class)
Var(oid, code, words, types) == Record("object", oid, "plain", 0, code, words, types, "plain")
Str(oid, data) == Record("object", oid, "string", data, 1, <<>>, {}, "plain")
Ove(oid, id, name, body) == Record("object", oid, "ove", id, 1, <<name, body>>, {}, "plain")
Extern(oid) == Record("extern", oid, "none", 0, 0, <<>>, {}, "none")
Make(oid, class) == Record("make", oid, "none", 0, 0, <<>>, {}, class)

MCClass ==
  [c \in {"none", "plain", "recovering", "idle", "running"} |->
     [recovery |-> c = "recovering", initially |-> c \in {"idle", "running"},
      process |-> c \in {"running", "recovering"}]]

\* The first file: concrete types, strings, operations, and an object "A"
\* that refers to an object of the second, or to one that is only made.
First(d, so, id, b, later, class, new, mo) ==
  << Obj("CT", 1, <<2>>, "plain"), Str(NIL, 1), Str(so, d), Ove(NIL, 1, 2, 3), Ove(NIL, id, b, 3),
     Extern(later), Obj("A", 1, <<4, 5, 6>>, class), Make(mo, new) >>
Second(later, back, mo) ==
  << Extern("CT"), Extern(back), Obj(later, 1, <<2, 4>>, "plain"), Obj("T", 1, <<>>, "plain"),
     Make(mo, "running") >>
Variables(ct, it) ==
  << Obj("CT", 1, <<>>, "plain"), Extern(ct), Obj("B", 1, <<>>, "plain"), Var("A", 1, <<it, 2>>, {2}) >>

MCInputs ==
  {[compress |-> c, class |-> MCClass,
    files |-> <<First(d, so, id, b, later, class, new, mo), Second("X", back, "M2")>>] :
     c \in BOOLEAN, d \in {1, 2}, so \in {NIL, "S"}, id \in {1, 2}, b \in {2, 3},
     later \in {"X", "M", "Z"}, class \in {"plain", "recovering"}, new \in {"idle", "running"},
     mo \in {"M"}, back \in {"A", "M", "X", "Y"}}
  \cup {[compress |-> FALSE, class |-> MCClass, files |-> <<Variables("CT", 3), Second("X", "A", "A")>>]}

\* Programs of two types for Conform, with up to two operations each, whose
\* arguments and results are of these types or of Any, vectors, and types that
\* are marked as final.
Types == {"a", "b"}
AnyType == "Any"
None == "None"

Op(name, args, results, function) ==
  [name |-> name, args |-> args, results |-> results, function |-> function]
One(S) == {<<x>> : x \in S}
MCOps ==
  LET fs == {Op("f", a, r, fn) : a \in {<<>>} \cup One(Types), r \in One(Types), fn \in BOOLEAN}
      gs == {Op("g", a, <<>>, FALSE) : a \in One(Types \cup {AnyType})}
  IN {<<>>} \cup {<<x>> : x \in fs} \cup {<<x, y>> : x \in fs, y \in gs}
     \cup {<<y, x>> : x \in {z \in fs : ~z.function}, y \in gs}
Type(o, i, v) == [ops |-> o, immutable |-> i, vector |-> v, final |-> FALSE]
MCPrograms ==
  {[t \in Types |-> IF t = "a" THEN x ELSE y] :
     x \in {Type(o, i, FALSE) : o \in MCOps, i \in {FALSE}},
     y \in {Type(o, TRUE, FALSE) : o \in MCOps}}
  \cup {[t \in Types |-> IF t = "a" THEN Type(<<>>, FALSE, v) ELSE Type(<<>>, FALSE, w)] : v, w \in BOOLEAN}
  \cup {[t \in Types |-> [Type(<<>>, FALSE, FALSE) EXCEPT !.final = (t = "a")]]}
MCAsked == {<<"a", "b">>, <<"b", "a">>, <<"a", AnyType>>, <<None, "b">>}

Compacting == INSTANCE Compaction WITH
  Sizes <- {2, 3, 5}, MaxObjects <- 5, phase <- sweep
Checkpointing == INSTANCE Checkpoint WITH
  Root <- "root", Others <- {"a", "b"}, Queue <- "queue"
Restoring == INSTANCE Restore WITH
  Inputs <- MCInputs, phase <- pass, at <- record, contents <- made
Stacked == INSTANCE Stack WITH
  StackWords <- 22, MaxDepth <- 3, MaxCollections <- 2, MaxArea <- 3,
  Moves <- {{"a", "b", "stub"}, {"f", "C", "a"}}
Buffers == INSTANCE Streams WITH
  Size0 <- 4, MaxBytes <- 2, MaxLength <- 11, kind <- medium, phase <- turn,
  next <- seen
Emerald == INSTANCE EmStream WITH
  Processes <- {"p", "q"}, Input <- <<1, 2, 3>>, Newline <- 2, BUFBLOCKSIZE <- 2,
  Depth <- 2, MaxPut <- 4, mode <- open
Conforming == INSTANCE Conform WITH
  Programs <- MCPrograms, Asked <- MCAsked

compactionVars == <<objects, sweep, next, boundary, liveSizes, unplaced, hole, holes,
         chunk, free, fillers, moved>>
checkpointVars == <<mode, refs, kind, here, there, todo, whole, at, phase, stream,
         contents>>
restoreVars == <<input, pass, record, f, made, folded, memory, table, relocations,
         frozen, started>>
stackVars == <<place, segments, collections>>
streamsVars == <<medium, turn, mem, buf, file, pos, count, seen, failed>>
emstreamVars == <<ibuf, eof, arrived, ended, read, handlers, data_available, calls,
         taken, obuf, isatty, open, put, sent>>
conformVars == <<type, conformMap, abCon>>
all == <<part, compactionVars, checkpointVars, restoreVars, stackVars, streamsVars, emstreamVars, conformVars>>

Off == "off"
MCInit ==
  /\ part \in {"compaction", "checkpoint", "restore", "stack", "streams", "emstream",
     "conform"}
  /\ IF part = "compaction" THEN Compacting!Init
     ELSE objects = Off /\ sweep = Off /\ next = Off /\ boundary = Off /\ liveSizes = Off /\
          unplaced = Off /\ hole = Off /\ holes = Off /\ chunk = Off /\ free = Off /\
          fillers = Off /\ moved = Off
  /\ IF part = "checkpoint" THEN Checkpointing!Init
     ELSE mode = Off /\ refs = Off /\ kind = Off /\ here = Off /\ there = Off /\ todo = Off /\
          whole = Off /\ at = Off /\ phase = Off /\ stream = Off /\ contents = Off
  /\ IF part = "restore" THEN Restoring!Init
     ELSE input = Off /\ pass = Off /\ record = Off /\ f = Off /\ made = Off /\ folded = Off /\
          memory = Off /\ table = Off /\ relocations = Off /\ frozen = Off /\ started = Off
  /\ IF part = "stack" THEN Stacked!Init
     ELSE place = Off /\ segments = Off /\ collections = Off
  /\ IF part = "streams" THEN Buffers!Init
     ELSE medium = Off /\ turn = Off /\ mem = Off /\ buf = Off /\ file = Off /\ pos = Off /\
          count = Off /\ seen = Off /\ failed = Off
  /\ IF part = "emstream" THEN Emerald!Init
     ELSE ibuf = Off /\ eof = Off /\ arrived = Off /\ ended = Off /\ read = Off /\
          handlers = Off /\ data_available = Off /\ calls = Off /\ taken = Off /\ obuf = Off /\
          isatty = Off /\ open = Off /\ put = Off /\ sent = Off
  /\ IF part = "conform" THEN Conforming!Init
     ELSE type = Off /\ conformMap = Off /\ abCon = Off

\* The component that was chosen takes its steps, the others none.
MCNext ==
  /\ UNCHANGED part
  /\ IF part = "compaction" THEN Compacting!Next ELSE UNCHANGED compactionVars
  /\ IF part = "checkpoint" THEN Checkpointing!Next ELSE UNCHANGED checkpointVars
  /\ IF part = "restore" THEN Restoring!Next ELSE UNCHANGED restoreVars
  /\ IF part = "stack" THEN Stacked!Next ELSE UNCHANGED stackVars
  /\ IF part = "streams" THEN Buffers!Next ELSE UNCHANGED streamsVars
  /\ IF part = "emstream" THEN Emerald!Next ELSE UNCHANGED emstreamVars
  /\ IF part = "conform" THEN Conforming!Next ELSE UNCHANGED conformVars

MCSpec == MCInit /\ [][MCNext]_all
-----------------------------------------------------------------------------
(* When the sweep of old space has found the boundary, every live object   *)
(* beyond it has a hole of its size before it; after the move old space can*)
(* be walked word by word, and no hole is too small for a filling vector   *)
(* (gc.c).                                                                 *)
Compacted ==
  part = "compaction" =>
    Compacting!EveryoneHasAPlace /\ Compacting!Walkable /\ Compacting!FillersAreVectors

(* What was written to a file or a message is what is read: the same       *)
(* fields, each reference leads to an object or has an id to find it by; a *)
(* moved object is resident once, a file has everything that was resident  *)
(* (write.c, read.c).                                                      *)
CopiesAgree ==
  part = "checkpoint" =>
    /\ Checkpointing!SameShape /\ Checkpointing!ReferencesLead
    /\ Checkpointing!OnePlace /\ Checkpointing!FileComplete

(* Files restored in passes: each word refers to what its index meant, also*)
(* to objects later files defined; only what is alike is folded; what is   *)
(* found by its id can be used; what is due to be made or started is, once *)
(* (read.c).                                                               *)
Restored ==
  part = "restore" =>
    /\ Restoring!RelocationsWait /\ Restoring!WordsRight /\ Restoring!FoldsAlike
    /\ Restoring!KnownAreHosted /\ Restoring!MadeOnce

(* Every word of a stack and every register refers to where its object is, *)
(* however many activations and collections ago it was stored; nothing is  *)
(* found twice or taken for what it is not (misc.c; the stub of the bottom *)
(* activation aside).                                                      *)
RootsFollowed == part = "stack" => Stacked!Followed /\ Stacked!FoundForWhatItIs

(* What is read from a stream is what was written there, through flushes,  *)
(* fills and rewinds; a piece has room whenever it is written; the reader  *)
(* of a message stops where its writer did (streams.c, bufstr.c,           *)
(* filestr.c).                                                             *)
BuffersAgree ==
  part = "streams" => Buffers!RoomForPieces /\ Buffers!ReadsWhatWasWritten /\ Buffers!EndIsSeen

(* Whatever processes read, give back and wait for in between, each byte is*)
(* taken once and in order, and put once and in order; an operation that   *)
(* takes nothing at the end has seen the whole input go; every wait keeps  *)
(* its handler, and the flag they share announces only what was not read   *)
(* (emstream.c, io.c:100-244).                                             *)
BytesInOrder ==
  /\ [](part = "emstream" => Emerald!InputInOrder /\ Emerald!OutputInOrder /\ Emerald!WaitIsNoticed)
  /\ [][part = "emstream" => Emerald!SeesTheEnd]_all

(* Whatever was asked before and in whatever circles types refer to each   *)
(* other, the answer kept is the one of the largest conformity relation,   *)
(* and a view finds its operations (conform.c).                            *)
TypesConform == part = "conform" => Conforming!AnswersRight /\ Conforming!ViewsFindOperations

(* What the proofs about Streams assume holds of these values.             *)
ASSUME BuffersOK == Buffers!ConstantsOK
=============================================================================
