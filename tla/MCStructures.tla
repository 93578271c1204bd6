---------------------------- MODULE MCStructures -----------------------------
(***************************************************************************)
(* The data structures of the virtual machine and the two tables of the    *)
(* debugger, each on its own: the queues of processes and of messages,     *)
(* the searchable collections, the object table, the table of lines and    *)
(* the table of breakpoints.                                               *)
(***************************************************************************)
EXTENDS SQueue

CONSTANTS s1, s2, m1, m2, NoEntry, NIL

VARIABLES
  part,   \* the component that is checked; the variables of the others are off
  ring, slotsOf, firstfull, firstempty, waiting, served,
  slots, loop,
  sc, visit,
  ids, relocationMap, word,
  lninfo, lastLineNumber, lastLineNumberAt, code,
  bytes, breakpoints, instructionsToExecute, ran, singleStepping, gotsigint,
  atABreakpoint, currentline, oldline, pc, cur, at, isFailure, inHandler, dropped

MCPlaceAt(s) == [file |-> IF s = 3 THEN "g" ELSE "f", number |-> IF s = 2 THEN 2 ELSE 1]

Messages == INSTANCE MQueue WITH
  Value <- {m1, m2}, LogInitSize <- 1, table <- ring, size <- slotsOf, count <- waiting,
  result <- served
Set == INSTANCE HashSet WITH
  Keys <- {3, 7, 8, 11}, Values <- {1, 2}, Sizes <- {4, 8}, MaxKeys <- 4
Overflow == INSTANCE OverflowTable WITH
  Keys <- {1, 5, 9, 8}, Values <- {1, 2}, MaxKeys <- 4, loop <- visit
Table == INSTANCE ObjectTable WITH
  OIDs <- {1, 2, 5}, Objects <- {2, 4, 6, 8}, Places <- {"p1"}, FirstSize <- 2,
  JNIL <- NIL, sc <- ids
Lines == INSTANCE LineTable WITH
  MaxLine <- 3, MaxCode <- 4
Debug == INSTANCE Debugger WITH
  Processes <- {"p", "q"}, NSites <- 3, PlaceAt <- MCPlaceAt, MAXBREAKPOINTS <- 2,
  code <- bytes

mqueueVars == <<ring, slotsOf, firstfull, firstempty, waiting, served>>
setVars == <<slots, loop>>
overflowVars == <<sc, visit>>
objectsVars == <<ids, relocationMap, word>>
linesVars == <<lninfo, lastLineNumber, lastLineNumberAt, code>>
debugVars == <<bytes, breakpoints, instructionsToExecute, ran, singleStepping,
         gotsigint, atABreakpoint, currentline, oldline, pc, cur, at, isFailure,
         inHandler, dropped>>
all == <<vars, part, mqueueVars, setVars, overflowVars, objectsVars, linesVars, debugVars>>

Off == "off"
MCInit ==
  /\ part \in {"squeue", "mqueue", "set", "overflow", "objects", "lines", "debug"}
  /\ Init
  /\ IF part = "mqueue" THEN Messages!Init
     ELSE ring = Off /\ slotsOf = Off /\ firstfull = Off /\ firstempty = Off /\
          waiting = Off /\ served = Off
  /\ IF part = "set" THEN Set!Init
     ELSE slots = Off /\ loop = Off
  /\ IF part = "overflow" THEN Overflow!Init
     ELSE sc = Off /\ visit = Off
  /\ IF part = "objects" THEN Table!Init
     ELSE ids = Off /\ relocationMap = Off /\ word = Off
  /\ IF part = "lines" THEN Lines!Init
     ELSE lninfo = Off /\ lastLineNumber = Off /\ lastLineNumberAt = Off /\ code = Off
  /\ IF part = "debug" THEN Debug!Init
     ELSE bytes = Off /\ breakpoints = Off /\ instructionsToExecute = Off /\ ran = Off /\
          singleStepping = Off /\ gotsigint = Off /\ atABreakpoint = Off /\
          currentline = Off /\ oldline = Off /\ pc = Off /\ cur = Off /\ at = Off /\
          isFailure = Off /\ inHandler = Off /\ dropped = Off

\* The component that was chosen takes its steps, the others none.
MCNext ==
  /\ UNCHANGED part
  /\ IF part = "squeue" THEN Next ELSE UNCHANGED vars
  /\ IF part = "mqueue" THEN Messages!Next ELSE UNCHANGED mqueueVars
  /\ IF part = "set" THEN Set!Next ELSE UNCHANGED setVars
  /\ IF part = "overflow" THEN Overflow!Next ELSE UNCHANGED overflowVars
  /\ IF part = "objects" THEN Table!Next ELSE UNCHANGED objectsVars
  /\ IF part = "lines" THEN Lines!Next ELSE UNCHANGED linesVars
  /\ IF part = "debug" THEN Debug!Next ELSE UNCHANGED debugVars

MCSpec == MCInit /\ [][MCNext]_all
-----------------------------------------------------------------------------
(* TypeOK and RefinesAbstractQueue are SQueue's own, see there.            *)

(* The message queue is a FIFO and the tables are finite maps, through     *)
(* wraps, clusters, expansions, overflow chains and deletions: no operation*)
(* loses, doubles or resurrects another's entry (mqueue.c, iisc.c and its  *)
(* copies, oisc.c, otable.c).                                              *)
StructuresRefine ==
  /\ part = "mqueue" => Messages!Abs!Init
  /\ [][part = "mqueue" => [Messages!Abs!Next]_<<Messages!Contents, served>>]_all
  /\ part = "set" => Set!Abstract!Init
  /\ [][part = "set" => [Set!Abstract!Next]_(Set!AsMap)]_all
  /\ part = "overflow" => Overflow!Abstract!Init
  /\ [][part = "overflow" => [Overflow!Abstract!Next]_(Overflow!AsMap)]_all
  /\ part = "objects" => Table!Abstract!Init
  /\ [][part = "objects" => [Table!Abstract!Next]_(Table!AsMap)]_all

(* What the operations rely on unasked: the two ends and the count of the  *)
(* message queue agree; every probe of a table ends; overflow slots are    *)
(* shared out; the object table finds an entry by id and by address alike  *)
(* and has a free entry to take; no word waits for an id that is defined.  *)
WellFormed ==
  /\ part = "mqueue" => Messages!EndsAgree
  /\ part = "set" => Set!ProbesEnd
  /\ part = "overflow" => Overflow!SlotsShared
  /\ part = "objects" => Table!LookupsAgree /\ Table!FreeEntry /\ Table!NoWaitForKnown

(* A loop over a table that deletes what it visits meets every key, and    *)
(* ends although it steps back: every step takes it further or leaves fewer*)
(* entries (iset.c, oisc.c; locate.c, move.c and remote.c rely on it).     *)
LoopsMeetAll ==
  /\ [](/\ part = "set" => Set!LoopMeetsAll
        /\ part = "overflow" => Overflow!LoopMeetsAll)
  /\ [][/\ part = "set" => Set!Advances
        /\ part = "overflow" => Overflow!Advances]_all

(* The debugger tells of any byte the line it was generated for and sets a *)
(* breakpoint on the first byte of its line; code a BREAKPT replaced can be*)
(* had back, and no process runs past a breakpoint, however they are set   *)
(* twice, deleted, met or stepped over.                                    *)
DebuggerIsTrue ==
  /\ part = "lines" => Lines!LinesAreTold /\ Lines!BreakpointsAreOnLines
  /\ part = "debug" => Debug!CodeCanBeHadBack /\ Debug!BreakpointsAreSet

(* What the proofs about MQueue, HashSet and Debugger assume of these.     *)
ASSUME MessagesOK == Messages!ConstantsOK

ASSUME SetOK == Set!ConstantsOK

ASSUME DebugOK == Debug!ConstantsOK
=============================================================================
