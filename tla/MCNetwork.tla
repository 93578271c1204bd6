------------------------------ MODULE MCNetwork ------------------------------
(***************************************************************************)
(* The nodes of a network: the search for an object that moves while a     *)
(* node dies; which nodes and which members of a gaggle a node knows; the  *)
(* connections that carry the messages; and the distributed garbage        *)
(* collection.                                                             *)
(***************************************************************************)
EXTENDS MCLocate

CONSTANTS NIL, ct, None

VARIABLES
  part,   \* the component that is checked; the variables of the others are off
  running, knows, list, handlers, has, chan, wild, maker, toldOf, news, lost,
  fd, backlog, others, cache, local, waits, connected, failed, sent, got, forgotten,
  at, hold, stub, may, g, links, removed, sends, leaked, dead

MCField == ("x" :> {"y"}) @@ ("y" :> {"x"})
Case(x, y, h, starters, kinds) ==
  [at |-> ("x" :> x) @@ ("y" :> y), hold |-> h, starters |-> starters, sends |-> kinds]
MCCases ==
  { Case(1, 1, <<{}, {"x"}, {}>>, {1}, {"ref"}),
    Case(1, 2, <<{}, {}, {"x"}>>, {1}, {"ref"}),
    Case(1, 2, <<{}, {}, {"y"}>>, {2}, {"object"}) }

Members == INSTANCE Membership WITH
  Nodes <- {1, 2, 3}, Root <- 1, Members <- {1}, Makers <- {{2}}, MaxCrashes <- 1,
  up <- knows, alive <- running, told <- toldOf
Connections == INSTANCE Transport WITH
  Nodes <- {1, 2, 3}, Flows <- {<<1, 2>>, <<2, 1>>, <<1, 3>>}, MaxFD <- 2, MaxSent <- 2,
  MaxCrashes <- 1, MaxNested <- 1, alive <- connected
Collecting == INSTANCE DistGC WITH
  Nodes <- {1, 2, 3}, Objects <- {"x", "y"}, Field <- MCField, Cases <- MCCases,
  MaxSends <- 1, MaxOut <- 0, chan <- links, lost <- removed

membershipVars == <<running, knows, list, handlers, has, chan, wild, maker, toldOf,
         news, lost>>
transportVars == <<fd, backlog, others, cache, local, waits, connected, failed, sent,
         got, forgotten>>
distgcVars == <<at, hold, stub, may, g, links, removed, sends, leaked, dead>>
all == <<vars, part, membershipVars, transportVars, distgcVars>>

Off == "off"
MCInit ==
  /\ part \in {"locate", "membership", "transport", "distgc"}
  /\ Init
  /\ part = "locate" \/ loc = [n \in Node |-> n1]
  /\ IF part = "membership" THEN Members!Init
     ELSE running = Off /\ knows = Off /\ list = Off /\ handlers = Off /\ has = Off /\
          chan = Off /\ wild = Off /\ maker = Off /\ toldOf = Off /\ news = Off /\
          lost = Off
  /\ IF part = "transport" THEN Connections!Init
     ELSE fd = Off /\ backlog = Off /\ others = Off /\ cache = Off /\ local = Off /\
          waits = Off /\ connected = Off /\ failed = Off /\ sent = Off /\ got = Off /\
          forgotten = Off
  /\ IF part = "distgc" THEN Collecting!Init
     ELSE at = Off /\ hold = Off /\ stub = Off /\ may = Off /\ g = Off /\ links = Off /\
          removed = Off /\ sends = Off /\ leaked = Off /\ dead = Off

\* The component that was chosen takes its steps, the others none.
MCNext ==
  /\ UNCHANGED part
  /\ IF part = "locate" THEN Next ELSE UNCHANGED vars
  /\ IF part = "membership" THEN Members!Next ELSE UNCHANGED membershipVars
  /\ IF part = "transport" THEN Connections!Next ELSE UNCHANGED transportVars
  /\ IF part = "distgc" THEN Collecting!Next ELSE UNCHANGED distgcVars

MCSpec == MCInit /\ [][MCNext]_all
-----------------------------------------------------------------------------
(* What the proofs about Transport assume of these values.                 *)
ASSUME ConnectionsOK == Connections!ConstantsOK

(* OneCopy, AskedAreUp and NotGivenUp are Locate's, see there.             *)

(* When nothing is on its way, nodes that know each other have the same    *)
(* members of a gaggle, but for those whose news the code may lose.        *)
GagglesAgree == part = "membership" => Members!GagglesAgree

(* A message is written to a connection with its node, though descriptors  *)
(* are used again, and messages of one node arrive at another in the order *)
(* they were sent (dist.c).                                                *)
RightNodeInOrder == part = "transport" => Connections!RightNode /\ Connections!InOrder

(* A distributed collection takes its OID from garbage, also when it is    *)
(* spread over nodes and circular, and from nothing that some node refers  *)
(* to, but for references sent by a node outside the collection (distgc.c).*)
GarbageGoes == part = "distgc" => Collecting!ReferredStay /\ Collecting!GarbageGoes
=============================================================================
