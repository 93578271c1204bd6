----------------------------- MODULE Membership -----------------------------
(***************************************************************************)
(* Which nodes a node knows (allnodes, vm/remote.c) and what it believes   *)
(* of the members of a gaggle (vm/gaggle.c), from the news other nodes     *)
(* send: a node joins by an EchoRequest to one that runs, an addition is   *)
(* told to every node that is up, a deletion is told on by every node that *)
(* makes it.  A handler that needs an object of another node waits for it, *)
(* and other messages are handled meanwhile, inside it (doObjectRequest).  *)
(* One gaggle is modelled, whose members have one concrete type.           *)
(***************************************************************************)
EXTENDS Naturals, Sequences, FiniteSets, SequencesExt, FiniteSetsExt

CONSTANTS
  Nodes, Root,    \* every other node joins through Root
  Members,        \* numbers: a gaggle's list is in the order of the OIDs
  Makers,         \* which nodes may have the members' concrete type at first
  MaxCrashes,
  NIL, ct

VARIABLES
  alive,      \* the nodes that run
  up,         \* up[n][m]: what n has in allnodes for m: "unknown", "up" or "down"
  list,       \* n's list for the gaggle; NIL if its table has none
  handlers,   \* the handlers of n that have begun, each inside the one before
  has,        \* the immutable objects of others that n has
  chan,       \* chan[n][m]: what n sent to m
  wild,       \* the nodes that used the table's NIL as a list
  \* Ghosts: who added a member; whom it told; the members Root told a node
  \* that joined; the members of which news may be lost.
  maker, told, news, lost
vars == <<alive, up, list, handlers, has, chan, wild, maker, told, news, lost>>

\* A handler's work: the nodes and the members it has still to look at.
Handler(from, nodes, members) ==
  [from |-> from, nodes |-> nodes, members |-> members, asked |-> FALSE]
Msg(kind) == [kind |-> kind, nodes |-> <<>>, members |-> <<>>, object |-> NIL]

Init ==
  /\ alive = Nodes
  /\ up = [n \in Nodes |-> [m \in Nodes |-> IF n = m THEN "up" ELSE "unknown"]]
  /\ list = [n \in Nodes |-> NIL] /\ handlers = [n \in Nodes |-> <<>>]
  /\ \E makers \in Makers :
       has = [n \in Nodes |-> {n} \cup (IF n \in makers THEN {ct} ELSE {})]
  /\ chan = [n \in Nodes |-> [m \in Nodes |->
       IF m = Root /\ n # Root THEN <<Msg("EchoRequest")>> ELSE <<>>]]
  /\ wild = {} /\ maker = [m \in Members |-> NIL] /\ told = [m \in Members |-> {}] /\ news = [n \in Nodes |-> {}] /\ lost = {}

\* sendMsg: what is sent to a node that does not run is lost.
Sent(n, to, msg) ==
  [chan EXCEPT ![n] = [m \in Nodes |-> IF m \in to \cap alive THEN Append(@[m], msg) ELSE @[m]]]
\* sendGaggleUpdate tells the nodes that are up, in the sender's view.
Peers(n) == {m \in Nodes \ {n} : up[n][m] = "up"}
Update(kind, m) == [Msg(kind) EXCEPT !.members = <<m>>]

ListOf(n) == IF list[n] = NIL THEN <<>> ELSE list[n]
Joined(n) == n = Root \/ up[n][Root] # "unknown"
\* The interpreter runs when no handler waits.
Running(n) == n \in alive \ wild /\ handlers[n] = <<>> /\ Joined(n)

(* add_gmember and delete_gmember, on the list.                            *)
AddMember(m, l) ==
  IF m \in ToSet(l) THEN l
  ELSE SelectSeq(l, LAMBDA x : x < m) \o <<m>> \o SelectSeq(l, LAMBDA x : x > m)
DeleteMember(m, l) == SelectSeq(l, LAMBDA x : x # m)

-----------------------------------------------------------------------------
(* ADDTOGAGGLE: a new member, told to every node that is up.               *)
Add(n, m) ==
  /\ Running(n) /\ ct \in has[n] /\ told[m] = {}
  /\ list' = [list EXCEPT ![n] = AddMember(m, ListOf(n))]
  /\ chan' = Sent(n, Peers(n), Update("add", m))
  /\ maker' = [maker EXCEPT ![m] = n] /\ told' = [told EXCEPT ![m] = {n} \cup Peers(n)]
  /\ UNCHANGED <<alive, up, handlers, has, wild, news, lost>>

(* removeFromAllGaggles: a process found the member unavailable.           *)
Unavailable(n, m) ==
  /\ Running(n) /\ m \in ToSet(ListOf(n))
  /\ list' = [list EXCEPT ![n] = DeleteMember(m, ListOf(n))]
  /\ chan' = Sent(n, Peers(n), Update("delete", m))
  /\ UNCHANGED <<alive, up, handlers, has, wild, maker, told, news, lost>>

-----------------------------------------------------------------------------
(* processMessages: messages are handled when nothing runs, or inside a    *)
(* handler that waits for an object.  The first message on a connection    *)
(* comes after the notice of the connection itself.                        *)
Serving(n) ==
  n \in alive \ wild /\ (handlers[n] # <<>> => Head(handlers[n]).asked)
Arrived(n, s, kind) ==
  /\ Serving(n) /\ (up[n][s] # "unknown" \/ s = Root)
  /\ chan[s][n] # <<>> /\ Head(chan[s][n]).kind = kind
Taken(n, s) == [chan EXCEPT ![s][n] = Tail(@)]
TakenAndSent(n, s, to, msg) ==
  [Sent(n, to, msg) EXCEPT ![s][n] = Tail(@)]

Push(n, h) == handlers' = [handlers EXCEPT ![n] = <<h>> \o @]

HandleUp(n, s) ==
  /\ Serving(n) /\ s # Root /\ chan[s][n] # <<>> /\ up[n][s] = "unknown"
  /\ Push(n, Handler(s, <<[id |-> s, up |-> "up"]>>, <<>>))
  /\ UNCHANGED <<alive, up, list, has, chan, wild, maker, told, news, lost>>

HandleDown(n, s) ==
  /\ Serving(n) /\ s \notin alive /\ chan[s][n] = <<>> /\ up[n][s] = "up"
  /\ up' = [up EXCEPT ![n][s] = "down"]
  /\ UNCHANGED <<alive, list, handlers, has, chan, wild, maker, told, news, lost>>

(* handleEchoRequest: the reply has every node, and the members.           *)
HandleEchoRequest(n, s) ==
  /\ Arrived(n, s, "EchoRequest")
  /\ LET nodes == SetToSeq({[id |-> m, up |-> up[n][m]] : m \in {x \in Nodes : up[n][x] # "unknown"}})
     IN chan' = TakenAndSent(n, s, {s}, [Msg("EchoReply") EXCEPT !.nodes = nodes, !.members = ListOf(n)])
  /\ up' = [up EXCEPT ![n][s] = "up"]
  /\ news' = [news EXCEPT ![s] = ToSet(ListOf(n))]
  /\ UNCHANGED <<alive, list, handlers, has, wild, maker, told, lost>>

(* handleEchoReply and the addition of a handleGaggleUpdate.               *)
HandleNews(n, s) ==
  /\ Arrived(n, s, "EchoReply") \/ Arrived(n, s, "add")
  /\ LET msg == Head(chan[s][n]) IN Push(n, Handler(s, msg.nodes, msg.members))
  /\ chan' = Taken(n, s)
  /\ UNCHANGED <<alive, up, list, has, wild, maker, told, news, lost>>

(* The deletion of a handleGaggleUpdate; one that changed something is     *)
(* told on.  OIScLookup's NIL is not 0, and is used as a list.             *)
ToldOnNever(n) == {}
ToldOn(n) == Peers(n)
HandleDelete(n, s) ==
  /\ Arrived(n, s, "delete")
  /\ LET m == Head(chan[s][n]).members[1]
     IN IF list[n] = NIL
        THEN /\ wild' = wild \cup {n} /\ chan' = Taken(n, s)
             /\ UNCHANGED <<list, lost>>
        ELSE /\ list' = [list EXCEPT ![n] = DeleteMember(m, @)]
             /\ chan' = IF m \in ToSet(list[n])
                        THEN TakenAndSent(n, s, ToldOn(n), Update("delete", m)) ELSE Taken(n, s)
             /\ lost' = IF \E i \in DOMAIN handlers[n] : m \in ToSet(handlers[n][i].members)
                        THEN lost \cup {m} ELSE lost
             /\ UNCHANGED wild
  /\ UNCHANGED <<alive, up, handlers, has, maker, told, news>>

HandleObjectRequest(n, s) ==
  /\ Arrived(n, s, "ObjectRequest")
  /\ chan' = TakenAndSent(n, s, {s}, [Msg("ObjectReply") EXCEPT !.object = Head(chan[s][n]).object])
  /\ UNCHANGED <<alive, up, list, handlers, has, wild, maker, told, news, lost>>
HandleObjectReply(n, s) ==
  /\ Arrived(n, s, "ObjectReply")
  /\ has' = [has EXCEPT ![n] = @ \cup {Head(chan[s][n]).object}] /\ chan' = Taken(n, s)
  /\ UNCHANGED <<alive, up, list, handlers, wild, maker, told, news, lost>>

-----------------------------------------------------------------------------
(* A handler goes on: the head of its work is asked for, looked at, or     *)
(* done (update_nodeinfo_fromOIDs, handleGaggleUpdate).                    *)
Top(n) == Head(handlers[n])
Left(h) == IF h.nodes = <<>> /\ h.members = <<>> THEN <<>> ELSE <<h>>
Replaced(n, h) == handlers' = [handlers EXCEPT ![n] = Left(h) \o Tail(@)]
Ask(n, s, o) ==
  /\ Replaced(n, [Top(n) EXCEPT !.asked = TRUE])
  /\ chan' = Sent(n, {s}, [Msg("ObjectRequest") EXCEPT !.object = o])

LookAtNode(n) ==
  /\ n \in alive \ wild /\ handlers[n] # <<>> /\ Top(n).nodes # <<>>
  /\ LET k == Head(Top(n).nodes)
         done == Replaced(n, [Top(n) EXCEPT !.nodes = Tail(@), !.asked = FALSE])
     IN \/ /\ ~Top(n).asked /\ up[n][k.id] = "unknown" /\ k.up = "up"
           /\ up' = [up EXCEPT ![n][k.id] = "up"] /\ Ask(n, k.id, k.id)
        \/ /\ ~Top(n).asked /\ (up[n][k.id] # "unknown" \/ k.up = "down")
           /\ up' = [up EXCEPT ![n][k.id] = k.up] /\ done /\ UNCHANGED chan
        \/ Top(n).asked /\ k.id \in has[n] /\ done /\ UNCHANGED <<up, chan>>
  /\ UNCHANGED <<alive, list, has, wild, maker, told, news, lost>>

LookAtMember(n) ==
  /\ n \in alive \ wild /\ handlers[n] # <<>> /\ Top(n).nodes = <<>> /\ Top(n).members # <<>>
  /\ \/ /\ ct \in has[n]
        /\ list' = [list EXCEPT ![n] = AddMember(Head(Top(n).members), ListOf(n))]
        /\ Replaced(n, [Top(n) EXCEPT !.members = Tail(@), !.asked = FALSE])
        /\ UNCHANGED chan
     \/ /\ ct \notin has[n] /\ ~Top(n).asked /\ Ask(n, Top(n).from, ct) /\ UNCHANGED list
  /\ UNCHANGED <<alive, up, has, wild, maker, told, news, lost>>

-----------------------------------------------------------------------------
(* A node stops; a connection may lose the last message it sent.           *)
Crash(n) ==
  /\ n \in alive \ {Root} /\ Cardinality(Nodes \ alive) < MaxCrashes
  /\ alive' = alive \ {n}
  /\ \E cut \in [Nodes \ {n} -> {"nothing", "last"}] :
       chan' = [x \in Nodes |-> [y \in Nodes |->
         IF y = n THEN <<>>
         ELSE IF x # n THEN chan[x][y]
         ELSE IF cut[y] = "nothing" \/ chan[x][y] = <<>> THEN chan[x][y] ELSE Front(chan[x][y])]]
  /\ lost' = lost \cup {m \in Members : maker[m] = n}
  /\ UNCHANGED <<up, list, handlers, has, wild, maker, told, news>>

Next ==
  \/ \E n \in Nodes, m \in Members : Add(n, m) \/ Unavailable(n, m)
  \/ \E n, s \in Nodes :
       \/ HandleUp(n, s) \/ HandleDown(n, s) \/ HandleEchoRequest(n, s) \/ HandleNews(n, s)
       \/ HandleDelete(n, s) \/ HandleObjectRequest(n, s) \/ HandleObjectReply(n, s)
  \/ \E n \in Nodes : LookAtNode(n) \/ LookAtMember(n) \/ Crash(n)
Spec == Init /\ [][Next]_vars
-----------------------------------------------------------------------------
(* When nothing is on its way, nodes that run and know each other have the *)
(* same list, but for the members whose news the code may lose: its maker  *)
(* stopped while it told of it, a deletion overtook an addition that waits *)
(* for the concrete type, or it was added by a node that did not know k    *)
(* yet after Root told k what there was.                                   *)
Quiet ==
  /\ \A n \in alive : handlers[n] = <<>> /\ \A m \in alive : chan[n][m] = <<>> /\ up[n][m] = "up"
  /\ wild = {}
Missed(k) == {m \in Members : k \notin told[m] /\ m \notin news[k]}
GagglesAgree ==
  Quiet => \A n, k \in alive, m \in Members :
    m \in ToSet(ListOf(n)) \ ToSet(ListOf(k)) => m \in lost \cup Missed(k)
=============================================================================
