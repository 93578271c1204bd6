------------------------------ MODULE Locate -------------------------------
(***************************************************************************)
(* The search for one mobile object (vm/locate.c) among the nodes of a     *)
(* running system: what each node believes of the object's place, the      *)
(* messages that are forwarded after it or wait for the search to end      *)
(* (vm/remote.c, vm/rinvoke.c), its moves (vm/move.c), and the death of    *)
(* nodes.                                                                  *)
(*                                                                         *)
(* Nodes are joined by connections that keep order (vm/dist.c).  A node    *)
(* that died is known dead to another only when its connection breaks;     *)
(* until then a send to it may seem to succeed.  A node that restarts has  *)
(* another incarnation, and is another node.                               *)
(***************************************************************************)
EXTENDS Naturals, Sequences, FiniteSets, SequencesExt

CONSTANTS Node,
          Limbo,       \* limbonode: the place of an object nobody knows of
          Proc,        \* processes that call locate
          Req,         \* invocations of the object
          Place,       \* the node of each process and invocation
          Tries,       \* LOCATE_TIMES_TO_TRY
          MaxCalls, MaxMoves, MaxPokes, MaxCrashes    \* bounds, each of what
                       \* its name says: calls of locate, moves of the object,
                       \* activations suspected by
                       \* invokeHandleDown, nodes that die

ASSUME ConstAssumption ==
  /\ {Limbo, "idle", "waiting"} \cap Node = {} /\ Limbo \notin {"idle", "waiting"}
  /\ IsFiniteSet(Req)
  /\ \A x \in Proc \cup Req : Place[x] \in Node
  /\ Tries \in Nat \ {0}
  /\ MaxCalls \in Nat /\ MaxMoves \in Nat /\ MaxPokes \in Nat /\ MaxCrashes \in Nat

VARIABLES alive,       \* the nodes that run
          up,          \* up[n]: the other nodes whose record at n says up
          loc,         \* loc[n]: where n believes the object is; n: RESDNT
          search,      \* search[n]: n's locationRecord of the object
          told,        \* of each process: idle, waiting, or the answer
          reqs,        \* of each invocation: unsent, pending, done, refused
          net,         \* net[<<m, n>>]: what m sent to n and n has not served
          calls, moves, pokes

vars == <<alive, up, loc, search, told, reqs, net, calls, moves, pokes>>

NoSearch == [stage |-> "none", count |-> 0, asked |-> {}, states |-> {}, msgs |-> {}]

LocateRequest(demand, n) == [kind |-> "LocateRequest", demand |-> demand, origin |-> n]
LocateReply(demand, found) == [kind |-> "LocateReply", demand |-> demand, found |-> found]
InvokeRequest(r) == [kind |-> "InvokeRequest", req |-> r]
MoveRequest(n) == [kind |-> "MoveRequest", origin |-> n]     \* Limbo: no reply
MoveReply == [kind |-> "MoveReply"]

Message ==
  [kind : {"LocateRequest"}, demand : BOOLEAN, origin : Node]
    \cup [kind : {"LocateReply"}, demand : BOOLEAN, found : BOOLEAN]
    \cup [kind : {"InvokeRequest"}, req : Req]
    \cup [kind : {"MoveRequest"}, origin : Node \cup {Limbo}]
    \cup [kind : {"MoveReply"}]

(* A running system; the stubs of an object that moved about may point
   anywhere, but a node's own stub never points to the node. *)
Init ==
  /\ alive = Node
  /\ up = [n \in Node |-> Node \ {n}]
  /\ loc \in [Node -> Node \cup {Limbo}]
  /\ \E home \in Node : \A n \in Node : loc[n] = n <=> n = home
  /\ search = [n \in Node |-> NoSearch]
  /\ told = [p \in Proc |-> "idle"]
  /\ reqs = [r \in Req |-> "unsent"]
  /\ net = [c \in Node \X Node |-> <<>>]
  /\ calls = MaxCalls /\ moves = MaxMoves /\ pokes = MaxPokes
-----------------------------------------------------------------------------
(* Sending.  q is the state of the network a handler goes on from. *)

(* DSend refuses itself, limbo and the nodes it knows to be down; a write to a
   node that died unnoticed fails or is lost. *)
MaySend(n, m) == m \in up[n]
MayFail(n, m) == m \notin up[n] \/ m \notin alive

Sent(q, n, m, msgs) ==
  IF m \in alive THEN [q EXCEPT ![<<n, m>>] = @ \o msgs] ELSE q

(* A message whose sender only notes that it cannot be sent *)
SentIfUp(q, n, m, msg) == IF MaySend(n, m) THEN Sent(q, n, m, <<msg>>) ELSE q

(* updateLocation *)
Updated(n, m) == IF loc[n] = n THEN loc
                 ELSE [loc EXCEPT ![n] = IF m = n THEN Limbo ELSE m]
-----------------------------------------------------------------------------
(* The search at node n.  s is its record as the caller leaves it. *)

ResolveElsewhere(n, srv, s, q) ==       \* mutant: forgets who waits if it came home
  /\ loc' = Updated(n, srv)
  /\ search' = [search EXCEPT ![n] = NoSearch]
  /\ IF loc[n] = n
     THEN net' = q /\ UNCHANGED <<told, reqs>>
     ELSE /\ told' = [p \in Proc |-> IF p \in s.states THEN srv ELSE told[p]]
          /\ IF srv = Limbo
             THEN /\ reqs' = [r \in Req |-> IF r \in s.msgs THEN "refused" ELSE reqs[r]]
                  /\ net' = q
             ELSE /\ \E order \in SetToSeqs(s.msgs) :
                       net' = IF MaySend(n, srv)
                              THEN Sent(q, n, srv, [i \in DOMAIN order |-> InvokeRequest(order[i])])
                              ELSE q
                  /\ UNCHANGED reqs

(* locationResolved: the processes are told, and the messages go to the object:
   here, to srv, or back as unavailable.  One that cannot be sent is dropped. *)
Resolve(n, srv, s, q) ==
  /\ loc' = Updated(n, srv)
  /\ search' = [search EXCEPT ![n] = NoSearch]
  /\ told' = [p \in Proc |-> IF p \in s.states THEN srv ELSE told[p]]
  /\ IF loc[n] = n \/ srv = Limbo
     THEN /\ reqs' = [r \in Req |-> IF r \notin s.msgs THEN reqs[r]
                                    ELSE IF loc[n] = n THEN "done" ELSE "refused"]
          /\ net' = q
     ELSE /\ \E order \in SetToSeqs(s.msgs) :
               net' = IF MaySend(n, srv)
                      THEN Sent(q, n, srv, [i \in DOMAIN order |-> InvokeRequest(order[i])])
                      ELSE q
          /\ UNCHANGED reqs

(* The record is t, and its processes and messages wait. *)
Searching(n, t) ==
  /\ search' = [search EXCEPT ![n] = t]
  /\ told' = [p \in Proc |-> IF p \in t.states THEN "waiting" ELSE told[p]]
  /\ reqs' = [r \in Req |-> IF r \in t.msgs THEN "pending" ELSE reqs[r]]
  /\ UNCHANGED loc

(* sendMsg to each of the nodes, as far as they live *)
Questioned(q, n, nodes) ==
  [c \in Node \X Node |-> IF c[1] = n /\ c[2] \in nodes \cap alive
                          THEN Append(q[c], LocateRequest(TRUE, n)) ELSE q[c]]

(* What a question to all of peers may reach: a write to a node that died
   unnoticed may seem to succeed. *)
Reached(peers) == {(peers \cap alive) \cup lost : lost \in SUBSET (peers \ alive)}

(* doAggressiveLocate: asks every node it can reach, peers being those that are
   up, unless it is doing so already. *)
DoAggressiveLocate(n, s, q, peers) ==
  IF s.stage = "aggressive"
  THEN Searching(n, s) /\ net' = q
  ELSE \E reached \in Reached(peers) :
         LET t == [s EXCEPT !.stage = "aggressive", !.asked = @ \cup reached]
         IN  IF t.asked = {}
             THEN Resolve(n, Limbo, t, q)
             ELSE Searching(n, t) /\ net' = Questioned(q, n, reached)

(* Every node answered: another round, or the object is given up. *)
ExhaustedLate(s) == s.count > Tries     \* mutant: one round too many

Exhausted(s) == s.count >= Tries

NextRoundGivesUp(n, s, q, peers) ==     \* mutant: does not try again
  Resolve(n, Limbo, s, q)

NextRoundSameStage(n, s, q, peers) ==   \* mutant: the record stays aggressive
  IF Exhausted(s) THEN Resolve(n, Limbo, s, q)
  ELSE DoAggressiveLocate(n, [s EXCEPT !.count = @ + 1], q, peers)

NextRound(n, s, q, peers) ==
  IF Exhausted(s) THEN Resolve(n, Limbo, s, q)
  ELSE DoAggressiveLocate(n, [s EXCEPT !.count = @ + 1, !.stage = "easy"], q, peers)

(* findLocation and doEasyLocate: processes or messages join the search, or
   begin it with the node that n's stub points to. *)
FindLocation(n, states, msgs, q) ==
  IF search[n] # NoSearch
  THEN /\ Searching(n, [search[n] EXCEPT !.states = @ \cup states, !.msgs = @ \cup msgs])
       /\ net' = q
  ELSE LET s == [stage |-> "easy", count |-> 1, asked |-> {}, states |-> states, msgs |-> msgs]
       IN  \/ /\ MaySend(n, loc[n])
              /\ Searching(n, [s EXCEPT !.asked = {loc[n]}])
              /\ net' = Sent(q, n, loc[n], <<LocateRequest(FALSE, n)>>)
           \/ /\ MayFail(n, loc[n])
              /\ DoAggressiveLocate(n, s, q, up[n])

SendOrFindBoth(n, m, r, q) ==           \* mutant: looks for the object anyway
  FindLocation(n, {}, {r}, IF MaySend(n, m) THEN Sent(q, n, m, <<InvokeRequest(r)>>) ELSE q)

(* sendMsgTo, and forwardMsg with its callers' fallback *)
SendOrFind(n, m, r, q) ==
  \/ /\ MaySend(n, m)
     /\ net' = Sent(q, n, m, <<InvokeRequest(r)>>)
     /\ reqs' = [reqs EXCEPT ![r] = "pending"]
     /\ UNCHANGED <<loc, search, told>>
  \/ /\ MayFail(n, m)
     /\ FindLocation(n, {}, {r}, q)
-----------------------------------------------------------------------------
(* Handlers at n of a message from srv; q is the network without it. *)

(* The object is here; or the request goes on to where the stub points, once
   only to where it came from; or this is the end of the line. *)
HandleLocateRequest(n, srv, m, q) ==
  /\ UNCHANGED <<loc, search, told, reqs>>
  /\ \/ /\ loc[n] = n
        /\ net' = SentIfUp(q, n, m.origin, LocateReply(m.demand, TRUE))
     \/ /\ loc[n] # n /\ ~m.demand
        /\ loc[n] # srv /\ MaySend(n, loc[n])
        /\ net' = Sent(q, n, loc[n], <<m>>)
     \/ /\ loc[n] # n /\ ~m.demand
        /\ loc[n] = srv \/ MayFail(n, loc[n])
        /\ net' = SentIfUp(q, n, m.origin, LocateReply(FALSE, FALSE))
     \/ /\ loc[n] # n /\ m.demand
        /\ net' = SentIfUp(q, n, srv, LocateReply(TRUE, FALSE))

HandleLocateReply(n, srv, m, q) ==
  LET s       == search[n]
      rest    == [s EXCEPT !.asked = @ \ {srv}]
      ignored == net' = q /\ UNCHANGED <<loc, search, told, reqs>>
  IN  \/ s = NoSearch /\ ignored
      \/ s # NoSearch /\ loc[n] = n /\ Resolve(n, n, s, q)
      \/ /\ s # NoSearch /\ loc[n] # n
         /\ \/ m.found /\ Resolve(n, srv, s, q)
            \/ ~m.found /\ ~m.demand /\ DoAggressiveLocate(n, rest, q, up[n])
            \/ /\ ~m.found /\ m.demand
               /\ \/ srv \notin s.asked /\ ignored
                  \/ /\ srv \in s.asked /\ rest.asked # {}
                     /\ Searching(n, rest) /\ net' = q
                  \/ /\ srv \in s.asked /\ rest.asked = {}
                     /\ NextRound(n, rest, q, up[n])

HandleInvokeRequest(n, srv, m, q) ==
  \/ /\ loc[n] = n
     /\ reqs' = [reqs EXCEPT ![m.req] = "done"]
     /\ net' = q
     /\ UNCHANGED <<loc, search, told>>
  \/ /\ loc[n] \in {srv, Limbo}
     /\ FindLocation(n, {}, {m.req}, q)
  \/ /\ loc[n] \notin {n, srv, Limbo}
     /\ SendOrFind(n, loc[n], m.req, q)

(* The object arrives; a search for it goes on. *)
HandleMoveRequest(n, srv, m, q) ==
  /\ loc' = [loc EXCEPT ![n] = n]
  /\ net' = SentIfUp(q, n, m.origin, MoveReply)
  /\ UNCHANGED <<search, told, reqs>>

HandleMoveReply(n, srv, m, q) ==
  /\ loc' = Updated(n, srv)
  /\ net' = q
  /\ UNCHANGED <<search, told, reqs>>

(* processMessages *)
Receive(n, srv) ==
  /\ n \in alive
  /\ net[<<srv, n>>] # <<>>
  /\ LET m == Head(net[<<srv, n>>])
         q == [net EXCEPT ![<<srv, n>>] = Tail(@)]
     IN  \/ m.kind = "LocateRequest" /\ HandleLocateRequest(n, srv, m, q)
         \/ m.kind = "LocateReply"   /\ HandleLocateReply(n, srv, m, q)
         \/ m.kind = "InvokeRequest" /\ HandleInvokeRequest(n, srv, m, q)
         \/ m.kind = "MoveRequest"   /\ HandleMoveRequest(n, srv, m, q)
         \/ m.kind = "MoveReply"     /\ HandleMoveReply(n, srv, m, q)
  /\ UNCHANGED <<alive, up, calls, moves, pokes>>
-----------------------------------------------------------------------------
(* The operations of the nodes *)

(* jlocate; at a node with the object, or with a stub in limbo, it answers at
   once. *)
Call(p) ==
  LET n == Place[p] IN
  /\ n \in alive /\ told[p] # "waiting"
  /\ calls > 0 /\ calls' = calls - 1
  /\ loc[n] \notin {n, Limbo}
  /\ FindLocation(n, {p}, {}, net)
  /\ UNCHANGED <<alive, up, moves, pokes>>

(* rinvoke *)
Invoke(r) ==
  LET n == Place[r] IN
  /\ n \in alive /\ reqs[r] = "unsent"
  /\ loc[n] # n
  /\ \/ loc[n] = Limbo /\ FindLocation(n, {}, {r}, net)
     \/ loc[n] # Limbo /\ SendOrFind(n, loc[n], r, net)
  /\ UNCHANGED <<alive, up, calls, moves, pokes>>

MoveCopying(n, m) ==        \* mutant: the object stays where it was, too
  /\ n \in alive /\ loc[n] = n /\ m \in up[n]
  /\ moves > 0 /\ moves' = moves - 1
  /\ \E origin \in {n, Limbo} : net' = Sent(net, n, m, <<MoveRequest(origin)>>)
  /\ UNCHANGED <<alive, up, loc, search, told, reqs, calls, pokes>>

(* move: the object becomes a stub of its destination, whether or not the
   message can be sent; a process that moves itself wants no reply. *)
Move(n, m) ==
  /\ n \in alive /\ loc[n] = n /\ m \in up[n]
  /\ moves > 0 /\ moves' = moves - 1
  /\ loc' = [loc EXCEPT ![n] = m]
  /\ \E origin \in {n, Limbo} : net' = Sent(net, n, m, <<MoveRequest(origin)>>)
  /\ UNCHANGED <<alive, up, search, told, reqs, calls, pokes>>

(* d dies with what it keeps and the messages to it. *)
Crash(d) ==
  /\ d \in alive /\ Cardinality(Node \ alive) < MaxCrashes
  /\ alive' = alive \ {d}
  /\ net' = [c \in Node \X Node |-> IF c[2] = d THEN <<>> ELSE net[c]]
  /\ up' = [up EXCEPT ![d] = {}]
  /\ loc' = [loc EXCEPT ![d] = Limbo]
  /\ search' = [search EXCEPT ![d] = NoSearch]
  /\ UNCHANGED <<told, reqs, calls, moves, pokes>>

(* The last message d sent n before it died is lost in the connection. *)
Lose(n, d) ==
  /\ d \in up[n] \ alive /\ net[<<d, n>>] # <<>>
  /\ net' = [net EXCEPT ![<<d, n>>] = Front(@)]
  /\ UNCHANGED <<alive, up, loc, search, told, reqs, calls, moves, pokes>>

LocateHandleDownAggressive(n, d, s, q, peers) ==   \* mutant: leaves easy requests
  LET rest == [s EXCEPT !.asked = @ \ {d}] IN
  IF d \in s.asked /\ s.stage = "aggressive" /\ rest.asked = {} THEN NextRound(n, rest, q, peers)
  ELSE /\ Searching(n, IF s.stage = "aggressive" THEN rest ELSE s)
       /\ net' = q

(* The death of d is an answer to the search with record s. *)
LocateHandleDown(n, d, s, q, peers) ==
  LET rest == [s EXCEPT !.asked = @ \ {d}] IN
  IF d \in s.asked /\ rest.asked = {} THEN NextRound(n, rest, q, peers)
  ELSE Searching(n, rest) /\ net' = q

(* n's connection to d breaks: nukeNode.  invokeHandleDown may suspect the
   object, if it is an activation that a process of n is to return to, and then
   asks every node for it (aggressivelyLocate); searches are told of the death
   after that.  Messages of d that n has not served yet stay to be served. *)
NodeDown(n, d) ==
  LET peers == up[n] \ {d}
      s     == IF search[n] # NoSearch THEN search[n]
               ELSE [NoSearch EXCEPT !.stage = "easy", !.count = 1]
  IN  /\ n \in alive /\ d \in up[n] \ alive
      /\ up' = [up EXCEPT ![n] = peers]
      /\ \/ LocateHandleDown(n, d, search[n], net, peers) /\ UNCHANGED pokes
         \/ /\ pokes > 0 /\ pokes' = pokes - 1
            /\ loc[n] # n /\ s.stage = "easy"
            /\ \E reached \in Reached(peers) :
                 LET t == [s EXCEPT !.stage = "aggressive", !.asked = @ \cup reached]
                 IN  IF t.asked = {} THEN Resolve(n, Limbo, t, net)
                     ELSE LocateHandleDown(n, d, t, Questioned(net, n, reached), peers)
      /\ UNCHANGED <<alive, calls, moves>>

Next ==
  \/ \E n, m \in Node : Receive(n, m) \/ Move(n, m) \/ NodeDown(n, m) \/ Lose(n, m)
  \/ \E n \in Node : Crash(n)
  \/ \E p \in Proc : Call(p)
  \/ \E r \in Req : Invoke(r)

Spec == Init /\ [][Next]_vars

(* A node serves its messages, and a broken connection is noticed. *)
FairSpec ==
  /\ Spec
  /\ \A n, m \in Node : WF_vars(Receive(n, m)) /\ WF_vars(NodeDown(n, m))
-----------------------------------------------------------------------------
TypeOK ==
  /\ alive \subseteq Node
  /\ up \in [Node -> SUBSET Node]
  /\ loc \in [Node -> Node \cup {Limbo}]
  /\ search \in [Node -> [stage : {"none", "easy", "aggressive"}, count : 0..Tries,
                          asked : SUBSET Node, states : SUBSET Proc, msgs : SUBSET Req]]
  /\ told \in [Proc -> Node \cup {Limbo, "idle", "waiting"}]
  /\ reqs \in [Req -> {"unsent", "pending", "done", "refused"}]
  /\ net \in [Node \X Node -> Seq(Message)]
  /\ calls \in Nat /\ moves \in Nat /\ pokes \in Nat

Residents == {n \in Node : loc[n] = n}

(* No message of M is under way in q; there is one at most. *)
Absent(q, M) == \A c \in Node \X Node : \A i \in 1..Len(q[c]) : q[c][i] \notin M
AtMostOne(q, M) ==
  \A c, d \in Node \X Node : \A i \in 1..Len(q[c]), j \in 1..Len(q[d]) :
    q[c][i] \in M /\ q[d][j] \in M => c = d /\ i = j

MoveRequests == {MoveRequest(n) : n \in Node \cup {Limbo}}

(* The object is in one place at most: at one node, or on its way to one. *)
OneCopy ==
  /\ \A n, m \in Residents : n = m
  /\ AtMostOne(net, MoveRequests)
  /\ Residents # {} => Absent(net, MoveRequests)

(* A process waits exactly while the search of its node holds it: a search
   that ends answers every process that joined it, at any of its stages. *)
WaitersHeld ==
  \A p \in Proc : Place[p] \in alive =>
    /\ told[p] = "waiting" <=> p \in search[Place[p]].states
    /\ \A n \in Node : p \in search[n].states => n = Place[p]

Holders(r) == {n \in Node : r \in search[n].msgs}

(* An invocation is never at two places: however it is forwarded, kept for a
   search and sent after it, the object does not get it twice. *)
NoDuplicates ==
  \A r \in Req :
    /\ AtMostOne(net, {InvokeRequest(r)})
    /\ \A n, m \in Holders(r) : n = m
    /\ Holders(r) # {} \/ reqs[r] # "pending" => Absent(net, {InvokeRequest(r)})
    /\ Holders(r) # {} => reqs[r] = "pending"

(* While no node dies, none is lost either. *)
NoneLost ==
  \A r \in Req : reqs[r] = "pending" /\ alive = Node =>
    Holders(r) # {} \/ ~Absent(net, {InvokeRequest(r)})

(* A process or message that joined a search is held by it until it is
   answered, and an invocation is not lost, while no node dies, nor doubled. *)
AnsweredOnce == TypeOK /\ WaitersHeld /\ NoneLost /\ NoDuplicates

(* No search waits for the answer of a node that is known to be down. *)
AskedAreUp == \A n \in Node : search[n].asked \subseteq up[n]

(* While no node dies, a search that asks every node comes to an end. *)
AggressiveEnds ==
  \A n \in Node : search[n].stage = "aggressive" ~> search[n] = NoSearch

(* A search does not give up an object that has stayed at a node that runs and
   can be reached. *)
NotGivenUp ==
  [][moves = MaxMoves => \A n \in alive, m \in Residents :
       {n, m} \subseteq alive' /\ m \in up[n] /\ search[n] # NoSearch /\ search'[n] = NoSearch
         => loc'[n] = m]_vars

(* remote.h:58: "We will report as unavailable any object that we can't get
   the message to."  A process that waits is told the place or that. *)
WaitersTold ==
  \A p \in Proc : told[p] = "waiting" ~> told[p] # "waiting"
=============================================================================
