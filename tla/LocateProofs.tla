---------------------------- MODULE LocateProofs ----------------------------
(***************************************************************************)
(* Locate, for any nodes, processes and invocations, any number of moves   *)
(* and deaths: the object stays in one place, an invocation of it is       *)
(* neither duplicated nor, while nobody dies, lost, a process that waits   *)
(* is held by the search of its node, and a search asks only nodes it may  *)
(* still hear of.                                                          *)
(***************************************************************************)
EXTENDS Locate, FiniteSetTheorems, TLAPS

Links    == Node \X Node
Networks == [Links -> Seq(Message)]
Records  == [stage : {"none", "easy", "aggressive"}, count : 0..Tries,
             asked : SUBSET Node, states : SUBSET Proc, msgs : SUBSET Req]

(* Network a is b and messages of some kinds that were sent since, by no node to
   itself. *)
Adds(a, b, kinds) ==
  \A c \in Links :
    /\ Len(b[c]) <= Len(a[c])
    /\ \A i \in 1..Len(b[c]) : a[c][i] = b[c][i]
    /\ \A i \in (Len(b[c]) + 1)..Len(a[c]) : a[c][i].kind \in kinds
    /\ c[1] = c[2] => a[c] = b[c]

(* No node has itself among the nodes it sends to. *)
Others == \A n \in Node : n \notin up[n]

LEMMA MessageKinds ==
  /\ \A n \in Node, b \in BOOLEAN : LocateRequest(b, n) \in Message
  /\ \A b, f \in BOOLEAN : LocateReply(b, f) \in Message
  /\ \A r \in Req : InvokeRequest(r) \in Message
  /\ \A n \in Node \cup {Limbo} : MoveRequest(n) \in Message
  /\ MoveReply \in Message
  /\ \A m \in Message :
       /\ m.kind \in {"LocateRequest", "LocateReply", "InvokeRequest", "MoveRequest", "MoveReply"}
       /\ m.kind = "LocateRequest" => m.demand \in BOOLEAN /\ m.origin \in Node
       /\ m.kind = "LocateReply" => m.demand \in BOOLEAN /\ m.found \in BOOLEAN
       /\ m.kind = "InvokeRequest" => m.req \in Req /\ m = InvokeRequest(m.req)
       /\ m.kind = "MoveRequest" => /\ m.origin \in Node \cup {Limbo}
                                    /\ m = MoveRequest(m.origin)
<1>1. /\ \A n \in Node, b \in BOOLEAN : LocateRequest(b, n) \in Message
      /\ \A b, f \in BOOLEAN : LocateReply(b, f) \in Message
      /\ \A r \in Req : InvokeRequest(r) \in Message
  BY DEF Message, LocateRequest, LocateReply, InvokeRequest
<1>2. /\ \A n \in Node \cup {Limbo} : MoveRequest(n) \in Message
      /\ MoveReply \in Message
  BY DEF Message, MoveRequest, MoveReply
<1>3. ASSUME NEW m \in Message
      PROVE  /\ m.kind \in {"LocateRequest", "LocateReply", "InvokeRequest", "MoveRequest", "MoveReply"}
             /\ m.kind = "LocateRequest" => m.demand \in BOOLEAN /\ m.origin \in Node
             /\ m.kind = "LocateReply" => m.demand \in BOOLEAN /\ m.found \in BOOLEAN
  BY DEF Message
<1>4. ASSUME NEW m \in Message
      PROVE  /\ m.kind = "InvokeRequest" => m.req \in Req /\ m = InvokeRequest(m.req)
             /\ m.kind = "MoveRequest" => /\ m.origin \in Node \cup {Limbo}
                                          /\ m = MoveRequest(m.origin)
  BY DEF Message, InvokeRequest, MoveRequest
<1> QED BY <1>1, <1>2, <1>3, <1>4

LEMMA AddsIsReflexive ==
  ASSUME NEW q \in Networks, NEW kinds
  PROVE  Adds(q, q, kinds)
<1>1. \A c \in Links : Len(q[c]) \in Nat
  BY DEF Networks
<1> QED BY <1>1 DEF Adds

LEMMA AddsIsTransitive ==
  ASSUME NEW a \in Networks, NEW b \in Networks, NEW c \in Networks, NEW kinds,
         Adds(a, b, kinds), Adds(b, c, kinds)
  PROVE  Adds(a, c, kinds)
<1> SUFFICES ASSUME NEW l \in Links
             PROVE  /\ Len(c[l]) <= Len(a[l])
                    /\ \A i \in 1..Len(c[l]) : a[l][i] = c[l][i]
                    /\ \A i \in (Len(c[l]) + 1)..Len(a[l]) : a[l][i].kind \in kinds
                    /\ l[1] = l[2] => a[l] = c[l]
  BY DEF Adds
<1>1. Len(a[l]) \in Nat /\ Len(b[l]) \in Nat /\ Len(c[l]) \in Nat
  BY DEF Networks
<1>2. Len(c[l]) <= Len(b[l]) /\ Len(b[l]) <= Len(a[l])
  BY DEF Adds
<1>3. ASSUME NEW i \in 1..Len(c[l]) PROVE a[l][i] = c[l][i]
  BY <1>1, <1>2 DEF Adds
<1>4. ASSUME NEW i \in (Len(c[l]) + 1)..Len(a[l]) PROVE a[l][i].kind \in kinds
  <2>1. CASE i \in 1..Len(b[l])
    <3>1. i \in (Len(c[l]) + 1)..Len(b[l]) /\ a[l][i] = b[l][i]
      BY <1>1, <2>1 DEF Adds
    <3> QED BY <3>1 DEF Adds
  <2>2. CASE i \in (Len(b[l]) + 1)..Len(a[l])
    BY <2>2 DEF Adds
  <2> QED BY <1>1, <1>2, <2>1, <2>2
<1> QED BY <1>1, <1>2, <1>3, <1>4 DEF Adds

LEMMA OneMessage ==
  ASSUME NEW m \in Message
  PROVE  /\ <<m>> \in Seq(Message) /\ Len(<<m>>) = 1 /\ <<m>>[1] = m
         /\ \A i \in 1..Len(<<m>>) : i = 1 /\ <<m>>[i] = m
OBVIOUS

LEMMA SentAdds ==
  ASSUME NEW q \in Networks, NEW n \in Node, NEW m \in Node \ {n},
         NEW msgs \in Seq(Message), NEW kinds,
         \A i \in 1..Len(msgs) : msgs[i].kind \in kinds
  PROVE  Sent(q, n, m, msgs) \in Networks /\ Adds(Sent(q, n, m, msgs), q, kinds)
<1>1. CASE m \notin alive
  BY <1>1, AddsIsReflexive DEF Sent
<1>2. CASE m \in alive
  <2> DEFINE l == <<n, m>>
             s == q[l] \o msgs
             a == [q EXCEPT ![l] = s]
  <2>1. l \in Links /\ q[l] \in Seq(Message)
    BY DEF Links, Networks
  <2>2. /\ s \in Seq(Message) /\ Len(q[l]) \in Nat /\ Len(msgs) \in Nat
        /\ Len(s) = Len(q[l]) + Len(msgs)
        /\ \A i \in 1..Len(q[l]) : s[i] = q[l][i]
        /\ \A i \in (Len(q[l]) + 1)..Len(s) : i - Len(q[l]) \in 1..Len(msgs) /\ s[i] = msgs[i - Len(q[l])]
    BY <2>1
  <2>3. Sent(q, n, m, msgs) = a
    BY <1>2 DEF Sent
  <2> HIDE DEF s, l
  <2>4. a \in Networks /\ a[l] = s /\ \A c \in Links : c # l => a[c] = q[c]
    BY <2>1, <2>2 DEF Networks
  <2>5. ASSUME NEW c \in Links
        PROVE  /\ Len(q[c]) <= Len(a[c])
               /\ \A i \in 1..Len(q[c]) : a[c][i] = q[c][i]
               /\ \A i \in (Len(q[c]) + 1)..Len(a[c]) : a[c][i].kind \in kinds
               /\ c[1] = c[2] => a[c] = q[c]
    <3>1. CASE c = l
      <4>1. c[1] # c[2]
        BY <3>1 DEF l
      <4> QED BY <2>2, <2>4, <3>1, <4>1
    <3>2. CASE c # l
      <4>1. Len(q[c]) \in Nat /\ a[c] = q[c]
        BY <2>4, <3>2 DEF Networks
      <4> QED BY <4>1
    <3> QED BY <3>1, <3>2
  <2> QED BY <2>3, <2>4, <2>5 DEF Adds
<1> QED BY <1>1, <1>2

LEMMA QuestionedAdds ==
  ASSUME NEW q \in Networks, NEW n \in Node, NEW nodes, n \notin nodes
  PROVE  /\ Questioned(q, n, nodes) \in Networks
         /\ Adds(Questioned(q, n, nodes), q, {"LocateRequest"})
<1> DEFINE a == Questioned(q, n, nodes)
           m == LocateRequest(TRUE, n)
<1>1. m \in Message /\ m.kind = "LocateRequest"
  BY MessageKinds DEF LocateRequest
<1>2. ASSUME NEW c \in Links
      PROVE  /\ a[c] \in Seq(Message)
             /\ Len(q[c]) <= Len(a[c])
             /\ \A i \in 1..Len(q[c]) : a[c][i] = q[c][i]
             /\ \A i \in (Len(q[c]) + 1)..Len(a[c]) : a[c][i].kind = "LocateRequest"
             /\ c[1] = c[2] => a[c] = q[c]
  <2>1. q[c] \in Seq(Message) /\ Len(q[c]) \in Nat
    BY DEF Networks
  <2>2. a[c] = q[c] \/ (a[c] = Append(q[c], m) /\ c[1] # c[2])
    BY DEF Questioned, Links
  <2> HIDE DEF a, m
  <2>3. CASE a[c] = q[c]
    BY <2>1, <2>3
  <2>4. CASE a[c] = Append(q[c], m) /\ c[1] # c[2]
    BY <1>1, <2>1, <2>4
  <2> QED BY <2>2, <2>3, <2>4
<1>3. a \in Networks
  <2>1. a = [c \in Links |-> a[c]]
    BY DEF Questioned, Links
  <2> QED BY <1>2, <2>1 DEF Networks
<1> QED BY <1>2, <1>3 DEF Adds
-----------------------------------------------------------------------------
(* What a step of the search at n comes to, when the caller left record s and
   network q: the search goes on, with more nodes asked, or it is over.  Who
   waits is the same.  peers are the nodes that may be asked. *)

GoesOn(n, s, q, peers) ==
  \E t \in Records :
    /\ t.states = s.states /\ t.msgs = s.msgs /\ t.asked \subseteq peers
    /\ Searching(n, t)
    /\ net' \in Networks /\ Adds(net', q, {"LocateRequest"})

GivesUp(n, s, q) == Resolve(n, Limbo, s, q)

LEMMA ResolveNeedsWaiters ==
  ASSUME NEW n, NEW srv, NEW s, NEW t, NEW q,
         t.states = s.states, t.msgs = s.msgs, Resolve(n, srv, t, q)
  PROVE  Resolve(n, srv, s, q)
BY DEF Resolve

LEMMA SameWaiters ==
  ASSUME NEW n, NEW s, NEW t, NEW q, NEW peers,
         t.states = s.states, t.msgs = s.msgs,
         GoesOn(n, t, q, peers) \/ GivesUp(n, t, q)
  PROVE  GoesOn(n, s, q, peers) \/ GivesUp(n, s, q)
<1>1. CASE GoesOn(n, t, q, peers)
  BY <1>1 DEF GoesOn
<1>2. CASE GivesUp(n, t, q)
  BY <1>2, ResolveNeedsWaiters DEF GivesUp
<1> QED BY <1>1, <1>2

LEMMA NothingAsked ==
  ASSUME NEW n \in Node, NEW s \in Records, NEW q \in Networks, NEW peers,
         s.asked \subseteq peers, Searching(n, s), net' = q
  PROVE  GoesOn(n, s, q, peers)
BY AddsIsReflexive DEF GoesOn

LEMMA ReachedArePeers ==
  ASSUME NEW peers, NEW reached \in Reached(peers)
  PROVE  reached \subseteq peers /\ peers \cap alive \subseteq reached
BY DEF Reached

LEMMA AggressiveStep ==
  ASSUME NEW n \in Node, NEW s \in Records, NEW q \in Networks, NEW peers \in SUBSET (Node \ {n}),
         s.asked \subseteq peers, DoAggressiveLocate(n, s, q, peers)
  PROVE  GoesOn(n, s, q, peers) \/ GivesUp(n, s, q)
<1>1. CASE s.stage = "aggressive"
  BY <1>1, NothingAsked DEF DoAggressiveLocate
<1>2. CASE s.stage # "aggressive"
  <2>1. PICK reached \in Reached(peers) :
          LET t == [s EXCEPT !.stage = "aggressive", !.asked = @ \cup reached]
          IN  IF t.asked = {}
              THEN Resolve(n, Limbo, t, q)
              ELSE Searching(n, t) /\ net' = Questioned(q, n, reached)
    BY <1>2 DEF DoAggressiveLocate
  <2> DEFINE t == [s EXCEPT !.stage = "aggressive", !.asked = @ \cup reached]
  <2>2. reached \subseteq peers
    BY ReachedArePeers
  <2>3. /\ t \in Records /\ t.states = s.states /\ t.msgs = s.msgs
        /\ t.asked \subseteq peers
    BY <2>2 DEF Records
  <2>4. \/ Resolve(n, Limbo, t, q)
        \/ Searching(n, t) /\ net' = Questioned(q, n, reached)
    BY <2>1
  <2> HIDE DEF t
  <2>5. CASE Resolve(n, Limbo, t, q)
    BY <2>3, <2>5, ResolveNeedsWaiters DEF GivesUp
  <2>6. CASE Searching(n, t) /\ net' = Questioned(q, n, reached)
    <3>1. n \notin reached
      BY <2>2
    <3> QED BY <2>3, <2>6, <3>1, QuestionedAdds DEF GoesOn
  <2> QED BY <2>4, <2>5, <2>6
<1> QED BY <1>1, <1>2

LEMMA NextRoundStep ==
  ASSUME NEW n \in Node, NEW s \in Records, NEW q \in Networks, NEW peers \in SUBSET (Node \ {n}),
         s.asked \subseteq peers, NextRound(n, s, q, peers)
  PROVE  GoesOn(n, s, q, peers) \/ GivesUp(n, s, q)
<1>1. CASE Exhausted(s)
  BY <1>1 DEF NextRound, GivesUp
<1>2. CASE ~Exhausted(s)
  <2> DEFINE t == [s EXCEPT !.count = @ + 1, !.stage = "easy"]
  <2>1. t \in Records
    <3>1. s.count \in 0..Tries /\ ~(s.count >= Tries) /\ Tries \in Nat
      BY <1>2, ConstAssumption DEF Records, Exhausted
    <3>2. s.count + 1 \in 0..Tries
      BY <3>1
    <3> QED BY <3>2 DEF Records
  <2>2. t.states = s.states /\ t.msgs = s.msgs /\ t.asked = s.asked
    BY DEF Records
  <2>3. DoAggressiveLocate(n, t, q, peers)
    BY <1>2 DEF NextRound
  <2> HIDE DEF t
  <2>4. GoesOn(n, t, q, peers) \/ GivesUp(n, t, q)
    BY <2>1, <2>2, <2>3, AggressiveStep
  <2> QED BY <2>2, <2>4, SameWaiters
<1> QED BY <1>1, <1>2

LEMMA HandleDownStep ==
  ASSUME NEW n \in Node, NEW d \in Node, NEW s \in Records, NEW q \in Networks,
         NEW peers \in SUBSET (Node \ {n}),
         s.asked \ {d} \subseteq peers, LocateHandleDown(n, d, s, q, peers)
  PROVE  GoesOn(n, s, q, peers) \/ GivesUp(n, s, q)
<1> DEFINE rest == [s EXCEPT !.asked = @ \ {d}]
<1>1. /\ rest \in Records /\ rest.states = s.states /\ rest.msgs = s.msgs
      /\ rest.asked \subseteq peers
  BY DEF Records
<1>2. NextRound(n, rest, q, peers) \/ (Searching(n, rest) /\ net' = q)
  BY DEF LocateHandleDown
<1> HIDE DEF rest
<1>3. GoesOn(n, rest, q, peers) \/ GivesUp(n, rest, q)
  BY <1>1, <1>2, NextRoundStep, NothingAsked
<1> QED BY <1>1, <1>3, SameWaiters

(* n's record with more processes and messages *)
Joined(n, states, msgs) ==
  [search[n] EXCEPT !.states = @ \cup states, !.msgs = @ \cup msgs]

LEMMA JoinedRecord ==
  ASSUME TypeOK, NEW n \in Node, NEW states \in SUBSET Proc, NEW msgs \in SUBSET Req
  PROVE  /\ search[n] \in Records /\ Joined(n, states, msgs) \in Records
         /\ Joined(n, states, msgs).states = search[n].states \cup states
         /\ Joined(n, states, msgs).msgs = search[n].msgs \cup msgs
         /\ Joined(n, states, msgs).asked = search[n].asked
<1>1. search \in [Node -> Records]
  BY DEF TypeOK, Records
<1>2. search[n] \in Records
  BY <1>1
<1> QED BY <1>2 DEF Records, Joined

LEMMA FindStep ==
  ASSUME TypeOK, AskedAreUp, Others, NEW n \in Node, NEW states \in SUBSET Proc,
         NEW msgs \in SUBSET Req, NEW q \in Networks, FindLocation(n, states, msgs, q)
  PROVE  \/ GoesOn(n, Joined(n, states, msgs), q, up[n])
         \/ GivesUp(n, Joined(n, states, msgs), q)
<1> DEFINE j == Joined(n, states, msgs)
<1>1. /\ j \in Records /\ j.states = search[n].states \cup states
      /\ j.msgs = search[n].msgs \cup msgs /\ j.asked = search[n].asked
      /\ up[n] \in SUBSET (Node \ {n})
  <2>1. up[n] \in SUBSET (Node \ {n})
    BY DEF TypeOK, Others
  <2>2. /\ j \in Records /\ j.states = search[n].states \cup states
        /\ j.msgs = search[n].msgs \cup msgs /\ j.asked = search[n].asked
    BY JoinedRecord
  <2> QED BY <2>1, <2>2
<1>2. CASE search[n] # NoSearch
  <2>1. Searching(n, j) /\ net' = q
    BY <1>2 DEF FindLocation, Joined
  <2> QED BY <1>1, <2>1, NothingAsked DEF AskedAreUp
<1>3. CASE search[n] = NoSearch
  <2> DEFINE s == [stage |-> "easy", count |-> 1, asked |-> {}, states |-> states, msgs |-> msgs]
  <2>1. s \in Records /\ s.states = j.states /\ s.msgs = j.msgs /\ s.asked = {}
    BY <1>1, <1>3, ConstAssumption DEF Records, NoSearch
  <2>2. CASE /\ MaySend(n, loc[n]) /\ Searching(n, [s EXCEPT !.asked = {loc[n]}])
             /\ net' = Sent(q, n, loc[n], <<LocateRequest(FALSE, n)>>)
    <3> DEFINE t == [s EXCEPT !.asked = {loc[n]}]
    <3>1. loc[n] \in up[n] /\ loc[n] \in Node \ {n}
      BY <1>1, <2>2 DEF MaySend
    <3>2. t \in Records /\ t.states = j.states /\ t.msgs = j.msgs /\ t.asked \subseteq up[n]
      BY <2>1, <3>1 DEF Records
    <3>3. LocateRequest(FALSE, n) \in Message /\ LocateRequest(FALSE, n).kind = "LocateRequest"
      BY MessageKinds DEF LocateRequest
    <3> DEFINE ms == <<LocateRequest(FALSE, n)>>
    <3>4. ms \in Seq(Message) /\ \A i \in 1..Len(ms) : ms[i].kind \in {"LocateRequest"}
      BY <3>3, OneMessage
    <3> HIDE DEF ms
    <3>5. Sent(q, n, loc[n], ms) \in Networks /\ Adds(Sent(q, n, loc[n], ms), q, {"LocateRequest"})
      BY <3>1, <3>4, SentAdds
    <3> QED BY <2>2, <3>2, <3>5 DEF GoesOn, ms
  <2>3. CASE DoAggressiveLocate(n, s, q, up[n])
    <3> HIDE DEF s, j
    <3>1. GoesOn(n, s, q, up[n]) \/ GivesUp(n, s, q)
      BY <1>1, <2>1, <2>3, AggressiveStep
    <3> QED BY <2>1, <3>1, SameWaiters DEF j
  <2> QED BY <1>3, <2>2, <2>3 DEF FindLocation
<1> QED BY <1>2, <1>3
-----------------------------------------------------------------------------
(* What the steps of a node come to.  Handlers start from q, the network
   without the message they were given. *)

Took(q, n, srv, m) ==
  /\ n \in alive /\ net[<<srv, n>>] # <<>>
  /\ m = Head(net[<<srv, n>>]) /\ q = [net EXCEPT ![<<srv, n>>] = Tail(@)]

LEMMA TookNetwork ==
  ASSUME TypeOK, NEW n \in Node, NEW srv \in Node, NEW q, NEW m, Took(q, n, srv, m)
  PROVE  /\ q \in Networks /\ m \in Message /\ n \in alive
         /\ \A c \in Links : c # <<srv, n>> => q[c] = net[c]
         /\ Len(net[<<srv, n>>]) = Len(q[<<srv, n>>]) + 1
         /\ \A i \in 1..Len(q[<<srv, n>>]) : q[<<srv, n>>][i] = net[<<srv, n>>][i + 1]
         /\ net[<<srv, n>>][1] = m
<1> DEFINE l == <<srv, n>>
<1>1. l \in Links /\ net \in Networks /\ net[l] \in Seq(Message) /\ net[l] # <<>>
  BY DEF Links, Networks, TypeOK, Took
<1>2. m = Head(net[l]) /\ q = [net EXCEPT ![l] = Tail(@)]
  BY DEF Took
<1> HIDE DEF l
<1>3. /\ Tail(net[l]) \in Seq(Message) /\ Head(net[l]) \in Message
      /\ Len(net[l]) = Len(Tail(net[l])) + 1
      /\ \A i \in 1..Len(Tail(net[l])) : Tail(net[l])[i] = net[l][i + 1]
      /\ net[l][1] = Head(net[l])
  BY <1>1
<1>4. q \in Networks /\ q[l] = Tail(net[l]) /\ \A c \in Links : c # l => q[c] = net[c]
  BY <1>1, <1>2, <1>3 DEF Networks
<1> QED BY <1>2, <1>3, <1>4 DEF l, Took

(* Only the network changes, and by messages of the search and of a move. *)
Answers(q) ==
  /\ UNCHANGED <<loc, search, told, reqs>>
  /\ net' \in Networks /\ Adds(net', q, {"LocateRequest", "LocateReply"})

LEMMA SentIfUpAdds ==
  ASSUME TypeOK, Others, NEW q \in Networks, NEW n \in Node, NEW m,
         NEW msg \in Message, NEW kinds, msg.kind \in kinds
  PROVE  /\ SentIfUp(q, n, m, msg) \in Networks
         /\ Adds(SentIfUp(q, n, m, msg), q, kinds)
<1> DEFINE ms == <<msg>>
<1>1. ms \in Seq(Message) /\ \A i \in 1..Len(ms) : ms[i].kind \in kinds
  BY OneMessage
<1> HIDE DEF ms
<1>2. ASSUME MaySend(n, m)
      PROVE  Sent(q, n, m, ms) \in Networks /\ Adds(Sent(q, n, m, ms), q, kinds)
  <2>1. m \in Node \ {n}
    BY <1>2 DEF MaySend, TypeOK, Others
  <2> QED BY <1>1, <2>1, SentAdds
<1> QED BY <1>2, AddsIsReflexive DEF SentIfUp, ms

LEMMA LocateRequestStep ==
  ASSUME TypeOK, Others, NEW n \in Node, NEW srv \in Node, NEW q \in Networks,
         NEW m \in Message, m.kind = "LocateRequest", HandleLocateRequest(n, srv, m, q)
  PROVE  Answers(q)
<1> DEFINE kinds == {"LocateRequest", "LocateReply"}
<1>1. m.origin \in Node /\ m.demand \in BOOLEAN
  BY MessageKinds
<1>2. ASSUME NEW to \in Node, NEW demand \in BOOLEAN, NEW found \in BOOLEAN,
             net' = SentIfUp(q, n, to, LocateReply(demand, found))
      PROVE  net' \in Networks /\ Adds(net', q, kinds)
  <2>1. LocateReply(demand, found) \in Message /\ LocateReply(demand, found).kind \in kinds
    BY MessageKinds DEF LocateReply
  <2> QED BY <1>2, <2>1, SentIfUpAdds
<1>3. ASSUME MaySend(n, loc[n]), net' = Sent(q, n, loc[n], <<m>>)
      PROVE  net' \in Networks /\ Adds(net', q, kinds)
  <2>1. net' = SentIfUp(q, n, loc[n], m)
    BY <1>3 DEF SentIfUp
  <2> QED BY <2>1, SentIfUpAdds
<1> HIDE DEF kinds
<1>4. net' \in Networks /\ Adds(net', q, kinds)
  BY <1>1, <1>2, <1>3 DEF HandleLocateRequest
<1> QED BY <1>4 DEF HandleLocateRequest, Answers, kinds

(* Resolve as handlers of replies do: with what the search of n holds *)
Finds(n, srv, q) == Resolve(n, srv, search[n], q)

LEMMA LocateReplyStep ==
  ASSUME TypeOK, AskedAreUp, Others, NEW n \in Node, NEW srv \in Node,
         NEW q \in Networks, NEW m \in Message, HandleLocateReply(n, srv, m, q)
  PROVE  \/ UNCHANGED <<loc, search, told, reqs>> /\ net' = q
         \/ GoesOn(n, search[n], q, up[n])
         \/ GivesUp(n, search[n], q)
         \/ loc[n] = n /\ Finds(n, n, q)
         \/ loc[n] # n /\ Finds(n, srv, q)
<1> DEFINE s    == search[n]
           rest == [s EXCEPT !.asked = @ \ {srv}]
<1>1. s \in Records /\ up[n] \in SUBSET (Node \ {n}) /\ s.asked \subseteq up[n]
  <2>1. search \in [Node -> Records] /\ up[n] \in SUBSET (Node \ {n})
    BY DEF TypeOK, Records, Others
  <2> QED BY <2>1 DEF AskedAreUp
<1>2. /\ rest \in Records /\ rest.states = s.states /\ rest.msgs = s.msgs
      /\ rest.asked \subseteq up[n]
  BY <1>1 DEF Records
<1>3. \/ UNCHANGED <<loc, search, told, reqs>> /\ net' = q
      \/ loc[n] = n /\ Resolve(n, n, s, q)
      \/ loc[n] # n /\ Resolve(n, srv, s, q)
      \/ DoAggressiveLocate(n, rest, q, up[n])
      \/ Searching(n, rest) /\ net' = q
      \/ NextRound(n, rest, q, up[n])
  BY DEF HandleLocateReply
<1>4. CASE \/ DoAggressiveLocate(n, rest, q, up[n])
           \/ Searching(n, rest) /\ net' = q
           \/ NextRound(n, rest, q, up[n])
  <2> HIDE DEF rest, s
  <2>1. GoesOn(n, rest, q, up[n]) \/ GivesUp(n, rest, q)
    BY <1>1, <1>2, <1>4, AggressiveStep, NothingAsked, NextRoundStep
  <2>2. GoesOn(n, s, q, up[n]) \/ GivesUp(n, s, q)
    BY <1>2, <2>1, SameWaiters
  <2> QED BY <2>2 DEF s
<1> QED BY <1>3, <1>4 DEF Finds

(* An invocation that is served, or goes on to where n's stub points *)
Serves(n, r, q) ==
  /\ loc[n] = n /\ reqs' = [reqs EXCEPT ![r] = "done"] /\ net' = q
  /\ UNCHANGED <<loc, search, told>>

SendsOn(n, r, q) ==
  /\ loc[n] \in up[n] /\ net' = Sent(q, n, loc[n], <<InvokeRequest(r)>>)
  /\ reqs' = [reqs EXCEPT ![r] = "pending"]
  /\ UNCHANGED <<loc, search, told>>

LEMMA InvokeRequestStep ==
  ASSUME TypeOK, AskedAreUp, Others, NEW n \in Node, NEW srv \in Node,
         NEW q \in Networks, NEW m, m.req \in Req, HandleInvokeRequest(n, srv, m, q)
  PROVE  \/ Serves(n, m.req, q)
         \/ SendsOn(n, m.req, q)
         \/ GoesOn(n, Joined(n, {}, {m.req}), q, up[n])
         \/ GivesUp(n, Joined(n, {}, {m.req}), q)
<1>1. \/ Serves(n, m.req, q) \/ SendsOn(n, m.req, q) \/ FindLocation(n, {}, {m.req}, q)
  BY DEF HandleInvokeRequest, SendOrFind, Serves, SendsOn, MaySend
<1>2. {m.req} \in SUBSET Req /\ {} \in SUBSET Proc
  OBVIOUS
<1> QED BY <1>1, <1>2, FindStep

LEMMA NodeDownStep ==
  ASSUME TypeOK, AskedAreUp, Others, NEW n \in Node, NEW d \in Node, NodeDown(n, d)
  PROVE  \E q \in Networks :
           /\ Adds(q, net, {"LocateRequest"})
           /\ GoesOn(n, search[n], q, up[n] \ {d}) \/ GivesUp(n, search[n], q)
<1> DEFINE peers == up[n] \ {d}
           Goal(q) == GoesOn(n, search[n], q, peers) \/ GivesUp(n, search[n], q)
<1>1. /\ search[n] \in Records /\ up[n] \in SUBSET (Node \ {n})
      /\ search[n].asked \subseteq up[n] /\ net \in Networks
  <2>1. search \in [Node -> Records] /\ net \in Networks /\ up[n] \in SUBSET (Node \ {n})
    BY DEF TypeOK, Records, Others, Networks, Links
  <2> QED BY <2>1 DEF AskedAreUp
<1>2. peers \in SUBSET (Node \ {n}) /\ search[n].asked \ {d} \subseteq peers
  BY <1>1
<1>3. Adds(net, net, {"LocateRequest"})
  BY <1>1, AddsIsReflexive
<1>4. CASE LocateHandleDown(n, d, search[n], net, peers)
  <2>1. Goal(net)
    BY <1>1, <1>2, <1>4, HandleDownStep
  <2> QED BY <1>1, <1>3, <2>1
<1>5. CASE \E reached \in Reached(peers) :
             LET s == IF search[n] # NoSearch THEN search[n]
                      ELSE [NoSearch EXCEPT !.stage = "easy", !.count = 1]
                 t == [s EXCEPT !.stage = "aggressive", !.asked = @ \cup reached]
             IN  IF t.asked = {} THEN Resolve(n, Limbo, t, net)
                 ELSE LocateHandleDown(n, d, t, Questioned(net, n, reached), peers)
  <2> DEFINE s == IF search[n] # NoSearch THEN search[n]
                  ELSE [NoSearch EXCEPT !.stage = "easy", !.count = 1]
  <2>1. /\ s \in Records /\ s.states = search[n].states /\ s.msgs = search[n].msgs
        /\ s.asked = search[n].asked
    <3>1. CASE search[n] # NoSearch
      BY <1>1, <3>1
    <3>2. CASE search[n] = NoSearch
      <4>1. s = [stage |-> "easy", count |-> 1, asked |-> {}, states |-> {}, msgs |-> {}]
        BY <3>2 DEF NoSearch
      <4>2. 1 \in 0..Tries
        BY ConstAssumption
      <4> QED BY <3>2, <4>1, <4>2 DEF Records, NoSearch
    <3> QED BY <3>1, <3>2
  <2> HIDE DEF s
  <2>2. PICK reached \in Reached(peers) :
          LET t == [s EXCEPT !.stage = "aggressive", !.asked = @ \cup reached]
          IN  \/ Resolve(n, Limbo, t, net)
              \/ LocateHandleDown(n, d, t, Questioned(net, n, reached), peers)
    BY <1>5 DEF s
  <2> DEFINE t == [s EXCEPT !.stage = "aggressive", !.asked = @ \cup reached]
             q == Questioned(net, n, reached)
  <2>3. reached \subseteq peers
    BY ReachedArePeers
  <2>4. /\ t \in Records /\ t.states = search[n].states /\ t.msgs = search[n].msgs
        /\ t.asked \ {d} \subseteq peers
    BY <1>1, <1>2, <2>1, <2>3 DEF Records
  <2>5. n \notin reached
    BY <1>2, <2>3
  <2>6. q \in Networks /\ Adds(q, net, {"LocateRequest"})
    BY <1>1, <2>5, QuestionedAdds
  <2>7. Resolve(n, Limbo, t, net) \/ LocateHandleDown(n, d, t, q, peers)
    BY <2>2
  <2> HIDE DEF t, q, peers
  <2>8. CASE Resolve(n, Limbo, t, net)
    <3>1. Goal(net)
      BY <2>4, <2>8, ResolveNeedsWaiters DEF GivesUp
    <3> QED BY <1>1, <1>3, <3>1 DEF peers
  <2>9. CASE LocateHandleDown(n, d, t, q, peers)
    <3>1. GoesOn(n, t, q, peers) \/ GivesUp(n, t, q)
      BY <1>2, <2>4, <2>6, <2>9, HandleDownStep
    <3>2. Goal(q)
      BY <2>4, <3>1, SameWaiters
    <3> QED BY <2>6, <3>2 DEF peers
  <2> QED BY <2>7, <2>8, <2>9
<1> QED BY <1>4, <1>5 DEF NodeDown
-----------------------------------------------------------------------------
(* Where messages are.  M is a set of messages that one looks for. *)

(* a is b and messages that were sent since, none of M *)
Grown(a, b, M) ==
  \A c \in Links :
    /\ Len(b[c]) <= Len(a[c])
    /\ \A i \in 1..Len(b[c]) : a[c][i] = b[c][i]
    /\ \A i \in (Len(b[c]) + 1)..Len(a[c]) : a[c][i] \notin M

(* a is b without some messages at the ends of the links *)
Shrunk(a, b) ==
  \E k \in [Links -> Nat] : \A c \in Links : \A i \in 1..Len(a[c]) :
    i + k[c] \in 1..Len(b[c]) /\ a[c][i] = b[c][i + k[c]]

LEMMA AddsGrows ==
  ASSUME NEW a \in Networks, NEW b \in Networks, NEW kinds, Adds(a, b, kinds),
         NEW M, \A m \in M : m.kind \notin kinds
  PROVE  Grown(a, b, M)
BY DEF Adds, Grown

LEMMA GrownKeeps ==
  ASSUME NEW a \in Networks, NEW b \in Networks, NEW M, Grown(a, b, M)
  PROVE  /\ Absent(b, M) <=> Absent(a, M)
         /\ AtMostOne(b, M) => AtMostOne(a, M)
<1>1. \A c \in Links : Len(a[c]) \in Nat /\ Len(b[c]) \in Nat
  BY DEF Networks
<1>2. ASSUME NEW c \in Links, NEW i \in 1..Len(a[c]), a[c][i] \in M
      PROVE  i \in 1..Len(b[c]) /\ b[c][i] = a[c][i]
  <2>1. i \notin (Len(b[c]) + 1)..Len(a[c])
    BY <1>2 DEF Grown
  <2>2. i \in 1..Len(b[c])
    BY <1>1, <2>1
  <2> QED BY <2>2 DEF Grown
<1>3. ASSUME NEW c \in Links, NEW i \in 1..Len(b[c])
      PROVE  i \in 1..Len(a[c]) /\ b[c][i] = a[c][i]
  <2>1. Len(b[c]) <= Len(a[c]) /\ b[c][i] = a[c][i]
    BY DEF Grown
  <2> QED BY <1>1, <2>1
<1>4. Absent(b, M) <=> Absent(a, M)
  BY <1>2, <1>3 DEF Absent, Links
<1>5. AtMostOne(b, M) => AtMostOne(a, M)
  BY <1>2 DEF AtMostOne, Links
<1> QED BY <1>4, <1>5

LEMMA ShrunkKeeps ==
  ASSUME NEW a \in Networks, NEW b \in Networks, NEW M, Shrunk(a, b)
  PROVE  /\ Absent(b, M) => Absent(a, M)
         /\ AtMostOne(b, M) => AtMostOne(a, M)
<1>1. PICK k \in [Links -> Nat] : \A c \in Links : \A i \in 1..Len(a[c]) :
        i + k[c] \in 1..Len(b[c]) /\ a[c][i] = b[c][i + k[c]]
  BY DEF Shrunk
<1>2. ASSUME Absent(b, M), NEW c \in Links, NEW i \in 1..Len(a[c])
      PROVE  a[c][i] \notin M
  <2>1. i + k[c] \in 1..Len(b[c]) /\ a[c][i] = b[c][i + k[c]]
    BY <1>1
  <2>2. \A j \in 1..Len(b[c]) : b[c][j] \notin M
    BY <1>2 DEF Absent, Links
  <2> QED BY <2>1, <2>2
<1>3. ASSUME AtMostOne(b, M), NEW c \in Links, NEW d \in Links,
             NEW i \in 1..Len(a[c]), NEW j \in 1..Len(a[d]), a[c][i] \in M, a[d][j] \in M
      PROVE  c = d /\ i = j
  <2>1. /\ i + k[c] \in 1..Len(b[c]) /\ b[c][i + k[c]] \in M
        /\ j + k[d] \in 1..Len(b[d]) /\ b[d][j + k[d]] \in M
    BY <1>1, <1>3
  <2>2. c = d /\ i + k[c] = j + k[d]
    BY <1>3, <2>1 DEF AtMostOne, Links
  <2>3. k[c] \in Nat /\ Len(a[c]) \in Nat /\ Len(a[d]) \in Nat
    BY DEF Networks
  <2>4. i \in Nat /\ j \in Nat
    BY <2>3
  <2> QED BY <2>2, <2>3, <2>4
<1>4. AtMostOne(b, M) => AtMostOne(a, M)
  BY <1>3 DEF AtMostOne, Links
<1> QED BY <1>2, <1>4 DEF Absent, Links

LEMMA TookShrinks ==
  ASSUME TypeOK, NEW n \in Node, NEW srv \in Node, NEW q, NEW m, Took(q, n, srv, m)
  PROVE  Shrunk(q, net)
<1> DEFINE k == [c \in Links |-> IF c = <<srv, n>> THEN 1 ELSE 0]
<1>1. /\ q \in Networks /\ \A c \in Links : c # <<srv, n>> => q[c] = net[c]
      /\ Len(net[<<srv, n>>]) = Len(q[<<srv, n>>]) + 1
      /\ \A i \in 1..Len(q[<<srv, n>>]) : q[<<srv, n>>][i] = net[<<srv, n>>][i + 1]
  BY TookNetwork
<1>2. ASSUME NEW c \in Links, NEW i \in 1..Len(q[c])
      PROVE  i + k[c] \in 1..Len(net[c]) /\ q[c][i] = net[c][i + k[c]]
  <2>1. Len(q[c]) \in Nat
    BY <1>1 DEF Networks
  <2>2. CASE c = <<srv, n>>
    BY <1>1, <2>1, <2>2
  <2>3. CASE c # <<srv, n>>
    BY <1>1, <2>1, <2>3
  <2> QED BY <2>2, <2>3
<1> QED BY <1>2 DEF Shrunk

LEMMA TookOne ==
  ASSUME TypeOK, NEW n \in Node, NEW srv \in Node, NEW q, NEW m, Took(q, n, srv, m), NEW M
  PROVE  /\ m \in M => ~Absent(net, M)
         /\ m \in M /\ AtMostOne(net, M) => Absent(q, M)
         /\ m \notin M => (Absent(q, M) <=> Absent(net, M))
<1> DEFINE l == <<srv, n>>
<1>1. /\ l \in Links /\ q \in Networks /\ \A c \in Links : c # l => q[c] = net[c]
      /\ Len(net[l]) = Len(q[l]) + 1 /\ net[l][1] = m
      /\ \A i \in 1..Len(q[l]) : q[l][i] = net[l][i + 1]
  BY TookNetwork DEF Links
<1>2. Len(q[l]) \in Nat /\ Len(net[l]) \in Nat
  BY <1>1 DEF Networks
<1>3. 1 \in 1..Len(net[l]) /\ \A i \in 1..Len(q[l]) : i + 1 \in 1..Len(net[l]) /\ i + 1 # 1
  BY <1>1, <1>2
<1> HIDE DEF l
<1>4. m \in M => ~Absent(net, M)
  BY <1>1, <1>3 DEF Absent, Links
<1>5. ASSUME m \in M, AtMostOne(net, M), NEW c \in Links, NEW i \in 1..Len(q[c])
      PROVE  q[c][i] \notin M
  <2>1. CASE c = l
    BY <1>1, <1>3, <1>5, <2>1 DEF AtMostOne, Links
  <2>2. CASE c # l
    BY <1>1, <1>3, <1>5, <2>2 DEF AtMostOne, Links
  <2> QED BY <2>1, <2>2
<1>6. Absent(net, M) => Absent(q, M)
  <2>1. net \in Networks
    BY DEF TypeOK, Networks, Links
  <2> QED BY <1>1, <2>1, TookShrinks, ShrunkKeeps
<1>7. ASSUME m \notin M, Absent(q, M), NEW c \in Links, NEW i \in 1..Len(net[c])
      PROVE  net[c][i] \notin M
  <2>1. CASE c = l /\ i = 1
    BY <1>1, <1>7, <2>1
  <2>2. CASE c = l /\ i # 1
    <3>1. i - 1 \in 1..Len(q[l]) /\ net[l][i] = q[l][i - 1]
      BY <1>1, <1>2, <2>2
    <3> QED BY <1>1, <1>7, <2>2, <3>1 DEF Absent, Links
  <2>3. CASE c # l
    BY <1>1, <1>7, <2>3 DEF Absent, Links
  <2> QED BY <2>1, <2>2, <2>3
<1> QED BY <1>4, <1>5, <1>6, <1>7 DEF Absent, Links

(* Messages are sent of which one may be in M, when none was. *)
LEMMA SentOnce ==
  ASSUME NEW q \in Networks, NEW n \in Node, NEW m \in Node, NEW msgs \in Seq(Message), NEW M
  PROVE  /\ /\ Absent(q, M)
            /\ \A i, j \in 1..Len(msgs) : msgs[i] \in M /\ msgs[j] \in M => i = j
            => AtMostOne(Sent(q, n, m, msgs), M)
         /\ m \in alive /\ (\E i \in 1..Len(msgs) : msgs[i] \in M)
            => ~Absent(Sent(q, n, m, msgs), M)
         /\ (\A i \in 1..Len(msgs) : msgs[i] \notin M) => Grown(Sent(q, n, m, msgs), q, M)
<1>1. CASE m \notin alive
  <2>1. \A c \in Links : Len(q[c]) \in Nat
    BY DEF Networks
  <2>2. Sent(q, n, m, msgs) = q
    BY <1>1 DEF Sent
  <2>3. Grown(q, q, M)
    BY <2>1 DEF Grown
  <2>4. Absent(q, M) => AtMostOne(q, M)
    BY DEF Absent, AtMostOne
  <2> QED BY <1>1, <2>2, <2>3, <2>4
<1>2. CASE m \in alive
  <2> DEFINE l == <<n, m>>
             s == q[l] \o msgs
             a == [q EXCEPT ![l] = s]
  <2>1. l \in Links /\ q[l] \in Seq(Message)
    BY DEF Links, Networks
  <2>2. /\ s \in Seq(Message) /\ Len(q[l]) \in Nat /\ Len(msgs) \in Nat
        /\ Len(s) = Len(q[l]) + Len(msgs)
        /\ \A i \in 1..Len(q[l]) : s[i] = q[l][i]
        /\ \A i \in (Len(q[l]) + 1)..Len(s) : i - Len(q[l]) \in 1..Len(msgs) /\ s[i] = msgs[i - Len(q[l])]
        /\ \A i \in 1..Len(msgs) : i + Len(q[l]) \in 1..Len(s) /\ s[i + Len(q[l])] = msgs[i]
    BY <2>1
  <2>3. Sent(q, n, m, msgs) = a
    BY <1>2 DEF Sent
  <2> HIDE DEF s, l
  <2>4. a \in Networks /\ a[l] = s /\ \A c \in Links : c # l => a[c] = q[c]
    BY <2>1, <2>2 DEF Networks
  <2> HIDE DEF a
  <2>5. ASSUME Absent(q, M), NEW c \in Links, NEW i \in 1..Len(a[c]), a[c][i] \in M
        PROVE  /\ c = l /\ i \in Nat /\ i - Len(q[l]) \in 1..Len(msgs)
               /\ a[c][i] = msgs[i - Len(q[l])]
    <3>1. c = l
      BY <2>4, <2>5 DEF Absent, Links
    <3>2. i \in 1..Len(s) /\ a[c][i] = s[i]
      BY <2>4, <3>1
    <3>3. i \notin 1..Len(q[l])
      BY <2>1, <2>2, <2>5, <3>2 DEF Absent, Links
    <3>4. i \in Nat /\ i \in (Len(q[l]) + 1)..Len(s)
      BY <2>2, <3>2, <3>3
    <3> QED BY <2>2, <3>1, <3>2, <3>4
  <2>6. ASSUME Absent(q, M),
               \A i, j \in 1..Len(msgs) : msgs[i] \in M /\ msgs[j] \in M => i = j,
               NEW c \in Links, NEW d \in Links, NEW i \in 1..Len(a[c]), NEW j \in 1..Len(a[d]),
               a[c][i] \in M, a[d][j] \in M
        PROVE  c = d /\ i = j
    <3>1. /\ c = l /\ i \in Nat /\ i - Len(q[l]) \in 1..Len(msgs) /\ msgs[i - Len(q[l])] \in M
          /\ d = l /\ j \in Nat /\ j - Len(q[l]) \in 1..Len(msgs) /\ msgs[j - Len(q[l])] \in M
      BY <2>5, <2>6
    <3>2. i - Len(q[l]) = j - Len(q[l])
      BY <2>6, <3>1
    <3> QED BY <2>2, <3>1, <3>2
  <2>7. ASSUME NEW i \in 1..Len(msgs), msgs[i] \in M
        PROVE  ~Absent(a, M)
    BY <2>1, <2>2, <2>4, <2>7 DEF Absent, Links
  <2>8. ASSUME \A i \in 1..Len(msgs) : msgs[i] \notin M, NEW c \in Links
        PROVE  /\ Len(q[c]) <= Len(a[c])
               /\ \A i \in 1..Len(q[c]) : a[c][i] = q[c][i]
               /\ \A i \in (Len(q[c]) + 1)..Len(a[c]) : a[c][i] \notin M
    <3>1. CASE c = l
      <4>1. \A i \in (Len(q[l]) + 1)..Len(s) : s[i] \notin M
        BY <2>2, <2>8
      <4>2. Len(q[l]) <= Len(s)
        BY <2>2
      <4>3. a[c] = s /\ q[c] = q[l]
        BY <2>4, <3>1
      <4> QED BY <2>2, <4>1, <4>2, <4>3
    <3>2. CASE c # l
      <4>1. Len(q[c]) \in Nat /\ a[c] = q[c]
        BY <2>4, <3>2 DEF Networks
      <4> QED BY <4>1
    <3> QED BY <3>1, <3>2
  <2>9. /\ Absent(q, M)
        /\ \A i, j \in 1..Len(msgs) : msgs[i] \in M /\ msgs[j] \in M => i = j
        => AtMostOne(a, M)
    BY <2>6 DEF AtMostOne, Links
  <2>10. (\A i \in 1..Len(msgs) : msgs[i] \notin M) => Grown(a, q, M)
    BY <2>8 DEF Grown
  <2> QED BY <1>2, <2>3, <2>7, <2>9, <2>10
<1> QED BY <1>1, <1>2
-----------------------------------------------------------------------------
(* locationResolved *)

LEMMA OrderIsComplete ==
  ASSUME NEW S \in SUBSET Req, NEW order \in SetToSeqs(S)
  PROVE  /\ order \in Seq(Req)
         /\ \A i \in 1..Len(order) : order[i] \in S
         /\ \A i, j \in 1..Len(order) : order[i] = order[j] => i = j
         /\ \A r \in S : \E i \in 1..Len(order) : order[i] = r
<1> DEFINE D == 1..Cardinality(S)
<1>1. IsFiniteSet(S) /\ Cardinality(S) \in Nat
  BY ConstAssumption, FS_Subset, FS_CardinalityType
<1>2. order \in [D -> S] /\ \A i, j \in D : i # j => order[i] # order[j]
  BY DEF SetToSeqs
<1>3. order \in Seq(Req) /\ Len(order) = Cardinality(S)
  BY <1>1, <1>2
<1>4. IsFiniteSet(D) /\ Cardinality(D) = Cardinality(S)
  <2>1. 1 \in Int /\ Cardinality(S) \in Int
    BY <1>1
  <2>2. Cardinality(D) = IF 1 > Cardinality(S) THEN 0 ELSE Cardinality(S) - 1 + 1
    BY <2>1, FS_Interval
  <2>3. IsFiniteSet(D)
    BY <2>1, FS_Interval
  <2> QED BY <1>1, <2>2, <2>3
<1> HIDE DEF D
<1>5. order \in Injection(D, S)
  BY <1>2 DEF Injection, IsInjective
<1>6. order \in Surjection(D, S)
  BY <1>1, <1>4, <1>5, FS_Injection
<1>7. \A r \in S : \E i \in D : order[i] = r
  BY <1>6 DEF Surjection
<1> QED BY <1>2, <1>3, <1>7 DEF D

LEMMA BatchOnce ==
  ASSUME NEW S \in SUBSET Req, NEW order \in SetToSeqs(S), NEW batch,
         batch = [i \in DOMAIN order |-> InvokeRequest(order[i])]
  PROVE  /\ batch \in Seq(Message)
         /\ \A i \in 1..Len(batch) : batch[i].kind = "InvokeRequest"
         /\ \A r \in Req : \A M :
              M = {InvokeRequest(r)} =>
                /\ \A i, j \in 1..Len(batch) : batch[i] \in M /\ batch[j] \in M => i = j
                /\ r \in S => \E i \in 1..Len(batch) : batch[i] \in M
                /\ r \notin S => \A i \in 1..Len(batch) : batch[i] \notin M
<1>1. /\ order \in Seq(Req) /\ \A i \in 1..Len(order) : order[i] \in S
      /\ \A i, j \in 1..Len(order) : order[i] = order[j] => i = j
      /\ \A r \in S : \E i \in 1..Len(order) : order[i] = r
  BY OrderIsComplete
<1>2. \A r \in Req : InvokeRequest(r) \in Message
  BY MessageKinds
<1>3. \A r, t : InvokeRequest(r).kind = "InvokeRequest" /\ (InvokeRequest(r) = InvokeRequest(t) => r = t)
  <2> TAKE r, t
  <2>1. InvokeRequest(r).req = r /\ InvokeRequest(t).req = t
    BY DEF InvokeRequest
  <2> QED BY <2>1 DEF InvokeRequest
<1>4. batch \in Seq(Message) /\ Len(batch) = Len(order)
  BY <1>1, <1>2
<1>5. \A i \in 1..Len(batch) : batch[i] = InvokeRequest(order[i])
  BY <1>1, <1>4
<1> QED BY <1>1, <1>3, <1>4, <1>5

LEMMA UpdatedStays ==
  ASSUME TypeOK, NEW n \in Node, NEW srv \in Node \cup {Limbo}
  PROVE  /\ Updated(n, srv) \in [Node -> Node \cup {Limbo}]
         /\ \A k \in Node : Updated(n, srv)[k] = k <=> loc[k] = k
BY ConstAssumption DEF TypeOK, Updated

(* The messages r that s holds are sent; the others stay where they are. *)
Sends(n, srv, s, q) ==
  \A r \in Req :
    /\ r \notin s.msgs => Grown(net', q, {InvokeRequest(r)})
    /\ Absent(q, {InvokeRequest(r)}) => AtMostOne(net', {InvokeRequest(r)})
    /\ r \in s.msgs /\ srv \in up[n] \cap alive => ~Absent(net', {InvokeRequest(r)})

LEMMA ResolveEffect ==
  ASSUME TypeOK, Others, NEW n \in Node, NEW srv \in Node \cup {Limbo},
         NEW s \in Records, NEW q \in Networks, Resolve(n, srv, s, q)
  PROVE  /\ loc' \in [Node -> Node \cup {Limbo}] /\ \A k \in Node : loc'[k] = k <=> loc[k] = k
         /\ search' = [search EXCEPT ![n] = NoSearch]
         /\ told' = [p \in Proc |-> IF p \in s.states THEN srv ELSE told[p]]
         /\ net' \in Networks /\ Adds(net', q, {"InvokeRequest"})
         /\ \/ /\ \E answer \in {"done", "refused"} :
                     reqs' = [r \in Req |-> IF r \in s.msgs THEN answer ELSE reqs[r]]
               /\ net' = q
            \/ /\ loc[n] # n /\ srv # Limbo
               /\ reqs' = reqs /\ Sends(n, srv, s, q)
<1>1. loc' \in [Node -> Node \cup {Limbo}] /\ \A k \in Node : loc'[k] = k <=> loc[k] = k
  BY UpdatedStays DEF Resolve
<1>2. CASE loc[n] = n \/ srv = Limbo
  <2>1. net' = q /\ Adds(net', q, {"InvokeRequest"})
    BY <1>2, AddsIsReflexive DEF Resolve
  <2>2. CASE loc[n] = n
    <3>1. reqs' = [r \in Req |-> IF r \in s.msgs THEN "done" ELSE reqs[r]]
      BY <1>2, <2>2 DEF Resolve
    <3> QED BY <1>1, <2>1, <3>1 DEF Resolve
  <2>3. CASE loc[n] # n
    <3>1. reqs' = [r \in Req |-> IF r \in s.msgs THEN "refused" ELSE reqs[r]]
      BY <1>2, <2>3 DEF Resolve
    <3> QED BY <1>1, <2>1, <3>1 DEF Resolve
  <2> QED BY <2>2, <2>3
<1>3. CASE ~(loc[n] = n \/ srv = Limbo)
  <2>1. PICK order \in SetToSeqs(s.msgs) :
          net' = IF MaySend(n, srv)
                 THEN Sent(q, n, srv, [i \in DOMAIN order |-> InvokeRequest(order[i])])
                 ELSE q
    BY <1>3 DEF Resolve
  <2> DEFINE batch == [i \in DOMAIN order |-> InvokeRequest(order[i])]
  <2>2. s.msgs \in SUBSET Req
    BY DEF Records
  <2>3. /\ batch \in Seq(Message)
        /\ \A i \in 1..Len(batch) : batch[i].kind = "InvokeRequest"
        /\ \A r \in Req : \A M :
             M = {InvokeRequest(r)} =>
               /\ \A i, j \in 1..Len(batch) : batch[i] \in M /\ batch[j] \in M => i = j
               /\ r \in s.msgs => \E i \in 1..Len(batch) : batch[i] \in M
               /\ r \notin s.msgs => \A i \in 1..Len(batch) : batch[i] \notin M
    BY <2>2, BatchOnce
  <2>4. net' = IF MaySend(n, srv) THEN Sent(q, n, srv, batch) ELSE q
    BY <2>1
  <2>5. reqs' = reqs /\ srv \in Node
    BY <1>3 DEF Resolve
  <2> HIDE DEF batch
  <2>6. CASE MaySend(n, srv)
    <3>1. srv \in up[n] /\ srv \in Node \ {n} /\ net' = Sent(q, n, srv, batch)
      BY <2>4, <2>5, <2>6 DEF MaySend, Others
    <3>2. net' \in Networks /\ Adds(net', q, {"InvokeRequest"})
      BY <2>3, <3>1, SentAdds
    <3>3. ASSUME NEW r \in Req
          PROVE  /\ r \notin s.msgs => Grown(net', q, {InvokeRequest(r)})
                 /\ Absent(q, {InvokeRequest(r)}) => AtMostOne(net', {InvokeRequest(r)})
                 /\ r \in s.msgs /\ srv \in up[n] \cap alive => ~Absent(net', {InvokeRequest(r)})
      <4> DEFINE M == {InvokeRequest(r)}
      <4>1. /\ \A i, j \in 1..Len(batch) : batch[i] \in M /\ batch[j] \in M => i = j
            /\ r \in s.msgs => \E i \in 1..Len(batch) : batch[i] \in M
            /\ r \notin s.msgs => \A i \in 1..Len(batch) : batch[i] \notin M
        <5>1. M = {InvokeRequest(r)}
          OBVIOUS
        <5> HIDE DEF M
        <5> QED BY <2>3, <5>1
      <4> HIDE DEF M
      <4>2. r \notin s.msgs => Grown(net', q, M)
        BY <2>3, <3>1, <4>1, SentOnce
      <4>3. Absent(q, M) => AtMostOne(net', M)
        BY <2>3, <3>1, <4>1, SentOnce
      <4>4. r \in s.msgs /\ srv \in alive => ~Absent(net', M)
        BY <2>3, <3>1, <4>1, SentOnce
      <4> QED BY <4>2, <4>3, <4>4 DEF M
    <3> QED BY <1>1, <1>3, <2>5, <3>2, <3>3 DEF Resolve, Sends
  <2>7. CASE ~MaySend(n, srv)
    <3>1. net' = q /\ srv \notin up[n]
      BY <2>4, <2>7 DEF MaySend
    <3>2. \A c \in Links : Len(q[c]) \in Nat
      BY DEF Networks
    <3>3. \A M : Grown(q, q, M) /\ (Absent(q, M) => AtMostOne(q, M))
      BY <3>2 DEF Grown, Absent, AtMostOne
    <3>4. Adds(net', q, {"InvokeRequest"})
      BY <3>1, AddsIsReflexive
    <3> QED BY <1>1, <1>3, <2>5, <3>1, <3>3, <3>4 DEF Resolve, Sends
  <2> QED BY <2>6, <2>7
<1> QED BY <1>2, <1>3

(* A step of the search at n from record s and network q: it goes on, or ends
   with the object found, where the record has only what the search held, or
   given up. *)
SearchStep(n, s, q, peers) ==
  \/ GoesOn(n, s, q, peers)
  \/ \E srv \in Node \cup {Limbo} :
       /\ srv = n => loc[n] = n
       /\ srv # Limbo => s = search[n]
       /\ Resolve(n, srv, s, q)

(* What such a step does not change *)
Quiet(n, q, peers) ==
  /\ loc' \in [Node -> Node \cup {Limbo}] /\ \A k \in Node : loc'[k] = k <=> loc[k] = k
  /\ search' \in [Node -> Records] /\ \A k \in Node : k # n => search'[k] = search[k]
  /\ search'[n].asked \subseteq peers
  /\ told' \in [Proc -> Node \cup {Limbo, "idle", "waiting"}]
  /\ reqs' \in [Req -> {"unsent", "pending", "done", "refused"}]
  /\ net' \in Networks /\ Adds(net', q, {"LocateRequest", "InvokeRequest"})

LEMMA SearchStepIsQuiet ==
  ASSUME TypeOK, Others, NEW n \in Node, NEW s \in Records, NEW q \in Networks,
         NEW peers, SearchStep(n, s, q, peers)
  PROVE  Quiet(n, q, peers)
<1> DEFINE kinds == {"LocateRequest", "InvokeRequest"}
<1>1. /\ loc \in [Node -> Node \cup {Limbo}] /\ search \in [Node -> Records]
      /\ told \in [Proc -> Node \cup {Limbo, "idle", "waiting"}]
      /\ reqs \in [Req -> {"unsent", "pending", "done", "refused"}]
  BY DEF TypeOK, Records
<1>2. CASE GoesOn(n, s, q, peers)
  <2>1. PICK t \in Records :
          /\ t.asked \subseteq peers /\ Searching(n, t)
          /\ net' \in Networks /\ Adds(net', q, {"LocateRequest"})
    BY <1>2 DEF GoesOn
  <2>2. Adds(net', q, kinds)
    BY <2>1 DEF Adds
  <2>3. search' = [search EXCEPT ![n] = t]
    BY <2>1 DEF Searching
  <2> QED BY <1>1, <2>1, <2>2, <2>3 DEF Quiet, Searching
<1>3. CASE \E srv \in Node \cup {Limbo} : Resolve(n, srv, s, q)
  <2>1. PICK srv \in Node \cup {Limbo} : Resolve(n, srv, s, q)
    BY <1>3
  <2>2. /\ loc' \in [Node -> Node \cup {Limbo}] /\ \A k \in Node : loc'[k] = k <=> loc[k] = k
        /\ search' = [search EXCEPT ![n] = NoSearch]
        /\ told' = [p \in Proc |-> IF p \in s.states THEN srv ELSE told[p]]
        /\ net' \in Networks /\ Adds(net', q, {"InvokeRequest"})
        /\ \/ \E answer \in {"done", "refused"} :
                 reqs' = [r \in Req |-> IF r \in s.msgs THEN answer ELSE reqs[r]]
           \/ reqs' = reqs
    BY <2>1, ResolveEffect
  <2>3. NoSearch \in Records /\ NoSearch.asked = {}
    BY ConstAssumption DEF NoSearch, Records
  <2>4. Adds(net', q, kinds)
    BY <2>2 DEF Adds
  <2>5. reqs' \in [Req -> {"unsent", "pending", "done", "refused"}]
    BY <1>1, <2>2
  <2>6. /\ search' \in [Node -> Records] /\ \A k \in Node : k # n => search'[k] = search[k]
        /\ search'[n].asked \subseteq peers
    BY <1>1, <2>2, <2>3
  <2>7. told' \in [Proc -> Node \cup {Limbo, "idle", "waiting"}]
    BY <1>1, <2>2
  <2> QED BY <2>2, <2>4, <2>5, <2>6, <2>7 DEF Quiet
<1> QED BY <1>2, <1>3 DEF SearchStep
-----------------------------------------------------------------------------
(* The steps that move no object *)

(* No node has mail from itself. *)
NoSelfMail == \A n \in Node : net[<<n, n>>] = <<>>

(* q is the network of a handler or a step that goes on from it. *)
From(q) == q \in Networks /\ (Shrunk(q, net) \/ Adds(q, net, {"LocateRequest"}))

Calm(q) ==
  /\ From(q)
  /\ loc' \in [Node -> Node \cup {Limbo}] /\ \A k \in Node : loc'[k] = k <=> loc[k] = k
  /\ search' \in [Node -> Records] /\ \A k \in Node : search'[k].asked \subseteq up'[k]
  /\ told' \in [Proc -> Node \cup {Limbo, "idle", "waiting"}]
  /\ reqs' \in [Req -> {"unsent", "pending", "done", "refused"}]
  /\ net' \in Networks /\ Adds(net', q, {"LocateRequest", "LocateReply", "InvokeRequest"})

LEMMA FromKeeps ==
  ASSUME TypeOK, NEW q, From(q)
  PROVE  /\ \A M : (\A m \in M : m.kind # "LocateRequest")
              => /\ Absent(net, M) => Absent(q, M)
                 /\ AtMostOne(net, M) => AtMostOne(q, M)
         /\ \A k \in Node : net[<<k, k>>] = <<>> => q[<<k, k>>] = <<>>
<1>1. q \in Networks /\ net \in Networks
  BY DEF From, TypeOK, Networks, Links
<1>2. CASE Shrunk(q, net)
  <2>1. PICK k \in [Links -> Nat] : \A c \in Links : \A i \in 1..Len(q[c]) :
          i + k[c] \in 1..Len(net[c]) /\ q[c][i] = net[c][i + k[c]]
    BY <1>2 DEF Shrunk
  <2>2. ASSUME NEW l \in Node, net[<<l, l>>] = <<>> PROVE q[<<l, l>>] = <<>>
    <3> DEFINE c == <<l, l>>
    <3>1. c \in Links /\ q[c] \in Seq(Message) /\ Len(q[c]) \in Nat /\ Len(net[c]) = 0
      BY <1>1, <2>2 DEF Links, Networks
    <3> HIDE DEF c
    <3>2. \A i \in 1..Len(q[c]) : i + k[c] \in 1..0
      BY <2>1, <3>1
    <3>3. ~(1 \in 1..Len(q[c]))
      <4>1. k[c] \in Nat
        BY <3>1
      <4> QED BY <3>2, <4>1
    <3>4. Len(q[c]) = 0
      BY <3>1, <3>3
    <3> QED BY <3>1, <3>4 DEF c
  <2> QED BY <1>1, <1>2, <2>2, ShrunkKeeps
<1>3. CASE Adds(q, net, {"LocateRequest"})
  <2>1. ASSUME NEW M, \A m \in M : m.kind # "LocateRequest"
        PROVE  /\ Absent(net, M) => Absent(q, M)
               /\ AtMostOne(net, M) => AtMostOne(q, M)
    BY <1>1, <1>3, <2>1, AddsGrows, GrownKeeps
  <2>2. \A k \in Node : net[<<k, k>>] = <<>> => q[<<k, k>>] = <<>>
    BY <1>3 DEF Adds, Links
  <2> QED BY <2>1, <2>2
<1> QED BY <1>2, <1>3 DEF From

LEMMA NetIsFrom == TypeOK => From(net)
BY AddsIsReflexive DEF From, TypeOK, Networks, Links

LEMMA TookIsFrom ==
  ASSUME TypeOK, NEW n \in Node, NEW srv \in Node, NEW q, NEW m, Took(q, n, srv, m)
  PROVE  From(q)
BY TookNetwork, TookShrinks DEF From

LEMMA QuietIsCalm ==
  ASSUME TypeOK, AskedAreUp, NEW n \in Node, NEW q, From(q), Quiet(n, q, up'[n]),
         \A k \in Node : k # n => up'[k] = up[k]
  PROVE  Calm(q)
<1>1. \A k \in Node : search'[k].asked \subseteq up'[k]
  BY DEF Quiet, AskedAreUp
<1>2. Adds(net', q, {"LocateRequest", "LocateReply", "InvokeRequest"})
  BY DEF Quiet, Adds
<1> QED BY <1>1, <1>2 DEF Quiet, Calm

(* What stays in this way keeps the types, and what a node may ask. *)
Base == TypeOK /\ AskedAreUp /\ Others /\ NoSelfMail

(* While all nodes live, each has a connection to every other. *)
UpWhileLive == alive = Node => \A n \in Node : up[n] = Node \ {n}

LEMMA CalmKeepsBase ==
  ASSUME Base, NEW q, Calm(q), alive' = alive,
         up' \in [Node -> SUBSET Node], \A n \in Node : up'[n] \subseteq up[n],
         calls' \in Nat, moves' \in Nat, pokes' \in Nat
  PROVE  Base'
<1>1. net' \in [Node \X Node -> Seq(Message)]
  BY DEF Calm, Networks, Links
<1>2. TypeOK'
  BY <1>1 DEF Base, TypeOK, Calm, Records
<1>3. \A n \in Node : net'[<<n, n>>] = <<>>
  <2>1. ASSUME NEW n \in Node PROVE net'[<<n, n>>] = <<>>
    <3>1. q[<<n, n>>] = <<>>
      BY FromKeeps DEF Base, NoSelfMail, Calm
    <3>2. <<n, n>> \in Links
      BY DEF Links
    <3> QED BY <3>1, <3>2 DEF Calm, Adds
  <2> QED BY <2>1
<1>4. AskedAreUp' /\ Others'
  BY DEF Base, AskedAreUp, Others, Calm
<1> QED BY <1>2, <1>3, <1>4 DEF Base, NoSelfMail

LEMMA CalmKeepsCopy ==
  ASSUME TypeOK, OneCopy, NEW q, Calm(q)
  PROVE  OneCopy'
<1>1. \A m \in MoveRequests : m.kind = "MoveRequest"
  BY DEF MoveRequests, MoveRequest
<1>2. Absent(net, MoveRequests) => Absent(q, MoveRequests)
  BY <1>1, FromKeeps DEF Calm
<1>3. AtMostOne(q, MoveRequests)
  BY <1>1, FromKeeps DEF Calm, OneCopy
<1>4. Grown(net', q, MoveRequests) /\ q \in Networks /\ net' \in Networks
  BY <1>1, AddsGrows DEF Calm, From
<1>5. AtMostOne(net', MoveRequests) /\ (Absent(q, MoveRequests) => Absent(net', MoveRequests))
  BY <1>3, <1>4, GrownKeeps
<1>6. Residents' = Residents
  BY DEF Residents, Calm
<1> QED BY <1>2, <1>5, <1>6 DEF OneCopy, AtMostOne, Absent

(* The object's node changes or a stub's place is learnt; nothing is sent. *)
Learns(n, srv, q) ==
  loc' = Updated(n, srv) /\ net' = q /\ UNCHANGED <<search, told, reqs>>

Served(n, srv, m, q) ==
  \/ m.kind \in {"LocateRequest", "LocateReply"} /\ Answers(q)
  \/ m.kind = "LocateReply" /\ SearchStep(n, search[n], q, up[n])
  \/ /\ m.kind = "InvokeRequest" /\ m.req \in Req /\ m = InvokeRequest(m.req)
     /\ \/ Serves(n, m.req, q)
        \/ SendsOn(n, m.req, q)
        \/ SearchStep(n, Joined(n, {}, {m.req}), q, up[n])
  \/ m.kind = "MoveRequest" /\ HandleMoveRequest(n, srv, m, q)
  \/ m.kind = "MoveReply" /\ Learns(n, srv, q)

LEMMA ReceiveStep ==
  ASSUME Base, NEW n \in Node, NEW srv \in Node, Receive(n, srv)
  PROVE  /\ n \in alive /\ n # srv
         /\ \E q \in Networks, m \in Message : Took(q, n, srv, m) /\ Served(n, srv, m, q)
<1> DEFINE m == Head(net[<<srv, n>>])
           q == [net EXCEPT ![<<srv, n>>] = Tail(@)]
<1> USE DEF Base
<1>1. Took(q, n, srv, m)
  BY DEF Receive, Took
<1>2. n \in alive /\ n # srv
  BY DEF Receive, NoSelfMail
<1>3. \/ m.kind = "LocateRequest" /\ HandleLocateRequest(n, srv, m, q)
      \/ m.kind = "LocateReply"   /\ HandleLocateReply(n, srv, m, q)
      \/ m.kind = "InvokeRequest" /\ HandleInvokeRequest(n, srv, m, q)
      \/ m.kind = "MoveRequest"   /\ HandleMoveRequest(n, srv, m, q)
      \/ m.kind = "MoveReply"     /\ HandleMoveReply(n, srv, m, q)
  BY DEF Receive
<1> HIDE DEF m, q
<1>4. q \in Networks /\ m \in Message
  BY <1>1, TookNetwork
<1>5. CASE m.kind = "LocateRequest" /\ HandleLocateRequest(n, srv, m, q)
  BY <1>1, <1>2, <1>4, <1>5, LocateRequestStep DEF Served
<1>6. CASE m.kind = "LocateReply" /\ HandleLocateReply(n, srv, m, q)
  <2>1. \/ UNCHANGED <<loc, search, told, reqs>> /\ net' = q
        \/ GoesOn(n, search[n], q, up[n])
        \/ GivesUp(n, search[n], q)
        \/ loc[n] = n /\ Finds(n, n, q)
        \/ loc[n] # n /\ Finds(n, srv, q)
    BY <1>4, <1>6, LocateReplyStep
  <2>2. CASE UNCHANGED <<loc, search, told, reqs>> /\ net' = q
    <3>1. Answers(q)
      BY <1>4, <2>2, AddsIsReflexive DEF Answers
    <3> QED BY <1>1, <1>2, <1>4, <1>6, <3>1 DEF Served
  <2>3. CASE ~(UNCHANGED <<loc, search, told, reqs>> /\ net' = q)
    <3>1. SearchStep(n, search[n], q, up[n])
      BY <1>2, <2>1, <2>3, ConstAssumption DEF SearchStep, Finds, GivesUp
    <3> QED BY <1>1, <1>2, <1>4, <1>6, <3>1 DEF Served
  <2> QED BY <2>2, <2>3
<1>7. CASE m.kind = "InvokeRequest" /\ HandleInvokeRequest(n, srv, m, q)
  <2>1. m.req \in Req /\ m = InvokeRequest(m.req)
    BY <1>4, <1>7, MessageKinds
  <2>2. \/ Serves(n, m.req, q)
        \/ SendsOn(n, m.req, q)
        \/ GoesOn(n, Joined(n, {}, {m.req}), q, up[n])
        \/ GivesUp(n, Joined(n, {}, {m.req}), q)
    BY <1>4, <1>7, <2>1, InvokeRequestStep
  <2>3. \/ Serves(n, m.req, q)
        \/ SendsOn(n, m.req, q)
        \/ SearchStep(n, Joined(n, {}, {m.req}), q, up[n])
    BY <2>2, ConstAssumption DEF SearchStep, GivesUp
  <2> QED BY <1>1, <1>2, <1>4, <1>7, <2>1, <2>3 DEF Served
<1>8. CASE m.kind = "MoveRequest" /\ HandleMoveRequest(n, srv, m, q)
  BY <1>1, <1>2, <1>4, <1>8 DEF Served
<1>9. CASE m.kind = "MoveReply" /\ HandleMoveReply(n, srv, m, q)
  BY <1>1, <1>2, <1>4, <1>9 DEF Served, HandleMoveReply, Learns
<1> QED BY <1>3, <1>5, <1>6, <1>7, <1>8, <1>9

LEMMA SearchStepIsCalm ==
  ASSUME Base, NEW n \in Node, NEW s \in Records, NEW q,
         From(q), SearchStep(n, s, q, up'[n]), \A k \in Node : k # n => up'[k] = up[k]
  PROVE  Calm(q)
<1>1. Quiet(n, q, up'[n])
  BY SearchStepIsQuiet DEF Base, From
<1> QED BY <1>1, QuietIsCalm DEF Base

LEMMA SendsOnAdds ==
  ASSUME Base, NEW n \in Node, NEW r \in Req, NEW q \in Networks, SendsOn(n, r, q)
  PROVE  /\ net' \in Networks /\ Adds(net', q, {"InvokeRequest"})
         /\ Absent(q, {InvokeRequest(r)}) => AtMostOne(net', {InvokeRequest(r)})
         /\ loc[n] \in alive => ~Absent(net', {InvokeRequest(r)})
         /\ \A t \in Req : t # r => Grown(net', q, {InvokeRequest(t)})
<1> DEFINE msg == InvokeRequest(r)
           msgs == <<msg>>
<1>1. msg \in Message /\ msg.kind = "InvokeRequest" /\ \A t : InvokeRequest(t) = msg => t = r
  <2>1. \A t : InvokeRequest(t).req = t
    BY DEF InvokeRequest
  <2> QED BY <2>1, MessageKinds DEF InvokeRequest
<1>2. loc[n] \in Node \ {n} /\ net' = Sent(q, n, loc[n], msgs)
  BY DEF SendsOn, Base, Others, TypeOK
<1> HIDE DEF msg
<1>3. msgs \in Seq(Message) /\ Len(msgs) = 1 /\ \A i \in 1..Len(msgs) : i = 1 /\ msgs[i] = msg
  BY <1>1, OneMessage
<1>4. 1 \in 1..Len(msgs) /\ msgs[1] = msg
  BY <1>3
<1> HIDE DEF msgs
<1>5. net' \in Networks /\ Adds(net', q, {"InvokeRequest"})
  BY <1>1, <1>2, <1>3, SentAdds
<1>6. Absent(q, {msg}) => AtMostOne(net', {msg})
  BY <1>2, <1>3, SentOnce
<1>7. loc[n] \in alive => ~Absent(net', {msg})
  BY <1>2, <1>3, <1>4, SentOnce
<1>8. ASSUME NEW t \in Req, t # r PROVE Grown(net', q, {InvokeRequest(t)})
  <2>1. \A i \in 1..Len(msgs) : msgs[i] \notin {InvokeRequest(t)}
    BY <1>1, <1>3, <1>8
  <2> QED BY <1>2, <1>3, <2>1, SentOnce
<1> QED BY <1>5, <1>6, <1>7, <1>8 DEF msg

LEMMA ServedIsCalm ==
  ASSUME Base, NEW n \in Node, NEW srv \in Node, NEW q, NEW m \in Message, up' = up,
         Took(q, n, srv, m), Served(n, srv, m, q), m.kind # "MoveRequest"
  PROVE  Calm(q)
<1> DEFINE kinds == {"LocateRequest", "LocateReply", "InvokeRequest"}
<1>1. /\ loc \in [Node -> Node \cup {Limbo}] /\ search \in [Node -> Records]
      /\ told \in [Proc -> Node \cup {Limbo, "idle", "waiting"}]
      /\ reqs \in [Req -> {"unsent", "pending", "done", "refused"}]
      /\ \A k \in Node : search[k].asked \subseteq up[k]
  BY DEF Base, TypeOK, Records, AskedAreUp
<1>2. From(q) /\ q \in Networks
  BY TookIsFrom DEF Base, From
<1>3. CASE Answers(q)
  <2>1. Adds(net', q, kinds)
    BY <1>3 DEF Answers, Adds
  <2> QED BY <1>1, <1>2, <1>3, <2>1 DEF Answers, Calm
<1>4. CASE SearchStep(n, search[n], q, up[n])
  BY <1>1, <1>2, <1>4, SearchStepIsCalm
<1>5. CASE m.req \in Req /\ Serves(n, m.req, q)
  <2>1. Adds(net', q, kinds)
    BY <1>2, <1>5, AddsIsReflexive DEF Serves
  <2> QED BY <1>1, <1>2, <1>5, <2>1 DEF Serves, Calm
<1>6. CASE m.req \in Req /\ SendsOn(n, m.req, q)
  <2>1. net' \in Networks /\ Adds(net', q, {"InvokeRequest"})
    BY <1>2, <1>6, SendsOnAdds
  <2>2. Adds(net', q, kinds)
    BY <2>1 DEF Adds
  <2> QED BY <1>1, <1>2, <1>6, <2>1, <2>2 DEF SendsOn, Calm
<1>7. CASE m.req \in Req /\ SearchStep(n, Joined(n, {}, {m.req}), q, up[n])
  <2>1. {m.req} \in SUBSET Req /\ {} \in SUBSET Proc
    BY <1>7
  <2>2. Joined(n, {}, {m.req}) \in Records
    BY <2>1, JoinedRecord DEF Base
  <2> QED BY <1>2, <1>7, <2>2, SearchStepIsCalm
<1>8. CASE Learns(n, srv, q)
  <2>1. Adds(net', q, kinds)
    BY <1>2, <1>8, AddsIsReflexive DEF Learns
  <2>2. loc' \in [Node -> Node \cup {Limbo}] /\ \A k \in Node : loc'[k] = k <=> loc[k] = k
    BY <1>8, UpdatedStays DEF Base, Learns
  <2> QED BY <1>1, <1>2, <1>8, <2>1, <2>2 DEF Learns, Calm
<1> QED BY <1>3, <1>4, <1>5, <1>6, <1>7, <1>8 DEF Served

LEMMA CallStep ==
  ASSUME Base, NEW p \in Proc, Call(p)
  PROVE  /\ Place[p] \in Node /\ Place[p] \in alive
         /\ SearchStep(Place[p], Joined(Place[p], {p}, {}), net, up[Place[p]])
<1>1. Place[p] \in Node /\ Place[p] \in alive /\ FindLocation(Place[p], {p}, {}, net)
  BY ConstAssumption DEF Call
<1>2. {p} \in SUBSET Proc /\ {} \in SUBSET Req /\ net \in Networks
  BY DEF Base, TypeOK, Networks, Links
<1>3. \/ GoesOn(Place[p], Joined(Place[p], {p}, {}), net, up[Place[p]])
      \/ GivesUp(Place[p], Joined(Place[p], {p}, {}), net)
  BY <1>1, <1>2, FindStep DEF Base
<1> QED BY <1>1, <1>3, ConstAssumption DEF SearchStep, GivesUp

LEMMA InvokeStep ==
  ASSUME Base, NEW r \in Req, Invoke(r)
  PROVE  /\ Place[r] \in Node /\ Place[r] \in alive /\ reqs[r] = "unsent"
         /\ \/ SendsOn(Place[r], r, net)
            \/ SearchStep(Place[r], Joined(Place[r], {}, {r}), net, up[Place[r]])
<1> DEFINE n == Place[r]
<1>1. n \in Node /\ n \in alive /\ reqs[r] = "unsent"
  BY ConstAssumption DEF Invoke
<1>2. SendsOn(n, r, net) \/ FindLocation(n, {}, {r}, net)
  BY DEF Invoke, SendOrFind, SendsOn, MaySend
<1>3. {r} \in SUBSET Req /\ {} \in SUBSET Proc /\ net \in Networks
  BY DEF Base, TypeOK, Networks, Links
<1> HIDE DEF n
<1>4. CASE FindLocation(n, {}, {r}, net)
  <2>1. \/ GoesOn(n, Joined(n, {}, {r}), net, up[n])
        \/ GivesUp(n, Joined(n, {}, {r}), net)
    BY <1>1, <1>3, <1>4, FindStep DEF Base
  <2>2. SearchStep(n, Joined(n, {}, {r}), net, up[n])
    BY <1>1, <2>1, ConstAssumption DEF SearchStep, GivesUp
  <2> QED BY <1>1, <2>2 DEF n
<1> QED BY <1>1, <1>2, <1>4 DEF n

LEMMA DownStep ==
  ASSUME Base, NEW n \in Node, NEW d \in Node, NodeDown(n, d)
  PROVE  /\ n \in alive /\ d \notin alive
         /\ up' = [up EXCEPT ![n] = up[n] \ {d}]
         /\ \E q : /\ From(q) /\ Adds(q, net, {"LocateRequest"})
                   /\ SearchStep(n, search[n], q, up'[n])
<1>1. n \in alive /\ d \notin alive /\ up' = [up EXCEPT ![n] = up[n] \ {d}]
  BY DEF NodeDown
<1>2. up'[n] = up[n] \ {d}
  BY <1>1 DEF Base, TypeOK
<1>3. PICK q \in Networks :
        /\ Adds(q, net, {"LocateRequest"})
        /\ GoesOn(n, search[n], q, up[n] \ {d}) \/ GivesUp(n, search[n], q)
  BY NodeDownStep DEF Base
<1>4. SearchStep(n, search[n], q, up'[n])
  BY <1>2, <1>3, ConstAssumption DEF SearchStep, GivesUp
<1> QED BY <1>1, <1>3, <1>4 DEF From

(* Every step but a move's, a death and a loss is calm. *)
LEMMA CallIsCalm ==
  ASSUME Base, NEW p \in Proc, Call(p)
  PROVE  Calm(net)
<1> DEFINE n == Place[p]
<1>1. n \in Node /\ SearchStep(n, Joined(n, {p}, {}), net, up[n]) /\ up' = up
  BY CallStep DEF Call
<1>2. {p} \in SUBSET Proc /\ {} \in SUBSET Req
  OBVIOUS
<1> HIDE DEF n
<1>3. Joined(n, {p}, {}) \in Records
  BY <1>1, <1>2, JoinedRecord DEF Base
<1> QED BY <1>1, <1>3, NetIsFrom, SearchStepIsCalm DEF Base

LEMMA InvokeIsCalm ==
  ASSUME Base, NEW r \in Req, Invoke(r)
  PROVE  Calm(net)
<1> DEFINE n == Place[r]
<1>1. /\ n \in Node /\ up' = up
      /\ SendsOn(n, r, net) \/ SearchStep(n, Joined(n, {}, {r}), net, up[n])
  BY InvokeStep DEF Invoke
<1>2. {r} \in SUBSET Req /\ {} \in SUBSET Proc
  OBVIOUS
<1>3. From(net) /\ net \in Networks
  BY NetIsFrom DEF Base, From
<1> HIDE DEF n
<1>4. Joined(n, {}, {r}) \in Records
  BY <1>1, <1>2, JoinedRecord DEF Base
<1>5. CASE SendsOn(n, r, net)
  <2>1. /\ loc \in [Node -> Node \cup {Limbo}] /\ search \in [Node -> Records]
        /\ told \in [Proc -> Node \cup {Limbo, "idle", "waiting"}]
        /\ reqs \in [Req -> {"unsent", "pending", "done", "refused"}]
        /\ \A k \in Node : search[k].asked \subseteq up[k]
    BY DEF Base, TypeOK, Records, AskedAreUp
  <2>2. net' \in Networks /\ Adds(net', net, {"InvokeRequest"})
    BY <1>1, <1>3, <1>5, SendsOnAdds
  <2>3. Adds(net', net, {"LocateRequest", "LocateReply", "InvokeRequest"})
    BY <2>2 DEF Adds
  <2> QED BY <1>1, <1>3, <1>5, <2>1, <2>2, <2>3 DEF SendsOn, Calm
<1> QED BY <1>1, <1>3, <1>4, <1>5, SearchStepIsCalm

LEMMA DownIsCalm ==
  ASSUME Base, NEW n \in Node, NEW d \in Node, NodeDown(n, d)
  PROVE  \E q : Calm(q)
<1>1. PICK q : From(q) /\ SearchStep(n, search[n], q, up'[n])
  BY DownStep
<1>2. search[n] \in Records
  <2>1. search \in [Node -> Records]
    BY DEF Base, TypeOK, Records
  <2> QED BY <2>1
<1>3. \A k \in Node : k # n => up'[k] = up[k]
  BY DownStep DEF Base, TypeOK
<1> QED BY <1>1, <1>2, <1>3, SearchStepIsCalm

(* A message is given to its handler unless it is a move's. *)
LEMMA ReceiveIsCalm ==
  ASSUME Base, NEW n \in Node, NEW srv \in Node, Receive(n, srv)
  PROVE  \/ \E q : Calm(q)
         \/ \E q \in Networks, m \in Message :
              /\ Took(q, n, srv, m) /\ m \in MoveRequests
              /\ HandleMoveRequest(n, srv, m, q)
<1>1. PICK q \in Networks, m \in Message : Took(q, n, srv, m) /\ Served(n, srv, m, q)
  BY ReceiveStep
<1>2. up' = up
  BY DEF Receive
<1>3. CASE m.kind = "MoveRequest"
  <2>1. m \in MoveRequests /\ HandleMoveRequest(n, srv, m, q)
    BY <1>1, <1>3, MessageKinds DEF Served, MoveRequests
  <2> QED BY <1>1, <2>1
<1>4. CASE m.kind # "MoveRequest"
  BY <1>1, <1>2, <1>4, ServedIsCalm
<1> QED BY <1>3, <1>4
-----------------------------------------------------------------------------
(* The object moves, nodes die *)

LEMMA MoveKeeps ==
  ASSUME Base, OneCopy, NEW n \in Node, NEW m \in Node, Move(n, m)
  PROVE  Base' /\ OneCopy'
<1>1. /\ loc[n] = n /\ m \in up[n] /\ m # n /\ loc' = [loc EXCEPT ![n] = m]
      /\ UNCHANGED <<alive, up, search, told, reqs, calls, pokes>>
      /\ moves' = moves - 1 /\ moves > 0 /\ net \in Networks
  BY DEF Move, Base, Others, TypeOK, Networks, Links
<1>2. PICK origin \in {n, Limbo} : net' = Sent(net, n, m, <<MoveRequest(origin)>>)
  BY DEF Move
<1> DEFINE msg == MoveRequest(origin)
           msgs == <<msg>>
<1>3. msg \in Message /\ msg.kind = "MoveRequest"
  <2>1. origin \in Node \cup {Limbo}
    OBVIOUS
  <2> QED BY <2>1, MessageKinds DEF MoveRequest
<1>4. msgs \in Seq(Message) /\ Len(msgs) = 1 /\ \A i \in 1..Len(msgs) : i = 1 /\ msgs[i] = msg
  BY <1>3, OneMessage
<1> HIDE DEF msg
<1>5. \A i, j \in 1..Len(msgs) : i = j
  BY <1>4
<1>6. \A i \in 1..Len(msgs) : msgs[i].kind \in {"MoveRequest"}
  BY <1>3, <1>4
<1>7. net' = Sent(net, n, m, msgs)
  BY <1>2 DEF msg
<1> HIDE DEF msgs
<1>8. net' \in Networks /\ Adds(net', net, {"MoveRequest"})
  BY <1>1, <1>4, <1>6, <1>7, SentAdds
<1>9. Absent(net, MoveRequests) /\ n \in Residents
  BY <1>1 DEF OneCopy, Residents
<1>10. AtMostOne(net', MoveRequests)
  BY <1>1, <1>4, <1>5, <1>7, <1>9, SentOnce
<1>11. \A k \in Node : loc'[k] # k
  <2>1. \A k \in Node : loc[k] = k => k = n
    BY <1>9 DEF OneCopy, Residents
  <2> QED BY <1>1, <2>1 DEF Base, TypeOK
<1>12. OneCopy'
  <2>1. Residents' = {}
    BY <1>11 DEF Residents
  <2> QED BY <1>10, <2>1 DEF OneCopy, AtMostOne
<1>13. TypeOK'
  <2>1. moves' \in Nat
    BY <1>1 DEF Base, TypeOK
  <2>2. loc' \in [Node -> Node \cup {Limbo}]
    BY <1>1 DEF Base, TypeOK
  <2>3. net' \in [Node \X Node -> Seq(Message)]
    BY <1>8 DEF Networks, Links
  <2> QED BY <1>1, <2>1, <2>2, <2>3 DEF Base, TypeOK
<1>14. \A k \in Node : net'[<<k, k>>] = <<>>
  BY <1>8 DEF Adds, Base, NoSelfMail, Links
<1> QED BY <1>1, <1>12, <1>13, <1>14 DEF Base, AskedAreUp, Others, NoSelfMail

LEMMA ArrivalKeeps ==
  ASSUME Base, OneCopy, NEW n \in Node, NEW srv \in Node, NEW q \in Networks, NEW m \in Message,
         Took(q, n, srv, m), m \in MoveRequests, HandleMoveRequest(n, srv, m, q),
         UNCHANGED <<alive, up, calls, moves, pokes>>
  PROVE  Base' /\ OneCopy'
<1>1. /\ loc' = [loc EXCEPT ![n] = n] /\ UNCHANGED <<search, told, reqs>>
      /\ net' = SentIfUp(q, n, m.origin, MoveReply)
  BY DEF HandleMoveRequest
<1>2. MoveReply \in Message /\ MoveReply.kind = "MoveReply"
  BY MessageKinds DEF MoveReply
<1>3. net' \in Networks /\ Adds(net', q, {"MoveReply"})
  BY <1>1, <1>2, SentIfUpAdds DEF Base
<1>4. Absent(q, MoveRequests) /\ ~Absent(net, MoveRequests)
  BY TookOne DEF OneCopy, Base
<1>5. \A k \in MoveRequests : k.kind = "MoveRequest"
  BY DEF MoveRequests, MoveRequest
<1>6. Absent(net', MoveRequests)
  BY <1>3, <1>4, <1>5, AddsGrows, GrownKeeps
<1>7. Residents = {}
  BY <1>4 DEF OneCopy
<1>8. Residents' \subseteq {n}
  BY <1>1, <1>7 DEF Residents, Base, TypeOK
<1>9. OneCopy'
  BY <1>6, <1>8 DEF OneCopy, AtMostOne, Absent
<1>10. TypeOK'
  BY <1>1, <1>3 DEF Base, TypeOK, Networks, Links
<1>11. \A k \in Node : net'[<<k, k>>] = <<>>
  <2>1. ASSUME NEW k \in Node PROVE net'[<<k, k>>] = <<>>
    <3>1. q[<<k, k>>] = <<>> /\ <<k, k>> \in Links
      BY TookIsFrom, FromKeeps DEF Base, NoSelfMail, Links
    <3> QED BY <1>3, <3>1 DEF Adds
  <2> QED BY <2>1
<1> QED BY <1>1, <1>9, <1>10, <1>11 DEF Base, AskedAreUp, Others, NoSelfMail

LEMMA CrashStep ==
  ASSUME TypeOK, NEW d \in Node, Crash(d)
  PROVE  /\ net' \in Networks /\ Shrunk(net', net)
         /\ loc' \in [Node -> Node \cup {Limbo}] /\ Residents' \subseteq Residents
         /\ search' \in [Node -> Records] /\ up' \in [Node -> SUBSET Node]
         /\ \A k \in Node : \/ k = d /\ search'[k] = NoSearch /\ up'[k] = {}
                            \/ k # d /\ search'[k] = search[k] /\ up'[k] = up[k]
         /\ d \in alive /\ alive' = alive \ {d}
         /\ UNCHANGED <<told, reqs, calls, moves, pokes>>
<1>1. /\ d \in alive /\ alive' = alive \ {d} /\ UNCHANGED <<told, reqs, calls, moves, pokes>>
      /\ up' = [up EXCEPT ![d] = {}] /\ loc' = [loc EXCEPT ![d] = Limbo]
      /\ search' = [search EXCEPT ![d] = NoSearch]
      /\ net' = [c \in Links |-> IF c[2] = d THEN <<>> ELSE net[c]]
  BY DEF Crash, Links
<1>2. NoSearch \in Records
  BY ConstAssumption DEF NoSearch, Records
<1>3. /\ search \in [Node -> Records] /\ up \in [Node -> SUBSET Node]
      /\ loc \in [Node -> Node \cup {Limbo}] /\ net \in Networks
  BY DEF TypeOK, Records, Networks, Links
<1>4. net' \in Networks
  BY <1>1, <1>3 DEF Networks
<1>5. Shrunk(net', net)
  <2> DEFINE k == [c \in Links |-> 0]
  <2>1. ASSUME NEW c \in Links, NEW i \in 1..Len(net'[c])
        PROVE  i + k[c] \in 1..Len(net[c]) /\ net'[c][i] = net[c][i + k[c]]
    <3>1. CASE c[2] = d
      BY <1>1, <2>1, <3>1
    <3>2. CASE c[2] # d
      <4>1. net'[c] = net[c] /\ Len(net[c]) \in Nat
        BY <1>1, <1>3, <3>2 DEF Networks
      <4> QED BY <4>1
    <3> QED BY <3>1, <3>2
  <2> QED BY <2>1 DEF Shrunk
<1>6. Residents' \subseteq Residents
  BY <1>1, <1>3, ConstAssumption DEF Residents
<1> QED BY <1>1, <1>2, <1>3, <1>4, <1>5, <1>6

LEMMA LoseStep ==
  ASSUME TypeOK, NEW n \in Node, NEW d \in Node, Lose(n, d)
  PROVE  /\ net' \in Networks /\ Shrunk(net', net)
         /\ d \notin alive /\ UNCHANGED <<alive, up, loc, search, told, reqs, calls, moves, pokes>>
<1> DEFINE l == <<d, n>>
           f == Front(net[l])
<1>1. /\ l \in Links /\ net \in Networks /\ net[l] \in Seq(Message) /\ net[l] # <<>>
      /\ net' = [net EXCEPT ![l] = f] /\ d \notin alive
      /\ UNCHANGED <<alive, up, loc, search, told, reqs, calls, moves, pokes>>
  BY DEF Lose, TypeOK, Networks, Links
<1>2. /\ f \in Seq(Message) /\ Len(f) \in Nat /\ Len(f) + 1 = Len(net[l])
      /\ \A i \in 1..Len(f) : f[i] = net[l][i]
  <2> DEFINE w == net[l]
             k == Len(w) - 1
  <2>1. w \in Seq(Message) /\ Len(w) \in Nat /\ Len(w) > 0
    BY <1>1
  <2>2. f = SubSeq(w, 1, k)
    BY DEF Front
  <2> HIDE DEF f, w, l
  <2>3. k \in Nat /\ k <= Len(w)
    BY <2>1
  <2>4. \A i \in 1..k : w[i] \in Message
    BY <2>1, <2>3
  <2>5. f = [i \in 1..k |-> w[i]]
    BY <2>1, <2>2, <2>3
  <2>6. f \in Seq(Message) /\ Len(f) = k
    BY <2>3, <2>4, <2>5
  <2>7. \A i \in 1..Len(f) : f[i] = w[i]
    BY <2>5, <2>6
  <2> QED BY <2>1, <2>3, <2>6, <2>7 DEF w
<1> HIDE DEF f, l
<1>3. net' \in Networks /\ \A c \in Links : net'[c] = IF c = l THEN f ELSE net[c]
  BY <1>1, <1>2 DEF Networks
<1>4. Shrunk(net', net)
  <2> DEFINE k == [c \in Links |-> 0]
  <2>1. ASSUME NEW c \in Links, NEW i \in 1..Len(net'[c])
        PROVE  i + k[c] \in 1..Len(net[c]) /\ net'[c][i] = net[c][i + k[c]]
    <3>1. CASE c = l
      BY <1>1, <1>2, <1>3, <3>1
    <3>2. CASE c # l
      <4>1. net'[c] = net[c] /\ Len(net[c]) \in Nat
        BY <1>1, <1>3, <3>2 DEF Networks
      <4> QED BY <4>1
    <3> QED BY <3>1, <3>2
  <2> QED BY <2>1 DEF Shrunk
<1> QED BY <1>1, <1>3, <1>4

(* A network that only shrinks *)
LEMMA ShrunkIsFrom ==
  ASSUME NEW q \in Networks, Shrunk(q, net)
  PROVE  From(q)
BY DEF From

LEMMA CrashKeeps ==
  ASSUME Base, OneCopy, NEW d \in Node, Crash(d)
  PROVE  Base' /\ OneCopy'
<1>1. /\ net' \in Networks /\ From(net')
      /\ loc' \in [Node -> Node \cup {Limbo}] /\ Residents' \subseteq Residents
      /\ search' \in [Node -> Records] /\ up' \in [Node -> SUBSET Node]
      /\ \A k \in Node : \/ k = d /\ search'[k] = NoSearch /\ up'[k] = {}
                         \/ k # d /\ search'[k] = search[k] /\ up'[k] = up[k]
      /\ alive' = alive \ {d} /\ UNCHANGED <<told, reqs, calls, moves, pokes>>
  BY CrashStep, ShrunkIsFrom DEF Base
<1>2. \A m \in MoveRequests : m.kind # "LocateRequest"
  BY DEF MoveRequests, MoveRequest
<1>3. /\ Absent(net, MoveRequests) => Absent(net', MoveRequests)
      /\ AtMostOne(net, MoveRequests) => AtMostOne(net', MoveRequests)
      /\ \A k \in Node : net[<<k, k>>] = <<>> => net'[<<k, k>>] = <<>>
  BY <1>1, <1>2, FromKeeps DEF Base
<1>4. OneCopy'
  BY <1>1, <1>3 DEF OneCopy, AtMostOne, Absent
<1>5. TypeOK'
  BY <1>1 DEF Base, TypeOK, Networks, Links, Records
<1>6. AskedAreUp' /\ Others'
  BY <1>1 DEF Base, AskedAreUp, Others, NoSearch
<1> QED BY <1>3, <1>4, <1>5, <1>6 DEF Base, NoSelfMail

LEMMA LoseKeeps ==
  ASSUME Base, OneCopy, NEW n \in Node, NEW d \in Node, Lose(n, d)
  PROVE  Base' /\ OneCopy'
<1>1. /\ net' \in Networks /\ From(net')
      /\ UNCHANGED <<alive, up, loc, search, told, reqs, calls, moves, pokes>>
  BY LoseStep, ShrunkIsFrom DEF Base
<1>2. \A m \in MoveRequests : m.kind # "LocateRequest"
  BY DEF MoveRequests, MoveRequest
<1>3. /\ Absent(net, MoveRequests) => Absent(net', MoveRequests)
      /\ AtMostOne(net, MoveRequests) => AtMostOne(net', MoveRequests)
      /\ \A k \in Node : net[<<k, k>>] = <<>> => net'[<<k, k>>] = <<>>
  BY <1>1, <1>2, FromKeeps DEF Base
<1>4. OneCopy'
  BY <1>1, <1>3 DEF OneCopy, AtMostOne, Absent, Residents
<1>5. TypeOK'
  BY <1>1 DEF Base, TypeOK, Networks, Links
<1> QED BY <1>1, <1>3, <1>4, <1>5 DEF Base, AskedAreUp, Others, NoSelfMail
-----------------------------------------------------------------------------
(* The first invariant *)

Placed == Base /\ OneCopy /\ UpWhileLive

LEMMA PlacedAtFirst == Init => Placed
<1> SUFFICES ASSUME Init PROVE Placed
  OBVIOUS
<1>1. TypeOK
  <2>1. NoSearch \in Records
    BY ConstAssumption DEF NoSearch, Records
  <2>2. <<>> \in Seq(Message)
    OBVIOUS
  <2>3. MaxCalls \in Nat /\ MaxMoves \in Nat /\ MaxPokes \in Nat
    BY ConstAssumption
  <2> QED BY <2>1, <2>2, <2>3 DEF Init, TypeOK, Records
<1>2. AskedAreUp /\ Others /\ NoSelfMail /\ UpWhileLive
  BY DEF Init, AskedAreUp, Others, NoSelfMail, UpWhileLive, NoSearch
<1>3. OneCopy
  <2>1. \A n, m \in Residents : n = m
    BY DEF Init, Residents
  <2>2. \A c \in Links : Len(net[c]) = 0
    BY DEF Init, Links
  <2>3. Absent(net, MoveRequests) /\ AtMostOne(net, MoveRequests)
    <3>1. ASSUME NEW c \in Links, NEW i \in 1..Len(net[c]) PROVE FALSE
      BY <2>2
    <3> QED BY <3>1 DEF Absent, AtMostOne, Links
  <2> QED BY <2>1, <2>3 DEF OneCopy
<1> QED BY <1>1, <1>2, <1>3 DEF Placed, Base

LEMMA CalmKeepsPlaced ==
  ASSUME Placed, NEW q, Calm(q), alive' = alive, up' \in [Node -> SUBSET Node],
         \A n \in Node : up'[n] \subseteq up[n], UpWhileLive',
         calls' \in Nat, moves' \in Nat, pokes' \in Nat
  PROVE  Placed'
BY CalmKeepsBase, CalmKeepsCopy DEF Placed, Base

LEMMA PlacedAlways == Placed /\ [Next]_vars => Placed'
<1> SUFFICES ASSUME Placed, [Next]_vars PROVE Placed'
  OBVIOUS
<1>1. /\ Base /\ OneCopy /\ UpWhileLive /\ up \in [Node -> SUBSET Node]
      /\ calls \in Nat /\ moves \in Nat /\ pokes \in Nat
  BY DEF Placed, Base, TypeOK
<1>2. UNCHANGED <<alive, up>> => UpWhileLive' /\ up' \in [Node -> SUBSET Node]
                                   /\ \A n \in Node : up'[n] \subseteq up[n]
  BY <1>1 DEF UpWhileLive
<1>3. ASSUME NEW n \in Node, NEW m \in Node, Receive(n, m) PROVE Placed'
  <2>1. UNCHANGED <<alive, up, calls, moves, pokes>>
    BY <1>3 DEF Receive
  <2>2. CASE \E q : Calm(q)
    BY <1>1, <1>2, <2>1, <2>2, CalmKeepsPlaced
  <2>3. CASE \E q \in Networks, k \in Message :
               /\ Took(q, n, m, k) /\ k \in MoveRequests /\ HandleMoveRequest(n, m, k, q)
    <3>1. Base' /\ OneCopy'
      BY <1>1, <2>1, <2>3, ArrivalKeeps
    <3> QED BY <1>2, <2>1, <3>1 DEF Placed
  <2> QED BY <1>1, <1>3, <2>2, <2>3, ReceiveIsCalm
<1>4. ASSUME NEW n \in Node, NEW m \in Node, Move(n, m) PROVE Placed'
  BY <1>1, <1>2, <1>4, MoveKeeps DEF Move, Placed
<1>5. ASSUME NEW n \in Node, NEW d \in Node, NodeDown(n, d) PROVE Placed'
  <2>1. PICK q : Calm(q)
    BY <1>1, <1>5, DownIsCalm
  <2>2. d \notin alive /\ alive' = alive /\ up' = [up EXCEPT ![n] = up[n] \ {d}]
        /\ UNCHANGED <<calls, moves>>
    BY <1>5 DEF NodeDown
  <2>3. pokes' \in Nat
    <3>1. UNCHANGED pokes \/ (pokes > 0 /\ pokes' = pokes - 1)
      BY <1>5 DEF NodeDown
    <3> QED BY <1>1, <3>1
  <2>4. /\ up' \in [Node -> SUBSET Node] /\ \A k \in Node : up'[k] \subseteq up[k]
        /\ UpWhileLive'
    BY <1>1, <2>2 DEF UpWhileLive
  <2> QED BY <1>1, <2>1, <2>2, <2>3, <2>4, CalmKeepsPlaced
<1>6. ASSUME NEW n \in Node, NEW d \in Node, Lose(n, d) PROVE Placed'
  BY <1>1, <1>2, <1>6, LoseKeeps DEF Lose, Placed
<1>7. ASSUME NEW d \in Node, Crash(d) PROVE Placed'
  <2>1. UpWhileLive'
    BY <1>7 DEF Crash, UpWhileLive
  <2> QED BY <1>1, <1>7, <2>1, CrashKeeps DEF Placed
<1>8. ASSUME NEW p \in Proc, Call(p) PROVE Placed'
  <2>1. UNCHANGED <<alive, up, moves, pokes>> /\ calls' = calls - 1 /\ calls > 0
    BY <1>8 DEF Call
  <2>2. calls' \in Nat
    BY <1>1, <2>1
  <2> QED BY <1>1, <1>2, <1>8, <2>1, <2>2, CallIsCalm, CalmKeepsPlaced
<1>9. ASSUME NEW r \in Req, Invoke(r) PROVE Placed'
  <2>1. UNCHANGED <<alive, up, calls, moves, pokes>>
    BY <1>9 DEF Invoke
  <2> QED BY <1>1, <1>2, <1>9, <2>1, InvokeIsCalm, CalmKeepsPlaced
<1>10. CASE UNCHANGED vars
  BY <1>10 DEF vars, Placed, Base, TypeOK, AskedAreUp, Others, NoSelfMail, OneCopy,
               Residents, AtMostOne, Absent, UpWhileLive
<1> QED BY <1>3, <1>4, <1>5, <1>6, <1>7, <1>8, <1>9, <1>10 DEF Next

(* A stub names a node or nothing, a search record the processes and messages of
   its node, and a connection carries the messages of locate.c, rinvoke.c and
   move.c only. *)
THEOREM TypeCorrect == Spec => []TypeOK
<1>1. Placed => TypeOK
  BY DEF Placed, Base
<1> QED BY PlacedAtFirst, PlacedAlways, <1>1, PTL DEF Spec

(* move.c: however often the object moves, whatever messages are still under
   way, and whoever dies, at most one node has it, and none has while it is on
   its way. *)
THEOREM NeverTwice == Spec => []OneCopy
<1>1. Placed => OneCopy
  BY DEF Placed
<1> QED BY PlacedAtFirst, PlacedAlways, <1>1, PTL DEF Spec

(* locate.c: a search counts on the answers of nodes that are not known to be
   down, through its rounds and through the breaking of connections. *)
THEOREM AsksOnlyTheLiving == Spec => []AskedAreUp
<1>1. Placed => AskedAreUp
  BY DEF Placed, Base
<1> QED BY PlacedAtFirst, PlacedAlways, <1>1, PTL DEF Spec
-----------------------------------------------------------------------------
(* Those who wait for a search *)

LEMMA SearchStepWaits ==
  ASSUME Base, WaitersHeld, NEW n \in Node, n \in alive, alive' = alive,
         NEW s \in Records, NEW q \in Networks, NEW peers, NEW states \in SUBSET Proc,
         s.states = search[n].states \cup states, \A p \in states : Place[p] = n,
         SearchStep(n, s, q, peers)
  PROVE  WaitersHeld'
<1>1. /\ \A p \in Proc : Place[p] \in Node
      /\ "waiting" \notin Node \cup {Limbo} /\ NoSearch.states = {}
  BY ConstAssumption DEF NoSearch
<1>2. search \in [Node -> Records] /\ Others
  BY DEF Base, TypeOK, Records
<1>3. CASE GoesOn(n, s, q, peers)
  <2>1. PICK t \in Records : t.states = s.states /\ Searching(n, t)
    BY <1>3 DEF GoesOn
  <2>2. /\ search' = [search EXCEPT ![n] = t]
        /\ told' = [p \in Proc |-> IF p \in t.states THEN "waiting" ELSE told[p]]
    BY <2>1 DEF Searching
  <2>3. search'[n].states = search[n].states \cup states
    BY <1>2, <2>1, <2>2
  <2>4. \A k \in Node : k # n => search'[k].states = search[k].states
    BY <1>2, <2>2
  <2>5. ASSUME NEW p \in Proc, Place[p] \in alive
        PROVE  /\ told'[p] = "waiting" <=> p \in search'[Place[p]].states
               /\ \A k \in Node : p \in search'[k].states => k = Place[p]
    <3>1. \A k \in Node : p \in search'[k].states => k = Place[p]
      BY <2>3, <2>4, <2>5 DEF WaitersHeld
    <3>2. CASE Place[p] = n
      <4>1. p \in t.states <=> p \in search'[n].states
        BY <2>1, <2>3
      <4>2. told[p] = "waiting" <=> p \in search[n].states
        BY <2>5, <3>2 DEF WaitersHeld
      <4> QED BY <2>2, <2>3, <3>1, <3>2, <4>1, <4>2
    <3>3. CASE Place[p] # n
      <4>1. p \notin t.states
        BY <1>1, <2>1, <2>3, <3>1, <3>3
      <4>2. told'[p] = told[p] /\ search'[Place[p]].states = search[Place[p]].states
        BY <1>1, <2>2, <2>4, <3>3, <4>1
      <4> QED BY <2>5, <3>1, <4>2 DEF WaitersHeld
    <3> QED BY <3>2, <3>3
  <2> QED BY <2>5 DEF WaitersHeld
<1>4. CASE \E srv \in Node \cup {Limbo} : Resolve(n, srv, s, q)
  <2>1. PICK srv \in Node \cup {Limbo} :
          /\ search' = [search EXCEPT ![n] = NoSearch]
          /\ told' = [p \in Proc |-> IF p \in s.states THEN srv ELSE told[p]]
    BY <1>4 DEF Resolve
  <2>2. search'[n].states = {}
    BY <1>1, <1>2, <2>1
  <2>3. \A k \in Node : k # n => search'[k].states = search[k].states
    BY <1>2, <2>1
  <2>4. ASSUME NEW p \in Proc, Place[p] \in alive
        PROVE  /\ told'[p] = "waiting" <=> p \in search'[Place[p]].states
               /\ \A k \in Node : p \in search'[k].states => k = Place[p]
    <3>1. \A k \in Node : p \in search'[k].states => k = Place[p]
      BY <2>2, <2>3, <2>4 DEF WaitersHeld
    <3>2. CASE Place[p] = n
      <4>1. told'[p] # "waiting"
        BY <1>1, <2>1, <2>4, <3>2 DEF WaitersHeld
      <4> QED BY <2>2, <3>1, <3>2, <4>1
    <3>3. CASE Place[p] # n
      <4>1. p \notin s.states
        BY <2>4, <3>3 DEF WaitersHeld
      <4>2. told'[p] = told[p] /\ search'[Place[p]].states = search[Place[p]].states
        BY <1>1, <2>1, <2>3, <3>3, <4>1
      <4> QED BY <2>4, <3>1, <4>2 DEF WaitersHeld
    <3> QED BY <3>2, <3>3
  <2> QED BY <2>4 DEF WaitersHeld
<1> QED BY <1>3, <1>4 DEF SearchStep

(* Where an invocation is: at the nodes whose searches keep it, or in network q *)
InOnePlace(r, keepers, status, q, live) ==
  /\ AtMostOne(q, {InvokeRequest(r)})
  /\ \A k, l \in keepers : k = l
  /\ keepers # {} \/ status # "pending" => Absent(q, {InvokeRequest(r)})
  /\ keepers # {} => status = "pending"
  /\ live /\ status = "pending" => keepers # {} \/ ~Absent(q, {InvokeRequest(r)})

Kept == \A r \in Req : InOnePlace(r, Holders(r), reqs[r], net, alive = Node)

LEMMA KeptMeans == TypeOK => (Kept <=> NoDuplicates /\ NoneLost)
BY DEF Kept, InOnePlace, NoDuplicates, NoneLost

LEMMA NothingForIt ==
  ASSUME NEW r, NEW keepers, NEW status, NEW a, NEW b, NEW live,
         InOnePlace(r, keepers, status, b, live),
         Absent(b, {InvokeRequest(r)}) <=> Absent(a, {InvokeRequest(r)}),
         AtMostOne(b, {InvokeRequest(r)}) => AtMostOne(a, {InvokeRequest(r)})
  PROVE  InOnePlace(r, keepers, status, a, live)
BY DEF InOnePlace

LEMMA AddsNothingForIt ==
  ASSUME NEW r, NEW keepers, NEW status, NEW a \in Networks, NEW b \in Networks, NEW live,
         InOnePlace(r, keepers, status, b, live),
         NEW kinds, Adds(a, b, kinds), "InvokeRequest" \notin kinds
  PROVE  InOnePlace(r, keepers, status, a, live)
<1>1. \A m \in {InvokeRequest(r)} : m.kind \notin kinds
  BY DEF InvokeRequest
<1>2. Grown(a, b, {InvokeRequest(r)})
  BY <1>1, AddsGrows
<1> QED BY <1>2, GrownKeeps, NothingForIt

(* The nodes that keep r once n's record is s *)
Keepers(r, n, s) == {k \in Node : r \in IF k = n THEN s.msgs ELSE search[k].msgs}
Status(r, s) == IF r \in s.msgs THEN "pending" ELSE reqs[r]

LEMMA SearchStepKeeps ==
  ASSUME Base, UpWhileLive, NEW n \in Node, NEW s \in Records, NEW q \in Networks, NEW peers,
         NEW r \in Req, InOnePlace(r, Keepers(r, n, s), Status(r, s), q, alive = Node),
         s = search[n] => (r \in s.msgs => reqs[r] = "pending"),
         SearchStep(n, s, q, peers)
  PROVE  InOnePlace(r, Holders(r)', reqs'[r], net', alive = Node)
<1>1. search \in [Node -> Records] /\ Others /\ reqs \in [Req -> {"unsent", "pending", "done", "refused"}]
  BY DEF Base, TypeOK, Records
<1>2. CASE GoesOn(n, s, q, peers)
  <2>1. PICK t \in Records :
          /\ t.msgs = s.msgs /\ Searching(n, t)
          /\ net' \in Networks /\ Adds(net', q, {"LocateRequest"})
    BY <1>2 DEF GoesOn
  <2>2. search' = [search EXCEPT ![n] = t] /\ reqs'[r] = Status(r, s)
    BY <2>1 DEF Searching, Status
  <2>3. Holders(r)' = Keepers(r, n, s)
    BY <1>1, <2>1, <2>2 DEF Holders, Keepers
  <2> QED BY <2>1, <2>2, <2>3, AddsNothingForIt
<1>3. CASE \E srv \in Node \cup {Limbo} :
             /\ srv = n => loc[n] = n
             /\ srv # Limbo => s = search[n]
             /\ Resolve(n, srv, s, q)
  <2>1. PICK srv \in Node \cup {Limbo} :
             /\ srv = n => loc[n] = n
             /\ srv # Limbo => s = search[n]
             /\ Resolve(n, srv, s, q)
    BY <1>3
  <2>2. /\ search' = [search EXCEPT ![n] = NoSearch]
        /\ net' \in Networks
        /\ \/ /\ \E answer \in {"done", "refused"} :
                    reqs' = [t \in Req |-> IF t \in s.msgs THEN answer ELSE reqs[t]]
              /\ net' = q
           \/ /\ loc[n] # n /\ srv # Limbo
              /\ reqs' = reqs /\ Sends(n, srv, s, q)
    BY <1>1, <2>1, ResolveEffect DEF Base
  <2>3. Holders(r)' = Keepers(r, n, s) \ {n}
    BY <1>1, <2>2 DEF Holders, Keepers, NoSearch
  <2>4. n \in Keepers(r, n, s) <=> r \in s.msgs
    BY DEF Keepers
  <2>5. CASE r \notin s.msgs
    <3>1. Holders(r)' = Keepers(r, n, s)
      BY <2>3, <2>4, <2>5
    <3>2. reqs'[r] = Status(r, s)
      BY <2>2, <2>5 DEF Status
    <3>3. net' = q \/ Grown(net', q, {InvokeRequest(r)})
      BY <2>2, <2>5 DEF Sends
    <3> QED BY <2>2, <3>1, <3>2, <3>3, GrownKeeps, NothingForIt
  <2>6. CASE r \in s.msgs
    <3>1. Holders(r)' = {}
      BY <2>3, <2>4, <2>6 DEF InOnePlace
    <3>2. Absent(q, {InvokeRequest(r)}) /\ AtMostOne(q, {InvokeRequest(r)})
      BY <2>4, <2>6 DEF InOnePlace
    <3>3. CASE net' = q /\ reqs'[r] \in {"done", "refused"}
      BY <3>1, <3>2, <3>3 DEF InOnePlace
    <3>4. CASE loc[n] # n /\ srv # Limbo /\ reqs' = reqs /\ Sends(n, srv, s, q)
      <4>1. reqs'[r] = "pending" /\ srv \in Node \ {n}
        BY <2>1, <2>6, <3>4
      <4>2. AtMostOne(net', {InvokeRequest(r)})
        BY <3>2, <3>4 DEF Sends
      <4>3. ASSUME alive = Node PROVE ~Absent(net', {InvokeRequest(r)})
        <5>1. srv \in up[n] \cap alive
          BY <4>1, <4>3 DEF UpWhileLive
        <5> QED BY <2>6, <3>4, <5>1 DEF Sends
      <4> QED BY <3>1, <4>1, <4>2, <4>3 DEF InOnePlace
    <3> QED BY <2>2, <2>6, <3>3, <3>4
  <2> QED BY <2>5, <2>6
<1> QED BY <1>2, <1>3 DEF SearchStep

(* A search that takes up r, which nobody kept *)
LEMMA JoinedKeeps ==
  ASSUME Base, NEW n \in Node, NEW r \in Req, NEW q, Holders(r) = {},
         Absent(q, {InvokeRequest(r)}), AtMostOne(q, {InvokeRequest(r)}), NEW live
  PROVE  InOnePlace(r, Keepers(r, n, Joined(n, {}, {r})), Status(r, Joined(n, {}, {r})), q, live)
<1> DEFINE s == Joined(n, {}, {r})
<1>1. s.msgs = search[n].msgs \cup {r}
  <2>1. search \in [Node -> Records]
    BY DEF Base, TypeOK, Records
  <2>2. search[n] \in Records
    BY <2>1
  <2> QED BY <2>2 DEF Joined, Records
<1> HIDE DEF s
<1>2. Keepers(r, n, s) = {n} /\ Status(r, s) = "pending"
  BY <1>1 DEF Keepers, Holders, Status
<1> QED BY <1>2 DEF InOnePlace, s

(* The search at n is as it was for r. *)
LEMMA SameKeeps ==
  ASSUME Base, Kept, NEW n \in Node, NEW r \in Req, NEW s,
         r \in s.msgs <=> r \in search[n].msgs
  PROVE  Keepers(r, n, s) = Holders(r) /\ Status(r, s) = reqs[r]
BY DEF Kept, InOnePlace, Keepers, Holders, Status

LEMMA SentToOneKeeps ==
  ASSUME Base, UpWhileLive, Kept, NEW n \in Node, NEW r \in Req, NEW q \in Networks,
         SendsOn(n, r, q), Holders(r) = {}, Absent(q, {InvokeRequest(r)}), NEW t \in Req,
         t # r => InOnePlace(t, Holders(t), reqs[t], q, alive = Node)
  PROVE  InOnePlace(t, Holders(t)', reqs'[t], net', alive = Node)
<1>1. /\ net' \in Networks /\ Holders(t)' = Holders(t)
      /\ Absent(q, {InvokeRequest(r)}) => AtMostOne(net', {InvokeRequest(r)})
      /\ loc[n] \in alive => ~Absent(net', {InvokeRequest(r)})
      /\ t # r => Grown(net', q, {InvokeRequest(t)})
  BY SendsOnAdds DEF SendsOn, Holders
<1>2. reqs' = [reqs EXCEPT ![r] = "pending"] /\ reqs \in [Req -> {"unsent", "pending", "done", "refused"}]
  BY DEF SendsOn, Base, TypeOK
<1>3. CASE t = r
  <2>1. alive = Node => loc[n] \in alive
    BY DEF SendsOn, Base, TypeOK
  <2>2. reqs'[t] = "pending"
    BY <1>2, <1>3
  <2> QED BY <1>1, <1>3, <2>1, <2>2 DEF InOnePlace
<1>4. CASE t # r
  <2>1. reqs'[t] = reqs[t]
    BY <1>2, <1>4
  <2> QED BY <1>1, <1>4, <2>1, GrownKeeps, NothingForIt
<1> QED BY <1>3, <1>4

LEMMA ServedKeeps ==
  ASSUME Base, UpWhileLive, Kept, NEW n \in Node, NEW srv \in Node, NEW q, NEW m \in Message,
         Took(q, n, srv, m), Served(n, srv, m, q), NEW r \in Req
  PROVE  InOnePlace(r, Holders(r)', reqs'[r], net', alive = Node)
<1> DEFINE M == {InvokeRequest(r)}
<1>1. /\ q \in Networks /\ InOnePlace(r, Holders(r), reqs[r], net, alive = Node)
      /\ reqs \in [Req -> {"unsent", "pending", "done", "refused"}]
      /\ AtMostOne(q, M)
  <2>1. q \in Networks /\ From(q)
    BY TookIsFrom DEF Base, From
  <2>2. \A k \in M : k.kind # "LocateRequest"
    BY DEF InvokeRequest
  <2>3. InOnePlace(r, Holders(r), reqs[r], net, alive = Node)
    BY DEF Kept
  <2>4. AtMostOne(net, M) => AtMostOne(q, M)
    BY <2>1, <2>2, FromKeeps DEF Base
  <2> QED BY <2>1, <2>3, <2>4 DEF Base, TypeOK, InOnePlace
<1>2. /\ m \in M => ~Absent(net, M) /\ Absent(q, M)
      /\ m \notin M => (Absent(q, M) <=> Absent(net, M))
  <2>1. AtMostOne(net, M)
    BY <1>1 DEF InOnePlace
  <2> HIDE DEF M
  <2> QED BY <2>1, TookOne DEF Base
<1>3. m \in M => Holders(r) = {} /\ reqs[r] = "pending"
  BY <1>1, <1>2 DEF InOnePlace
<1>4. m \notin M => InOnePlace(r, Holders(r), reqs[r], q, alive = Node)
  BY <1>1, <1>2, NothingForIt
<1>5. /\ m \in M => m.kind = "InvokeRequest" /\ m.req = r
      /\ m \notin M /\ m.kind = "InvokeRequest" => m.req # r
  BY MessageKinds DEF InvokeRequest
<1> HIDE DEF M
<1>6. ASSUME m \notin M, UNCHANGED <<search, reqs>>, net' \in Networks,
             NEW kinds, Adds(net', q, kinds), "InvokeRequest" \notin kinds
      PROVE  InOnePlace(r, Holders(r)', reqs'[r], net', alive = Node)
  <2>1. Holders(r)' = Holders(r) /\ reqs'[r] = reqs[r]
    BY <1>6 DEF Holders
  <2> QED BY <1>1, <1>4, <1>6, <2>1, AddsNothingForIt
<1>7. CASE m.kind \in {"LocateRequest", "LocateReply"} /\ Answers(q)
  BY <1>5, <1>6, <1>7 DEF Answers
<1>8. CASE m.kind = "LocateReply" /\ SearchStep(n, search[n], q, up[n])
  <2>1. m \notin M
    BY <1>5, <1>8
  <2>2. search[n] \in Records
    BY DEF Base, TypeOK, Records
  <2>3. Keepers(r, n, search[n]) = Holders(r) /\ Status(r, search[n]) = reqs[r]
    BY SameKeeps
  <2>4. r \in search[n].msgs => reqs[r] = "pending"
    BY <1>1 DEF InOnePlace, Holders
  <2> QED BY <1>1, <1>4, <1>8, <2>1, <2>2, <2>3, <2>4, SearchStepKeeps
<1>9. CASE m.kind = "InvokeRequest" /\ m.req \in Req /\ Serves(n, m.req, q)
  <2>1. Holders(r)' = Holders(r) /\ reqs' = [reqs EXCEPT ![m.req] = "done"] /\ net' = q
    BY <1>9 DEF Serves, Holders
  <2>2. CASE m \in M
    <3>1. reqs'[r] = "done"
      BY <1>1, <1>5, <1>9, <2>1, <2>2
    <3> QED BY <1>1, <1>2, <1>3, <2>1, <2>2, <3>1 DEF InOnePlace, M
  <2>3. CASE m \notin M
    <3>1. reqs'[r] = reqs[r]
      BY <1>1, <1>5, <1>9, <2>1, <2>3
    <3> QED BY <1>4, <2>1, <2>3, <3>1
  <2> QED BY <2>2, <2>3
<1>10. CASE m.kind = "InvokeRequest" /\ m.req \in Req /\ SendsOn(n, m.req, q)
  <2> DEFINE t == m.req
  <2>1. /\ AtMostOne(net, {InvokeRequest(t)}) /\ m = InvokeRequest(t)
        /\ InOnePlace(t, Holders(t), reqs[t], net, alive = Node)
    BY <1>10, MessageKinds DEF Kept, InOnePlace
  <2>2. ~Absent(net, {InvokeRequest(t)}) /\ Absent(q, {InvokeRequest(t)})
    <3> DEFINE N == {InvokeRequest(t)}
    <3>1. m \in N /\ AtMostOne(net, N)
      BY <2>1
    <3> HIDE DEF N
    <3>2. ~Absent(net, N) /\ Absent(q, N)
      BY <3>1, TookOne DEF Base
    <3> QED BY <3>2 DEF N
  <2>3. Holders(t) = {}
    BY <2>1, <2>2 DEF InOnePlace
  <2>4. r # t => InOnePlace(r, Holders(r), reqs[r], q, alive = Node)
    BY <1>4, <1>5
  <2> QED BY <1>1, <1>10, <2>2, <2>3, <2>4, SentToOneKeeps
<1>11. CASE m.kind = "InvokeRequest" /\ m.req \in Req /\ SearchStep(n, Joined(n, {}, {m.req}), q, up[n])
  <2> DEFINE s == Joined(n, {}, {m.req})
  <2>1. {m.req} \in SUBSET Req /\ {} \in SUBSET Proc
    BY <1>11
  <2>2. s \in Records /\ s.msgs = search[n].msgs \cup {m.req}
    <3>1. search \in [Node -> Records]
      BY DEF Base, TypeOK, Records
    <3>2. search[n] \in Records
      BY <3>1
    <3> QED BY <2>1, <3>2 DEF Joined, Records
  <2>3. s = search[n] => (r \in s.msgs => reqs[r] = "pending")
    BY <1>1 DEF InOnePlace, Holders
  <2>4. InOnePlace(r, Keepers(r, n, s), Status(r, s), q, alive = Node)
    <3>1. CASE m \in M
      <4>1. m.req = r /\ Holders(r) = {} /\ Absent(q, M)
        BY <1>2, <1>3, <1>5, <3>1
      <4> QED BY <1>1, <4>1, JoinedKeeps DEF M
    <3>2. CASE m \notin M
      <4>1. r \in s.msgs <=> r \in search[n].msgs
        BY <1>5, <1>11, <2>2, <3>2
      <4>2. Keepers(r, n, s) = Holders(r) /\ Status(r, s) = reqs[r]
        BY <4>1, SameKeeps
      <4> QED BY <1>4, <3>2, <4>2
    <3> QED BY <3>1, <3>2
  <2> HIDE DEF s
  <2>5. SearchStep(n, s, q, up[n])
    BY <1>11 DEF s
  <2> QED BY <1>1, <2>2, <2>3, <2>4, <2>5, SearchStepKeeps
<1>12. CASE m.kind = "MoveRequest" /\ HandleMoveRequest(n, srv, m, q)
  <2>1. MoveReply \in Message /\ MoveReply.kind = "MoveReply"
    BY MessageKinds DEF MoveReply
  <2>2. net' \in Networks /\ Adds(net', q, {"MoveReply"})
    BY <1>1, <1>12, <2>1, SentIfUpAdds DEF Base, HandleMoveRequest
  <2> QED BY <1>5, <1>6, <1>12, <2>2 DEF HandleMoveRequest
<1>13. CASE m.kind = "MoveReply" /\ Learns(n, srv, q)
  <2>1. net' \in Networks /\ Adds(net', q, {"MoveReply"})
    BY <1>1, <1>13, AddsIsReflexive DEF Learns
  <2> QED BY <1>5, <1>6, <1>13, <2>1 DEF Learns
<1> QED BY <1>7, <1>8, <1>9, <1>10, <1>11, <1>12, <1>13 DEF Served
-----------------------------------------------------------------------------
(* The second invariant *)

Waiting == WaitersHeld /\ Kept

LEMMA WaitingAtFirst == Init => Waiting
<1> SUFFICES ASSUME Init PROVE Waiting
  OBVIOUS
<1>1. /\ \A n \in Node : search[n].states = {} /\ search[n].msgs = {}
      /\ \A p \in Proc : told[p] = "idle" /\ Place[p] \in Node
      /\ \A r \in Req : reqs[r] = "unsent"
      /\ \A c \in Links : Len(net[c]) = 0
  BY ConstAssumption DEF Init, NoSearch, Links
<1>2. \A M : Absent(net, M) /\ AtMostOne(net, M)
  <2>1. ASSUME NEW c \in Links, NEW i \in 1..Len(net[c]) PROVE FALSE
    BY <1>1
  <2> QED BY <2>1 DEF Absent, AtMostOne, Links
<1>3. \A r \in Req : Holders(r) = {}
  BY <1>1 DEF Holders
<1> QED BY <1>1, <1>2, <1>3 DEF Waiting, WaitersHeld, Kept, InOnePlace

(* Steps that touch neither searches nor invocations *)
LEMMA IdleWaits ==
  ASSUME WaitersHeld, alive' = alive, UNCHANGED <<search, told>>
  PROVE  WaitersHeld'
BY DEF WaitersHeld

LEMMA FewerKeep ==
  ASSUME Base, Kept, NEW q \in Networks, Shrunk(q, net), NEW r \in Req,
         NEW keepers \in SUBSET Holders(r)
  PROVE  InOnePlace(r, keepers, reqs[r], q, FALSE)
<1>1. \A m \in {InvokeRequest(r)} : m.kind # "LocateRequest"
  BY DEF InvokeRequest
<1>2. From(q)
  BY ShrunkIsFrom
<1>3. InOnePlace(r, Holders(r), reqs[r], net, alive = Node)
  BY DEF Kept
<1>4. /\ Absent(net, {InvokeRequest(r)}) => Absent(q, {InvokeRequest(r)})
      /\ AtMostOne(q, {InvokeRequest(r)})
  BY <1>1, <1>2, <1>3, FromKeeps DEF Base, InOnePlace
<1> QED BY <1>3, <1>4 DEF InOnePlace

LEMMA CrashWaits ==
  ASSUME Base, Waiting, NEW d \in Node, Crash(d)
  PROVE  Waiting'
<1>1. /\ net' \in Networks /\ Shrunk(net', net)
      /\ \A k \in Node : \/ k = d /\ search'[k] = NoSearch
                         \/ k # d /\ search'[k] = search[k]
      /\ alive' = alive \ {d} /\ UNCHANGED <<told, reqs>>
  BY CrashStep DEF Base
<1>2. WaitersHeld'
  <2>1. \A p \in Proc : Place[p] \in Node
    BY ConstAssumption
  <2>2. NoSearch.states = {}
    BY DEF NoSearch
  <2>3. ASSUME NEW p \in Proc, Place[p] \in alive'
        PROVE  /\ told[p] = "waiting" <=> p \in search'[Place[p]].states
               /\ \A k \in Node : p \in search'[k].states => k = Place[p]
    <3>1. Place[p] # d /\ Place[p] \in alive
      BY <1>1, <2>3
    <3>2. search'[Place[p]] = search[Place[p]]
      BY <1>1, <2>1, <3>1
    <3>3. \A k \in Node : p \in search'[k].states => p \in search[k].states
      BY <1>1, <2>2
    <3> QED BY <3>1, <3>2, <3>3 DEF Waiting, WaitersHeld
  <2> QED BY <1>1, <2>3 DEF WaitersHeld
<1>3. ASSUME NEW r \in Req PROVE InOnePlace(r, Holders(r)', reqs'[r], net', FALSE)
  <2>1. Holders(r)' \subseteq Holders(r) /\ reqs'[r] = reqs[r]
    BY <1>1 DEF Holders, NoSearch
  <2>2. InOnePlace(r, Holders(r)', reqs[r], net', FALSE)
    BY <1>1, <2>1, FewerKeep DEF Waiting
  <2> QED BY <2>1, <2>2
<1>4. alive' # Node
  BY <1>1
<1> QED BY <1>2, <1>3, <1>4 DEF Waiting, Kept

LEMMA LoseWaits ==
  ASSUME Base, Waiting, NEW n \in Node, NEW d \in Node, Lose(n, d)
  PROVE  Waiting'
<1>1. /\ net' \in Networks /\ Shrunk(net', net) /\ d \notin alive
      /\ UNCHANGED <<alive, search, told, reqs>>
  BY LoseStep DEF Base
<1>2. WaitersHeld'
  BY <1>1, IdleWaits DEF Waiting
<1>3. ASSUME NEW r \in Req PROVE InOnePlace(r, Holders(r)', reqs'[r], net', FALSE)
  <2>1. Holders(r)' = Holders(r) /\ reqs'[r] = reqs[r]
    BY <1>1 DEF Holders
  <2>2. InOnePlace(r, Holders(r)', reqs[r], net', FALSE)
    BY <1>1, <2>1, FewerKeep DEF Waiting
  <2> QED BY <2>1, <2>2
<1>4. alive' # Node
  BY <1>1
<1> QED BY <1>2, <1>3, <1>4 DEF Waiting, Kept

LEMMA MoveWaits ==
  ASSUME Base, Waiting, NEW n \in Node, NEW m \in Node, Move(n, m)
  PROVE  Waiting'
<1>1. UNCHANGED <<alive, search, told, reqs>> /\ m \in Node \ {n} /\ net \in Networks
  BY DEF Move, Base, Others, TypeOK, Networks, Links
<1>2. PICK origin \in {n, Limbo} : net' = Sent(net, n, m, <<MoveRequest(origin)>>)
  BY DEF Move
<1> DEFINE msg == MoveRequest(origin)
           msgs == <<msg>>
<1>3. msg \in Message /\ msg.kind = "MoveRequest"
  <2>1. origin \in Node \cup {Limbo}
    OBVIOUS
  <2> QED BY <2>1, MessageKinds DEF MoveRequest
<1> HIDE DEF msg
<1>4. msgs \in Seq(Message) /\ \A i \in 1..Len(msgs) : msgs[i].kind \in {"MoveRequest"}
  BY <1>3, OneMessage
<1>5. net' = Sent(net, n, m, msgs)
  BY <1>2 DEF msg
<1> HIDE DEF msgs
<1>6. net' \in Networks /\ Adds(net', net, {"MoveRequest"})
  BY <1>1, <1>4, <1>5, SentAdds
<1>7. ASSUME NEW r \in Req PROVE InOnePlace(r, Holders(r)', reqs'[r], net', (alive = Node)')
  <2>1. Holders(r)' = Holders(r) /\ reqs'[r] = reqs[r] /\ ((alive = Node)' <=> alive = Node)
    BY <1>1 DEF Holders
  <2>2. InOnePlace(r, Holders(r), reqs[r], net, alive = Node)
    BY DEF Waiting, Kept
  <2>3. InOnePlace(r, Holders(r), reqs[r], net', alive = Node)
    BY <1>1, <1>6, <2>2, AddsNothingForIt
  <2> QED BY <1>1, <2>1, <2>3
<1>8. Kept'
  BY <1>1, <1>7 DEF Kept, InOnePlace
<1> QED BY <1>1, <1>8, IdleWaits DEF Waiting

LEMMA ReceiveWaits ==
  ASSUME Base, UpWhileLive, Waiting, NEW n \in Node, NEW srv \in Node, Receive(n, srv)
  PROVE  Waiting'
<1>1. PICK q \in Networks, m \in Message : Took(q, n, srv, m) /\ Served(n, srv, m, q)
  BY ReceiveStep
<1>2. n \in alive /\ alive' = alive
  BY DEF Receive
<1>3. \A r \in Req : InOnePlace(r, Holders(r)', reqs'[r], net', alive = Node)
  BY <1>1, ServedKeeps DEF Waiting
<1>4. Kept'
  BY <1>2, <1>3 DEF Kept
<1>5. search \in [Node -> Records]
  BY DEF Base, TypeOK, Records
<1>6. CASE UNCHANGED <<search, told>>
  BY <1>2, <1>4, <1>6, IdleWaits DEF Waiting
<1>7. CASE SearchStep(n, search[n], q, up[n])
  <2>1. search[n].states = search[n].states \cup {} /\ {} \in SUBSET Proc /\ search[n] \in Records
    BY <1>5
  <2>2. WaitersHeld'
    BY <1>2, <1>7, <2>1, SearchStepWaits DEF Waiting
  <2> QED BY <1>4, <2>2 DEF Waiting
<1>8. CASE m.req \in Req /\ SearchStep(n, Joined(n, {}, {m.req}), q, up[n])
  <2> DEFINE s == Joined(n, {}, {m.req})
  <2>1. {m.req} \in SUBSET Req /\ {} \in SUBSET Proc
    BY <1>8
  <2>2. s \in Records /\ s.states = search[n].states \cup {}
    <3>1. search[n] \in Records
      BY <1>5
    <3> QED BY <2>1, <3>1 DEF Joined, Records
  <2>3. SearchStep(n, s, q, up[n])
    BY <1>8
  <2> HIDE DEF s
  <2>4. WaitersHeld'
    BY <1>2, <2>1, <2>2, <2>3, SearchStepWaits DEF Waiting
  <2> QED BY <1>4, <2>4 DEF Waiting
<1> QED BY <1>1, <1>6, <1>7, <1>8
      DEF Served, Answers, Serves, SendsOn, Learns, HandleMoveRequest

LEMMA CallWaits ==
  ASSUME Base, UpWhileLive, Waiting, NEW p \in Proc, Call(p)
  PROVE  Waiting'
<1> DEFINE n == Place[p]
           s == Joined(n, {p}, {})
<1>1. /\ n \in Node /\ n \in alive /\ SearchStep(n, s, net, up[n])
      /\ alive' = alive /\ net \in Networks
  BY CallStep DEF Call, Base, TypeOK, Networks, Links
<1>2. search[n] \in Records
  <2>1. search \in [Node -> Records]
    BY DEF Base, TypeOK, Records
  <2> QED BY <1>1, <2>1
<1> DEFINE states == {p}
<1>3. states \in SUBSET Proc /\ \A k \in states : Place[k] = n
  OBVIOUS
<1>4. s \in Records /\ s.states = search[n].states \cup states /\ s.msgs = search[n].msgs
  BY <1>2 DEF Joined, Records
<1> HIDE DEF n, s, states
<1>5. WaitersHeld'
  BY <1>1, <1>3, <1>4, SearchStepWaits DEF Waiting
<1>6. ASSUME NEW r \in Req PROVE InOnePlace(r, Holders(r)', reqs'[r], net', alive = Node)
  <2>1. InOnePlace(r, Holders(r), reqs[r], net, alive = Node)
    BY DEF Waiting, Kept
  <2>2. Keepers(r, n, s) = Holders(r) /\ Status(r, s) = reqs[r]
    BY <1>1, <1>4, SameKeeps DEF Waiting
  <2>3. r \in s.msgs => reqs[r] = "pending"
    BY <1>1, <1>4, <2>1 DEF InOnePlace, Holders
  <2> QED BY <1>1, <1>4, <2>1, <2>2, <2>3, SearchStepKeeps
<1> QED BY <1>1, <1>5, <1>6 DEF Waiting, Kept

LEMMA InvokeWaits ==
  ASSUME Base, UpWhileLive, Waiting, NEW r \in Req, Invoke(r)
  PROVE  Waiting'
<1> DEFINE n == Place[r]
           s == Joined(n, {}, {r})
<1>1. /\ n \in Node /\ n \in alive /\ reqs[r] = "unsent"
      /\ SendsOn(n, r, net) \/ SearchStep(n, s, net, up[n])
      /\ alive' = alive /\ net \in Networks
  BY InvokeStep DEF Invoke, Base, TypeOK, Networks, Links
<1>2. search[n] \in Records
  <2>1. search \in [Node -> Records]
    BY DEF Base, TypeOK, Records
  <2> QED BY <1>1, <2>1
<1>3. s \in Records /\ s.states = search[n].states \cup {} /\ s.msgs = search[n].msgs \cup {r}
  BY <1>2 DEF Joined, Records
<1>4. /\ \A t \in Req : InOnePlace(t, Holders(t), reqs[t], net, alive = Node)
      /\ Holders(r) = {} /\ Absent(net, {InvokeRequest(r)}) /\ AtMostOne(net, {InvokeRequest(r)})
  BY <1>1 DEF Waiting, Kept, InOnePlace
<1>5. CASE SendsOn(n, r, net)
  <2> HIDE DEF n
  <2>1. ASSUME NEW t \in Req PROVE InOnePlace(t, Holders(t)', reqs'[t], net', alive = Node)
    BY <1>1, <1>4, <1>5, SentToOneKeeps DEF Waiting
  <2> QED BY <1>1, <1>5, <2>1, IdleWaits DEF Waiting, Kept, SendsOn
<1>6. CASE SearchStep(n, s, net, up[n])
  <2>1. ASSUME NEW t \in Req PROVE InOnePlace(t, Holders(t)', reqs'[t], net', alive = Node)
    <3>1. InOnePlace(t, Keepers(t, n, s), Status(t, s), net, alive = Node)
      <4>1. CASE t = r
        <5> HIDE DEF n
        <5> QED BY <1>1, <1>4, <4>1, JoinedKeeps
      <4>2. CASE t # r
        <5>1. t \in s.msgs <=> t \in search[n].msgs
          BY <1>3, <4>2
        <5> HIDE DEF n, s
        <5>2. Keepers(t, n, s) = Holders(t) /\ Status(t, s) = reqs[t]
          BY <1>1, <5>1, SameKeeps DEF Waiting
        <5> QED BY <1>4, <5>2
      <4> QED BY <4>1, <4>2
    <3>2. s = search[n] => (t \in s.msgs => reqs[t] = "pending")
      BY <1>1, <1>4 DEF InOnePlace, Holders
    <3> HIDE DEF n, s
    <3> QED BY <1>1, <1>3, <1>6, <3>1, <3>2, SearchStepKeeps
  <2>2. {} \in SUBSET Proc
    OBVIOUS
  <2> HIDE DEF n, s
  <2>3. WaitersHeld'
    BY <1>1, <1>3, <1>6, <2>2, SearchStepWaits DEF Waiting
  <2> QED BY <1>1, <2>1, <2>3 DEF Waiting, Kept
<1> QED BY <1>1, <1>5, <1>6

LEMMA DownWaits ==
  ASSUME Base, UpWhileLive, Waiting, NEW n \in Node, NEW d \in Node, NodeDown(n, d)
  PROVE  Waiting'
<1>1. PICK q : /\ q \in Networks /\ Adds(q, net, {"LocateRequest"})
               /\ SearchStep(n, search[n], q, up'[n])
  BY DownStep DEF From
<1>2. n \in alive /\ alive' = alive /\ net \in Networks
  BY DEF NodeDown, Base, TypeOK, Networks, Links
<1>3. search[n] \in Records /\ search[n].states = search[n].states \cup {} /\ {} \in SUBSET Proc
  <2>1. search \in [Node -> Records]
    BY DEF Base, TypeOK, Records
  <2> QED BY <2>1
<1>4. WaitersHeld'
  BY <1>1, <1>2, <1>3, SearchStepWaits DEF Waiting
<1>5. ASSUME NEW r \in Req PROVE InOnePlace(r, Holders(r)', reqs'[r], net', alive = Node)
  <2>1. InOnePlace(r, Holders(r), reqs[r], net, alive = Node)
    BY DEF Waiting, Kept
  <2>2. Keepers(r, n, search[n]) = Holders(r) /\ Status(r, search[n]) = reqs[r]
    BY SameKeeps DEF Waiting
  <2>3. r \in search[n].msgs => reqs[r] = "pending"
    BY <2>1 DEF InOnePlace, Holders
  <2>4. InOnePlace(r, Holders(r), reqs[r], q, alive = Node)
    BY <1>1, <1>2, <2>1, AddsNothingForIt
  <2> QED BY <1>1, <1>3, <2>2, <2>3, <2>4, SearchStepKeeps
<1> QED BY <1>2, <1>4, <1>5 DEF Waiting, Kept

LEMMA WaitingAlways == Placed /\ Waiting /\ [Next]_vars => Waiting'
<1> SUFFICES ASSUME Base, UpWhileLive, Waiting, [Next]_vars PROVE Waiting'
  BY DEF Placed
<1>1. CASE UNCHANGED vars
  BY <1>1 DEF vars, Waiting, WaitersHeld, Kept, InOnePlace, Holders, AtMostOne, Absent
<1> QED BY <1>1, ReceiveWaits, MoveWaits, DownWaits, LoseWaits, CrashWaits, CallWaits, InvokeWaits
      DEF Next

(* locate.c, rinvoke.c, remote.c: whoever joined a search, and whatever became
   of the search since, it holds them until it answers them all; and however an
   invocation is forwarded, held and sent again, it is in one place. *)
THEOREM NoneForgotten == Spec => []AnsweredOnce
<1>1. Init => Placed /\ Waiting
  BY PlacedAtFirst, WaitingAtFirst
<1>2. (Placed /\ Waiting) /\ [Next]_vars => (Placed /\ Waiting)'
  BY PlacedAlways, WaitingAlways
<1>3. Placed /\ Waiting => AnsweredOnce
  BY KeptMeans DEF Placed, Base, Waiting, AnsweredOnce
<1> QED BY <1>1, <1>2, <1>3, PTL DEF Spec
-----------------------------------------------------------------------------
(* An object that stays where it is.  The searches know enough to find it:
   a node that has it says so, no other does, and a search that asks every
   node has asked that one. *)

Replies(q, places) ==
  \A c \in Links : \A i \in 1..Len(q[c]) :
    q[c][i].kind = "LocateReply" =>
      IF q[c][i].found THEN places \subseteq {c[1]} ELSE c[1] \notin places

(* A search with record s whose node may ask peers *)
Thorough(s, peers) ==
  /\ s.stage = "easy" => s.count = 1
  /\ s.stage = "aggressive" => Residents \cap peers \subseteq s.asked

Unmoved ==
  /\ Absent(net, MoveRequests)
  /\ Replies(net, Residents)
  /\ \A n \in Node : /\ Thorough(search[n], up[n])
                     /\ search[n] # NoSearch => search[n].stage # "none"

Settled ==
  /\ moves <= MaxMoves
  /\ Residents \subseteq alive
  /\ moves = MaxMoves => Unmoved

LEMMA RepliesFrom ==
  ASSUME TypeOK, NEW q, From(q), NEW places, Replies(net, places)
  PROVE  Replies(q, places)
<1>1. q \in Networks /\ net \in Networks
  BY DEF From, TypeOK, Networks, Links
<1>2. CASE Shrunk(q, net)
  <2>1. PICK k \in [Links -> Nat] : \A c \in Links : \A i \in 1..Len(q[c]) :
          i + k[c] \in 1..Len(net[c]) /\ q[c][i] = net[c][i + k[c]]
    BY <1>2 DEF Shrunk
  <2>2. ASSUME NEW c \in Links, NEW i \in 1..Len(q[c]), q[c][i].kind = "LocateReply"
        PROVE  IF q[c][i].found THEN places \subseteq {c[1]} ELSE c[1] \notin places
    <3> DEFINE j == i + k[c]
    <3>1. j \in 1..Len(net[c]) /\ q[c][i] = net[c][j]
      BY <2>1
    <3> HIDE DEF j
    <3> QED BY <2>2, <3>1 DEF Replies
  <2> QED BY <2>2 DEF Replies
<1>3. CASE Adds(q, net, {"LocateRequest"})
  <2>1. ASSUME NEW c \in Links, NEW i \in 1..Len(q[c]), q[c][i].kind = "LocateReply"
        PROVE  i \in 1..Len(net[c]) /\ q[c][i] = net[c][i]
    <3>1. i \notin (Len(net[c]) + 1)..Len(q[c])
      BY <1>3, <2>1 DEF Adds
    <3>2. Len(net[c]) \in Nat /\ Len(q[c]) \in Nat
      BY <1>1 DEF Networks
    <3>3. i \in 1..Len(net[c])
      BY <3>1, <3>2
    <3> QED BY <1>3, <3>3 DEF Adds
  <2> QED BY <2>1 DEF Replies
<1> QED BY <1>2, <1>3 DEF From

LEMMA RepliesAdded ==
  ASSUME NEW a \in Networks, NEW b \in Networks, NEW places, Replies(b, places),
         NEW kinds, Adds(a, b, kinds), "LocateReply" \notin kinds
  PROVE  Replies(a, places)
<1>1. ASSUME NEW c \in Links, NEW i \in 1..Len(a[c]), a[c][i].kind = "LocateReply"
      PROVE  i \in 1..Len(b[c]) /\ a[c][i] = b[c][i]
  <2>1. i \notin (Len(b[c]) + 1)..Len(a[c])
    BY <1>1 DEF Adds
  <2>2. Len(a[c]) \in Nat /\ Len(b[c]) \in Nat
    BY DEF Networks
  <2>3. i \in 1..Len(b[c])
    BY <2>1, <2>2
  <2> QED BY <2>3 DEF Adds
<1> QED BY <1>1 DEF Replies

LEMMA FewerPlaces ==
  ASSUME NEW q, NEW places, NEW fewer \in SUBSET places, Replies(q, places)
  PROVE  Replies(q, fewer)
BY DEF Replies

(* A node answers what is so. *)
LEMMA ReplySent ==
  ASSUME TypeOK, Others, NEW q \in Networks, NEW places, Replies(q, places),
         NEW n \in Node, NEW to \in Node, NEW demand \in BOOLEAN, NEW found \in BOOLEAN,
         IF found THEN places \subseteq {n} ELSE n \notin places
  PROVE  Replies(SentIfUp(q, n, to, LocateReply(demand, found)), places)
<1> DEFINE l == <<n, to>>
           m == LocateReply(demand, found)
           a == SentIfUp(q, n, to, m)
<1>1. l \in Links /\ l[1] = n /\ q[l] \in Seq(Message) /\ Len(q[l]) \in Nat
  BY DEF Links, Networks
<1>2. m \in Message /\ m.found = found
  BY MessageKinds DEF LocateReply
<1>3. a = q \/ a = [q EXCEPT ![l] = @ \o <<m>>]
  BY DEF SentIfUp, Sent
<1> HIDE DEF m, l, a
<1>4. CASE a = [q EXCEPT ![l] = @ \o <<m>>]
  <2> DEFINE s == q[l] \o <<m>>
  <2>1. /\ Len(s) = Len(q[l]) + 1 /\ s[Len(q[l]) + 1] = m
        /\ \A i \in 1..Len(q[l]) : s[i] = q[l][i]
    BY <1>1, <1>2
  <2> HIDE DEF s
  <2>2. a[l] = s /\ \A c \in Links : c # l => a[c] = q[c]
    BY <1>1, <1>4 DEF Networks, s
  <2>3. ASSUME NEW c \in Links, NEW i \in 1..Len(a[c]), a[c][i].kind = "LocateReply"
        PROVE  IF a[c][i].found THEN places \subseteq {c[1]} ELSE c[1] \notin places
    <3>1. CASE c # l
      BY <2>2, <2>3, <3>1 DEF Replies
    <3>2. CASE c = l /\ i = Len(q[l]) + 1
      BY <1>1, <1>2, <2>1, <2>2, <3>2
    <3>3. CASE c = l /\ i # Len(q[l]) + 1
      <4>1. i \in 1..Len(q[l]) /\ a[c][i] = q[l][i]
        BY <1>1, <2>1, <2>2, <3>3
      <4> QED BY <1>1, <2>3, <3>3, <4>1 DEF Replies
    <3> QED BY <3>1, <3>2, <3>3
  <2> QED BY <1>1, <2>3 DEF Replies, a, l, m
<1> QED BY <1>3, <1>4 DEF a, l, m

(* A search goes on and misses nobody, or no node that may be asked has the
   object. *)
GoesOnThoroughly(n, peers) ==
  \/ \E t \in Records :
       search' = [search EXCEPT ![n] = t] /\ t.stage # "none" /\ Thorough(t, peers)
  \/ search' = [search EXCEPT ![n] = NoSearch] /\ Residents \cap peers = {}

LEMMA AggressiveIsThorough ==
  ASSUME Residents \subseteq alive, NEW n \in Node, NEW s \in Records, NEW q,
         NEW peers \in SUBSET Node, s.stage # "none",
         s.stage = "aggressive" => Residents \cap peers \subseteq s.asked,
         DoAggressiveLocate(n, s, q, peers)
  PROVE  GoesOnThoroughly(n, peers)
<1>1. CASE s.stage = "aggressive"
  BY <1>1 DEF DoAggressiveLocate, Searching, GoesOnThoroughly, Thorough
<1>2. CASE s.stage # "aggressive"
  <2>1. PICK reached \in Reached(peers) :
          LET t == [s EXCEPT !.stage = "aggressive", !.asked = @ \cup reached]
          IN  IF t.asked = {} THEN Resolve(n, Limbo, t, q)
              ELSE Searching(n, t) /\ net' = Questioned(q, n, reached)
    BY <1>2 DEF DoAggressiveLocate
  <2> DEFINE t == [s EXCEPT !.stage = "aggressive", !.asked = @ \cup reached]
  <2>2. reached \subseteq peers /\ peers \cap alive \subseteq reached
    BY ReachedArePeers
  <2>3. t \in Records /\ t.stage = "aggressive" /\ t.asked = s.asked \cup reached
    BY <2>2 DEF Records
  <2>4. Residents \cap peers \subseteq t.asked
    BY <2>2, <2>3
  <2>5. (t.asked = {} /\ Resolve(n, Limbo, t, q)) \/ Searching(n, t)
    BY <2>1
  <2> HIDE DEF t
  <2>6. CASE t.asked = {} /\ Resolve(n, Limbo, t, q)
    BY <2>4, <2>6 DEF Resolve, GoesOnThoroughly
  <2>7. CASE Searching(n, t)
    BY <2>3, <2>4, <2>7 DEF Searching, GoesOnThoroughly, Thorough
  <2> QED BY <2>5, <2>6, <2>7
<1> QED BY <1>1, <1>2

LEMMA NextRoundIsThorough ==
  ASSUME Tries > 1, Residents \subseteq alive, NEW n \in Node, NEW s \in Records, NEW q,
         NEW peers \in SUBSET Node, s.stage # "none", Thorough(s, peers), s.asked = {},
         NextRound(n, s, q, peers)
  PROVE  GoesOnThoroughly(n, peers)
<1>1. CASE Exhausted(s)
  <2>1. s.stage = "aggressive"
    BY <1>1, ConstAssumption DEF Exhausted, Thorough, Records
  <2>2. Residents \cap peers = {}
    BY <2>1 DEF Thorough
  <2> QED BY <1>1, <2>2 DEF NextRound, Resolve, GoesOnThoroughly
<1>2. CASE ~Exhausted(s)
  <2> DEFINE t == [s EXCEPT !.count = @ + 1, !.stage = "easy"]
  <2>1. t \in Records /\ t.stage = "easy"
    <3>1. s.count \in 0..Tries /\ ~(s.count >= Tries) /\ Tries \in Nat
      BY <1>2, ConstAssumption DEF Records, Exhausted
    <3>2. s.count + 1 \in 0..Tries
      BY <3>1
    <3> QED BY <3>2 DEF Records
  <2>2. DoAggressiveLocate(n, t, q, peers)
    BY <1>2 DEF NextRound
  <2> HIDE DEF t
  <2> QED BY <2>1, <2>2, AggressiveIsThorough
<1> QED BY <1>1, <1>2

LEMMA DownIsThorough ==
  ASSUME Tries > 1, Residents \subseteq alive, NEW n \in Node, NEW d \in Node, NEW s \in Records, NEW q,
         NEW peers \in SUBSET Node, d \notin peers, s.stage # "none", Thorough(s, peers),
         LocateHandleDown(n, d, s, q, peers)
  PROVE  GoesOnThoroughly(n, peers)
<1> DEFINE rest == [s EXCEPT !.asked = @ \ {d}]
<1>1. /\ rest \in Records /\ rest.stage = s.stage /\ rest.count = s.count
      /\ rest.asked = s.asked \ {d}
  BY DEF Records
<1>2. (rest.asked = {} /\ NextRound(n, rest, q, peers)) \/ Searching(n, rest)
  BY DEF LocateHandleDown
<1> HIDE DEF rest
<1>3. rest.stage # "none" /\ Thorough(rest, peers)
  BY <1>1 DEF Thorough
<1>4. CASE rest.asked = {} /\ NextRound(n, rest, q, peers)
  BY <1>1, <1>3, <1>4, NextRoundIsThorough
<1>5. CASE Searching(n, rest)
  BY <1>1, <1>3, <1>5 DEF Searching, GoesOnThoroughly
<1> QED BY <1>2, <1>4, <1>5

LEMMA FindIsThorough ==
  ASSUME TypeOK, Residents \subseteq alive, NEW n \in Node, NEW states \in SUBSET Proc,
         NEW msgs \in SUBSET Req, NEW q, Thorough(search[n], up[n]), search[n] # NoSearch => search[n].stage # "none",
         FindLocation(n, states, msgs, q)
  PROVE  GoesOnThoroughly(n, up[n])
<1>1. search[n] \in Records /\ up[n] \in SUBSET Node
  <2>1. search \in [Node -> Records] /\ up \in [Node -> SUBSET Node]
    BY DEF TypeOK, Records
  <2> QED BY <2>1
<1>2. CASE search[n] # NoSearch
  <2> DEFINE j == [search[n] EXCEPT !.states = @ \cup states, !.msgs = @ \cup msgs]
  <2>1. /\ j \in Records /\ j.stage = search[n].stage /\ j.count = search[n].count
        /\ j.asked = search[n].asked
    BY <1>1 DEF Records
  <2>2. search' = [search EXCEPT ![n] = j]
    BY <1>2 DEF FindLocation, Searching
  <2> HIDE DEF j
  <2> QED BY <1>2, <2>1, <2>2 DEF GoesOnThoroughly, Thorough
<1>3. CASE search[n] = NoSearch
  <2> DEFINE s == [stage |-> "easy", count |-> 1, asked |-> {}, states |-> states, msgs |-> msgs]
             t == [s EXCEPT !.asked = {loc[n]}]
  <2>1. s \in Records /\ s.stage = "easy"
    BY ConstAssumption DEF Records
  <2>2. CASE MaySend(n, loc[n]) /\ Searching(n, t)
    <3>1. loc[n] \in Node
      BY <1>1, <2>2 DEF MaySend
    <3>2. t \in Records /\ t.stage = "easy" /\ t.count = 1
      BY <2>1, <3>1 DEF Records
    <3> HIDE DEF t
    <3> QED BY <2>2, <3>2 DEF Searching, GoesOnThoroughly, Thorough
  <2>3. CASE DoAggressiveLocate(n, s, q, up[n])
    <3> HIDE DEF s
    <3> QED BY <1>1, <2>1, <2>3, AggressiveIsThorough
  <2> QED BY <1>3, <2>2, <2>3 DEF FindLocation
<1> QED BY <1>2, <1>3

(* What a reply tells is so; srv sent it. *)
LEMMA ReplyIsThorough ==
  ASSUME TypeOK, Tries > 1, Residents \subseteq alive, NEW n \in Node, NEW srv \in Node,
         NEW q, NEW m, m.found \in BOOLEAN, m.demand \in BOOLEAN,
         IF m.found THEN Residents \subseteq {srv} ELSE srv \notin Residents,
         Thorough(search[n], up[n]), search[n] # NoSearch => search[n].stage # "none",
         HandleLocateReply(n, srv, m, q)
  PROVE  \/ UNCHANGED search
         \/ GoesOnThoroughly(n, up[n])
         \/ /\ search' = [search EXCEPT ![n] = NoSearch]
            /\ \/ loc[n] = n
               \/ loc[n] # n /\ loc' = Updated(n, srv) /\ Residents \subseteq {srv}
<1> DEFINE s    == search[n]
           rest == [s EXCEPT !.asked = @ \ {srv}]
<1>1. s \in Records /\ up[n] \in SUBSET Node
  <2>1. search \in [Node -> Records] /\ up \in [Node -> SUBSET Node]
    BY DEF TypeOK, Records
  <2> QED BY <2>1
<1>2. /\ rest \in Records /\ rest.stage = s.stage /\ rest.count = s.count
      /\ rest.asked = s.asked \ {srv}
  BY <1>1 DEF Records
<1>3. \/ UNCHANGED search
      \/ loc[n] = n /\ Resolve(n, n, s, q)
      \/ loc[n] # n /\ m.found /\ Resolve(n, srv, s, q)
      \/ s # NoSearch /\ ~m.found /\ DoAggressiveLocate(n, rest, q, up[n])
      \/ s # NoSearch /\ ~m.found /\ Searching(n, rest)
      \/ s # NoSearch /\ ~m.found /\ rest.asked = {} /\ NextRound(n, rest, q, up[n])
  BY DEF HandleLocateReply
<1>4. CASE loc[n] = n /\ Resolve(n, n, s, q)
  BY <1>4 DEF Resolve
<1>5. CASE loc[n] # n /\ m.found /\ Resolve(n, srv, s, q)
  BY <1>5 DEF Resolve
<1>6. CASE s # NoSearch /\ ~m.found
  <2>1. rest.stage # "none" /\ Thorough(rest, up[n])
    BY <1>2, <1>6 DEF Thorough
  <2> HIDE DEF rest, s
  <2>2. CASE DoAggressiveLocate(n, rest, q, up[n])
    BY <1>1, <1>2, <2>1, <2>2, AggressiveIsThorough DEF Thorough
  <2>3. CASE Searching(n, rest)
    BY <1>2, <2>1, <2>3 DEF Searching, GoesOnThoroughly
  <2>4. CASE rest.asked = {} /\ NextRound(n, rest, q, up[n])
    BY <1>1, <1>2, <2>1, <2>4, NextRoundIsThorough
  <2>5. CASE Resolve(n, n, s, q) /\ loc[n] = n
    BY <2>5 DEF Resolve, s
  <2> QED BY <1>3, <1>6, <2>2, <2>3, <2>4, <2>5
<1> QED BY <1>3, <1>4, <1>5, <1>6

(* An activation is suspected, or not, when a connection breaks. *)
LEMMA BreakIsThorough ==
  ASSUME TypeOK, Tries > 1, Residents \subseteq alive, NEW n \in Node, NEW d \in Node,
         Thorough(search[n], up[n]), search[n] # NoSearch => search[n].stage # "none",
         NodeDown(n, d)
  PROVE  UNCHANGED search \/ GoesOnThoroughly(n, up[n] \ {d})
<1> DEFINE peers == up[n] \ {d}
<1>1. search \in [Node -> Records] /\ peers \in SUBSET Node /\ d \notin peers
  BY DEF TypeOK, Records
<1>2. search[n] \in Records /\ Thorough(search[n], peers)
  BY <1>1 DEF Thorough
<1>3. CASE LocateHandleDown(n, d, search[n], net, peers)
  <2>1. CASE search[n] # NoSearch
    BY <1>1, <1>2, <1>3, <2>1, DownIsThorough
  <2>2. CASE search[n] = NoSearch
    <3>1. d \notin NoSearch.asked /\ [NoSearch EXCEPT !.asked = @ \ {d}] = NoSearch
      BY DEF NoSearch
    <3>2. search' = [search EXCEPT ![n] = NoSearch]
      BY <1>3, <2>2, <3>1 DEF LocateHandleDown, Searching
    <3> QED BY <1>1, <2>2, <3>2
  <2> QED BY <2>1, <2>2
<1>4. CASE \E reached \in Reached(peers) :
             LET s == IF search[n] # NoSearch THEN search[n]
                      ELSE [NoSearch EXCEPT !.stage = "easy", !.count = 1]
                 t == [s EXCEPT !.stage = "aggressive", !.asked = @ \cup reached]
             IN  IF t.asked = {} THEN Resolve(n, Limbo, t, net)
                 ELSE LocateHandleDown(n, d, t, Questioned(net, n, reached), peers)
  <2> DEFINE s == IF search[n] # NoSearch THEN search[n]
                  ELSE [NoSearch EXCEPT !.stage = "easy", !.count = 1]
  <2>1. s \in Records
    <3>1. CASE search[n] = NoSearch
      <4>1. s = [stage |-> "easy", count |-> 1, asked |-> {}, states |-> {}, msgs |-> {}]
        BY <3>1 DEF NoSearch
      <4>2. 1 \in 0..Tries
        BY ConstAssumption
      <4>3. [stage |-> "easy", count |-> 1, asked |-> {}, states |-> {}, msgs |-> {}] \in Records
        BY <4>2 DEF Records
      <4> HIDE DEF s
      <4> QED BY <4>1, <4>3
    <3> QED BY <1>2, <3>1
  <2> HIDE DEF s
  <2>2. PICK reached \in Reached(peers) :
          LET t == [s EXCEPT !.stage = "aggressive", !.asked = @ \cup reached]
          IN  \/ t.asked = {} /\ Resolve(n, Limbo, t, net)
              \/ LocateHandleDown(n, d, t, Questioned(net, n, reached), peers)
    BY <1>4 DEF s
  <2> DEFINE t == [s EXCEPT !.stage = "aggressive", !.asked = @ \cup reached]
             q == Questioned(net, n, reached)
  <2>3. reached \subseteq peers /\ peers \cap alive \subseteq reached
    BY ReachedArePeers
  <2>4. t \in Records /\ t.stage = "aggressive" /\ Residents \cap peers \subseteq t.asked
    BY <1>1, <2>1, <2>3 DEF Records
  <2>5. (t.asked = {} /\ Resolve(n, Limbo, t, net)) \/ LocateHandleDown(n, d, t, q, peers)
    BY <2>2
  <2> HIDE DEF t, q, peers
  <2>6. CASE t.asked = {} /\ Resolve(n, Limbo, t, net)
    BY <2>4, <2>6 DEF Resolve, GoesOnThoroughly, peers
  <2>7. CASE LocateHandleDown(n, d, t, q, peers)
    <3>1. t.stage # "none" /\ Thorough(t, peers)
      BY <2>4 DEF Thorough
    <3>2. GoesOnThoroughly(n, peers)
      BY <1>1, <2>4, <2>7, <3>1, DownIsThorough
    <3> QED BY <3>2 DEF peers
  <2> QED BY <2>5, <2>6, <2>7
<1> QED BY <1>3, <1>4 DEF NodeDown

LEMMA SettledAtFirst == Init => Settled
<1> SUFFICES ASSUME Init PROVE Settled
  OBVIOUS
<1>1. /\ moves = MaxMoves /\ MaxMoves \in Nat /\ alive = Node
      /\ \A n \in Node : search[n] = NoSearch
      /\ \A c \in Links : Len(net[c]) = 0
  BY ConstAssumption DEF Init, Links
<1>2. Absent(net, MoveRequests) /\ Replies(net, Residents)
  <2>1. ASSUME NEW c \in Links, NEW i \in 1..Len(net[c]) PROVE FALSE
    BY <1>1
  <2> QED BY <2>1 DEF Absent, Replies, Links
<1> QED BY <1>1, <1>2 DEF Settled, Residents, Unmoved, Thorough, NoSearch

(* The steps of the searches, when nothing moved *)
Searches(n, peers) ==
  \/ UNCHANGED search
  \/ GoesOnThoroughly(n, peers)
  \/ /\ search' = [search EXCEPT ![n] = NoSearch]
     /\ \/ loc[n] = n
        \/ \E srv \in Node \ {n} :
             loc[n] # n /\ loc' = Updated(n, srv) /\ Residents \subseteq {srv}

LEMMA SearchesStay ==
  ASSUME TypeOK, Unmoved, NEW n \in Node, NEW peers \in SUBSET Node, Searches(n, peers),
         up'[n] = peers, peers \subseteq up[n], \A k \in Node : k # n => up'[k] = up[k],
         Residents' \subseteq Residents
  PROVE  \A k \in Node : /\ Thorough(search[k], up[k])'
                         /\ search'[k] # NoSearch => search'[k].stage # "none"
<1>1. search \in [Node -> Records] /\ NoSearch.stage = "none"
  BY DEF TypeOK, Records, NoSearch
<1> SUFFICES ASSUME NEW k \in Node
             PROVE  /\ Thorough(search[k], up[k])'
                    /\ search'[k] # NoSearch => search'[k].stage # "none"
  OBVIOUS
<1>2. /\ Thorough(search[k], up[k])
      /\ search[k] # NoSearch => search[k].stage # "none"
  BY DEF Unmoved
<1>3. CASE search'[k] = search[k]
  <2>1. up'[k] \subseteq up[k]
    BY DEF Thorough
  <2> QED BY <1>2, <1>3, <2>1 DEF Thorough
<1>4. CASE search'[k] = NoSearch
  BY <1>1, <1>4 DEF Thorough
<1>5. CASE k = n /\ \E t \in Records :
             search' = [search EXCEPT ![n] = t] /\ t.stage # "none" /\ Thorough(t, peers)
  <2>1. PICK t \in Records : search' = [search EXCEPT ![n] = t] /\ t.stage # "none" /\ Thorough(t, peers)
    BY <1>5
  <2>2. search'[k] = t /\ up'[k] = peers
    BY <1>1, <1>5, <2>1
  <2> QED BY <2>1, <2>2 DEF Thorough
<1> QED BY <1>1, <1>3, <1>4, <1>5 DEF Searches, GoesOnThoroughly

(* Only the node that acts ends its search, and it knows where the object is. *)
LEMMA SearchesFind ==
  ASSUME Base, OneCopy, Unmoved, NEW n \in Node, NEW peers \in SUBSET Node, Searches(n, peers),
         NEW k \in Node, NEW m \in Residents, m \in up[k], k = n => m \in peers,
         search[k] # NoSearch, search'[k] = NoSearch
  PROVE  loc'[k] = m
<1>1. search \in [Node -> Records] /\ NoSearch.stage = "none"
  BY DEF Base, TypeOK, Records, NoSearch
<1>2. k = n
  BY <1>1 DEF Searches, GoesOnThoroughly
<1>3. m # n /\ loc[m] = m /\ m \in Node
  BY <1>2 DEF Base, Others, Residents
<1>4. ~GoesOnThoroughly(n, peers)
  BY <1>1, <1>2 DEF GoesOnThoroughly
<1>5. loc[n] # n
  BY <1>3 DEF OneCopy, Residents
<1>6. PICK srv \in Node \ {n} : loc' = Updated(n, srv) /\ Residents \subseteq {srv}
  BY <1>2, <1>4, <1>5 DEF Searches
<1>7. srv = m
  BY <1>6
<1> QED BY <1>2, <1>5, <1>6, <1>7 DEF Updated, Base, TypeOK

LEMMA ReceiveSearches ==
  ASSUME Base, OneCopy, Tries > 1, Residents \subseteq alive, Unmoved,
         NEW n \in Node, NEW srv \in Node, Receive(n, srv)
  PROVE  /\ Searches(n, up[n]) /\ Residents' = Residents
         /\ Absent(net', MoveRequests) /\ Replies(net', Residents)
<1>1. PICK q \in Networks, m \in Message : Took(q, n, srv, m) /\ Served(n, srv, m, q)
  BY ReceiveStep
<1>2. n # srv /\ up' = up /\ search \in [Node -> Records]
  BY DEF Receive, Base, NoSelfMail, TypeOK, Records
<1>3. \/ m.kind = "LocateRequest" /\ HandleLocateRequest(n, srv, m, q)
      \/ m.kind = "LocateReply"   /\ HandleLocateReply(n, srv, m, q)
      \/ m.kind = "InvokeRequest" /\ HandleInvokeRequest(n, srv, m, q)
      \/ m.kind = "MoveRequest"   /\ HandleMoveRequest(n, srv, m, q)
      \/ m.kind = "MoveReply"     /\ HandleMoveReply(n, srv, m, q)
  BY <1>1 DEF Receive, Took
<1>4. /\ From(q) /\ net[<<srv, n>>][1] = m /\ net \in Networks
      /\ Len(net[<<srv, n>>]) = Len(q[<<srv, n>>]) + 1
  BY <1>1, TookNetwork, TookIsFrom DEF Base, TypeOK, Networks, Links
<1>5. <<srv, n>> \in Links /\ 1 \in 1..Len(net[<<srv, n>>])
  <2>1. <<srv, n>> \in Links
    BY DEF Links
  <2>2. Len(q[<<srv, n>>]) \in Nat
    BY <1>4, <2>1 DEF Networks
  <2> QED BY <1>4, <2>1, <2>2
<1>6. m.kind # "MoveRequest"
  <2>1. m \notin MoveRequests
    BY <1>4, <1>5 DEF Unmoved, Absent, Links
  <2> QED BY <1>4, <2>1, MessageKinds DEF MoveRequests
<1>7. Replies(q, Residents)
  BY <1>4, RepliesFrom DEF Base, Unmoved
<1>8. Calm(q)
  BY <1>1, <1>2, <1>6, ServedIsCalm
<1>9. Residents' = Residents /\ net' \in Networks
  BY <1>8 DEF Calm, Residents
<1>10. Absent(net', MoveRequests)
  <2>1. \A k \in MoveRequests : k.kind = "MoveRequest"
    BY DEF MoveRequests, MoveRequest
  <2>2. Absent(q, MoveRequests)
    BY <1>4, <2>1, FromKeeps DEF Base, Unmoved
  <2>3. Grown(net', q, MoveRequests)
    BY <1>9, <2>1, <1>8, AddsGrows DEF Calm
  <2> QED BY <1>9, <2>2, <2>3, GrownKeeps
<1>11. Replies(net', Residents)
  <2>1. CASE HandleLocateRequest(n, srv, m, q) /\ m.kind = "LocateRequest"
    <3>1. m.origin \in Node /\ m.demand \in BOOLEAN
      BY <2>1, MessageKinds
    <3>2. n \in Residents <=> loc[n] = n
      BY DEF Residents
    <3>3. loc[n] = n => Residents \subseteq {n}
      BY <3>2 DEF OneCopy
    <3>4. CASE loc[n] = n /\ net' = SentIfUp(q, n, m.origin, LocateReply(m.demand, TRUE))
      BY <1>7, <3>1, <3>3, <3>4, ReplySent DEF Base
    <3>5. CASE loc[n] # n /\ net' = SentIfUp(q, n, m.origin, LocateReply(FALSE, FALSE))
      BY <1>7, <3>1, <3>2, <3>5, ReplySent DEF Base
    <3>6. CASE loc[n] # n /\ net' = SentIfUp(q, n, srv, LocateReply(TRUE, FALSE))
      BY <1>7, <3>2, <3>6, ReplySent DEF Base
    <3>7. CASE MaySend(n, loc[n]) /\ net' = Sent(q, n, loc[n], <<m>>)
      <4>1. net' = SentIfUp(q, n, loc[n], m)
        BY <3>7 DEF SentIfUp
      <4>2. Adds(net', q, {"LocateRequest"})
        BY <2>1, <4>1, SentIfUpAdds DEF Base
      <4> QED BY <1>7, <1>9, <4>2, RepliesAdded
    <3> QED BY <2>1, <3>4, <3>5, <3>6, <3>7 DEF HandleLocateRequest
  <2>2. CASE m.kind # "LocateRequest"
    <3>1. CASE \E s \in Records : SearchStep(n, s, q, up[n])
      <4>1. Adds(net', q, {"LocateRequest", "InvokeRequest"})
        BY <3>1, SearchStepIsQuiet DEF Base, Quiet
      <4> QED BY <1>7, <1>9, <4>1, RepliesAdded
    <3>2. CASE m.req \in Req /\ SendsOn(n, m.req, q)
      <4>1. Adds(net', q, {"InvokeRequest"})
        BY <3>2, SendsOnAdds
      <4> QED BY <1>7, <1>9, <4>1, RepliesAdded
    <3>3. CASE net' = q
      BY <1>7, <3>3
    <3>4. CASE m.kind = "LocateReply"
      <4>1. \/ net' = q \/ GoesOn(n, search[n], q, up[n]) \/ GivesUp(n, search[n], q)
            \/ loc[n] = n /\ Finds(n, n, q)
            \/ loc[n] # n /\ Finds(n, srv, q)
        <5>1. HandleLocateReply(n, srv, m, q)
          BY <1>3, <3>4
        <5>2. \/ UNCHANGED <<loc, search, told, reqs>> /\ net' = q
              \/ GoesOn(n, search[n], q, up[n]) \/ GivesUp(n, search[n], q)
              \/ loc[n] = n /\ Finds(n, n, q)
              \/ loc[n] # n /\ Finds(n, srv, q)
          BY <5>1, LocateReplyStep DEF Base
        <5> QED BY <5>2
      <4>2. CASE net' # q
        <5>1. SearchStep(n, search[n], q, up[n]) /\ search[n] \in Records
          BY <1>2, <4>1, <4>2, ConstAssumption DEF SearchStep, Finds, GivesUp
        <5> QED BY <3>1, <5>1
      <4> QED BY <3>3, <4>2
    <3>5. CASE m.kind = "InvokeRequest"
      <4>1. CASE m.req \in Req /\ SearchStep(n, Joined(n, {}, {m.req}), q, up[n])
        <5>1. {m.req} \in SUBSET Req /\ {} \in SUBSET Proc
          BY <4>1
        <5>2. Joined(n, {}, {m.req}) \in Records
          BY <5>1, JoinedRecord DEF Base
        <5> QED BY <3>1, <4>1, <5>2
      <4> QED BY <1>1, <3>2, <3>3, <3>5, <4>1 DEF Served, Serves
    <3>6. CASE m.kind = "MoveReply"
      BY <1>1, <3>3, <3>6 DEF Served, Learns
    <3> QED BY <1>1, <1>6, <2>2, <3>4, <3>5, <3>6, MessageKinds
  <2> QED BY <1>3, <2>1, <2>2
<1>12. Searches(n, up[n])
  <2>1. Thorough(search[n], up[n]) /\ (search[n] # NoSearch => search[n].stage # "none")
    BY DEF Unmoved
  <2>2. CASE m.kind = "LocateReply"
    <3>1. m.found \in BOOLEAN /\ m.demand \in BOOLEAN
      BY <2>2, MessageKinds
    <3>2. IF m.found THEN Residents \subseteq {srv} ELSE srv \notin Residents
      <4> DEFINE l == <<srv, n>>
      <4>1. l[1] = srv /\ l \in Links /\ 1 \in 1..Len(net[l]) /\ net[l][1] = m
        BY <1>4, <1>5
      <4>2. Replies(net, Residents)
        BY DEF Unmoved
      <4> HIDE DEF l
      <4>3. net[l][1].kind = "LocateReply" =>
              IF net[l][1].found THEN Residents \subseteq {l[1]} ELSE l[1] \notin Residents
        BY <4>1, <4>2 DEF Replies
      <4> QED BY <2>2, <4>1, <4>3
    <3>3. \/ UNCHANGED search
          \/ GoesOnThoroughly(n, up[n])
          \/ /\ search' = [search EXCEPT ![n] = NoSearch]
             /\ \/ loc[n] = n
                \/ loc[n] # n /\ loc' = Updated(n, srv) /\ Residents \subseteq {srv}
      BY <1>3, <2>1, <2>2, <3>1, <3>2, ReplyIsThorough DEF Base
    <3> QED BY <1>2, <3>3 DEF Searches
  <2>3. CASE m.kind = "InvokeRequest"
    <3>1. m.req \in Req
      BY <2>3, MessageKinds
    <3>2. {m.req} \in SUBSET Req /\ {} \in SUBSET Proc
      BY <3>1
    <3>3. UNCHANGED search \/ FindLocation(n, {}, {m.req}, q)
      BY <1>3, <2>3 DEF HandleInvokeRequest, SendOrFind
    <3> QED BY <2>1, <3>2, <3>3, FindIsThorough DEF Searches, Base
  <2>4. CASE m.kind \notin {"LocateReply", "InvokeRequest"}
    BY <1>3, <2>4 DEF Searches, HandleLocateRequest, HandleMoveRequest, HandleMoveReply
  <2> QED BY <2>2, <2>3, <2>4
<1> QED BY <1>9, <1>10, <1>11, <1>12

LEMMA CallSearches ==
  ASSUME Base, Residents \subseteq alive, Unmoved, NEW p \in Proc, Call(p)
  PROVE  /\ Searches(Place[p], up[Place[p]]) /\ Residents' = Residents
         /\ Absent(net', MoveRequests) /\ Replies(net', Residents)
<1> DEFINE n == Place[p]
           s == Joined(n, {p}, {})
<1>1. n \in Node /\ SearchStep(n, s, net, up[n]) /\ FindLocation(n, {p}, {}, net)
  BY CallStep DEF Call
<1>2. {p} \in SUBSET Proc /\ {} \in SUBSET Req /\ net \in Networks
  BY DEF Base, TypeOK, Networks, Links
<1> HIDE DEF n
<1>3. s \in Records
  BY <1>1, <1>2, JoinedRecord DEF Base
<1>4. Calm(net)
  BY CallIsCalm
<1>5. Residents' = Residents
  BY <1>4 DEF Calm, Residents
<1>6. net' \in Networks /\ Adds(net', net, {"LocateRequest", "InvokeRequest"})
  BY <1>1, <1>2, <1>3, SearchStepIsQuiet DEF Base, Quiet
<1>7. Replies(net', Residents)
  BY <1>2, <1>6, RepliesAdded DEF Unmoved
<1>8. Absent(net', MoveRequests)
  <2>1. \A k \in MoveRequests : k.kind = "MoveRequest"
    BY DEF MoveRequests, MoveRequest
  <2>2. Grown(net', net, MoveRequests)
    BY <1>2, <1>6, <2>1, AddsGrows
  <2> QED BY <1>2, <1>6, <2>2, GrownKeeps DEF Unmoved
<1>9. Searches(n, up[n])
  BY <1>1, <1>2, FindIsThorough DEF Unmoved, Searches, Base
<1> QED BY <1>5, <1>7, <1>8, <1>9 DEF n

LEMMA InvokeSearches ==
  ASSUME Base, Residents \subseteq alive, Unmoved, NEW r \in Req, Invoke(r)
  PROVE  /\ Searches(Place[r], up[Place[r]]) /\ Residents' = Residents
         /\ Absent(net', MoveRequests) /\ Replies(net', Residents)
<1> DEFINE n == Place[r]
           s == Joined(n, {}, {r})
<1>1. n \in Node /\ (SendsOn(n, r, net) \/ SearchStep(n, s, net, up[n]))
  BY InvokeStep
<1>2. {r} \in SUBSET Req /\ {} \in SUBSET Proc /\ net \in Networks
  BY DEF Base, TypeOK, Networks, Links
<1>3. UNCHANGED search \/ FindLocation(n, {}, {r}, net)
  BY DEF Invoke, SendOrFind
<1> HIDE DEF n
<1>4. s \in Records
  BY <1>1, <1>2, JoinedRecord DEF Base
<1>5. Calm(net)
  BY InvokeIsCalm
<1>6. Residents' = Residents
  BY <1>5 DEF Calm, Residents
<1>7. net' \in Networks /\ Adds(net', net, {"LocateRequest", "InvokeRequest"})
  <2>1. CASE SendsOn(n, r, net)
    <3>1. net' \in Networks /\ Adds(net', net, {"InvokeRequest"})
      BY <1>1, <1>2, <2>1, SendsOnAdds
    <3> QED BY <3>1 DEF Adds
  <2>2. CASE SearchStep(n, s, net, up[n])
    BY <1>1, <1>2, <1>4, <2>2, SearchStepIsQuiet DEF Base, Quiet
  <2> QED BY <1>1, <2>1, <2>2
<1>8. Replies(net', Residents)
  BY <1>2, <1>7, RepliesAdded DEF Unmoved
<1>9. Absent(net', MoveRequests)
  <2>1. \A k \in MoveRequests : k.kind = "MoveRequest"
    BY DEF MoveRequests, MoveRequest
  <2>2. Grown(net', net, MoveRequests)
    BY <1>2, <1>7, <2>1, AddsGrows
  <2> QED BY <1>2, <1>7, <2>2, GrownKeeps DEF Unmoved
<1>10. Searches(n, up[n])
  BY <1>1, <1>2, <1>3, FindIsThorough DEF Unmoved, Searches, Base
<1> QED BY <1>6, <1>8, <1>9, <1>10 DEF n

LEMMA DownSearches ==
  ASSUME Base, Tries > 1, Residents \subseteq alive, Unmoved,
         NEW n \in Node, NEW d \in Node, NodeDown(n, d)
  PROVE  /\ Searches(n, up[n] \ {d}) /\ Residents' = Residents
         /\ Absent(net', MoveRequests) /\ Replies(net', Residents)
<1>1. PICK q : From(q) /\ SearchStep(n, search[n], q, up'[n])
  BY DownStep
<1>2. search[n] \in Records /\ q \in Networks
  <2>1. search \in [Node -> Records]
    BY DEF Base, TypeOK, Records
  <2> QED BY <1>1, <2>1 DEF From
<1>3. \A k \in Node : k # n => up'[k] = up[k]
  BY DownStep DEF Base, TypeOK
<1>4. Residents' = Residents
  <2>1. Calm(q)
    BY <1>1, <1>2, <1>3, SearchStepIsCalm
  <2> QED BY <2>1 DEF Calm, Residents
<1>5. net' \in Networks /\ Adds(net', q, {"LocateRequest", "InvokeRequest"})
  BY <1>1, <1>2, SearchStepIsQuiet DEF Base, Quiet
<1>6. Replies(q, Residents) /\ Absent(q, MoveRequests)
  <2>1. \A k \in MoveRequests : k.kind # "LocateRequest"
    BY DEF MoveRequests, MoveRequest
  <2> QED BY <1>1, <2>1, RepliesFrom, FromKeeps DEF Base, Unmoved
<1>7. Replies(net', Residents)
  BY <1>2, <1>5, <1>6, RepliesAdded
<1>8. Absent(net', MoveRequests)
  <2>1. \A k \in MoveRequests : k.kind = "MoveRequest"
    BY DEF MoveRequests, MoveRequest
  <2>2. Grown(net', q, MoveRequests)
    BY <1>2, <1>5, <2>1, AddsGrows
  <2> QED BY <1>2, <1>5, <1>6, <2>2, GrownKeeps
<1>9. Searches(n, up[n] \ {d})
  BY BreakIsThorough DEF Unmoved, Searches, Base
<1> QED BY <1>4, <1>7, <1>8, <1>9

(* A step of node n while nothing has moved, and its peers then *)
LEMMA SettledStep ==
  ASSUME Placed, Settled, moves = MaxMoves, moves' = moves, alive' = alive,
         NEW n \in Node, NEW peers \in SUBSET Node, Searches(n, peers),
         up'[n] = peers, peers \subseteq up[n], \A k \in Node : k # n => up'[k] = up[k],
         \A d \in up[n] \ peers : d \notin alive,
         Residents' = Residents, Absent(net', MoveRequests), Replies(net', Residents)
  PROVE  /\ Settled'
         /\ \A k \in alive, m \in Residents :
              m \in up[k] /\ search[k] # NoSearch /\ search'[k] = NoSearch => loc'[k] = m
<1>1. Base /\ OneCopy /\ Unmoved /\ Residents \subseteq alive
  BY DEF Placed, Settled
<1>2. \A k \in Node : /\ Thorough(search[k], up[k])'
                      /\ search'[k] # NoSearch => search'[k].stage # "none"
  BY <1>1, SearchesStay DEF Base
<1>3. Settled'
  <2>1. Replies(net, Residents)'
    BY DEF Replies
  <2>2. Absent(net, MoveRequests)'
    BY DEF Absent
  <2>3. Unmoved'
    BY <1>2, <2>1, <2>2 DEF Unmoved
  <2> QED BY <2>3 DEF Settled
<1>4. ASSUME NEW k \in alive, NEW m \in Residents,
             m \in up[k], search[k] # NoSearch, search'[k] = NoSearch
      PROVE  loc'[k] = m
  <2>1. k \in Node
    BY <1>1 DEF Base, TypeOK
  <2>2. k = n => m \in peers
    BY <1>1, <1>4
  <2> QED BY <1>1, <1>4, <2>1, <2>2, SearchesFind
<1> QED BY <1>3, <1>4

LEMMA UnsearchedStep ==
  ASSUME Placed, Settled, moves = MaxMoves, moves' = moves,
         UNCHANGED <<alive, up, loc, search>>, net' \in Networks, From(net')
  PROVE  Settled'
<1>1. Base /\ Unmoved /\ \A m \in MoveRequests : m.kind # "LocateRequest"
  BY DEF Placed, Settled, MoveRequests, MoveRequest
<1>2. Replies(net', Residents) /\ Absent(net', MoveRequests)
  BY <1>1, RepliesFrom, FromKeeps DEF Base, Unmoved
<1>3. Replies(net, Residents)'
  BY <1>2 DEF Replies, Residents
<1>4. Absent(net, MoveRequests)'
  BY <1>2 DEF Absent
<1> QED BY <1>1, <1>3, <1>4 DEF Settled, Unmoved, Residents, Thorough

LEMMA CrashSettles ==
  ASSUME Placed, Settled, NEW d \in Node, Crash(d)
  PROVE  Settled'
<1>1. /\ net' \in Networks /\ From(net') /\ Residents' \subseteq Residents
      /\ \A k \in Node : \/ k = d /\ search'[k] = NoSearch /\ up'[k] = {}
                         \/ k # d /\ search'[k] = search[k] /\ up'[k] = up[k]
      /\ alive' = alive \ {d} /\ moves' = moves
  BY CrashStep, ShrunkIsFrom DEF Placed, Base
<1>2. d \notin Residents'
  BY ConstAssumption DEF Crash, Residents, Placed, Base, TypeOK
<1>3. ASSUME moves = MaxMoves PROVE Unmoved'
  <2>1. Unmoved /\ \A m \in MoveRequests : m.kind # "LocateRequest"
    BY <1>3 DEF Settled, MoveRequests, MoveRequest
  <2>2. Replies(net', Residents) /\ Absent(net', MoveRequests)
    BY <1>1, <2>1, RepliesFrom, FromKeeps DEF Placed, Base, Unmoved
  <2>3. Replies(net', Residents')
    BY <1>1, <2>2, FewerPlaces
  <2>4. ASSUME NEW k \in Node
        PROVE  /\ Thorough(search[k], up[k])'
               /\ search'[k] # NoSearch => search'[k].stage # "none"
    <3>1. NoSearch.stage = "none"
      BY DEF NoSearch
    <3> QED BY <1>1, <2>1, <3>1 DEF Unmoved, Thorough
  <2>5. Replies(net, Residents)' /\ Absent(net, MoveRequests)'
    BY <2>2, <2>3 DEF Replies, Absent
  <2> QED BY <2>4, <2>5 DEF Unmoved
<1> QED BY <1>1, <1>2, <1>3 DEF Settled

(* What no step may do *)
Abandons ==
  \E n \in alive, m \in Residents :
    /\ {n, m} \subseteq alive' /\ m \in up[n]
    /\ search[n] # NoSearch /\ search'[n] = NoSearch /\ loc'[n] # m

LEMMA SettledAlways ==
  ASSUME Tries > 1, Placed, Settled, [Next]_vars
  PROVE  Settled' /\ (moves = MaxMoves => ~Abandons)
<1>1. /\ Base /\ OneCopy /\ Residents \subseteq alive /\ moves \in Nat /\ MaxMoves \in Nat
      /\ moves <= MaxMoves /\ up \in [Node -> SUBSET Node] /\ loc \in [Node -> Node \cup {Limbo}]
      /\ (moves = MaxMoves => Unmoved)
  BY ConstAssumption DEF Placed, Base, TypeOK, Settled
<1>2. ASSUME UNCHANGED <<search, alive, moves>> PROVE ~Abandons
  BY <1>2 DEF Abandons
<1>3. CASE moves = MaxMoves
  <2>1. Unmoved
    BY <1>1, <1>3
  <2>2. ASSUME NEW n \in Node, NEW srv \in Node, Receive(n, srv)
        PROVE  Settled' /\ ~Abandons
    <3>1. /\ Searches(n, up[n]) /\ Residents' = Residents
          /\ Absent(net', MoveRequests) /\ Replies(net', Residents)
      BY <1>1, <2>1, <2>2, ReceiveSearches
    <3>2. moves' = moves /\ alive' = alive /\ up' = up /\ up[n] \in SUBSET Node
      BY <1>1, <2>2 DEF Receive
    <3> QED BY <1>3, <3>1, <3>2, SettledStep DEF Abandons
  <2>3. ASSUME NEW p \in Proc, Call(p) PROVE Settled' /\ ~Abandons
    <3>1. /\ Searches(Place[p], up[Place[p]]) /\ Residents' = Residents
          /\ Absent(net', MoveRequests) /\ Replies(net', Residents)
      BY <1>1, <2>1, <2>3, CallSearches
    <3>2. moves' = moves /\ alive' = alive /\ up' = up /\ Place[p] \in Node /\ up[Place[p]] \in SUBSET Node
      BY <1>1, <2>3, ConstAssumption DEF Call
    <3> QED BY <1>3, <3>1, <3>2, SettledStep DEF Abandons
  <2>4. ASSUME NEW r \in Req, Invoke(r) PROVE Settled' /\ ~Abandons
    <3>1. /\ Searches(Place[r], up[Place[r]]) /\ Residents' = Residents
          /\ Absent(net', MoveRequests) /\ Replies(net', Residents)
      BY <1>1, <2>1, <2>4, InvokeSearches
    <3>2. moves' = moves /\ alive' = alive /\ up' = up /\ Place[r] \in Node /\ up[Place[r]] \in SUBSET Node
      BY <1>1, <2>4, ConstAssumption DEF Invoke
    <3> QED BY <1>3, <3>1, <3>2, SettledStep DEF Abandons
  <2>5. ASSUME NEW n \in Node, NEW d \in Node, NodeDown(n, d) PROVE Settled' /\ ~Abandons
    <3> DEFINE peers == up[n] \ {d}
    <3>1. /\ Searches(n, peers) /\ Residents' = Residents
          /\ Absent(net', MoveRequests) /\ Replies(net', Residents)
      BY <1>1, <2>1, <2>5, DownSearches
    <3>2. /\ moves' = moves /\ alive' = alive /\ up' = [up EXCEPT ![n] = peers] /\ d \notin alive
      BY <2>5 DEF NodeDown
    <3>3. /\ up'[n] = peers /\ \A k \in Node : k # n => up'[k] = up[k]
          /\ peers \subseteq up[n] /\ peers \in SUBSET Node /\ \A k \in up[n] \ peers : k \notin alive
      BY <1>1, <3>2
    <3> HIDE DEF peers
    <3>4. /\ Settled'
          /\ \A k \in alive, m \in Residents :
               m \in up[k] /\ search[k] # NoSearch /\ search'[k] = NoSearch => loc'[k] = m
      BY <1>3, <3>1, <3>2, <3>3, SettledStep
    <3> QED BY <3>4 DEF Abandons
  <2>6. ASSUME NEW n \in Node, NEW d \in Node, Lose(n, d) PROVE Settled' /\ ~Abandons
    <3>1. /\ net' \in Networks /\ From(net')
          /\ UNCHANGED <<alive, up, loc, search, moves>>
      BY <1>1, <2>6, LoseStep, ShrunkIsFrom DEF Base
    <3> QED BY <1>2, <1>3, <3>1, UnsearchedStep
  <2>7. ASSUME NEW d \in Node, Crash(d) PROVE Settled' /\ ~Abandons
    <3>1. ~Abandons
      <4>1. /\ \A k \in Node : k # d => search'[k] = search[k]
            /\ alive' = alive \ {d} /\ alive \subseteq Node
        BY <1>1, <2>7, CrashStep DEF Base, TypeOK
      <4> QED BY <4>1 DEF Abandons
    <3> QED BY <2>7, <3>1, CrashSettles
  <2>8. ASSUME NEW n \in Node, NEW m \in Node, Move(n, m) PROVE Settled' /\ ~Abandons
    <3>1. /\ moves' = moves - 1 /\ moves > 0 /\ UNCHANGED <<alive, search>>
          /\ loc' = [loc EXCEPT ![n] = m] /\ m # n
      BY <1>1, <2>8 DEF Move, Base, Others
    <3>2. Residents' \subseteq Residents /\ moves' # MaxMoves /\ moves' <= MaxMoves
      BY <1>1, <3>1 DEF Residents
    <3>3. ~Abandons
      BY <3>1 DEF Abandons
    <3> QED BY <1>1, <3>1, <3>2, <3>3 DEF Settled
  <2>9. CASE UNCHANGED vars
    <3>1. UNCHANGED <<alive, up, loc, search, told, reqs, net, calls, moves, pokes>>
      BY <2>9 DEF vars
    <3>2. Settled'
      BY <3>1 DEF Settled, Unmoved, Residents, Thorough, Replies, Absent
    <3> QED BY <1>2, <3>1, <3>2
  <2> QED BY <2>2, <2>3, <2>4, <2>5, <2>6, <2>7, <2>8, <2>9 DEF Next
<1>4. CASE moves # MaxMoves
  <2>1. moves' <= MaxMoves /\ moves' # MaxMoves
    <3>1. moves' = moves \/ (moves > 0 /\ moves' = moves - 1)
      <4>1. ASSUME NEW n \in Node, NEW m \in Node, Receive(n, m) \/ NodeDown(n, m) \/ Lose(n, m)
            PROVE  moves' = moves
        BY <4>1 DEF Receive, NodeDown, Lose
      <4>2. ASSUME NEW n \in Node, NEW m \in Node, Move(n, m)
            PROVE  moves > 0 /\ moves' = moves - 1
        BY <4>2 DEF Move
      <4>3. ASSUME NEW n, Crash(n) \/ Call(n) \/ Invoke(n)
            PROVE  moves' = moves
        BY <4>3 DEF Crash, Call, Invoke
      <4>4. CASE UNCHANGED vars
        BY <4>4 DEF vars
      <4> QED BY <4>1, <4>2, <4>3, <4>4 DEF Next
    <3> QED BY <1>1, <1>4, <3>1
  <2>2. Residents' \subseteq alive'
    <3>1. ASSUME NEW n \in Node, NEW srv \in Node, Receive(n, srv) PROVE Residents' \subseteq alive'
      <4>1. alive' = alive /\ n \in alive
        BY <3>1 DEF Receive
      <4>2. CASE \E q : Calm(q)
        BY <1>1, <4>1, <4>2 DEF Calm, Residents
      <4>3. CASE \E q \in Networks, m \in Message : HandleMoveRequest(n, srv, m, q)
        BY <1>1, <4>1, <4>3 DEF HandleMoveRequest, Residents
      <4> QED BY <1>1, <3>1, <4>2, <4>3, ReceiveIsCalm
    <3>2. ASSUME alive' = alive, NEW q, Calm(q) PROVE Residents' \subseteq alive'
      BY <1>1, <3>2 DEF Calm, Residents
    <3>3. ASSUME NEW n \in Node, NEW m \in Node, Move(n, m) PROVE Residents' \subseteq alive'
      <4>1. m # n /\ alive' = alive /\ loc' = [loc EXCEPT ![n] = m]
        BY <1>1, <3>3 DEF Move, Base, Others
      <4> QED BY <1>1, <4>1 DEF Residents
    <3>4. ASSUME NEW d \in Node, Crash(d) PROVE Residents' \subseteq alive'
      <4>1. alive' = alive \ {d} /\ loc' = [loc EXCEPT ![d] = Limbo]
        BY <3>4 DEF Crash
      <4> QED BY <1>1, <4>1, ConstAssumption DEF Residents
    <3>5. CASE UNCHANGED <<alive, loc>>
      BY <1>1, <3>5 DEF Residents
    <3>6. ASSUME NEW n \in Node, NEW d \in Node, NodeDown(n, d) PROVE Residents' \subseteq alive'
      BY <1>1, <3>2, <3>6, DownIsCalm DEF NodeDown
    <3>7. ASSUME NEW p \in Proc, Call(p) PROVE Residents' \subseteq alive'
      BY <1>1, <3>2, <3>7, CallIsCalm DEF Call
    <3>8. ASSUME NEW r \in Req, Invoke(r) PROVE Residents' \subseteq alive'
      BY <1>1, <3>2, <3>8, InvokeIsCalm DEF Invoke
    <3> QED BY <3>1, <3>3, <3>4, <3>5, <3>6, <3>7, <3>8 DEF Next, vars, Lose
  <2> QED BY <1>4, <2>1, <2>2 DEF Settled
<1> QED BY <1>3, <1>4

(* locate.c: a search that ends at a node has found the object where it stayed,
   if that node runs and can be reached: in no order of answers, rounds and
   deaths is it given up or looked for in the wrong place.  One round alone is
   not enough: LOCATE_TIMES_TO_TRY is 5. *)
THEOREM NeverGivenUp == Tries > 1 => (Spec => NotGivenUp)
<1> SUFFICES ASSUME Tries > 1 PROVE Spec => NotGivenUp
  OBVIOUS
<1>1. Init => Placed /\ Settled
  BY PlacedAtFirst, SettledAtFirst
<1>2. (Placed /\ Settled) /\ [Next]_vars => (Placed /\ Settled)'
  BY PlacedAlways, SettledAlways
<1>3. (Placed /\ Settled) /\ [Next]_vars =>
        [moves = MaxMoves => \A n \in alive, m \in Residents :
           {n, m} \subseteq alive' /\ m \in up[n] /\ search[n] # NoSearch /\ search'[n] = NoSearch
             => loc'[n] = m]_vars
  BY SettledAlways DEF Abandons
<1> QED BY <1>1, <1>2, <1>3, PTL DEF Spec, NotGivenUp
=============================================================================
