-------------------------------- MODULE DistGC --------------------------------
(***************************************************************************)
(* The distributed collector (vm/distgc.c, compiled with USEDISTGC).  Each *)
(* node marks what its roots reach when it learns, from the number in the  *)
(* header of any message, that a collection has begun; a reference to      *)
(* another node's object is grey until that node has marked the object and *)
(* says so; a node without greys asks all, twice, whether they have any,   *)
(* and ends the collection if none has seen a new one between.  Then every *)
(* node takes its unmarked objects out of the object table.                *)
(* One collection, while references and objects are sent between nodes.    *)
(***************************************************************************)
EXTENDS Naturals, Sequences, FiniteSets, SequencesExt, FiniteSetsExt

CONSTANTS
  Nodes, Objects,
  Field,      \* Field[o]: the objects o refers to
  Cases,      \* initial homes and roots, who may start a collection, and
              \* whether references or objects are sent, see Init
  MaxSends,   \* bound on the references and objects that are sent
  MaxOut,     \* bound on the messages of a channel when a timer runs
  None

VARIABLES
  at,         \* the node an object is resident on, None while it is sent
  hold, stub, \* per node: the objects its processes refer to; its stubs
  may,        \* the case
  g,          \* the collector of a node, see Idle
  chan,       \* chan[s][n]: what s sent to n
  lost,       \* the objects whose OIDs were removed
  sends,
  leaked, dead \* ghosts: references a collection missed; garbage at its begin
vars == <<may, at, hold, stub, g, chan, lost, sends, leaked, dead>>

\* new and last are newTimestamps and lastTimestamps: functions from nodes.
Idle ==
  [seq |-> 0, active |-> FALSE, terminating |-> FALSE, marked |-> {}, greys |-> {},
   blacks |-> {}, ts |-> 0, new |-> <<>>, last |-> <<>>]

Init ==
  /\ may \in Cases /\ at = may.at /\ hold = may.hold
  /\ stub = [n \in Nodes |-> {o \in Objects : at[o] # n /\
       (o \in hold[n] \/ \E p \in Objects : at[p] = n /\ o \in Field[p])}]
  /\ g = [n \in Nodes |-> Idle] /\ lost = {} /\ sends = 0 /\ leaked = {} /\ dead = {}
  /\ chan = [s \in Nodes |-> [n \in Nodes |-> <<>>]]

Msg(me, kind, objs, ts) ==
  [kind |-> kind, seq |-> me.seq, active |-> me.active, objs |-> objs, ts |-> ts]
\* out: per destination, what a handler sends.
Silent == [n \in Nodes |-> <<>>]
ToAll(n, out, msgs) == [m \in Nodes |-> IF m = n THEN <<>> ELSE out[m] \o msgs]

-----------------------------------------------------------------------------
(* What is reached from S through what `through' holds of.                 *)
Reach(S, through) ==
  LET step[i \in 0..Cardinality(Objects)] ==
        IF i = 0 THEN S ELSE step[i - 1] \cup UNION {Field[o] : o \in step[i - 1] \cap through}
  IN step[Cardinality(Objects)]
Resident(n) == {o \in Objects : at[o] = n}

(* dgcMark, from S: residents are followed, stubs become grey, which calls *)
(* an attempt to terminate off.                                            *)
NewGrey(me, new) ==
  IF new = {} THEN me
  ELSE [me EXCEPT !.greys = @ \cup new, !.ts = @ + Cardinality(new),
                  !.terminating = FALSE, !.new = <<>>, !.last = <<>>]
Marked(me, S, resident) ==
  LET reached == Reach(S, resident \ me.marked) \ me.marked
  IN NewGrey([me EXCEPT !.marked = @ \cup reached], reached \ resident)

(* progressDistGC: the greys and blacks to all; with none, the termination.*)
AreWeDone(me) == \A n \in DOMAIN me.last : n \in DOMAIN me.new /\ me.new[n] = me.last[n]
Answers(n, old) == [m \in Nodes \ {n} |-> IF m \in DOMAIN old THEN old[m] ELSE 0]
Finished(me) == [Idle EXCEPT !.seq = me.seq, !.marked = me.marked, !.ts = me.ts]
Progressed(n, me) ==
  LET greys == IF me.greys = {} THEN <<>> ELSE <<Msg(me, "grey", me.greys, 0)>>
      blacks == IF me.blacks = {} THEN <<>> ELSE <<Msg(me, "black", me.blacks, 0)>>
      Out(msgs) == ToAll(n, Silent, msgs)
  IN IF greys \o blacks # <<>> THEN [me |-> [me EXCEPT !.blacks = {}], out |-> Out(greys \o blacks)]
     ELSE IF me.terminating /\ AreWeDone(me)
     THEN [me |-> Finished(me), out |-> Out(<<Msg(me, "report", {}, 0)>>)]
     ELSE [me |-> [me EXCEPT !.terminating = TRUE, !.new = <<>>,
                             !.last = Answers(n, IF me.terminating THEN me.new ELSE <<>>)],
           out |-> Out(<<Msg(me, "request", {}, 0)>>)]

(* startDistGC: the marks are cleared, the roots marked.                   *)
RootsAll(n) == hold[n] \cup Resident(n)
Roots(n) == hold[n]
Started(n) ==
  Progressed(n, Marked([Idle EXCEPT !.seq = g[n].seq + 1, !.active = TRUE, !.ts = 1],
                       Roots(n), Resident(n)))

Live ==
  LET sent == UNION {UNION {{o \in chan[s][n][i].objs : chan[s][n][i].kind = "ref"} : i \in DOMAIN chan[s][n]} : s, n \in Nodes}
  IN Reach(sent \cup UNION {hold[n] : n \in Nodes}, Objects)
Moving == Reach({o \in Objects : at[o] = None}, Objects)
Begins == dead' = IF \A n \in Nodes : g[n].seq = 0 THEN Objects \ (Live \cup Moving) ELSE dead
Sent(n, out) == [chan EXCEPT ![n] = [m \in Nodes |-> @[m] \o out[m]]]
\* finishDistGC: the unmarked objects' OIDs are removed.
Removed(n, me, was) ==
  IF was.active /\ ~me.active THEN lost \cup (Resident(n) \ me.marked) ELSE lost

(* needDistGC, after a collection of a node's old generation.              *)
Start(n) ==
  /\ n \in may.starters /\ g[n].seq = 0
  /\ LET s == Started(n)
     IN g' = [g EXCEPT ![n] = s.me] /\ chan' = Sent(n, s.out)
  /\ Begins /\ UNCHANGED <<at, hold, stub, lost, sends, leaked>>

(* The timer, a quarter of a second after the last progress.               *)
OnTheWay ==
  MapThenFoldSet(LAMBDA a, b : a + b, 0, LAMBDA p : Len(chan[p[1]][p[2]]), LAMBDA S : CHOOSE p \in S : TRUE, Nodes \X Nodes)
Progress(n) ==
  /\ g[n].active /\ OnTheWay <= MaxOut
  /\ LET s == Progressed(n, g[n])
     IN /\ g' = [g EXCEPT ![n] = s.me] /\ chan' = Sent(n, s.out)
        /\ lost' = Removed(n, s.me, g[n])
  /\ UNCHANGED <<at, hold, stub, sends, leaked, dead>>

-----------------------------------------------------------------------------
(* doRequest: the collection starts here, before the message is handled.   *)
Headed(n, m) ==
  IF m.seq > g[n].seq /\ m.active THEN Started(n)
  ELSE [me |-> IF m.seq > g[n].seq THEN [g[n] EXCEPT !.seq = m.seq] ELSE g[n], out |-> Silent]

Arrived(s, n, kinds) == chan[s][n] # <<>> /\ Head(chan[s][n]).kind \in kinds
Taken(s, n, out) == [Sent(n, out) EXCEPT ![s][n] = Tail(@)]

(* handleDistGCInfo: a grey object that is resident here is marked and is  *)
(* told to be black in the next progress; so is a "black" that is not.     *)
Info(me, m, resident) ==
  LET mine == m.objs \cap resident
      mark == IF m.kind = "grey" THEN mine ELSE mine \ me.marked
      m1 == Marked([me EXCEPT !.blacks = @ \cup mark], mark, resident)
  IN IF m.kind = "black" THEN [m1 EXCEPT !.greys = @ \ (m.objs \ mark)] ELSE m1
ReceiveInfo(s, n) ==
  /\ Arrived(s, n, {"grey", "black"})
  /\ LET m == Head(chan[s][n])
         h == Headed(n, m)
     IN /\ h.me.active    \* a late one would start the next collection
        /\ g' = [g EXCEPT ![n] = Info(h.me, m, Resident(n))]
        /\ chan' = Taken(s, n, h.out)
  /\ Begins /\ UNCHANGED <<at, hold, stub, lost, sends, leaked>>
ReceiveLateInfo(s, n) ==
  /\ Arrived(s, n, {"grey", "black"}) /\ ~Headed(n, Head(chan[s][n])).me.active
  /\ chan' = Taken(s, n, Silent)
  /\ UNCHANGED <<at, hold, stub, g, lost, sends, leaked, dead>>

(* handleDistGCDoneRequest, ...Reply, ...Report.                           *)
RepliesAlways(me) == TRUE
Replies(me) == me.greys = {}
ReceiveRequest(s, n) ==
  /\ Arrived(s, n, {"request"})
  /\ LET h == Headed(n, Head(chan[s][n]))
         reply == IF Replies(h.me) THEN <<Msg(h.me, "reply", {}, h.me.ts)>> ELSE <<>>
     IN /\ g' = [g EXCEPT ![n] = h.me]
        /\ chan' = Taken(s, n, [h.out EXCEPT ![s] = @ \o reply])
  /\ Begins /\ UNCHANGED <<at, hold, stub, lost, sends, leaked>>
ReceiveReply(s, n) ==
  /\ Arrived(s, n, {"reply"})
  /\ LET m == Head(chan[s][n])
     IN g' = IF g[n].terminating
             THEN [g EXCEPT ![n].new = [k \in DOMAIN @ \cup {s} |-> IF k = s THEN m.ts ELSE @[k]]] ELSE g
  /\ chan' = Taken(s, n, Silent) /\ UNCHANGED <<at, hold, stub, lost, sends, leaked, dead>>
ReceiveReport(s, n) ==
  /\ Arrived(s, n, {"report"})
  /\ g' = [g EXCEPT ![n] = IF @.active THEN Finished(@) ELSE @]
  /\ lost' = Removed(n, g'[n], g[n])
  /\ chan' = Taken(s, n, Silent) /\ UNCHANGED <<at, hold, stub, sends, leaked, dead>>

-----------------------------------------------------------------------------
(* The program.  A reference is sent as black unless it is grey here, or   *)
(* the sender is in no collection (distGCBitToSend).                       *)
ToSend(n, S) == IF g[n].active THEN Marked(g[n], S, Resident(n)) ELSE g[n]
BlackOf(n, me, S) == IF me.active THEN S \ (me.greys \ Resident(n)) ELSE {}
SendRef(n, m, o) ==
  /\ n # m /\ "ref" \in may.sends /\ sends < MaxSends /\ o \in hold[n]
  /\ LET me == ToSend(n, {o})
     IN /\ g' = [g EXCEPT ![n] = me]
        /\ chan' = [chan EXCEPT ![n][m] = Append(@, Msg(me, "ref", {o}, Cardinality(BlackOf(n, me, {o}))))]
  /\ sends' = sends + 1 /\ UNCHANGED <<at, hold, stub, lost, leaked, dead>>
Drop(n, o) ==
  /\ o \in hold[n] /\ hold' = [hold EXCEPT ![n] = @ \ {o}]
  /\ UNCHANGED <<at, stub, g, chan, lost, sends, leaked, dead>>
(* A collection of the node's own: stubs that nothing refers to go.        *)
LocalGC(n) ==
  LET kept == Reach(hold[n] \cup Resident(n), Resident(n)) \cup g[n].greys \cup g[n].blacks
  IN /\ stub' = [stub EXCEPT ![n] = @ \cap kept] /\ stub' # stub
     /\ g' = [g EXCEPT ![n].marked = @ \cap (kept \cup Resident(n))]
     /\ UNCHANGED <<at, hold, chan, lost, sends, leaked, dead>>

(* ReadTheCheckpointStream, Stub: a new stub is as black as it was sent; a *)
(* reference to a resident object marks it (doDistGCObjects).              *)
ReceiveRef(s, n) ==
  /\ Arrived(s, n, {"ref"})
  /\ LET m == Head(chan[s][n])
         h == Headed(n, m)
         o == CHOOSE x \in m.objs : TRUE
         new == at[o] # n /\ o \notin stub[n]
         me == IF at[o] = n /\ h.me.active
               THEN Marked([h.me EXCEPT !.marked = @ \ {o}], {o}, Resident(n))
               ELSE IF new THEN [h.me EXCEPT !.marked = IF m.ts = 1 THEN @ \cup {o} ELSE @ \ {o}]
               ELSE h.me
     IN /\ g' = [g EXCEPT ![n] = me]
        /\ stub' = IF at[o] = n THEN stub ELSE [stub EXCEPT ![n] = @ \cup {o}]
        /\ hold' = [hold EXCEPT ![n] = @ \cup {o}]
        /\ chan' = Taken(s, n, h.out)
        /\ leaked' = IF m.seq < me.seq THEN leaked \cup {o} ELSE leaked
  /\ Begins /\ UNCHANGED <<at, lost, sends>>

(* An object moves, with its references.                                   *)
Move(n, m, o) ==
  /\ n # m /\ "object" \in may.sends /\ sends < MaxSends /\ at[o] = n /\ o \in Reach(hold[n], Resident(n))
  /\ LET me == ToSend(n, {o})
     IN /\ g' = [g EXCEPT ![n] = me]
        /\ chan' = [chan EXCEPT ![n][m] = Append(@, Msg(me, "object", {o}, 0))]
  /\ at' = [at EXCEPT ![o] = None] /\ stub' = [stub EXCEPT ![n] = @ \cup {o}]
  /\ sends' = sends + 1 /\ UNCHANGED <<hold, lost, leaked, dead>>
ReceiveObject(s, n) ==
  /\ Arrived(s, n, {"object"})
  /\ LET m == Head(chan[s][n])
         h == Headed(n, m)
         o == CHOOSE x \in m.objs : TRUE
         me == IF h.me.active
               THEN [Marked([h.me EXCEPT !.marked = @ \ {o}, !.greys = @ \ {o}], {o}, Resident(n) \cup {o})
                       EXCEPT !.greys = @ \ {o}]
               ELSE h.me
     IN /\ g' = [g EXCEPT ![n] = me]
        /\ at' = [at EXCEPT ![o] = n]
        /\ stub' = [stub EXCEPT ![n] = (@ \ {o}) \cup {p \in Field[o] : at[p] # n}]
        /\ chan' = Taken(s, n, h.out)
        /\ leaked' = IF m.seq < me.seq /\ ~me.active THEN leaked \cup Field[o] ELSE leaked
  /\ Begins /\ UNCHANGED <<hold, lost, sends>>

Step ==
  \/ \E n \in Nodes : Start(n) \/ Progress(n) \/ LocalGC(n)
  \/ \E n \in Nodes, o \in Objects : Drop(n, o) \/ \E m \in Nodes : SendRef(n, m, o) \/ Move(n, m, o)
  \/ \E s, n \in Nodes :
       \/ ReceiveInfo(s, n) \/ ReceiveLateInfo(s, n) \/ ReceiveRequest(s, n) \/ ReceiveReply(s, n)
       \/ ReceiveReport(s, n) \/ ReceiveRef(s, n) \/ ReceiveObject(s, n)
Next == Step /\ UNCHANGED may
Spec == Init /\ [][Next]_vars

-----------------------------------------------------------------------------
(* An object that some node refers to keeps its OID, whatever is sent      *)
(* while the collection runs; but for a reference that was sent by a node  *)
(* outside the collection and arrived inside it or after it.               *)
Early ==
  UNION {UNION {{o \in chan[s][n][i].objs : chan[s][n][i].seq = 0 /\ chan[s][n][i].kind = "ref"}
                : i \in DOMAIN chan[s][n]} : s, n \in Nodes}
ReferredStay == Live \cap lost \subseteq Reach(leaked \cup Early, Objects)

(* Garbage is found, also when it is spread over nodes and circular.       *)
GarbageGoes ==
  (\A n \in Nodes : g[n].seq = 1 /\ ~g[n].active) => {o \in dead : at[o] # None} \subseteq lost
=============================================================================
