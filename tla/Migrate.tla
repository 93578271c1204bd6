------------------------------- MODULE Migrate ------------------------------
(***************************************************************************)
(* Threads that cross nodes while objects move under them: remote          *)
(* invocation (vm/rinvoke.c), mobility (vm/move.c), the ends and returns   *)
(* of stack segments (vm/call.c), and what both do about dead nodes        *)
(* (vm/remote.c).                                                          *)
(*                                                                         *)
(* A thread is a chain of stack segments, the VM's State, each with an     *)
(* OID.  A segment holds a stack of activations, and its activations move  *)
(* with the objects they run in.  The search for something (vm/locate.c,   *)
(* module Locate) is one step here: it finds where the thing is, or, only  *)
(* when that is nowhere, that it is unavailable.                           *)
(***************************************************************************)
EXTENDS Naturals, Sequences, FiniteSets, FiniteSetsExt, SequencesExt

CONSTANTS Node, Object, Thread,
          Limbo,         \* limbonode: the place of what nobody knows of
          Timer,         \* what a delayed process sleeps on
          Home,          \* where each object is at first
          Start,         \* the object each thread starts in
          MaxDepth,      \* activations in a segment
          Budgets        \* bounds: of each kind of step, how many are taken

VARIABLES node,          \* the tables of each node
          net,           \* net[<<m, n>>]: sent by m, not yet served by n
          alive,
          queued,        \* processes in the monitors and conditions of
                         \* objects, which hold their OIDs when they move
          used, budget   \* steps taken of each kind, and the bounds on them

vars == <<node, net, alive, queued, used, budget>>

NoOID == <<>>
Kinds == {"ops", "moves", "sleeps", "switches", "crashes"}

(* The OID of a segment names its thread, the node that made it, and the
   node's counter. *)
ThreadOf(s) == s[1]
NewOID(v, t) == <<t, v.me, v.next>>
First(t) == <<t, Home[Start[t]], 0>>

Segment(o) == [stack |-> <<o>>, nsoid |-> NoOID, nstoid |-> NoOID, psoid |-> NoOID]

Init ==
  /\ node = [n \in Node |->
       LET mine == {t \in Thread : Home[Start[t]] = n}
           segs == {First(t) : t \in mine}
       IN [me |-> n,
           here |-> {o \in Object : Home[o] = n},      \* RESDNT objects
           fixed |-> {},                               \* fixedMap
           stub |-> [o \in Object |-> IF Home[o] = n THEN Limbo ELSE Home[o]],
           seg |-> [s \in segs |-> Segment(Start[ThreadOf(s)])], \* allProcesses
           at |-> <<>>,                                \* stubs of segments
           ready |-> SetToSeq(segs),
           switch |-> <<>>,      \* <<run, now>>: dispatched as the one, the
                                 \* interpreter has switched to the other
           asleep |-> {},        \* the State pointers timers and searches hold
           seek |-> {},          \* what is searched for, and what waits for it
           down |-> {},
           next |-> 1,
           ended |-> {},
           panic |-> {},
           out |-> <<>>]]
  /\ net = [c \in Node \X Node |-> <<>>]
  /\ alive = Node
  /\ queued = {}
  /\ used = [k \in Kinds |-> 0]
  /\ budget \in Budgets

-----------------------------------------------------------------------------
(* Operations on the tables v of a node. *)

Resident(v, s) == s \in DOMAIN v.seg
Top(v, s) == Last(v.seg[s].stack)
Without(f, x) == [y \in DOMAIN f \ {x} |-> f[y]]
With(f, x, r) == [y \in DOMAIN f \cup {x} |-> IF y = x THEN r ELSE f[y]]
LocOf(v, s) == IF s = NoOID \/ Resident(v, s) THEN v.me
               ELSE IF s \in DOMAIN v.at THEN v.at[s] ELSE Limbo
NodeOrLimbo(v, loc) == IF loc = v.me THEN Limbo ELSE loc     \* updateLocation

Send(v, d, m) == [v EXCEPT !.out = Append(@, <<d, m>>)]
FindAndSendTo(v, x, m) == [v EXCEPT !.seek = @ \cup {<<x, m>>}]
SendMsgTo(v, d, m, x) == IF d \in v.down \cup {v.me, Limbo}
                         THEN FindAndSendTo(v, x, m) ELSE Send(v, d, m)

StateFetch(v, s, loc) ==
  IF Resident(v, s) \/ (s \in DOMAIN v.at /\ loc = Limbo) THEN v
  ELSE [v EXCEPT !.at = With(@, s, NodeOrLimbo(v, loc))]

NewState(v, s, r) == [v EXCEPT !.seg = With(@, s, r), !.at = Without(@, s)]

DependsOnSwapped(v, s, t) ==        \* mutant: the two OIDs are swapped
  IF Resident(v, t) THEN [v EXCEPT !.seg[s].psoid = t, !.seg[t].nsoid = NoOID, !.seg[t].nstoid = s]
  ELSE [v EXCEPT !.seg[s].psoid = t]

DependsOn(v, s, t) ==
  IF Resident(v, t)
  THEN [v EXCEPT !.seg[s].psoid = t, !.seg[t].nsoid = s, !.seg[t].nstoid = NoOID]
  ELSE [v EXCEPT !.seg[s].psoid = t]

Forget(v, s) == [v EXCEPT !.seg[s].nsoid = NoOID, !.seg[s].nstoid = NoOID]

(* tryToFindState aborts when a search still lists the state. *)
DeleteState(v, s) ==
  [v EXCEPT !.seg = Without(@, s),
            !.panic = @ \cup (IF \E w \in v.asleep : w.s = s /\ w.on # Timer
                              THEN {"locate"} ELSE {})]

AddActivationsLoose(v, s, isready) ==      \* mutant: the rest waits for nothing
  LET r == v.seg[s]
      rest == NewOID(v, ThreadOf(s))
      act(prev, loc) == [ready |-> isready, nsoid |-> r.nsoid, nstoid |-> r.nstoid,
                         oid |-> s, prev |-> prev, prevloc |-> loc]
  IN IF Len(r.stack) = 1
     THEN [node |-> DeleteState(v, s), act |-> act(r.psoid, LocOf(v, r.psoid))]
     ELSE [node |-> [v EXCEPT !.next = @ + 1,
                              !.seg = With(Without(@, s), rest, [r EXCEPT !.stack = Front(@)])],
           act |-> act(rest, v.me)]

(* The top activation of s leaves for its object's node; the rest of the
   segment, if any, takes another OID, and every pointer to the State is a
   pointer to the rest. *)
AddActivations(v, s, isready) ==
  LET r == v.seg[s]
      rest == NewOID(v, ThreadOf(s))
      act(prev, loc) == [ready |-> isready, nsoid |-> r.nsoid, nstoid |-> r.nstoid,
                         oid |-> s, prev |-> prev, prevloc |-> loc]
  IN IF Len(r.stack) = 1
     THEN [node |-> DeleteState(v, s), act |-> act(r.psoid, LocOf(v, r.psoid))]
     ELSE [node |->
             [v EXCEPT !.next = @ + 1,
                       !.seg = With(Without(@, s), rest,
                                    [r EXCEPT !.stack = Front(@), !.nsoid = s,
                                              !.nstoid = Last(r.stack)]),
                       !.asleep = {IF w.s = s THEN [w EXCEPT !.s = rest] ELSE w : w \in @}],
           act |-> act(rest, v.me)]

ReturnToForeignObject(v, s) ==
  LET o == Top(v, s)
      a == AddActivations([v EXCEPT !.ready = SelectSeq(@, LAMBDA x : x # s)], s, TRUE)
  IN SendMsgTo(a.node, v.stub[o],
               [kind |-> "InvokeForwardRequest", target |-> o, act |-> a.act], s)

MakeReadyHere(v, s) == [v EXCEPT !.ready = Append(@, s)]   \* mutant: wherever the object is

MakeReady(v, s) == IF Top(v, s) \in v.here THEN [v EXCEPT !.ready = Append(@, s)]
                   ELSE ReturnToForeignObject(v, s)

Woken(v, s) == MakeReady([v EXCEPT !.seg[s].nstoid = NoOID], s)

(* The topmost activation that may catch the failure, if h says it does. *)
Catches(v, s, x) == {k \in DOMAIN v.seg[s].stack : v.seg[s].stack[k] # x}
FindHandler(v, s, x) == [v EXCEPT !.seg[s].stack = SubSeq(@, 1, Max(Catches(v, s, x)))]

RECURSIVE ProcessDone(_, _, _, _)
ProcessDone(v, s, fail, h) ==
  LET p == v.seg[s].psoid
  IN IF p = NoOID
     THEN [DeleteState(v, s) EXCEPT !.ended = @ \cup {ThreadOf(s)}]
     ELSE IF Resident(v, p)
     THEN LET ok == v.seg[p].nsoid = s          \* asserted
              w == DeleteState(Forget([v EXCEPT !.panic = @ \cup (IF ok THEN {} ELSE {"assert"})], p), s)
          IN IF fail = 0 THEN MakeReady(w, p)
             ELSE IF h THEN MakeReady(FindHandler(w, p, Limbo), p)
             ELSE ProcessDone(w, p, fail, h)
     ELSE DeleteState(SendMsgTo(v, LocOf(v, p),
            [kind |-> "InvokeReply", ss |-> p, fail |-> fail], p), s)

(* `failure' or `unavailable' of x, raised in s: unavailable, findHandler. *)
Raise(v, s, fail, x, h) ==
  IF h /\ Catches(v, s, x) # {} THEN MakeReady(FindHandler(v, s, x), s)
  ELSE ProcessDone(v, s, fail, h)

ExtractActivation(v, o, a) ==
  LET w == NewState(v, a.oid, [stack |-> <<o>>, nsoid |-> a.nsoid,
                               nstoid |-> a.nstoid, psoid |-> NoOID])
      x == DependsOn(StateFetch(w, a.prev, a.prevloc), a.oid, a.prev)
      y == IF a.prev = NoOID THEN w
           ELSE IF Resident(x, a.prev) THEN [x EXCEPT !.seg[a.prev].nstoid = o] ELSE x
  IN IF a.ready THEN MakeReady(y, a.oid) ELSE y

(* moveDone: only a mover that is elsewhere learns whether the move failed. *)
MoveDone(v, s, o, fail) ==
  IF Resident(v, s) THEN Woken(v, s)
  ELSE SendMsgTo(v, LocOf(v, s), [kind |-> "MoveReply", ss |-> s,
                 sslocation |-> LocOf(v, s), target |-> o, status |-> fail], s)

FindActivationsIdle(v, o, running) ==      \* mutant: forgets that they were ready
  FoldSeq(LAMBDA s, b :
            LET a == AddActivations([b.node EXCEPT !.ready = SelectSeq(@, LAMBDA x : x # s)],
                                    s, s \in running)
            IN [node |-> a.node, acts |-> Append(b.acts, a.act)],
          [node |-> v, acts |-> <<>>], SetToSeq({s \in DOMAIN v.seg : Top(v, s) = o}))

(* findActivationsInObject: the processes in o go with it, ready if the node
   has them ready or in `running'. *)
FindActivations(v, o, running) ==
  FoldSeq(LAMBDA s, b :
            LET isready == s \in Range(b.node.ready) \cup running
                a == AddActivations([b.node EXCEPT !.ready = SelectSeq(@, LAMBDA x : x # s)],
                                    s, isready)
            IN [node |-> a.node, acts |-> Append(b.acts, a.act)],
          [node |-> v, acts |-> <<>>],
          SetToSeq({s \in DOMAIN v.seg : Top(v, s) = o}))

MoveCopying(v, option, o, d, s, running) ==      \* mutant: does not become a stub
  LET m == [kind |-> "MoveRequest", option |-> option, target |-> o, ss |-> s,
            sslocation |-> LocOf(v, s), acts |-> <<>>]
  IN IF o \in v.here THEN Send(v, d, m) ELSE MoveDone(v, s, o, 1)

(* move: s asks that o go to d.  option: 0 move, 1 fix, 2 refix. *)
Move(v, option, o, d, s, running) ==
  LET self == Resident(v, s) /\ Top(v, s) = o
      ss == IF self THEN NoOID ELSE s
      w == IF Resident(v, s) /\ ~self THEN [v EXCEPT !.seg[s].nstoid = o] ELSE v
      gone == FindActivations([w EXCEPT !.here = @ \ {o}, !.fixed = @ \ {o},
                                        !.stub[o] = NodeOrLimbo(v, d)], o, running)
      m == [kind |-> "MoveRequest", option |-> option, target |-> o, ss |-> ss,
            sslocation |-> LocOf(v, s), acts |-> gone.acts]
  IN IF d \in v.down THEN MoveDone(v, s, o, 1)
     ELSE IF o \in v.here THEN Send(gone.node, d, m)
     ELSE SendMsgTo(w, v.stub[o],
            [kind |-> "Move3rdPartyRequest", option |-> option, target |-> o, to |-> d,
             ss |-> ss, sslocation |-> LocOf(v, s)], o)

IsFixedDone(v, m) ==
  IF Resident(v, m.ss) THEN MakeReady(v, m.ss)
  ELSE SendMsgTo(v, LocOf(v, m.ss), [kind |-> "IsFixedReply", ss |-> m.ss], m.ss)

-----------------------------------------------------------------------------
(* The handlers: message m, read from node src.  h: failures are caught. *)

HandleInvokeRequest(v, m, src) ==
  LET s == m.nsoid
      w == DependsOn(StateFetch(NewState(v, s, Segment(m.target)), m.ss, m.sslocation), s, m.ss)
      d == v.stub[m.target]
  IN IF m.target \in v.here THEN MakeReady(w, s)
     ELSE IF d = src THEN FindAndSendTo(v, m.target, m)
     ELSE SendMsgTo(v, d, m, m.target)

HandleInvokeReply(v, m, h) ==
  IF ~Resident(v, m.ss) THEN FindAndSendTo(v, m.ss, m)
  ELSE IF m.fail > 0 THEN Raise(Forget(v, m.ss), m.ss, m.fail, Limbo, h)
  ELSE MakeReady(Forget(v, m.ss), m.ss)

HandleInvokeForwardRequest(v, m) ==
  IF m.target \in v.here THEN ExtractActivation(v, m.target, m.act)
  ELSE SendMsgTo(v, v.stub[m.target], m, m.target)

HandleMove3rdPartyRequest(v, m) ==
  LET o == m.target
      w == IF m.ss = NoOID THEN v ELSE StateFetch(v, m.ss, m.sslocation)
  IN IF o \notin v.here THEN SendMsgTo(v, v.stub[o], m, o)
     ELSE IF m.to = v.me
          THEN MoveDone([w EXCEPT !.fixed = IF m.option > 0 THEN @ \cup {o} ELSE @],
                        m.ss, o, 0)
     ELSE IF o \in v.fixed /\ m.option # 2 THEN MoveDone(w, m.ss, o, 1)
     ELSE Move(w, m.option, o, m.to, m.ss, {})

HandleMoveRequest(v, m) ==
  LET o == m.target
      w == [v EXCEPT !.here = @ \cup {o}, !.stub[o] = Limbo,
                     !.fixed = IF m.option > 0 THEN @ \cup {o} ELSE @]
      x == FoldSeq(LAMBDA a, b : ExtractActivation(b, o, a), w, m.acts)
      y == StateFetch(x, m.ss, m.sslocation)
  IN IF m.ss = NoOID THEN x
     ELSE IF Resident(y, m.ss) THEN Woken(y, m.ss)
     ELSE SendMsgTo(y, m.sslocation, [kind |-> "MoveReply", ss |-> m.ss,
                    sslocation |-> m.sslocation, target |-> o, status |-> 0], m.ss)

HandleMoveReplyIdle(v, m, src, h) ==      \* mutant: the failure of a mover is not raised
  LET o == m.target
      w == IF o \in v.here THEN v ELSE [v EXCEPT !.stub[o] = NodeOrLimbo(v, src)]
      x == StateFetch(w, m.ss, m.sslocation)
  IN IF ~Resident(x, m.ss) THEN SendMsgTo(x, LocOf(x, m.ss), m, m.ss)
     ELSE IF m.status = 0 THEN Woken(x, m.ss) ELSE [x EXCEPT !.seg[m.ss].nstoid = NoOID]

(* A move that was refused is a failure of the mover, "Move failure". *)
HandleMoveReply(v, m, src, h) ==
  LET o == m.target
      w == IF o \in v.here THEN v ELSE [v EXCEPT !.stub[o] = NodeOrLimbo(v, src)]
      x == StateFetch(w, m.ss, m.sslocation)
  IN IF ~Resident(x, m.ss) THEN SendMsgTo(x, LocOf(x, m.ss), m, m.ss)
     ELSE IF m.status = 0 THEN Woken(x, m.ss)
     ELSE Raise([x EXCEPT !.seg[m.ss].nstoid = NoOID], m.ss, m.status, Limbo, h)

HandleIsFixedRequest(v, m) ==
  IF m.target \in v.here
  THEN IsFixedDone(StateFetch([v EXCEPT !.fixed = IF m.unfix THEN @ \ {m.target} ELSE @],
                              m.ss, m.sslocation), m)
  ELSE SendMsgTo(v, v.stub[m.target], m, m.target)

HandleIsFixedReply(v, m) ==
  IF Resident(v, m.ss) THEN MakeReady(v, m.ss)
  ELSE SendMsgTo(v, LocOf(v, m.ss), m, m.ss)

DoRequest(v, m, src, h) ==
  CASE m.kind = "InvokeRequest" -> HandleInvokeRequest(v, m, src)
    [] m.kind = "InvokeReply" -> HandleInvokeReply(v, m, h)
    [] m.kind = "InvokeForwardRequest" -> HandleInvokeForwardRequest(v, m)
    [] m.kind = "Move3rdPartyRequest" -> HandleMove3rdPartyRequest(v, m)
    [] m.kind = "MoveRequest" -> HandleMoveRequest(v, m)
    [] m.kind = "MoveReply" -> HandleMoveReply(v, m, src, h)
    [] m.kind = "IsFixedRequest" -> HandleIsFixedRequest(v, m)
    [] m.kind = "IsFixedReply" -> HandleIsFixedReply(v, m)
-----------------------------------------------------------------------------
(* Steps. *)

(* Node n's tables become v; what it sent enters the connections, after what
   they held, or is lost to the dead; a node that panicked aborts. *)
Commit(n, v, held) ==
  \E w \in {v} :
    /\ node' = [node EXCEPT ![n] = [w EXCEPT !.out = <<>>]]
    /\ net' = [c \in DOMAIN net |->
         IF c[1] # n THEN held[c] ELSE IF c[2] \notin alive THEN <<>>
         ELSE FoldLeft(LAMBDA q, e : IF e[1] = c[2] THEN Append(q, e[2]) ELSE q, held[c], w.out)]
    /\ alive' = IF w.panic # {} THEN alive \ {n} ELSE alive

Spend(k) == /\ used[k] < budget[k]
            /\ used' = [used EXCEPT ![k] = @ + 1]
            /\ UNCHANGED budget

(* The process the interpreter runs at n, the one it dispatched, and the
   tables without it in the ready queue. *)
Now(n) == IF node[n].switch # <<>> THEN node[n].switch[2] ELSE Head(node[n].ready)
Running(n) == {IF node[n].switch # <<>> THEN node[n].switch[1] ELSE Head(node[n].ready)}
Tables(n) == IF node[n].switch # <<>> THEN [node[n] EXCEPT !.switch = <<>>]
             ELSE [node[n] EXCEPT !.ready = Tail(@)]

Turns(n) == n \in alive /\ (node[n].switch # <<>> \/ node[n].ready # <<>>)
Interprets(n) == Turns(n) /\ Resident(node[n], Now(n))

(* A process that was freed in the ready queue is undefined behaviour. *)
InterpretFreed(n) == /\ Turns(n) /\ ~Resident(node[n], Now(n))
                     /\ Commit(n, [Tables(n) EXCEPT !.panic = {"freed"}], net)
                     /\ UNCHANGED <<queued, used, budget>>

(* A step of the process s running at n that makes the tables v. *)
Runs(n, k, v) == Spend(k) /\ Commit(n, v, net) /\ UNCHANGED queued

(* An invocation of o; s goes on, here or at o's node: invoke, rinvoke. *)
Invoke(n) == \E o \in Object :
  LET s == Now(n) v == Tables(n) nsoid == NewOID(v, ThreadOf(s))
      r == v.seg[s]
      w == [v EXCEPT !.next = @ + 1, !.seg[s].nsoid = nsoid, !.seg[s].nstoid = o]
      m == [kind |-> "InvokeRequest", target |-> o, ss |-> s, sslocation |-> n,
            nsoid |-> nsoid]
  IN /\ Interprets(n)
     /\ IF o \in v.here
        THEN /\ Len(r.stack) < MaxDepth
             /\ Runs(n, "ops", MakeReady([v EXCEPT !.seg[s].stack = Append(@, o)], s))
        ELSE Runs(n, "ops", SendMsgTo(w, v.stub[o], m, o))

(* The stack is full: the activation gets a segment of its own,
   newStackChunk. *)
NewStackChunk(n) ==
  LET s == Now(n) v == Tables(n) q == NewOID(v, ThreadOf(s))
      w == NewState([v EXCEPT !.next = @ + 1, !.seg[s].stack = Front(@)], q,
                    Segment(Top(v, s)))
  IN /\ Interprets(n)
     /\ Len(v.seg[s].stack) > 1
     /\ Runs(n, "ops", MakeReady(DependsOn(w, q, s), q))

(* RET to the activation below; or QUITP, with which a segment ends. *)
Return(n) ==
  LET s == Now(n) v == Tables(n)
  IN /\ Interprets(n)
     /\ Commit(n, IF Len(v.seg[s].stack) > 1
                  THEN MakeReady([v EXCEPT !.seg[s].stack = Front(@)], s)
                  ELSE ProcessDone(v, s, 0, FALSE), net)
     /\ UNCHANGED <<queued, used, budget>>

(* jmove, jfix and jrefix of o to d. *)
JMove(n) == \E o \in Object, d \in Node, option \in 0..2, h \in BOOLEAN :
  LET s == Now(n) v == Tables(n)
  IN /\ Interprets(n)
     /\ Runs(n, "moves",
          IF d = n /\ o \in v.here
          THEN MakeReady([v EXCEPT !.fixed = IF option > 0 THEN @ \cup {o} ELSE @], s)
          ELSE IF option = 0 /\ o \in v.here \cap v.fixed
          THEN Raise(v, s, 1, Limbo, h)
          ELSE Move(v, option, o, d, s, Running(n)))

(* junfix, and the question whether o is fixed. *)
IsFixed(n) == \E o \in Object, unfix \in BOOLEAN :
  LET s == Now(n) v == Tables(n)
      m == [kind |-> "IsFixedRequest", target |-> o, unfix |-> unfix, ss |-> s,
            sslocation |-> n]
  IN /\ Interprets(n)
     /\ Runs(n, "ops",
          IF o \in v.here
          THEN MakeReady([v EXCEPT !.fixed = IF unfix THEN @ \ {o} ELSE @], s)
          ELSE SendMsgTo([v EXCEPT !.seg[s].nstoid = o], v.stub[o], m, o))

(* jlocate of an object that is elsewhere; delay. *)
Sleep(n) == \E on \in Object \cup {Timer} :
  LET s == Now(n) v == [Tables(n) EXCEPT !.asleep = @ \cup {[s |-> Now(n), on |-> on]}]
  IN /\ Interprets(n)
     /\ on \notin v.here
     /\ Runs(n, "sleeps", v)

(* delayCallback; the State it holds may be gone. *)
Wakeup(n) == \E w \in node[n].asleep :
  LET v == [node[n] EXCEPT !.asleep = @ \ {w}]
  IN /\ n \in alive /\ w.on = Timer
     /\ Commit(n, IF Resident(v, w.s) THEN MakeReady(v, w.s) ELSE [v EXCEPT !.panic = {"timer"}],
               net)
     /\ UNCHANGED <<queued, used, budget>>

(* In an object's monitor the process waits, and the interpreter either
   stops or switches to one that waited there: CONDWAIT, CONDSIGNAL. *)
Wait(n) ==
  LET s == Now(n) v == Tables(n)
      here == {q \in queued : Resident(v, q) /\ Top(v, q) = Top(v, s)}
  IN /\ Interprets(n)
     /\ Spend("switches")
     /\ \/ Commit(n, v, net) /\ queued' = queued \cup {s}
        \/ \E q \in here :
             /\ Commit(n, [v EXCEPT !.switch = <<CHOOSE r \in Running(n) : TRUE, q>>], net)
             /\ queued' = (queued \ {q}) \cup {s}

(* serveRequest: only between processes. *)
Receive(n, m) == \E h \in BOOLEAN :
  /\ n \in alive /\ node[n].switch = <<>> /\ net[<<m, n>>] # <<>>
  /\ Commit(n, DoRequest(node[n], Head(net[<<m, n>>]), m, h),
            [net EXCEPT ![<<m, n>>] = Tail(@)])
  /\ UNCHANGED <<queued, used, budget>>

-----------------------------------------------------------------------------
(* The end of a search for x (an object or a segment) at n. *)

Messages == UNION {Range(net[c]) : c \in DOMAIN net}
             \cup UNION {{e[2] : e \in node[n].seek} : n \in alive}
IsHere(m, x) == IF x \in Object THEN x \in node[m].here ELSE Resident(node[m], x)
Holders(x) == {m \in alive : IsHere(m, x)}
Activations == UNION {IF m = NoOID THEN {} ELSE
                      IF m.kind = "MoveRequest" THEN Range(m.acts) ELSE
                      IF m.kind = "InvokeForwardRequest" THEN {m.act} ELSE {} : m \in Messages}
InTransit(x) == IF x \in Object
                THEN \E m \in Messages : m # NoOID /\ m.kind = "MoveRequest" /\ m.target = x
                ELSE \/ \E a \in Activations : a.oid = x
                     \/ \E m \in Messages : m # NoOID /\ m.kind = "InvokeRequest" /\ m.nsoid = x

UnavailableReply(v, m) ==
  IF m # NoOID /\ m.kind = "InvokeRequest" /\ m.sslocation # v.me
  THEN Send(v, m.sslocation, [kind |-> "InvokeReply", ss |-> m.ss, fail |-> 2])
  ELSE v

(* checkForUnavailableInvokes *)
CheckForUnavailableInvokes(v, x, h) ==
  FoldSeq(LAMBDA s, w : IF Resident(w, s) /\ x \in {w.seg[s].nsoid, w.seg[s].nstoid}
                        THEN Raise(Forget(w, s), s, 2, x, h) ELSE w,
          v, SetToSeq(DOMAIN v.seg))

(* locationResolved at n: x is at d, or at n itself, or (Limbo) nowhere. *)
Resolved(v, x, d, h) ==
  LET mine == {w \in v.asleep : w.on = x}
      msgs == {e \in v.seek : e[1] = x}
      a == [v EXCEPT !.asleep = @ \ mine, !.seek = @ \ msgs]
      b == IF d = v.me THEN a
           ELSE IF x \in Object THEN [a EXCEPT !.stub[x] = d] ELSE StateFetch(a, x, d)
      c == IF d = Limbo THEN CheckForUnavailableInvokes(b, x, h) ELSE b
      wake(w, y) == IF ~Resident(y, w.s) THEN y
                    ELSE IF d = Limbo THEN Raise(y, w.s, 2, x, h) ELSE MakeReady(y, w.s)
      reply(e, y) == IF e[2] = NoOID THEN y
                     ELSE IF d = v.me THEN DoRequest(y, e[2], v.me, h)
                     ELSE IF d = Limbo THEN UnavailableReply(y, e[2])
                     ELSE Send(y, d, e[2])
  IN FoldSeq(reply, FoldSeq(wake, c, SetToSeq(mine)), SetToSeq(msgs))

Resolve(n) == \E x \in {e[1] : e \in node[n].seek}
                      \cup ({w.on : w \in node[n].asleep} \ {Timer}) :
  \E d \in Node \cup {Limbo}, h \in BOOLEAN :
    /\ n \in alive /\ node[n].switch = <<>>
    /\ IF d = Limbo THEN Holders(x) = {} /\ ~InTransit(x)
       ELSE d \in Holders(x) \ node[n].down
    /\ Commit(n, Resolved(node[n], x, d, h), net)
    /\ UNCHANGED <<queued, used, budget>>

(* Nodes die, and their connections break: nukeNode, invokeHandleDown. *)
Crash(n) ==
  /\ n \in alive /\ Cardinality(alive) > 1
  /\ Spend("crashes")
  /\ alive' = alive \ {n}
  /\ net' = [c \in DOMAIN net |-> IF c[2] = n THEN <<>> ELSE net[c]]
  /\ UNCHANGED <<node, queued>>

InvokeHandleDownLocal(v) ==      \* mutant: continuations are not looked for
  FoldSeq(LAMBDA s, w : IF Resident(w, s) /\ w.seg[s].nsoid = NoOID /\ w.seg[s].nstoid # NoOID
                        THEN MakeReady(w, s) ELSE w,
          v, SetToSeq(DOMAIN v.seg))

InvokeHandleDown(v) ==
  FoldSeq(LAMBDA s, w :
            IF ~Resident(w, s) THEN w
            ELSE LET r == w.seg[s]
                 IN IF r.nsoid # NoOID
                    THEN IF Resident(w, r.nsoid) THEN w
                         ELSE FindAndSendTo(w, r.nsoid, NoOID)
                    ELSE IF r.nstoid # NoOID THEN MakeReady(w, s) ELSE w,
          v, SetToSeq(DOMAIN v.seg))

NodeDown(n, d) ==
  /\ n \in alive /\ node[n].switch = <<>>
  /\ d \notin alive \cup node[n].down
  /\ Commit(n, InvokeHandleDown([node[n] EXCEPT !.down = @ \cup {d}]),
            [net EXCEPT ![<<d, n>>] = <<>>])
  /\ UNCHANGED <<queued, used, budget>>

Interpret(n) == \/ InterpretFreed(n) \/ Invoke(n) \/ NewStackChunk(n) \/ Return(n) \/ JMove(n)
                \/ IsFixed(n) \/ Sleep(n) \/ Wait(n)

System == \E n \in Node :
  \/ Interpret(n) \/ Wakeup(n) \/ Resolve(n)
  \/ \E m \in Node : Receive(n, m) \/ NodeDown(n, m)

Next == System \/ \E n \in Node : Crash(n)

(* The nodes keep turning their main loops: processes run, messages are
   served, timers fire, searches end, and deaths are noticed. *)
Spec == Init /\ [][Next]_vars /\ WF_vars(System)
-----------------------------------------------------------------------------
(* Properties. *)

TypeOK ==
  /\ alive \subseteq Node
  /\ \A n \in Node : LET v == node[n] IN
       /\ v.me = n /\ v.here \cup v.fixed \subseteq Object
       /\ v.stub \in [Object -> Node \cup {Limbo}]
       /\ \A s \in DOMAIN v.seg : /\ v.seg[s].stack \in Seq(Object) \ {<<>>}
                                  /\ v.seg[s].nstoid \in Object \cup {NoOID}
       /\ v.down \subseteq Node \ {n} /\ v.ended \subseteq Thread /\ v.out = <<>>

(* What will make thread t run: its places in the ready queues, monitors,
   timers and searches, and the messages after which it is ready. *)
Readies(m) == (IF m.kind = "InvokeForwardRequest" THEN {} ELSE {m.ss} \ {NoOID})
              \cup {a.oid : a \in {x \in (IF m.kind = "MoveRequest" THEN Range(m.acts)
                                ELSE IF m.kind = "InvokeForwardRequest" THEN {m.act}
                                ELSE {}) : x.ready}}
Tokens(t) ==
  LET Of(s) == ThreadOf(s) = t
      Carries(m) == m # NoOID /\ \E s \in Readies(m) : Of(s)
  IN UNION {{<<"ready", n, i>> : i \in {j \in DOMAIN node[n].ready : Of(node[n].ready[j])}}
            \cup {<<"now", n, s>> : s \in {x \in IF node[n].switch = <<>> THEN {} ELSE {node[n].switch[2]} : Of(x)}}
            \cup {<<"asleep", n, w>> : w \in {x \in node[n].asleep : Of(x.s)}}
            \cup {<<"seek", n, e>> : e \in {x \in node[n].seek : Carries(x[2])}} : n \in alive}
     \cup UNION {{<<"net", c, i>> : i \in {j \in DOMAIN net[c] : Carries(net[c][j])}} : c \in DOMAIN net}
     \cup {<<"queued", s>> : s \in {x \in queued : Of(x)}}

Ended == UNION {node[n].ended : n \in Node}
Quiet == alive = Node /\ used["sleeps"] = 0 /\ used["switches"] = 0

(* A thread is in one place.  However its objects move while it runs in them,
   calls across them and returns, it is neither lost nor run twice. *)
OneToken == Quiet => \A t \in Thread : Cardinality(Tokens(t)) = IF t \in Ended THEN 0 ELSE 1

(* A call in progress can return: the segment to return to is at one node or
   on its way to one, and waits for a segment. *)
LinksHold == Quiet => \A n \in Node : \A s \in DOMAIN node[n].seg :
  LET p == node[n].seg[s].psoid
  IN p # NoOID => \/ \E m \in Node : Resident(node[m], p) /\ node[m].seg[p].nsoid # NoOID
                  \/ \E a \in Activations : a.oid = p /\ a.nsoid # NoOID

(* An object is at one node, or on its way to one. *)
OneCopy == \A o \in Object :
  Cardinality(Holders(o))
    + Cardinality({m \in Messages : m # NoOID /\ m.kind = "MoveRequest" /\ m.target = o}) <= 1

(* What a node is about to run is in an object it has. *)
ReadyAtHome == Quiet => \A n \in Node : \A s \in Range(node[n].ready) :
  Resident(node[n], s) /\ Top(node[n], s) \in node[n].here

(* A process that is freed is not in the ready queue. *)
ReadyAreAllocated == \A n \in Node : "freed" \notin node[n].panic

(* Every call comes to an end: that of an object that moves, and, if objects
   stay, that of a node that died, unless the caller died with it. *)
Over == \/ used["sleeps"] + used["switches"] > 0
        \/ used["moves"] > 0 /\ alive # Node
        \/ \A t \in Thread : t \in Ended \/ Home[Start[t]] \notin alive
AllEnd == <>Over
=============================================================================
