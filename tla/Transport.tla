------------------------------ MODULE Transport ------------------------------
(***************************************************************************)
(* The connections between nodes (vm/dist.c) over the callbacks of select  *)
(* (vm/io.c).  A node that sends to another looks for a connection, or     *)
(* makes one and waits, without serving anybody, for the other's epoch; a  *)
(* connection from another is entered by its address first and by its id   *)
(* when that has been read.  Descriptors are used again, lowest first.     *)
(* A callback may serve others inside itself, while the loop that called   *)
(* it still holds the descriptors its own select found ready.              *)
(***************************************************************************)
EXTENDS Naturals, Sequences, FiniteSets, SequencesExt, FiniteSetsExt

CONSTANTS
  Nodes, Flows,   \* the pairs <<n, m>> of nodes such that n sends to m
  MaxFD, MaxSent, MaxCrashes,
  MaxNested,      \* how deep callbacks serve others inside themselves
  None

VARIABLES
  fd,         \* fd[n][f]: descriptor f of n, or None: peer, in, handler, ri
  backlog,    \* the connections n has not accepted, as <<node, descriptor>>
  others, cache,
  local,      \* per call of checkForIO, innermost first: descriptors to call back
  waits,      \* what n waits for in a system call, or None
  alive, failed,   \* nodes that run; nodes whose assertion in checkForIO failed
  sent, got,  \* sent[n][m]: how many messages; got[m][n]: the numbers m got, in order
  forgotten   \* ghost: <<n, m>> where n forgot the connection it made to m
vars == <<fd, backlog, others, cache, local, waits, alive, failed, sent, got, forgotten>>

FDs == 1..MaxFD
Listener == 0
\* ri is the node a handler's messages come from, as far as it is known.
Socket(peer, in, handler, ri) == [peer |-> peer, in |-> in, handler |-> handler, ri |-> ri]
Closed == <<None, 0>>
Epoch(n) == <<"epoch", n>>
Message(k) == <<"message", k>>
\* In a system call on descriptor s: connecting to id, with the entries of
\* another descriptor to remove after that; or with no id, reading.
Waiting(s, id, nuke) == [s |-> s, id |-> id, nuke |-> nuke]
Other(id, s) == [id |-> id, s |-> s]

Data == ({"epoch"} \X Nodes) \cup ({"message"} \X Nat)
Sockets ==
  [peer : (Nodes \X (0..MaxFD)) \cup {Closed}, in : Seq(Data),
   handler : {"none", "stage2", "reader"}, ri : Nodes \cup {None}]
Calls == [s : 0..MaxFD, id : Nodes \cup {None}, nuke : 0..MaxFD]
Entries == [id : Nodes \cup {None}, s : FDs]
ConstantsOK ==
  /\ MaxFD \in Nat /\ None \notin Nodes \cup Sockets \cup Calls \cup Entries
  /\ Flows \subseteq Nodes \X Nodes /\ \A p \in Flows : p[1] # p[2]

Init ==
  /\ fd = [n \in Nodes |-> [f \in FDs |-> None]] /\ backlog = [n \in Nodes |-> <<>>]
  /\ others = [n \in Nodes |-> <<>>] /\ cache = [n \in Nodes |-> None]
  /\ local = [n \in Nodes |-> <<{}>>] /\ waits = [n \in Nodes |-> None]
  /\ alive = Nodes /\ failed = {} /\ forgotten = {}
  /\ sent = [n \in Nodes |-> [m \in Nodes |-> 0]]
  /\ got = [n \in Nodes |-> [m \in Nodes |-> <<>>]]

Open(n) == {f \in FDs : fd[n][f] # None}
Lowest(n) == Min(FDs \ Open(n))
\* All descriptors after n wrote `item' on its descriptor f.
Written(n, f, item) ==
  LET p == fd[n][f].peer
  IN IF p = Closed \/ p[2] = 0 THEN fd
     ELSE [fd EXCEPT ![p[1]][p[2]].in = Append(@, item)]
\* All descriptors after n closed f: the other end finds the end of the data.
Shut(fds, n, f) ==
  LET p == fds[n][f].peer
      here == [fds EXCEPT ![n][f] = None]
  IN IF p = Closed \/ p[2] = 0 THEN here ELSE [here EXCEPT ![p[1]][p[2]].peer = Closed]

-----------------------------------------------------------------------------
(* findsocket: the last one used, the first in the table, or a new one.    *)
LastOther(n, m) ==
  LET At == {i \in DOMAIN others[n] : others[n][i].id = m}
  IN IF At = {} THEN None ELSE others[n][Max(At)]
FirstOther(n, m) ==
  LET At == {i \in DOMAIN others[n] : others[n][i].id = m}
  IN IF At = {} THEN None ELSE others[n][Min(At)]
FindSocket(n, m) ==
  IF cache[n] # None /\ cache[n].id = m THEN cache[n] ELSE FirstOther(n, m)

Free(n) == n \in alive \ failed /\ waits[n] = None
\* A message to a connection whose other end is closed is lost.
Send(n, m) ==
  /\ sent[n][m] < MaxSent
  /\ sent' = [sent EXCEPT ![n][m] = @ + 1]
  /\ LET o == FindSocket(n, m)
     IN \/ /\ o # None
           /\ cache' = [cache EXCEPT ![n] = o]
           /\ fd' = Written(n, o.s, Message(sent'[n][m]))
           /\ UNCHANGED <<backlog, others, waits>>
        \/ /\ o = None /\ m \in alive \ failed /\ Open(n) # FDs
           /\ LET s == Lowest(n)
              IN /\ fd' = [fd EXCEPT ![n][s] = Socket(<<m, 0>>, <<>>, "none", m)]
                 /\ backlog' = [backlog EXCEPT ![m] = Append(@, <<n, s>>)]
                 /\ others' = [others EXCEPT ![n] = Append(@, Other(m, s))]
                 /\ waits' = [waits EXCEPT ![n] = Waiting(s, m, 0)]
           /\ UNCHANGED cache
        \/ o = None /\ m \notin alive \ failed /\ UNCHANGED <<fd, backlog, others, cache, waits>>

(* DSend, from the interpreter or from a handler.                          *)
DSend(n, m) ==
  /\ Free(n) /\ Head(local[n]) = {} /\ Send(n, m)
  /\ UNCHANGED <<local, alive, failed, got, forgotten>>

(* nukeother: every entry with the descriptor goes, those that stay move   *)
(* up, and the last one used goes.                                         *)
NukedKeepsCache(n, s, c) == c
NukedCache(n, s, c) == None
Without(l, s) ==
  LET stay == {i \in DOMAIN l : l[i].s # s}
  IN [to \in 1..Cardinality(stay) |->
       l[CHOOSE from \in stay : Cardinality(stay \cap 1..from) = to]]
Nuked(n, s) == Without(others[n], s)

(* The exchange of epochs ends, and the message goes; or the other is gone.*)
Exchanged(n) ==
  /\ n \in alive \ failed /\ waits[n] # None /\ waits[n].id # None
  /\ LET w == waits[n]
         me == fd[n][w.s]
         Finally(l) == [others EXCEPT ![n] =
           IF w.nuke = 0 THEN l ELSE Without(l, w.nuke)]
     IN \/ /\ me.in # <<>>
           /\ LET f1 == [fd EXCEPT ![n][w.s] = Socket(@.peer, Tail(@.in), "reader", @.ri)]
              IN fd' = IF me.peer = Closed THEN f1
                       ELSE [f1 EXCEPT ![me.peer[1]][me.peer[2]].in = Append(@, Message(sent[n][w.id]))]
           /\ cache' = [cache EXCEPT ![n] = IF w.nuke = 0 THEN Other(w.id, w.s) ELSE None]
           /\ others' = Finally(others[n])
        \/ /\ me.in = <<>> /\ me.peer = Closed
           /\ fd' = Shut(fd, n, w.s)
           /\ others' = Finally(Front(others[n]))
           /\ cache' = IF w.nuke = 0 THEN cache ELSE [cache EXCEPT ![n] = None]
  /\ waits' = [waits EXCEPT ![n] = None]
  /\ UNCHANGED <<backlog, local, alive, failed, sent, got, forgotten>>

-----------------------------------------------------------------------------
(* checkForIO: what is ready, then the callbacks, in the order of the      *)
(* descriptors.                                                            *)
Ready(n) ==
  {f \in Open(n) : fd[n][f].handler # "none" /\ (fd[n][f].in # <<>> \/ fd[n][f].peer = Closed)}
  \cup (IF backlog[n] # <<>> THEN {Listener} ELSE {})
Select(n) ==
  /\ Free(n) /\ Head(local[n]) = {} /\ Ready(n) # {}
  /\ local' = [local EXCEPT ![n] = <<Ready(n)>> \o Tail(@)]
  /\ UNCHANGED <<fd, backlog, others, cache, waits, alive, failed, sent, got, forgotten>>

Calling(n, f) == Free(n) /\ Head(local[n]) # {} /\ f = Min(Head(local[n]))
Called(n, f) == [local EXCEPT ![n] = <<Head(@) \ {f}>> \o Tail(@)]
Handles(n, f, handler) == f \in Open(n) /\ fd[n][f].handler = handler

(* ListenerCB. *)
Accept(n) ==
  /\ Calling(n, Listener) /\ Open(n) # FDs
  /\ local' = Called(n, Listener)
  /\ LET p == Head(backlog[n])
         s == Lowest(n)
         gone == p[1] \notin alive \/ fd[p[1]][p[2]] = None \/ fd[p[1]][p[2]].peer # <<n, 0>>
         mine == Socket(IF gone THEN Closed ELSE p, <<Epoch(p[1])>>, "stage2", None)
     IN /\ backlog[n] # <<>>
        /\ backlog' = [backlog EXCEPT ![n] = Tail(@)]
        /\ fd' = IF gone THEN [fd EXCEPT ![n][s] = mine]
                 ELSE [fd EXCEPT ![n][s] = mine,
                                 ![p[1]][p[2]] = Socket(<<n, s>>, <<Epoch(n)>>, @.handler, @.ri)]
        /\ others' = [others EXCEPT ![n] = Append(@, Other(None, s))]
  /\ UNCHANGED <<cache, waits, alive, failed, sent, got, forgotten>>

(* ListenerStage2: the notice that a node is up may have to wait for       *)
(* objects of that node, and serve others meanwhile.                       *)
Stage2(n, f, nested) ==
  /\ Calling(n, f) /\ Handles(n, f, "stage2") /\ fd[n][f].in # <<>>
  /\ nested => Len(local[n]) <= MaxNested
  /\ local' = [local EXCEPT ![n] = (IF nested THEN <<{}>> ELSE <<>>) \o <<Head(@) \ {f}>> \o Tail(@)]
  /\ LET id == Head(fd[n][f].in)[2]
     IN /\ fd' = [fd EXCEPT ![n][f] = Socket(@.peer, Tail(@.in), "reader", id)]
        /\ others' = [others EXCEPT ![n] = Append(@, Other(id, f))]
  /\ UNCHANGED <<backlog, cache, waits, alive, failed, sent, got, forgotten>>
Return(n) ==
  /\ Free(n) /\ Len(local[n]) > 1 /\ Head(local[n]) = {}
  /\ local' = [local EXCEPT ![n] = Tail(@)]
  /\ UNCHANGED <<fd, backlog, others, cache, waits, alive, failed, sent, got, forgotten>>

(* ReaderCB: a message. *)
Read(n, f) ==
  /\ Calling(n, f) /\ Handles(n, f, "reader") /\ fd[n][f].in # <<>>
  /\ local' = Called(n, f)
  /\ fd' = [fd EXCEPT ![n][f].in = Tail(@)]
  /\ got' = [got EXCEPT ![n][fd[n][f].ri] = Append(@, Head(fd[n][f].in)[2])]
  /\ UNCHANGED <<backlog, others, cache, waits, alive, failed, sent, forgotten>>

(* ReaderCB: the end.  The descriptor is closed, then the notice is given, *)
(* which may send to other nodes, and the entries are removed after that.  *)
ReadEnd(n, f) ==
  /\ Calling(n, f) /\ f \in Open(n) /\ fd[n][f].handler \in {"reader", "stage2"}
  /\ fd[n][f].in = <<>> /\ fd[n][f].peer = Closed
  /\ local' = Called(n, f)
  /\ \/ /\ fd' = Shut(fd, n, f)
        /\ others' = [others EXCEPT ![n] = Nuked(n, f)]
        /\ cache' = [cache EXCEPT ![n] = NukedCache(n, f, @)]
        /\ UNCHANGED <<backlog, waits, sent, forgotten>>
     \/ \E m \in alive \ (failed \cup {n}) :
          /\ fd[n][f].handler = "reader" /\ <<n, m>> \in Flows /\ FindSocket(n, m) = None /\ sent[n][m] < MaxSent
          /\ sent' = [sent EXCEPT ![n][m] = @ + 1]
          /\ LET s == Min((FDs \ Open(n)) \cup {f})
             IN /\ fd' = [Shut(fd, n, f) EXCEPT ![n][s] = Socket(<<m, 0>>, <<>>, "none", m)]
                /\ backlog' = [backlog EXCEPT ![m] = Append(@, <<n, s>>)]
                /\ others' = [others EXCEPT ![n] = Append(@, Other(m, s))]
                /\ waits' = [waits EXCEPT ![n] = Waiting(s, m, f)]
                /\ forgotten' = IF s = f THEN forgotten \cup {<<n, m>>} ELSE forgotten
          /\ UNCHANGED cache
  /\ UNCHANGED <<alive, failed, got>>

(* A callback for a descriptor that has nothing any more: recv waits.      *)
ReadNothing(n, f) ==
  /\ Calling(n, f) /\ f \in Open(n) /\ fd[n][f].handler # "none"
  /\ fd[n][f].in = <<>> /\ fd[n][f].peer # Closed
  /\ waits' = [waits EXCEPT ![n] = Waiting(f, None, 0)]
  /\ UNCHANGED <<fd, backlog, others, cache, local, alive, failed, sent, got, forgotten>>
ReadResumes(n) ==
  /\ n \in alive \ failed /\ waits[n] # None /\ waits[n].id = None
  /\ IF waits[n].s = Listener THEN backlog[n] # <<>>
     ELSE fd[n][waits[n].s].in # <<>> \/ fd[n][waits[n].s].peer = Closed
  /\ waits' = [waits EXCEPT ![n] = None]
  /\ UNCHANGED <<fd, backlog, others, cache, local, alive, failed, sent, got, forgotten>>

(* ... or for one without a handler: the assertion in checkForIO.          *)
NoHandler(n, f) ==
  /\ Calling(n, f) /\ f # Listener /\ (f \in Open(n) => fd[n][f].handler = "none")
  /\ failed' = failed \cup {n}
  /\ UNCHANGED <<fd, backlog, others, cache, local, waits, alive, sent, got, forgotten>>
ListenerEmpty(n) ==
  /\ Calling(n, Listener) /\ backlog[n] = <<>>
  /\ waits' = [waits EXCEPT ![n] = Waiting(Listener, None, 0)]
  /\ UNCHANGED <<fd, backlog, others, cache, local, alive, failed, sent, got, forgotten>>

Crash(n) ==
  /\ n \in alive /\ Cardinality(Nodes \ alive) < MaxCrashes
  /\ alive' = alive \ {n}
  /\ fd' = [m \in Nodes |-> [f \in FDs |->
       IF m = n THEN None
       ELSE IF fd[m][f] # None /\ fd[m][f].peer[1] = n THEN [fd[m][f] EXCEPT !.peer = Closed]
       ELSE fd[m][f]]]
  /\ backlog' = [backlog EXCEPT ![n] = <<>>]
  /\ UNCHANGED <<others, cache, local, waits, failed, sent, got, forgotten>>

Next ==
  \/ \E p \in Flows : DSend(p[1], p[2])
  \/ \E n \in Nodes :
       \/ Exchanged(n) \/ Select(n) \/ Accept(n) \/ ListenerEmpty(n) \/ Return(n) \/ ReadResumes(n) \/ Crash(n)
       \/ \E f \in FDs : \/ Read(n, f) \/ ReadEnd(n, f) \/ ReadNothing(n, f) \/ NoHandler(n, f)
                         \/ \E nested \in BOOLEAN : Stage2(n, f, nested)
Spec == Init /\ [][Next]_vars

-----------------------------------------------------------------------------
(* A message for a node is written to a connection with that node: no      *)
(* entry outlives its descriptor, which another connection may have now.   *)
RightNode ==
  \A n \in alive \ failed : \A o \in ToSet(others[n]) \cup {cache[n]} :
    o # None /\ o.id # None /\ ~(waits[n] # None /\ waits[n].nuke = o.s)
    => o.s \in Open(n) /\ fd[n][o.s].peer[1] \in {o.id, None}

(* Messages from one node arrive at another in the order they were sent,   *)
(* although two that connect to each other at once have two connections:   *)
(* unless the sender's entry was removed with those of the descriptor that *)
(* it has again.                                                           *)
InOrder ==
  \A p \in Flows \ forgotten :
    \A i, j \in DOMAIN got[p[2]][p[1]] : i < j => got[p[2]][p[1]][i] < got[p[2]][p[1]][j]
=============================================================================
