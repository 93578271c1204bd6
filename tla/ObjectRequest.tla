---------------------------- MODULE ObjectRequest ----------------------------
(***************************************************************************)
(* How a node gets an immutable object another node mentions               *)
(* (doObjectRequest, vm/remote.c; ExtractObjects, vm/read.c).  The handler *)
(* that needs it waits by handling other messages inside itself, so that   *)
(* handlers are nested and only the innermost can go on; the reply carries *)
(* the ids of the concrete types that must be here before it can be read,  *)
(* and its handler waits for them in the same way.                         *)
(*                                                                         *)
(* Who sent the message is asked.  It need not have the object: it may     *)
(* have passed the message on unread, or a collection may have taken the   *)
(* object since.  It answers so, and the answer is only traced.            *)
(***************************************************************************)
EXTENDS Naturals, Sequences, FiniteSets, Functions, SequencesExt

CONSTANTS
  Nodes, Objects,
  TypesOf,       \* the concrete types an object's reply names, in order
  Holdings,      \* the objects each node may have at first
  Bounds         \* how many messages mention an object, how many are passed
                 \* on, and how many collections there are

\* An object a node has at first has its concrete types with it.
Kinds == {"Mention", "Forward", "Purge", "Late"}
ConstantsOK ==
  /\ Bounds \in [Kinds -> Nat]
  /\ TypesOf \in [Objects -> Seq(Objects)]
  /\ \A held \in Holdings :
       /\ held \in [Nodes -> SUBSET Objects]
       /\ \A n \in Nodes : \A o \in held[n] : ToSet(TypesOf[o]) \subseteq held[n]

VARIABLES
  has,           \* has[n][o]: how many copies of o node n made, at first 1
  handlers,      \* the handlers of n that have begun, innermost first
  chan,          \* chan[s][n]: what s sent to n
  unknown,       \* what others have told n they do not have, with who did
  used
vars == <<has, handlers, chan, unknown, used>>

\* A handler needs objects, in order, from a node; the handler of a reply
\* then makes its object.
Handler(from, needs, makes) == [from |-> from, needs |-> needs, makes |-> makes, asked |-> FALSE]
Msg(kind, o) == [kind |-> kind, object |-> o]

Here(n, o) == has[n][o] > 0
Top(n) == Head(handlers[n])
Push(n, h) == handlers' = [handlers EXCEPT ![n] = <<h>> \o @]
Waits(n) == handlers[n] # <<>> /\ Top(n).needs # <<>> /\ Top(n).asked

Init ==
  /\ \E held \in Holdings :
       has = [n \in Nodes |-> [o \in Objects |-> IF o \in held[n] THEN 1 ELSE 0]]
  /\ handlers = [n \in Nodes |-> <<>>]
  /\ chan = [s \in Nodes |-> [n \in Nodes |-> <<>>]]
  /\ unknown = [n \in Nodes |-> {}] /\ used = [k \in Kinds |-> 0]

Spend(k) == used[k] < Bounds[k] /\ used' = [used EXCEPT ![k] = @ + 1]

(* A message that mentions an object: an invocation or its reply, a moved  *)
(* object or activation.                                                   *)
Mention(s, n, o) ==
  /\ s # n /\ Here(s, o) /\ handlers[s] = <<>>
  /\ Spend("Mention")
  /\ chan' = [chan EXCEPT ![s][n] = Append(@, Msg("Mention", o))]
  /\ UNCHANGED <<has, handlers, unknown>>

(* processMessages and the main loop.                                      *)
ServingOutside(n) == handlers[n] = <<>>
Serving(n) == handlers[n] # <<>> => Waits(n)

(* purgeObjectTable: what no process here refers to goes, and a type only  *)
(* with all that is of it.  The handlers of mentions hold collections off  *)
(* until they end (anticipateGC), that of a reply does not: while one is   *)
(* read that nobody waits for, a collection may come "Late".               *)
PurgeableTypes(n, gone) == TRUE
Purgeable(n, gone) == \A o \in Objects \ gone : Here(n, o) => ToSet(TypesOf[o]) \cap gone = {}
Purge(n, gone) ==
  /\ Serving(n) /\ \A i \in DOMAIN handlers[n] : handlers[n][i].makes # <<>>
  /\ gone # {} /\ (\A o \in gone : Here(n, o)) /\ Purgeable(n, gone)
  /\ Spend(IF handlers[n] = <<>> THEN "Purge" ELSE "Late")
  /\ has' = [has EXCEPT ![n] = [o \in Objects |-> IF o \in gone THEN 0 ELSE @[o]]]
  /\ UNCHANGED <<handlers, chan, unknown>>

Arrived(s, n, kind) == chan[s][n] # <<>> /\ Head(chan[s][n]).kind = kind
Taken(s, n) == [chan EXCEPT ![s][n] = Tail(@)]

HandleMention(s, n) ==
  /\ Serving(n) /\ Arrived(s, n, "Mention")
  /\ Push(n, Handler(s, <<Head(chan[s][n]).object>>, <<>>))
  /\ chan' = Taken(s, n) /\ UNCHANGED <<has, unknown, used>>

(* forwardMsg: what is invoked is at d; the message is passed on unread.   *)
Forward(s, n, d) ==
  /\ Serving(n) /\ Arrived(s, n, "Mention") /\ d # n
  /\ Spend("Forward")
  /\ chan' = [Taken(s, n) EXCEPT ![n][d] = Append(@, Head(chan[s][n]))]
  /\ UNCHANGED <<has, handlers, unknown>>

(* The status of the reply is whether the object is in the table.          *)
AnswerSwapped(n, o) == Msg(IF Here(n, o) THEN "NotFound" ELSE "ObjectReply", o)
Answer(n, o) == Msg(IF Here(n, o) THEN "ObjectReply" ELSE "NotFound", o)
HandleObjectRequest(s, n) ==
  /\ Serving(n) /\ Arrived(s, n, "ObjectRequest")
  /\ chan' = [Taken(s, n) EXCEPT ![n][s] = Append(@, Answer(n, Head(chan[s][n]).object))]
  /\ UNCHANGED <<has, handlers, unknown, used>>

(* handleObjectReply: an object that is here by now is not read again.     *)
WantedByTop(n, o) == ~Here(n, o) /\ handlers[n] # <<>> /\ Head(Top(n).needs) = o
Wanted(n, o) == ~Here(n, o)
NamedNone(o) == <<>>
Named(o) == TypesOf[o]
HandleObjectReply(s, n) ==
  /\ Serving(n) /\ Arrived(s, n, "ObjectReply")
  /\ LET o == Head(chan[s][n]).object
     IN IF Wanted(n, o) THEN Push(n, Handler(s, Named(o), <<o>>)) ELSE UNCHANGED handlers
  /\ chan' = Taken(s, n) /\ UNCHANGED <<has, unknown, used>>

(* ... with status 0: nobody who waits is told.                            *)
HandleNotFound(s, n) ==
  /\ Serving(n) /\ Arrived(s, n, "NotFound")
  /\ unknown' = [unknown EXCEPT ![n] = @ \cup {<<s, Head(chan[s][n]).object>>}]
  /\ chan' = Taken(s, n) /\ UNCHANGED <<has, handlers, used>>

-----------------------------------------------------------------------------
Going(n) == handlers[n] # <<>>
Replace(n, h) == handlers' = [handlers EXCEPT ![n] = h \o Tail(@)]

(* doObjectRequest: an object that is here is not asked for.               *)
Ask(n) ==
  /\ Going(n) /\ Top(n).needs # <<>> /\ ~Top(n).asked /\ ~Here(n, Head(Top(n).needs))
  /\ Replace(n, <<[Top(n) EXCEPT !.asked = TRUE]>>)
  /\ chan' = [chan EXCEPT ![n][Top(n).from] = Append(@, Msg("ObjectRequest", Head(Top(n).needs)))]
  /\ UNCHANGED <<has, unknown, used>>

Has(n) ==
  /\ Going(n) /\ Top(n).needs # <<>> /\ Here(n, Head(Top(n).needs))
  /\ Replace(n, <<[Top(n) EXCEPT !.needs = Tail(@), !.asked = FALSE]>>)
  /\ UNCHANGED <<has, chan, unknown, used>>

(* ReadTheCheckpointStream: it is read into the object that has the id, if *)
(* one came while the types were waited for.                               *)
CopiesAgain(n, o) == has[n][o] + 1
Copies(n, o) == IF Here(n, o) THEN has[n][o] ELSE 1
Return(n) ==
  /\ Going(n) /\ Top(n).needs = <<>>
  /\ Replace(n, <<>>)
  /\ has' = [has EXCEPT ![n] = [o \in Objects |-> IF o \in ToSet(Top(n).makes) THEN Copies(n, o) ELSE @[o]]]
  /\ UNCHANGED <<chan, unknown, used>>

Handles(s, n) ==
  \/ HandleMention(s, n) \/ HandleObjectRequest(s, n)
  \/ HandleObjectReply(s, n) \/ HandleNotFound(s, n)
Continues(n) == Ask(n) \/ Has(n) \/ Return(n)
Work == (\E s, n \in Nodes : Handles(s, n)) \/ (\E n \in Nodes : Continues(n))
Next ==
  \/ \E s, n \in Nodes, o \in Objects : Mention(s, n, o)
  \/ \E n \in Nodes, gone \in SUBSET Objects : Purge(n, gone)
  \/ \E s, n, d \in Nodes : Forward(s, n, d)
  \/ Work
Spec == Init /\ [][Next]_vars /\ WF_vars(Work)

-----------------------------------------------------------------------------
(* An immutable object is made once on a node, although two replies may be *)
(* read at the same time, one inside the other.                            *)
OneCopy == \A n \in Nodes, o \in Objects : has[n][o] <= 1

(* An object's concrete types are here when it is, unless a collection came*)
(* while a reply was read that nobody waited for.                          *)
Calm == used["Late"] = 0
TypesFirst ==
  Calm => \A n \in Nodes, o \in Objects : Here(n, o) => \A t \in ToSet(TypesOf[o]) : Here(n, t)

(* Nobody waits for a reply that is not on its way: what was asked for is  *)
(* here, or the request, the reply, or the reply's handler is there; or    *)
(* the node that was asked has answered that it does not have it, of which *)
(* the handler is not told (vm/remote.c:793).  A late collection may take  *)
(* what came before it is noticed.                                         *)
AskedIsComing ==
  Calm => \A n \in Nodes : \A i \in DOMAIN handlers[n] : handlers[n][i].asked =>
    LET o == Head(handlers[n][i].needs)
        s == handlers[n][i].from
    IN \/ Here(n, o) \/ Msg("ObjectRequest", o) \in ToSet(chan[n][s])
       \/ Msg("ObjectReply", o) \in ToSet(chan[s][n])
       \/ \E j \in DOMAIN handlers[n] : j < i /\ handlers[n][j].makes = <<o>>
       \/ Msg("NotFound", o) \in ToSet(chan[s][n]) \/ <<s, o>> \in unknown[n]

(* A node is asked for what it has, as long as messages are read where     *)
(* they are sent and nothing that was mentioned is collected.              *)
AskedHaveIt == used["Forward"] = 0 /\ used["Purge"] = 0 /\ Calm => \A n \in Nodes : unknown[n] = {}

(* Handlers end, though they wait inside one another and nodes for each    *)
(* other, but at a node that was told that something is not there, and when*)
(* a late collection took what was waited for.                             *)
HandlersEnd ==
  \A n \in Nodes : handlers[n] # <<>> ~> handlers[n] = <<>> \/ unknown[n] # {} \/ ~Calm
=============================================================================
