------------------------------ MODULE MCPlaces -------------------------------
(***************************************************************************)
(* Objects of other nodes: the search for one that moves, while no node    *)
(* dies; and immutable objects that are fetched because a message          *)
(* mentions them.                                                          *)
(***************************************************************************)
EXTENDS MCLocate

VARIABLES
  part,   \* the component that is checked; the variables of the others are off
  has, handlers, chan, unknown, used

\* o's concrete type is t, whose own is built in; p is another of o's type.
MCTypesOf  == "o" :> <<"t">> @@ "p" :> <<"t">> @@ "t" :> <<>>
MCHoldings == { <<{"o", "t"}, {"p", "t"}, {}>>, <<{"o", "t"}, {"o", "p", "t"}, {}>> }
MCBounds == [Mention |-> 2, Forward |-> 1, Purge |-> 1, Late |-> 1]

Requesting == INSTANCE ObjectRequest WITH
  Nodes <- {1, 2, 3}, Objects <- {"o", "p", "t"}, TypesOf <- MCTypesOf,
  Holdings <- MCHoldings, Bounds <- MCBounds

requestVars == <<has, handlers, chan, unknown, used>>
all == <<vars, part, requestVars>>

Off == "off"
MCInit ==
  /\ part \in {"locate", "request"}
  /\ Init
  /\ part = "locate" \/ loc = [n \in Node |-> n1]
  /\ IF part = "request" THEN Requesting!Init
     ELSE has = Off /\ handlers = Off /\ chan = Off /\ unknown = Off /\ used = Off

\* The component that was chosen takes its steps, the others none.
MCNext ==
  /\ UNCHANGED part
  /\ IF part = "locate" THEN Next ELSE UNCHANGED vars
  /\ IF part = "request" THEN Requesting!Next ELSE UNCHANGED requestVars

(* A node serves its messages and notices a broken connection; handlers    *)
(* go on.                                                                  *)
Serves == part = "locate" /\ (\E n, m \in Node : Receive(n, m) \/ NodeDown(n, m))
            /\ UNCHANGED <<part, requestVars>>
Works == part = "request" /\ Requesting!Work /\ UNCHANGED <<vars, part>>
Fairness == WF_all(Serves) /\ WF_all(Works)
MCSpec == MCInit /\ [][MCNext]_all /\ Fairness
-----------------------------------------------------------------------------
(* AnsweredOnce and AggressiveEnds are Locate's, see there.                *)

(* Nobody waits for a reply that is not on its way, unless the node asked  *)
(* has answered that it has it not; and it has it, if no message was passed*)
(* on unread and no collection took the object since; as long as none comes*)
(* while a reply is read nobody waited for. An object fetched is made once,*)
(* although two replies may be read one inside the other, and its types    *)
(* before it.                                                              *)
AskedIsComing ==
  part = "request" => /\ Requesting!AskedIsComing /\ Requesting!AskedHaveIt
                       /\ Requesting!OneCopy /\ Requesting!TypesFirst

(* While all nodes run nested handlers end, nobody waits for everybody, but*)
(* at a node that asked one that did not have the object: its wait is not  *)
(* ended (remote.c:793, 835); nor when a collection takes what came, while *)
(* a reply is read nobody waited for.                                      *)
HandlersEnd ==
  \A n \in {1, 2, 3} :
    (part = "request" /\ handlers[n] # <<>>)
      ~> (part = "request" /\ (handlers[n] = <<>> \/ unknown[n] # {} \/ ~Requesting!Calm))

(* What the proofs about ObjectRequest assume holds of these values.       *)
ASSUME RequestingOK == Requesting!ConstantsOK
=============================================================================
