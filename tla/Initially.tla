----------------------------- MODULE Initially ------------------------------
(***************************************************************************)
(* The `initially' of one object, and the invocations that find the object *)
(* frozen for it (vm/call.c; CREATE, QUIT and RET in vm/vm.d; findHandler  *)
(* in vm/debug.c).  An object that was loaded from a checkpoint runs its   *)
(* initially on the stack of the process that invokes it first, unless the *)
(* loader runs it; one that is created runs it on its creator's stack.     *)
(* Others that come meanwhile wait in the object's fix queue.              *)
(*                                                                         *)
(* The object stays on its node.  Its monitor is modelled elsewhere        *)
(* (Monitor); here it counts only that a failure may kill the object.      *)
(***************************************************************************)
EXTENDS Naturals, Sequences, Queues

CONSTANTS Proc,
          Starter,    \* the process the loader or the scheduler begins with
          NoProc,
          NoQueue,    \* no entry in fixqueue
          Origins,    \* ways the object comes to be, of AllOrigins
          Fuel        \* bound: invocations and sleeps of each process

AllOrigins == {"lazy", "active", "scheduled", "created"}

(* What the proofs assume of the constants *)
ConstantsOK ==
  /\ Starter \in Proc /\ NoProc \notin Proc /\ NoQueue \notin Seq(Proc)
  /\ Origins \subseteq AllOrigins
  /\ Fuel \in [Proc -> Nat]

VARIABLES frozen,     \* allfrozen: the reasons the object is frozen for
          fixq,       \* fixqueue: who waits for the initially, or NoQueue
          stack,      \* of each process, its frames in the object
          ready, current, asleep,
          dead,       \* processes that ended
          runs,       \* how often the initially was begun
          known,      \* others than the creator have the object
          fuel

vars == <<frozen, fixq, stack, ready, current, asleep, dead, runs, known, fuel>>

Front(s) == SubSeq(s, 1, Len(s) - 1)
Last(s)  == s[Len(s)]
Top(p)   == IF stack[p] = <<>> THEN "outside" ELSE Last(stack[p])

Queued == IF fixq = NoQueue THEN {} ELSE ElementsOf(fixq)
Initialising(p) == "initially" \in ElementsOf(stack[p])

(* An object that is loaded is frozen by findInitiallies: somebody's first
   invocation will run its initially, or tryToInit does before anything else
   runs, or, as it has a process, scheduleProcess has made one ready for it. *)
Init ==
  /\ \E origin \in Origins :
       /\ frozen = IF origin = "created" THEN {} ELSE {"RInitially"}
       /\ fixq = IF origin = "active" THEN <<>> ELSE NoQueue
       /\ stack = [p \in Proc |-> IF p = Starter /\ origin \in {"active", "scheduled"}
                                  THEN <<"initially">> ELSE <<>>]
       /\ current = IF origin = "active" THEN Starter ELSE NoProc
       /\ ready = IF origin = "scheduled" THEN <<Starter>> ELSE <<>>
       /\ asleep = IF origin \in {"active", "scheduled"} THEN Proc \ {Starter} ELSE Proc
       /\ runs = IF origin \in {"active", "scheduled"} THEN 1 ELSE 0
       /\ known = (origin # "created")
  /\ dead = {}
  /\ fuel = Fuel

Burn(p) == fuel[p] > 0 /\ fuel' = [fuel EXCEPT ![p] = @ - 1]
-----------------------------------------------------------------------------
(* The scheduler, as in Monitor *)

Dispatch ==
  /\ current = NoProc /\ ready # <<>>
  /\ current' = Head(ready)
  /\ ready' = Tail(ready)
  /\ UNCHANGED <<frozen, fixq, stack, asleep, dead, runs, known, fuel>>

Block(p) ==
  /\ current = p /\ Burn(p)
  /\ current' = NoProc
  /\ asleep' = asleep \cup {p}
  /\ UNCHANGED <<frozen, fixq, stack, ready, dead, runs, known>>

Wake(p) ==
  /\ p \in asleep
  /\ asleep' = asleep \ {p}
  /\ ready' = Append(ready, p)
  /\ UNCHANGED <<frozen, fixq, stack, current, dead, runs, known, fuel>>

QuitProcess(p) ==
  /\ current = p /\ stack[p] = <<>>
  /\ current' = NoProc
  /\ dead' = dead \cup {p}
  /\ UNCHANGED <<frozen, fixq, stack, ready, asleep, runs, known, fuel>>
-----------------------------------------------------------------------------
(* p goes on in its first k frames, where a handler took its failure; with no
   handler, it ends. *)
Unwound(p, k) ==
  /\ stack' = [stack EXCEPT ![p] = SubSeq(@, 1, k)]
  /\ \/ UNCHANGED <<current, dead>>
     \/ k = 0 /\ current' = NoProc /\ dead' = dead \cup {p}

(* CREATE; the object is frozen, and has no fix queue. *)
Create(p) ==
  /\ current = p /\ ~known /\ runs = 0
  /\ stack' = [stack EXCEPT ![p] = <<"initially">>]
  /\ frozen' = {"RInitially"}
  /\ runs' = 1
  /\ UNCHANGED <<fixq, ready, current, asleep, dead, known, fuel>>

(* The initially hands the object out. *)
Publish(p) ==
  /\ current = p /\ Top(p) = "initially" /\ ~known
  /\ known' = TRUE
  /\ UNCHANGED <<frozen, fixq, stack, ready, current, asleep, dead, runs, fuel>>

InvokePassing(p, direct) ==   \* mutant: who finds a fix queue does not wait in it
  /\ current = p /\ Burn(p)
  /\ known \/ Initialising(p)
  /\ direct => stack[p] # <<>>
  /\ "RDead" \notin frozen
  /\ \/ /\ frozen = {} \/ direct \/ fixq # NoQueue
        /\ stack' = [stack EXCEPT ![p] = Append(@, "op")]
        /\ UNCHANGED <<fixq, runs>>
     \/ /\ frozen = {"RInitially"} /\ ~direct /\ fixq = NoQueue
        /\ fixq' = <<>>
        /\ stack' = [stack EXCEPT ![p] = @ \o <<"op", "initially">>]
        /\ runs' = runs + 1
  /\ UNCHANGED <<frozen, ready, current, asleep, dead, known>>

(* invoke and invokefrozen.  direct: from a frame of the object itself, and not
   from another object. *)
Invoke(p, direct) ==
  /\ current = p /\ Burn(p)
  /\ known \/ Initialising(p)
  /\ direct => stack[p] # <<>>
  /\ \/ /\ "RDead" \in frozen
        /\ \E k \in 0..Len(stack[p]) : Unwound(p, k)
        /\ UNCHANGED <<fixq, runs>>
     \/ /\ frozen = {} \/ (frozen = {"RInitially"} /\ direct)
        /\ stack' = [stack EXCEPT ![p] = Append(@, "op")]
        /\ UNCHANGED <<fixq, current, dead, runs>>
     \/ /\ frozen = {"RInitially"} /\ ~direct /\ fixq = NoQueue
        /\ fixq' = <<>>
        /\ stack' = [stack EXCEPT ![p] = @ \o <<"op", "initially">>]
        /\ runs' = runs + 1
        /\ UNCHANGED <<current, dead>>
     \/ /\ frozen = {"RInitially"} /\ ~direct /\ fixq # NoQueue
        /\ fixq' = Append(fixq, p)
        /\ stack' = [stack EXCEPT ![p] = Append(@, "op")]
        /\ current' = NoProc
        /\ UNCHANGED <<dead, runs>>
  /\ UNCHANGED <<frozen, ready, asleep, known>>

QuitWithoutThaw(p) ==       \* mutant: the fix queue is left as it is
  /\ current = p /\ Top(p) = "initially"
  /\ stack' = [stack EXCEPT ![p] = Front(@)]
  /\ frozen' = frozen \ {"RInitially"}
  /\ UNCHANGED <<fixq, ready, current, asleep, dead, runs, known, fuel>>

QuitTwice(p) ==             \* mutant: the queue is not destroyed when it is served
  /\ current = p /\ Top(p) = "initially"
  /\ stack' = [stack EXCEPT ![p] = Front(@)]
  /\ frozen' = frozen \ {"RInitially"}
  /\ ready' = IF frozen' = {} /\ fixq # NoQueue THEN ready \o fixq ELSE ready
  /\ UNCHANGED <<fixq, current, asleep, dead, runs, known, fuel>>

(* QUIT, with thaw and finishedFixing: those who waited are made ready, unless
   the object is frozen for another reason as well. *)
Quit(p) ==
  /\ current = p /\ Top(p) = "initially"
  /\ stack' = [stack EXCEPT ![p] = Front(@)]
  /\ frozen' = frozen \ {"RInitially"}
  /\ \/ frozen' = {} /\ fixq # NoQueue /\ ready' = ready \o fixq /\ fixq' = NoQueue
     \/ (frozen' # {} \/ fixq = NoQueue) /\ UNCHANGED <<ready, fixq>>
  /\ UNCHANGED <<current, asleep, dead, runs, known, fuel>>

(* RET; into a frame of the broken object, a failure *)
Return(p) ==
  /\ current = p /\ Top(p) = "op"
  /\ \/ stack' = [stack EXCEPT ![p] = Front(@)] /\ UNCHANGED <<current, dead>>
     \/ /\ "RDead" \in frozen
        /\ \E k \in 0..(Len(stack[p]) - 2) : Unwound(p, k)
  /\ UNCHANGED <<frozen, fixq, ready, asleep, runs, known, fuel>>

(* A failure in the object that its top frame does not handle.  findHandler
   breaks the object if it passes an operation that is an entry of its monitor;
   an initially is none. *)
Fail(p) ==
  /\ current = p
  /\ \E k \in 0..(Len(stack[p]) - 1) :
       /\ Unwound(p, k)
       /\ \/ UNCHANGED frozen
          \/ /\ \E i \in (k + 1)..Len(stack[p]) : stack[p][i] = "op"
             /\ frozen' = frozen \cup {"RDead"}
  /\ UNCHANGED <<fixq, ready, asleep, runs, known, fuel>>

Next ==
  \/ Dispatch
  \/ \E p \in Proc :
       \/ Block(p) \/ Wake(p) \/ QuitProcess(p)
       \/ Create(p) \/ Publish(p)
       \/ \E direct \in BOOLEAN : Invoke(p, direct)
       \/ Quit(p) \/ Return(p) \/ Fail(p)

Spec == Init /\ [][Next]_vars

(* The main loop keeps turning and sleeps end. *)
FairSpec == Spec /\ WF_vars(Next)
-----------------------------------------------------------------------------
TypeOK ==
  /\ frozen \subseteq {"RInitially", "RDead"}
  /\ fixq \in Seq(Proc) \cup {NoQueue}
  /\ stack \in [Proc -> Seq({"op", "initially"})]
  /\ ready \in Seq(Proc)
  /\ current \in Proc \cup {NoProc}
  /\ asleep \subseteq Proc /\ dead \subseteq Proc
  /\ runs \in Nat
  /\ known \in BOOLEAN
  /\ fuel \in [Proc -> Nat]

(* No process gets to an operation while another runs the initially, whatever
   fails and whoever waits; unless the initially is run a second time, which
   InitiallyOnce is about. *)
InitialisedFirst ==
  \A p, q \in Proc :
    p # q /\ Initialising(q) /\ "op" \in ElementsOf(stack[p]) /\ runs = 1
      => p \in Queued

(* A process is in one place, once: no switch, and no release of those who
   waited for the initially, loses or duplicates one. *)
OnePlace ==
  /\ Injective(ready) /\ (fixq # NoQueue => Injective(fixq))
  /\ Disjoint(ElementsOf(ready), Queued \cup asleep \cup dead \cup {current})
  /\ Disjoint(Queued, asleep \cup dead \cup {current})
  /\ Disjoint(asleep, dead \cup {current})
  /\ current \notin dead
  /\ Proc \subseteq ElementsOf(ready) \cup Queued \cup asleep \cup dead \cup {current}

(* The initially failed, or all who could end it wait for its end. *)
Abandoned == "RInitially" \in frozen /\ \A q \in Proc : Initialising(q) => q \in Queued

(* Those who wait for the initially are released, all at once, unless it is
   abandoned or the object breaks: in either case the code leaves the queue as
   it is. *)
FixQueueServed ==
  Queued # {} ~> (Queued = {} \/ Abandoned \/ "RDead" \in frozen)

(* call.c:227-231, of an invocation that meets a frozen object: "run the
   initially (or just wait for it to finish)".  It is run once. *)
InitiallyOnce == runs <= 1
=============================================================================
