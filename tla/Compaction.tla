----------------------------- MODULE Compaction -----------------------------
(***************************************************************************)
(* How vm/gc.c compacts the old generation after marking: findBoundary     *)
(* sweeps it for the place where the live objects beyond fit into the      *)
(* holes before, reserving a chunk for each, and moveThemPuppies moves     *)
(* them there.  Addresses and sizes are in words from old_start; the       *)
(* counters of vm/iixsc.c that choose a size are part of the module.       *)
(***************************************************************************)
EXTENDS Integers, Sequences, FiniteSets, FiniteSetsExt, SequencesExt, TLC

CONSTANTS Sizes, MaxObjects

VARIABLES
  objects,    \* the objects of old space, in the order of their addresses
  phase, next, boundary,
  liveSizes,  \* live objects without a place before the boundary, by size
  unplaced,   \* liveObjectsLeft
  hole, holes,
  chunk,      \* the chunk fillUp works on, or NoHole
  free,       \* freeLists: the reserved chunks of each size, last first
  fillers,    \* what recordSize turned into dead objects
  moved       \* the new address of each object that moved, by its index
vars == <<objects, phase, next, boundary, liveSizes, unplaced, hole, holes, chunk,
          free, fillers, moved>>

NoHole == [at |-> 0, size |-> 0]
Layouts == BoundedSeq([size : Sizes, live : BOOLEAN], MaxObjects) \ {<<>>}

At(i) == MapThenSumSet(LAMBDA j : objects[j].size, 1..(i - 1))
Live == {i \in DOMAIN objects : objects[i].live}
WordsNeeded == MapThenSumSet(LAMBDA i : objects[i].size, Live)

Init ==
  /\ objects \in Layouts
  /\ phase = "guess" /\ next = 1 /\ boundary = 0
  /\ liveSizes = [s \in Sizes |-> Cardinality({i \in Live : objects[i].size = s})]
  /\ unplaced = Cardinality(Live)
  /\ hole = NoHole /\ holes = <<>> /\ chunk = NoHole
  /\ free = [s \in Sizes |-> <<>>] /\ fillers = {} /\ moved = <<>>

Bump(size, n) == liveSizes' = [liveSizes EXCEPT ![size] = @ + n]
Widen == hole' = [at |-> IF hole = NoHole THEN At(next) ELSE hole.at,
                  size |-> hole.size + objects[next].size]

(* Step c: to the first guess, live objects stay and holes are collected.  *)
SweepToGuess ==
  /\ phase = "guess" /\ At(next) < WordsNeeded
  /\ next' = next + 1
  /\ IF objects[next].live
       THEN /\ holes' = IF hole = NoHole THEN holes ELSE <<hole>> \o holes
            /\ hole' = NoHole
            /\ Bump(objects[next].size, -1) /\ unplaced' = unplaced - 1
       ELSE Widen /\ UNCHANGED <<holes, liveSizes, unplaced>>
  /\ UNCHANGED <<objects, phase, boundary, chunk, free, fillers, moved>>

(* Step d: the hole that reaches the guess first, then the others.         *)
GuessReached ==
  /\ phase = "guess" /\ At(next) >= WordsNeeded
  /\ phase' = "fill" /\ chunk' = hole /\ hole' = NoHole
  /\ UNCHANGED <<objects, next, boundary, liveSizes, unplaced, holes, free, fillers, moved>>

NextHole ==
  /\ phase = "fill" /\ chunk = NoHole
  /\ IF holes = <<>> THEN phase' = "sweep" /\ UNCHANGED <<chunk, holes>>
     ELSE chunk' = Head(holes) /\ holes' = Tail(holes) /\ UNCHANGED phase
  /\ UNCHANGED <<objects, next, boundary, liveSizes, unplaced, hole, free, fillers, moved>>

(* IIXScSelectSmaller: the size asked for, or the largest that leaves room *)
(* for another object of at least two words; 0 if there is none.           *)
FirstProbeAny(size) == size - 1
FirstProbe(size) == IF size > 10 THEN size \div 2 + 2 ELSE size - 2
SelectSmaller(size) ==
  IF size \in Sizes /\ liveSizes[size] > 0 THEN size
  ELSE Max({0} \cup {s \in Sizes : s <= FirstProbe(size) /\ liveSizes[s] > 0})

(* One round of fillUp: a chunk is reserved for a size, or the rest is      *)
(* wasted.  Where a hole that ended the sweep is filled, the boundary is   *)
(* put before its rest.                                                    *)
FillUp ==
  LET try == SelectSmaller(chunk.size)
      rest == [at |-> chunk.at + try, size |-> chunk.size - try]
      ends == try = 0 \/ rest.size = 0
  IN /\ chunk # NoHole
     /\ IF try > 0
          THEN /\ free' = [free EXCEPT ![try] = <<chunk.at>> \o @]
               /\ Bump(try, -1) /\ unplaced' = unplaced - 1
               /\ UNCHANGED fillers
          ELSE fillers' = fillers \cup {chunk} /\ UNCHANGED <<free, liveSizes, unplaced>>
     /\ chunk' = IF ends THEN NoHole ELSE rest
     /\ IF ~ends \/ phase = "fill" THEN UNCHANGED <<phase, boundary>>
        ELSE IF phase = "fillHole" /\ unplaced' = 0
               THEN phase' = "move" /\ boundary' = rest.at
               ELSE phase' = "sweep" /\ UNCHANGED boundary
     /\ UNCHANGED <<objects, next, hole, holes, moved>>

(* Step e: on until every live object that was passed has stayed and every *)
(* other has a chunk.                                                      *)
SweepEnds ==
  /\ phase = "sweep" /\ unplaced = 0
  /\ phase' = "move" /\ boundary' = At(next)
  /\ UNCHANGED <<objects, next, liveSizes, unplaced, hole, holes, chunk, free, fillers, moved>>

SweepDead ==
  /\ phase = "sweep" /\ unplaced > 0 /\ ~objects[next].live
  /\ Widen /\ next' = next + 1
  /\ UNCHANGED <<objects, phase, boundary, liveSizes, unplaced, holes, chunk, free, fillers, moved>>

SweepHole ==
  /\ phase = "sweep" /\ unplaced > 0 /\ objects[next].live /\ hole # NoHole
  /\ phase' = "fillHole" /\ chunk' = hole /\ hole' = NoHole
  /\ UNCHANGED <<objects, next, boundary, liveSizes, unplaced, holes, free, fillers, moved>>

\* A live object whose size has only objects with a chunk left gives one back.
ReallocateUnfilled(size) ==
  /\ free' = [free EXCEPT ![size] = Tail(@)]
  /\ UNCHANGED <<chunk, phase, liveSizes, unplaced>>
ReallocateKept(size) ==
  /\ chunk' = [at |-> Head(free[size]), size |-> size]
  /\ phase' = "refill" /\ UNCHANGED <<free, liveSizes, unplaced>>
Reallocate(size) ==
  /\ chunk' = [at |-> Head(free[size]), size |-> size]
  /\ free' = [free EXCEPT ![size] = Tail(@)]
  /\ phase' = "refill" /\ UNCHANGED <<liveSizes, unplaced>>
SweepLive ==
  LET size == objects[next].size
  IN /\ phase = "sweep" /\ unplaced > 0 /\ objects[next].live /\ hole = NoHole
     /\ next' = next + 1
     /\ IF liveSizes[size] > 0
          THEN /\ Bump(size, -1) /\ unplaced' = unplaced - 1
               /\ UNCHANGED <<phase, chunk, free>>
          ELSE Reallocate(size)
     /\ UNCHANGED <<objects, boundary, hole, holes, fillers, moved>>

(* moveThemPuppies, in the order in which references are followed.         *)
Beyond == {i \in Live : At(i) >= boundary}
Move(i) ==
  LET size == objects[i].size
  IN /\ phase = "move" /\ i \in Beyond \ DOMAIN moved /\ free[size] # <<>>
     /\ moved' = moved @@ (i :> Head(free[size]))
     /\ free' = [free EXCEPT ![size] = Tail(@)]
     /\ UNCHANGED <<objects, phase, next, boundary, liveSizes, unplaced, hole, holes,
                    chunk, fillers>>

Done == phase = "move" /\ Beyond \subseteq DOMAIN moved
Finished == Done /\ UNCHANGED vars

Next ==
  \/ SweepToGuess \/ GuessReached \/ NextHole \/ FillUp
  \/ SweepEnds \/ SweepDead \/ SweepHole \/ SweepLive
  \/ \E i \in DOMAIN objects : Move(i)
  \/ Finished

Spec == Init /\ [][Next]_vars 

-----------------------------------------------------------------------------
Span(at, size) == at..(at + size - 1)
Place(i) == IF i \in DOMAIN moved THEN moved[i] ELSE At(i)

(* When the sweep has found the boundary, every live object beyond it has  *)
(* a chunk of exactly its size before it, and no chunk is left over.       *)
EveryoneHasAPlace ==
  phase = "move" =>
    \A s \in Sizes :
      Len(free[s]) = Cardinality({i \in Beyond \ DOMAIN moved : objects[i].size = s})

(* After the move, old space can be walked from object to object: each     *)
(* word before the boundary belongs to one live object, to one filler, or  *)
(* to the dead objects of a hole that nobody needed.                       *)
Walkable ==
  Done =>
    LET objs == {<<i, Place(i), objects[i].size>> : i \in Live}
        fill == {<<0, f.at, f.size>> : f \in {g \in fillers : g.at < boundary}}
        rest == IF hole = NoHole THEN {} ELSE {<<0, hole.at, hole.size>>}
        all == objs \cup fill \cup rest
    IN /\ \A x, y \in all : x # y => Span(x[2], x[3]) \cap Span(y[2], y[3]) = {}
       /\ UNION {Span(x[2], x[3]) : x \in all} = 0..(boundary - 1)

(* No hole is cut down to a single word, in which recordSize could put no  *)
(* vector.                                                                 *)
FillersAreVectors == \A f \in fillers : f.size >= 2
=============================================================================
