------------------------------- MODULE SQueue -------------------------------
(***************************************************************************)
(* vm/squeue.c: the growing circular array behind the ready queue, the     *)
(* monitor entry queues, the condition queues and the fix queues.  The     *)
(* elements sit in table[first], table[first+1], ... with one wrap at      *)
(* size; a full table doubles and the part before first moves up.          *)
(***************************************************************************)
EXTENDS Integers, Sequences

CONSTANTS Value,      \* states
          NoValue,    \* NULL
          Junk,       \* what realloc leaves in the new half of the table
          InitSize,   \* the size SQueueCreate allocates (8 in the code)
          MaxCount    \* bound: no insertion when MaxCount elements are queued

ASSUME SizeAssumption == InitSize \in Nat \ {0} /\ MaxCount \in Nat

VARIABLES table, size, first, count, result

vars == <<table, size, first, count, result>>

Wrap(i, n) == i - (IF i >= n THEN n ELSE 0)

(* The queue's abstract value: its count elements from first onwards. *)
Contents == [i \in 1..count |-> table[Wrap(first + i - 1, size)]]

(* SQueueCreate *)
Init ==
  /\ size = InitSize
  /\ count = 0
  /\ first = 0
  /\ table = [i \in 0..(InitSize-1) |-> NoValue]
  /\ result = NoValue

(* The slots before first are where the wrapped elements are: they move to
   the new half, and are cleared. *)
ExpandTable ==
  [i \in 0..(2*size - 1) |->
     IF i < first                     THEN NoValue
     ELSE IF i < size                 THEN table[i]
     ELSE IF i - size < first         THEN table[i - size]
     ELSE Junk]

Full == count >= size

RoomTableUnmoved ==         \* mutant: the wrapped elements stay where they are
  IF Full THEN [i \in 0..(2*size - 1) |-> IF i < size THEN table[i] ELSE Junk]
  ELSE table

(* table and size once both insertions have made room for one element *)
RoomTable == IF Full THEN ExpandTable ELSE table
RoomSize  == IF Full THEN 2 * size ELSE size

Insert(v) ==
  /\ count < MaxCount
  /\ size' = RoomSize
  /\ table' = [RoomTable EXCEPT ![Wrap(first + count, RoomSize)] = v]
  /\ count' = count + 1
  /\ result' = NoValue
  /\ UNCHANGED first

InsertFrontOldSize(v) ==    \* mutant: wraps by the size before the expansion
  LET f == IF first - 1 < 0 THEN first - 1 + size ELSE first - 1 IN
  /\ count < MaxCount
  /\ size' = RoomSize
  /\ first' = f
  /\ table' = [RoomTable EXCEPT ![f] = v]
  /\ count' = count + 1
  /\ result' = NoValue

InsertFront(v) ==
  LET f == IF first - 1 < 0 THEN first - 1 + RoomSize ELSE first - 1 IN
  /\ count < MaxCount
  /\ size' = RoomSize
  /\ first' = f
  /\ table' = [RoomTable EXCEPT ![f] = v]
  /\ count' = count + 1
  /\ result' = NoValue

(* The loop of SQueueYank: the elements after the first match each move one
   slot towards first; the last slot keeps a stale copy. *)
Yank(e) ==
  LET At(i) == table[Wrap(first + i, size)] IN
  \/ \E k \in 0..(count-1) :
       /\ At(k) = e /\ \A j \in 0..(k-1) : At(j) # e
       /\ table' = [s \in 0..(size-1) |->
                      IF \E i \in k..(count-2) : s = Wrap(first + i, size)
                      THEN table[Wrap(s + 1, size)] ELSE table[s]]
       /\ count' = count - 1
       /\ result' = TRUE
       /\ UNCHANGED <<size, first>>
  \/ /\ \A j \in 0..(count-1) : At(j) # e
     /\ result' = FALSE
     /\ UNCHANGED <<table, size, first, count>>

Remove ==
  \/ /\ count <= 0
     /\ result' = NoValue
     /\ UNCHANGED <<table, size, first, count>>
  \/ /\ count > 0
     /\ result' = table[first]
     /\ first' = IF first + 1 >= size THEN 0 ELSE first + 1
     /\ count' = count - 1
     /\ UNCHANGED <<table, size>>

(* Exported by squeue.h, called by nothing: kept out of Next. *)
RemoveBack ==
  \/ /\ count <= 0
     /\ result' = NoValue
     /\ UNCHANGED <<table, size, first, count>>
  \/ /\ count > 0
     /\ result' = table[Wrap(first + count, size)]
     /\ count' = count - 1
     /\ UNCHANGED <<table, size, first>>

Next ==
  \/ \E v \in Value : Insert(v) \/ InsertFront(v) \/ Yank(v)
  \/ Remove

Spec == Init /\ [][Next]_vars
-----------------------------------------------------------------------------
(* The record is well formed: first is a slot, the elements fit in the table,
   and every slot that holds an element holds a state, never NULL or the junk
   realloc left behind. *)
TypeOK ==
  /\ size \in Nat \ {0}
  /\ first \in 0..(size-1)
  /\ count \in 0..size
  /\ DOMAIN table = 0..(size-1)
  /\ \A i \in 0..(count-1) : table[Wrap(first + i, size)] \in Value

(* squeue.c implements the queue of AbstractQueue: whatever the wrap and the
   expansions did to the array, Insert, InsertFront, Yank and Remove act on the
   sequence of the elements from first. *)
Abs == INSTANCE AbstractQueue WITH contents <- Contents

RefinesAbstractQueue == Abs!Spec
=============================================================================
