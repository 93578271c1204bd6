------------------------------- MODULE MQueue -------------------------------
(***************************************************************************)
(* vm/mqueue.c: the FIFO of messages that have arrived on this node and    *)
(* wait for serveRequest.  Unlike squeue.c it keeps both ends, firstfull   *)
(* and firstempty, which are equal when the table is empty and when it is  *)
(* full: only count tells the two apart.                                   *)
(***************************************************************************)
EXTENDS Integers, Sequences

CONSTANTS Value,      \* messages: (node, length, buffer)
          NoValue,
          Junk,       \* what malloc and realloc leave in unused slots
          LogInitSize,\* MQueueCreate allocates 2^LogInitSize slots (16)
          MaxCount    \* bound: no insertion when MaxCount messages wait

(* What any exponent in Nat gives *)
ConstantsOK == 2 ^ LogInitSize \in Nat \ {0}

VARIABLES table, size, firstfull, firstempty, count, result

vars == <<table, size, firstfull, firstempty, count, result>>

(* x & (n - 1) where n is a power of two *)
Mask(x, n) == x % n

Contents == [i \in 1..count |-> table[Mask(firstfull + i - 1, size)]]

(* MQueueCreate *)
Init ==
  /\ size = 2 ^ LogInitSize
  /\ count = 0
  /\ firstfull = 0
  /\ firstempty = 0
  /\ table = [i \in 0..(size-1) |-> Junk]
  /\ result = NoValue

ExpandTable ==
  [i \in 0..(2*size - 1) |->
     IF i < size THEN table[i]
     ELSE IF i - size < firstempty THEN table[i - size] ELSE Junk]

Full == count >= size

(* Insert at firstempty of the table t of n slots *)
PutAt(t, n, empty, m) ==
  /\ table' = [t EXCEPT ![empty] = m]
  /\ size' = n
  /\ firstempty' = Mask(empty + 1, n)
  /\ count' = count + 1
  /\ result' = NoValue
  /\ UNCHANGED firstfull

InsertInPlace(m) ==         \* mutant: firstempty stays put on expansion
  /\ count < MaxCount
  /\ \/ ~Full /\ PutAt(table, size, firstempty, m)
     \/ Full  /\ PutAt(ExpandTable, 2 * size, firstempty, m)

Insert(m) ==
  /\ count < MaxCount
  /\ \/ ~Full /\ PutAt(table, size, firstempty, m)
     \/ Full  /\ PutAt(ExpandTable, 2 * size, firstempty + size, m)

RemoveUnmasked ==           \* mutant: firstfull runs past the table
  /\ count > 0
  /\ result' = table[Mask(firstfull, size)]
  /\ firstfull' = firstfull + 1
  /\ count' = count - 1
  /\ UNCHANGED <<table, size, firstempty>>

(* The callers test MQueueSize first: count > 0 is asserted. *)
Remove ==
  /\ count > 0
  /\ result' = table[firstfull]
  /\ firstfull' = Mask(firstfull + 1, size)
  /\ count' = count - 1
  /\ UNCHANGED <<table, size, firstempty>>

Next == (\E m \in Value : Insert(m)) \/ Remove

Spec == Init /\ [][Next]_vars
-----------------------------------------------------------------------------
(* The two ends and the count agree, so that a full table always has
   firstfull = firstempty, what ExpandTable asserts (mqueue.c:47). *)
Ends ==
  /\ size \in Nat \ {0}
  /\ firstfull \in 0..(size-1)
  /\ count \in 0..size
  /\ firstempty = Mask(firstfull + count, size)
  /\ DOMAIN table = 0..(size-1)
  /\ \A i \in 0..(count-1) : table[Mask(firstfull + i, size)] \in Value

(* The ends agree, and the size stays a power of two, what the mask needs. *)
EndsAgree ==
  /\ size \in {2^k : k \in LogInitSize..(LogInitSize + MaxCount)}
  /\ Ends

(* mqueue.c implements the FIFO of AbstractQueue: messages are served in the
   order they arrived, none lost or repeated by a wrap or an expansion. *)
Abs == INSTANCE AbstractQueue WITH contents <- Contents

RefinesAbstractQueue == Abs!Spec
=============================================================================
