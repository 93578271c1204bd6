--------------------------- MODULE AbstractQueue ---------------------------
(***************************************************************************)
(* What the virtual machine expects of a queue: the operations squeue.h    *)
(* promises, on a sequence.  squeue.c (ready queue, monitor and condition  *)
(* queues) and mqueue.c (incoming messages) are shown to implement it.     *)
(***************************************************************************)
EXTENDS Naturals, Sequences

CONSTANTS Value,      \* what is queued: states, or messages
          NoValue     \* the C code's NULL, returned by an empty queue

VARIABLES contents,   \* the queue, front first
          result      \* what the last operation returned

vars == <<contents, result>>

Init == contents = <<>> /\ result = NoValue

(* The sequence without its first occurrence of e. *)
Without(s, e) ==
  LET i == CHOOSE j \in 1..Len(s) : s[j] = e /\ \A k \in 1..(j-1) : s[k] # e
  IN  SubSeq(s, 1, i-1) \o SubSeq(s, i+1, Len(s))

Insert(v) ==
  /\ contents' = Append(contents, v)
  /\ result' = NoValue

InsertFront(v) ==
  /\ contents' = <<v>> \o contents
  /\ result' = NoValue

Remove ==
  \/ /\ contents = <<>>
     /\ result' = NoValue
     /\ UNCHANGED contents
  \/ /\ contents # <<>>
     /\ result' = Head(contents)
     /\ contents' = Tail(contents)

Yank(e) ==
  \/ /\ \E i \in 1..Len(contents) : contents[i] = e
     /\ contents' = Without(contents, e)
     /\ result' = TRUE
  \/ /\ \A i \in 1..Len(contents) : contents[i] # e
     /\ result' = FALSE
     /\ UNCHANGED contents

Next ==
  \/ \E v \in Value : Insert(v) \/ InsertFront(v) \/ Yank(v)
  \/ Remove

Spec == Init /\ [][Next]_vars
=============================================================================
