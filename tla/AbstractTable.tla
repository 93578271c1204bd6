---------------------------- MODULE AbstractTable ----------------------------
(***************************************************************************)
(* What every searchable collection of the virtual machine promises: it is *)
(* a finite map, insertion of a key that exists changes its value, and     *)
(* deletion of one that does not changes nothing.                          *)
(***************************************************************************)
EXTENDS Functions

CONSTANTS Keys, Values
VARIABLE map

Init == map = [k \in {} |-> 0]
Insert(k, v) == map' = [x \in DOMAIN map \cup {k} |-> IF x = k THEN v ELSE map[x]]
Delete(k) == map' = Restrict(map, DOMAIN map \ {k})
\* An object gets another address: the value of the key that has the old one.
Update(old, new) == map' = [k \in DOMAIN map |-> IF map[k] = old THEN new ELSE map[k]]
\* The objects that are the keys get other addresses.
Move(f) == map' = [k \in {f[x] : x \in DOMAIN map} |-> map[CHOOSE x \in DOMAIN map : f[x] = k]]

Changes ==
  \/ \E k \in Keys, v \in Values : Insert(k, v)
  \/ \E k \in Keys : Delete(k)
  \/ \E old, new \in Values : Update(old, new)
  \/ \E f \in Injection(Keys, Keys) : Move(f)
Next == map' # map /\ Changes
Spec == Init /\ [][Next]_map
=============================================================================
