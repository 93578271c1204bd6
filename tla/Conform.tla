------------------------------- MODULE Conform -------------------------------
(***************************************************************************)
(* Type conformity at run time (vm/conform.c): may an object of type a be  *)
(* used where type b is asked for?  Types refer to each other in circles,  *)
(* so that what is being decided is assumed meanwhile, and the answers to  *)
(* whole questions are kept for ever.  A view asks the question and then   *)
(* finds the operations of the one type in the other by their ids          *)
(* (vm/oidtoobj.c).                                                        *)
(***************************************************************************)
EXTENDS Naturals, Sequences, SequencesExt, FiniteSets

CONSTANTS
  Types,          \* the types a program declares
  AnyType, None,  \* the builtins that everything and that nothing conforms to
  Programs,       \* the declarations: functions from Types to type records
  Asked,          \* the pairs of types the program asks about
  NoOp

VARIABLES
  type,           \* the program's types, see MCStore
  conformMap,     \* the answers that are kept
  abCon           \* the operations found for the views that were granted
vars == <<type, conformMap, abCon>>

AllTypes == Types \cup {AnyType, None}
Ops(t) == IF t \in Types THEN type[t].ops ELSE <<>>
Id(op) == <<op.name, Len(op.args)>>
SameName(x, y) == Id(x) = Id(y)
\* The operation of t like op; a type has at most one of a name and arity.
Like(op, t) == SelectInSeq(Ops(t), LAMBDA x : SameName(x, op))

-----------------------------------------------------------------------------
(* What is decided without looking into the operations.                    *)
Yes(a, b) == a = None \/ b = AnyType \/ (b # None /\ a = b)
TooFew(a, b) == Len(Ops(a)) < Len(Ops(b))
No(a, b) ==
  \/ b = None
  \/ type[b].vector /\ ~(a \in Types /\ type[a].vector)
  \/ ~type[b].vector /\ type[b].final
  \/ TooFew(a, b)
  \/ \E i \in DOMAIN Ops(b) :
       Like(Ops(b)[i], a) = 0 \/ (Ops(b)[i].function /\ ~Ops(a)[Like(Ops(b)[i], a)].function)

\* What has to conform besides: arguments the other way round, then results.
ArgumentsSameWay(mine, its) == [k \in DOMAIN mine.args |-> <<mine.args[k], its.args[k]>>]
Arguments(mine, its) == [k \in DOMAIN mine.args |-> <<its.args[k], mine.args[k]>>]
Results(mine, its) == [k \in DOMAIN mine.results |-> <<mine.results[k], its.results[k]>>]
Questions(a, b) ==
  FoldLeft(LAMBDA qs, its :
             LET mine == Ops(a)[Like(its, a)] IN qs \o Arguments(mine, its) \o Results(mine, its),
           <<>>, Ops(b))

\* assumeMap grows along a question; the first "no" ends all of it.
RECURSIVE IConforms(_, _, _)
IConforms(assumed, a, b) ==
  LET Answer(yes) == [yes |-> yes, assumed |-> assumed]
  IN IF <<a, b>> \in DOMAIN conformMap THEN Answer(conformMap[<<a, b>>])
     ELSE IF <<a, b>> \in assumed \/ Yes(a, b) THEN Answer(TRUE)
     ELSE IF No(a, b) THEN Answer(FALSE)
     ELSE FoldLeft(LAMBDA r, q : IF r.yes THEN IConforms(r.assumed, q[1], q[2]) ELSE r,
                   [yes |-> TRUE, assumed |-> assumed \cup {<<a, b>>}], Questions(a, b))

\* Only the question itself, not what came up in it, is kept.
KeptAll(a, b, r) == [p \in r.assumed \cup {<<a, b>>} |-> IF p = <<a, b>> THEN r.yes ELSE TRUE]
Kept(a, b, r) == [p \in {<<a, b>>} |-> r.yes]
Conforms(a, b) ==
  /\ <<a, b>> \notin DOMAIN conformMap
  /\ \E r \in {IConforms({}, a, b)} : conformMap' = conformMap @@ Kept(a, b, r)
  /\ UNCHANGED <<type, abCon>>

-----------------------------------------------------------------------------
(* findAbCon: for each operation of b the one of a with its id.            *)
FindOp(con, op) == IF Like(op, con) = 0 THEN NoOp ELSE Ops(con)[Like(op, con)]
FindAbCon(ab, con) == [i \in DOMAIN Ops(ab) |-> FindOp(con, Ops(ab)[i])]

View(a, b) ==
  /\ <<a, b>> \in DOMAIN conformMap /\ conformMap[<<a, b>>]
  /\ <<a, b>> \notin DOMAIN abCon /\ a \in Types
  /\ abCon' = abCon @@ [p \in {<<a, b>>} |-> FindAbCon(b, a)]
  /\ UNCHANGED <<type, conformMap>>

Init == type \in Programs /\ conformMap = <<>> /\ abCon = <<>>
Next == \E p \in Asked : Conforms(p[1], p[2]) \/ View(p[1], p[2])
Spec == Init /\ [][Next]_vars

-----------------------------------------------------------------------------
(* Conformity without a procedure: the largest relation in which a pair    *)
(* that is not decided outright has all its questions in the relation.     *)
Supported(R, p) ==
  Yes(p[1], p[2]) \/ (~No(p[1], p[2]) /\ ToSet(Questions(p[1], p[2])) \subseteq R)
Largest ==
  LET step[i \in 0..(Cardinality(Types) * Cardinality(Types))] ==
        IF i = 0 THEN AllTypes \X AllTypes
        ELSE CHOOSE S \in {{p \in R : Supported(R, p)} : R \in {step[i - 1]}} : TRUE
  IN step[Cardinality(Types) * Cardinality(Types)]

(* Whatever was asked before, and in whatever circles the types refer to   *)
(* each other, the answer that is kept is the right one (iconforms).       *)
AnswersRight == \E R \in {Largest} : \A p \in DOMAIN conformMap : conformMap[p] <=> p \in R

(* An operation that is called through a view exists, takes what its       *)
(* caller may pass, and is a function where the caller relies on that.     *)
ViewsFindOperations ==
  \A p \in DOMAIN abCon : \A i \in DOMAIN Ops(p[2]) :
    /\ abCon[p][i] # NoOp
    /\ Ops(p[2])[i].function => abCon[p][i].function
    /\ \A k \in DOMAIN Ops(p[2])[i].args :
         <<Ops(p[2])[i].args[k], abCon[p][i].args[k]>> \in Largest
=============================================================================
