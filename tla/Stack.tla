-------------------------------- MODULE Stack --------------------------------
(***************************************************************************)
(* The stack segments of a process (vm/call.c, vm/vm.d) and what the       *)
(* collector finds in them (vm/misc.c).  A word does not say what it is:   *)
(* locals are described by the operation's template, and what is above     *)
(* them is taken for variables, two words each, over at most one pointer.  *)
(* A collection moves objects, concrete types and code, and every word     *)
(* that refers to them must follow.                                        *)
(***************************************************************************)
EXTENDS Integers, Sequences, FiniteSets, SequencesExt, Functions

CONSTANTS
  StackWords,    \* the words of a segment, less those kept free
  MaxDepth,      \* bounds: the activations of a process, the collections and
  MaxCollections, MaxArea,   \* the words an operation pushes on its locals
  Moves          \* the sets of things a collection may move together

VARIABLES
  place,         \* how often each thing has moved: where it is
  segments,      \* the process's segments; it runs on the last
  collections
vars == <<place, segments, collections>>

(* "C" has objects, "I" integers, "S" is the type of the stub that the     *)
(* bottom activation belongs to.  An operation is named as its code is.    *)
Types == {"C", "I", "S"}
Codes == {"f", "g", "stubProcess"}
Things == {"a", "b", "stub"} \cup Types \cup Codes
HasODP(w) == w.of \in {"C", "S"}
template == [f |-> <<"x", "v", "d">>, g |-> <<>>, stubProcess |-> <<>>]
nargs == [f |-> 1, g |-> 0, stubProcess |-> 0]
nress == [f |-> 1, g |-> 1, stubProcess |-> 0]
SizeOf(b) == IF b = "v" THEN 2 ELSE 1
Locals(t) == FoldLeft(LAMBDA n, b : n + SizeOf(b), 0, template[t])

\* A word: what it is (for the collector: unknown) and where that was.
Word(o) == [of |-> o, at |-> place[o], off |-> 0]
Nil == [of |-> "nil", at |-> 0, off |-> 0]
Number == [of |-> "int", at |-> 7, off |-> 0]
Fp(n) == [of |-> "fp", at |-> n, off |-> 0]
PC(c, n) == [Word(c) EXCEPT !.off = n]
NoFp == -1
Values == {<<Word("a"), Word("C")>>, <<Number, Word("I")>>}
NilVariable == <<Nil, Nil>>

-----------------------------------------------------------------------------
top == Last(segments)
sp(s) == Len(s.stack)
Becomes(s) == segments' = [segments EXCEPT ![Len(segments)] = s] /\ UNCHANGED <<place, collections>>

\* pushAR: the registers are saved, and the called operation's set.
AR(s) == <<s.cp, s.op, Fp(s.fp), s.pc>>
PushAR(s, op, ct, t) ==
  LET st == s.stack \o AR(s)
  IN [s EXCEPT !.stack = st, !.fp = Len(st), !.op = op, !.cp = ct, !.pc = PC(t, 0)]
\* pushBottomAR, on the results and arguments a new segment begins with.
Segment(args, op, ct, pc, results) ==
  LET st == args \o <<Word("S"), Word("stub"), Fp(NoFp), PC("stubProcess", 0)>>
  IN [stack |-> st, fp |-> Len(st), op |-> op, cp |-> ct, pc |-> pc, psnres |-> results]

Init ==
  /\ place = [t \in Things |-> 0] /\ collections = 0
  /\ \E args \in {<<Nil, Nil>> \o v : v \in Values} :
       segments = <<Segment(args, Word("a"), Word("C"), PC("f", 0), 0)>>

-----------------------------------------------------------------------------
(* What an operation does on its own part of the stack.                    *)
Linked == top.pc.off = 1
Area == sp(top) - top.fp - Locals(top.pc.of)
Push(ws) == Linked /\ Area + Len(ws) <= MaxArea /\ Becomes([top EXCEPT !.stack = @ \o ws])
AVariable == <<Word("a"), Word("C")>>
PushVariable == Push(AVariable)
PushPointer == Linked /\ Area = 0 /\ Push(<<Word("b")>>)    \* what an object is made from
PopAll == Linked /\ Area > 0 /\ Becomes([top EXCEPT !.stack = SubSeq(@, 1, sp(top) - Area)])
SetLocals ==
  /\ Linked /\ Locals(top.pc.of) > 0
  /\ Becomes([top EXCEPT !.stack = SubSeq(@, 1, top.fp) \o <<Word("b")>> \o AVariable \o <<Number>>
                                   \o SubSeq(@, top.fp + 5, Len(@))])

\* Every activation has its activation record below it.
depth == FoldLeft(LAMBDA n, s : n + Cardinality({i \in DOMAIN s.stack : s.stack[i].of = "fp"}), 0, segments)

(* An invocation: room for the results, the arguments, and the activation  *)
(* record.  Its first instruction makes room for the locals, in a new      *)
(* segment when this one is full: newStackChunk.                           *)
Invoke(t) ==
  /\ Linked /\ depth < MaxDepth /\ Area + 2 <= MaxArea /\ \E v \in Values :    \* of v, with v
       LET args == IF nargs[t] = 0 THEN <<>> ELSE v
       IN Becomes(PushAR([top EXCEPT !.stack = @ \o NilVariable \o args], v[1], v[2], t))
Fits(s) == sp(s) + Locals(s.pc.of) <= StackWords
LocalsOf(s) == [s EXCEPT !.stack = @ \o [i \in 1..Locals(s.pc.of) |-> Nil], !.pc.off = 1]
Link == ~Linked /\ top.pc.of # "stubProcess" /\ Fits(top) /\ Becomes(LocalsOf(top))
NewStackChunk ==
  /\ ~Linked /\ top.pc.of # "stubProcess" /\ ~Fits(top)
  /\ LET n == 2 * (nargs[top.pc.of] + nress[top.pc.of])
         st == top.stack
         args == SubSeq(st, sp(top) - 4 - n + 1, sp(top) - 4)
         old == [top EXCEPT !.pc = st[sp(top)], !.fp = st[sp(top) - 1].at, !.op = st[sp(top) - 2],
                            !.cp = st[sp(top) - 3],
                            !.stack = SubSeq(st, 1, sp(top) - 4 - 2 * nargs[top.pc.of])]
     IN segments' = Append(Front(segments), old)
                    \o <<LocalsOf(Segment(args, top.op, top.cp, top.pc, nress[top.pc.of]))>>
  /\ UNCHANGED <<place, collections>>

(* RET: the result is stored, the record and the arguments are popped.  At *)
(* the bottom it returns into the stub's process, which ends the segment.  *)
Return ==
  /\ Linked
  /\ LET st == top.stack   n == nargs[top.pc.of]
     IN Becomes([top EXCEPT !.pc = st[top.fp], !.fp = st[top.fp - 1].at, !.op = st[top.fp - 2],
                     !.cp = st[top.fp - 3],
                     !.stack = SubSeq(st, 1, top.fp - 4 - 2 * n - 2) \o AVariable])
ProcessDone ==
  /\ top.pc.of = "stubProcess" /\ Len(segments) > 1
  /\ LET prev == segments[Len(segments) - 1]   n == 2 * top.psnres
         ress == SubSeq(top.stack, sp(top) - n + 1, sp(top))
     IN segments' = Append(SubSeq(segments, 1, Len(segments) - 2),
                           [prev EXCEPT !.stack = SubSeq(@, 1, Len(@) - n) \o ress])
  /\ UNCHANGED <<place, collections>>

-----------------------------------------------------------------------------
(* The collector.  A frame is the state of the walk: where its registers   *)
(* are kept, -1, -2 and -3 for the segment's own.                          *)
TopFrame(s) == [fp |-> s.fp, sp |-> sp(s), pc |-> s.pc, cp |-> s.cp, opAt |-> -1, cpAt |-> -2, pcAt |-> -3]
\* lunwind
HasCaller(s, l) == l.fp >= 4 /\ s.stack[l.fp - 1].at # NoFp /\ s.stack[l.fp - 1].at < l.fp
Caller(s, l) ==
  [fp |-> s.stack[l.fp - 1].at, sp |-> l.fp - 4, pc |-> s.stack[l.fp], cp |-> s.stack[l.fp - 3],
   opAt |-> l.fp - 2, cpAt |-> l.fp - 3, pcAt |-> l.fp]
Frames(s) ==
  LET From[n \in 0..Len(s.stack)] ==    \* the frames up to the n-th
        IF n = 0 THEN <<TopFrame(s)>>
        ELSE LET fs == From[n - 1]
             IN IF Len(fs) = n /\ HasCaller(s, Last(fs)) THEN Append(fs, Caller(s, Last(fs))) ELSE fs
  IN From[Len(s.stack)]

\* What is found: pointers and variables, by where they are.
P(i) == [var |-> FALSE, i |-> i]
V(i) == [var |-> TRUE, i |-> i]
Variables(from, n) == [k \in 1..n |-> V(from + 2 * (k - 1))]
\* findLocals, with the words above the template
AllPairs(p, limit) == Variables(p + 1, (limit - p) \div 2)
Above(p, limit) ==
  IF (limit - p) % 2 = 1 THEN <<P(p + 1)>> \o Variables(p + 2, (limit - p) \div 2)
  ELSE Variables(p + 1, (limit - p) \div 2)
FindLocals(t, base, limit) ==
  LET Step(r, b) == [p |-> r.p + SizeOf(b),
                     found |-> r.found \o CASE b = "x" -> <<P(r.p + 1)>> [] b = "v" -> <<V(r.p + 1)>>
                                            [] OTHER -> <<>>]
      read == FoldLeft(Step, [p |-> base, found |-> <<>>], template[t])
  IN read.found \o Above(read.p, limit)
\* A process that has not begun has no locals yet.
InFrame(l) ==
  (IF HasODP(l.cp) THEN <<P(l.opAt)>> ELSE <<>>) \o <<P(l.cpAt)>>
  \o IF l.sp > 0 /\ l.sp > l.fp
     THEN FindLocals(l.pc.of, IF l.fp = NoFp THEN 0 ELSE l.fp, l.sp) ELSE <<>>
NoBottom(l) == <<>>
BottomIs(l) == IF l.fp > 4 THEN Variables(1, (l.fp - 4) \div 2) ELSE <<>>
FindRootsInStack(s) ==
  LET fs == Frames(s)
  IN FoldLeft(LAMBDA r, l : r \o InFrame(l), <<>>, fs) \o BottomIs(Last(fs))
\* dealWithPC, for the frames: where their pcs are kept
PCsAt(fs) == {fs[i].pcAt : i \in DOMAIN fs}

(* A collection moves the things of m and changes what it finds.           *)
Collect(m) ==
  LET Moved(w) == IF w.of \in m /\ w.at = place[w.of] THEN [w EXCEPT !.at = @ + 1] ELSE w
      At(s, i) == CASE i = -1 -> s.op [] i = -2 -> s.cp [] OTHER -> s.stack[i]
      Of(s) ==
        LET found == ToSet(FindRootsInStack(s))
            ptrs == {r.i : r \in {x \in found : ~x.var}} \cup PCsAt(Frames(s))
                    \cup {r.i + 1 : r \in {x \in found : x.var}}
                    \cup {r.i : r \in {x \in found : x.var /\ HasODP(At(s, x.i + 1))}}
            Now(i, w) == IF i \in ptrs THEN Moved(w) ELSE w
        IN [s EXCEPT !.stack = [i \in DOMAIN @ |-> Now(i, @[i])],
                     !.op = Now(-1, @), !.cp = Now(-2, @), !.pc = Now(-3, @)]
  IN /\ collections < MaxCollections /\ collections' = collections + 1
     /\ place' = [t \in Things |-> place[t] + (IF t \in m THEN 1 ELSE 0)]
     /\ segments' = [i \in DOMAIN segments |-> Of(segments[i])]

\* The process ends, as its operation returns or its last segment does.
Ended == top.pc.of = "stubProcess" /\ Len(segments) = 1 /\ UNCHANGED vars
Next ==
  \/ PushVariable \/ PushPointer \/ PopAll \/ SetLocals \/ (\E t \in {"f", "g"} : Invoke(t))
  \/ Link \/ NewStackChunk \/ Return \/ ProcessDone \/ (\E m \in Moves : Collect(m)) \/ Ended
Spec == Init /\ [][Next]_vars

-----------------------------------------------------------------------------
(* Every word and register that refers to something refers to where it is, *)
(* however many activations and collections ago it was stored; the stub of *)
(* the bottom activation aside, see StubIsCurrent.                         *)
Current(w) == w.of \in Things => w.at = place[w.of]
AllOf(s) == ToSet(s.stack) \cup {s.op, s.cp, s.pc}
Followed == \A i \in DOMAIN segments : \A w \in AllOf(segments[i]) : w.of # "stub" => Current(w)

(* Nothing is found twice, what is taken for a pointer is one, and what is *)
(* taken for a variable's type is a type.                                  *)
FoundForWhatItIs ==
  \A i \in DOMAIN segments :
    LET s == segments[i]   found == FindRootsInStack(s)
        all == FoldLeft(LAMBDA r, x : r \o IF x.var THEN <<x.i, x.i + 1>> ELSE <<x.i>>, <<>>, found)
    IN /\ IsInjective(all)
       /\ \A x \in ToSet(found) :
            IF x.var THEN s.stack[x.i + 1].of \in Types \cup {"nil"}
            ELSE x.i > 0 => s.stack[x.i].of \in Things \cup {"nil"}

(* A segment returns to the stub where the stub is.  It is a root of its   *)
(* own (misc.c, upcallStub), but the words of the bottom activation record *)
(* are not among what is found.                                            *)
StubIsCurrent == \A i \in DOMAIN segments : top.pc.of = "stubProcess" => Current(top.op)
=============================================================================
