------------------------------ MODULE LineTable ------------------------------
(***************************************************************************)
(* The line table of an operation.  The compiler writes it while it        *)
(* generates the code (EC/bytecode.m): where the code of a line ends, and  *)
(* by how much the line number jumps.  The debugger reads it twice, by two *)
(* loops (vm/debug.c): from an offset of the code to a line, to say where  *)
(* a process is, and from a line to an offset, to set a breakpoint.        *)
(***************************************************************************)
EXTENDS Integers, Sequences, FiniteSets, SequencesExt

CONSTANTS MaxLine, MaxCode   \* bounds on the lines and on the bytes of an operation

VARIABLES
  lninfo,                          \* the table: # a line, ; so many bytes, + so many lines
  lastLineNumber, lastLineNumberAt,
  code                             \* for each byte, the line it was generated for
vars == <<lninfo, lastLineNumber, lastLineNumberAt, code>>

Lines == 1..MaxLine
Offsets == 1..Len(code)            \* a byte's offset, counted from 1
None == 0

Is(mark, n) == [mark |-> mark, n |-> n]

Init == lninfo = <<>> /\ lastLineNumber = None /\ lastLineNumberAt = 0 /\ code = <<>>

(* LineNumber, called before the code of line ln is generated.             *)
Jump(from, ln) ==
  IF from < ln THEN <<Is("+", ln - from)>> ELSE IF from > ln THEN <<Is("#", ln)>> ELSE <<>>
\* Mutant: the ; does not count as a step to the next line.
LineNumberKeepsTheLine(ln) ==
  LET difference == Len(code) - lastLineNumberAt
      ended == IF difference > 0 THEN <<Is(";", difference)>> ELSE <<>>
  IN /\ lninfo' = IF lastLineNumber = None THEN <<Is("#", ln)>>
                  ELSE IF ln = lastLineNumber THEN lninfo
                  ELSE lninfo \o ended \o Jump(lastLineNumber, ln)
     /\ lastLineNumber' = ln
     /\ lastLineNumberAt' = IF lastLineNumber = None THEN 0
                            ELSE IF ln = lastLineNumber THEN lastLineNumberAt ELSE Len(code)
     /\ UNCHANGED code
LineNumber(ln) ==
  LET difference == Len(code) - lastLineNumberAt
      ended == IF difference > 0 THEN <<Is(";", difference)>> ELSE <<>>
      next == lastLineNumber + Len(ended)
  IN /\ lninfo' = IF lastLineNumber = None THEN <<Is("#", ln)>>
                  ELSE IF ln = lastLineNumber THEN lninfo
                  ELSE lninfo \o ended \o Jump(next, ln)
     /\ lastLineNumber' = ln
     /\ lastLineNumberAt' = IF lastLineNumber = None THEN 0
                            ELSE IF ln = lastLineNumber THEN lastLineNumberAt ELSE Len(code)
     /\ UNCHANGED code

Generate ==
  /\ lastLineNumber # None /\ Len(code) < MaxCode
  /\ code' = Append(code, lastLineNumber)
  /\ UNCHANGED <<lninfo, lastLineNumber, lastLineNumberAt>>

Next == Generate \/ \E ln \in Lines : Len(lninfo) < 2 * MaxCode /\ LineNumber(ln)

Spec == Init /\ [][Next]_vars

-----------------------------------------------------------------------------
(* The two readers.  Both go through the marks with a line and an offset,  *)
(* the offset the bytes the marks so far account for.                      *)
Read(s, t) ==
  CASE t.mark = "#" -> [s EXCEPT !.number = t.n]
    [] t.mark = "+" -> [s EXCEPT !.number = @ + t.n]
    [] t.mark = ";" -> [number |-> s.number + 1, off |-> s.off + t.n]
Reading == [number |-> Head(lninfo).n, off |-> 0]
\* The states of a reader, each with the number of marks it has read.
After(i) == FoldLeft(Read, Reading, SubSeq(lninfo, 2, i))
Marks == 1..Len(lninfo)

\* The line as it stands before the mark that ends beyond the byte, or at the end.
findLineNumber(offset) ==
  LET beyond == {i \in Marks : i > 1 /\ lninfo[i].mark = ";" /\ After(i).off >= offset}
      before(S) == CHOOSE i \in S : \A j \in S : i <= j
  IN IF beyond = {} THEN After(Len(lninfo)).number ELSE After(before(beyond) - 1).number

\* Mutant: the loop ends with the marks, before the last line is looked at.
doBreakpointIteratorEnds(ln) ==
  LET at == {i \in Marks : i < Len(lninfo) /\ After(i).number = ln}
  IN IF at = {} THEN None ELSE After(CHOOSE i \in at : \A j \in at : i <= j).off + 1
\* The offset at the first time the reader is at the line, None if it never is.
doBreakpointIterator(ln) ==
  LET at == {i \in Marks : After(i).number = ln}
  IN IF at = {} THEN None ELSE After(CHOOSE i \in at : \A j \in at : i <= j).off + 1

-----------------------------------------------------------------------------
TypeOK ==
  /\ \A i \in Marks : lninfo[i].mark \in {"#", ";", "+"} /\ lninfo[i].n \in 1..(MaxLine + MaxCode)
  /\ code \in Seq(Lines) /\ lastLineNumberAt \in 0..Len(code)

(* Any byte of the code is told to be of the line it was generated for:    *)
(* what the first loop (vm/debug.c:34-52) makes of the marks is what the   *)
(* compiler meant by them.                                                 *)
LinesAreTold == \A o \in Offsets : findLineNumber(o) = code[o]

(* A breakpoint on a line that has code is on the first byte of that       *)
(* line's code, if the table never goes back to an earlier line: the       *)
(* second loop stops at a line number it only passes through, on a ; or on *)
(* a line without code, though the code of that line comes later.          *)
GoesOn == \A i \in Marks : i > 1 => lninfo[i].mark # "#"
BreakpointsAreOnLines ==
  GoesOn => \A o \in Offsets :
    (\A p \in Offsets : p < o => code[p] # code[o]) => doBreakpointIterator(code[o]) = o
=============================================================================
