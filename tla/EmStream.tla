------------------------------ MODULE EmStream -------------------------------
(***************************************************************************)
(* The streams of Emerald programs (ccalls/emstream/emstream.c): one that  *)
(* is read and one that is written, each with its chain of buffers.  A     *)
(* read that finds no buffer waits in io_read (vm/io.c), which runs the    *)
(* event loop of the machine until the descriptor is readable: other       *)
(* processes run on top of the one that waits, and may use the same        *)
(* stream.                                                                 *)
(***************************************************************************)
EXTENDS Integers, Sequences, FiniteSets, SequencesExt, FiniteSetsExt

CONSTANTS
  Processes,
  Input,            \* the bytes the descriptor will deliver
  Newline,          \* one of them
  BUFBLOCKSIZE,
  Depth,            \* bound on the operations that are under way at once
  MaxPut            \* bound on the bytes put to the other stream

VARIABLES
  ibuf, eof,                \* the stream that is read
  arrived, ended, read,     \* the descriptor: what has come, is that all, what was read of it
  handlers, data_available, \* how many are stacked on the descriptor, and the flag they share
  calls,                    \* the operations under way, a process on top of another
  taken,                    \* the bytes operations have taken
  obuf, isatty, mode,       \* the stream that is written
  put, sent                 \* how many bytes were put, which were written
vars == <<ibuf, eof, arrived, ended, read, handlers, data_available, calls, taken, obuf, isatty, mode, put, sent>>
reading == <<ibuf, eof, arrived, ended, read, handlers, data_available, calls, taken>>
writing == <<obuf, isatty, mode, put, sent>>

Operations == {"streamEos", "streamGetChar", "streamGetString", "streamRawRead"}
Wanted(op) == CASE op = "streamEos" -> {0} [] op = "streamGetChar" -> {1}
                [] op = "streamGetString" -> {Len(Input) + 1}  \* its buffer grows
                [] op = "streamRawRead" -> {2, 3}              \* also streamFillVector, for a line
Bytes == Range(Input)

Init ==
  /\ ibuf = <<>> /\ eof = FALSE /\ arrived = 0 /\ ended = FALSE /\ read = 0
  /\ handlers = 0 /\ data_available = FALSE /\ calls = <<>> /\ taken = <<>>
  /\ obuf = <<>> /\ isatty \in BOOLEAN /\ mode = TRUE /\ put = 0 /\ sent = <<>>

-----------------------------------------------------------------------------
(* The chain of input buffers: the bytes of a buffer from index to max.    *)
Rest(b) == SubSeq(b.buf, b.index + 1, b.max)
Buffered == FlattenSeq([i \in DOMAIN ibuf |-> Rest(ibuf[i])])

Top == Last(calls)
Free == IF calls = <<>> THEN TRUE ELSE Top.waiting      \* may a process run?
Running == calls # <<>> /\ ~Top.waiting
Set(call) == calls' = [calls EXCEPT ![Len(calls)] = call]

Call(p, op, n) ==
  /\ Free /\ Len(calls) < Depth /\ \A i \in DOMAIN calls : calls[i].process # p
  /\ calls' = Append(calls, [process |-> p, op |-> op, want |-> n, got |-> 0, line |-> FALSE, waiting |-> FALSE])
  /\ UNCHANGED <<ibuf, eof, arrived, ended, read, handlers, data_available, taken, writing>>

\* Mutant: the end of the input ends the loop though there is a buffer.
CompleteAtEof == \/ Top.op = "streamEos" /\ (eof \/ ibuf # <<>>)
                 \/ Top.op # "streamEos" /\ (Top.got = Top.want \/ Top.line \/ eof)
Complete ==
  \/ Top.op = "streamEos" /\ (eof \/ ibuf # <<>>)
  \/ Top.op # "streamEos" /\ (Top.got = Top.want \/ Top.line \/ (eof /\ ibuf = <<>>))

\* streamRead: a byte of the first buffer, which is freed with its last byte.
Take ==
  /\ Running /\ ~Complete /\ ibuf # <<>>
  /\ LET b == Head(ibuf)
         c == b.buf[b.index + 1]
     IN /\ ibuf' = IF b.index + 1 = b.max THEN Tail(ibuf) ELSE [ibuf EXCEPT ![1].index = @ + 1]
        /\ taken' = Append(taken, c)
        /\ Set([Top EXCEPT !.got = @ + 1, !.line = Top.op = "streamGetString" /\ c = Newline])
  /\ UNCHANGED <<eof, arrived, ended, read, handlers, data_available, writing>>

\* fillStream calls io_read, which sets a handler, before those of the waits
\* this one is inside of, and waits.
Fill ==
  /\ Running /\ ~Complete /\ ibuf = <<>>
  /\ handlers' = handlers + 1 /\ Set([Top EXCEPT !.waiting = TRUE])
  /\ UNCHANGED <<ibuf, eof, arrived, ended, read, data_available, taken, writing>>

\* checkForIO calls markDataAvailable.
MarkDataAvailable ==
  /\ calls # <<>> /\ Top.waiting /\ handlers > 0 /\ (read < arrived \/ ended)
  /\ data_available' = TRUE
  /\ UNCHANGED <<ibuf, eof, arrived, ended, read, handlers, calls, taken, writing>>

\* Mutant: the buffer goes where there was none when the wait began.
ReadPutsFirst ==
  /\ calls # <<>> /\ Top.waiting /\ data_available
  /\ handlers' = handlers - 1 /\ data_available' = FALSE
  /\ LET n == Min({BUFBLOCKSIZE, arrived - read})
     IN /\ n = 0 => ended
        /\ read' = read + n
        /\ IF n = 0 THEN eof' = TRUE /\ UNCHANGED ibuf
           ELSE /\ ibuf' = <<[index |-> 0, max |-> n, buf |-> SubSeq(Input, read + 1, read + n)]>> \o ibuf
                /\ UNCHANGED eof
  /\ Set([Top EXCEPT !.waiting = FALSE])
  /\ UNCHANGED <<arrived, ended, taken, writing>>
\* Mutant: the flag stays for the wait outside.
ReadLeavesFlag ==
  /\ calls # <<>> /\ Top.waiting /\ data_available
  /\ handlers' = handlers - 1 /\ data_available' = (handlers > 1)
  /\ LET n == Min({BUFBLOCKSIZE, arrived - read})
     IN /\ read' = read + n
        /\ IF n = 0 THEN eof' = TRUE /\ UNCHANGED ibuf
           ELSE /\ ibuf' = Append(ibuf, [index |-> 0, max |-> n, buf |-> SubSeq(Input, read + 1, read + n)])
                /\ UNCHANGED eof
  /\ Set([Top EXCEPT !.waiting = FALSE])
  /\ UNCHANGED <<arrived, ended, taken, writing>>
\* io_read resets its handler, so that the one before it is back, clears the
\* flag and reads; fillStream puts the buffer last.
Read ==
  /\ calls # <<>> /\ Top.waiting /\ data_available
  /\ handlers' = handlers - 1 /\ data_available' = FALSE
  /\ LET n == Min({BUFBLOCKSIZE, arrived - read})
     IN /\ n = 0 => ended
        /\ read' = read + n
        /\ IF n = 0 THEN eof' = TRUE /\ UNCHANGED ibuf
           ELSE /\ ibuf' = Append(ibuf, [index |-> 0, max |-> n, buf |-> SubSeq(Input, read + 1, read + n)])
                /\ UNCHANGED eof
  /\ Set([Top EXCEPT !.waiting = FALSE])
  /\ UNCHANGED <<arrived, ended, taken, writing>>

Return ==
  /\ Running /\ Complete /\ calls' = Front(calls)
  /\ UNCHANGED <<ibuf, eof, arrived, ended, read, handlers, data_available, taken, writing>>

\* A program gives back the byte that was taken last.
StreamUngetChar ==
  /\ Free /\ taken # <<>> /\ \A i \in DOMAIN calls : calls[i].got = 0
  /\ eof' = FALSE /\ taken' = Front(taken)
  /\ ibuf' = IF ibuf # <<>> /\ Head(ibuf).index > 0
             THEN [ibuf EXCEPT ![1].index = @ - 1, ![1].buf[Head(ibuf).index] = Last(taken)]
             ELSE <<[index |-> BUFBLOCKSIZE - 1, max |-> BUFBLOCKSIZE,
                     buf |-> [i \in 1..BUFBLOCKSIZE |-> Last(taken)]]>> \o ibuf
  /\ UNCHANGED <<arrived, ended, read, handlers, data_available, calls, writing>>

Arrive ==
  /\ \/ arrived < Len(Input) /\ arrived' = arrived + 1 /\ UNCHANGED ended
     \/ arrived = Len(Input) /\ ~ended /\ ended' = TRUE /\ UNCHANGED arrived
  /\ UNCHANGED <<ibuf, eof, read, handlers, data_available, calls, taken, writing>>

-----------------------------------------------------------------------------
(* The chain of output buffers.                                            *)
Full(b) == Len(b) = BUFBLOCKSIZE
Blocks(s) == [i \in 1..((Len(s) + BUFBLOCKSIZE - 1) \div BUFBLOCKSIZE) |->
                SubSeq(s, (i - 1) * BUFBLOCKSIZE + 1, Min({i * BUFBLOCKSIZE, Len(s)}))]

\* flushStream: all the buffers, or the full ones at the head.
Flush(bs, all) ==
  LET n == IF all THEN Len(bs) ELSE Max({k \in 0..Len(bs) : \A i \in 1..k : Full(bs[i])})
  IN /\ sent' = sent \o FlattenSeq(SubSeq(bs, 1, n))
     /\ obuf' = SubSeq(bs, n + 1, Len(bs))

\* streamWrite: whether there is a newline is asked of every piece, and the last one's answer stays.
StreamWrite(n, newlines) ==
  /\ Free /\ mode /\ put + n <= MaxPut
  /\ put' = put + n
  /\ LET new == [i \in 1..n |-> put + i]
         bs == Blocks(FlattenSeq(obuf) \o new)
         forceFlush == isatty /\ Range(Last(bs)) \cap newlines # {}
     IN IF forceFlush \/ Full(bs[1]) THEN Flush(bs, forceFlush)
        ELSE obuf' = bs /\ UNCHANGED sent
  /\ UNCHANGED <<reading, isatty, mode>>

StreamFlush == Free /\ mode /\ Flush(obuf, TRUE) /\ UNCHANGED <<reading, isatty, mode, put>>

\* Mutant: what is in the buffers is not written.
StreamCloseForgets ==
  /\ Free /\ mode /\ obuf' = <<>> /\ mode' = FALSE /\ UNCHANGED <<reading, isatty, put, sent>>
StreamClose ==
  /\ Free /\ mode /\ sent' = sent \o FlattenSeq(obuf) /\ obuf' = <<>> /\ mode' = FALSE
  /\ UNCHANGED <<reading, isatty, put>>

StreamOpen ==
  /\ Free /\ ~mode /\ mode' = TRUE /\ obuf' = <<>> /\ isatty' \in BOOLEAN /\ UNCHANGED <<reading, put, sent>>

-----------------------------------------------------------------------------
Next == \/ \E p \in Processes, op \in Operations : \E n \in Wanted(op) : Call(p, op, n)
        \/ Take \/ Fill \/ MarkDataAvailable \/ Read \/ Return \/ StreamUngetChar \/ Arrive
        \/ \E n \in 1..3 : \E newlines \in {{}, {put + n}} : StreamWrite(n, newlines)
        \/ StreamFlush \/ StreamClose \/ StreamOpen

Spec == Init /\ [][Next]_vars

-----------------------------------------------------------------------------
(* Whatever processes read, give back and wait for in between, the bytes   *)
(* that were taken and the ones in the buffers are what was read of the    *)
(* descriptor, in order (emstream.c:188-203, 245-268, 305-312).            *)
InputInOrder == taken \o Buffered = SubSeq(Input, 1, read)

(* An operation that takes nothing because the stream is at its end has    *)
(* seen the whole input go, though another process may have given a byte   *)
(* back while it waited.                                                   *)
SeesTheEnd == Return /\ Top.op # "streamEos" /\ Top.got = 0 => ended /\ taken = Input
EndIsTheEnd == [][SeesTheEnd]_vars

(* The bytes that are put are written once and in order, the rest is in    *)
(* the buffers, and a stream is closed with nothing left.                  *)
OutputInOrder == /\ sent \o FlattenSeq(obuf) = [i \in 1..put |-> i]
                 /\ ~mode => Len(sent) = put

(* "wait until it can be accomplished without blocking" (vm/io.c:226):     *)
(* every operation that waits has its handler on the descriptor, also when *)
(* one inside its wait took what came; and what the flag they share        *)
(* announces is still there, so that no read stops the whole machine.      *)
WaitIsNoticed == /\ handlers = Cardinality({i \in DOMAIN calls : calls[i].waiting})
                 /\ data_available => read < arrived \/ ended
=============================================================================
