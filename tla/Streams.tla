------------------------------ MODULE Streams ------------------------------
(***************************************************************************)
(* The streams messages and checkpoints are written to and read from       *)
(* (vm/streams.c), over a file (vm/filestr.c) or over memory that grows    *)
(* (vm/bufstr.c).  A client writes, the stream is turned into one to read  *)
(* (WriteToReadStream; a file is closed and opened again), and read, also  *)
(* more than once.  The i-th byte written is the number i.                 *)
(***************************************************************************)
EXTENDS Naturals, Sequences, FiniteSets, FiniteSetsExt

CONSTANTS
  Size0,      \* INITIALWRITEBUFFERSIZE, and the size of a file's buffer
  MaxBytes,   \* the largest piece; at most half of the buffer, see Fill
  MaxLength   \* bound on what is written

(* Two pieces, and what WriteStreamFromBuffer or ReadStreamToBuffer is     *)
(* given at once, fit in an empty buffer.                                  *)
ConstantsOK == {Size0, MaxBytes, MaxLength} \subseteq Nat /\ 2 * MaxBytes <= Size0

VARIABLES
  kind, phase, \* "file" or "memory"; "writing" or "reading"
  mem,         \* the memory of the buffer, from index 0
  buf,         \* theBuffer: start, end, head (indices of mem), valid, eof
  file, pos,   \* the file's bytes, and the descriptor's offset when reading
  count, next, \* ghosts: bytes written; bytes read since the last rewind
  failed       \* an assertion failed
vars == <<kind, phase, mem, buf, file, pos, count, next, failed>>

Buffer(start, end, valid, eof) ==
  [start |-> start, end |-> end, head |-> start, valid |-> valid, eof |-> eof]
Memory(size) == [i \in 0..(size - 1) |-> 0]
Size(b) == b.end - b.start

Init ==
  /\ kind \in {"file", "memory"} /\ phase = "writing"
  /\ mem = Memory(Size0) /\ buf = Buffer(0, Size0, 0, FALSE)
  /\ file = <<>> /\ pos = 0 /\ count = 0 /\ next = 0 /\ failed = FALSE

-----------------------------------------------------------------------------
(* FlushStream: a file takes all of it; memory is doubled, and Start moves *)
(* behind what is written.  [m, b, f] is mem, buf and file.                *)
Bytes(m, b) == [i \in 1..b.valid |-> m[b.start + i - 1]]
GrownTwice(m) == 2 * Cardinality(DOMAIN m)
GrownNot(m) == Cardinality(DOMAIN m)
Grown(m) == GrownTwice(m)
Flush(s) ==
  IF s.b.valid = 0 THEN s
  ELSE IF kind = "file"
  THEN [s EXCEPT !.f = @ \o Bytes(s.m, s.b), !.b = Buffer(0, Size0, 0, FALSE)]
  ELSE [s EXCEPT !.m = [i \in 0..(Grown(@) - 1) |-> IF i \in DOMAIN @ THEN @[i] ELSE 0],
                 !.b = Buffer(@.start + @.valid, Grown(s.m), 0, FALSE)]

(* The client stores n bytes at Head.                                      *)
Store(s, n, first) ==
  [s EXCEPT !.m = [i \in DOMAIN @ |-> IF i \in s.b.head..(s.b.head + n - 1)
                                      THEN first + (i - s.b.head) ELSE @[i]],
            !.b.head = @ + n, !.b.valid = @ + n]
Room(b) == Size(b) - b.valid
Now == [m |-> mem, b |-> buf, f |-> file]
Becomes(s) == mem' = s.m /\ buf' = s.b /\ file' = s.f

(* WriteStream: n bytes together.                                          *)
Write(n) ==
  /\ phase = "writing" /\ count + n <= MaxLength /\ ~failed
  /\ LET s == IF Room(buf) < n THEN Flush(Now) ELSE Now
     IN IF Size(buf) >= n /\ Room(s.b) >= n
        THEN Becomes(Store(s, n, count + 1)) /\ UNCHANGED failed
        ELSE failed' = TRUE /\ UNCHANGED <<mem, buf, file>>
  /\ count' = count + n
  /\ UNCHANGED <<kind, phase, pos, next>>

(* WriteStreamFromBuffer: as many as there is room for, then the rest.     *)
WriteFrom(n) ==
  /\ phase = "writing" /\ count + n <= MaxLength /\ ~failed
  /\ LET part == Min({n, Room(buf)})
         s == Store(Now, part, count + 1)
     IN Becomes(IF part = n THEN s ELSE Store(Flush(s), n - part, count + 1 + part))
  /\ count' = count + n
  /\ UNCHANGED <<kind, phase, pos, next, failed>>

-----------------------------------------------------------------------------
(* A file is flushed when it is destroyed and opened to be read; what is   *)
(* in memory, from its base to Head, is copied (WriteToReadStream).        *)
ReaderUnended(length) == Buffer(0, length, length, FALSE)
Reader(length) == Buffer(0, length, length, TRUE)
Turn ==
  /\ phase = "writing" /\ ~failed
  /\ phase' = "reading" /\ pos' = 0 /\ next' = 0
  /\ IF kind = "file"
     THEN /\ file' = Flush(Now).f /\ mem' = Memory(Size0) /\ buf' = Buffer(0, Size0, 0, FALSE)
     ELSE LET length == buf.start + buf.valid
          IN /\ mem' = [i \in 0..(length - 1) |-> mem[i]]
             /\ buf' = Reader(length) /\ UNCHANGED file
  /\ UNCHANGED <<kind, count, failed>>

(* FillStream: what is left moves to the start of the buffer (by memcpy:   *)
(* the pieces are such that the two do not overlap), the file's next bytes *)
(* come behind it.                                                         *)
MovedNot(s) == s.m
Moved(s) ==
  [i \in DOMAIN s.m |-> IF i - s.b.start \in 0..(s.b.valid - 1)
                        THEN s.m[s.b.head + i - s.b.start] ELSE s.m[i]]
Fill(s) ==
  IF kind = "memory" THEN [s EXCEPT !.b.eof = TRUE]
  ELSE LET got == Min({Size(s.b) - s.b.valid, Len(file) - s.p})
           from == s.b.start + s.b.valid
           m == Moved(s)
       IN [m |-> [i \in DOMAIN m |-> IF i \in from..(from + got - 1) THEN file[s.p + 1 + i - from] ELSE m[i]],
           b |-> [s.b EXCEPT !.head = s.b.start, !.valid = @ + got], p |-> s.p + got]
Filled(n) ==
  LET s == [m |-> mem, b |-> buf, p |-> pos] IN IF buf.valid < n THEN Fill(s) ELSE s

(* ReadStream and PeekStream, which leaves Head where it is.  A reader     *)
(* that gets NULL has come to the end.                                     *)
Read(n, taken) ==
  /\ phase = "reading" /\ taken \in {0, n} /\ Size(buf) >= n
  /\ LET s == Filled(n)
         k == IF s.b.valid >= n THEN taken ELSE 0
     IN /\ mem' = s.m /\ pos' = s.p /\ next' = next + k
        /\ buf' = [s.b EXCEPT !.head = @ + k, !.valid = @ - k]
  /\ UNCHANGED <<kind, phase, file, count, failed>>

(* ReadStreamToBuffer, of what there is: it would not end otherwise.       *)
ReadTo(n) ==
  /\ phase = "reading" /\ next + n <= count
  /\ LET part == Min({n, buf.valid})
         rest == [buf EXCEPT !.head = @ + part, !.valid = @ - part]
         s == [m |-> mem, b |-> rest, p |-> pos]
         t == IF part = n THEN s ELSE Fill(s)
     IN /\ mem' = t.m /\ pos' = t.p /\ next' = next + n
        /\ buf' = [t.b EXCEPT !.head = @ + n - part, !.valid = @ - (n - part)]
  /\ UNCHANGED <<kind, phase, file, count, failed>>

Rewind ==
  /\ phase = "reading" /\ next > 0 /\ next' = 0
  /\ IF kind = "file"
     THEN buf' = [buf EXCEPT !.head = buf.start, !.valid = 0] /\ pos' = 0
     ELSE buf' = [buf EXCEPT !.head = buf.start, !.valid = Size(buf)] /\ UNCHANGED pos
  /\ UNCHANGED <<kind, phase, mem, file, count, failed>>

Next ==
  \/ \E n \in 1..MaxBytes : Write(n) \/ Read(n, 0) \/ Read(n, n)
  \/ \E n \in 1..(2 * MaxBytes) : WriteFrom(n) \/ ReadTo(n)
  \/ Turn \/ Rewind
Spec == Init /\ [][Next]_vars

-----------------------------------------------------------------------------
(* What the client reads next is what it wrote there, through flushes,     *)
(* fills and rewinds: the rest of the buffer, then the rest of the file,   *)
(* are the bytes from next + 1 on.                                         *)
ReadsWhatWasWritten ==
  phase = "reading" =>
    [i \in 1..buf.valid |-> mem[buf.head + i - 1]] \o SubSeq(file, pos + 1, Len(file))
      = [i \in 1..(count - next) |-> next + i]

(* A piece has room whenever it is written: the assertion of WriteStream   *)
(* does not fail and it never returns NULL, although each flush leaves     *)
(* less of the memory before its end.                                      *)
RoomForPieces == ~failed

(* A message's reader stops where its writer did (AtEOF), neither before   *)
(* nor behind, so that lists without a count can be sent.                  *)
EndIsSeen ==
  phase = "reading" /\ kind = "memory" => ((buf.eof /\ buf.valid = 0) <=> next = count)
=============================================================================
