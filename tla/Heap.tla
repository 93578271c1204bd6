-------------------------------- MODULE Heap --------------------------------
(***************************************************************************)
(* The two generations of vm/gc.c: a copying collection of new space that  *)
(* promotes what has survived, the remembered set and its write barrier,   *)
(* and the marking of old space with the purge of the object table.        *)
(* Addresses are abstracted to the objects themselves (where old space is  *)
(* compacted to is the subject of Compaction), an object has one pointer   *)
(* field, kept as pairs in refs, and sizes are in words.  The object table *)
(* is the set of objects that have an OID; a stub has no field.            *)
(***************************************************************************)
EXTENDS Naturals, FiniteSets, FiniteSetsExt

CONSTANTS
  Objects, Nil,
  Size,          \* words of each object
  Global,        \* the objects that may get an OID
  Immutable,     \* the objects whose concrete type is immutable
  Words,         \* wordsPerGeneration
  OldWords,      \* old_size in words
  CopyCount,     \* p_copyCount, 1 or 2
  Waste,         \* words a compaction may leave in holes
  Anticipated,   \* the sizes anticipateGC and ensureSpace are called with
  Depth          \* how deep sections that inhibit collections are nested

ASSUME NilIsNone == Nil \notin Objects
ASSUME SpacesOK ==
  OldWords \in Nat /\ Words \in Nat /\ CopyCount \in {1, 2} /\ Waste \subseteq Nat /\ Anticipated \subseteq Nat

VARIABLES heap, stack, left, inhibit, want, outOfMemory
vars == <<heap, stack, left, inhibit, want, outOfMemory>>

NewWords == CopyCount * (IF CopyCount = 1 THEN 1 ELSE 2) * Words
WordsOf(S) == MapThenSumSet(LAMBDA o : Size[o], S)
ASSUME SizesAddUp ==
  /\ WordsOf({}) = 0 /\ \A S \in SUBSET Objects : WordsOf(S) \in Nat
  /\ \A o \in Objects : Size[o] \in Nat

Young(h) == h.eden \cup h.survivors
Allocated(h) == Young(h) \cup h.old
AgeOf(h, o) == IF o \in h.survivors THEN 2 ELSE 1
Fields(h, S) == {e[2] : e \in {x \in h.refs : x[1] \in S}}

\* The smallest subset of `space' that holds the seeds in it and what its
\* members refer to in it: what a flush of the move or mark stack visits.
Traced(h, space, seeds) ==
  LET start == seeds \cap space
      Closed == {S \in SUBSET space : start \subseteq S /\ Fields(h, S) \cap space \subseteq S}
  IN {o \in space : \A S \in Closed : o \in S}

-----------------------------------------------------------------------------
(* new_rem_set, and the write barrier. *)
Remember(h, o) ==
  IF o \in h.bit THEN h ELSE [h EXCEPT !.rem = @ \cup {o}, !.bit = @ \cup {o}]

StoCheckEden(h, into, stored) ==
  IF into \in h.old /\ stored \in h.eden THEN Remember(h, into) ELSE h
StoCheck(h, into, stored) ==
  IF into \in h.old /\ stored \in Young(h) THEN Remember(h, into) ELSE h

(* The objects of new space that the copying visits: from the remembered   *)
(* set, the stacks, and every object with an OID.                          *)
Copied(h, roots) == Traced(h, Young(h), roots \cup h.table \cup Fields(h, h.rem))

(* An entry of the remembered set stays if one of its pointers moved, and  *)
(* a promoted object enters if one of its fields is still in new space.    *)
StillRemembered(h) == {r \in h.rem : Fields(h, {r}) \cap Young(h) # {}}
Promoted(h, kept) == {o \in kept : AgeOf(h, o) >= CopyCount}
PromotedYoung(h, kept) ==
  {o \in Promoted(h, kept) : Fields(h, {o}) \cap (kept \ Promoted(h, kept)) # {}}

Discard(h, dead) ==
  [h EXCEPT !.eden = @ \ dead, !.survivors = @ \ dead, !.old = @ \ dead,
            !.refs = {e \in @ : e[1] \notin dead}, !.stub = @ \ dead]

(* A collection of new space. *)
CopyNew(h, kept) ==
  LET up == Promoted(h, kept)
      rem == StillRemembered(h) \cup (PromotedYoung(h, kept) \ (h.bit \ h.rem))
      h2 == Discard(h, Young(h) \ kept)
  IN [h2 EXCEPT !.eden = {}, !.survivors = kept \ up, !.old = @ \cup up,
                !.rem = rem, !.bit = (@ \ h.rem) \cup rem,
                !.nextGen = @ + WordsOf(up),
                !.promo = WordsOf({o \in kept : AgeOf(h, o) = CopyCount - 1})]

(* A collection of old space: all of new space and the external roots are  *)
(* roots; of the object table only resident objects that are not copies of *)
(* an immutable are; unmarked objects lose their OID and their entry in    *)
(* the remembered set, whose bits served as marks.                         *)
TableRootsNone(h) == {}
TableRoots(h) == h.table \ (h.stub \cup Immutable)
MarkedNoYoung(h, roots) ==
  (h.bit \ h.rem) \cup Traced(h, h.old, roots \cup TableRoots(h))
Marked(h, roots) ==
  (h.bit \ h.rem) \cup
    Traced(h, h.old, roots \cup TableRoots(h) \cup Fields(h, Young(h)))
PurgeRemembered(h, live) == h.rem \cap live
PurgeObjectTable(h, live) == h.table \ (h.old \ live)

Compact(h, live, waste) ==
  LET rem == PurgeRemembered(h, live)
      h2 == Discard(h, h.old \ live)
  IN [h2 EXCEPT !.rem = rem, !.bit = rem, !.table = PurgeObjectTable(h, live),
                !.nextGen = Min({@, WordsOf(h.old \cap live) + waste})]

\* All a compaction may give: how much of old space it leaves in holes depends
\* on the layout.
CompactOld(h, roots) ==
  {Compact(h, live, waste) : live \in {Marked(h, roots)}, waste \in Waste}

(* gcollect: new space, and old space too if what the next collection will *)
(* promote would not fit.  With CopyCount = 1 nothing survives in new      *)
(* space and all of it is reserved.                                        *)
OldFree(h) == OldWords - h.nextGen
Reserve(h) == IF CopyCount = 1 THEN [h EXCEPT !.promo = NewWords] ELSE h
Refill(h) ==
  IF CopyCount = 1 THEN NewWords ELSE (NewWords + h.promo) \div 2 - WordsOf(Young(h))

Gcollect(h, roots) ==
  UNION {IF OldFree(n) < n.promo THEN CompactOld(n, roots) ELSE {n} :
           n \in {Reserve(CopyNew(h, kept)) : kept \in {Copied(h, roots)}}}
Short(h, words) == OldFree(h) < h.promo + words

-----------------------------------------------------------------------------
NoRequest == [object |-> Nil, words |-> 0, stub |-> FALSE]

Init ==
  /\ heap = [eden |-> {}, survivors |-> {}, old |-> {}, refs |-> {},
             rem |-> {}, bit |-> {}, table |-> {}, stub |-> {}, nextGen |-> 0, promo |-> 0]
  /\ stack = {} /\ inhibit = 0 /\ want = NoRequest /\ outOfMemory = FALSE
  /\ left = NewWords \div (IF CopyCount = 1 THEN 1 ELSE 2)

Running == ~outOfMemory /\ want = NoRequest

(* gcollect as a step of its own: what every caller's loop repeats.  The   *)
(* machine stops when the next promotion still does not fit.               *)
RunGcollect ==
  \E n \in Gcollect(heap, stack) :
     /\ heap' = n /\ left' = Refill(n)
     /\ outOfMemory' = Short(n, 0)

(* gc_malloc: the request, its collections, and the object itself.  An     *)
(* object is made in old space while collections are inhibited or if it    *)
(* is too big for new space.                                               *)
Request(o, stub) ==
  /\ Running /\ o \notin Allocated(heap) /\ (stub => o \in Global)
  /\ want' = [object |-> o, words |-> Size[o], stub |-> stub]
  /\ UNCHANGED <<heap, stack, left, inhibit, outOfMemory>>

ToOldInhibited == inhibit > 0
ToOld == inhibit > 0 \/ want.words > Words
CollectForRequest ==
  /\ ~outOfMemory /\ want # NoRequest /\ left < want.words
  /\ want.object # Nil => ~ToOld
  /\ RunGcollect
  /\ UNCHANGED <<stack, inhibit, want>>

Made(h, where) ==
  [h EXCEPT !.eden = @ \cup (IF where = "eden" THEN {want.object} ELSE {}),
            !.old = @ \cup (IF where = "old" THEN {want.object} ELSE {}),
            !.stub = IF want.stub THEN @ \cup {want.object} ELSE @,
            !.table = IF want.stub THEN @ \cup {want.object} ELSE @]
TakeNew ==
  /\ ~outOfMemory /\ want.object # Nil /\ ~ToOld /\ left >= want.words
  /\ heap' = Made(heap, "eden")
  /\ left' = left - want.words
  /\ stack' = stack \cup {want.object} /\ want' = NoRequest
  /\ UNCHANGED <<inhibit, outOfMemory>>

(* gc_malloc_old: two collections if the space reserved for promotion      *)
(* would be used, and no answer to a shortage while they are inhibited.    *)
OldShortUnreserved(h, words) == OldFree(h) < words
OldShort(h, words) == Short(h, words)
TakeOld ==
  LET mustCollect == OldShort(heap, want.words)
      Answer(h, fails) ==
        /\ outOfMemory' = fails
        /\ IF fails THEN UNCHANGED <<heap, stack, want>>
           ELSE /\ heap' = [Made(h, "old") EXCEPT !.nextGen = @ + want.words]
                /\ stack' = stack \cup {want.object} /\ want' = NoRequest
  IN /\ ~outOfMemory /\ want.object # Nil /\ ToOld
     /\ \/ ~mustCollect /\ Answer(heap, FALSE) /\ UNCHANGED left
        \/ mustCollect /\ inhibit > 0 /\ Answer(heap, TRUE) /\ UNCHANGED left
        \/ /\ mustCollect /\ inhibit = 0
           /\ \E n \in Gcollect(heap, stack) : \E h \in CompactOld(n, stack) :
                /\ Answer(h, Short(n, 0) \/ OldShort(h, want.words))
                /\ left' = Refill(n)
     /\ UNCHANGED inhibit

(* ensureSpace: as many collections of new space as it takes, then one of  *)
(* each if old space is short.                                             *)
EnsureSpace(words) ==
  /\ Running /\ inhibit = 0
  /\ want' = [object |-> Nil, words |-> words, stub |-> FALSE]
  /\ UNCHANGED <<heap, stack, left, inhibit, outOfMemory>>

MakeRoom(words) ==
  IF ~Short(heap, words) THEN UNCHANGED <<heap, left, outOfMemory>>
  ELSE \E n \in Gcollect(heap, stack) :
         /\ heap' \in IF Short(n, words) THEN CompactOld(n, stack) ELSE {n}
         /\ left' = Refill(n)
         /\ outOfMemory' = Short(n, 0)
Ensured ==
  /\ ~outOfMemory /\ want # NoRequest /\ want.object = Nil /\ left >= want.words
  /\ MakeRoom(want.words)
  /\ want' = NoRequest
  /\ UNCHANGED <<stack, inhibit>>

(* anticipateGC, and the end of the section it opens. *)
AnticipateGC(words) ==
  /\ Running /\ inhibit < Depth
  /\ IF inhibit = 0 THEN MakeRoom(words) ELSE UNCHANGED <<heap, left, outOfMemory>>
  /\ inhibit' = inhibit + 1
  /\ UNCHANGED <<stack, want>>

AllowGC ==
  /\ Running /\ inhibit > 0 /\ inhibit' = inhibit - 1
  /\ UNCHANGED <<heap, stack, left, want, outOfMemory>>

-----------------------------------------------------------------------------
(* What processes and message handlers do to the graph. *)
Keep == UNCHANGED <<left, inhibit, want, outOfMemory>>

Store(o, p) ==
  /\ Running /\ {o, p} \subseteq stack /\ o \notin heap.stub
  /\ heap' = StoCheck([heap EXCEPT !.refs = {e \in @ : e[1] # o} \cup {<<o, p>>}], o, p)
  /\ UNCHANGED stack /\ Keep

Load(o) ==
  /\ Running /\ o \in stack \ heap.stub /\ Fields(heap, {o}) # {}
  /\ stack' = stack \cup Fields(heap, {o})
  /\ UNCHANGED heap /\ Keep

Drop(o) ==
  /\ Running /\ o \in stack /\ stack' = stack \ {o}
  /\ UNCHANGED heap /\ Keep

NewOID(o) ==
  /\ Running /\ o \in stack \cap Global /\ heap' = [heap EXCEPT !.table = @ \cup {o}]
  /\ UNCHANGED stack /\ Keep

OIDFetch(o) ==
  /\ Running /\ o \in heap.table /\ stack' = stack \cup {o}
  /\ UNCHANGED heap /\ Keep

BecomeStub(o) ==
  /\ Running /\ o \in heap.table \ (heap.stub \cup Immutable)
  /\ heap' = [heap EXCEPT !.stub = @ \cup {o}, !.refs = {e \in @ : e[1] # o}]
  /\ UNCHANGED stack /\ Keep

MoveIn(o) ==
  /\ Running /\ o \in heap.stub
  /\ heap' = [heap EXCEPT !.stub = @ \ {o}]
  /\ stack' = stack \cup {o} /\ Keep

Stopped == outOfMemory /\ UNCHANGED vars

Collecting == CollectForRequest \/ TakeOld \/ Ensured
Next ==
  \/ \E o \in Objects, stub \in BOOLEAN : Request(o, stub)
  \/ Collecting \/ \E n \in Anticipated : AnticipateGC(n)
  \/ TakeNew \/ AllowGC \/ Stopped
  \/ \E n \in Anticipated : EnsureSpace(n)
  \/ \E o, p \in Objects : Store(o, p)
  \/ \E o \in Objects : \/ Load(o) \/ Drop(o) \/ NewOID(o)
                        \/ OIDFetch(o) \/ BecomeStub(o) \/ MoveIn(o)

Spec == Init /\ [][Next]_vars /\ WF_vars(TakeNew \/ Collecting)

-----------------------------------------------------------------------------
TypeOK ==
  /\ heap.eden \cap heap.survivors = {} /\ Young(heap) \cap heap.old = {}
  /\ Allocated(heap) \subseteq Objects /\ heap.refs \subseteq Objects \X Objects
  /\ heap.rem \cup heap.bit \cup heap.table \cup heap.stub \subseteq Objects
  /\ heap.nextGen \in Nat /\ heap.promo \in Nat /\ left \in Nat
  /\ stack \subseteq Objects /\ inhibit \in 0..Depth /\ outOfMemory \in BOOLEAN

(* Every object of old space that refers to new space is in the remembered *)
(* set, and the bit that says so agrees with the set.                      *)
Remembered ==
  /\ heap.bit = heap.rem
  /\ \A e \in heap.refs : e[1] \in heap.old /\ e[2] \in Young(heap) => e[1] \in heap.rem

(* No object still in the heap, no process and no OID refers to one that a *)
(* collection discarded.                                                   *)
NoDangling == Fields(heap, Objects) \cup stack \cup heap.table \subseteq Allocated(heap)

(* While the machine runs, what the next collection promotes is within     *)
(* what was reserved for it, and that fits in old space.                   *)
CollectionFits ==
  ~outOfMemory =>
    /\ ~Short(heap, 0)
    /\ WordsOf({o \in Young(heap) : AgeOf(heap, o) >= CopyCount}) <= heap.promo

(* Nothing in the heap refers to what a collection discarded: the          *)
(* remembered set has every object of old space that refers to new space,  *)
(* and what the next collection promotes fits in what was reserved.        *)
NoneDangles == Remembered /\ NoDangling /\ CollectionFits

(* A resident mutable object with an OID is never discarded, and leaves    *)
(* the table in no step.                                                   *)
CopiesLeave == (heap.table \ heap'.table) \subseteq (heap.stub \cup Immutable) \ stack
OnlyCopiesLeaveTheTable == [][CopiesLeave]_vars

(* A request for memory ends in an object or in the machine's stop.        *)
RequestsEnd == want # NoRequest ~> (want = NoRequest \/ outOfMemory)
=============================================================================
