---------------------------- MODULE ObjectProofs -----------------------------
(***************************************************************************)
(* Heap, for any objects of any sizes and any sizes of its two generations:*)
(* no collection discards what is referred to.  ObjectRequest, for any     *)
(* nodes and objects: what is fetched comes, once, and its types before it.*)
(* Streams, for any sizes of buffers and pieces: what is read is what was  *)
(* written.  HashSet, for any keys and sizes: the tables that hold objects *)
(* are the maps they promise, and a loop that deletes misses none.         *)
(***************************************************************************)
EXTENDS Heap, SequenceTheorems, FiniteSetTheorems, TLAPS

CONSTANTS Nodes, TypesOf, Holdings, Bounds
VARIABLES has, handlers, chan, unknown, used
Fetching == INSTANCE ObjectRequest

CONSTANTS Size0, MaxBytes, MaxLength
VARIABLES kind, phase, mem, buf, file, pos, count, next, failed
Buffers == INSTANCE Streams

CONSTANTS Keys, Values, Sizes, MaxKeys, NoEntry
VARIABLES slots, loop
Tab == INSTANCE HashSet

HeapType ==
  [eden : SUBSET Objects, survivors : SUBSET Objects, old : SUBSET Objects,
   refs : SUBSET (Objects \X Objects), rem : SUBSET Objects, bit : SUBSET Objects,
   table : SUBSET Objects, stub : SUBSET Objects, nextGen : Nat, promo : Nat]

(* A heap in which nothing of what `roots' leads to is missing: every      *)
(* object is in one space, what it refers to is allocated, and so are the  *)
(* roots and the objects with an OID; the remembered set has old objects   *)
(* only, among them each that refers to new space.                         *)
Sound(h, roots) ==
  /\ h.eden \cap h.survivors = {} /\ Young(h) \cap h.old = {}
  /\ \A e \in h.refs : e[1] \in Allocated(h) /\ e[2] \in Allocated(h)
  /\ roots \subseteq Allocated(h)
  /\ h.table \subseteq Allocated(h) /\ h.stub \subseteq Allocated(h)
  /\ h.rem \subseteq h.old /\ h.bit = h.rem
  /\ \A e \in h.refs : e[1] \in h.old /\ e[2] \in Young(h) => e[1] \in h.rem

(* What a collection may take away. *)
Shrinks(h, n, roots) ==
  /\ n.table \subseteq h.table /\ h.table \ n.table \subseteq (h.stub \cup Immutable) \ roots
  /\ n.stub \subseteq h.stub /\ Allocated(n) \subseteq Allocated(h)

-----------------------------------------------------------------------------
(* The traversals. *)

LEMMA FieldsOf ==
  ASSUME NEW h \in HeapType, NEW S, NEW o
  PROVE  o \in Fields(h, S) <=> \E e \in h.refs : e[1] \in S /\ e[2] = o
BY DEF Fields

LEMMA TracedIsClosed ==
  ASSUME NEW h \in HeapType, NEW space, NEW seeds
  PROVE  LET T == Traced(h, space, seeds)
         IN /\ T \subseteq space /\ seeds \cap space \subseteq T
            /\ \A e \in h.refs : e[1] \in T /\ e[2] \in space => e[2] \in T
<1> DEFINE start == seeds \cap space
           Closed == {S \in SUBSET space : start \subseteq S /\ Fields(h, S) \cap space \subseteq S}
           T == Traced(h, space, seeds)
<1>1. T = {o \in space : \A S \in Closed : o \in S}
  BY DEF Traced
<1>2. ASSUME NEW e \in h.refs, e[1] \in T, e[2] \in space, NEW S \in Closed PROVE e[2] \in S
  <2>1. e[1] \in S /\ Fields(h, S) \cap space \subseteq S
    BY <1>1, <1>2
  <2>2. e[2] \in Fields(h, S)
    BY <2>1, FieldsOf
  <2> QED BY <2>1, <2>2, <1>2
<1>3. \A S \in Closed : start \subseteq S
  OBVIOUS
<1> HIDE DEF Closed
<1>4. \A e \in h.refs : e[1] \in T /\ e[2] \in space => e[2] \in T
  BY <1>1, <1>2
<1> QED BY <1>1, <1>3, <1>4

-----------------------------------------------------------------------------
(* A collection of new space. *)

LEMMA Updated ==
  ASSUME NEW d \in HeapType, NEW s \in SUBSET Objects, NEW o \in SUBSET Objects,
         NEW r \in SUBSET Objects, NEW b \in SUBSET Objects, NEW x \in Nat, NEW y \in Nat
  PROVE  [d EXCEPT !.eden = {}, !.survivors = s, !.old = o, !.rem = r, !.bit = b,
                   !.nextGen = x, !.promo = y] \in HeapType
BY DEF HeapType

LEMMA CopyNewFields ==
  ASSUME NEW h \in HeapType, NEW kept \in SUBSET Objects, kept \subseteq Young(h)
  PROVE  LET n == CopyNew(h, kept)
             up == Promoted(h, kept)
         IN /\ n \in HeapType
            /\ n.eden = {} /\ n.survivors = kept \ up
            /\ n.old = (h.old \ (Young(h) \ kept)) \cup up
            /\ \A e : e \in n.refs <=> e \in h.refs /\ e[1] \notin Young(h) \ kept
            /\ n.rem = StillRemembered(h) \cup (PromotedYoung(h, kept) \ (h.bit \ h.rem))
            /\ n.bit = (h.bit \ h.rem) \cup n.rem
            /\ n.table = h.table /\ n.stub = h.stub \ (Young(h) \ kept)
            /\ n.nextGen = h.nextGen + WordsOf(up)
            /\ n.promo = WordsOf({o \in kept : AgeOf(h, o) = CopyCount - 1})
<1> DEFINE up == Promoted(h, kept)
           soon == {o \in kept : AgeOf(h, o) = CopyCount - 1}
           rem == StillRemembered(h) \cup (PromotedYoung(h, kept) \ (h.bit \ h.rem))
<1>1. up \in SUBSET Objects /\ soon \in SUBSET Objects /\ rem \in SUBSET Objects
  BY DEF Promoted, StillRemembered, PromotedYoung, HeapType
<1>2. WordsOf(up) \in Nat /\ WordsOf(soon) \in Nat
  BY <1>1, SizesAddUp
<1>3. CopyNew(h, kept) =
        [Discard(h, Young(h) \ kept) EXCEPT
           !.eden = {}, !.survivors = kept \ up, !.old = @ \cup up,
           !.rem = rem, !.bit = (@ \ h.rem) \cup rem,
           !.nextGen = @ + WordsOf(up), !.promo = WordsOf(soon)]
  BY Zenon DEF CopyNew
<1> HIDE DEF up, soon, rem
<1> DEFINE d == Discard(h, Young(h) \ kept)
<1>4. /\ d \in HeapType
      /\ d.old = h.old \ (Young(h) \ kept) /\ d.refs = {e \in h.refs : e[1] \notin Young(h) \ kept}
      /\ d.bit = h.bit /\ d.table = h.table /\ d.stub = h.stub \ (Young(h) \ kept)
      /\ d.nextGen = h.nextGen
  BY DEF Discard, HeapType
<1> HIDE DEF d
<1>5. CopyNew(h, kept) =
        [d EXCEPT
           !.eden = {}, !.survivors = kept \ up, !.old = @ \cup up,
           !.rem = rem, !.bit = (@ \ h.rem) \cup rem,
           !.nextGen = @ + WordsOf(up), !.promo = WordsOf(soon)]
  BY <1>3 DEF d
<1> DEFINE n == CopyNew(h, kept)
<1>6. n \in HeapType
  <2> DEFINE o == d.old \cup up
             b == (d.bit \ h.rem) \cup rem
             x == d.nextGen + WordsOf(up)
  <2>1. /\ kept \ up \in SUBSET Objects /\ o \in SUBSET Objects
        /\ b \in SUBSET Objects /\ x \in Nat
    BY <1>1, <1>2, <1>4 DEF HeapType
  <2>2. n = [d EXCEPT !.eden = {}, !.survivors = kept \ up, !.old = o, !.rem = rem, !.bit = b,
                      !.nextGen = x, !.promo = WordsOf(soon)]
    BY <1>5, Zenon
  <2> HIDE DEF n, o, b, x
  <2> QED BY <1>1, <1>2, <1>4, <2>1, <2>2, Updated, Zenon
<1>7. n.eden = {} /\ n.survivors = kept \ up /\ n.old = d.old \cup up
  BY <1>5, <1>4 DEF HeapType
<1>8. n.refs = d.refs /\ n.rem = rem /\ n.bit = (d.bit \ h.rem) \cup rem
  BY <1>5, <1>4 DEF HeapType
<1>9. n.table = d.table /\ n.stub = d.stub
  BY <1>5, <1>4 DEF HeapType
<1>10. n.nextGen = d.nextGen + WordsOf(up) /\ n.promo = WordsOf(soon)
  BY <1>5, <1>4 DEF HeapType
<1> QED BY <1>6, <1>7, <1>8, <1>9, <1>10, <1>4 DEF up, soon, rem

LEMMA CopiedIsEnough ==
  ASSUME NEW h \in HeapType, NEW roots, Sound(h, roots)
  PROVE  LET kept == Copied(h, roots)
         IN /\ kept \subseteq Young(h) /\ kept \in SUBSET Objects
            /\ (roots \cup h.table) \cap Young(h) \subseteq kept
            /\ \A e \in h.refs : e[1] \in kept \cup h.old /\ e[2] \in Young(h) => e[2] \in kept
<1> DEFINE kept == Copied(h, roots)
           seeds == roots \cup h.table \cup Fields(h, h.rem)
<1>1. kept = Traced(h, Young(h), seeds)
  BY DEF Copied
<1>2. /\ kept \subseteq Young(h) /\ seeds \cap Young(h) \subseteq kept
      /\ \A e \in h.refs : e[1] \in kept /\ e[2] \in Young(h) => e[2] \in kept
  <2> HIDE DEF seeds, kept
  <2> QED BY <1>1, TracedIsClosed
<1>3. ASSUME NEW e \in h.refs, e[1] \in h.old, e[2] \in Young(h) PROVE e[2] \in kept
  <2>1. e[1] \in h.rem
    BY <1>3 DEF Sound
  <2>2. e[2] \in Fields(h, h.rem)
    BY <2>1, FieldsOf
  <2> QED BY <2>2, <1>2, <1>3
<1>4. Young(h) \in SUBSET Objects
  BY DEF Young, HeapType
<1> HIDE DEF kept
<1>5. seeds = roots \cup h.table \cup Fields(h, h.rem)
  OBVIOUS
<1>6. (roots \cup h.table) \cap Young(h) \subseteq kept
  BY <1>2, <1>5
<1> QED BY <1>2, <1>3, <1>4, <1>6 DEF kept

LEMMA CopyNewKeeps ==
  ASSUME NEW h \in HeapType, NEW roots, Sound(h, roots)
  PROVE  LET n == CopyNew(h, Copied(h, roots))
         IN n \in HeapType /\ Sound(n, roots) /\ Shrinks(h, n, roots)
<1> DEFINE kept == Copied(h, roots)
           n == CopyNew(h, kept)
           up == Promoted(h, kept)
           rem == StillRemembered(h) \cup PromotedYoung(h, kept)
<1>1. /\ kept \subseteq Young(h) /\ kept \in SUBSET Objects
      /\ (roots \cup h.table) \cap Young(h) \subseteq kept
      /\ \A e \in h.refs : e[1] \in kept \cup h.old /\ e[2] \in Young(h) => e[2] \in kept
  BY CopiedIsEnough
<1>2. up \subseteq kept /\ PromotedYoung(h, kept) \subseteq up /\ StillRemembered(h) \subseteq h.rem
  BY DEF Promoted, PromotedYoung, StillRemembered
<1>3. Young(h) \cap h.old = {} /\ h.bit = h.rem
  BY DEF Sound
<1> HIDE DEF kept
<1>4. /\ n \in HeapType
      /\ n.eden = {} /\ n.survivors = kept \ up
      /\ n.old = (h.old \ (Young(h) \ kept)) \cup up
      /\ \A e : e \in n.refs <=> e \in h.refs /\ e[1] \notin Young(h) \ kept
      /\ n.rem = StillRemembered(h) \cup (PromotedYoung(h, kept) \ (h.bit \ h.rem))
      /\ n.bit = (h.bit \ h.rem) \cup n.rem
      /\ n.table = h.table /\ n.stub = h.stub \ (Young(h) \ kept)
  BY <1>1, CopyNewFields
<1> HIDE DEF n, up
<1>5. n.old = h.old \cup up /\ n.rem = rem /\ n.bit = rem
  BY <1>3, <1>4
<1>6. Young(n) = kept \ up /\ Allocated(n) = h.old \cup kept /\ Young(n) \cap n.old = {}
  BY <1>1, <1>2, <1>3, <1>4, <1>5 DEF Young, Allocated
<1>7. ASSUME NEW e \in n.refs
      PROVE  /\ e \in h.refs /\ e[1] \in h.old \cup kept
             /\ e[2] \in h.old \cup kept
  <2>1. e \in h.refs /\ e[1] \notin Young(h) \ kept
    BY <1>4
  <2>2. e[1] \in Young(h) \cup h.old /\ e[2] \in Young(h) \cup h.old
    BY <2>1 DEF Sound, Allocated
  <2> QED BY <2>1, <2>2, <1>1
<1>8. ASSUME NEW e \in n.refs, e[1] \in n.old, e[2] \in Young(n) PROVE e[1] \in n.rem
  <2>1. e \in h.refs /\ e[2] \in kept \ up
    BY <1>4, <1>6, <1>8
  <2>2. CASE e[1] \in h.old
    <3>1. e[1] \in h.rem
      BY <2>1, <2>2, <1>1 DEF Sound
    <3>2. e[2] \in Fields(h, {e[1]}) \cap Young(h)
      BY <2>1, <1>1, FieldsOf
    <3> QED BY <3>1, <3>2, <1>5 DEF StillRemembered
  <2>3. CASE e[1] \in up
    <3>1. e[2] \in Fields(h, {e[1]}) \cap (kept \ up)
      BY <2>1, FieldsOf
    <3> QED BY <3>1, <2>3, <1>5 DEF PromotedYoung, up
  <2> QED BY <2>2, <2>3, <1>5, <1>8
<1>9. roots \subseteq Allocated(n) /\ n.table \subseteq Allocated(n)
  <2>1. roots \subseteq Young(h) \cup h.old /\ h.table \subseteq Young(h) \cup h.old
    BY DEF Sound, Allocated
  <2> QED BY <2>1, <1>1, <1>4, <1>6
<1>10. n.stub \subseteq Allocated(n) /\ n.stub \subseteq h.stub
  <2>1. h.stub \subseteq Young(h) \cup h.old
    BY DEF Sound, Allocated
  <2> QED BY <2>1, <1>1, <1>4, <1>6
<1>11. n.rem \subseteq n.old
  <2>1. h.rem \subseteq h.old
    BY DEF Sound
  <2> QED BY <2>1, <1>2, <1>5
<1>12. Sound(n, roots)
  <2>1. n.eden \cap n.survivors = {} /\ n.bit = n.rem
    BY <1>4, <1>5
  <2>2. \A e \in n.refs : e[1] \in Allocated(n) /\ e[2] \in Allocated(n)
    BY <1>6, <1>7
  <2> QED BY <2>1, <2>2, <1>6, <1>8, <1>9, <1>10, <1>11 DEF Sound
<1>13. Allocated(n) \subseteq Allocated(h)
  BY <1>1, <1>6 DEF Allocated
<1>14. Shrinks(h, n, roots)
  BY <1>4, <1>10, <1>13 DEF Shrinks
<1> QED BY <1>4, <1>12, <1>14 DEF n, kept

-----------------------------------------------------------------------------
(* A collection of old space. *)

LEMMA LesserOfTwo ==
  ASSUME NEW a \in Nat, NEW b \in Nat
  PROVE  Min({a, b}) \in Nat /\ Min({a, b}) <= a
<1>1. \E x \in {a, b} : \A y \in {a, b} : x <= y
  OBVIOUS
<1> QED BY <1>1 DEF Min

LEMMA CompactFields ==
  ASSUME NEW h \in HeapType, NEW live, NEW waste \in Nat
  PROVE  LET n == Compact(h, live, waste)
             dead == h.old \ live
         IN /\ n \in HeapType
            /\ n.eden = h.eden \ dead /\ n.survivors = h.survivors \ dead
            /\ n.old = h.old \ dead
            /\ \A e : e \in n.refs <=> e \in h.refs /\ e[1] \notin dead
            /\ n.rem = h.rem \cap live /\ n.bit = h.rem \cap live
            /\ n.table = h.table \ dead /\ n.stub = h.stub \ dead
            /\ n.nextGen <= h.nextGen /\ n.promo = h.promo
<1> DEFINE dead == h.old \ live
           d == Discard(h, dead)
           rem == PurgeRemembered(h, live)
           table == PurgeObjectTable(h, live)
           top == Min({h.nextGen, WordsOf(h.old \cap live) + waste})
           n == Compact(h, live, waste)
<1>1. /\ d \in HeapType
      /\ d.eden = h.eden \ dead /\ d.survivors = h.survivors \ dead /\ d.old = h.old \ dead
      /\ \A e : e \in d.refs <=> e \in h.refs /\ e[1] \notin dead
      /\ d.stub = h.stub \ dead /\ d.nextGen = h.nextGen /\ d.promo = h.promo
  <2> HIDE DEF dead
  <2> QED BY DEF Discard, HeapType
<1>2. rem = h.rem \cap live /\ table = h.table \ dead
  BY DEF PurgeRemembered, PurgeObjectTable
<1>3. rem \in SUBSET Objects /\ table \in SUBSET Objects
  BY <1>2 DEF HeapType
<1>4. top \in Nat /\ top <= h.nextGen
  <2>1. h.nextGen \in Nat /\ h.old \cap live \in SUBSET Objects
    BY DEF HeapType
  <2>2. WordsOf(h.old \cap live) + waste \in Nat
    BY <2>1, SizesAddUp
  <2> QED BY <2>1, <2>2, LesserOfTwo
<1>5. n = [d EXCEPT !.rem = rem, !.bit = rem, !.table = table, !.nextGen = top]
  BY <1>1 DEF Compact
<1> HIDE DEF dead, d, rem, table, top, n
<1>6. n \in HeapType
  BY <1>1, <1>3, <1>4, <1>5 DEF HeapType
<1>7. /\ n.eden = d.eden /\ n.survivors = d.survivors /\ n.old = d.old
      /\ n.refs = d.refs /\ n.stub = d.stub /\ n.promo = d.promo
  BY <1>1, <1>5 DEF HeapType
<1>8. n.rem = rem /\ n.bit = rem /\ n.table = table /\ n.nextGen = top
  BY <1>1, <1>5 DEF HeapType
<1>9. n.eden = h.eden \ dead /\ n.survivors = h.survivors \ dead /\ n.old = h.old \ dead
  BY <1>1, <1>7
<1>10. \A e : e \in n.refs <=> e \in h.refs /\ e[1] \notin dead
  BY <1>1, <1>7
<1>11. n.rem = h.rem \cap live /\ n.bit = h.rem \cap live /\ n.table = h.table \ dead
  BY <1>2, <1>8
<1>12. n.stub = h.stub \ dead /\ n.nextGen <= h.nextGen /\ n.promo = h.promo
  BY <1>1, <1>4, <1>7, <1>8
<1> QED BY <1>6, <1>9, <1>10, <1>11, <1>12 DEF n, dead

LEMMA MarkedIsEnough ==
  ASSUME NEW h \in HeapType, NEW roots, Sound(h, roots)
  PROVE  LET live == Marked(h, roots)
         IN /\ live \subseteq h.old
            /\ (roots \cup TableRoots(h)) \cap h.old \subseteq live
            /\ \A e \in h.refs : e[1] \in live \cup Young(h) /\ e[2] \in h.old => e[2] \in live
<1> DEFINE seeds == roots \cup TableRoots(h) \cup Fields(h, Young(h))
           live == Marked(h, roots)
<1>1. live = Traced(h, h.old, seeds)
  BY DEF Marked, Sound
<1> HIDE DEF seeds, live
<1>2. /\ live \subseteq h.old /\ seeds \cap h.old \subseteq live
      /\ \A e \in h.refs : e[1] \in live /\ e[2] \in h.old => e[2] \in live
  BY <1>1, TracedIsClosed
<1>3. ASSUME NEW e \in h.refs, e[1] \in Young(h), e[2] \in h.old PROVE e[2] \in live
  <2>1. e[2] \in Fields(h, Young(h))
    BY <1>3, FieldsOf
  <2> QED BY <2>1, <1>2, <1>3 DEF seeds
<1>4. (roots \cup TableRoots(h)) \cap h.old \subseteq live
  BY <1>2 DEF seeds
<1> QED BY <1>2, <1>3, <1>4 DEF live

LEMMA CompactKeeps ==
  ASSUME NEW h \in HeapType, NEW roots, Sound(h, roots), NEW n \in CompactOld(h, roots)
  PROVE  /\ n \in HeapType /\ Sound(n, roots) /\ Shrinks(h, n, roots)
         /\ n.nextGen <= h.nextGen /\ n.promo = h.promo /\ n.survivors = h.survivors
<1> DEFINE live == Marked(h, roots)
           dead == h.old \ live
<1>1. PICK waste \in Waste : n = Compact(h, live, waste)
  BY DEF CompactOld
<1>2. /\ live \subseteq h.old /\ (roots \cup TableRoots(h)) \cap h.old \subseteq live
      /\ \A e \in h.refs : e[1] \in live \cup Young(h) /\ e[2] \in h.old => e[2] \in live
  BY MarkedIsEnough
<1>3. /\ n \in HeapType
      /\ n.eden = h.eden \ dead /\ n.survivors = h.survivors \ dead /\ n.old = h.old \ dead
      /\ \A e : e \in n.refs <=> e \in h.refs /\ e[1] \notin dead
      /\ n.rem = h.rem \cap live /\ n.bit = h.rem \cap live
      /\ n.table = h.table \ dead /\ n.stub = h.stub \ dead
      /\ n.nextGen <= h.nextGen /\ n.promo = h.promo
  <2>1. waste \in Nat
    BY SpacesOK
  <2> HIDE DEF live
  <2> QED BY <2>1, <1>1, CompactFields
<1> HIDE DEF live
<1>4. Young(h) \cap h.old = {} /\ h.rem \subseteq h.old /\ h.eden \cap h.survivors = {}
  BY DEF Sound
<1>5. n.old = live /\ n.eden = h.eden /\ n.survivors = h.survivors /\ Young(n) = Young(h)
  BY <1>2, <1>3, <1>4 DEF Young
<1>6. Allocated(n) = Allocated(h) \ dead /\ Allocated(n) = Young(h) \cup live
  BY <1>2, <1>4, <1>5 DEF Allocated
<1>7. ASSUME NEW e \in n.refs
      PROVE  /\ e[1] \in Allocated(n) /\ e[2] \in Allocated(n)
             /\ e[1] \in n.old /\ e[2] \in Young(n) => e[1] \in n.rem
  <2>1. e \in h.refs /\ e[1] \notin dead
    BY <1>3
  <2>2. e[1] \in Allocated(h) /\ e[2] \in Allocated(h)
    BY <2>1 DEF Sound
  <2>3. e[1] \in Young(h) \cup live
    BY <2>1, <2>2 DEF Allocated
  <2>4. e[2] \in Young(h) \cup live
    BY <2>1, <2>2, <2>3, <1>2 DEF Allocated
  <2>5. e[1] \in n.old /\ e[2] \in Young(n) => e[1] \in n.rem
    BY <2>1, <1>3, <1>5, <1>2 DEF Sound
  <2> QED BY <2>3, <2>4, <2>5, <1>6
<1>8. roots \subseteq Allocated(n) /\ dead \cap roots = {}
  <2>1. roots \subseteq Young(h) \cup h.old
    BY DEF Sound, Allocated
  <2> QED BY <2>1, <1>2, <1>6
<1>9. n.table \subseteq Allocated(n) /\ n.stub \subseteq Allocated(n)
  BY <1>3, <1>6 DEF Sound
<1>10. Sound(n, roots)
  <2>1. n.eden \cap n.survivors = {} /\ Young(n) \cap n.old = {} /\ n.bit = n.rem /\ n.rem \subseteq n.old
    BY <1>2, <1>3, <1>4, <1>5
  <2> QED BY <2>1, <1>7, <1>8, <1>9 DEF Sound
<1>11. h.table \ n.table \subseteq (h.stub \cup Immutable) \ roots
  <2>1. h.table \ n.table \subseteq dead
    BY <1>3
  <2>2. dead \cap TableRoots(h) = {}
    BY <1>2
  <2> QED BY <2>1, <2>2, <1>8 DEF TableRoots
<1>12. Shrinks(h, n, roots)
  BY <1>3, <1>6, <1>11 DEF Shrinks
<1> QED BY <1>3, <1>5, <1>10, <1>12

-----------------------------------------------------------------------------
(* gcollect. *)

LEMMA ShrinksTwice ==
  ASSUME NEW h, NEW m, NEW n, NEW roots, Shrinks(h, m, roots), Shrinks(m, n, roots)
  PROVE  Shrinks(h, n, roots)
BY DEF Shrinks

LEMMA GcollectKeeps ==
  ASSUME NEW h \in HeapType, NEW roots, Sound(h, roots), NEW n \in Gcollect(h, roots)
  PROVE  /\ n \in HeapType /\ Sound(n, roots) /\ Shrinks(h, n, roots)
         /\ CopyCount = 2 => n.promo = WordsOf(n.survivors)
<1> DEFINE kept == Copied(h, roots)
           c == CopyNew(h, kept)
           m == Reserve(c)
<1>1. n \in IF OldFree(m) < m.promo THEN CompactOld(m, roots) ELSE {m}
  BY DEF Gcollect
<1>2. c \in HeapType /\ Sound(c, roots) /\ Shrinks(h, c, roots)
  BY CopyNewKeeps
<1>3. CopyCount = 2 => c.promo = WordsOf(c.survivors)
  <2> SUFFICES ASSUME CopyCount = 2 PROVE c.promo = WordsOf(c.survivors)
    OBVIOUS
  <2>1. kept \subseteq Young(h) /\ kept \in SUBSET Objects
    BY CopiedIsEnough
  <2> HIDE DEF kept
  <2>2. /\ c.survivors = kept \ Promoted(h, kept)
        /\ c.promo = WordsOf({o \in kept : AgeOf(h, o) = CopyCount - 1})
    BY <2>1, CopyNewFields
  <2>3. {o \in kept : AgeOf(h, o) = CopyCount - 1} = kept \ Promoted(h, kept)
    BY DEF AgeOf, Promoted
  <2> QED BY <2>2, <2>3
<1>4. /\ m \in HeapType
      /\ m.eden = c.eden /\ m.survivors = c.survivors /\ m.old = c.old /\ m.refs = c.refs
      /\ m.rem = c.rem /\ m.bit = c.bit /\ m.table = c.table /\ m.stub = c.stub
      /\ CopyCount = 2 => m.promo = c.promo
  <2>1. NewWords \in Nat
    BY SpacesOK DEF NewWords
  <2> HIDE DEF c
  <2> QED BY <2>1, <1>2 DEF Reserve, HeapType
<1>5. Sound(m, roots) /\ Shrinks(h, m, roots)
  <2> HIDE DEF c, m
  <2>1. Young(m) = Young(c) /\ Allocated(m) = Allocated(c)
    BY <1>4 DEF Young, Allocated
  <2>2. Sound(m, roots)
    BY <2>1, <1>2, <1>4 DEF Sound
  <2>3. Shrinks(h, m, roots)
    BY <2>1, <1>2, <1>4 DEF Shrinks
  <2> QED BY <2>2, <2>3
<1> HIDE DEF c, m
<1>6. CASE n = m
  BY <1>3, <1>4, <1>5, <1>6
<1>7. CASE n \in CompactOld(m, roots)
  <2>1. /\ n \in HeapType /\ Sound(n, roots) /\ Shrinks(m, n, roots)
        /\ n.promo = m.promo /\ n.survivors = m.survivors
    BY <1>4, <1>5, <1>7, CompactKeeps
  <2>2. Shrinks(h, n, roots)
    BY <2>1, <1>5, ShrinksTwice
  <2> QED BY <2>1, <2>2, <1>3, <1>4
<1> QED BY <1>1, <1>6, <1>7

-----------------------------------------------------------------------------
(* The inductive invariant. *)

Requests == [object : Objects \cup {Nil}, words : Nat, stub : BOOLEAN]

(* With two copies what is to be promoted was counted when it survived. *)
Reserved(h) == CopyCount = 2 => h.promo = WordsOf(h.survivors)

HInv ==
  /\ heap \in HeapType /\ stack \in SUBSET Objects /\ want \in Requests
  /\ Sound(heap, stack)
  /\ want.object # Nil => want.object \notin Allocated(heap)
  /\ Reserved(heap)
  /\ ~outOfMemory => ~Short(heap, 0)

LEMMA HeapStarts == Init => HInv
<1> SUFFICES ASSUME Init PROVE HInv
  OBVIOUS
<1>1. /\ heap.eden = {} /\ heap.survivors = {} /\ heap.old = {} /\ heap.refs = {}
      /\ heap.rem = {} /\ heap.bit = {} /\ heap.table = {} /\ heap.stub = {}
      /\ heap.nextGen = 0 /\ heap.promo = 0
  BY DEF Init
<1>2. heap \in HeapType
  BY DEF Init, HeapType
<1>3. Sound(heap, stack)
  BY <1>1 DEF Init, Sound, Young, Allocated
<1>4. Reserved(heap)
  BY <1>1, SizesAddUp DEF Reserved
<1>5. ~Short(heap, 0)
  BY <1>1, SpacesOK DEF Short, OldFree
<1>6. want \in Requests /\ want.object = Nil /\ stack = {}
  BY DEF Init, NoRequest, Requests
<1> QED BY <1>2, <1>3, <1>4, <1>5, <1>6 DEF HInv

(* More roots, or other ones, that are allocated. *)
LEMMA OtherRoots ==
  ASSUME NEW h, NEW roots, NEW others, Sound(h, roots), others \subseteq Allocated(h)
  PROVE  Sound(h, others)
BY DEF Sound

LEMMA MadeKeeps ==
  ASSUME NEW h \in HeapType, NEW roots, Sound(h, roots), want \in Requests,
         want.object \in Objects, want.object \notin Allocated(h), NEW where \in {"eden", "old"}
  PROVE  LET n == Made(h, where)
         IN /\ n \in HeapType /\ Sound(n, roots \cup {want.object})
            /\ h.table \subseteq n.table /\ n.promo = h.promo /\ n.survivors = h.survivors
            /\ n.nextGen = h.nextGen
<1> DEFINE x == want.object
           n == Made(h, where)
           eden == h.eden \cup (IF where = "eden" THEN {x} ELSE {})
           old == h.old \cup (IF where = "old" THEN {x} ELSE {})
           stub == IF want.stub THEN h.stub \cup {x} ELSE h.stub
           table == IF want.stub THEN h.table \cup {x} ELSE h.table
<1>1. n = [h EXCEPT !.eden = eden, !.old = old, !.stub = stub, !.table = table]
  BY DEF Made, HeapType
<1>2. eden \in SUBSET Objects /\ old \in SUBSET Objects /\ stub \in SUBSET Objects /\ table \in SUBSET Objects
  BY DEF HeapType
<1>3. /\ eden \cup old = h.eden \cup h.old \cup {x} /\ h.old \subseteq old /\ h.eden \subseteq eden
      /\ stub \subseteq h.stub \cup {x} /\ table \subseteq h.table \cup {x} /\ h.table \subseteq table
      /\ h.eden \cap h.old = {} => eden \cap old \subseteq {x} /\ (x \notin h.eden \cup h.old => eden \cap old = {})
      /\ eden \subseteq h.eden \cup {x} /\ old \subseteq h.old \cup {x}
  OBVIOUS
<1> HIDE DEF eden, old, stub, table, n
<1>4. n \in HeapType
  BY <1>1, <1>2 DEF HeapType
<1>5. /\ n.eden = eden /\ n.survivors = h.survivors /\ n.old = old /\ n.refs = h.refs
      /\ n.rem = h.rem /\ n.bit = h.bit /\ n.table = table /\ n.stub = stub
      /\ n.nextGen = h.nextGen /\ n.promo = h.promo
  BY <1>1 DEF HeapType
<1> HIDE DEF x
<1>6. x \notin Allocated(h)
  BY DEF x
<1>7. Allocated(n) = Allocated(h) \cup {x} /\ Young(n) \subseteq Young(h) \cup {x}
  BY <1>3, <1>5 DEF Allocated, Young
<1>8. n.eden \cap n.survivors = {} /\ Young(n) \cap n.old = {}
  <2>1. h.eden \cap h.survivors = {} /\ (h.eden \cup h.survivors) \cap h.old = {}
    BY DEF Sound, Young
  <2>2. x \notin h.eden /\ x \notin h.survivors /\ x \notin h.old
    BY <1>6 DEF Allocated, Young
  <2>3. eden \cap old = {}
    BY <2>1, <2>2, <1>3
  <2> QED BY <2>1, <2>2, <2>3, <1>3, <1>5 DEF Young
<1>9. ASSUME NEW e \in n.refs
      PROVE  /\ e[1] \in Allocated(n) /\ e[2] \in Allocated(n)
             /\ e[1] \in n.old /\ e[2] \in Young(n) => e[1] \in n.rem
  <2>1. e \in h.refs /\ e[1] \in Allocated(h) /\ e[2] \in Allocated(h)
    BY <1>5 DEF Sound
  <2>2. e[1] # x /\ e[2] # x
    BY <2>1, <1>6
  <2>3. e[1] \in n.old => e[1] \in h.old
    BY <2>2, <1>3, <1>5
  <2>4. e[2] \in Young(n) => e[2] \in Young(h)
    BY <2>2, <1>7
  <2>5. e[1] \in h.old /\ e[2] \in Young(h) => e[1] \in h.rem
    BY <2>1 DEF Sound
  <2> QED BY <2>1, <2>3, <2>4, <2>5, <1>5, <1>7
<1>10. roots \cup {x} \subseteq Allocated(n) /\ n.table \subseteq Allocated(n) /\ n.stub \subseteq Allocated(n)
  BY <1>3, <1>5, <1>7 DEF Sound
<1>11. n.rem \subseteq n.old /\ n.bit = n.rem
  BY <1>3, <1>5 DEF Sound
<1>12. Sound(n, roots \cup {x})
  BY <1>8, <1>9, <1>10, <1>11 DEF Sound
<1> QED BY <1>3, <1>4, <1>5, <1>12 DEF x, n

-----------------------------------------------------------------------------
(* The steps that collect. *)

LEMMA CollectedHeap ==
  ASSUME HInv, NEW n \in Gcollect(heap, stack)
  PROVE  /\ n \in HeapType /\ Sound(n, stack) /\ Shrinks(heap, n, stack) /\ Reserved(n)
         /\ want.object # Nil => want.object \notin Allocated(n)
<1>1. heap \in HeapType /\ Sound(heap, stack)
  BY DEF HInv
<1>2. /\ n \in HeapType /\ Sound(n, stack) /\ Shrinks(heap, n, stack)
      /\ CopyCount = 2 => n.promo = WordsOf(n.survivors)
  BY <1>1, GcollectKeeps
<1> QED BY <1>2 DEF HInv, Shrinks, Reserved

LEMMA CompactedHeap ==
  ASSUME HInv, NEW n \in Gcollect(heap, stack), NEW h \in CompactOld(n, stack)
  PROVE  /\ h \in HeapType /\ Sound(h, stack) /\ Shrinks(heap, h, stack) /\ Reserved(h)
         /\ want.object # Nil => want.object \notin Allocated(h)
         /\ ~Short(n, 0) => ~Short(h, 0)
<1>1. /\ n \in HeapType /\ Sound(n, stack) /\ Shrinks(heap, n, stack) /\ Reserved(n)
      /\ want.object # Nil => want.object \notin Allocated(n)
  BY CollectedHeap
<1>2. /\ h \in HeapType /\ Sound(h, stack) /\ Shrinks(n, h, stack)
      /\ h.nextGen <= n.nextGen /\ h.promo = n.promo /\ h.survivors = n.survivors
  BY <1>1, CompactKeeps
<1>3. Shrinks(heap, h, stack)
  BY <1>1, <1>2, ShrinksTwice
<1>4. h.nextGen \in Nat /\ n.nextGen \in Nat /\ h.promo \in Nat
  BY <1>1, <1>2 DEF HeapType
<1>5. ~Short(n, 0) => ~Short(h, 0)
  BY <1>2, <1>4, SpacesOK DEF Short, OldFree
<1> QED BY <1>1, <1>2, <1>3, <1>5 DEF Shrinks, Reserved

LEMMA CollectForRequestKeeps == HInv /\ CollectForRequest => HInv' /\ CopiesLeave
<1> SUFFICES ASSUME HInv, CollectForRequest PROVE HInv' /\ CopiesLeave
  OBVIOUS
<1>1. heap' \in Gcollect(heap, stack) /\ outOfMemory' = Short(heap', 0)
  BY DEF CollectForRequest, RunGcollect
<1>2. UNCHANGED <<stack, inhibit, want>>
  BY DEF CollectForRequest
<1>3. /\ heap' \in HeapType /\ Sound(heap', stack) /\ Shrinks(heap, heap', stack) /\ Reserved(heap')
      /\ want.object # Nil => want.object \notin Allocated(heap')
  BY <1>1, CollectedHeap
<1>4. stack \in SUBSET Objects /\ want \in Requests
  BY DEF HInv
<1>5. HInv'
  BY <1>1, <1>2, <1>3, <1>4 DEF HInv
<1>6. CopiesLeave
  BY <1>3 DEF CopiesLeave, Shrinks
<1> QED BY <1>5, <1>6

LEMMA MakeRoomKeeps ==
  ASSUME HInv, ~outOfMemory, NEW words, MakeRoom(words)
  PROVE  /\ heap' \in HeapType /\ Sound(heap', stack) /\ CopiesLeave /\ Reserved(heap')
         /\ want.object # Nil => want.object \notin Allocated(heap')
         /\ ~outOfMemory' => ~Short(heap', 0)
<1>1. CASE ~Short(heap, words)
  <2>1. UNCHANGED <<heap, outOfMemory>>
    BY <1>1 DEF MakeRoom
  <2> QED BY <2>1 DEF HInv, CopiesLeave
<1>2. CASE Short(heap, words)
  <2>1. PICK n \in Gcollect(heap, stack) :
          /\ heap' \in IF Short(n, words) THEN CompactOld(n, stack) ELSE {n}
          /\ outOfMemory' = Short(n, 0)
    BY <1>2 DEF MakeRoom
  <2>2. CASE heap' = n
    BY <2>1, <2>2, CollectedHeap DEF CopiesLeave, Shrinks
  <2>3. CASE heap' \in CompactOld(n, stack)
    BY <2>1, <2>3, CompactedHeap DEF CopiesLeave, Shrinks
  <2> QED BY <2>1, <2>2, <2>3
<1> QED BY <1>1, <1>2

LEMMA MadeInOld ==
  ASSUME HInv, want.object # Nil, NEW h \in HeapType, Sound(h, stack), Reserved(h),
         want.object \notin Allocated(h), ~OldShort(h, want.words)
  PROVE  LET n == [Made(h, "old") EXCEPT !.nextGen = @ + want.words]
         IN /\ n \in HeapType /\ Sound(n, stack \cup {want.object}) /\ Reserved(n)
            /\ h.table \subseteq n.table /\ ~Short(n, 0)
<1> DEFINE m == Made(h, "old")
           n == [m EXCEPT !.nextGen = @ + want.words]
<1>1. want \in Requests /\ want.object \in Objects /\ want.words \in Nat
  BY DEF HInv, Requests
<1>2. /\ m \in HeapType /\ Sound(m, stack \cup {want.object})
      /\ h.table \subseteq m.table /\ m.promo = h.promo /\ m.survivors = h.survivors
      /\ m.nextGen = h.nextGen
  BY <1>1, MadeKeeps
<1> HIDE DEF m
<1>3. n \in HeapType /\ n.nextGen = m.nextGen + want.words
  BY <1>1, <1>2 DEF HeapType
<1>4. /\ n.eden = m.eden /\ n.survivors = m.survivors /\ n.old = m.old /\ n.refs = m.refs
      /\ n.rem = m.rem /\ n.bit = m.bit /\ n.table = m.table /\ n.stub = m.stub
      /\ n.promo = m.promo
  BY <1>2 DEF HeapType
<1> HIDE DEF n
<1>5. Sound(n, stack \cup {want.object})
  <2>1. Young(n) = Young(m) /\ Allocated(n) = Allocated(m)
    BY <1>4 DEF Young, Allocated
  <2> QED BY <2>1, <1>2, <1>4 DEF Sound
<1>6. ~Short(n, 0)
  <2>1. h.nextGen \in Nat /\ h.promo \in Nat /\ OldWords \in Nat
    BY SpacesOK DEF HeapType
  <2> QED BY <2>1, <1>1, <1>2, <1>3, <1>4 DEF Short, OldShort, OldFree
<1>7. Reserved(n)
  BY <1>2, <1>4 DEF Reserved
<1> QED BY <1>2, <1>3, <1>4, <1>5, <1>6, <1>7 DEF n, m

LEMMA NothingWanted == NoRequest \in Requests /\ NoRequest.object = Nil
BY DEF NoRequest, Requests

LEMMA TakeNewKeeps == HInv /\ TakeNew => HInv' /\ CopiesLeave
<1> SUFFICES ASSUME HInv, TakeNew PROVE HInv' /\ CopiesLeave
  OBVIOUS
<1>1. /\ heap' = Made(heap, "eden") /\ stack' = stack \cup {want.object} /\ want' = NoRequest
      /\ want.object # Nil /\ ~outOfMemory /\ UNCHANGED outOfMemory
  BY DEF TakeNew
<1>2. /\ heap \in HeapType /\ Sound(heap, stack) /\ want \in Requests /\ want.object \in Objects
      /\ want.object \notin Allocated(heap) /\ stack \in SUBSET Objects /\ Reserved(heap)
      /\ ~Short(heap, 0)
  BY <1>1 DEF HInv, Requests
<1>3. /\ heap' \in HeapType /\ Sound(heap', stack') /\ heap.table \subseteq heap'.table
      /\ heap'.promo = heap.promo /\ heap'.survivors = heap.survivors
      /\ heap'.nextGen = heap.nextGen
  BY <1>1, <1>2, MadeKeeps
<1>4. Reserved(heap') /\ ~Short(heap', 0)
  BY <1>2, <1>3 DEF Reserved, Short, OldFree
<1>5. HInv'
  BY <1>1, <1>2, <1>3, <1>4, NothingWanted DEF HInv
<1>6. CopiesLeave
  BY <1>3 DEF CopiesLeave
<1> QED BY <1>5, <1>6

LEMMA TakeOldKeeps == HInv /\ TakeOld => HInv' /\ CopiesLeave
<1> SUFFICES ASSUME HInv, TakeOld PROVE HInv' /\ CopiesLeave
  OBVIOUS
<1> DEFINE mustCollect == OldShort(heap, want.words)
           Answer(h, fails) ==
             /\ outOfMemory' = fails
             /\ IF fails THEN UNCHANGED <<heap, stack, want>>
                ELSE /\ heap' = [Made(h, "old") EXCEPT !.nextGen = @ + want.words]
                     /\ stack' = stack \cup {want.object} /\ want' = NoRequest
<1>1. /\ ~outOfMemory /\ want.object # Nil
      /\ \/ ~mustCollect /\ Answer(heap, FALSE)
         \/ mustCollect /\ Answer(heap, TRUE)
         \/ \E n \in Gcollect(heap, stack) : \E h \in CompactOld(n, stack) :
               Answer(h, Short(n, 0) \/ OldShort(h, want.words))
  BY DEF TakeOld
<1>2. /\ heap \in HeapType /\ Sound(heap, stack) /\ want \in Requests /\ want.object \in Objects
      /\ want.object \notin Allocated(heap) /\ stack \in SUBSET Objects /\ Reserved(heap)
      /\ ~Short(heap, 0)
  BY <1>1 DEF HInv, Requests
<1>3. ASSUME NEW h \in HeapType, Sound(h, stack), Reserved(h), want.object \notin Allocated(h),
             ~OldShort(h, want.words), h.table \subseteq heap.table,
             heap.table \ h.table \subseteq (heap.stub \cup Immutable) \ stack, Answer(h, FALSE)
      PROVE  HInv' /\ CopiesLeave
  <2> DEFINE n == [Made(h, "old") EXCEPT !.nextGen = @ + want.words]
  <2>1. outOfMemory' = FALSE /\ heap' = n /\ stack' = stack \cup {want.object} /\ want' = NoRequest
    BY <1>3
  <2>2. /\ n \in HeapType /\ Sound(n, stack \cup {want.object}) /\ Reserved(n)
        /\ h.table \subseteq n.table /\ ~Short(n, 0)
    BY <1>1, <1>3, MadeInOld
  <2> HIDE DEF n
  <2>3. HInv'
    BY <2>1, <2>2, <1>2, NothingWanted DEF HInv
  <2>4. CopiesLeave
    BY <2>1, <2>2, <1>3 DEF CopiesLeave
  <2> QED BY <2>3, <2>4
<1>4. ASSUME NEW h, Answer(h, TRUE) PROVE HInv' /\ CopiesLeave
  <2>1. UNCHANGED <<heap, stack, want>> /\ outOfMemory'
    BY <1>4
  <2> QED BY <2>1 DEF HInv, CopiesLeave
<1>5. CASE ~mustCollect /\ Answer(heap, FALSE)
  BY <1>2, <1>3, <1>5
<1>6. CASE mustCollect /\ Answer(heap, TRUE)
  BY <1>4, <1>6
<1>7. ASSUME NEW n \in Gcollect(heap, stack), NEW h \in CompactOld(n, stack),
             Answer(h, Short(n, 0) \/ OldShort(h, want.words))
      PROVE  HInv' /\ CopiesLeave
  <2>1. /\ h \in HeapType /\ Sound(h, stack) /\ Shrinks(heap, h, stack) /\ Reserved(h)
        /\ want.object \notin Allocated(h)
    BY <1>1, CompactedHeap
  <2>2. CASE Short(n, 0) \/ OldShort(h, want.words)
    <3>1. UNCHANGED <<heap, stack, want>> /\ outOfMemory'
      BY <1>7, <2>2
    <3> QED BY <3>1 DEF HInv, CopiesLeave
  <2>3. CASE ~(Short(n, 0) \/ OldShort(h, want.words))
    <3>1. Answer(h, FALSE)
      BY <1>7, <2>3
    <3>2. h.table \subseteq heap.table /\ heap.table \ h.table \subseteq (heap.stub \cup Immutable) \ stack
      BY <2>1 DEF Shrinks
    <3> HIDE DEF Answer
    <3> QED BY <1>3, <2>1, <2>3, <3>1, <3>2
  <2> QED BY <2>2, <2>3
<1> HIDE DEF Answer
<1> QED BY <1>1, <1>5, <1>6, <1>7

LEMMA EnsuredKeeps == HInv /\ Ensured => HInv' /\ CopiesLeave
<1> SUFFICES ASSUME HInv, Ensured PROVE HInv' /\ CopiesLeave
  OBVIOUS
<1>1. ~outOfMemory /\ MakeRoom(want.words) /\ want' = NoRequest /\ UNCHANGED stack
  BY DEF Ensured
<1>2. /\ heap' \in HeapType /\ Sound(heap', stack) /\ CopiesLeave /\ Reserved(heap')
      /\ ~outOfMemory' => ~Short(heap', 0)
  BY <1>1, MakeRoomKeeps
<1>3. stack \in SUBSET Objects
  BY DEF HInv
<1> QED BY <1>1, <1>2, <1>3, NothingWanted DEF HInv

LEMMA AnticipateKeeps ==
  ASSUME HInv, NEW words \in Anticipated, AnticipateGC(words)
  PROVE  HInv' /\ CopiesLeave
<1>1. ~outOfMemory /\ UNCHANGED <<stack, want>>
  BY DEF AnticipateGC, Running
<1>2. stack \in SUBSET Objects /\ want \in Requests
  BY DEF HInv
<1>3. CASE MakeRoom(words)
  <2>1. /\ heap' \in HeapType /\ Sound(heap', stack) /\ CopiesLeave /\ Reserved(heap')
        /\ want.object # Nil => want.object \notin Allocated(heap')
        /\ ~outOfMemory' => ~Short(heap', 0)
    BY <1>1, <1>3, MakeRoomKeeps
  <2> QED BY <2>1, <1>1, <1>2 DEF HInv
<1>4. CASE UNCHANGED <<heap, left, outOfMemory>>
  BY <1>1, <1>4 DEF HInv, CopiesLeave
<1> QED BY <1>3, <1>4 DEF AnticipateGC

-----------------------------------------------------------------------------
(* The steps of processes and handlers. *)

(* A heap whose spaces and sizes are as before. *)
SameSpaces(h, n) ==
  /\ n.eden = h.eden /\ n.survivors = h.survivors /\ n.old = h.old
  /\ n.nextGen = h.nextGen /\ n.promo = h.promo

LEMMA SpacesKept ==
  ASSUME HInv, SameSpaces(heap, heap'), heap' \in HeapType, Sound(heap', stack'),
         stack' \in SUBSET Objects, UNCHANGED <<want, outOfMemory>>
  PROVE  HInv'
<1>1. Allocated(heap') = Allocated(heap)
  BY DEF SameSpaces, Allocated, Young
<1>2. Reserved(heap') /\ (~outOfMemory' => ~Short(heap', 0))
  BY DEF HInv, SameSpaces, Reserved, Short, OldFree
<1> QED BY <1>1, <1>2 DEF HInv

LEMMA StoreKeeps ==
  ASSUME HInv, NEW o \in Objects, NEW p \in Objects, Store(o, p)
  PROVE  HInv' /\ CopiesLeave
<1> DEFINE refs == {e \in heap.refs : e[1] # o} \cup {<<o, p>>}
           h == [heap EXCEPT !.refs = refs]
<1>1. /\ {o, p} \subseteq stack /\ heap' = StoCheck(h, o, p)
      /\ UNCHANGED <<stack, want, outOfMemory>>
  BY DEF Store, Keep
<1>2. heap \in HeapType /\ Sound(heap, stack) /\ stack \in SUBSET Objects
  BY DEF HInv
<1>3. refs \subseteq Objects \X Objects
  BY <1>2 DEF HeapType
<1> HIDE DEF refs
<1>4. /\ h \in HeapType /\ SameSpaces(heap, h) /\ h.refs = refs
      /\ h.rem = heap.rem /\ h.bit = heap.bit /\ h.table = heap.table /\ h.stub = heap.stub
  BY <1>2, <1>3 DEF HeapType, SameSpaces
<1> HIDE DEF h
<1>5. /\ heap' \in HeapType /\ SameSpaces(heap, heap') /\ heap'.refs = refs
      /\ heap'.table = heap.table /\ heap'.stub = heap.stub
      /\ heap'.bit = heap'.rem /\ heap'.rem \subseteq heap.rem \cup (heap.old \cap {o})
      /\ heap.rem \subseteq heap'.rem
      /\ o \in heap.old /\ p \in Young(heap) => o \in heap'.rem
  <2>1. heap.bit = heap.rem /\ h.old = heap.old /\ Young(h) = Young(heap)
    BY <1>2, <1>4 DEF Sound, SameSpaces, Young
  <2>2. CASE heap' = h
    <3>1. ~(o \in heap.old /\ p \in Young(heap)) \/ o \in heap.rem
      <4>1. CASE o \in h.old /\ p \in Young(h)
        <5>1. h = Remember(h, o)
          BY <1>1, <2>2, <4>1 DEF StoCheck
        <5>2. CASE o \in h.bit
          BY <5>2, <2>1, <1>4
        <5>3. CASE o \notin h.bit
          <6>1. h.bit = h.bit \cup {o}
            <7>1. h = [h EXCEPT !.rem = @ \cup {o}, !.bit = @ \cup {o}]
              BY <5>1, <5>3 DEF Remember
            <7> QED BY <7>1, <1>4 DEF HeapType
          <6> QED BY <6>1, <5>3
        <5> QED BY <5>2, <5>3
      <4> QED BY <4>1, <2>1
    <3> QED BY <3>1, <2>1, <2>2, <1>4
  <2>3. CASE heap' = [h EXCEPT !.rem = @ \cup {o}, !.bit = @ \cup {o}] /\ o \in heap.old
    <3>1. /\ heap' \in HeapType /\ heap'.rem = h.rem \cup {o} /\ heap'.bit = h.bit \cup {o}
          /\ heap'.refs = h.refs /\ heap'.table = h.table /\ heap'.stub = h.stub
      BY <2>3, <1>4 DEF HeapType
    <3>2. SameSpaces(heap, heap')
      BY <2>3, <1>4 DEF HeapType, SameSpaces
    <3> QED BY <3>1, <3>2, <2>1, <2>3, <1>4
  <2> QED BY <1>1, <2>1, <2>2, <2>3 DEF StoCheck, Remember
<1>6. /\ Young(heap') = Young(heap) /\ Allocated(heap') = Allocated(heap)
      /\ heap'.old = heap.old /\ heap'.eden = heap.eden /\ heap'.survivors = heap.survivors
  BY <1>5 DEF SameSpaces, Young, Allocated
<1>7. ASSUME NEW e \in refs
      PROVE  /\ e[1] \in Allocated(heap) /\ e[2] \in Allocated(heap)
             /\ e[1] \in heap.old /\ e[2] \in Young(heap) => e[1] \in heap'.rem
  <2>1. CASE e \in heap.refs
    BY <2>1, <1>2, <1>5 DEF Sound
  <2>2. CASE e = <<o, p>>
    BY <2>2, <1>1, <1>2, <1>5 DEF Sound
  <2> QED BY <2>1, <2>2 DEF refs
<1>8. Sound(heap', stack)
  BY <1>2, <1>5, <1>6, <1>7 DEF Sound
<1>9. HInv'
  BY <1>1, <1>2, <1>5, <1>8, SpacesKept
<1>10. CopiesLeave
  BY <1>5 DEF CopiesLeave
<1> QED BY <1>9, <1>10

LEMMA BecomeStubKeeps ==
  ASSUME HInv, NEW o \in Objects, BecomeStub(o)
  PROVE  HInv' /\ CopiesLeave
<1> DEFINE refs == {e \in heap.refs : e[1] # o}
<1>1. /\ o \in heap.table /\ UNCHANGED <<stack, want, outOfMemory>>
      /\ heap' = [heap EXCEPT !.stub = @ \cup {o}, !.refs = refs]
  BY DEF BecomeStub, Keep
<1>2. heap \in HeapType /\ Sound(heap, stack) /\ stack \in SUBSET Objects
  BY DEF HInv
<1>3. refs \subseteq heap.refs
  OBVIOUS
<1> HIDE DEF refs
<1>4. /\ heap' \in HeapType /\ SameSpaces(heap, heap') /\ heap'.refs = refs
      /\ heap'.rem = heap.rem /\ heap'.bit = heap.bit /\ heap'.table = heap.table
      /\ heap'.stub = heap.stub \cup {o}
  BY <1>1, <1>2, <1>3 DEF HeapType, SameSpaces
<1>5. /\ Young(heap') = Young(heap) /\ Allocated(heap') = Allocated(heap)
      /\ heap'.old = heap.old /\ heap'.eden = heap.eden /\ heap'.survivors = heap.survivors
  BY <1>4 DEF SameSpaces, Young, Allocated
<1>6. Sound(heap', stack)
  BY <1>1, <1>2, <1>3, <1>4, <1>5 DEF Sound
<1>7. HInv'
  BY <1>1, <1>2, <1>4, <1>6, SpacesKept
<1> QED BY <1>4, <1>7 DEF CopiesLeave

LEMMA NewOIDKeeps ==
  ASSUME HInv, NEW o \in Objects, NewOID(o)
  PROVE  HInv' /\ CopiesLeave
<1>1. /\ o \in stack /\ UNCHANGED <<stack, want, outOfMemory>>
      /\ heap' = [heap EXCEPT !.table = @ \cup {o}]
  BY DEF NewOID, Keep
<1>2. heap \in HeapType /\ Sound(heap, stack) /\ stack \in SUBSET Objects
  BY DEF HInv
<1>3. /\ heap' \in HeapType /\ SameSpaces(heap, heap') /\ heap'.refs = heap.refs
      /\ heap'.rem = heap.rem /\ heap'.bit = heap.bit /\ heap'.table = heap.table \cup {o}
      /\ heap'.stub = heap.stub
  BY <1>1, <1>2 DEF HeapType, SameSpaces
<1>4. /\ Young(heap') = Young(heap) /\ Allocated(heap') = Allocated(heap)
      /\ heap'.old = heap.old /\ heap'.eden = heap.eden /\ heap'.survivors = heap.survivors
  BY <1>3 DEF SameSpaces, Young, Allocated
<1>5. Sound(heap', stack)
  BY <1>1, <1>2, <1>3, <1>4 DEF Sound
<1>6. HInv'
  BY <1>1, <1>2, <1>3, <1>5, SpacesKept
<1> QED BY <1>3, <1>6 DEF CopiesLeave

LEMMA MoveInKeeps ==
  ASSUME HInv, NEW o \in Objects, MoveIn(o)
  PROVE  HInv' /\ CopiesLeave
<1>1. /\ o \in heap.stub /\ stack' = stack \cup {o} /\ UNCHANGED <<want, outOfMemory>>
      /\ heap' = [heap EXCEPT !.stub = @ \ {o}]
  BY DEF MoveIn, Keep
<1>2. heap \in HeapType /\ Sound(heap, stack) /\ stack \in SUBSET Objects
  BY DEF HInv
<1>3. /\ heap' \in HeapType /\ SameSpaces(heap, heap') /\ heap'.refs = heap.refs
      /\ heap'.rem = heap.rem /\ heap'.bit = heap.bit /\ heap'.table = heap.table
      /\ heap'.stub = heap.stub \ {o}
  BY <1>1, <1>2 DEF HeapType, SameSpaces
<1>4. /\ Young(heap') = Young(heap) /\ Allocated(heap') = Allocated(heap)
      /\ heap'.old = heap.old /\ heap'.eden = heap.eden /\ heap'.survivors = heap.survivors
  BY <1>3 DEF SameSpaces, Young, Allocated
<1>5. Sound(heap', stack')
  BY <1>1, <1>2, <1>3, <1>4 DEF Sound
<1>6. HInv'
  BY <1>1, <1>2, <1>3, <1>5, SpacesKept
<1> QED BY <1>3, <1>6 DEF CopiesLeave

(* The heap stays as it is, and what is on the stacks is allocated. *)
LEMMA HeapUntouched ==
  ASSUME HInv, UNCHANGED <<heap, outOfMemory>>, stack' \subseteq Allocated(heap),
         stack' \in SUBSET Objects, want' \in Requests,
         want'.object # Nil => want'.object \notin Allocated(heap)
  PROVE  HInv' /\ CopiesLeave
<1>1. Sound(heap', stack')
  BY OtherRoots DEF HInv
<1> QED BY <1>1 DEF HInv, CopiesLeave

LEMMA RequestKeeps ==
  ASSUME HInv, NEW o \in Objects, NEW stub \in BOOLEAN, Request(o, stub)
  PROVE  HInv' /\ CopiesLeave
<1>1. want' \in Requests /\ want'.object = o
  BY SizesAddUp DEF Request, Requests
<1>2. stack \subseteq Allocated(heap) /\ stack \in SUBSET Objects
  BY DEF HInv, Sound
<1> QED BY <1>1, <1>2, HeapUntouched DEF Request

LEMMA EnsureSpaceKeeps ==
  ASSUME HInv, NEW words \in Anticipated, EnsureSpace(words)
  PROVE  HInv' /\ CopiesLeave
<1>1. want' \in Requests /\ want'.object = Nil
  BY SpacesOK DEF EnsureSpace, Requests
<1>2. stack \subseteq Allocated(heap) /\ stack \in SUBSET Objects
  BY DEF HInv, Sound
<1> QED BY <1>1, <1>2, HeapUntouched DEF EnsureSpace

LEMMA RootsMove ==
  ASSUME HInv, \/ AllowGC \/ UNCHANGED vars
               \/ \E o \in Objects : Load(o) \/ Drop(o) \/ OIDFetch(o)
  PROVE  HInv' /\ CopiesLeave
<1>1. /\ stack \subseteq Allocated(heap) /\ stack \in SUBSET Objects /\ want \in Requests
      /\ want.object # Nil => want.object \notin Allocated(heap)
      /\ heap \in HeapType /\ heap.table \subseteq Allocated(heap)
      /\ \A e \in heap.refs : e[2] \in Allocated(heap)
  BY DEF HInv, Sound
<1>2. CASE AllowGC \/ UNCHANGED vars
  BY <1>1, <1>2, HeapUntouched DEF AllowGC, vars
<1>3. ASSUME NEW o \in Objects, Load(o) PROVE HInv' /\ CopiesLeave
  <2>1. Fields(heap, {o}) \subseteq Allocated(heap) /\ Fields(heap, {o}) \subseteq Objects
    BY <1>1 DEF Fields, HeapType
  <2> QED BY <1>1, <1>3, <2>1, HeapUntouched DEF Load, Keep
<1>4. ASSUME NEW o \in Objects, Drop(o) PROVE HInv' /\ CopiesLeave
  BY <1>1, <1>4, HeapUntouched DEF Drop, Keep
<1>5. ASSUME NEW o \in Objects, OIDFetch(o) PROVE HInv' /\ CopiesLeave
  BY <1>1, <1>5, HeapUntouched DEF OIDFetch, Keep
<1> QED BY <1>2, <1>3, <1>4, <1>5

LEMMA HeapStep == HInv /\ [Next]_vars => HInv' /\ CopiesLeave
<1> SUFFICES ASSUME HInv, [Next]_vars PROVE HInv' /\ CopiesLeave
  OBVIOUS
<1>1. CASE UNCHANGED vars \/ Stopped \/ AllowGC
  BY <1>1, RootsMove DEF Stopped
<1>2. CASE Next
  <2>1. ASSUME NEW o \in Objects, NEW stub \in BOOLEAN, Request(o, stub) PROVE HInv' /\ CopiesLeave
    BY <2>1, RequestKeeps
  <2>2. CASE Collecting
    BY <2>2, CollectForRequestKeeps, TakeOldKeeps, EnsuredKeeps DEF Collecting
  <2>3. ASSUME NEW n \in Anticipated, AnticipateGC(n) PROVE HInv' /\ CopiesLeave
    BY <2>3, AnticipateKeeps
  <2>4. CASE TakeNew
    BY <2>4, TakeNewKeeps
  <2>5. ASSUME NEW n \in Anticipated, EnsureSpace(n) PROVE HInv' /\ CopiesLeave
    BY <2>5, EnsureSpaceKeeps
  <2>6. ASSUME NEW o \in Objects, NEW p \in Objects, Store(o, p) PROVE HInv' /\ CopiesLeave
    BY <2>6, StoreKeeps
  <2>7. ASSUME NEW o \in Objects, Load(o) \/ Drop(o) \/ OIDFetch(o) PROVE HInv' /\ CopiesLeave
    BY <2>7, RootsMove
  <2>8. ASSUME NEW o \in Objects, NewOID(o) \/ BecomeStub(o) \/ MoveIn(o) PROVE HInv' /\ CopiesLeave
    BY <2>8, NewOIDKeeps, BecomeStubKeeps, MoveInKeeps
  <2> QED BY <1>1, <1>2, <2>1, <2>2, <2>3, <2>4, <2>5, <2>6, <2>7, <2>8, Zenon DEF Next
<1> QED BY <1>1, <1>2

LEMMA HeapInvariant == Spec => []HInv
<1>1. HInv /\ [Next]_vars => HInv'
  BY HeapStep
<1> QED BY HeapStarts, <1>1, PTL DEF Spec

LEMMA HInvIsEnough == HInv => Remembered /\ NoDangling
<1> SUFFICES ASSUME HInv PROVE Remembered /\ NoDangling
  OBVIOUS
<1>1. heap \in HeapType /\ Sound(heap, stack)
  BY DEF HInv
<1>2. Fields(heap, Objects) \subseteq Allocated(heap)
  BY <1>1 DEF Fields, Sound
<1> QED BY <1>1, <1>2 DEF Remembered, NoDangling, Sound

(* No object that a process, a field or an OID refers to is discarded by a *)
(* collection of either space, whatever is stored, moved in or turned into *)
(* a stub in between: the remembered set has each object of old space that *)
(* refers to new space.  For any objects, sizes and number of copies.      *)
THEOREM NothingDangles == Spec => [](Remembered /\ NoDangling)
BY HeapInvariant, HInvIsEnough, PTL

(* With two copies (the default, gc.c:102) a promotion has room too: what  *)
(* is promoted was counted when it survived, and gcollect, gc_malloc_old   *)
(* and anticipateGC leave that much of old space.                          *)
THEOREM PromotionsFit == CopyCount = 2 => (Spec => []NoneDangles)
<1> SUFFICES ASSUME CopyCount = 2 PROVE Spec => []NoneDangles
  OBVIOUS
<1>1. HInv => CollectionFits
  <2> SUFFICES ASSUME HInv PROVE CollectionFits
    OBVIOUS
  <2>1. {o \in Young(heap) : AgeOf(heap, o) >= CopyCount} = heap.survivors
    BY DEF Young, AgeOf
  <2>2. heap.promo = WordsOf(heap.survivors) /\ heap.promo \in Nat
    BY DEF HInv, Reserved, HeapType
  <2> QED BY <2>1, <2>2 DEF HInv, CollectionFits
<1>2. HInv => NoneDangles
  BY <1>1, HInvIsEnough DEF NoneDangles
<1> QED BY HeapInvariant, <1>2, PTL

(* An object leaves the table of OIDs only as a stub, or as a copy of an   *)
(* immutable object, that no process has: a resident mutable object with   *)
(* an OID is never discarded.                                              *)
THEOREM CopiesStay == Spec => OnlyCopiesLeaveTheTable
<1>1. HInv /\ [Next]_vars => [CopiesLeave]_vars
  BY HeapStep
<1> QED BY HeapInvariant, <1>1, PTL DEF Spec, OnlyCopiesLeaveTheTable

-----------------------------------------------------------------------------
(* ObjectRequest: sequences of handlers and of messages. *)

Within(s) == Fetching!ToSet(s)

LEMMA WithinIs ==
  ASSUME NEW S, NEW s \in Seq(S), NEW x
  PROVE  x \in Within(s) <=> \E i \in 1..Len(s) : s[i] = x
BY DEF Within, Fetching!ToSet

LEMMA Pushed ==
  ASSUME NEW S, NEW s \in Seq(S), NEW x \in S
  PROVE  LET t == <<x>> \o s
         IN /\ t \in Seq(S) /\ Len(t) = Len(s) + 1 /\ t[1] = x
            /\ \A i \in 1..Len(t) : i = 1 \/ (i - 1 \in 1..Len(s) /\ t[i] = s[i - 1])
            /\ \A i \in 1..Len(s) : i + 1 \in 1..Len(t) /\ t[i + 1] = s[i]
OBVIOUS

LEMMA Replaced ==
  ASSUME NEW S, NEW s \in Seq(S), s # <<>>, NEW x \in S
  PROVE  LET t == <<x>> \o Tail(s)
         IN /\ t \in Seq(S) /\ Len(t) = Len(s) /\ t[1] = x
            /\ \A i \in 1..Len(s) : i = 1 \/ t[i] = s[i]
OBVIOUS

LEMMA Removed ==
  ASSUME NEW S, NEW s \in Seq(S), s # <<>>
  PROVE  LET t == <<>> \o Tail(s)
         IN /\ t \in Seq(S) /\ Len(t) = Len(s) - 1 /\ Len(s) \in Nat \ {0}
            /\ \A i \in 1..Len(t) : i + 1 \in 1..Len(s) /\ t[i] = s[i + 1]
            /\ \A i \in 1..Len(s) : i = 1 \/ (i - 1 \in 1..Len(t) /\ t[i - 1] = s[i])
OBVIOUS

LEMMA Appended ==
  ASSUME NEW S, NEW s \in Seq(S), NEW x \in S
  PROVE  LET t == Append(s, x)
         IN t \in Seq(S) /\ x \in Within(t) /\ Within(s) \subseteq Within(t)
<1> DEFINE t == Append(s, x)
<1>1. /\ t \in Seq(S) /\ Len(t) = Len(s) + 1 /\ Len(s) \in Nat /\ t[Len(t)] = x
      /\ \A i \in 1..Len(s) : t[i] = s[i]
  OBVIOUS
<1> HIDE DEF t
<1>2. x \in Within(t)
  BY <1>1, WithinIs
<1>3. ASSUME NEW y \in Within(s) PROVE y \in Within(t)
  <2>1. PICK i \in 1..Len(s) : s[i] = y
    BY WithinIs
  <2>2. i \in 1..Len(t) /\ t[i] = y
    BY <1>1, <2>1
  <2> QED BY <1>1, <2>2, WithinIs
<1> QED BY <1>1, <1>2, <1>3 DEF t

LEMMA Served ==
  ASSUME NEW S, NEW s \in Seq(S), s # <<>>
  PROVE  /\ Head(s) \in S /\ Tail(s) \in Seq(S)
         /\ \A y \in Within(s) : y = Head(s) \/ y \in Within(Tail(s))
<1>1. /\ Head(s) \in S /\ Head(s) = s[1] /\ Tail(s) \in Seq(S) /\ Len(Tail(s)) = Len(s) - 1
      /\ Len(s) \in Nat /\ \A i \in 1..Len(s) : i = 1 \/ (i - 1 \in 1..Len(Tail(s)) /\ Tail(s)[i - 1] = s[i])
  OBVIOUS
<1>2. ASSUME NEW y \in Within(s) PROVE y = Head(s) \/ y \in Within(Tail(s))
  <2>1. PICK i \in 1..Len(s) : s[i] = y
    BY WithinIs
  <2>2. CASE i = 1
    BY <1>1, <2>1, <2>2
  <2>3. CASE i # 1
    BY <1>1, <2>1, <2>3, WithinIs
  <2> QED BY <2>2, <2>3
<1> QED BY <1>1, <1>2

LEMMA AppendedOnly ==
  ASSUME NEW S, NEW s \in Seq(S), NEW x \in S, NEW y \in Within(Append(s, x))
  PROVE  y \in Within(s) \/ y = x
<1> DEFINE t == Append(s, x)
<1>1. /\ t \in Seq(S) /\ Len(t) = Len(s) + 1 /\ Len(s) \in Nat /\ t[Len(t)] = x
      /\ \A i \in 1..Len(s) : t[i] = s[i]
  OBVIOUS
<1> HIDE DEF t
<1>2. PICK i \in 1..Len(t) : t[i] = y
  BY <1>1, WithinIs DEF t
<1>3. CASE i = Len(t)
  BY <1>1, <1>2, <1>3
<1>4. CASE i # Len(t)
  <2>1. i \in 1..Len(s)
    BY <1>1, <1>4
  <2> QED BY <1>1, <1>2, <2>1, WithinIs
<1> QED BY <1>3, <1>4

LEMMA ServedOnly ==
  ASSUME NEW S, NEW s \in Seq(S), s # <<>>
  PROVE  Head(s) \in Within(s) /\ Within(Tail(s)) \subseteq Within(s)
<1> DEFINE t == Tail(s)
<1>1. /\ Head(s) = s[1] /\ 1 \in 1..Len(s) /\ t \in Seq(S)
      /\ \A i \in 1..Len(t) : i + 1 \in 1..Len(s) /\ t[i] = s[i + 1]
  OBVIOUS
<1> HIDE DEF t
<1>2. ASSUME NEW y \in Within(t) PROVE y \in Within(s)
  <2>1. PICK i \in 1..Len(t) : t[i] = y
    BY <1>1, WithinIs
  <2> QED BY <1>1, <2>1, WithinIs
<1>3. Head(s) \in Within(s)
  BY <1>1, WithinIs
<1> QED BY <1>2, <1>3 DEF t

Handlers == [from : Nodes, needs : Seq(Objects), makes : Seq(Objects), asked : BOOLEAN]
Messages == [kind : {"Mention", "ObjectRequest", "ObjectReply", "NotFound"}, object : Objects]
Told == [Nodes -> SUBSET (Nodes \X Objects)]
Uses == [Fetching!Kinds -> Nat]

FetchTypes ==
  /\ has \in [Nodes -> [Objects -> Nat]]
  /\ handlers \in [Nodes -> Seq(Handlers)]
  /\ chan \in [Nodes -> [Nodes -> Seq(Messages)]]
  /\ unknown \in Told /\ used \in Uses

(* Who has asked needs something; who makes an object waits for those of   *)
(* its types that are not here.                                            *)
Asking(h) == h.asked => h.needs # <<>>
Making(n, h) ==
  h.makes # <<>> =>
    \E o \in Objects :
      /\ h.makes = <<o>>
      /\ \A t \in Within(TypesOf[o]) : has[n][t] > 0 \/ t \in Within(h.needs)

(* What n asked s for is on its way, or the answer is that s has it not.   *)
OnItsWay(n, s, o, c, told) ==
  \/ Fetching!Msg("ObjectRequest", o) \in Within(c[n][s])
  \/ Fetching!Msg("ObjectReply", o) \in Within(c[s][n])
  \/ Fetching!Msg("NotFound", o) \in Within(c[s][n]) \/ <<s, o>> \in told[n]

(* The object i waits for is here, or something that brings it. *)
Comes(n, i) ==
  LET o == Head(handlers[n][i].needs)
      s == handlers[n][i].from
  IN \/ has[n][o] > 0 \/ OnItsWay(n, s, o, chan, unknown)
     \/ \E j \in 1..Len(handlers[n]) : j < i /\ handlers[n][j].makes = <<o>>

FInv ==
  /\ FetchTypes
  /\ \A n \in Nodes, o \in Objects : has[n][o] <= 1
  /\ \A n \in Nodes, o \in Objects : has[n][o] > 0 => \A t \in Within(TypesOf[o]) : has[n][t] > 0
  /\ \A n \in Nodes : \A i \in 1..Len(handlers[n]) :
       /\ Asking(handlers[n][i]) /\ Making(n, handlers[n][i])
       /\ handlers[n][i].asked => Comes(n, i)

-----------------------------------------------------------------------------
(* ObjectRequest: what a message or a handler changes. *)

Chans == [Nodes -> [Nodes -> Seq(Messages)]]

LEMMA SendKeeps ==
  ASSUME NEW c \in Chans, NEW a \in Nodes, NEW b \in Nodes, NEW m \in Messages
  PROVE  LET d == [c EXCEPT ![a][b] = Append(@, m)]
         IN /\ d \in Chans /\ m \in Within(d[a][b])
            /\ \A s, n \in Nodes : Within(c[s][n]) \subseteq Within(d[s][n])
<1> DEFINE q == Append(c[a][b], m)
           d == [c EXCEPT ![a][b] = Append(@, m)]
<1>1. q \in Seq(Messages) /\ m \in Within(q) /\ Within(c[a][b]) \subseteq Within(q)
  <2>1. c[a][b] \in Seq(Messages)
    BY DEF Chans
  <2> QED BY <2>1, Appended
<1>2. /\ d \in Chans /\ d[a][b] = q
      /\ \A s, n \in Nodes : d[s][n] = IF s = a /\ n = b THEN q ELSE c[s][n]
  <2>1. d = [c EXCEPT ![a][b] = q]
    BY DEF Chans
  <2> HIDE DEF q, d
  <2> QED BY <1>1, <2>1 DEF Chans
<1> HIDE DEF q, d
<1>3. \A s, n \in Nodes : Within(c[s][n]) \subseteq Within(d[s][n])
  BY <1>1, <1>2
<1> QED BY <1>1, <1>2, <1>3 DEF d

LEMMA ServeKeeps ==
  ASSUME NEW c \in Chans, NEW a \in Nodes, NEW b \in Nodes, c[a][b] # <<>>
  PROVE  LET d == [c EXCEPT ![a][b] = Tail(@)]
         IN /\ d \in Chans /\ Head(c[a][b]) \in Messages
            /\ \A s, n \in Nodes : \A m \in Within(c[s][n]) :
                 m \in Within(d[s][n]) \/ (s = a /\ n = b /\ m = Head(c[a][b]))
<1> DEFINE q == Tail(c[a][b])
           d == [c EXCEPT ![a][b] = Tail(@)]
<1>1. /\ Head(c[a][b]) \in Messages /\ q \in Seq(Messages)
      /\ \A m \in Within(c[a][b]) : m = Head(c[a][b]) \/ m \in Within(q)
  <2>1. c[a][b] \in Seq(Messages)
    BY DEF Chans
  <2> QED BY <2>1, Served
<1>2. /\ d \in Chans /\ d[a][b] = q
      /\ \A s, n \in Nodes : d[s][n] = IF s = a /\ n = b THEN q ELSE c[s][n]
  <2>1. d = [c EXCEPT ![a][b] = q]
    BY DEF Chans
  <2> HIDE DEF q, d
  <2> QED BY <1>1, <2>1 DEF Chans
<1> HIDE DEF q, d
<1>3. \A s, n \in Nodes : \A m \in Within(c[s][n]) :
        m \in Within(d[s][n]) \/ (s = a /\ n = b /\ m = Head(c[a][b]))
  BY <1>1, <1>2
<1> QED BY <1>1, <1>2, <1>3 DEF d

(* What is on its way stays so, or it is answered, but for replies with    *)
(* what is here, or is made next at a node.                                *)
KeepsReplies(node, makes) ==
  \A s, n \in Nodes, o \in Objects :
    OnItsWay(n, s, o, chan, unknown)
      => OnItsWay(n, s, o, chan', unknown') \/ has[n][o] > 0 \/ (n = node /\ makes = <<o>>)

LEMMA FetchedFrom ==
  ASSUME FInv, NEW n \in Nodes, NEW i \in 1..Len(handlers[n])
  PROVE  /\ handlers[n] \in Seq(Handlers) /\ handlers[n][i] \in Handlers
         /\ Asking(handlers[n][i]) /\ Making(n, handlers[n][i])
         /\ handlers[n][i].asked => Comes(n, i) /\ Head(handlers[n][i].needs) \in Objects
<1>1. handlers[n] \in Seq(Handlers) /\ handlers[n][i] \in Handlers
  BY DEF FInv, FetchTypes
<1>2. /\ Asking(handlers[n][i]) /\ Making(n, handlers[n][i])
      /\ handlers[n][i].asked => Comes(n, i)
  BY DEF FInv
<1>3. handlers[n][i].asked => Head(handlers[n][i].needs) \in Objects
  BY <1>1, <1>2 DEF Asking, Handlers
<1> QED BY <1>1, <1>2, <1>3

(* Nothing changes but messages. *)
LEMMA OnlyMessages ==
  ASSUME FInv, UNCHANGED <<has, handlers>>, chan' \in Chans, unknown' \in Told, used' \in Uses,
         KeepsReplies(Nil, <<>>)
  PROVE  FInv'
<1>1. FetchTypes'
  BY DEF FInv, FetchTypes, Chans
<1>2. ASSUME NEW n \in Nodes, NEW i \in 1..Len(handlers[n]), handlers[n][i].asked
      PROVE  Comes(n, i)'
  <2> DEFINE o == Head(handlers[n][i].needs)
             s == handlers[n][i].from
  <2>1. Comes(n, i) /\ o \in Objects /\ s \in Nodes
    BY <1>2, FetchedFrom DEF Handlers
  <2>2. ~(<<>> = <<o>>)
    OBVIOUS
  <2> HIDE DEF o
  <2> QED BY <2>1, <2>2 DEF Comes, KeepsReplies, o
<1>3. \A n \in Nodes : \A i \in 1..Len(handlers[n]) :
        Asking(handlers[n][i]) /\ Making(n, handlers[n][i])'
  BY FetchedFrom DEF Making
<1> QED BY <1>1, <1>2, <1>3 DEF FInv

LEMMA NothingLost ==
  ASSUME UNCHANGED unknown, \A a, b \in Nodes : Within(chan[a][b]) \subseteq Within(chan'[a][b])
  PROVE  \A node, makes : KeepsReplies(node, makes)
BY DEF KeepsReplies, OnItsWay

LEMMA Spending ==
  ASSUME used \in Uses, NEW k \in Fetching!Kinds, Fetching!Spend(k)
  PROVE  used' \in Uses /\ used'[k] > 0 /\ \A l \in Fetching!Kinds : used'[l] >= used[l]
<1>1. used' = [used EXCEPT ![k] = used[k] + 1] /\ used[k] \in Nat
  BY DEF Fetching!Spend, Uses
<1> QED BY <1>1 DEF Uses

LEMMA MentionKeeps ==
  ASSUME FInv, NEW s \in Nodes, NEW n \in Nodes, NEW o \in Objects, Fetching!Mention(s, n, o)
  PROVE  FInv'
<1> DEFINE m == Fetching!Msg("Mention", o)
<1>1. chan \in Chans /\ m \in Messages
  BY DEF FInv, FetchTypes, Chans, Messages, Fetching!Msg
<1>2. /\ chan' = [chan EXCEPT ![s][n] = Append(@, m)] /\ Fetching!Spend("Mention")
      /\ UNCHANGED <<has, handlers, unknown>>
  BY DEF Fetching!Mention
<1> HIDE DEF m
<1>3. chan' \in Chans /\ \A a, b \in Nodes : Within(chan[a][b]) \subseteq Within(chan'[a][b])
  BY <1>1, <1>2, SendKeeps
<1>4. KeepsReplies(Nil, <<>>)
  BY <1>2, <1>3, NothingLost
<1>5. unknown' \in Told /\ used' \in Uses
  BY <1>2, Spending DEF FInv, FetchTypes, Fetching!Kinds
<1> QED BY <1>1, <1>2, <1>3, <1>4, <1>5, OnlyMessages

LEMMA SentOn ==
  ASSUME NEW d \in Chans, NEW a \in Nodes, NEW b \in Nodes, NEW m \in Messages,
         chan' = [d EXCEPT ![a][b] = Append(@, m)]
  PROVE  /\ chan' \in Chans /\ m \in Within(chan'[a][b])
         /\ \A s, n \in Nodes : Within(d[s][n]) \subseteq Within(chan'[s][n])
<1> DEFINE e == [d EXCEPT ![a][b] = Append(@, m)]
<1>1. /\ e \in Chans /\ m \in Within(e[a][b])
      /\ \A s, n \in Nodes : Within(d[s][n]) \subseteq Within(e[s][n])
  BY SendKeeps
<1>2. chan' = e
  OBVIOUS
<1> HIDE DEF e
<1> QED BY <1>1, <1>2

(* A mention is neither a request nor an answer. *)
OnlyLoses(s, n, head) ==
  \A a, b \in Nodes : \A x \in Within(chan[a][b]) :
    x \in Within(chan'[a][b]) \/ (a = s /\ b = n /\ x = head)

LEMMA MentionTaken ==
  ASSUME UNCHANGED unknown, NEW s, NEW n, NEW head, head.kind = "Mention", OnlyLoses(s, n, head)
  PROVE  \A node, makes : KeepsReplies(node, makes)
<1> SUFFICES ASSUME NEW a \in Nodes, NEW b \in Nodes, NEW o \in Objects,
                    OnItsWay(b, a, o, chan, unknown)
             PROVE  OnItsWay(b, a, o, chan', unknown')
  BY DEF KeepsReplies
<1>1. /\ Fetching!Msg("ObjectRequest", o) # head /\ Fetching!Msg("ObjectReply", o) # head
      /\ Fetching!Msg("NotFound", o) # head
  BY DEF Fetching!Msg
<1> QED BY <1>1 DEF OnItsWay, OnlyLoses

LEMMA ForwardKeeps ==
  ASSUME FInv, NEW s \in Nodes, NEW n \in Nodes, NEW t \in Nodes, Fetching!Forward(s, n, t)
  PROVE  FInv'
<1> DEFINE head == Head(chan[s][n])
           d == [chan EXCEPT ![s][n] = Tail(@)]
<1>1. chan \in Chans
  BY DEF FInv, FetchTypes, Chans
<1>2. /\ chan[s][n] # <<>> /\ head.kind = "Mention" /\ Fetching!Spend("Forward")
      /\ chan' = [d EXCEPT ![n][t] = Append(@, head)]
      /\ UNCHANGED <<has, handlers, unknown>>
  BY DEF Fetching!Forward, Fetching!Arrived, Fetching!Taken
<1>3. /\ d \in Chans /\ head \in Messages
      /\ \A a, b \in Nodes : \A x \in Within(chan[a][b]) :
           x \in Within(d[a][b]) \/ (a = s /\ b = n /\ x = head)
  BY <1>1, <1>2, ServeKeeps
<1> HIDE DEF head, d
<1>5. /\ chan' \in Chans
      /\ \A a, b \in Nodes : Within(d[a][b]) \subseteq Within(chan'[a][b])
  BY <1>2, <1>3, SentOn
<1>4. OnlyLoses(s, n, head)
  BY <1>3, <1>5 DEF OnlyLoses
<1>6. KeepsReplies(Nil, <<>>)
  <2>1. UNCHANGED unknown /\ head.kind = "Mention"
    BY <1>2
  <2>2. \A node, makes : KeepsReplies(node, makes)
    BY ONLY <2>1, <1>4, MentionTaken
  <2> QED BY <2>2
<1>7. unknown' \in Told /\ used' \in Uses
  BY <1>2, Spending DEF FInv, FetchTypes, Fetching!Kinds
<1> QED BY <1>2, <1>5, <1>6, <1>7, OnlyMessages

LEMMA HandleObjectRequestKeeps ==
  ASSUME FInv, NEW s \in Nodes, NEW n \in Nodes, Fetching!HandleObjectRequest(s, n)
  PROVE  FInv'
<1> DEFINE head == Head(chan[s][n])
           m == Fetching!Answer(n, head.object)
           d == [chan EXCEPT ![s][n] = Tail(@)]
<1>1. chan \in Chans /\ unknown \in Told /\ used \in Uses
  BY DEF FInv, FetchTypes, Chans
<1>2. /\ chan[s][n] # <<>> /\ head.kind = "ObjectRequest"
      /\ chan' = [d EXCEPT ![n][s] = Append(@, m)]
      /\ UNCHANGED <<has, handlers, unknown, used>>
  BY DEF Fetching!HandleObjectRequest, Fetching!Arrived, Fetching!Taken
<1>3. /\ d \in Chans /\ head \in Messages
      /\ \A a, b \in Nodes : \A x \in Within(chan[a][b]) :
           x \in Within(d[a][b]) \/ (a = s /\ b = n /\ x = head)
  BY <1>1, <1>2, ServeKeeps
<1>4. /\ m = Fetching!Msg("ObjectReply", head.object) \/ m = Fetching!Msg("NotFound", head.object)
      /\ m \in Messages
  BY <1>3 DEF Messages, Fetching!Answer, Fetching!Msg
<1> HIDE DEF head, m, d
<1>5. /\ chan' \in Chans /\ m \in Within(chan'[n][s])
      /\ \A a, b \in Nodes : Within(d[a][b]) \subseteq Within(chan'[a][b])
  BY <1>2, <1>3, <1>4, SentOn
<1>6. KeepsReplies(Nil, <<>>)
  <2> SUFFICES ASSUME NEW a \in Nodes, NEW b \in Nodes, NEW o \in Objects,
                      OnItsWay(b, a, o, chan, unknown)
               PROVE  OnItsWay(b, a, o, chan', unknown')
    BY DEF KeepsReplies
  <2>1. Fetching!Msg("ObjectReply", o) # head /\ Fetching!Msg("NotFound", o) # head
    BY <1>2 DEF Fetching!Msg
  <2>2. Fetching!Msg("ObjectRequest", o) = head => o = head.object
    BY DEF Fetching!Msg
  <2>3. CASE Fetching!Msg("ObjectRequest", o) = head /\ b = s /\ a = n
    BY <1>4, <1>5, <2>2, <2>3 DEF OnItsWay
  <2>4. CASE ~(Fetching!Msg("ObjectRequest", o) = head /\ b = s /\ a = n)
    BY <1>2, <1>3, <1>5, <2>1, <2>4 DEF OnItsWay
  <2> QED BY <2>3, <2>4
<1> QED BY <1>1, <1>2, <1>5, <1>6, OnlyMessages

(* That a node has not what it was asked for is noted. *)
LEMMA HandleNotFoundKeeps ==
  ASSUME FInv, NEW s \in Nodes, NEW n \in Nodes, Fetching!HandleNotFound(s, n)
  PROVE  FInv'
<1> DEFINE head == Head(chan[s][n])
           d == [chan EXCEPT ![s][n] = Tail(@)]
<1>1. chan \in Chans /\ unknown \in Told /\ used \in Uses
  BY DEF FInv, FetchTypes, Chans
<1>2. /\ chan[s][n] # <<>> /\ head.kind = "NotFound" /\ chan' = d
      /\ unknown' = [unknown EXCEPT ![n] = @ \cup {<<s, head.object>>}]
      /\ UNCHANGED <<has, handlers, used>>
  BY DEF Fetching!HandleNotFound, Fetching!Arrived, Fetching!Taken
<1>3. /\ d \in Chans /\ head \in Messages
      /\ \A a, b \in Nodes : \A x \in Within(chan[a][b]) :
           x \in Within(d[a][b]) \/ (a = s /\ b = n /\ x = head)
  BY <1>1, <1>2, ServeKeeps
<1>4. /\ \A k, p : k # "NotFound" => Fetching!Msg(k, p) # head
      /\ \A p : Fetching!Msg("NotFound", p) = head => p = head.object
  BY <1>2 DEF Fetching!Msg
<1>5. head.object \in Objects
  BY <1>3 DEF Messages
<1> HIDE DEF head, d
<1>6. /\ unknown' \in Told /\ <<s, head.object>> \in unknown'[n]
      /\ \A a \in Nodes : unknown[a] \subseteq unknown'[a]
  BY <1>1, <1>2, <1>5 DEF Told
<1>7. KeepsReplies(Nil, <<>>)
  <2> SUFFICES ASSUME NEW a \in Nodes, NEW b \in Nodes, NEW o \in Objects,
                      OnItsWay(b, a, o, chan, unknown)
               PROVE  OnItsWay(b, a, o, chan', unknown')
    BY DEF KeepsReplies
  <2>1. CASE Fetching!Msg("NotFound", o) = head /\ a = s /\ b = n
    BY <1>4, <1>6, <2>1 DEF OnItsWay
  <2>2. CASE ~(Fetching!Msg("NotFound", o) = head /\ a = s /\ b = n)
    BY <1>2, <1>3, <1>4, <1>6, <2>2 DEF OnItsWay
  <2> QED BY <2>1, <2>2
<1> QED BY <1>1, <1>2, <1>3, <1>6, <1>7, OnlyMessages

LEMMA PushKeeps ==
  ASSUME FInv, NEW n \in Nodes, NEW h \in Handlers, ~h.asked, Making(n, h),
         handlers' = [handlers EXCEPT ![n] = <<h>> \o @], UNCHANGED has,
         chan' \in Chans, unknown' \in Told, used' \in Uses, KeepsReplies(n, h.makes)
  PROVE  FInv'
<1> DEFINE q == <<h>> \o handlers[n]
<1>1. handlers \in [Nodes -> Seq(Handlers)]
  BY DEF FInv, FetchTypes
<1>2. /\ q \in Seq(Handlers) /\ Len(q) = Len(handlers[n]) + 1 /\ q[1] = h
      /\ \A i \in 1..Len(q) : i = 1 \/ (i - 1 \in 1..Len(handlers[n]) /\ q[i] = handlers[n][i - 1])
      /\ \A i \in 1..Len(handlers[n]) : i + 1 \in 1..Len(q) /\ q[i + 1] = handlers[n][i]
  <2>1. handlers[n] \in Seq(Handlers)
    BY <1>1
  <2> QED BY <2>1, Pushed
<1> HIDE DEF q
<1>3. /\ handlers' \in [Nodes -> Seq(Handlers)] /\ handlers'[n] = q
      /\ \A m \in Nodes : m # n => handlers'[m] = handlers[m]
  <2>1. handlers' = [handlers EXCEPT ![n] = q]
    BY DEF q
  <2> QED BY <1>1, <1>2, <2>1
<1>4. FetchTypes'
  BY <1>3 DEF FInv, FetchTypes, Chans
<1>5. ASSUME NEW m \in Nodes, NEW i \in 1..Len(handlers[m]), handlers[m][i].asked
      PROVE  LET o == Head(handlers[m][i].needs)
                 s == handlers[m][i].from
             IN \/ has[m][o] > 0 \/ OnItsWay(m, s, o, chan', unknown')
                \/ \E j \in 1..Len(handlers[m]) : j < i /\ handlers[m][j].makes = <<o>>
                \/ m = n /\ h.makes = <<o>>
  <2> DEFINE o == Head(handlers[m][i].needs)
             s == handlers[m][i].from
  <2>1. Comes(m, i) /\ o \in Objects /\ s \in Nodes
    BY <1>5, FetchedFrom DEF Handlers
  <2> HIDE DEF o
  <2> QED BY <2>1 DEF Comes, KeepsReplies, o
<1>6. ASSUME NEW m \in Nodes, NEW i \in 1..Len(handlers'[m])
      PROVE  /\ Asking(handlers'[m][i]) /\ Making(m, handlers[m][i])'
             /\ handlers'[m][i].asked => Comes(m, i)'
  <2>1. CASE m # n
    <3>1. handlers'[m] = handlers[m] /\ i \in 1..Len(handlers[m])
      BY <1>3, <2>1
    <3>2. Asking(handlers[m][i]) /\ Making(m, handlers[m][i])
      BY <3>1, FetchedFrom
    <3>3. handlers[m][i].asked => Comes(m, i)'
      BY <2>1, <3>1, <1>5 DEF Comes
    <3> QED BY <3>1, <3>2, <3>3 DEF Making
  <2>2. CASE m = n /\ i = 1
    <3>1. handlers'[m][i] = h
      BY <1>2, <1>3, <2>2
    <3> QED BY <3>1, <2>2 DEF Asking, Making
  <2>3. CASE m = n /\ i # 1
    <3> DEFINE k == i - 1
    <3>1. i \in 1..Len(q) /\ Len(q) \in Nat
      BY <1>2, <1>3, <2>3
    <3>2. k \in 1..Len(handlers[n]) /\ q[i] = handlers[n][k] /\ k + 1 = i
      BY <1>2, <2>3, <3>1
    <3> HIDE DEF k
    <3>3. handlers'[m][i] = handlers[n][k]
      BY <1>3, <2>3, <3>2
    <3>4. Asking(handlers[n][k]) /\ Making(n, handlers[n][k])
      BY <3>2, FetchedFrom
    <3>5. ASSUME handlers[n][k].asked PROVE Comes(m, i)'
      <4> DEFINE o == Head(handlers[n][k].needs)
                 s == handlers[n][k].from
      <4>1. \/ has[n][o] > 0 \/ OnItsWay(n, s, o, chan', unknown')
            \/ \E j \in 1..Len(handlers[n]) : j < k /\ handlers[n][j].makes = <<o>>
            \/ h.makes = <<o>>
        BY <1>5, <3>2, <3>5
      <4>2. ASSUME NEW j \in 1..Len(handlers[n]), j < k, handlers[n][j].makes = <<o>>
            PROVE  \E l \in 1..Len(handlers'[n]) : l < i /\ handlers'[n][l].makes = <<o>>
        <5>1. j + 1 \in 1..Len(q) /\ q[j + 1] = handlers[n][j] /\ j + 1 < i
          BY <1>2, <3>2, <4>2
        <5> QED BY <5>1, <1>3, <4>2
      <4>3. ASSUME h.makes = <<o>>
            PROVE  \E l \in 1..Len(handlers'[n]) : l < i /\ handlers'[n][l].makes = <<o>>
        <5>1. 1 \in 1..Len(q) /\ 1 < i
          BY <3>1, <3>2, <2>3
        <5> QED BY <5>1, <1>2, <1>3, <4>3
      <4> HIDE DEF o, s
      <4>4. \/ has[n][o] > 0 \/ OnItsWay(n, s, o, chan', unknown')
            \/ \E l \in 1..Len(handlers'[n]) : l < i /\ handlers'[n][l].makes = <<o>>
        BY <4>1, <4>2, <4>3
      <4> QED BY <4>4, <3>3, <2>3 DEF Comes, o, s
    <3> QED BY <3>3, <3>4, <3>5, <2>3 DEF Making
  <2> QED BY <2>1, <2>2, <2>3
<1> QED BY <1>4, <1>6 DEF FInv

LEMMA ReplaceKeeps ==
  ASSUME FInv, NEW n \in Nodes, handlers[n] # <<>>, NEW g \in Handlers, Asking(g), Making(n, g),
         g.makes = handlers[n][1].makes,
         g.asked => OnItsWay(n, g.from, Head(g.needs), chan', unknown'),
         handlers' = [handlers EXCEPT ![n] = <<g>> \o Tail(@)], UNCHANGED has,
         chan' \in Chans, unknown' \in Told, used' \in Uses, KeepsReplies(Nil, <<>>)
  PROVE  FInv'
<1> DEFINE q == <<g>> \o Tail(handlers[n])
<1>1. handlers \in [Nodes -> Seq(Handlers)]
  BY DEF FInv, FetchTypes
<1>2. /\ q \in Seq(Handlers) /\ Len(q) = Len(handlers[n]) /\ q[1] = g
      /\ \A i \in 1..Len(handlers[n]) : i = 1 \/ q[i] = handlers[n][i]
  <2>1. handlers[n] \in Seq(Handlers)
    BY <1>1
  <2> QED BY <2>1, Replaced
<1> HIDE DEF q
<1>3. /\ handlers' \in [Nodes -> Seq(Handlers)] /\ handlers'[n] = q
      /\ \A m \in Nodes : m # n => handlers'[m] = handlers[m]
  <2>1. handlers' = [handlers EXCEPT ![n] = q]
    BY DEF q
  <2> QED BY <1>1, <1>2, <2>1
<1>4. FetchTypes'
  BY <1>3 DEF FInv, FetchTypes, Chans
<1>5. /\ \A m \in Nodes : Len(handlers'[m]) = Len(handlers[m])
      /\ \A m \in Nodes : \A j \in 1..Len(handlers[m]) : handlers'[m][j].makes = handlers[m][j].makes
  BY <1>2, <1>3
<1>6. ASSUME NEW m \in Nodes, NEW i \in 1..Len(handlers'[m])
      PROVE  /\ Asking(handlers'[m][i]) /\ Making(m, handlers[m][i])'
             /\ handlers'[m][i].asked => Comes(m, i)'
  <2>1. CASE m = n /\ i = 1
    <3>1. handlers'[m][i] = g
      BY <1>2, <1>3, <2>1
    <3>2. g.asked => Comes(m, i)'
      BY <3>1, <2>1 DEF Comes
    <3> QED BY <3>1, <3>2, <2>1 DEF Making
  <2>2. CASE ~(m = n /\ i = 1)
    <3>1. i \in 1..Len(handlers[m]) /\ handlers'[m][i] = handlers[m][i]
      BY <1>2, <1>3, <1>5, <2>2
    <3>2. Asking(handlers[m][i]) /\ Making(m, handlers[m][i])
      BY <3>1, FetchedFrom
    <3>3. ASSUME handlers[m][i].asked PROVE Comes(m, i)'
      <4> DEFINE o == Head(handlers[m][i].needs)
                 s == handlers[m][i].from
      <4>1. Comes(m, i) /\ o \in Objects /\ s \in Nodes
        BY <3>1, <3>3, FetchedFrom DEF Handlers
      <4>2. ~(<<>> = <<o>>)
        OBVIOUS
      <4> HIDE DEF o, s
      <4>3. \/ has[m][o] > 0 \/ OnItsWay(m, s, o, chan', unknown')
            \/ \E j \in 1..Len(handlers[m]) : j < i /\ handlers[m][j].makes = <<o>>
        BY <4>1, <4>2 DEF Comes, KeepsReplies, o, s
      <4> QED BY <4>3, <3>1, <1>5 DEF Comes, o, s
    <3> QED BY <3>1, <3>2, <3>3 DEF Making
  <2> QED BY <2>1, <2>2
<1> QED BY <1>4, <1>6 DEF FInv

LEMMA TopHandler ==
  ASSUME FInv, NEW n \in Nodes, handlers[n] # <<>>
  PROVE  LET top == Fetching!Top(n)
         IN /\ top = handlers[n][1] /\ top \in Handlers /\ 1 \in 1..Len(handlers[n])
            /\ Making(n, top)
<1>1. handlers[n] \in Seq(Handlers)
  BY DEF FInv, FetchTypes
<1>2. 1 \in 1..Len(handlers[n]) /\ Head(handlers[n]) = handlers[n][1]
  BY <1>1
<1> QED BY <1>2, FetchedFrom DEF Fetching!Top

LEMMA AskKeeps ==
  ASSUME FInv, NEW n \in Nodes, Fetching!Ask(n)
  PROVE  FInv'
<1> DEFINE top == Fetching!Top(n)
           g == [top EXCEPT !.asked = TRUE]
           o == Head(top.needs)
           m == Fetching!Msg("ObjectRequest", o)
<1>1. /\ handlers[n] # <<>> /\ top.needs # <<>>
      /\ handlers' = [handlers EXCEPT ![n] = <<g>> \o Tail(@)]
      /\ chan' = [chan EXCEPT ![n][top.from] = Append(@, m)]
      /\ UNCHANGED <<has, unknown, used>>
  BY DEF Fetching!Ask, Fetching!Going, Fetching!Replace
<1>2. /\ top = handlers[n][1] /\ top \in Handlers /\ Making(n, top)
  BY <1>1, TopHandler
<1>3. o \in Objects /\ top.from \in Nodes
  BY <1>1, <1>2 DEF Handlers
<1>4. m \in Messages /\ chan \in Chans
  BY <1>3 DEF Messages, Fetching!Msg, FInv, FetchTypes, Chans
<1> HIDE DEF m
<1>5. /\ chan' \in Chans /\ m \in Within(chan'[n][top.from])
      /\ \A a, b \in Nodes : Within(chan[a][b]) \subseteq Within(chan'[a][b])
  BY <1>1, <1>3, <1>4, SendKeeps
<1>6. /\ g \in Handlers /\ g.needs = top.needs /\ g.makes = top.makes /\ g.from = top.from
  BY <1>2 DEF Handlers
<1>7. Asking(g) /\ Making(n, g)
  BY <1>1, <1>2, <1>6 DEF Asking, Making
<1>8. KeepsReplies(Nil, <<>>)
  BY <1>1, <1>5, NothingLost
<1>9. OnItsWay(n, g.from, Head(g.needs), chan', unknown')
  BY <1>5, <1>6 DEF m, OnItsWay
<1>10. unknown' \in Told /\ used' \in Uses
  BY <1>1 DEF FInv, FetchTypes
<1> HIDE DEF g, top, o
<1> QED BY <1>1, <1>2, <1>5, <1>6, <1>7, <1>8, <1>9, <1>10, ReplaceKeeps

LEMMA HasKeeps ==
  ASSUME FInv, NEW n \in Nodes, Fetching!Has(n)
  PROVE  FInv'
<1> DEFINE top == Fetching!Top(n)
           g == [top EXCEPT !.needs = Tail(@), !.asked = FALSE]
<1>1. /\ handlers[n] # <<>> /\ top.needs # <<>> /\ has[n][Head(top.needs)] > 0
      /\ handlers' = [handlers EXCEPT ![n] = <<g>> \o Tail(@)]
      /\ UNCHANGED <<has, chan, unknown, used>>
  BY DEF Fetching!Has, Fetching!Going, Fetching!Replace, Fetching!Here
<1>2. /\ top = handlers[n][1] /\ top \in Handlers /\ Making(n, top)
  BY <1>1, TopHandler
<1>3. chan \in Chans /\ \A a, b \in Nodes : Within(chan[a][b]) \subseteq Within(chan'[a][b])
  BY <1>1 DEF FInv, FetchTypes, Chans
<1>4. top.needs \in Seq(Objects)
  BY <1>2 DEF Handlers
<1>5. /\ g \in Handlers /\ g.needs = Tail(top.needs) /\ g.makes = top.makes /\ ~g.asked
  <2>1. Tail(top.needs) \in Seq(Objects)
    BY <1>1, <1>4
  <2> QED BY <1>2, <2>1 DEF Handlers
<1>6. \A t \in Within(top.needs) : t = Head(top.needs) \/ t \in Within(Tail(top.needs))
  BY <1>1, <1>4, Served
<1> HIDE DEF g, top
<1>7. Asking(g) /\ Making(n, g)
  BY <1>1, <1>2, <1>5, <1>6 DEF Asking, Making
<1>8. KeepsReplies(Nil, <<>>)
  BY <1>1, <1>3, NothingLost
<1>9. chan' \in Chans /\ unknown' \in Told /\ used' \in Uses
  BY <1>1, <1>3 DEF FInv, FetchTypes
<1> QED BY <1>1, <1>2, <1>5, <1>7, <1>8, <1>9, ReplaceKeeps

LEMMA HandleMentionKeeps ==
  ASSUME FInv, NEW s \in Nodes, NEW n \in Nodes, Fetching!HandleMention(s, n)
  PROVE  FInv'
<1> DEFINE head == Head(chan[s][n])
           h == Fetching!Handler(s, <<head.object>>, <<>>)
<1>1. /\ chan[s][n] # <<>> /\ head.kind = "Mention"
      /\ handlers' = [handlers EXCEPT ![n] = <<h>> \o @]
      /\ chan' = [chan EXCEPT ![s][n] = Tail(@)] /\ UNCHANGED <<has, unknown, used>>
  BY DEF Fetching!HandleMention, Fetching!Arrived, Fetching!Taken, Fetching!Push
<1>2. chan \in Chans
  BY DEF FInv, FetchTypes, Chans
<1>3. /\ chan' \in Chans /\ head \in Messages
      /\ \A a, b \in Nodes : \A m \in Within(chan[a][b]) :
           m \in Within(chan'[a][b]) \/ (a = s /\ b = n /\ m = head)
  <2> DEFINE d == [chan EXCEPT ![s][n] = Tail(@)]
  <2>1. /\ d \in Chans /\ head \in Messages
        /\ \A a, b \in Nodes : \A m \in Within(chan[a][b]) :
             m \in Within(d[a][b]) \/ (a = s /\ b = n /\ m = head)
    BY <1>1, <1>2, ServeKeeps
  <2>2. chan' = d
    BY <1>1
  <2> HIDE DEF d, head
  <2> QED BY <2>1, <2>2
<1>4. h \in Handlers /\ ~h.asked /\ h.makes = <<>>
  BY <1>3 DEF Fetching!Handler, Handlers, Messages
<1> HIDE DEF head, h
<1>7. KeepsReplies(n, h.makes)
  <2>1. UNCHANGED unknown /\ head.kind = "Mention"
    BY <1>1
  <2>2. OnlyLoses(s, n, head)
    BY <1>3 DEF OnlyLoses
  <2>3. \A node, makes : KeepsReplies(node, makes)
    BY ONLY <2>1, <2>2, MentionTaken
  <2> QED BY <2>3
<1>8. unknown' \in Told /\ used' \in Uses
  BY <1>1 DEF FInv, FetchTypes
<1>6. Making(n, h)
  BY <1>4 DEF Making
<1> QED BY <1>1, <1>3, <1>4, <1>6, <1>7, <1>8, PushKeeps

LEMMA HandleObjectReplyKeeps ==
  ASSUME Fetching!ConstantsOK, FInv, NEW s \in Nodes, NEW n \in Nodes,
         Fetching!HandleObjectReply(s, n)
  PROVE  FInv'
<1> DEFINE head == Head(chan[s][n])
           o == head.object
           h == Fetching!Handler(s, TypesOf[o], <<o>>)
<1>1. /\ chan[s][n] # <<>> /\ head.kind = "ObjectReply"
      /\ IF ~(has[n][o] > 0) THEN handlers' = [handlers EXCEPT ![n] = <<h>> \o @]
         ELSE UNCHANGED handlers
      /\ chan' = [chan EXCEPT ![s][n] = Tail(@)] /\ UNCHANGED <<has, unknown, used>>
  BY DEF Fetching!HandleObjectReply, Fetching!Arrived, Fetching!Taken, Fetching!Push,
         Fetching!Wanted, Fetching!Here, Fetching!Named
<1>2. chan \in Chans /\ unknown' \in Told /\ used' \in Uses
  BY <1>1 DEF FInv, FetchTypes, Chans
<1>3. /\ chan' \in Chans /\ head \in Messages
      /\ \A a, b \in Nodes : \A m \in Within(chan[a][b]) :
           m \in Within(chan'[a][b]) \/ (a = s /\ b = n /\ m = head)
  <2> DEFINE d == [chan EXCEPT ![s][n] = Tail(@)]
  <2>1. /\ d \in Chans /\ head \in Messages
        /\ \A a, b \in Nodes : \A m \in Within(chan[a][b]) :
             m \in Within(d[a][b]) \/ (a = s /\ b = n /\ m = head)
    BY <1>1, <1>2, ServeKeeps
  <2>2. chan' = d
    BY <1>1
  <2> HIDE DEF d, head
  <2> QED BY <2>1, <2>2
<1>4. o \in Objects /\ \A p : Fetching!Msg("ObjectReply", p) = head => p = o
  BY <1>3 DEF Messages, Fetching!Msg
<1>5. h \in Handlers /\ ~h.asked /\ h.makes = <<o>> /\ h.needs = TypesOf[o]
  BY <1>4 DEF Fetching!Handler, Handlers, Fetching!ConstantsOK
<1>6. \A p : Fetching!Msg("ObjectRequest", p) # head /\ Fetching!Msg("NotFound", p) # head
  BY <1>1 DEF Fetching!Msg
<1> HIDE DEF head, h, o
<1>7. CASE has[n][o] > 0
  <2>1. KeepsReplies(Nil, <<>>)
    BY <1>1, <1>3, <1>4, <1>6, <1>7 DEF KeepsReplies, OnItsWay
  <2> QED BY <2>1, <1>1, <1>2, <1>3, <1>7, OnlyMessages
<1>8. CASE ~(has[n][o] > 0)
  <2>1. KeepsReplies(n, h.makes)
    <3> SUFFICES ASSUME NEW a \in Nodes, NEW b \in Nodes, NEW p \in Objects,
                        OnItsWay(b, a, p, chan, unknown)
                 PROVE  OnItsWay(b, a, p, chan', unknown') \/ (b = n /\ h.makes = <<p>>)
      BY DEF KeepsReplies
    <3>1. Fetching!Msg("ObjectRequest", p) # head /\ Fetching!Msg("NotFound", p) # head
      BY <1>6
    <3>2. CASE Fetching!Msg("ObjectReply", p) = head /\ b = n
      BY <1>4, <1>5, <3>2
    <3>3. CASE ~(Fetching!Msg("ObjectReply", p) = head /\ b = n)
      BY <1>1, <1>3, <3>1, <3>3 DEF OnItsWay
    <3> QED BY <3>2, <3>3
  <2>2. Making(n, h)
    BY <1>4, <1>5 DEF Making
  <2> QED BY <2>1, <2>2, <1>1, <1>2, <1>3, <1>5, <1>8, PushKeeps
<1> QED BY <1>7, <1>8

LEMMA TypesAreObjects ==
  ASSUME Fetching!ConstantsOK
  PROVE  \A o \in Objects : Within(TypesOf[o]) \subseteq Objects
<1> SUFFICES ASSUME NEW o \in Objects, NEW t \in Within(TypesOf[o]) PROVE t \in Objects
  OBVIOUS
<1>1. TypesOf[o] \in Seq(Objects)
  BY DEF Fetching!ConstantsOK
<1>2. PICK i \in 1..Len(TypesOf[o]) : TypesOf[o][i] = t
  BY <1>1, WithinIs
<1> QED BY <1>1, <1>2

(* What has more of the objects a node has. *)
LEMMA ReturnGives ==
  ASSUME FInv, NEW n \in Nodes, Fetching!Return(n)
  PROVE  /\ has' \in [Nodes -> [Objects -> Nat]]
         /\ \A m \in Nodes, o \in Objects :
              /\ has'[m][o] <= 1
              /\ has[m][o] > 0 => has'[m][o] > 0
              /\ has'[m][o] > 0 =>
                   has[m][o] > 0 \/ (m = n /\ Fetching!Top(n).makes = <<o>>)
         /\ \A o \in Objects : Fetching!Top(n).makes = <<o>> => has'[n][o] > 0
<1> DEFINE made == Within(Fetching!Top(n).makes)
           row == [o \in Objects |-> IF o \in made THEN Fetching!Copies(n, o) ELSE has[n][o]]
<1>1. has' = [has EXCEPT ![n] = row] /\ handlers[n] # <<>>
  BY DEF Fetching!Return, Fetching!Going, Within
<1>2. /\ has \in [Nodes -> [Objects -> Nat]] /\ \A m \in Nodes, o \in Objects : has[m][o] <= 1
  BY DEF FInv, FetchTypes
<1>3. \A o \in Objects : o \in made <=> Fetching!Top(n).makes = <<o>>
  <2> DEFINE makes == Fetching!Top(n).makes
  <2>1. makes = <<>> \/ \E o \in Objects : makes = <<o>>
    BY <1>1, TopHandler DEF Making
  <2>2. CASE makes = <<>>
    BY <2>2 DEF Within, Fetching!ToSet
  <2>3. ASSUME NEW p \in Objects, makes = <<p>> PROVE \A o \in Objects : o \in made <=> makes = <<o>>
    <3>1. made = {p}
      BY <2>3 DEF Within, Fetching!ToSet
    <3>2. \A o \in Objects : <<p>> = <<o>> <=> p = o
      <4>1. ASSUME NEW o, <<p>> = <<o>> PROVE p = o
        <5>1. <<p>>[1] = <<o>>[1]
          BY <4>1
        <5> QED BY <5>1
      <4> QED BY <4>1
    <3> QED BY <2>3, <3>1, <3>2
  <2> QED BY <2>1, <2>2, <2>3
<1> HIDE DEF made
<1>4. row \in [Objects -> Nat] /\ \A o \in Objects : row[o] = IF o \in made THEN (IF has[n][o] > 0 THEN has[n][o] ELSE 1) ELSE has[n][o]
  BY <1>2 DEF Fetching!Copies, Fetching!Here
<1> HIDE DEF row
<1>5. /\ has' \in [Nodes -> [Objects -> Nat]] /\ has'[n] = row
      /\ \A m \in Nodes : m # n => has'[m] = has[m]
  BY <1>1, <1>2, <1>4
<1>6. ASSUME NEW m \in Nodes, NEW o \in Objects
      PROVE  /\ has'[m][o] <= 1
             /\ has[m][o] > 0 => has'[m][o] > 0
             /\ has'[m][o] > 0 =>
                  has[m][o] > 0 \/ (m = n /\ Fetching!Top(n).makes = <<o>>)
  <2>1. has[m][o] \in Nat /\ has[m][o] <= 1
    BY <1>2
  <2>2. CASE m # n
    BY <2>1, <2>2, <1>5
  <2>3. CASE m = n
    BY <2>1, <2>3, <1>3, <1>4, <1>5
  <2> QED BY <2>2, <2>3
<1>7. ASSUME NEW o \in Objects, Fetching!Top(n).makes = <<o>> PROVE has'[n][o] > 0
  <2>1. o \in made /\ has[n][o] \in Nat
    BY <1>2, <1>3, <1>7
  <2> QED BY <2>1, <1>4, <1>5
<1> QED BY <1>5, <1>6, <1>7

LEMMA ReturnKeeps ==
  ASSUME Fetching!ConstantsOK, FInv, NEW n \in Nodes, Fetching!Return(n)
  PROVE  FInv'
<1> DEFINE top == Fetching!Top(n)
           q == <<>> \o Tail(handlers[n])
<1>1. /\ handlers[n] # <<>> /\ top.needs = <<>> /\ handlers' = [handlers EXCEPT ![n] = q]
      /\ UNCHANGED <<chan, unknown, used>>
  BY DEF Fetching!Return, Fetching!Going, Fetching!Replace
<1>2. handlers \in [Nodes -> Seq(Handlers)]
  BY DEF FInv, FetchTypes
<1>3. /\ q \in Seq(Handlers) /\ Len(q) = Len(handlers[n]) - 1 /\ Len(handlers[n]) \in Nat \ {0}
      /\ \A i \in 1..Len(q) : i + 1 \in 1..Len(handlers[n]) /\ q[i] = handlers[n][i + 1]
      /\ \A i \in 1..Len(handlers[n]) : i = 1 \/ (i - 1 \in 1..Len(q) /\ q[i - 1] = handlers[n][i])
  <2>1. handlers[n] \in Seq(Handlers)
    BY <1>2
  <2> QED BY <1>1, <2>1, Removed
<1> HIDE DEF q
<1>4. /\ handlers' \in [Nodes -> Seq(Handlers)] /\ handlers'[n] = q
      /\ \A m \in Nodes : m # n => handlers'[m] = handlers[m]
  BY <1>1, <1>2, <1>3
<1>5. top = handlers[n][1] /\ Making(n, top)
  BY <1>1, TopHandler
<1> HIDE DEF top
<1>6. /\ has' \in [Nodes -> [Objects -> Nat]]
      /\ \A m \in Nodes, o \in Objects :
           /\ has'[m][o] <= 1
           /\ has[m][o] > 0 => has'[m][o] > 0
           /\ has'[m][o] > 0 => has[m][o] > 0 \/ (m = n /\ top.makes = <<o>>)
      /\ \A o \in Objects : top.makes = <<o>> => has'[n][o] > 0
  BY ReturnGives DEF top
<1>7. FetchTypes'
  BY <1>1, <1>4, <1>6 DEF FInv, FetchTypes
<1>8. \A o \in Objects : Within(TypesOf[o]) \subseteq Objects
  BY TypesAreObjects
<1>9. ASSUME NEW m \in Nodes, NEW o \in Objects, has'[m][o] > 0, NEW t \in Within(TypesOf[o])
      PROVE  has'[m][t] > 0
  <2>1. t \in Objects
    BY <1>8
  <2>2. CASE has[m][o] > 0
    <3>1. has[m][t] > 0
      BY <2>2 DEF FInv
    <3> QED BY <3>1, <2>1, <1>6
  <2>3. CASE m = n /\ top.makes = <<o>>
    <3>1. PICK p \in Objects :
            top.makes = <<p>> /\ \A y \in Within(TypesOf[p]) : has[n][y] > 0 \/ y \in Within(top.needs)
      BY <2>3, <1>5 DEF Making
    <3>2. p = o
      <4>1. <<p>>[1] = <<o>>[1]
        BY <2>3, <3>1
      <4> QED BY <4>1
    <3>3. Within(top.needs) = {}
      BY <1>1 DEF Within, Fetching!ToSet, top
    <3>4. has[m][t] > 0
      BY <2>3, <3>1, <3>2, <3>3
    <3> QED BY <3>4, <2>1, <1>6
  <2> QED BY <2>2, <2>3, <1>6, <1>9
<1>10. ASSUME NEW m \in Nodes, NEW h \in Handlers, Making(m, h) PROVE Making(m, h)'
  BY <1>6, <1>8, <1>10 DEF Making
<1>11. ASSUME NEW m \in Nodes, NEW i \in 1..Len(handlers'[m])
       PROVE  /\ Asking(handlers'[m][i]) /\ Making(m, handlers[m][i])'
              /\ handlers'[m][i].asked => Comes(m, i)'
  <2>1. CASE m # n
    <3>1. handlers'[m] = handlers[m] /\ i \in 1..Len(handlers[m])
      BY <1>4, <2>1
    <3>2. /\ Asking(handlers[m][i]) /\ Making(m, handlers[m][i]) /\ handlers[m][i] \in Handlers
          /\ handlers[m][i].asked => Comes(m, i) /\ Head(handlers[m][i].needs) \in Objects
      BY <3>1, FetchedFrom
    <3>3. Making(m, handlers[m][i])'
      <4>1. \E h \in Handlers : h = handlers'[m][i] /\ Making(m, h)
        BY <3>1, <3>2
      <4> QED BY <3>1, <3>2, <1>10 DEF Making
    <3>4. handlers[m][i].asked => Comes(m, i)'
      BY <3>1, <3>2, <1>1, <1>6 DEF Comes
    <3> QED BY <3>1, <3>2, <3>3, <3>4
  <2>2. CASE m = n
    <3> DEFINE k == i + 1
    <3>1. i \in 1..Len(q)
      BY <1>4, <2>2
    <3>2. k \in 1..Len(handlers[n]) /\ handlers'[n][i] = handlers[n][k] /\ k = i + 1 /\ i \in Nat
      BY <1>3, <1>4, <3>1
    <3> HIDE DEF k
    <3>3. /\ Asking(handlers[n][k]) /\ Making(n, handlers[n][k]) /\ handlers[n][k] \in Handlers
          /\ handlers[n][k].asked => Comes(n, k) /\ Head(handlers[n][k].needs) \in Objects
      BY <3>2, FetchedFrom
    <3>4. Making(m, handlers[m][i])'
      BY <3>2, <3>3, <2>2, <1>10 DEF Making
    <3>5. ASSUME handlers[n][k].asked PROVE Comes(n, i)'
      <4> DEFINE o == Head(handlers[n][k].needs)
                 s == handlers[n][k].from
      <4>1. Comes(n, k) /\ o \in Objects
        BY <3>3, <3>5
      <4>2. ASSUME NEW j \in 1..Len(handlers[n]), j < k, handlers[n][j].makes = <<o>>
            PROVE  \/ has'[n][o] > 0
                   \/ \E l \in 1..Len(handlers'[n]) : l < i /\ handlers'[n][l].makes = <<o>>
        <5>1. CASE j = 1
          BY <4>1, <4>2, <5>1, <1>5, <1>6
        <5>2. CASE j # 1
          <6>1. j - 1 \in 1..Len(q) /\ q[j - 1] = handlers[n][j] /\ j - 1 < i
            BY <1>3, <3>2, <4>2, <5>2
          <6> QED BY <6>1, <4>2, <1>4
        <5> QED BY <5>1, <5>2
      <4> HIDE DEF o, s
      <4>3. \/ has'[n][o] > 0 \/ OnItsWay(n, s, o, chan', unknown')
            \/ \E l \in 1..Len(handlers'[n]) : l < i /\ handlers'[n][l].makes = <<o>>
        <5>1. \/ has[n][o] > 0 \/ OnItsWay(n, s, o, chan, unknown)
              \/ \E j \in 1..Len(handlers[n]) : j < k /\ handlers[n][j].makes = <<o>>
          BY <4>1 DEF Comes, o, s
        <5>2. has[n][o] > 0 => has'[n][o] > 0
          BY <4>1, <1>6
        <5> QED BY <5>1, <5>2, <4>2, <1>1
      <4> QED BY <4>3, <3>2 DEF Comes, o, s
    <3> QED BY <2>2, <3>2, <3>3, <3>4, <3>5
  <2> QED BY <2>1, <2>2
<1> QED BY <1>6, <1>7, <1>9, <1>11 DEF FInv

LEMMA FetchingStarts == Fetching!ConstantsOK /\ Fetching!Init => FInv
<1> SUFFICES ASSUME Fetching!ConstantsOK, Fetching!Init PROVE FInv
  OBVIOUS
<1>1. PICK held \in Holdings : has = [n \in Nodes |-> [o \in Objects |-> IF o \in held[n] THEN 1 ELSE 0]]
  BY DEF Fetching!Init
<1>2. /\ held \in [Nodes -> SUBSET Objects]
      /\ \A n \in Nodes : \A o \in held[n] : Within(TypesOf[o]) \subseteq held[n]
  BY DEF Fetching!ConstantsOK, Within
<1>3. /\ handlers = [n \in Nodes |-> <<>>] 
      /\ unknown = [n \in Nodes |-> {}] /\ used = [k \in Fetching!Kinds |-> 0]
      /\ chan = [s \in Nodes |-> [n \in Nodes |-> <<>>]]
  BY DEF Fetching!Init
<1>4. /\ has \in [Nodes -> [Objects -> Nat]] /\ \A n \in Nodes, o \in Objects : has[n][o] <= 1
      /\ \A n \in Nodes, o \in Objects : has[n][o] > 0 <=> o \in held[n]
  BY <1>1
<1>5. handlers \in [Nodes -> Seq(Handlers)] /\ \A n \in Nodes : Len(handlers[n]) = 0
  BY <1>3
<1>6. chan \in [Nodes -> [Nodes -> Seq(Messages)]]
  BY <1>3
<1>7. \A n \in Nodes, o \in Objects : has[n][o] > 0 => \A t \in Within(TypesOf[o]) : has[n][t] > 0
  BY <1>2, <1>4
<1>8. \A n \in Nodes : \A i \in 1..Len(handlers[n]) : FALSE
  BY <1>5
<1>9. unknown \in Told /\ used \in Uses
  BY <1>3 DEF Told, Uses
<1> QED BY <1>4, <1>5, <1>6, <1>7, <1>8, <1>9 DEF FInv, FetchTypes

(* A collection while nothing is handled: a type goes with all that is of it. *)
LEMMA PurgeKeeps ==
  ASSUME Fetching!ConstantsOK, FInv, NEW n \in Nodes, NEW gone \in SUBSET Objects,
         Fetching!Purge(n, gone), used'["Late"] = 0
  PROVE  FInv'
<1> DEFINE row == [o \in Objects |-> IF o \in gone THEN 0 ELSE has[n][o]]
<1>1. /\ has \in [Nodes -> [Objects -> Nat]] /\ handlers \in [Nodes -> Seq(Handlers)]
      /\ chan \in [Nodes -> [Nodes -> Seq(Messages)]] /\ unknown \in Told /\ used \in Uses
  BY DEF FInv, FetchTypes
<1>2. /\ Fetching!Purgeable(n, gone) /\ has' = [has EXCEPT ![n] = row]
      /\ UNCHANGED <<handlers, chan, unknown>>
  BY DEF Fetching!Purge
<1>3. handlers[n] = <<>> /\ used' \in Uses
  <2>1. CASE handlers[n] = <<>>
    <3>1. Fetching!Spend("Purge")
      BY <2>1 DEF Fetching!Purge
    <3> QED BY <1>1, <2>1, <3>1, Spending DEF Fetching!Kinds
  <2>2. CASE handlers[n] # <<>>
    <3>1. Fetching!Spend("Late")
      BY <2>2 DEF Fetching!Purge
    <3> QED BY <1>1, <3>1, Spending DEF Fetching!Kinds
  <2> QED BY <2>1, <2>2
<1>4. row \in [Objects -> Nat] /\ \A o \in Objects : row[o] = IF o \in gone THEN 0 ELSE has[n][o]
  BY <1>1
<1> HIDE DEF row
<1>5. /\ has' \in [Nodes -> [Objects -> Nat]] /\ has'[n] = row
      /\ \A m \in Nodes : m # n => has'[m] = has[m]
  BY <1>1, <1>2, <1>4
<1>6. FetchTypes'
  BY <1>1, <1>2, <1>3, <1>5 DEF FetchTypes
<1>7. ASSUME NEW m \in Nodes, NEW o \in Objects PROVE has'[m][o] <= 1
  <2>1. has[m][o] <= 1
    BY DEF FInv
  <2> QED BY <2>1, <1>4, <1>5
<1>8. ASSUME NEW m \in Nodes, NEW o \in Objects, has'[m][o] > 0, NEW t \in Within(TypesOf[o])
      PROVE  has'[m][t] > 0
  <2>1. t \in Objects
    BY TypesAreObjects
  <2>2. CASE m # n
    BY <1>5, <1>8, <2>2 DEF FInv
  <2>3. CASE m = n
    <3>1. o \notin gone /\ has[n][o] > 0
      BY <1>4, <1>5, <1>8, <2>3
    <3>2. t \notin gone
      BY <1>2, <3>1 DEF Fetching!Purgeable, Fetching!Here, Within
    <3>3. has[n][t] > 0
      BY <3>1, <2>1 DEF FInv
    <3> QED BY <2>1, <2>3, <3>2, <3>3, <1>4, <1>5
  <2> QED BY <2>2, <2>3
<1>9. ASSUME NEW m \in Nodes, NEW i \in 1..Len(handlers'[m])
      PROVE  /\ Asking(handlers'[m][i]) /\ Making(m, handlers[m][i])'
             /\ handlers'[m][i].asked => Comes(m, i)'
  <2>1. m # n /\ i \in 1..Len(handlers[m])
    BY <1>2, <1>3
  <2>2. /\ Asking(handlers[m][i]) /\ Making(m, handlers[m][i])
        /\ handlers[m][i].asked => Comes(m, i)
    BY <2>1, FetchedFrom
  <2> QED BY <1>2, <1>5, <2>1, <2>2 DEF Making, Comes
<1> QED BY <1>6, <1>7, <1>8, <1>9 DEF FInv

LEMMA FetchingStep ==
  ASSUME Fetching!ConstantsOK, FInv, [Fetching!Next]_(Fetching!vars), used'["Late"] = 0
  PROVE  FInv'
<1>1. CASE UNCHANGED Fetching!vars
  <2>1. UNCHANGED <<has, handlers, chan, unknown, used>>
    BY <1>1 DEF Fetching!vars
  <2>2. chan \in Chans /\ unknown \in Told /\ used \in Uses /\ KeepsReplies(Nil, <<>>)
    BY <2>1, NothingLost DEF FInv, FetchTypes, Chans
  <2> QED BY <2>1, <2>2, OnlyMessages
<1>2. CASE Fetching!Next
  <2>1. ASSUME NEW s \in Nodes, NEW n \in Nodes, NEW o \in Objects, Fetching!Mention(s, n, o) PROVE FInv'
    BY <2>1, MentionKeeps
  <2>2. ASSUME NEW n \in Nodes, NEW gone \in SUBSET Objects, Fetching!Purge(n, gone) PROVE FInv'
    BY <2>2, PurgeKeeps
  <2>3. ASSUME NEW s \in Nodes, NEW n \in Nodes, NEW d \in Nodes, Fetching!Forward(s, n, d) PROVE FInv'
    BY <2>3, ForwardKeeps
  <2>4. ASSUME NEW s \in Nodes, NEW n \in Nodes, Fetching!Handles(s, n) PROVE FInv'
    BY <2>4, HandleMentionKeeps, HandleObjectRequestKeeps, HandleObjectReplyKeeps,
       HandleNotFoundKeeps DEF Fetching!Handles
  <2>5. ASSUME NEW n \in Nodes, Fetching!Continues(n) PROVE FInv'
    BY <2>5, AskKeeps, HasKeeps, ReturnKeeps DEF Fetching!Continues
  <2> QED BY <1>2, <2>1, <2>2, <2>3, <2>4, <2>5, Zenon DEF Fetching!Next, Fetching!Work
<1> QED BY <1>1, <1>2

(* Whatever collections take, there is at most one copy; and the rest holds*)
(* as long as no collection has come late.                                 *)
Once == has \in [Nodes -> [Objects -> Nat]] /\ \A n \in Nodes, o \in Objects : has[n][o] <= 1
FSafe == Once /\ used \in Uses /\ (Fetching!Calm => FInv)

UsesGrow == \A k \in Fetching!Kinds : used'[k] = 0 => used[k] = 0

LEMMA OnceStays ==
  ASSUME Once, used \in Uses, [Fetching!Next]_(Fetching!vars)
  PROVE  Once' /\ used' \in Uses /\ UsesGrow
<1>1. CASE UNCHANGED <<has, used>>
  BY <1>1 DEF Once, UsesGrow
<1>2. ASSUME NEW s \in Nodes, NEW n \in Nodes, NEW o \in Objects, Fetching!Mention(s, n, o)
      PROVE  UNCHANGED has /\ Fetching!Spend("Mention")
  BY <1>2 DEF Fetching!Mention
<1>3. ASSUME NEW s \in Nodes, NEW n \in Nodes, NEW d \in Nodes, Fetching!Forward(s, n, d)
      PROVE  UNCHANGED has /\ Fetching!Spend("Forward")
  BY <1>3 DEF Fetching!Forward
<1>4. ASSUME NEW n \in Nodes, NEW gone \in SUBSET Objects, Fetching!Purge(n, gone)
      PROVE  Once' /\ (Fetching!Spend("Purge") \/ Fetching!Spend("Late"))
  <2> DEFINE row == [o \in Objects |-> IF o \in gone THEN 0 ELSE has[n][o]]
  <2>1. has' = [has EXCEPT ![n] = row] /\ (Fetching!Spend("Purge") \/ Fetching!Spend("Late"))
    BY <1>4 DEF Fetching!Purge
  <2>2. row \in [Objects -> Nat] /\ \A o \in Objects : row[o] <= 1
    BY DEF Once
  <2> HIDE DEF row
  <2> QED BY <2>1, <2>2 DEF Once
<1>5. ASSUME NEW n \in Nodes, Fetching!Return(n) PROVE Once' /\ UNCHANGED used
  <2> DEFINE row == [o \in Objects |-> IF o \in Fetching!ToSet(Fetching!Top(n).makes)
                                       THEN Fetching!Copies(n, o) ELSE has[n][o]]
  <2>1. has' = [has EXCEPT ![n] = row] /\ UNCHANGED used
    BY <1>5 DEF Fetching!Return
  <2>2. row \in [Objects -> Nat] /\ \A o \in Objects : row[o] <= 1
    BY DEF Once, Fetching!Copies, Fetching!Here
  <2> HIDE DEF row
  <2> QED BY <2>1, <2>2 DEF Once
<1>6. ASSUME NEW s \in Nodes, NEW n \in Nodes, Fetching!Handles(s, n) PROVE UNCHANGED <<has, used>>
  BY <1>6 DEF Fetching!Handles, Fetching!HandleMention, Fetching!HandleObjectRequest,
              Fetching!HandleObjectReply, Fetching!HandleNotFound
<1>7. ASSUME NEW n \in Nodes, Fetching!Ask(n) \/ Fetching!Has(n) PROVE UNCHANGED <<has, used>>
  BY <1>7 DEF Fetching!Ask, Fetching!Has
<1>8. ASSUME NEW k \in Fetching!Kinds, Fetching!Spend(k)
      PROVE  used' \in Uses /\ UsesGrow
  <2>1. /\ used' \in Uses /\ \A l \in Fetching!Kinds : used'[l] >= used[l]
        /\ \A l \in Fetching!Kinds : used[l] \in Nat /\ used'[l] \in Nat
    BY <1>8, Spending DEF Uses
  <2> QED BY <2>1 DEF UsesGrow
<1>9. {"Mention", "Forward", "Purge", "Late"} \subseteq Fetching!Kinds
  BY DEF Fetching!Kinds
<1>10. CASE UNCHANGED has /\ \E k \in Fetching!Kinds : Fetching!Spend(k)
  BY <1>8, <1>10 DEF Once
<1>11. CASE Once' /\ \E k \in Fetching!Kinds : Fetching!Spend(k)
  BY <1>8, <1>11
<1>12. CASE Once' /\ UNCHANGED used
  BY <1>12 DEF UsesGrow
<1>13. CASE UNCHANGED Fetching!vars
  BY <1>1, <1>13 DEF Fetching!vars
<1>14. CASE Fetching!Next
  <2>1. CASE \E s, n \in Nodes, o \in Objects : Fetching!Mention(s, n, o)
    BY <2>1, <1>2, <1>9, <1>10
  <2>2. CASE \E n \in Nodes, gone \in SUBSET Objects : Fetching!Purge(n, gone)
    BY <2>2, <1>4, <1>9, <1>11
  <2>3. CASE \E s, n, d \in Nodes : Fetching!Forward(s, n, d)
    BY <2>3, <1>3, <1>9, <1>10
  <2>4. CASE Fetching!Work
    BY <2>4, <1>1, <1>5, <1>6, <1>7, <1>12 DEF Fetching!Work, Fetching!Continues
  <2> QED BY <1>14, <2>1, <2>2, <2>3, <2>4 DEF Fetching!Next
<1> QED BY <1>13, <1>14

LEMMA FetchingInvariant == Fetching!ConstantsOK => (Fetching!Spec => []FSafe)
<1> SUFFICES ASSUME Fetching!ConstantsOK PROVE Fetching!Spec => []FSafe
  OBVIOUS
<1>1. Fetching!Init => FSafe
  BY FetchingStarts DEF FSafe, Once, FInv, FetchTypes
<1>2. ASSUME FSafe, [Fetching!Next]_(Fetching!vars) PROVE FSafe'
  <2>1. Once' /\ used' \in Uses /\ (Fetching!Calm' => Fetching!Calm)
    BY <1>2, OnceStays DEF FSafe, UsesGrow, Fetching!Calm, Fetching!Kinds
  <2>2. ASSUME Fetching!Calm' PROVE FInv'
    BY <1>2, <2>1, <2>2, FetchingStep DEF FSafe, Fetching!Calm
  <2> QED BY <2>1, <2>2 DEF FSafe
<1> QED BY <1>1, <1>2, PTL DEF Fetching!Spec

(* An immutable object is made at most once on a node, although replies    *)
(* with it may be read one inside the other, messages be passed on, and    *)
(* collections take objects; and its concrete types are there before it,   *)
(* unless a collection came while a reply was read that nobody waited for: *)
(* for any nodes, objects, types and messages.                             *)
THEOREM FetchedOnce ==
  Fetching!ConstantsOK => (Fetching!Spec => [](Fetching!OneCopy /\ Fetching!TypesFirst))
<1> SUFFICES ASSUME Fetching!ConstantsOK
             PROVE Fetching!Spec => [](Fetching!OneCopy /\ Fetching!TypesFirst)
  OBVIOUS
<1>1. FSafe => Fetching!OneCopy /\ Fetching!TypesFirst
  BY DEF FSafe, Once, FInv, Fetching!OneCopy, Fetching!TypesFirst, Fetching!Here, Within
<1> QED BY FetchingInvariant, <1>1, PTL

-----------------------------------------------------------------------------
(* ObjectRequest: who is asked has what it is asked for, as long as no     *)
(* message is passed on and no collection takes anything.                  *)

Quiet == used["Forward"] = 0 /\ used["Purge"] = 0 /\ Fetching!Calm

Owed(s, n, m) ==
  /\ m.kind \in {"Mention", "ObjectReply"} => has[s][m.object] > 0
  /\ m.kind = "ObjectRequest" => has[n][m.object] > 0
  /\ m.kind # "NotFound"
Provided(h) == \A t \in Within(h.needs) : has[h.from][t] > 0

AllOwed == \A s, n \in Nodes : \A m \in Within(chan[s][n]) : Owed(s, n, m)
AllProvided == \A n \in Nodes : \A i \in 1..Len(handlers[n]) : Provided(handlers[n][i])
NoneUnknown == \A n \in Nodes : unknown[n] = {}
HaveInv == AllOwed /\ AllProvided /\ NoneUnknown

HasGrows == \A n \in Nodes, o \in Objects : has[n][o] > 0 => has'[n][o] > 0
SentOnly(a, b, m) ==
  \A s, n \in Nodes : \A x \in Within(chan'[s][n]) :
    x \in Within(chan[s][n]) \/ (s = a /\ n = b /\ x = m)
SentNone == \A s, n \in Nodes : Within(chan'[s][n]) \subseteq Within(chan[s][n])
BegunOnly(b, h) ==
  \A n \in Nodes : \A i \in 1..Len(handlers'[n]) :
    (\E j \in 1..Len(handlers[n]) : handlers'[n][i] = handlers[n][j]) \/ (n = b /\ handlers'[n][i] = h)
BegunNone ==
  \A n \in Nodes : \A i \in 1..Len(handlers'[n]) :
    \E j \in 1..Len(handlers[n]) : handlers'[n][i] = handlers[n][j]

LEMMA OwedStays ==
  ASSUME HasGrows, NEW s \in Nodes, NEW n \in Nodes, NEW m \in Messages, Owed(s, n, m)
  PROVE  Owed(s, n, m)'
<1>1. m.object \in Objects
  BY DEF Messages
<1> QED BY <1>1 DEF Owed, HasGrows

LEMMA ProvidedStays ==
  ASSUME HasGrows, NEW h \in Handlers, Provided(h)
  PROVE  \A t \in Within(h.needs) : has'[h.from][t] > 0
<1> SUFFICES ASSUME NEW t \in Within(h.needs) PROVE has'[h.from][t] > 0
  OBVIOUS
<1>1. h.needs \in Seq(Objects) /\ h.from \in Nodes
  BY DEF Handlers
<1>2. t \in Objects
  BY <1>1, WithinIs
<1> QED BY <1>1, <1>2 DEF Provided, HasGrows

LEMMA MessageWithin ==
  ASSUME FInv, NEW s \in Nodes, NEW n \in Nodes, NEW x \in Within(chan[s][n])
  PROVE  x \in Messages
<1>1. chan[s][n] \in Seq(Messages)
  BY DEF FInv, FetchTypes
<1>2. PICK i \in 1..Len(chan[s][n]) : chan[s][n][i] = x
  BY <1>1, WithinIs
<1> QED BY <1>1, <1>2

LEMMA OwedAfterSend ==
  ASSUME FInv, AllOwed, HasGrows, NEW a \in Nodes, NEW b \in Nodes, NEW m \in Messages,
         Owed(a, b, m), SentOnly(a, b, m)
  PROVE  AllOwed'
<1> SUFFICES ASSUME NEW s \in Nodes, NEW n \in Nodes, NEW x \in Within(chan'[s][n])
             PROVE  Owed(s, n, x)'
  BY DEF AllOwed
<1>1. CASE x \in Within(chan[s][n])
  <2>1. x \in Messages /\ Owed(s, n, x)
    BY <1>1, MessageWithin DEF AllOwed
  <2> QED BY <2>1, OwedStays
<1>2. CASE s = a /\ n = b /\ x = m
  BY <1>2, OwedStays
<1> QED BY <1>1, <1>2 DEF SentOnly

LEMMA OwedAfterNone ==
  ASSUME FInv, AllOwed, HasGrows, SentNone
  PROVE  AllOwed'
<1> SUFFICES ASSUME NEW s \in Nodes, NEW n \in Nodes, NEW x \in Within(chan'[s][n])
             PROVE  Owed(s, n, x)'
  BY DEF AllOwed
<1>1. x \in Within(chan[s][n])
  BY DEF SentNone
<1>2. x \in Messages /\ Owed(s, n, x)
  BY <1>1, MessageWithin DEF AllOwed
<1> QED BY <1>2, OwedStays

LEMMA ProvidedAfter ==
  ASSUME FInv, AllProvided, HasGrows, NEW b \in Nodes, NEW h \in Handlers, Provided(h),
         BegunOnly(b, h)
  PROVE  AllProvided'
<1> SUFFICES ASSUME NEW n \in Nodes, NEW i \in 1..Len(handlers'[n])
             PROVE  \A t \in Within(handlers'[n][i].needs) : has'[handlers'[n][i].from][t] > 0
  BY DEF AllProvided, Provided
<1>1. ASSUME NEW j \in 1..Len(handlers[n]), handlers'[n][i] = handlers[n][j]
      PROVE  \A t \in Within(handlers'[n][i].needs) : has'[handlers'[n][i].from][t] > 0
  <2>1. handlers[n][j] \in Handlers /\ Provided(handlers[n][j])
    BY FetchedFrom DEF AllProvided
  <2> QED BY <1>1, <2>1, ProvidedStays
<1>2. CASE handlers'[n][i] = h
  BY <1>2, ProvidedStays
<1> QED BY <1>1, <1>2 DEF BegunOnly

LEMMA ProvidedAfterNone ==
  ASSUME FInv, AllProvided, HasGrows, BegunNone
  PROVE  AllProvided'
<1> SUFFICES ASSUME NEW n \in Nodes, NEW i \in 1..Len(handlers'[n])
             PROVE  \A t \in Within(handlers'[n][i].needs) : has'[handlers'[n][i].from][t] > 0
  BY DEF AllProvided, Provided
<1>1. PICK j \in 1..Len(handlers[n]) : handlers'[n][i] = handlers[n][j]
  BY DEF BegunNone
<1>2. handlers[n][j] \in Handlers /\ Provided(handlers[n][j])
  BY FetchedFrom DEF AllProvided
<1> QED BY <1>1, <1>2, ProvidedStays

-----------------------------------------------------------------------------
(* ObjectRequest: what a step adds to messages and handlers. *)

LEMMA Updates ==
  ASSUME NEW c \in Chans, NEW a \in Nodes, NEW b \in Nodes, NEW q \in Seq(Messages)
  PROVE  LET d == [c EXCEPT ![a][b] = q]
         IN d \in Chans /\ \A s, n \in Nodes : d[s][n] = IF s = a /\ n = b THEN q ELSE c[s][n]
BY DEF Chans

LEMMA SendAdds ==
  ASSUME NEW c \in Chans, NEW a \in Nodes, NEW b \in Nodes, NEW m \in Messages,
         chan' = [c EXCEPT ![a][b] = Append(@, m)],
         \A s, n \in Nodes : Within(c[s][n]) \subseteq Within(chan[s][n])
  PROVE  SentOnly(a, b, m)
<1> DEFINE q == Append(c[a][b], m)
<1>1. c[a][b] \in Seq(Messages)
  BY DEF Chans
<1>2. chan' = [c EXCEPT ![a][b] = q]
  BY DEF Chans
<1>3. q \in Seq(Messages) /\ \A x \in Within(q) : x \in Within(c[a][b]) \/ x = m
  BY <1>1, AppendedOnly, Appended
<1> HIDE DEF q
<1>4. \A s, n \in Nodes : chan'[s][n] = IF s = a /\ n = b THEN q ELSE c[s][n]
  BY ONLY <1>2, <1>3, c \in Chans, a \in Nodes, b \in Nodes, Updates
<1> QED BY <1>3, <1>4 DEF SentOnly

LEMMA ServeAdds ==
  ASSUME NEW c \in Chans, NEW a \in Nodes, NEW b \in Nodes, c[a][b] # <<>>
  PROVE  LET d == [c EXCEPT ![a][b] = Tail(@)]
         IN /\ Head(c[a][b]) \in Within(c[a][b]) /\ Head(c[a][b]) \in Messages /\ d \in Chans
            /\ \A s, n \in Nodes : Within(d[s][n]) \subseteq Within(c[s][n])
<1> DEFINE q == Tail(c[a][b])
           d == [c EXCEPT ![a][b] = Tail(@)]
<1>1. c[a][b] \in Seq(Messages)
  BY DEF Chans
<1>2. /\ Head(c[a][b]) \in Within(c[a][b]) /\ Within(q) \subseteq Within(c[a][b])
      /\ q \in Seq(Messages) /\ Head(c[a][b]) \in Messages
  BY <1>1, ServedOnly, Served
<1>3. d = [c EXCEPT ![a][b] = q]
  BY DEF Chans
<1> HIDE DEF q, d
<1>4. d \in Chans /\ \A s, n \in Nodes : d[s][n] = IF s = a /\ n = b THEN q ELSE c[s][n]
  BY <1>2, <1>3 DEF Chans
<1>5. \A s, n \in Nodes : Within(d[s][n]) \subseteq Within(c[s][n])
  BY <1>2, <1>4
<1> QED BY <1>2, <1>4, <1>5 DEF d

LEMMA PushAdds ==
  ASSUME FInv, NEW n \in Nodes, NEW h \in Handlers, handlers' = [handlers EXCEPT ![n] = <<h>> \o @]
  PROVE  BegunOnly(n, h)
<1> DEFINE q == <<h>> \o handlers[n]
<1>1. handlers \in [Nodes -> Seq(Handlers)] /\ handlers[n] \in Seq(Handlers)
  BY DEF FInv, FetchTypes
<1>2. /\ q[1] = h
      /\ \A i \in 1..Len(q) : i = 1 \/ (i - 1 \in 1..Len(handlers[n]) /\ q[i] = handlers[n][i - 1])
  BY <1>1, Pushed
<1>3. handlers' = [handlers EXCEPT ![n] = q]
  OBVIOUS
<1> HIDE DEF q
<1>4. handlers'[n] = q /\ \A m \in Nodes : m # n => handlers'[m] = handlers[m]
  BY <1>1, <1>3
<1> QED BY <1>2, <1>4 DEF BegunOnly

LEMMA ReplaceAdds ==
  ASSUME FInv, NEW n \in Nodes, handlers[n] # <<>>, NEW g \in Handlers,
         handlers' = [handlers EXCEPT ![n] = <<g>> \o Tail(@)]
  PROVE  BegunOnly(n, g)
<1> DEFINE q == <<g>> \o Tail(handlers[n])
<1>1. handlers \in [Nodes -> Seq(Handlers)] /\ handlers[n] \in Seq(Handlers)
  BY DEF FInv, FetchTypes
<1>2. q[1] = g /\ Len(q) = Len(handlers[n]) /\ \A i \in 1..Len(handlers[n]) : i = 1 \/ q[i] = handlers[n][i]
  BY <1>1, Replaced
<1>3. handlers' = [handlers EXCEPT ![n] = q]
  OBVIOUS
<1> HIDE DEF q
<1>4. handlers'[n] = q /\ \A m \in Nodes : m # n => handlers'[m] = handlers[m]
  BY <1>1, <1>3
<1> QED BY <1>2, <1>4 DEF BegunOnly

LEMMA RemoveAdds ==
  ASSUME FInv, NEW n \in Nodes, handlers[n] # <<>>,
         handlers' = [handlers EXCEPT ![n] = <<>> \o Tail(@)]
  PROVE  BegunNone
<1> DEFINE q == <<>> \o Tail(handlers[n])
<1>1. handlers \in [Nodes -> Seq(Handlers)] /\ handlers[n] \in Seq(Handlers)
  BY DEF FInv, FetchTypes
<1>2. \A i \in 1..Len(q) : i + 1 \in 1..Len(handlers[n]) /\ q[i] = handlers[n][i + 1]
  BY <1>1, Removed
<1>3. handlers' = [handlers EXCEPT ![n] = q]
  OBVIOUS
<1> HIDE DEF q
<1>4. handlers'[n] = q /\ \A m \in Nodes : m # n => handlers'[m] = handlers[m]
  BY <1>1, <1>3
<1> QED BY <1>2, <1>4 DEF BegunNone

-----------------------------------------------------------------------------
(* ObjectRequest: each step leaves who is asked with what it is asked for. *)

LEMMA SameHas ==
  ASSUME UNCHANGED has
  PROVE  HasGrows
BY DEF HasGrows

LEMMA SameHandlers ==
  ASSUME UNCHANGED handlers
  PROVE  BegunNone
BY DEF BegunNone

LEMMA MentionOwes ==
  ASSUME FInv, HaveInv, NEW s \in Nodes, NEW n \in Nodes, NEW o \in Objects, Fetching!Mention(s, n, o)
  PROVE  HaveInv'
<1> DEFINE m == Fetching!Msg("Mention", o)
<1>1. /\ chan' = [chan EXCEPT ![s][n] = Append(@, m)] /\ has[s][o] > 0
      /\ UNCHANGED <<has, handlers, unknown>>
  BY DEF Fetching!Mention, Fetching!Here
<1>2. chan \in Chans /\ m \in Messages /\ \A a, b \in Nodes : Within(chan[a][b]) \subseteq Within(chan[a][b])
  BY DEF FInv, FetchTypes, Chans, Messages, Fetching!Msg
<1>3. Owed(s, n, m)
  BY <1>1 DEF Owed, Fetching!Msg
<1> HIDE DEF m
<1>4. SentOnly(s, n, m)
  BY <1>1, <1>2, SendAdds
<1>5. HasGrows /\ BegunNone
  BY <1>1, SameHas, SameHandlers
<1>6. AllOwed' /\ AllProvided'
  BY <1>2, <1>3, <1>4, <1>5, OwedAfterSend, ProvidedAfterNone DEF HaveInv
<1>7. NoneUnknown'
  BY <1>1 DEF HaveInv, NoneUnknown
<1> QED BY <1>6, <1>7 DEF HaveInv

LEMMA HandleMentionOwes ==
  ASSUME FInv, HaveInv, NEW s \in Nodes, NEW n \in Nodes, Fetching!HandleMention(s, n)
  PROVE  HaveInv'
<1> DEFINE head == Head(chan[s][n])
           h == Fetching!Handler(s, <<head.object>>, <<>>)
           d == [chan EXCEPT ![s][n] = Tail(@)]
<1>1. /\ chan[s][n] # <<>> /\ head.kind = "Mention"
      /\ handlers' = [handlers EXCEPT ![n] = <<h>> \o @]
      /\ chan' = d /\ UNCHANGED <<has, unknown>>
  BY DEF Fetching!HandleMention, Fetching!Arrived, Fetching!Taken, Fetching!Push
<1>2. chan \in Chans
  BY DEF FInv, FetchTypes, Chans
<1>3. /\ head \in Within(chan[s][n]) /\ head \in Messages
      /\ \A a, b \in Nodes : Within(d[a][b]) \subseteq Within(chan[a][b])
  BY <1>1, <1>2, ServeAdds
<1>4. h \in Handlers /\ h.needs = <<head.object>> /\ h.from = s
  BY <1>3 DEF Fetching!Handler, Handlers, Messages
<1> HIDE DEF head, h, d
<1>5. has[s][head.object] > 0
  BY <1>1, <1>3 DEF HaveInv, AllOwed, Owed
<1>6. Provided(h)
  BY <1>4, <1>5 DEF Provided, Within, Fetching!ToSet
<1>7. SentNone /\ HasGrows /\ BegunOnly(n, h)
  BY <1>1, <1>3, <1>4, SameHas, PushAdds DEF SentNone
<1>8. AllOwed' /\ AllProvided'
  BY <1>4, <1>6, <1>7, OwedAfterNone, ProvidedAfter DEF HaveInv
<1>9. NoneUnknown'
  BY <1>1 DEF HaveInv, NoneUnknown
<1> QED BY <1>8, <1>9 DEF HaveInv

LEMMA HandleObjectRequestOwes ==
  ASSUME FInv, HaveInv, NEW s \in Nodes, NEW n \in Nodes, Fetching!HandleObjectRequest(s, n)
  PROVE  HaveInv'
<1> DEFINE head == Head(chan[s][n])
           m == Fetching!Answer(n, head.object)
           d == [chan EXCEPT ![s][n] = Tail(@)]
<1>1. /\ chan[s][n] # <<>> /\ head.kind = "ObjectRequest"
      /\ chan' = [d EXCEPT ![n][s] = Append(@, m)] /\ UNCHANGED <<has, handlers, unknown>>
  BY DEF Fetching!HandleObjectRequest, Fetching!Arrived, Fetching!Taken
<1>2. chan \in Chans
  BY DEF FInv, FetchTypes, Chans
<1>3. /\ head \in Within(chan[s][n]) /\ head \in Messages /\ d \in Chans
      /\ \A a, b \in Nodes : Within(d[a][b]) \subseteq Within(chan[a][b])
  BY <1>1, <1>2, ServeAdds
<1>4. has[n][head.object] > 0
  <2> HIDE DEF head
  <2> QED BY <1>1, <1>3 DEF HaveInv, AllOwed, Owed
<1>5. m = Fetching!Msg("ObjectReply", head.object)
  BY <1>4 DEF Fetching!Answer, Fetching!Here
<1>6. m \in Messages
  BY <1>3, <1>5 DEF Messages, Fetching!Msg
<1>7. Owed(n, s, m)
  BY <1>4, <1>5 DEF Owed, Fetching!Msg
<1> HIDE DEF head, m, d
<1>8. SentOnly(n, s, m)
  BY <1>1, <1>3, <1>6, SendAdds
<1>9. HasGrows /\ BegunNone
  BY <1>1, SameHas, SameHandlers
<1>10. AllOwed' /\ AllProvided'
  BY <1>6, <1>7, <1>8, <1>9, OwedAfterSend, ProvidedAfterNone DEF HaveInv
<1>11. NoneUnknown'
  BY <1>1 DEF HaveInv, NoneUnknown
<1> QED BY <1>10, <1>11 DEF HaveInv

LEMMA HandleObjectReplyOwes ==
  ASSUME Fetching!ConstantsOK, FInv, HaveInv, NEW s \in Nodes, NEW n \in Nodes,
         Fetching!HandleObjectReply(s, n)
  PROVE  HaveInv'
<1> DEFINE head == Head(chan[s][n])
           o == head.object
           h == Fetching!Handler(s, TypesOf[o], <<o>>)
           d == [chan EXCEPT ![s][n] = Tail(@)]
<1>1. /\ chan[s][n] # <<>> /\ head.kind = "ObjectReply"
      /\ handlers' = [handlers EXCEPT ![n] = <<h>> \o @] \/ UNCHANGED handlers
      /\ chan' = d /\ UNCHANGED <<has, unknown>>
  BY DEF Fetching!HandleObjectReply, Fetching!Arrived, Fetching!Taken, Fetching!Push, Fetching!Named
<1>2. chan \in Chans
  BY DEF FInv, FetchTypes, Chans
<1>3. /\ head \in Within(chan[s][n]) /\ head \in Messages
      /\ \A a, b \in Nodes : Within(d[a][b]) \subseteq Within(chan[a][b])
  BY <1>1, <1>2, ServeAdds
<1>4. o \in Objects
  BY <1>3 DEF Messages
<1>5. h \in Handlers /\ h.needs = TypesOf[o] /\ h.from = s
  BY <1>4 DEF Fetching!Handler, Handlers, Fetching!ConstantsOK
<1>6. has[s][o] > 0
  <2> HIDE DEF head
  <2> QED BY <1>1, <1>3 DEF HaveInv, AllOwed, Owed
<1> HIDE DEF head, o, h, d
<1>7. Provided(h)
  BY <1>4, <1>5, <1>6 DEF Provided, FInv
<1>8. SentNone /\ HasGrows
  BY <1>1, <1>3, SameHas DEF SentNone
<1>9. BegunOnly(n, h) \/ BegunNone
  BY <1>1, <1>5, PushAdds, SameHandlers
<1>10. AllOwed' /\ AllProvided'
  BY <1>5, <1>7, <1>8, <1>9, OwedAfterNone, ProvidedAfter, ProvidedAfterNone DEF HaveInv
<1>11. NoneUnknown'
  BY <1>1 DEF HaveInv, NoneUnknown
<1> QED BY <1>10, <1>11 DEF HaveInv

LEMMA NoneIsNotFound ==
  ASSUME FInv, HaveInv, NEW s \in Nodes, NEW n \in Nodes
  PROVE  ~Fetching!HandleNotFound(s, n)
<1> SUFFICES ASSUME Fetching!HandleNotFound(s, n) PROVE FALSE
  OBVIOUS
<1>1. chan[s][n] # <<>> /\ Head(chan[s][n]).kind = "NotFound" /\ chan \in Chans
  BY DEF Fetching!HandleNotFound, Fetching!Arrived, FInv, FetchTypes, Chans
<1>2. Head(chan[s][n]) \in Within(chan[s][n])
  BY <1>1, ServeAdds
<1> QED BY <1>1, <1>2 DEF HaveInv, AllOwed, Owed

LEMMA TopProvided ==
  ASSUME FInv, HaveInv, NEW n \in Nodes, handlers[n] # <<>>
  PROVE  /\ Fetching!Top(n) \in Handlers /\ Provided(Fetching!Top(n))
<1>1. Fetching!Top(n) = handlers[n][1] /\ Fetching!Top(n) \in Handlers /\ 1 \in 1..Len(handlers[n])
  BY TopHandler
<1> QED BY <1>1 DEF HaveInv, AllProvided

LEMMA AskOwes ==
  ASSUME FInv, HaveInv, NEW n \in Nodes, Fetching!Ask(n)
  PROVE  HaveInv'
<1> DEFINE top == Fetching!Top(n)
           g == [top EXCEPT !.asked = TRUE]
           o == Head(top.needs)
           m == Fetching!Msg("ObjectRequest", o)
<1>1. /\ handlers[n] # <<>> /\ top.needs # <<>>
      /\ handlers' = [handlers EXCEPT ![n] = <<g>> \o Tail(@)]
      /\ chan' = [chan EXCEPT ![n][top.from] = Append(@, m)]
      /\ UNCHANGED <<has, unknown>>
  BY DEF Fetching!Ask, Fetching!Going, Fetching!Replace
<1>2. top \in Handlers /\ Provided(top)
  BY <1>1, TopProvided
<1>3. top.from \in Nodes /\ top.needs \in Seq(Objects)
  BY <1>2 DEF Handlers
<1>4. o \in Objects /\ o \in Within(top.needs)
  BY <1>1, <1>3, ServedOnly
<1>5. has[top.from][o] > 0
  BY <1>2, <1>4 DEF Provided
<1>6. /\ m \in Messages /\ chan \in Chans
      /\ \A a, b \in Nodes : Within(chan[a][b]) \subseteq Within(chan[a][b])
  BY <1>4 DEF Messages, Fetching!Msg, FInv, FetchTypes, Chans
<1>7. Owed(n, top.from, m)
  BY <1>5 DEF Owed, Fetching!Msg
<1>8. g \in Handlers /\ g.needs = top.needs /\ g.from = top.from
  BY <1>2 DEF Handlers
<1> HIDE DEF top, g, o, m
<1>9. SentOnly(n, top.from, m)
  BY <1>1, <1>3, <1>6, SendAdds
<1>10. Provided(g)
  BY <1>2, <1>8 DEF Provided
<1>11. HasGrows /\ BegunOnly(n, g)
  BY <1>1, <1>8, SameHas, ReplaceAdds
<1>12. AllOwed' /\ AllProvided'
  BY <1>3, <1>6, <1>7, <1>8, <1>9, <1>10, <1>11, OwedAfterSend, ProvidedAfter DEF HaveInv
<1>13. NoneUnknown'
  BY <1>1 DEF HaveInv, NoneUnknown
<1> QED BY <1>12, <1>13 DEF HaveInv

LEMMA HasOwes ==
  ASSUME FInv, HaveInv, NEW n \in Nodes, Fetching!Has(n)
  PROVE  HaveInv'
<1> DEFINE top == Fetching!Top(n)
           g == [top EXCEPT !.needs = Tail(@), !.asked = FALSE]
<1>1. /\ handlers[n] # <<>> /\ top.needs # <<>>
      /\ handlers' = [handlers EXCEPT ![n] = <<g>> \o Tail(@)]
      /\ UNCHANGED <<has, chan, unknown>>
  BY DEF Fetching!Has, Fetching!Going, Fetching!Replace
<1>2. top \in Handlers /\ Provided(top)
  BY <1>1, TopProvided
<1>3. top.needs \in Seq(Objects)
  BY <1>2 DEF Handlers
<1>4. Tail(top.needs) \in Seq(Objects) /\ Within(Tail(top.needs)) \subseteq Within(top.needs)
  BY <1>1, <1>3, ServedOnly, Served
<1>5. g \in Handlers /\ g.needs = Tail(top.needs) /\ g.from = top.from
  BY <1>2, <1>4 DEF Handlers
<1> HIDE DEF top, g
<1>6. Provided(g)
  BY <1>2, <1>4, <1>5 DEF Provided
<1>7. SentNone /\ HasGrows /\ BegunOnly(n, g)
  BY <1>1, <1>5, SameHas, ReplaceAdds DEF SentNone
<1>8. AllOwed' /\ AllProvided'
  BY <1>5, <1>6, <1>7, OwedAfterNone, ProvidedAfter DEF HaveInv
<1>9. NoneUnknown'
  BY <1>1 DEF HaveInv, NoneUnknown
<1> QED BY <1>8, <1>9 DEF HaveInv

LEMMA ReturnOwes ==
  ASSUME FInv, HaveInv, NEW n \in Nodes, Fetching!Return(n)
  PROVE  HaveInv'
<1>1. /\ handlers[n] # <<>> /\ handlers' = [handlers EXCEPT ![n] = <<>> \o Tail(@)]
      /\ UNCHANGED <<chan, unknown>>
  BY DEF Fetching!Return, Fetching!Going, Fetching!Replace
<1>2. HasGrows
  BY ReturnGives DEF HasGrows
<1>3. SentNone /\ BegunNone
  BY <1>1, RemoveAdds DEF SentNone
<1>4. AllOwed' /\ AllProvided'
  BY <1>2, <1>3, OwedAfterNone, ProvidedAfterNone DEF HaveInv
<1>5. NoneUnknown'
  BY <1>1 DEF HaveInv, NoneUnknown
<1> QED BY <1>4, <1>5 DEF HaveInv

(* What is passed on or collected is counted. *)
LEMMA QuietStep ==
  ASSUME FInv, [Fetching!Next]_(Fetching!vars), Quiet'
  PROVE  \/ UNCHANGED Fetching!vars
         \/ \E s, n \in Nodes, o \in Objects : Fetching!Mention(s, n, o)
         \/ Fetching!Work
<1>1. used \in Uses
  BY DEF FInv, FetchTypes
<1>2. used'["Forward"] = 0 /\ used'["Purge"] = 0 /\ used'["Late"] = 0
  BY DEF Quiet, Fetching!Calm
<1>3. ASSUME NEW s \in Nodes, NEW n \in Nodes, NEW d \in Nodes, Fetching!Forward(s, n, d) PROVE FALSE
  <2>1. Fetching!Spend("Forward")
    BY <1>3 DEF Fetching!Forward
  <2> QED BY <2>1, <1>1, <1>2, Spending DEF Fetching!Kinds
<1>4. ASSUME NEW n \in Nodes, NEW gone \in SUBSET Objects, Fetching!Purge(n, gone) PROVE FALSE
  <2>1. Fetching!Spend("Purge") \/ Fetching!Spend("Late")
    BY <1>4 DEF Fetching!Purge
  <2> QED BY <2>1, <1>1, <1>2, Spending DEF Fetching!Kinds
<1> QED BY <1>3, <1>4, Zenon DEF Fetching!Next

LEMMA HaveStep ==
  ASSUME Fetching!ConstantsOK, FInv, HaveInv, [Fetching!Next]_(Fetching!vars), Quiet'
  PROVE  HaveInv'
<1>1. CASE UNCHANGED Fetching!vars
  BY <1>1 DEF Fetching!vars, HaveInv, AllOwed, Owed, AllProvided, Provided, NoneUnknown
<1>2. ASSUME NEW s \in Nodes, NEW n \in Nodes, NEW o \in Objects, Fetching!Mention(s, n, o) PROVE HaveInv'
  BY <1>2, MentionOwes
<1>3. ASSUME NEW s \in Nodes, NEW n \in Nodes, Fetching!Handles(s, n) PROVE HaveInv'
  BY <1>3, HandleMentionOwes, HandleObjectRequestOwes, HandleObjectReplyOwes,
     NoneIsNotFound DEF Fetching!Handles
<1>4. ASSUME NEW n \in Nodes, Fetching!Continues(n) PROVE HaveInv'
  BY <1>4, AskOwes, HasOwes, ReturnOwes DEF Fetching!Continues
<1> QED BY <1>1, <1>2, <1>3, <1>4, QuietStep, Zenon DEF Fetching!Work

AskedInv == FSafe /\ (Quiet => HaveInv)

LEMMA AskedInvariant == Fetching!ConstantsOK => (Fetching!Spec => []AskedInv)
<1> SUFFICES ASSUME Fetching!ConstantsOK PROVE Fetching!Spec => []AskedInv
  OBVIOUS
<1>1. ASSUME Fetching!Init PROVE HaveInv
  <2>1. /\ handlers = [n \in Nodes |-> <<>>] /\ unknown = [n \in Nodes |-> {}]
        /\ chan = [s \in Nodes |-> [n \in Nodes |-> <<>>]]
    BY <1>1 DEF Fetching!Init
  <2>2. \A s, n \in Nodes : Within(chan[s][n]) = {} /\ Len(handlers[n]) = 0
    BY <2>1 DEF Within, Fetching!ToSet
  <2> QED BY <2>1, <2>2 DEF HaveInv, AllOwed, AllProvided, NoneUnknown
<1>2. ASSUME FSafe, FSafe', Quiet => HaveInv, [Fetching!Next]_(Fetching!vars), Quiet' PROVE HaveInv'
  <2>1. UsesGrow
    BY <1>2, OnceStays DEF FSafe
  <2>2. Quiet
    BY <1>2, <2>1 DEF Quiet, UsesGrow, Fetching!Calm, Fetching!Kinds
  <2>3. FInv
    BY <1>2, <2>2 DEF FSafe, Quiet
  <2> QED BY <1>2, <2>2, <2>3, HaveStep
<1>3. Fetching!Init => (Quiet => HaveInv)
  BY <1>1
<1>4. FSafe /\ FSafe' /\ (Quiet => HaveInv) /\ [Fetching!Next]_(Fetching!vars) => (Quiet => HaveInv)'
  BY <1>2
<1>5. Fetching!Spec => []FSafe
  BY FetchingInvariant
<1> QED BY <1>3, <1>4, <1>5, PTL DEF Fetching!Spec, AskedInv

(* Nobody waits for a reply that is not on its way: while a handler waits, *)
(* what it asked for is here, or its request, its reply, or the handler of *)
(* the reply, which is further in; or the node that was asked answers that *)
(* it does not have it, and then nothing ends the wait (vm/remote.c:793,   *)
(* 835).  That answer is never given as long as messages are read where    *)
(* they are sent and no collection takes anything.                         *)
THEOREM NobodyWaitsInVain ==
  Fetching!ConstantsOK =>
    (Fetching!Spec => [](Fetching!AskedIsComing /\ Fetching!AskedHaveIt))
<1> SUFFICES ASSUME Fetching!ConstantsOK
             PROVE Fetching!Spec => [](Fetching!AskedIsComing /\ Fetching!AskedHaveIt)
  OBVIOUS
<1>1. ASSUME AskedInv PROVE Fetching!AskedIsComing
  <2> SUFFICES ASSUME Fetching!Calm PROVE Fetching!AskedIsComing
    BY DEF Fetching!AskedIsComing
  <2>1. FInv /\ \A n \in Nodes : DOMAIN handlers[n] = 1..Len(handlers[n])
    BY <1>1 DEF AskedInv, FSafe, FInv, FetchTypes
  <2>2. \A n \in Nodes : \A i \in 1..Len(handlers[n]) : handlers[n][i].asked => Comes(n, i)
    BY <2>1 DEF FInv
  <2> QED BY <2>1, <2>2 DEF Fetching!AskedIsComing, Comes, OnItsWay, Within, Fetching!Here
<1>2. ASSUME AskedInv PROVE Fetching!AskedHaveIt
  BY <1>2 DEF AskedInv, Quiet, HaveInv, NoneUnknown, Fetching!AskedHaveIt
<1> QED BY AskedInvariant, <1>1, <1>2, PTL

-----------------------------------------------------------------------------
(* Streams.                                                                *)

Numbers(k, n) == [i \in 1..n |-> k + i]

(* What a stream that was given the bytes 1 to c to write looks like: the  *)
(* c-th is the last before the head.                                       *)
WStream(m, st, end, v, f, x) ==
  [m |-> m, b |-> [start |-> st, end |-> end, head |-> st + v, valid |-> v, eof |-> x], f |-> f]
IsWritten(m, st, end, v, f, c) ==
  /\ st \in Nat /\ end \in Nat /\ v \in Nat /\ DOMAIN m = 0..(end - 1)
  /\ st + v <= end /\ Size0 <= end - st /\ st + v <= c
  /\ \/ kind = "file" /\ st = 0 /\ end = Size0 /\ f = Numbers(0, c - v)
     \/ kind = "memory" /\ st + v = c /\ f = Numbers(0, 0)
  /\ \A j \in 0..(st + v - 1) : m[j] = (c - (st + v)) + j + 1
Written(s, c) ==
  \E m, st, end, v, f, x : s = WStream(m, st, end, v, f, x) /\ IsWritten(m, st, end, v, f, c)

(* ... and one of the bytes 1 to c that has been read up to n.             *)
RStream(m, end, h, v, x, p) ==
  [m |-> m, b |-> [start |-> 0, end |-> end, head |-> h, valid |-> v, eof |-> x], p |-> p]
IsReadable(m, end, h, v, x, p, c, n) ==
  /\ end \in Nat /\ h \in Nat /\ v \in Nat /\ DOMAIN m = 0..(end - 1) /\ h + v <= end
  /\ \/ kind = "file" /\ end = Size0 /\ file = Numbers(0, c) /\ p = n + v /\ p <= c
     \/ /\ kind = "memory" /\ end = c /\ x = TRUE /\ file = Numbers(0, 0) /\ p = 0 /\ h = n
        /\ n + v = c /\ \A j \in 0..(c - 1) : m[j] = j + 1
  /\ \A i \in 0..(v - 1) : m[h + i] = n + i + 1
Readable(s, c, n) ==
  \E m, end, h, v, x, p :
    s = RStream(m, end, h, v, x, p) /\ IsReadable(m, end, h, v, x, p, c, n)

BInv ==
  /\ kind \in {"file", "memory"} /\ phase \in {"writing", "reading"}
  /\ count \in Nat /\ next \in Nat /\ pos \in Nat /\ failed = FALSE
  /\ phase = "writing" => Written(Buffers!Now, count)
  /\ phase = "reading" => Readable([m |-> mem, b |-> buf, p |-> pos], count, next)

LEMMA Joined ==
  ASSUME NEW k \in Nat, NEW a \in Nat, NEW v \in Nat
  PROVE  Numbers(k, a) \o Numbers(k + a, v) = Numbers(k, a + v)
<1> DEFINE s == Numbers(k, a)   t == Numbers(k + a, v)   u == Numbers(k, a + v)
<1>1. s \in Seq(Nat) /\ Len(s) = a /\ \A i \in 1..a : s[i] = k + i
  <2>1. \A i \in 1..a : k + i \in Nat
    OBVIOUS
  <2> QED BY <2>1 DEF Numbers
<1>2. t \in Seq(Nat) /\ Len(t) = v /\ \A i \in 1..v : t[i] = k + a + i
  <2>1. \A i \in 1..v : k + a + i \in Nat
    OBVIOUS
  <2> QED BY <2>1 DEF Numbers
<1>3. u \in Seq(Nat) /\ Len(u) = a + v /\ \A i \in 1..(a+v) : u[i] = k + i
  <2>1. \A i \in 1..(a+v) : k + i \in Nat
    OBVIOUS
  <2> QED BY <2>1 DEF Numbers
<1> HIDE DEF s, t, u
<1>4. s \o t \in Seq(Nat) /\ Len(s \o t) = a + v
  BY <1>1, <1>2, ConcatProperties
<1>5. ASSUME NEW i \in 1..(a+v)
      PROVE  (s \o t)[i] = u[i]
  <2>1. (s \o t)[i] = IF i <= a THEN s[i] ELSE t[i - a]
    BY <1>1, <1>2, ConcatProperties
  <2>2. CASE i <= a
    BY <1>1, <1>3, <2>1, <2>2
  <2>3. CASE ~(i <= a)
    <3>1. i - a \in 1..v /\ k + a + (i - a) = k + i
      BY <2>3
    <3> QED BY <1>2, <1>3, <2>1, <2>3, <3>1
  <2> QED BY <2>2, <2>3
<1>6. s \o t = u
  BY <1>3, <1>4, <1>5, SeqEqual
<1> QED BY <1>6 DEF s, t, u

LEMMA Rest ==
  ASSUME NEW c \in Nat, NEW p \in 0..c
  PROVE  SubSeq(Numbers(0, c), p + 1, Len(Numbers(0, c))) = Numbers(p, c - p)
<1>1. Len(Numbers(0, c)) = c
  BY DEF Numbers
<1>2. SubSeq(Numbers(0, c), p + 1, c) = [i \in 1..(c - p) |-> Numbers(0, c)[i + (p + 1) - 1]]
  BY DEF Numbers
<1>3. \A i \in 1..(c - p) : i + (p + 1) - 1 \in 1..c /\ i + (p + 1) - 1 = p + i
  OBVIOUS
<1> QED BY <1>1, <1>2, <1>3 DEF Numbers

LEMMA SameCardinality == \A S : Buffers!Cardinality(S) = Cardinality(S)
  BY DEF Buffers!Cardinality, Cardinality

LEMMA FlushedIsWritten ==
  ASSUME Buffers!ConstantsOK, NEW c \in Nat, NEW s, Written(s, c)
  PROVE  /\ Written(Buffers!Flush(s), c)
         /\ Size0 <= Buffers!Room(Buffers!Flush(s).b)
         /\ kind = "file" => Buffers!Flush(s).f = Numbers(0, c)
<1> DEFINE t == Buffers!Flush(s)
<1>1. PICK m, st, e, v, f, x : s = WStream(m, st, e, v, f, x) /\ IsWritten(m, st, e, v, f, c)
  BY DEF Written
<1>2. /\ s.m = m /\ s.f = f /\ s.b.start = st /\ s.b.end = e /\ s.b.valid = v /\ s.b.head = st + v
  BY <1>1 DEF WStream
<1>3. /\ st \in Nat /\ e \in Nat /\ v \in Nat /\ Size0 \in Nat
      /\ st + v <= e /\ Size0 <= e - st /\ st + v <= c /\ DOMAIN m = 0..(e - 1)
  BY <1>1 DEF IsWritten, Buffers!ConstantsOK
<1>4. ASSUME NEW u, NEW a, NEW z, NEW g, NEW y,
             t = WStream(u, a, z, 0, g, y), IsWritten(u, a, z, 0, g, c), Size0 <= z - a
      PROVE  /\ Written(t, c) /\ Size0 <= Buffers!Room(t.b)
             /\ kind = "file" => t.f = Numbers(0, c)
  <2>1. Written(t, c)
    BY <1>4 DEF Written
  <2>2. t.b.start = a /\ t.b.end = z /\ t.b.valid = 0
    BY <1>4 DEF WStream
  <2>3. a \in Nat /\ z \in Nat
    BY <1>4 DEF IsWritten
  <2> HIDE DEF t
  <2>4. Size0 <= Buffers!Room(t.b)
    BY <1>3, <1>4, <2>2, <2>3 DEF Buffers!Room, Buffers!Size
  <2>5. kind = "file" => g = Numbers(0, c - 0)
    BY <1>4 DEF IsWritten
  <2>6. c - 0 = c
    OBVIOUS
  <2>7. t.f = g
    BY <1>4 DEF WStream
  <2> QED BY <2>1, <2>4, <2>5, <2>6, <2>7
<1>5. CASE v = 0
  <2>1. t = WStream(m, st, e, 0, f, x)
    BY <1>1, <1>2, <1>5 DEF Buffers!Flush
  <2>2. IsWritten(m, st, e, 0, f, c)
    BY <1>1, <1>5
  <2> QED BY <1>3, <1>4, <2>1, <2>2
<1>6. CASE v # 0 /\ kind = "file"
  <2>1. t = [s EXCEPT !.f = f \o Buffers!Bytes(m, s.b), !.b = Buffers!Buffer(0, Size0, 0, FALSE)]
    BY <1>1, <1>2, <1>6 DEF Buffers!Flush, WStream
  <2>2. st = 0 /\ e = Size0 /\ f = Numbers(0, c - v) /\ v <= c
        /\ \A j \in 0..(v - 1) : m[j] = (c - v) + j + 1
    BY <1>1, <1>3, <1>6 DEF IsWritten
  <2>3. Buffers!Bytes(m, s.b) = Numbers(c - v, v)
    <3>1. ASSUME NEW i \in 1..v
          PROVE  m[st + i - 1] = (c - v) + i
      <4>1. st + i - 1 \in 0..(v - 1) /\ st + i - 1 = i - 1
        BY <1>3, <2>2
      <4> QED BY <1>3, <2>2, <4>1
    <3> QED BY <1>2, <3>1 DEF Buffers!Bytes, Numbers
  <2>4. f \o Buffers!Bytes(m, s.b) = Numbers(0, c)
    <3>1. PICK d : d = c - v
      OBVIOUS
    <3>2. 0 \in Nat /\ d \in Nat /\ v \in Nat /\ 0 + d = d /\ d + v = c
      BY <1>3, <2>2, <3>1
    <3>3. Numbers(0, d) \o Numbers(0 + d, v) = Numbers(0, d + v)
      BY ONLY <3>2, Joined, Zenon
    <3> QED BY <2>2, <2>3, <3>1, <3>2, <3>3
  <2>5. t = WStream(m, 0, Size0, 0, Numbers(0, c), FALSE)
    <3>1. 0 + 0 = 0
      OBVIOUS
    <3> QED BY <1>1, <2>1, <2>4, <3>1 DEF WStream, Buffers!Buffer
  <2>6. IsWritten(m, 0, Size0, 0, Numbers(0, c), c)
    BY <1>3, <1>6, <2>2 DEF IsWritten
  <2>7. Size0 <= Size0 - 0
    BY <1>3
  <2> HIDE DEF t
  <2> QED BY <1>4, <2>5, <2>6, <2>7 DEF t
<1>7. CASE v # 0 /\ kind = "memory"
  <2>1. Buffers!Grown(m) = 2 * e
    <3>1. e \in Nat /\ 0 \in Int /\ e - 1 \in Int /\ (IF 0 > e - 1 THEN 0 ELSE (e - 1) - 0 + 1) = e
      BY <1>3
    <3>2. Cardinality(0..(e - 1)) = e
      BY ONLY <3>1, FS_Interval
    <3> QED BY <1>3, <3>2, SameCardinality DEF Buffers!Grown, Buffers!GrownTwice
  <2> DEFINE u == [i \in 0..(2 * e - 1) |-> IF i \in DOMAIN m THEN m[i] ELSE 0]
  <2>2. t = [s EXCEPT !.m = u, !.b = Buffers!Buffer(st + v, 2 * e, 0, FALSE)]
    BY <1>1, <1>2, <1>7, <2>1 DEF Buffers!Flush, WStream
  <2>3. st + v = c /\ f = Numbers(0, 0) /\ \A j \in 0..(st + v - 1) : m[j] = j + 1
    BY <1>1, <1>3, <1>7 DEF IsWritten
  <2>4. /\ DOMAIN u = 0..(2 * e - 1)
        /\ \A j \in 0..(c - 1) : u[j] = j + 1
    BY <1>3, <2>3
  <2>5. c + 0 = c /\ 2 * e \in Nat /\ c <= 2 * e /\ Size0 <= 2 * e - c
    BY <1>3, <2>3
  <2> HIDE DEF u
  <2>6. t = WStream(u, c, 2 * e, 0, Numbers(0, 0), FALSE)
    BY <1>1, <2>2, <2>3, <2>5 DEF WStream, Buffers!Buffer
  <2>7. IsWritten(u, c, 2 * e, 0, Numbers(0, 0), c)
    BY <1>3, <1>7, <2>4, <2>5 DEF IsWritten
  <2> HIDE DEF t
  <2> QED BY <1>4, <2>5, <2>6, <2>7 DEF t
<1>8. kind \in {"file", "memory"}
  BY <1>1 DEF IsWritten
<1> QED BY <1>5, <1>6, <1>7, <1>8

LEMMA StoredIsWritten ==
  ASSUME Buffers!ConstantsOK, NEW c \in Nat, NEW s, Written(s, c),
         NEW n \in Nat, n <= Buffers!Room(s.b), NEW first, first = c + 1
  PROVE  /\ Written(Buffers!Store(s, n, first), c + n)
         /\ Buffers!Room(Buffers!Store(s, n, first).b) = Buffers!Room(s.b) - n
<1> DEFINE t == Buffers!Store(s, n, first)
<1>1. PICK m, st, e, v, f, x : s = WStream(m, st, e, v, f, x) /\ IsWritten(m, st, e, v, f, c)
  BY DEF Written
<1>2. /\ s.m = m /\ s.f = f /\ s.b.start = st /\ s.b.end = e /\ s.b.valid = v /\ s.b.head = st + v
  BY <1>1 DEF WStream
<1>3. /\ st \in Nat /\ e \in Nat /\ v \in Nat /\ Size0 \in Nat
      /\ st + v <= e /\ Size0 <= e - st /\ st + v <= c /\ DOMAIN m = 0..(e - 1)
      /\ \A j \in 0..(st + v - 1) : m[j] = (c - (st + v)) + j + 1
  BY <1>1 DEF IsWritten, Buffers!ConstantsOK
<1>4. Buffers!Room(s.b) = e - st - v /\ st + v + n <= e
  BY <1>2, <1>3 DEF Buffers!Room, Buffers!Size
<1> DEFINE u == [i \in DOMAIN m |-> IF i \in (st + v)..(st + v + n - 1) THEN first + (i - (st + v)) ELSE m[i]]
<1>5. t = [s EXCEPT !.m = u, !.b.head = st + v + n, !.b.valid = v + n]
  BY <1>1, <1>2 DEF Buffers!Store, WStream
<1>6. DOMAIN u = 0..(e - 1) /\ \A j \in 0..(st + (v + n) - 1) : u[j] = ((c + n) - (st + (v + n))) + j + 1
  <2>1. DOMAIN u = 0..(e - 1)
    BY <1>3
  <2>2. ASSUME NEW j \in 0..(st + (v + n) - 1)
        PROVE  u[j] = ((c + n) - (st + (v + n))) + j + 1
    <3>1. j \in DOMAIN m
      BY <1>3, <1>4
    <3>2. CASE j \in 0..(st + v - 1)
      BY <1>3, <3>1, <3>2
    <3>3. CASE j \in (st + v)..(st + v + n - 1)
      BY <1>3, <3>1, <3>3
    <3> QED BY <1>3, <3>2, <3>3
  <2> QED BY <2>1, <2>2
<1> HIDE DEF u
<1>7. t = WStream(u, st, e, v + n, f, x)
  <2>1. st + v + n = st + (v + n)
    BY <1>3
  <2> QED BY <1>1, <1>5, <2>1 DEF WStream
<1>8. IsWritten(u, st, e, v + n, f, c + n)
  <2>1. v + n \in Nat /\ st + (v + n) <= e /\ st + (v + n) <= c + n /\ (c + n) - (v + n) = c - v
    BY <1>3, <1>4
  <2>2. \/ kind = "file" /\ st = 0 /\ e = Size0 /\ f = Numbers(0, c - v)
        \/ kind = "memory" /\ st + (v + n) = c + n /\ f = Numbers(0, 0)
    BY <1>1, <1>3 DEF IsWritten
  <2> QED BY <1>3, <1>6, <2>1, <2>2 DEF IsWritten
<1>9. t.b.start = st /\ t.b.end = e /\ t.b.valid = v + n
  BY <1>7 DEF WStream
<1> HIDE DEF t
<1>10. Written(t, c + n)
  BY <1>7, <1>8 DEF Written
<1>11. Buffers!Room(t.b) = Buffers!Room(s.b) - n
  BY <1>3, <1>4, <1>9 DEF Buffers!Room, Buffers!Size
<1> QED BY <1>10, <1>11 DEF t

LEMMA MinOfTwo ==
  ASSUME NEW a \in Nat, NEW b \in Nat
  PROVE  Buffers!Min({a, b}) = IF a <= b THEN a ELSE b
<1> DEFINE l == IF a <= b THEN a ELSE b
<1>1. l \in {a, b} /\ \A y \in {a, b} : l <= y
  OBVIOUS
<1>2. \A z \in {a, b} : (\A y \in {a, b} : z <= y) => z = l
  OBVIOUS
<1> HIDE DEF l
<1> QED BY <1>1, <1>2 DEF Buffers!Min, l

LEMMA WritesKeep ==
  ASSUME Buffers!ConstantsOK, BInv,
         \/ \E n \in 1..MaxBytes : Buffers!Write(n)
         \/ \E n \in 1..(2 * MaxBytes) : Buffers!WriteFrom(n)
  PROVE  BInv'
<1>1. /\ phase = "writing" /\ phase' = "writing" /\ kind' = kind /\ pos' = pos /\ next' = next
      /\ kind \in {"file", "memory"} /\ count \in Nat /\ next \in Nat /\ pos \in Nat
      /\ failed = FALSE /\ Written(Buffers!Now, count)
      /\ Size0 \in Nat /\ MaxBytes \in Nat /\ 2 * MaxBytes <= Size0
  BY DEF BInv, Buffers!Write, Buffers!WriteFrom, Buffers!ConstantsOK
<1>2. ASSUME NEW s, NEW c \in Nat, Written(s, c), Buffers!Becomes(s), count' = c, failed' = FALSE
      PROVE  BInv'
  <2>1. Buffers!Now' = s
    <3>1. PICK m, st, end, v, f, x : s = WStream(m, st, end, v, f, x)
      BY <1>2 DEF Written
    <3>2. s = [m |-> s.m, b |-> s.b, f |-> s.f]
      BY <3>1 DEF WStream
    <3> QED BY <1>2, <3>2 DEF Buffers!Becomes, Buffers!Now
  <2>2. Written(s, c)'
    <3>1. PICK m, st, end, v, f, x : s = WStream(m, st, end, v, f, x) /\ IsWritten(m, st, end, v, f, c)
      BY <1>2 DEF Written
    <3>2. IsWritten(m, st, end, v, f, c)'
      BY <1>1, <3>1 DEF IsWritten
    <3> QED BY <3>1, <3>2 DEF Written, WStream
  <2> QED BY <1>1, <1>2, <2>1, <2>2 DEF BInv
<1>3. ASSUME NEW n \in 1..MaxBytes, Buffers!Write(n)
      PROVE  BInv'
  <2> DEFINE s == IF Buffers!Room(buf) < n THEN Buffers!Flush(Buffers!Now) ELSE Buffers!Now
  <2>1. PICK m, st, end, v, f, x :
          Buffers!Now = WStream(m, st, end, v, f, x) /\ IsWritten(m, st, end, v, f, count)
    BY <1>1 DEF Written
  <2>2. buf.start = st /\ buf.end = end /\ buf.valid = v /\ Buffers!Now.b = buf
        /\ st \in Nat /\ end \in Nat /\ v \in Nat /\ Size0 <= end - st
    BY <2>1 DEF WStream, IsWritten, Buffers!Now
  <2>3. n \in Nat /\ n <= Size0 /\ Buffers!Size(buf) >= n /\ Buffers!Room(buf) \in Int
    BY <1>1, <2>2 DEF Buffers!Size, Buffers!Room
  <2>4. Written(s, count) /\ Buffers!Room(s.b) \in Int /\ n <= Buffers!Room(s.b)
    <3>1. CASE Buffers!Room(buf) < n
      <4>1. s = Buffers!Flush(Buffers!Now)
        BY <3>1
      <4> HIDE DEF s
      <4>2. Written(s, count) /\ Size0 <= Buffers!Room(s.b)
        BY <1>1, <4>1, FlushedIsWritten
      <4>3. Buffers!Room(s.b) \in Int
        BY <4>2 DEF Written, IsWritten, WStream, Buffers!Room, Buffers!Size
      <4> QED BY <1>1, <2>3, <4>2, <4>3
    <3>2. CASE ~(Buffers!Room(buf) < n)
      BY <1>1, <2>2, <2>3, <3>2
    <3> QED BY <3>1, <3>2
  <2> HIDE DEF s
  <2>5. Buffers!Becomes(Buffers!Store(s, n, count + 1)) /\ UNCHANGED failed /\ count' = count + n
    BY <1>3, <2>3, <2>4 DEF Buffers!Write, s
  <2>6. Written(Buffers!Store(s, n, count + 1), count + n)
    BY <1>1, <2>3, <2>4, StoredIsWritten
  <2>7. count + n \in Nat /\ failed' = FALSE
    BY <1>1, <2>3, <2>5
  <2> QED BY <1>2, <2>5, <2>6, <2>7
<1>4. ASSUME NEW n \in 1..(2 * MaxBytes), Buffers!WriteFrom(n)
      PROVE  BInv'
  <2> DEFINE part == Buffers!Min({n, Buffers!Room(buf)})
             s == Buffers!Store(Buffers!Now, part, count + 1)
  <2>1. PICK m, st, end, v, f, x :
          Buffers!Now = WStream(m, st, end, v, f, x) /\ IsWritten(m, st, end, v, f, count)
    BY <1>1 DEF Written
  <2>2. buf.start = st /\ buf.end = end /\ buf.valid = v /\ Buffers!Now.b = buf
        /\ st \in Nat /\ end \in Nat /\ v \in Nat /\ Size0 <= end - st /\ st + v <= end
    BY <2>1 DEF WStream, IsWritten, Buffers!Now
  <2>3. n \in Nat /\ n <= Size0 /\ Buffers!Room(buf) \in Nat
    BY <1>1, <2>2 DEF Buffers!Size, Buffers!Room
  <2>4. part \in Nat /\ part <= n /\ part <= Buffers!Room(buf)
    BY <2>3, MinOfTwo
  <2>5. /\ Buffers!Becomes(IF part = n THEN s
                           ELSE Buffers!Store(Buffers!Flush(s), n - part, count + 1 + part))
        /\ UNCHANGED failed /\ count' = count + n
    BY <1>4 DEF Buffers!WriteFrom
  <2> HIDE DEF part
  <2>6. Written(s, count + part)
    BY <1>1, <2>2, <2>4, StoredIsWritten
  <2> HIDE DEF s
  <2>7. CASE part = n
    <3>1. count + n \in Nat /\ failed' = FALSE
      BY <1>1, <2>3, <2>5
    <3>2. Buffers!Becomes(s) /\ Written(s, count + n)
      BY <2>5, <2>6, <2>7
    <3> QED BY <1>2, <2>5, <3>1, <3>2
  <2>8. CASE part # n
    <3>1. count + part \in Nat /\ n - part \in Nat /\ n - part <= Size0
          /\ (count + part) + (n - part) = count + n /\ count + 1 + part = (count + part) + 1
      BY <1>1, <2>3, <2>4
    <3>2. PICK c, k, first : c = count + part /\ k = n - part /\ first = count + 1 + part
      OBVIOUS
    <3>3. Written(Buffers!Flush(s), c) /\ Size0 <= Buffers!Room(Buffers!Flush(s).b)
      BY <1>1, <2>6, <3>1, <3>2, FlushedIsWritten
    <3>4. PICK t : t = Buffers!Flush(s)
      OBVIOUS
    <3>5. Buffers!Room(t.b) \in Int
      BY <3>3, <3>4 DEF Written, IsWritten, WStream, Buffers!Room, Buffers!Size
    <3>6. k <= Buffers!Room(t.b)
      BY <1>1, <3>1, <3>2, <3>3, <3>4, <3>5
    <3>7. Written(Buffers!Store(t, k, first), c + k)
      BY <3>1, <3>2, <3>3, <3>4, <3>6, StoredIsWritten
    <3>8. c + k = count + n /\ count + n \in Nat
      BY <1>1, <2>3, <3>1, <3>2
    <3> QED BY <1>1, <1>2, <2>5, <2>8, <3>2, <3>4, <3>7, <3>8
  <2> QED BY <2>7, <2>8
<1> QED BY <1>3, <1>4

(* Reading. *)

LEMMA FilledIsReadable ==
  ASSUME Buffers!ConstantsOK, NEW c \in Nat, NEW n \in Nat, NEW s, Readable(s, c, n)
  PROVE  /\ Readable(Buffers!Fill(s), c, n)
         /\ kind = "file" =>
              \/ Buffers!Fill(s).b.valid = Size0
              \/ Buffers!Fill(s).b.valid = c - n
<1> DEFINE t == Buffers!Fill(s)
<1>1. PICK m, e, h, v, x, p : s = RStream(m, e, h, v, x, p) /\ IsReadable(m, e, h, v, x, p, c, n)
  BY DEF Readable
<1>2. s.m = m /\ s.p = p /\ s.b.start = 0 /\ s.b.end = e /\ s.b.valid = v /\ s.b.head = h
  BY <1>1 DEF RStream
<1>3. /\ e \in Nat /\ h \in Nat /\ v \in Nat /\ Size0 \in Nat /\ h + v <= e /\ DOMAIN m = 0..(e - 1)
      /\ \A i \in 0..(v - 1) : m[h + i] = n + i + 1
  BY <1>1 DEF IsReadable, Buffers!ConstantsOK
<1>4. CASE kind = "memory"
  <2>1. t = [s EXCEPT !.b.eof = TRUE]
    BY <1>4 DEF Buffers!Fill
  <2>2. t = RStream(m, e, h, v, TRUE, p)
    BY <1>1, <2>1 DEF RStream
  <2>3. IsReadable(m, e, h, v, TRUE, p, c, n)
    BY <1>1, <1>4 DEF IsReadable
  <2> QED BY <1>4, <2>2, <2>3 DEF Readable
<1>5. CASE kind = "file"
  <2>1. e = Size0 /\ file = Numbers(0, c) /\ p = n + v /\ p <= c /\ p \in Nat
    BY <1>1, <1>3, <1>5 DEF IsReadable
  <2>2. Len(file) = c /\ \A i \in 1..c : file[i] = i
    BY <2>1 DEF Numbers
  <2> DEFINE got == Buffers!Min({Buffers!Size(s.b) - s.b.valid, Len(file) - s.p})
             from == s.b.start + s.b.valid
             w == Buffers!Moved(s)
             u == [i \in DOMAIN w |-> IF i \in from..(from + got - 1) THEN file[s.p + 1 + i - from] ELSE w[i]]
  <2>3. t = [m |-> u, b |-> [s.b EXCEPT !.head = s.b.start, !.valid = s.b.valid + got], p |-> s.p + got]
    BY <1>1, <1>5 DEF Buffers!Fill, RStream
  <2>4. got \in Nat /\ got <= Size0 - v /\ got <= c - p /\ (got = Size0 - v \/ got = c - p)
    <3>1. Size0 - v \in Nat /\ c - p \in Nat /\ Buffers!Size(s.b) = Size0
      BY <1>2, <1>3, <2>1 DEF Buffers!Size
    <3>2. got = Buffers!Min({Size0 - v, c - p})
      BY <1>2, <2>2, <3>1
    <3>3. PICK a, b : a = Size0 - v /\ b = c - p
      OBVIOUS
    <3>4. Buffers!Min({a, b}) = IF a <= b THEN a ELSE b
      BY <3>1, <3>3, MinOfTwo
    <3> HIDE DEF got
    <3> QED BY <3>1, <3>2, <3>3, <3>4
  <2>5. from = v
    BY <1>2, <1>3
  <2>6. DOMAIN w = 0..(Size0 - 1) /\ \A i \in 0..(v - 1) : w[i] = n + i + 1
    <3>1. w = [i \in DOMAIN m |-> IF i - 0 \in 0..(v - 1) THEN m[h + i - 0] ELSE m[i]]
      BY <1>2 DEF Buffers!Moved
    <3>2. DOMAIN w = 0..(Size0 - 1)
      BY <1>3, <2>1, <3>1
    <3>3. ASSUME NEW i \in 0..(v - 1)
          PROVE  w[i] = n + i + 1
      <4>1. i \in DOMAIN m /\ i - 0 \in 0..(v - 1) /\ h + i - 0 = h + i
        BY <1>3
      <4> QED BY <1>3, <3>1, <4>1
    <3> QED BY <3>2, <3>3
  <2> HIDE DEF got, from, w
  <2>7. DOMAIN u = 0..(Size0 - 1) /\ \A i \in 0..((v + got) - 1) : u[0 + i] = n + i + 1
    <3>1. DOMAIN u = 0..(Size0 - 1)
      BY <2>6
    <3>2. ASSUME NEW i \in 0..((v + got) - 1)
          PROVE  u[0 + i] = n + i + 1
      <4>1. i \in DOMAIN w /\ 0 + i = i
        BY <1>3, <2>1, <2>4, <2>6
      <4>2. CASE i \in 0..(v - 1)
        BY <1>3, <2>4, <2>5, <2>6, <4>1, <4>2
      <4>3. CASE i \in v..(v + got - 1)
        <5>1. s.p + 1 + i - from = n + i + 1 /\ n + i + 1 \in 1..c
          BY <1>2, <1>3, <2>1, <2>4, <2>5, <4>3
        <5> QED BY <2>2, <2>5, <4>1, <4>3, <5>1
      <4> QED BY <1>3, <2>4, <4>2, <4>3
    <3> QED BY <3>1, <3>2
  <2> HIDE DEF u
  <2>8. t = RStream(u, Size0, 0, v + got, x, p + got)
    <3>1. [s.b EXCEPT !.head = s.b.start, !.valid = s.b.valid + got]
            = [start |-> 0, end |-> Size0, head |-> 0, valid |-> v + got, eof |-> x]
      <4>1. s.b = [start |-> 0, end |-> Size0, head |-> h, valid |-> v, eof |-> x]
        BY <1>1, <2>1 DEF RStream
      <4>2. PICK b, k : b = s.b /\ k = v + got
        OBVIOUS
      <4>3. [b EXCEPT !.head = 0, !.valid = k]
              = [start |-> 0, end |-> Size0, head |-> 0, valid |-> k, eof |-> x]
        <5>1. b = [start |-> 0, end |-> Size0, head |-> h, valid |-> v, eof |-> x]
          BY <4>1, <4>2
        <5>2. PICK d : d = [b EXCEPT !.head = 0]
          OBVIOUS
        <5>3. d = [start |-> 0, end |-> Size0, head |-> 0, valid |-> v, eof |-> x]
          BY ONLY <5>1, <5>2
        <5>4. [d EXCEPT !.valid = k] = [start |-> 0, end |-> Size0, head |-> 0, valid |-> k, eof |-> x]
          BY ONLY <5>3
        <5> QED BY ONLY <5>2, <5>4
      <4> QED BY <1>2, <4>2, <4>3
    <3> QED BY <1>2, <2>3, <3>1 DEF RStream
  <2>9. IsReadable(u, Size0, 0, v + got, x, p + got, c, n)
    <3>1. v + got \in Nat /\ 0 + (v + got) <= Size0 /\ p + got = n + (v + got) /\ p + got <= c
      BY <1>3, <2>1, <2>4
    <3> QED BY <1>3, <1>5, <2>1, <2>7, <3>1 DEF IsReadable
  <2>10. t.b.valid = v + got /\ (v + got = Size0 \/ v + got = c - n)
    <3>1. t.b.valid = v + got
      BY <2>8 DEF RStream
    <3> QED BY <1>3, <2>1, <2>4, <3>1
  <2> HIDE DEF t
  <2>11. Readable(t, c, n)
    BY <2>8, <2>9 DEF Readable
  <2> QED BY <2>10, <2>11 DEF t
<1>6. kind \in {"file", "memory"}
  BY <1>1 DEF IsReadable
<1> QED BY <1>4, <1>5, <1>6

(* The client takes k bytes from the buffer. *)
LEMMA TakenIsReadable ==
  ASSUME NEW c \in Nat, NEW n \in Nat, NEW s, Readable(s, c, n),
         NEW k \in Nat, k <= s.b.valid,
         NEW t, t = [m |-> s.m, b |-> [s.b EXCEPT !.head = @ + k, !.valid = @ - k], p |-> s.p]
  PROVE  /\ Readable(t, c, n + k)
         /\ t.b.valid = s.b.valid - k
<1>1. PICK m, e, h, v, x, p : s = RStream(m, e, h, v, x, p) /\ IsReadable(m, e, h, v, x, p, c, n)
  BY DEF Readable
<1>2. s.m = m /\ s.p = p /\ s.b.start = 0 /\ s.b.end = e /\ s.b.valid = v /\ s.b.head = h
  BY <1>1 DEF RStream
<1>3. /\ e \in Nat /\ h \in Nat /\ v \in Nat /\ h + v <= e /\ DOMAIN m = 0..(e - 1)
      /\ \A i \in 0..(v - 1) : m[h + i] = n + i + 1
  BY <1>1 DEF IsReadable
<1>4. t = RStream(m, e, h + k, v - k, x, p)
  BY <1>1, <1>2 DEF RStream
<1>7. k <= v /\ v - k \in Nat
  BY <1>2, <1>3
<1>5. IsReadable(m, e, h + k, v - k, x, p, c, n + k)
  <2>1. v - k \in Nat /\ h + k \in Nat /\ (h + k) + (v - k) <= e /\ (n + k) + (v - k) = n + v
    BY <1>2, <1>3
  <2>2. ASSUME NEW i \in 0..((v - k) - 1)
        PROVE  m[(h + k) + i] = (n + k) + i + 1
    <3>0. i \in Nat /\ i <= (v - k) - 1
      BY <1>7
    <3>1. k + i \in 0..(v - 1) /\ h + (k + i) = (h + k) + i /\ n + (k + i) + 1 = (n + k) + i + 1
      <4>1. v \in Nat /\ h \in Nat
        BY <1>3
      <4> QED BY ONLY <3>0, <4>1, <1>7, n \in Nat, k \in Nat
    <3>2. m[h + (k + i)] = n + (k + i) + 1
      BY <1>3, <3>1
    <3> QED BY <3>1, <3>2
  <2>3. \/ kind = "file" /\ e = Size0 /\ file = Numbers(0, c) /\ p = (n + k) + (v - k) /\ p <= c
        \/ /\ kind = "memory" /\ e = c /\ x = TRUE /\ file = Numbers(0, 0) /\ p = 0 /\ h + k = n + k
           /\ (n + k) + (v - k) = c /\ \A j \in 0..(c - 1) : m[j] = j + 1
    BY <1>1, <2>1 DEF IsReadable
  <2> QED BY <1>3, <2>1, <2>2, <2>3 DEF IsReadable
<1>6. t.b.valid = v - k
  BY ONLY <1>4 DEF RStream
<1> QED BY <1>2, <1>4, <1>5, <1>6 DEF Readable

LEMMA ReadsKeep ==
  ASSUME Buffers!ConstantsOK, BInv,
         \/ \E n \in 1..MaxBytes : Buffers!Read(n, 0) \/ Buffers!Read(n, n)
         \/ \E n \in 1..(2 * MaxBytes) : Buffers!ReadTo(n)
  PROVE  BInv'
<1> DEFINE r == [m |-> mem, b |-> buf, p |-> pos]
<1>1. /\ phase = "reading" /\ phase' = "reading" /\ kind' = kind /\ file' = file
      /\ count' = count /\ failed' = failed /\ failed = FALSE
      /\ kind \in {"file", "memory"} /\ count \in Nat /\ next \in Nat /\ Readable(r, count, next)
      /\ Size0 \in Nat /\ MaxBytes \in Nat /\ 2 * MaxBytes <= Size0
  BY DEF BInv, Buffers!Read, Buffers!ReadTo, Buffers!ConstantsOK
<1>2. ASSUME NEW s, NEW n \in Nat, NEW k \in Nat, Readable(s, count, n), k <= s.b.valid,
             mem' = s.m, pos' = s.p, buf' = [s.b EXCEPT !.head = @ + k, !.valid = @ - k],
             next' = n + k
      PROVE  BInv'
  <2>1. PICK t : t = [m |-> s.m, b |-> [s.b EXCEPT !.head = @ + k, !.valid = @ - k], p |-> s.p]
    OBVIOUS
  <2>2. r' = t
    BY <1>2, <2>1
  <2>3. Readable(t, count, n + k)
    BY ONLY <1>1, <1>2, <2>1, TakenIsReadable
  <2>4. PICK m, e, h, v, x, p :
          t = RStream(m, e, h, v, x, p) /\ IsReadable(m, e, h, v, x, p, count, n + k)
    BY <2>3 DEF Readable
  <2>5. IsReadable(m, e, h, v, x, p, count, n + k)'
    BY <1>1, <2>4 DEF IsReadable
  <2>6. Readable(t, count, n + k)'
    BY <2>4, <2>5 DEF Readable, RStream
  <2>7. pos' = p /\ p \in Nat /\ n + k \in Nat
    <3>1. pos' = p
      BY <1>2, <2>1, <2>4 DEF RStream
    <3>2. p = (n + k) + v \/ p = 0
      BY <2>4 DEF IsReadable
    <3>3. v \in Nat
      BY <2>4 DEF IsReadable
    <3> QED BY <3>1, <3>2, <3>3
  <2>8. Readable(r, count, next)'
    BY <1>1, <1>2, <2>2, <2>6
  <2> QED BY <1>1, <1>2, <2>7, <2>8 DEF BInv
<1>3. PICK m, e, h, v, x, p :
        r = RStream(m, e, h, v, x, p) /\ IsReadable(m, e, h, v, x, p, count, next)
  BY <1>1 DEF Readable
<1>4. r.b = buf /\ r.m = mem /\ r.p = pos /\ buf.valid = v /\ v \in Nat
  BY <1>3 DEF RStream, IsReadable
<1> HIDE DEF r
<1>5. ASSUME NEW n \in 1..MaxBytes, NEW taken \in {0, n}, Buffers!Read(n, taken)
      PROVE  BInv'
  <2>1. PICK s : s = Buffers!Filled(n)
    OBVIOUS
  <2>2. Readable(s, count, next)
    <3>1. CASE buf.valid < n
      <4>1. s = Buffers!Fill(r)
        BY <2>1, <3>1 DEF Buffers!Filled, r
      <4> QED BY <1>1, <4>1, FilledIsReadable
    <3>2. CASE ~(buf.valid < n)
      <4>1. s = r
        BY <2>1, <3>2 DEF Buffers!Filled, r
      <4> QED BY <1>1, <4>1
    <3> QED BY <3>1, <3>2
  <2>3. s.b.valid \in Nat
    BY <2>2 DEF Readable, RStream, IsReadable
  <2> DEFINE k == IF s.b.valid >= n THEN taken ELSE 0
  <2>4. /\ mem' = s.m /\ pos' = s.p /\ next' = next + k
        /\ buf' = [s.b EXCEPT !.head = @ + k, !.valid = @ - k]
    BY <1>5, <2>1 DEF Buffers!Read
  <2>5. k \in Nat /\ k <= s.b.valid
    BY <2>3
  <2> HIDE DEF k
  <2> QED BY <1>1, <1>2, <2>2, <2>4, <2>5
<1>6. ASSUME NEW n \in 1..(2 * MaxBytes), Buffers!ReadTo(n)
      PROVE  BInv'
  <2> DEFINE part == Buffers!Min({n, buf.valid})
             rest == [buf EXCEPT !.head = @ + part, !.valid = @ - part]
             s == [m |-> mem, b |-> rest, p |-> pos]
             t == IF part = n THEN s ELSE Buffers!Fill(s)
  <2>1. /\ mem' = t.m /\ pos' = t.p /\ next' = next + n
        /\ buf' = [t.b EXCEPT !.head = @ + n - part, !.valid = @ - (n - part)]
        /\ next + n <= count
    BY <1>6 DEF Buffers!ReadTo
  <2>2. n \in Nat /\ n <= Size0 /\ part = IF n <= v THEN n ELSE v
    <3>1. n \in Nat /\ n <= Size0
      BY <1>1
    <3>2. part = Buffers!Min({n, v})
      BY <1>4
    <3> HIDE DEF part
    <3> QED BY <1>4, <3>1, <3>2, MinOfTwo
  <2> HIDE DEF part
  <2>3. part \in Nat /\ part <= n /\ part <= v /\ (part = n \/ part = v)
    BY <1>4, <2>2
  <2>4. Readable(s, count, next + part) /\ s.b.valid = v - part
    <3>1. s = [m |-> r.m, b |-> [r.b EXCEPT !.head = @ + part, !.valid = @ - part], p |-> r.p]
      BY <1>4
    <3>2. part <= r.b.valid
      BY <1>4, <2>3
    <3>3. count \in Nat /\ next \in Nat /\ part \in Nat /\ Readable(r, count, next)
      BY <1>1, <2>3 DEF r
    <3>4. r.b.valid = v
      BY <1>4
    <3> HIDE DEF s
    <3>5. Readable(s, count, next + part) /\ s.b.valid = r.b.valid - part
      <4>1. PICK w, y, q : w = r /\ y = s /\ q = next
        OBVIOUS
      <4>2. Readable(y, count, q + part)
        BY ONLY <3>1, <3>2, <3>3, <4>1, TakenIsReadable
      <4>3. y.b.valid = w.b.valid - part
        <5>1. r.b = [start |-> 0, end |-> e, head |-> h, valid |-> v, eof |-> x]
          BY <1>3 DEF RStream
        <5>2. PICK b : b = [r.b EXCEPT !.head = @ + part, !.valid = @ - part]
          OBVIOUS
        <5>3. b.valid = r.b.valid - part
          BY ONLY <5>1, <5>2
        <5>4. s.b = b
          BY ONLY <3>1, <5>2
        <5> QED BY ONLY <4>1, <5>3, <5>4
      <4> QED BY ONLY <4>1, <4>2, <4>3
    <3> QED BY <3>4, <3>5
  <2> HIDE DEF s
  <2>5. next + part \in Nat /\ n - part \in Nat /\ next + n = (next + part) + (n - part)
    BY <1>1, <2>2, <2>3
  <2>6. CASE part = n
    <3>1. t = s
      BY <2>6
    <3> HIDE DEF t
    <3>2. PICK k, q : k = n - part /\ q = next + part
      OBVIOUS
    <3>3. k = 0 /\ q + k = next + n
      BY <1>1, <2>2, <2>5, <2>6, <3>2
    <3>4. buf' = [s.b EXCEPT !.head = @ + k, !.valid = @ - k]
      <4>1. PICK a, y, z, b, g, d : s = RStream(a, y, z, b, g, d) /\ z \in Nat
        BY <2>4 DEF Readable, IsReadable
      <4>2. s.b.head \in Nat
        BY <4>1 DEF RStream
      <4>3. s.b.head + n - part = s.b.head + k
        BY <2>2, <2>3, <3>2, <4>2
      <4> QED BY <2>1, <3>1, <3>2, <4>3
    <3>5. k <= s.b.valid
      BY <1>4, <2>3, <2>4, <3>3
    <3> QED BY <1>2, <2>1, <2>4, <2>5, <3>1, <3>2, <3>3, <3>4, <3>5
  <2>7. CASE part # n
    <3>1. t = Buffers!Fill(s)
      BY <2>7
    <3> HIDE DEF t
    <3>2. PICK k, q : k = n - part /\ q = next + part
      OBVIOUS
    <3>3. k \in Nat /\ q \in Nat /\ q + k = next + n /\ k <= Size0 /\ k <= count - q /\ v < n
      BY <1>1, <1>4, <2>1, <2>2, <2>3, <2>5, <2>7, <3>2
    <3>4. kind = "file"
      <4>1. kind = "memory" => next + v = count
        BY <1>3 DEF IsReadable
      <4> QED BY <1>1, <1>4, <2>1, <2>2, <3>3, <4>1
    <3>5. Readable(t, count, q) /\ (t.b.valid = Size0 \/ t.b.valid = count - q)
      BY <1>1, <2>4, <2>5, <3>1, <3>2, <3>4, FilledIsReadable
    <3>6. buf' = [t.b EXCEPT !.head = @ + k, !.valid = @ - k]
      <4>1. PICK a, y, z, b, g, d : t = RStream(a, y, z, b, g, d) /\ z \in Nat
        BY <3>5 DEF Readable, IsReadable
      <4>2. t.b.head \in Nat
        BY <4>1 DEF RStream
      <4>3. t.b.head + n - part = t.b.head + k
        BY <2>2, <2>3, <3>2, <4>2
      <4> QED BY <2>1, <3>2, <4>3
    <3>7. k <= t.b.valid
      BY <3>3, <3>5
    <3> QED BY <1>2, <2>1, <3>3, <3>5, <3>6, <3>7
  <2> QED BY <2>6, <2>7
<1> QED BY <1>5, <1>6

LEMMA TurnKeeps ==
  ASSUME Buffers!ConstantsOK, BInv, Buffers!Turn
  PROVE  BInv'
<1>1. /\ phase = "writing" /\ phase' = "reading" /\ kind' = kind /\ pos' = 0 /\ next' = 0
      /\ count' = count /\ failed' = failed /\ failed = FALSE
      /\ kind \in {"file", "memory"} /\ count \in Nat /\ Size0 \in Nat /\ Written(Buffers!Now, count)
  BY DEF BInv, Buffers!Turn, Buffers!ConstantsOK
<1>2. PICK m, st, e, v, f, x :
        Buffers!Now = WStream(m, st, e, v, f, x) /\ IsWritten(m, st, e, v, f, count)
  BY <1>1 DEF Written
<1>3. /\ buf.start = st /\ buf.valid = v /\ mem = m /\ file = f
      /\ st \in Nat /\ e \in Nat /\ v \in Nat /\ st + v <= e /\ DOMAIN m = 0..(e - 1)
  BY <1>2 DEF WStream, IsWritten, Buffers!Now
<1>4. ASSUME NEW u, NEW z, NEW h, NEW w, NEW y,
             mem' = u, buf' = [start |-> 0, end |-> z, head |-> h, valid |-> w, eof |-> y],
             IsReadable(u, z, h, w, y, 0, count, 0)'
      PROVE  BInv'
  <2>1. [m |-> mem, b |-> buf, p |-> pos]' = RStream(u, z, h, w, y, 0)
    BY <1>1, <1>4 DEF RStream
  <2>2. Readable([m |-> mem, b |-> buf, p |-> pos], count, next)'
    BY <1>1, <1>4, <2>1 DEF Readable, RStream
  <2> QED BY <1>1, <2>2 DEF BInv
<1>5. CASE kind = "file"
  <2>1. /\ file' = Buffers!Flush(Buffers!Now).f /\ mem' = Buffers!Memory(Size0)
        /\ buf' = [start |-> 0, end |-> Size0, head |-> 0, valid |-> 0, eof |-> FALSE]
    BY <1>5 DEF Buffers!Turn, Buffers!Buffer
  <2>2. file' = Numbers(0, count)
    BY <1>1, <1>5, <2>1, FlushedIsWritten
  <2>3. DOMAIN Buffers!Memory(Size0) = 0..(Size0 - 1)
    BY DEF Buffers!Memory
  <2>4. PICK u : u = Buffers!Memory(Size0)
    OBVIOUS
  <2>5. IsReadable(u, Size0, 0, 0, FALSE, 0, count, 0)'
    BY <1>1, <1>5, <2>2, <2>3, <2>4 DEF IsReadable, Numbers
  <2> QED BY <1>4, <2>1, <2>4, <2>5
<1>6. CASE kind = "memory"
  <2>1. st + v = count /\ file = Numbers(0, 0) /\ \A j \in 0..(count - 1) : m[j] = j + 1
    <3>1. st + v = count /\ f = Numbers(0, 0)
      BY <1>2, <1>6 DEF IsWritten
    <3>2. \A j \in 0..(st + v - 1) : m[j] = (count - (st + v)) + j + 1
      BY <1>2 DEF IsWritten
    <3> QED BY <1>1, <1>3, <3>1, <3>2
  <2>2. PICK u : u = [i \in 0..(count - 1) |-> mem[i]]
    OBVIOUS
  <2>3. mem' = u /\ file' = file
        /\ buf' = [start |-> 0, end |-> count, head |-> 0, valid |-> count, eof |-> TRUE]
    BY <1>3, <1>6, <2>1, <2>2 DEF Buffers!Turn, Buffers!Reader, Buffers!Buffer
  <2>4. DOMAIN u = 0..(count - 1) /\ \A j \in 0..(count - 1) : u[j] = j + 1 /\ u[0 + j] = 0 + j + 1
    BY <1>3, <2>1, <2>2
  <2>5. 0 + count = count /\ 0 \in Nat
    BY <1>1
  <2>6. IsReadable(u, count, 0, count, TRUE, 0, count, 0)'
    BY <1>1, <1>6, <2>1, <2>3, <2>4, <2>5 DEF IsReadable, Numbers
  <2>7. PICK c : c = count
    OBVIOUS
  <2> QED BY <1>1, <1>4, <2>3, <2>6, <2>7
<1> QED BY <1>1, <1>5, <1>6

LEMMA RewindKeeps ==
  ASSUME BInv, Buffers!Rewind
  PROVE  BInv'
<1>1. /\ phase = "reading" /\ phase' = "reading" /\ kind' = kind /\ file' = file /\ mem' = mem
      /\ next' = 0 /\ count' = count /\ failed' = failed /\ failed = FALSE
      /\ kind \in {"file", "memory"} /\ count \in Nat /\ next \in Nat /\ pos \in Nat
      /\ Readable([m |-> mem, b |-> buf, p |-> pos], count, next)
  BY DEF BInv, Buffers!Rewind
<1>2. PICK m, e, h, v, x, p :
        /\ [m |-> mem, b |-> buf, p |-> pos] = RStream(m, e, h, v, x, p)
        /\ IsReadable(m, e, h, v, x, p, count, next)
  BY <1>1 DEF Readable
<1>3. /\ buf = [start |-> 0, end |-> e, head |-> h, valid |-> v, eof |-> x]
      /\ mem = m /\ pos = p /\ e \in Nat /\ DOMAIN m = 0..(e - 1)
  BY <1>2 DEF RStream, IsReadable
<1>4. buf.start = 0 /\ Buffers!Size(buf) = e
  BY <1>3 DEF Buffers!Size
<1>5. ASSUME NEW w, buf' = [start |-> 0, end |-> e, head |-> 0, valid |-> w, eof |-> x], pos' = 0,
             IsReadable(m, e, 0, w, x, 0, count, 0)'
      PROVE  BInv'
  <2>1. [m |-> mem, b |-> buf, p |-> pos]' = RStream(m, e, 0, w, x, 0)
    BY <1>1, <1>3, <1>5 DEF RStream
  <2>2. Readable([m |-> mem, b |-> buf, p |-> pos], count, next)'
    BY <1>1, <1>5, <2>1 DEF Readable, RStream
  <2> QED BY <1>1, <1>5, <2>2 DEF BInv
<1>6. CASE kind = "file"
  <2>1. buf' = [buf EXCEPT !.head = 0, !.valid = 0] /\ pos' = 0
    BY <1>4, <1>6 DEF Buffers!Rewind
  <2>2. buf' = [start |-> 0, end |-> e, head |-> 0, valid |-> 0, eof |-> x]
    BY <1>3, <2>1
  <2>3. IsReadable(m, e, 0, 0, x, 0, count, 0)'
    BY <1>1, <1>2, <1>3, <1>6 DEF IsReadable
  <2> QED BY <1>5, <2>1, <2>2, <2>3
<1>7. CASE kind = "memory"
  <2>1. /\ e = count /\ x = TRUE /\ file = Numbers(0, 0) /\ p = 0
        /\ \A j \in 0..(count - 1) : m[j] = j + 1
    BY <1>2, <1>7 DEF IsReadable
  <2>2. buf' = [buf EXCEPT !.head = 0, !.valid = e] /\ pos' = 0
    BY <1>3, <1>4, <1>7, <2>1 DEF Buffers!Rewind
  <2>3. buf' = [start |-> 0, end |-> e, head |-> 0, valid |-> e, eof |-> x]
    <3>1. PICK b : b = [buf EXCEPT !.head = 0]
      OBVIOUS
    <3>2. b = [start |-> 0, end |-> e, head |-> 0, valid |-> v, eof |-> x]
      BY ONLY <1>3, <3>1
    <3>3. [b EXCEPT !.valid = e] = [start |-> 0, end |-> e, head |-> 0, valid |-> e, eof |-> x]
      BY ONLY <3>2
    <3> QED BY <2>2, <3>1, <3>3
  <2>4. \A j \in 0..(count - 1) : m[0 + j] = 0 + j + 1
    BY <1>1, <2>1
  <2>5. 0 + e <= e /\ 0 + e = e
    BY <1>3
  <2>6. IsReadable(m, e, 0, e, x, 0, count, 0)'
    BY <1>1, <1>3, <1>7, <2>1, <2>4, <2>5 DEF IsReadable
  <2> QED BY <1>5, <2>2, <2>3, <2>6
<1> QED BY <1>1, <1>6, <1>7

LEMMA BuffersInvariant ==
  ASSUME Buffers!ConstantsOK
  PROVE  /\ Buffers!Init => BInv
         /\ BInv /\ [Buffers!Next]_Buffers!vars => BInv'
<1>1. ASSUME Buffers!Init
      PROVE  BInv
  <2>1. Size0 \in Nat
    BY DEF Buffers!ConstantsOK
  <2>2. /\ kind \in {"file", "memory"} /\ phase = "writing" /\ file = <<>> /\ pos = 0
        /\ count = 0 /\ next = 0 /\ failed = FALSE /\ mem = Buffers!Memory(Size0)
        /\ buf = [start |-> 0, end |-> Size0, head |-> 0, valid |-> 0, eof |-> FALSE]
    BY <1>1 DEF Buffers!Init, Buffers!Buffer
  <2>3. DOMAIN Buffers!Memory(Size0) = 0..(Size0 - 1)
    BY DEF Buffers!Memory
  <2>4. PICK u : u = Buffers!Memory(Size0)
    OBVIOUS
  <2>5. Buffers!Now = WStream(u, 0, Size0, 0, <<>>, FALSE)
    <3>1. 0 + 0 = 0
      OBVIOUS
    <3> QED BY <2>2, <2>4, <3>1 DEF Buffers!Now, WStream
  <2>6. IsWritten(u, 0, Size0, 0, <<>>, 0)
    <3>1. Numbers(0, 0) = <<>> /\ 0 - 0 = 0
      BY DEF Numbers
    <3> QED BY <2>1, <2>2, <2>3, <2>4, <3>1 DEF IsWritten
  <2>7. Written(Buffers!Now, count)
    BY <2>2, <2>5, <2>6 DEF Written
  <2> QED BY <2>2, <2>7 DEF BInv
<1>2. ASSUME BInv, UNCHANGED Buffers!vars
      PROVE  BInv'
  <2>1. UNCHANGED <<kind, phase, mem, buf, file, pos, count, next, failed>>
    BY <1>2 DEF Buffers!vars
  <2>2. ASSUME phase = "writing"
        PROVE  Written(Buffers!Now, count)'
    <3>1. PICK m, st, e, v, f, x :
            Buffers!Now = WStream(m, st, e, v, f, x) /\ IsWritten(m, st, e, v, f, count)
      BY <1>2, <2>2 DEF BInv, Written
    <3>2. IsWritten(m, st, e, v, f, count)'
      BY <2>1, <3>1 DEF IsWritten
    <3>3. (Buffers!Now = WStream(m, st, e, v, f, x))'
      BY <2>1, <3>1 DEF Buffers!Now, WStream
    <3> QED BY <3>2, <3>3 DEF Written
  <2>3. ASSUME phase = "reading"
        PROVE  Readable([m |-> mem, b |-> buf, p |-> pos], count, next)'
    <3>1. PICK m, e, h, v, x, p :
            /\ [m |-> mem, b |-> buf, p |-> pos] = RStream(m, e, h, v, x, p)
            /\ IsReadable(m, e, h, v, x, p, count, next)
      BY <1>2, <2>3 DEF BInv, Readable
    <3>2. IsReadable(m, e, h, v, x, p, count, next)'
      BY <2>1, <3>1 DEF IsReadable
    <3>3. ([m |-> mem, b |-> buf, p |-> pos] = RStream(m, e, h, v, x, p))'
      BY <2>1, <3>1 DEF RStream
    <3> QED BY <3>2, <3>3 DEF Readable
  <2> QED BY <1>2, <2>1, <2>2, <2>3 DEF BInv
<1>3. ASSUME BInv, Buffers!Next
      PROVE  BInv'
  BY <1>3, WritesKeep, ReadsKeep, TurnKeeps, RewindKeeps DEF Buffers!Next
<1> QED BY <1>1, <1>2, <1>3

(* What was written is read, and the end is seen, because of BInv. *)
LEMMA NextIsRest ==
  ASSUME BInv
  PROVE  Buffers!ReadsWhatWasWritten /\ Buffers!EndIsSeen
<1> SUFFICES ASSUME phase = "reading"
             PROVE  Buffers!ReadsWhatWasWritten /\ Buffers!EndIsSeen
  BY DEF Buffers!ReadsWhatWasWritten, Buffers!EndIsSeen
<1>1. /\ kind \in {"file", "memory"} /\ count \in Nat /\ next \in Nat
      /\ Readable([m |-> mem, b |-> buf, p |-> pos], count, next)
  BY DEF BInv
<1>2. PICK m, e, h, v, x, p :
        /\ [m |-> mem, b |-> buf, p |-> pos] = RStream(m, e, h, v, x, p)
        /\ IsReadable(m, e, h, v, x, p, count, next)
  BY <1>1 DEF Readable
<1>3. /\ buf.head = h /\ buf.valid = v /\ buf.eof = x
      /\ mem = m /\ pos = p /\ e \in Nat /\ h \in Nat /\ v \in Nat
  BY <1>2 DEF RStream, IsReadable
<1>4. Buffers!EndIsSeen
  <2>1. kind = "memory" => x = TRUE /\ next + v = count
    BY <1>2 DEF IsReadable
  <2>2. kind = "memory" => ((x /\ v = 0) <=> next = count)
    BY <1>1, <1>3, <2>1
  <2> QED BY <1>3, <2>2 DEF Buffers!EndIsSeen
<1>5. [i \in 1..buf.valid |-> mem[buf.head + i - 1]] = Numbers(next, v)
  <2>1. ASSUME NEW i \in 1..v
        PROVE  m[h + i - 1] = next + i
    <3>1. i - 1 \in 0..(v - 1) /\ h + i - 1 = h + (i - 1) /\ next + (i - 1) + 1 = next + i
      BY <1>1, <1>3
    <3>2. \A j \in 0..(v - 1) : m[h + j] = next + j + 1
      BY <1>2 DEF IsReadable
    <3> QED BY <3>1, <3>2
  <2> QED BY <1>3, <2>1 DEF Numbers
<1>6. PICK k, d : k = next /\ d = count - (next + v)
  OBVIOUS
<1>7. k \in Nat /\ d \in Nat /\ v + d = count - next
  <2>1. next + v <= count
    BY <1>1, <1>2, <1>3 DEF IsReadable
  <2> QED BY <1>1, <1>3, <1>6, <2>1
<1>8. SubSeq(file, pos + 1, Len(file)) = Numbers(k + v, d)
  <2>1. CASE kind = "file"
    <3>1. file = Numbers(0, count) /\ p = next + v /\ p <= count
      BY <1>2, <2>1 DEF IsReadable
    <3>2. PICK c : c = count
      OBVIOUS
    <3>3. c \in Nat /\ p \in 0..c /\ c - p = d /\ p = k + v
      BY <1>1, <1>3, <1>6, <3>1, <3>2
    <3>4. SubSeq(Numbers(0, c), p + 1, Len(Numbers(0, c))) = Numbers(p, c - p)
      BY ONLY <3>3, Rest
    <3> QED BY <1>3, <3>1, <3>2, <3>3, <3>4
  <2>2. CASE kind = "memory"
    <3>1. file = Numbers(0, 0) /\ p = 0 /\ d = 0
      BY <1>1, <1>2, <1>3, <1>6, <2>2 DEF IsReadable
    <3>2. SubSeq(Numbers(0, 0), 0 + 1, Len(Numbers(0, 0))) = Numbers(0, 0 - 0)
      <4>1. 0 \in Nat /\ 0 \in 0..0
        OBVIOUS
      <4> QED BY ONLY <4>1, Rest
    <3>3. Numbers(0, 0 - 0) = Numbers(k + v, 0)
      BY DEF Numbers
    <3> QED BY <1>3, <3>1, <3>2, <3>3
  <2> QED BY <1>1, <2>1, <2>2
<1>9. Numbers(k, v) \o Numbers(k + v, d) = Numbers(k, v + d)
  BY ONLY <1>3, <1>7, Joined, Zenon
<1>10. [i \in 1..buf.valid |-> mem[buf.head + i - 1]] \o SubSeq(file, pos + 1, Len(file))
         = Numbers(next, count - next)
  BY <1>5, <1>6, <1>7, <1>8, <1>9
<1> QED BY <1>4, <1>10 DEF Buffers!ReadsWhatWasWritten, Numbers

(* A message or a checkpoint is read as it was written, byte for byte, by  *)
(* whatever pieces it was written and is read in, over memory and over a   *)
(* file; WriteStream always finds room after a flush; and AtEOF of a       *)
(* message's reader is true exactly when all of it has been read.          *)
THEOREM ReadAsWritten ==
  Buffers!ConstantsOK =>
    (Buffers!Spec =>
       [](Buffers!RoomForPieces /\ Buffers!ReadsWhatWasWritten /\ Buffers!EndIsSeen))
<1> SUFFICES ASSUME Buffers!ConstantsOK
             PROVE  Buffers!Spec =>
                      [](Buffers!RoomForPieces /\ Buffers!ReadsWhatWasWritten /\ Buffers!EndIsSeen)
  OBVIOUS
<1>1. Buffers!Init => BInv
  BY BuffersInvariant
<1>2. BInv /\ [Buffers!Next]_Buffers!vars => BInv'
  BY BuffersInvariant
<1>3. BInv => Buffers!RoomForPieces /\ Buffers!ReadsWhatWasWritten /\ Buffers!EndIsSeen
  BY NextIsRest DEF BInv, Buffers!RoomForPieces
<1> QED BY <1>1, <1>2, <1>3, PTL DEF Buffers!Spec

-----------------------------------------------------------------------------
(* The open-addressing tables. *)

(* A set of numbers that has 0, and with each number the next, has them all. *)
LEMMA Inductive ==
  ASSUME NEW S \in SUBSET Nat, 0 \in S, \A n \in S : n + 1 \in S
  PROVE  S = Nat
<1> SUFFICES ASSUME NEW n \in Nat, n \notin S
             PROVE  FALSE
  OBVIOUS
<1> DEFINE A == S \cap 0..n   B == A \ {0}   f == [a \in A |-> a + 1]
<1>1. IsFiniteSet(A)
  <2>1. 0 \in Int /\ n \in Int
    OBVIOUS
  <2>2. IsFiniteSet(0..n)
    BY ONLY <2>1, FS_Interval
  <2> QED BY <2>2, FS_Subset
<1>2. 0 \in A
  OBVIOUS
<1>3. f \in [A -> B] /\ \A a, b \in A : f[a] = f[b] => a = b
  <2>1. \A a \in A : a + 1 \in B
    OBVIOUS
  <2> QED BY <2>1
<1> HIDE DEF A, f
<1>4. IsFiniteSet(B) /\ Cardinality(B) = Cardinality(A) - 1
  BY <1>1, <1>2, FS_RemoveElement
<1>5. Cardinality(A) \in Nat
  BY <1>1, FS_CardinalityType
<1>6. Cardinality(B) < Cardinality(A)
  BY <1>4, <1>5
<1> HIDE DEF B
<1> QED BY <1>1, <1>3, <1>4, <1>6, FS_PigeonHole

(* A set of numbers up to n has a least. *)
LEMMA Least ==
  ASSUME NEW n \in Nat, NEW T \in SUBSET (0..n), T # {}
  PROVE  \E x \in T : \A y \in T : x <= y
<1> SUFFICES ASSUME \A x \in T : \E y \in T : ~(x <= y)
             PROVE  FALSE
  OBVIOUS
<1> DEFINE S == {k \in Nat : \A x \in T : k <= x}
<1>1. S = Nat
  <2>1. 0 \in S
    OBVIOUS
  <2>2. ASSUME NEW k \in S
        PROVE  k + 1 \in S
    <3>1. k \notin T
      OBVIOUS
    <3>2. \A x \in T : k <= x /\ k # x /\ x \in Nat
      BY <3>1
    <3> QED BY <3>2
  <2> HIDE DEF S
  <2>3. S \in SUBSET Nat
    BY DEF S
  <2> QED BY ONLY <2>1, <2>2, <2>3, Inductive
<1>2. PICK x \in T : TRUE
  OBVIOUS
<1>3. n + 1 <= x
  BY <1>1
<1> QED BY <1>3

-----------------------------------------------------------------------------
Entry == [key : Keys, value : Values]
Table(n) == [0..(n-1) -> Entry \cup {NoEntry}]
UsedIn(t) == {i \in DOMAIN t : t[i] # NoEntry}
Entries(t) == {t[i] : i \in UsedIn(t)}

(* How far index i is from index h on the way around n slots. *)
Near(n, h, i) == IF i >= h THEN i - h ELSE i + n - h

(* No key twice; no slot between an entry and the slot its hash gives is   *)
(* empty; and some slot is.                                                *)
KeysOnce(t) == \A i, j \in UsedIn(t) : t[i].key = t[j].key => i = j
Reached(t, n, i) ==
  \A j \in 0..(n-1) : Near(n, t[i].key % n, j) < Near(n, t[i].key % n, i) => t[j] # NoEntry
Probable(t, n) ==
  /\ t \in Table(n) /\ KeysOnce(t)
  /\ \A i \in UsedIn(t) : Reached(t, n, i)
  /\ \E i \in 0..(n-1) : t[i] = NoEntry

LEMMA NoEntryIsNone ==
  ASSUME Tab!ConstantsOK
  PROVE  NoEntry \notin Entry /\ NoEntry \notin Values /\ Keys \subseteq Nat
BY DEF Tab!ConstantsOK, Entry

LEMMA CardinalityIs ==
  ASSUME NEW S
  PROVE  Tab!Cardinality(S) = Cardinality(S)
BY DEF Tab!Cardinality, Cardinality

LEMMA SizeOf ==
  ASSUME NEW n \in Nat, NEW t \in Table(n)
  PROVE  Tab!Size(t) = n /\ DOMAIN t = 0..(n-1)
<1>1. DOMAIN t = 0..(n-1)
  BY DEF Table
<1>2. Cardinality(0..(n-1)) = n
  BY FS_Interval
<1> QED BY <1>1, <1>2, CardinalityIs DEF Tab!Size

LEMMA RemainderIs ==
  ASSUME NEW n \in Nat \ {0}, NEW k \in Nat
  PROVE  k % n \in 0..(n-1)
OBVIOUS

LEMMA WayIs ==
  ASSUME NEW n \in Nat \ {0}, NEW t \in Table(n), NEW h \in 0..(n-1), NEW i \in 0..(n-1)
  PROVE  Tab!Way(h, i, t) = Near(n, h, i) /\ Near(n, h, i) \in 0..(n-1)
<1>1. Tab!Way(h, i, t) = (i + n - h) % n
  BY SizeOf DEF Tab!Way
<1>2. CASE i >= h
  <2>1. i - h \in 0..(n-1) /\ i + n - h = (i - h) + n
    BY <1>2
  <2>2. ((i - h) + n) % n = i - h
    BY <2>1
  <2> QED BY <1>1, <1>2, <2>1, <2>2 DEF Near
<1>3. CASE ~(i >= h)
  <2>1. i + n - h \in 0..(n-1)
    BY <1>3
  <2>2. (i + n - h) % n = i + n - h
    BY <2>1
  <2> QED BY <1>1, <1>3, <2>1, <2>2 DEF Near
<1> QED BY <1>2, <1>3

LEMMA NearOnce ==
  ASSUME NEW n \in Nat \ {0}, NEW h \in 0..(n-1), NEW i \in 0..(n-1), NEW j \in 0..(n-1),
         Near(n, h, i) <= Near(n, h, j), Near(n, h, j) <= Near(n, h, i)
  PROVE  i = j
BY DEF Near

(* Where probing stops: nothing nearer is empty or the key's. *)
LEMMA ProbeStops ==
  ASSUME NEW n \in Nat \ {0}, NEW t \in Table(n), NEW k \in Keys, Keys \subseteq Nat,
         \E i \in 0..(n-1) : t[i] = NoEntry \/ (t[i] # NoEntry /\ t[i].key = k)
  PROVE  LET p == Tab!Probe(k, t) IN
         /\ p \in 0..(n-1)
         /\ t[p] = NoEntry \/ (t[p] # NoEntry /\ t[p].key = k)
         /\ \A j \in 0..(n-1) :
              t[j] = NoEntry \/ (t[j] # NoEntry /\ t[j].key = k)
              => Near(n, k % n, p) <= Near(n, k % n, j)
<1> DEFINE h == k % n
           Stops == {i \in 0..(n-1) : t[i] = NoEntry \/ (t[i] # NoEntry /\ t[i].key = k)}
           Far == {Near(n, h, i) : i \in Stops}
<1>1. h \in 0..(n-1)
  BY RemainderIs
<1> HIDE DEF h
<1>2. \A i \in Stops : Near(n, h, i) \in 0..(n-1)
  BY <1>1, WayIs
<1>3. Far \in SUBSET (0..(n-1)) /\ Far # {}
  BY <1>2
<1>4. PICK x \in Far : \A y \in Far : x <= y
  BY <1>3, n - 1 \in Nat, Least
<1>5. PICK i \in Stops : x = Near(n, h, i)
  BY <1>4
<1>6. \A j \in Stops : Near(n, h, i) <= Near(n, h, j)
  BY <1>4, <1>5
<1>7. \A j \in Stops : Tab!Way(h, j, t) = Near(n, h, j)
  BY <1>1, WayIs
<1>8. Tab!Probe(k, t) = CHOOSE p \in Stops : \A j \in Stops : Tab!Way(h, p, t) <= Tab!Way(h, j, t)
  BY SizeOf DEF Tab!Probe, Tab!Hash, h
<1> HIDE DEF Stops, Far
<1>9. \E p \in Stops : \A j \in Stops : Tab!Way(h, p, t) <= Tab!Way(h, j, t)
  BY <1>6, <1>7
<1>10. /\ Tab!Probe(k, t) \in Stops
       /\ \A j \in Stops : Tab!Way(h, Tab!Probe(k, t), t) <= Tab!Way(h, j, t)
  BY <1>8, <1>9
<1>11. \A j \in Stops : Near(n, h, Tab!Probe(k, t)) <= Near(n, h, j)
  BY <1>7, <1>10
<1> QED BY <1>10, <1>11 DEF Stops, h

(* A key that is in the table is found where it is. *)
LEMMA ProbeFinds ==
  ASSUME NEW n \in Nat \ {0}, NEW t, Probable(t, n), Keys \subseteq Nat, NoEntry \notin Entry,
         NEW i \in UsedIn(t)
  PROVE  Tab!Probe(t[i].key, t) = i
<1> DEFINE k == t[i].key   h == k % n   p == Tab!Probe(k, t)
<1>1. t \in Table(n) /\ i \in 0..(n-1) /\ t[i] # NoEntry /\ k \in Keys
  BY SizeOf DEF Probable, UsedIn, Table, Entry
<1>2. /\ p \in 0..(n-1)
      /\ t[p] = NoEntry \/ (t[p] # NoEntry /\ t[p].key = k)
      /\ Near(n, h, p) <= Near(n, h, i)
  BY <1>1, ProbeStops
<1>3. h \in 0..(n-1)
  BY <1>1, RemainderIs
<1>4. CASE t[p] = NoEntry
  <2>1. \A j \in 0..(n-1) : Near(n, h, j) < Near(n, h, i) => t[j] # NoEntry
    BY <1>1 DEF Probable, Reached
  <2>2. ~(Near(n, h, p) < Near(n, h, i))
    BY <1>2, <1>4, <2>1
  <2>3. Near(n, h, i) <= Near(n, h, p)
    BY <1>1, <1>2, <1>3, <2>2, WayIs
  <2>4. p = i
    BY <1>1, <1>2, <1>3, <2>3, NearOnce
  <2> QED BY <2>4
<1>5. CASE t[p] # NoEntry /\ t[p].key = k
  <2>1. p \in UsedIn(t)
    BY <1>1, <1>2, <1>5, SizeOf DEF UsedIn
  <2> QED BY <1>5, <2>1 DEF Probable, KeysOnce
<1> QED BY <1>2, <1>4, <1>5

(* Where probing stops at an empty slot, the key is not there, and an      *)
(* entry for it would be reached.                                          *)
LEMMA ProbeMisses ==
  ASSUME NEW n \in Nat \ {0}, NEW t, Probable(t, n), Keys \subseteq Nat, NoEntry \notin Entry,
         NEW k \in Keys
  PROVE  LET p == Tab!Probe(k, t) IN
         /\ p \in 0..(n-1)
         /\ t[p] # NoEntry => t[p].key = k
         /\ t[p] = NoEntry => \A i \in UsedIn(t) : t[i].key # k
         /\ \A j \in 0..(n-1) : Near(n, k % n, j) < Near(n, k % n, p) => t[j] # NoEntry
<1> DEFINE p == Tab!Probe(k, t)
<1>1. t \in Table(n) /\ \E i \in 0..(n-1) : t[i] = NoEntry
  BY DEF Probable
<1>2. /\ p \in 0..(n-1)
      /\ t[p] = NoEntry \/ (t[p] # NoEntry /\ t[p].key = k)
      /\ \A j \in 0..(n-1) : t[j] = NoEntry => Near(n, k % n, p) <= Near(n, k % n, j)
  BY <1>1, ProbeStops
<1>3. ASSUME t[p] = NoEntry, NEW i \in UsedIn(t), t[i].key = k
      PROVE  FALSE
  <2>1. p = i
    BY <1>3, ProbeFinds
  <2> QED BY <1>3, <2>1 DEF UsedIn
<1>4. k % n \in 0..(n-1)
  BY RemainderIs
<1>5. \A j \in 0..(n-1) : Near(n, k % n, j) \in Int /\ Near(n, k % n, p) \in Int
  <2> DEFINE h == k % n
  <2>1. h \in 0..(n-1)
    BY <1>4
  <2> HIDE DEF h
  <2>2. \A j \in 0..(n-1) : Near(n, h, j) \in 0..(n-1)
    BY <1>1, <2>1, WayIs
  <2> QED BY <1>2, <2>2 DEF h
<1> HIDE DEF p
<1>6. \A j \in 0..(n-1) : Near(n, k % n, j) < Near(n, k % n, p) => t[j] # NoEntry
  BY <1>2, <1>5
<1> QED BY <1>2, <1>3, <1>6 DEF p

LEMMA EntriesOf ==
  ASSUME NEW n \in Nat, NEW t \in Table(n), NoEntry \notin Entry
  PROVE  /\ Entries(t) \subseteq Entry
         /\ \A e : e \in Entries(t) <=> e # NoEntry /\ \E i \in 0..(n-1) : t[i] = e
         /\ \A i \in 0..(n-1) : i \in UsedIn(t) <=> t[i] # NoEntry
         /\ UsedIn(t) \subseteq 0..(n-1)
         /\ \A i \in UsedIn(t) : t[i] \in Entry
BY SizeOf DEF Entries, UsedIn, Table

(* What Lookup returns, and what the table's keys are, in terms of its     *)
(* entries alone.                                                          *)
LEMMA LookupIs ==
  ASSUME NEW n \in Nat \ {0}, NEW t, Probable(t, n), Keys \subseteq Nat, NoEntry \notin Entry,
         NEW k \in Keys
  PROVE  /\ \A e \in Entries(t) : e.key = k => Tab!Lookup(k, t) = e.value
         /\ (\A e \in Entries(t) : e.key # k) => Tab!Lookup(k, t) = NoEntry
<1> DEFINE p == Tab!Probe(k, t)
<1>1. t \in Table(n)
  BY DEF Probable
<1>2. ASSUME NEW e \in Entries(t), e.key = k
      PROVE  Tab!Lookup(k, t) = e.value
  <2>1. PICK i \in UsedIn(t) : t[i] = e
    BY DEF Entries
  <2>2. p = i
    BY <1>2, <2>1, ProbeFinds
  <2>3. t[p] # NoEntry
    BY <2>2 DEF UsedIn
  <2> QED BY <2>1, <2>2, <2>3 DEF Tab!Lookup
<1>3. ASSUME \A e \in Entries(t) : e.key # k
      PROVE  Tab!Lookup(k, t) = NoEntry
  <2>1. p \in 0..(n-1) /\ (t[p] # NoEntry => t[p].key = k)
    BY ProbeMisses
  <2>2. t[p] # NoEntry => t[p] \in Entries(t)
    BY <1>1, <2>1, EntriesOf
  <2>3. t[p] = NoEntry
    BY <1>3, <2>1, <2>2
  <2> QED BY <2>3 DEF Tab!Lookup
<1> QED BY <1>2, <1>3

LEMMA KeysOfIs == ASSUME NEW t PROVE Tab!KeysOf(t) = {e.key : e \in Entries(t)}
BY DEF Tab!KeysOf, Entries, UsedIn

(* Each key once: as many entries as used slots, and as many keys. *)
LEMMA Counts ==
  ASSUME NEW n \in Nat, NEW t \in Table(n), KeysOnce(t), NoEntry \notin Entry
  PROVE  /\ Tab!Count(t) = Cardinality(Entries(t)) /\ IsFiniteSet(Entries(t))
         /\ Tab!Count(t) = Cardinality(UsedIn(t)) /\ IsFiniteSet(UsedIn(t))
         /\ Tab!Cardinality(Tab!KeysOf(t)) = Tab!Count(t)
         /\ Tab!Count(t) \in Nat
<1>1. Tab!Count(t) = Cardinality(UsedIn(t))
  BY CardinalityIs DEF Tab!Count, UsedIn
<1>2. IsFiniteSet(UsedIn(t))
  <2>1. UsedIn(t) \subseteq 0..(n-1)
    BY EntriesOf
  <2>2. 0 \in Int /\ n - 1 \in Int
    OBVIOUS
  <2>3. IsFiniteSet(0..(n-1))
    BY ONLY <2>2, FS_Interval
  <2> QED BY ONLY <2>1, <2>3, FS_Subset
<1>3. \A i, j \in UsedIn(t) : t[i] = t[j] => i = j
  BY DEF KeysOnce
<1> DEFINE f == [i \in UsedIn(t) |-> t[i]]   K == {e.key : e \in Entries(t)}
           g == [i \in UsedIn(t) |-> t[i].key]
<1>4. ExistsBijection(UsedIn(t), Entries(t))
  <2>1. f \in Bijection(UsedIn(t), Entries(t))
    BY <1>3 DEF Bijection, Injection, Surjection, IsInjective, Entries
  <2> QED BY <2>1 DEF ExistsBijection
<1>5. ExistsBijection(UsedIn(t), K)
  <2>1. g \in Bijection(UsedIn(t), K)
    BY DEF Bijection, Injection, Surjection, IsInjective, Entries, KeysOnce
  <2> QED BY <2>1 DEF ExistsBijection
<1> HIDE DEF K
<1>6. IsFiniteSet(Entries(t)) /\ Cardinality(Entries(t)) = Cardinality(UsedIn(t))
  BY ONLY <1>2, <1>4, FS_Bijection
<1>7. Cardinality(K) = Cardinality(UsedIn(t))
  BY ONLY <1>2, <1>5, FS_Bijection
<1>8. Tab!Cardinality(Tab!KeysOf(t)) = Cardinality(K)
  BY KeysOfIs, CardinalityIs DEF K
<1> QED BY <1>1, <1>2, <1>6, <1>7, <1>8, FS_CardinalityType

(* A slot is empty, unless as many are used as there are. *)
LEMMA SomeHole ==
  ASSUME NEW n \in Nat, NEW t \in Table(n), KeysOnce(t), NoEntry \notin Entry
  PROVE  (\E i \in 0..(n-1) : t[i] = NoEntry) <=> Tab!Count(t) < n
<1>1. /\ UsedIn(t) \subseteq 0..(n-1) /\ Tab!Count(t) = Cardinality(UsedIn(t))
      /\ IsFiniteSet(0..(n-1)) /\ Cardinality(0..(n-1)) = n /\ Tab!Count(t) \in Nat
  <2>1. UsedIn(t) \subseteq 0..(n-1)
    BY EntriesOf
  <2>2. Tab!Count(t) = Cardinality(UsedIn(t)) /\ Tab!Count(t) \in Nat
    BY Counts
  <2>3. 0 \in Int /\ n - 1 \in Int
    OBVIOUS
  <2>4. IsFiniteSet(0..(n-1)) /\ Cardinality(0..(n-1)) = IF 0 > n-1 THEN 0 ELSE n-1-0+1
    BY ONLY <2>3, FS_Interval
  <2>5. Cardinality(0..(n-1)) = n
    BY <2>4
  <2> QED BY <2>1, <2>2, <2>4, <2>5
<1>2. ASSUME NEW i \in 0..(n-1), t[i] = NoEntry
      PROVE  Tab!Count(t) < n
  <2>1. UsedIn(t) # 0..(n-1)
    BY <1>2, EntriesOf
  <2>2. Cardinality(UsedIn(t)) < Cardinality(0..(n-1))
    BY <1>1, <2>1, FS_Subset
  <2> QED BY <1>1, <2>2
<1>3. ASSUME Tab!Count(t) < n
      PROVE  \E i \in 0..(n-1) : t[i] = NoEntry
  <2>1. UsedIn(t) # 0..(n-1)
    BY <1>1, <1>3
  <2> QED BY <1>1, <2>1, EntriesOf
<1> QED BY <1>2, <1>3

(* An entry put for a key that is not there takes an empty slot that it is *)
(* reached in, and what was reached still is.                              *)
LEMMA PutAbsent ==
  ASSUME NEW n \in Nat \ {0}, NEW t \in Table(n), KeysOnce(t), Keys \subseteq Nat, NoEntry \notin Entry,
         \E i \in 0..(n-1) : t[i] = NoEntry,
         NEW k \in Keys, NEW v \in Values, \A i \in UsedIn(t) : t[i].key # k
  PROVE  \E p \in 0..(n-1) :
           /\ t[p] = NoEntry /\ Tab!Put(k, v, t) = [t EXCEPT ![p] = [key |-> k, value |-> v]]
           /\ \A j \in 0..(n-1) : Near(n, k % n, j) < Near(n, k % n, p) => t[j] # NoEntry
           /\ Tab!Put(k, v, t) \in Table(n) /\ KeysOnce(Tab!Put(k, v, t))
           /\ Reached(Tab!Put(k, v, t), n, p)
           /\ \A i \in UsedIn(t) : Reached(t, n, i) => Reached(Tab!Put(k, v, t), n, i)
           /\ Entries(Tab!Put(k, v, t)) = Entries(t) \cup {[key |-> k, value |-> v]}
<1> DEFINE p == Tab!Probe(k, t)   e == [key |-> k, value |-> v]   u == Tab!Put(k, v, t)
<1>1. /\ p \in 0..(n-1)
      /\ t[p] = NoEntry \/ (t[p] # NoEntry /\ t[p].key = k)
      /\ \A j \in 0..(n-1) : t[j] = NoEntry => Near(n, k % n, p) <= Near(n, k % n, j)
  BY ProbeStops
<1>2. t[p] = NoEntry
  BY <1>1, EntriesOf
<1>3. k % n \in 0..(n-1)
  BY RemainderIs
<1>4. u = [t EXCEPT ![p] = e]
  BY DEF Tab!Put
<1> HIDE DEF p, u
<1>5. \A j \in 0..(n-1) : Near(n, k % n, j) \in Int /\ Near(n, k % n, p) \in Int
  <2> DEFINE h == k % n
  <2>1. h \in 0..(n-1)
    BY <1>3
  <2> HIDE DEF h
  <2>2. \A j \in 0..(n-1) : Near(n, h, j) \in 0..(n-1)
    BY <2>1, WayIs
  <2> QED BY <1>1, <2>2 DEF h
<1>6. \A j \in 0..(n-1) : Near(n, k % n, j) < Near(n, k % n, p) => t[j] # NoEntry
  BY <1>1, <1>5
<1>7. e \in Entry /\ e # NoEntry /\ e.key = k
  BY DEF Entry
<1> HIDE DEF e
<1>8. u \in Table(n) /\ u[p] = e /\ \A i \in 0..(n-1) : i # p => u[i] = t[i]
  BY <1>1, <1>4, <1>7 DEF Table
<1>9. /\ \A i \in 0..(n-1) : (i \in UsedIn(u) <=> u[i] # NoEntry) /\ (i \in UsedIn(t) <=> t[i] # NoEntry)
      /\ UsedIn(u) \subseteq 0..(n-1) /\ UsedIn(t) \subseteq 0..(n-1)
  BY <1>8, EntriesOf
<1>10. UsedIn(u) = UsedIn(t) \cup {p} /\ p \notin UsedIn(t)
  BY <1>1, <1>2, <1>7, <1>8, <1>9
<1>11. KeysOnce(u)
  BY <1>7, <1>8, <1>9, <1>10 DEF KeysOnce
<1>12. Reached(u, n, p)
  BY <1>6, <1>7, <1>8, <1>9, <1>10 DEF Reached
<1>13. ASSUME NEW i \in UsedIn(t), Reached(t, n, i)
       PROVE  Reached(u, n, i)
  <2>1. u[i] = t[i]
    BY <1>8, <1>9, <1>10
  <2>2. \A j \in 0..(n-1) : t[j] # NoEntry => u[j] # NoEntry
    BY <1>7, <1>8
  <2> QED BY <1>13, <2>1, <2>2 DEF Reached
<1>14. Entries(u) = Entries(t) \cup {e}
  BY <1>8, <1>9, <1>10 DEF Entries
<1> QED BY <1>1, <1>2, <1>4, <1>6, <1>8, <1>11, <1>12, <1>13, <1>14 DEF u, e

(* Put is insertion: the entry replaces the one of its key. *)
LEMMA PutKeeps ==
  ASSUME NEW n \in Nat \ {0}, NEW t, Probable(t, n), Keys \subseteq Nat, NoEntry \notin Entry,
         NEW k \in Keys, NEW v \in Values,
         (\E e \in Entries(t) : e.key = k) \/ Tab!Count(t) + 1 < n
  PROVE  /\ Probable(Tab!Put(k, v, t), n)
         /\ Entries(Tab!Put(k, v, t)) = {e \in Entries(t) : e.key # k} \cup {[key |-> k, value |-> v]}
         /\ (\E e \in Entries(t) : e.key = k) => Tab!Count(Tab!Put(k, v, t)) = Tab!Count(t)
         /\ Tab!Count(Tab!Put(k, v, t)) <= Tab!Count(t) + 1
         /\ Tab!Count(t) \in Nat /\ Tab!Count(Tab!Put(k, v, t)) \in Nat
<1> DEFINE u == Tab!Put(k, v, t)   new == [key |-> k, value |-> v]
<1>1. t \in Table(n) /\ KeysOnce(t) /\ \E i \in 0..(n-1) : t[i] = NoEntry
  BY DEF Probable
<1>2. /\ Tab!Count(t) = Cardinality(Entries(t)) /\ IsFiniteSet(Entries(t)) /\ Tab!Count(t) \in Nat
      /\ Tab!Count(t) = Cardinality(UsedIn(t)) /\ IsFiniteSet(UsedIn(t))
  BY <1>1, Counts
<1>3. CASE \E e \in Entries(t) : e.key = k
  <2>1. PICK i \in UsedIn(t) : t[i].key = k
    BY <1>3 DEF Entries
  <2>2. Tab!Probe(k, t) = i
    BY <2>1, ProbeFinds
  <2>3. u = [t EXCEPT ![i] = new]
    BY <2>2 DEF Tab!Put
  <2> HIDE DEF u
  <2>4. new \in Entry /\ new # NoEntry /\ new.key = k
    BY DEF Entry
  <2> HIDE DEF new
  <2>5. i \in 0..(n-1) /\ t[i] # NoEntry
    BY <1>1, EntriesOf
  <2>6. u \in Table(n) /\ u[i] = new /\ \A j \in 0..(n-1) : j # i => u[j] = t[j]
    BY <1>1, <2>3, <2>4, <2>5 DEF Table
  <2>7. /\ \A j \in 0..(n-1) : (j \in UsedIn(u) <=> u[j] # NoEntry) /\ (j \in UsedIn(t) <=> t[j] # NoEntry)
        /\ UsedIn(u) \subseteq 0..(n-1) /\ UsedIn(t) \subseteq 0..(n-1)
    BY <1>1, <2>6, EntriesOf
  <2>8. UsedIn(u) = UsedIn(t) /\ \A j \in UsedIn(t) : u[j].key = t[j].key
    BY <2>1, <2>4, <2>5, <2>6, <2>7
  <2>9. KeysOnce(u)
    BY <1>1, <2>8 DEF KeysOnce
  <2>10. \A j \in 0..(n-1) : t[j] # NoEntry => u[j] # NoEntry
    BY <2>7, <2>8
  <2>11. \A j \in UsedIn(u) : Reached(u, n, j)
    BY <2>8, <2>10 DEF Reached, Probable
  <2>12. \E j \in 0..(n-1) : u[j] = NoEntry
    BY <1>1, <2>7, <2>8
  <2>13. Probable(u, n)
    BY <2>6, <2>9, <2>11, <2>12 DEF Probable
  <2>14. Tab!Count(u) = Tab!Count(t)
    <3>1. Tab!Count(u) = Cardinality(UsedIn(u))
      BY <2>6, <2>9, Counts
    <3> QED BY <1>2, <2>8, <3>1
  <2>15. \A j \in UsedIn(t) : t[j].key = k => j = i
    BY <1>1, <2>1 DEF KeysOnce
  <2>16. Entries(u) = {e \in Entries(t) : e.key # k} \cup {new}
    <3>1. ASSUME NEW e \in Entries(u), e # new
          PROVE  e \in Entries(t) /\ e.key # k
      <4>1. PICK j \in UsedIn(u) : u[j] = e
        BY DEF Entries
      <4>2. j # i /\ j \in UsedIn(t)
        BY <2>6, <2>8, <3>1, <4>1
      <4>3. t[j] = e
        BY <2>6, <2>7, <4>1, <4>2
      <4> QED BY <2>15, <4>2, <4>3 DEF Entries
    <3>2. ASSUME NEW e \in Entries(t), e.key # k
          PROVE  e \in Entries(u)
      <4>1. PICK j \in UsedIn(t) : t[j] = e
        BY DEF Entries
      <4>2. j # i
        BY <2>1, <3>2, <4>1
      <4> QED BY <2>6, <2>7, <2>8, <4>1, <4>2 DEF Entries
    <3>3. new \in Entries(u)
      BY <2>1, <2>6, <2>8 DEF Entries
    <3> QED BY <3>1, <3>2, <3>3
  <2> QED BY <1>2, <2>13, <2>14, <2>16 DEF u, new
<1>4. CASE \A e \in Entries(t) : e.key # k
  <2>1. \A i \in UsedIn(t) : t[i].key # k
    BY <1>4 DEF Entries
  <2>2. PICK p \in 0..(n-1) :
           /\ t[p] = NoEntry /\ u = [t EXCEPT ![p] = new]
           /\ u \in Table(n) /\ KeysOnce(u)
           /\ Reached(u, n, p)
           /\ \A i \in UsedIn(t) : Reached(t, n, i) => Reached(u, n, i)
           /\ Entries(u) = Entries(t) \cup {new}
    BY <1>1, <2>1, PutAbsent
  <2> HIDE DEF u
  <2>3. Entries(u) = {e \in Entries(t) : e.key # k} \cup {new}
    BY <1>4, <2>2
  <2>4. new \notin Entries(t)
    BY <1>4
  <2> HIDE DEF new
  <2>5. Cardinality(Entries(t) \cup {new}) = Cardinality(Entries(t)) + 1
    BY ONLY <1>2, <2>4, FS_AddElement
  <2>6. Tab!Count(u) = Tab!Count(t) + 1
    <3>1. Tab!Count(u) = Cardinality(Entries(u))
      BY <2>2, Counts
    <3> QED BY <1>2, <2>2, <2>5, <3>1
  <2>7. Tab!Count(u) < n
    BY <1>4, <2>6
  <2>8. \E i \in 0..(n-1) : u[i] = NoEntry
    BY <2>2, <2>7, SomeHole
  <2>9. ASSUME NEW i \in UsedIn(u)
        PROVE  Reached(u, n, i)
    <3>1. i \in 0..(n-1) /\ u[i] # NoEntry
      BY <2>2, EntriesOf
    <3>2. i # p => i \in UsedIn(t)
      BY <1>1, <2>2, <3>1, EntriesOf DEF Table
    <3> QED BY <2>2, <3>2 DEF Probable
  <2>10. Probable(u, n)
    BY <2>2, <2>8, <2>9 DEF Probable
  <2> QED BY <1>2, <1>4, <2>3, <2>6, <2>10 DEF u, new
<1> QED BY <1>3, <1>4

-----------------------------------------------------------------------------
(* What a loop from lo to N computes, step by step. *)
LEMMA StepByStep ==
  ASSUME NEW lo \in Nat, NEW N \in Nat, lo <= N, NEW r, NEW I, NEW from, from = lo + 1,
         r[lo] \in I[lo], \A i \in from..N : r[i-1] \in I[i-1] => r[i] \in I[i]
  PROVE  \A i \in lo..N : r[i] \in I[i]
<1> DEFINE S == {d \in Nat : lo + d <= N => r[lo + d] \in I[lo + d]}
<1>1. 0 \in S
  OBVIOUS
<1>2. ASSUME NEW d \in S
      PROVE  d + 1 \in S
  <2>1. SUFFICES ASSUME lo + (d + 1) <= N
                 PROVE  r[lo + (d + 1)] \in I[lo + (d + 1)]
    OBVIOUS
  <2>2. lo + (d + 1) \in (lo+1)..N /\ (lo + (d + 1)) - 1 = lo + d
    BY <2>1
  <2>3. r[lo + d] \in I[lo + d]
    BY <2>1
  <2> QED BY <2>2, <2>3
<1> HIDE DEF S
<1>3. S = Nat
  <2>1. S \in SUBSET Nat
    BY DEF S
  <2> QED BY ONLY <1>1, <1>2, <2>1, Inductive
<1>4. ASSUME NEW i \in lo..N
      PROVE  r[i] \in I[i]
  <2>1. i - lo \in Nat /\ lo + (i - lo) = i
    OBVIOUS
  <2>2. lo + (i - lo) <= N => r[lo + (i - lo)] \in I[lo + (i - lo)]
    BY <1>3, <2>1 DEF S
  <2> QED BY <2>1, <2>2
<1> QED BY <1>4

(* Such a loop can be run: there is a function of its steps. *)
CanRun(lo, N, e, g, I, S) ==
  /\ lo \in Nat /\ N \in Nat /\ lo <= N /\ e \in I[lo] /\ \A i \in lo..N : I[i] \subseteq S
  /\ \A i \in (lo+1)..N : \A x \in I[i-1] : g[<<i, x>>] \in I[i]
IsRun(f, lo, N, e, g, I, S) ==
  /\ f \in [lo..N -> S] /\ f[lo] = e
  /\ \A i \in (lo+1)..N : f[i] = g[<<i, f[i-1]>>]
  /\ \A i \in lo..N : f[i] \in I[i]
LEMMA Runs ==
  ASSUME NEW lo, NEW N, NEW e, NEW g, NEW I, NEW S, CanRun(lo, N, e, g, I, S)
  PROVE  \E f : IsRun(f, lo, N, e, g, I, S)
<1>0. /\ lo \in Nat /\ N \in Nat /\ lo <= N /\ e \in I[lo] /\ \A i \in lo..N : I[i] \subseteq S
      /\ \A i \in (lo+1)..N : \A x \in I[i-1] : g[<<i, x>>] \in I[i]
  BY DEF CanRun
<1> USE <1>0
<1> DEFINE Run(f, m) == /\ f = [i \in lo..m |-> IF i = lo THEN e ELSE g[<<i, f[i-1]>>]]
                        /\ \A i \in lo..m : f[i] \in I[i]
           D == {d \in Nat : lo + d <= N => \E f : Run(f, lo + d)}
<1>1. 0 \in D
  <2>1. Run([i \in lo..lo |-> e], lo)
    OBVIOUS
  <2>2. lo + 0 = lo
    OBVIOUS
  <2> HIDE DEF Run
  <2> QED BY <2>1, <2>2
<1>2. ASSUME NEW d \in D
      PROVE  d + 1 \in D
  <2>0. d + 1 \in Nat
    OBVIOUS
  <2> HIDE DEF Run
  <2>1. SUFFICES ASSUME lo + (d + 1) <= N
                 PROVE  \E f : Run(f, lo + (d + 1))
    BY Zenon, <2>0
  <2> USE DEF Run
  <2>2. d \in Nat /\ lo + d <= N
    BY <2>1
  <2>3. PICK f : Run(f, lo + d)
    BY <2>2
  <2> DEFINE m == lo + d   h == [i \in lo..(m+1) |-> IF i = m + 1 THEN g[<<m + 1, f[m]>>] ELSE f[i]]
  <2>4. m \in Nat /\ lo <= m /\ m + 1 <= N /\ lo + (d + 1) = m + 1
    BY <2>1, <2>2
  <2>5. /\ f = [i \in lo..m |-> IF i = lo THEN e ELSE g[<<i, f[i-1]>>]]
        /\ \A i \in lo..m : f[i] \in I[i]
    BY <2>3
  <2> HIDE DEF m
  <2>6. g[<<m + 1, f[m]>>] \in I[m + 1]
    <3>1. m + 1 \in (lo+1)..N /\ (m + 1) - 1 = m /\ m \in lo..m
      BY <2>4
    <3>2. f[m] \in I[(m + 1) - 1]
      BY <2>5, <3>1
    <3> QED BY <3>1, <3>2
  <2>7. ASSUME NEW i \in lo..(m+1)
        PROVE  h[i] = (IF i = lo THEN e ELSE g[<<i, h[i-1]>>]) /\ h[i] \in I[i]
    <3>1. CASE i = m + 1
      <4>1. h[i] = g[<<m + 1, f[m]>>] /\ h[i-1] = f[m] /\ i # lo
        BY <2>4, <3>1
      <4> QED BY <2>6, <3>1, <4>1
    <3>2. CASE i # m + 1
      <4>1. i \in lo..m /\ h[i] = f[i]
        BY <2>4, <3>2
      <4>2. i # lo => h[i-1] = f[i-1]
        BY <2>4, <3>2
      <4>3. f[i] = (IF i = lo THEN e ELSE g[<<i, f[i-1]>>])
        BY <2>5, <4>1
      <4> QED BY <2>5, <4>1, <4>2, <4>3
    <3> QED BY <3>1, <3>2
  <2>8. h = [i \in lo..(m+1) |-> h[i]]
    OBVIOUS
  <2> HIDE DEF h
  <2>9. h = [i \in lo..(m+1) |-> IF i = lo THEN e ELSE g[<<i, h[i-1]>>]]
    BY <2>7, <2>8
  <2>10. Run(h, m + 1)
    BY <2>7, <2>9
  <2> QED BY <2>4, <2>10
<1> HIDE DEF D
<1>3. D = Nat
  <2>1. D \in SUBSET Nat
    BY DEF D
  <2> QED BY ONLY <1>1, <1>2, <2>1, Inductive
<1>4. N - lo \in Nat /\ lo + (N - lo) = N
  OBVIOUS
<1>5. \E f : Run(f, N)
  <2>1. lo + (N - lo) <= N => \E f : Run(f, lo + (N - lo))
    BY ONLY <1>3, <1>4 DEF D
  <2> QED BY <1>4, <2>1
<1>6. PICK f : Run(f, N)
  BY <1>5
<1>7. f = [i \in lo..N |-> IF i = lo THEN e ELSE g[<<i, f[i-1]>>]]
  BY <1>6
<1>8. f \in [lo..N -> S] /\ f[lo] = e /\ \A i \in (lo+1)..N : f[i] = g[<<i, f[i-1]>>]
  <2>1. \A i \in (lo+1)..N : i \in lo..N /\ i # lo
    OBVIOUS
  <2>2. \A i \in lo..N : f[i] \in S
    BY <1>6
  <2> QED BY <1>7, <2>1, <2>2
<1> QED BY <1>6, <1>8 DEF IsRun

-----------------------------------------------------------------------------
(* The expansion. *)
LEMMA MinIs ==
  ASSUME NEW S \in SUBSET Nat, S # {}
  PROVE  Tab!Min(S) \in S /\ \A x \in S : Tab!Min(S) <= x
<1>1. PICK m \in S : TRUE
  OBVIOUS
<1> DEFINE T == S \cap 0..m
<1>2. T \in SUBSET (0..m) /\ T # {} /\ m \in Nat
  BY <1>1
<1>3. PICK x \in T : \A y \in T : x <= y
  BY <1>2, Least
<1>4. \A y \in S : x <= y
  BY <1>1, <1>3
<1>5. \E z \in S : \A y \in S : z <= y
  BY <1>3, <1>4
<1> QED BY <1>5, Zenon DEF Tab!Min

LEMMA EmptyIs ==
  ASSUME NEW n \in Nat \ {0}, NoEntry \notin Entry
  PROVE  Probable(Tab!EmptyTable(n), n) /\ Entries(Tab!EmptyTable(n)) = {}
<1> DEFINE t == Tab!EmptyTable(n)
<1>1. t \in Table(n) /\ \A i \in 0..(n-1) : t[i] = NoEntry
  BY DEF Tab!EmptyTable, Table
<1> HIDE DEF t
<1>2. UsedIn(t) = {}
  BY <1>1, EntriesOf
<1>3. 0 \in 0..(n-1)
  OBVIOUS
<1>4. Probable(t, n)
  BY <1>1, <1>2, <1>3 DEF Probable, KeysOnce
<1> QED BY <1>2, <1>4 DEF Entries, t

(* Entry e with another table. *)
LEMMA AgainKeeps ==
  ASSUME NEW n \in Nat \ {0}, NEW t, Probable(t, n), Keys \subseteq Nat, NoEntry \notin Entry,
         NEW e \in Entry \cup {NoEntry}, e # NoEntry => \A x \in Entries(t) : x.key # e.key,
         Tab!Count(t) + 1 < n
  PROVE  /\ Probable(Tab!Again(e, t), n)
         /\ Entries(Tab!Again(e, t)) = Entries(t) \cup ({e} \ {NoEntry})
<1>1. CASE e = NoEntry
  <2>1. Tab!Again(e, t) = t
    BY <1>1 DEF Tab!Again
  <2> QED BY <1>1, <2>1
<1>2. CASE e # NoEntry
  <2>1. e.key \in Keys /\ e.value \in Values /\ e = [key |-> e.key, value |-> e.value]
    BY <1>2 DEF Entry
  <2>2. Tab!Again(e, t) = Tab!Put(e.key, e.value, t)
    BY <1>2 DEF Tab!Again
  <2>3. PICK k \in Keys, v \in Values : e = [key |-> k, value |-> v] /\ k = e.key /\ v = e.value
    BY <2>1
  <2>4. Probable(Tab!Put(k, v, t), n)
        /\ Entries(Tab!Put(k, v, t)) = {x \in Entries(t) : x.key # k} \cup {[key |-> k, value |-> v]}
    BY PutKeeps
  <2>5. {x \in Entries(t) : x.key # k} = Entries(t)
    BY <1>2, <2>3
  <2> QED BY <1>2, <2>2, <2>3, <2>4, <2>5
<1> QED BY <1>1, <1>2

LEMMA ExpandKeeps ==
  ASSUME NEW n \in Nat \ {0}, NEW t, Probable(t, n), Keys \subseteq Nat, NoEntry \notin Entry,
         Sizes \subseteq Nat \ {0}, \E s \in Sizes : s > n
  PROVE  \E m \in Sizes : /\ m > n
                          /\ Probable(Tab!ExpandHashTable(t), m)
                          /\ Entries(Tab!ExpandHashTable(t)) = Entries(t)
<1> DEFINE m == Tab!Min({s \in Sizes : s > Tab!Size(t)})
<1>1. t \in Table(n) /\ KeysOnce(t) /\ (\E i \in 0..(n-1) : t[i] = NoEntry) /\ Tab!Size(t) = n
      /\ DOMAIN t = 0..(n-1)
  BY SizeOf DEF Probable
<1>2. m \in Sizes /\ m > n /\ m \in Nat \ {0}
  <2>1. m \in {s \in Sizes : s > n}
    BY <1>1, MinIs
  <2> QED BY <2>1
<1> DEFINE e0 == Tab!EmptyTable(m)
<1>3. Probable(e0, m) /\ Entries(e0) = {}
  BY <1>2, EmptyIs
<1>4. Tab!ExpandHashTable(t) =
        LET R[i \in 0..n] == IF i = 0 THEN e0 ELSE LET p == R[i - 1] IN Tab!Again(t[i - 1], p)
        IN R[n]
  BY <1>1 DEF Tab!ExpandHashTable
<1> HIDE DEF m, e0
<1> DEFINE Upto(i) == {t[j] : j \in UsedIn(t) \cap 0..(i-1)}
           I == [i \in 0..n |-> {u \in Table(m) : Probable(u, m) /\ Entries(u) = Upto(i)}]
           g == [z \in (0..n) \X Table(m) |-> Tab!Again(t[z[1] - 1], z[2])]
<1>5. e0 \in I[0]
  <2>1. Upto(0) = {}
    OBVIOUS
  <2> QED BY <1>3, <2>1 DEF Probable
<1>6. ASSUME NEW i \in 1..n, NEW x \in I[i-1]
      PROVE  Tab!Again(t[i-1], x) \in I[i]
  <2>1. i \in 0..n /\ i - 1 \in 0..n /\ i - 1 \in 0..(n-1)
    OBVIOUS
  <2>2. x \in Table(m) /\ Probable(x, m) /\ Entries(x) = Upto(i-1)
    BY <2>1
  <2> DEFINE e == t[i-1]
  <2>3. e \in Entry \cup {NoEntry}
    BY <1>1, <2>1 DEF Table
  <2>4. e # NoEntry => \A y \in Entries(x) : y.key # e.key
    <3>1. SUFFICES ASSUME e # NoEntry, NEW j \in UsedIn(t) \cap 0..((i-1)-1), t[j].key = e.key
                   PROVE  FALSE
      BY <2>2
    <3>2. i-1 \in UsedIn(t)
      BY <1>1, <2>1, <3>1 DEF UsedIn
    <3>3. j = i-1
      BY <1>1, <3>1, <3>2 DEF KeysOnce
    <3> QED BY <3>3
  <2>5. Upto(i) = Upto(i-1) \cup ({e} \ {NoEntry})
    <3>1. \A j : j \in UsedIn(t) \cap 0..(i-1)
                 <=> j \in UsedIn(t) \cap 0..((i-1)-1) \/ (j = i-1 /\ e # NoEntry)
      BY <1>1, <2>1 DEF UsedIn
    <3> QED BY <3>1
  <2>6. Tab!Count(x) + 1 < m
    <3>1. Tab!Count(x) = Cardinality(Entries(x)) /\ Tab!Count(x) \in Nat
      BY <1>2, <2>2, Counts DEF Probable
    <3>2. Tab!Count(t) = Cardinality(Entries(t)) /\ IsFiniteSet(Entries(t)) /\ Tab!Count(t) \in Nat
      BY <1>1, Counts
    <3>3. Entries(x) \subseteq Entries(t)
      BY <2>2 DEF Entries
    <3>4. Cardinality(Entries(x)) <= Cardinality(Entries(t))
      BY ONLY <3>2, <3>3, FS_Subset
    <3>5. Tab!Count(t) < n
      BY <1>1, SomeHole
    <3> QED BY <1>2, <3>1, <3>2, <3>4, <3>5
  <2> HIDE DEF Upto, e
  <2>7. Probable(Tab!Again(e, x), m) /\ Entries(Tab!Again(e, x)) = Entries(x) \cup ({e} \ {NoEntry})
    BY <1>2, <2>2, <2>3, <2>4, <2>6, AgainKeeps
  <2> QED BY <2>1, <2>2, <2>5, <2>7 DEF Probable, e
<1> HIDE DEF Upto
<1>7. \A i \in 1..n : \A x \in I[i-1] : g[<<i, x>>] \in I[i] /\ g[<<i, x>>] = Tab!Again(t[i-1], x)
  <2>1. \A i \in 1..n : i \in 0..n /\ i - 1 \in 0..n
    OBVIOUS
  <2>2. \A i \in 1..n : \A x \in I[i-1] : x \in Table(m)
    BY <2>1
  <2>3. \A i \in 1..n : \A x \in I[i-1] : g[<<i, x>>] = Tab!Again(t[i-1], x)
    BY <2>1, <2>2
  <2> HIDE DEF I, g
  <2> QED BY <1>6, <2>3
<1> HIDE DEF I, g
<1>8. PICK f \in [0..n -> Table(m)] :
            /\ f[0] = e0
            /\ \A i \in 1..n : f[i] = g[<<i, f[i-1]>>]
            /\ \A i \in 0..n : f[i] \in I[i]
  <2>1. \A i \in 1..n : \A x \in I[i-1] : g[<<i, x>>] \in I[i]
    BY <1>7
  <2>2. 0 \in Nat /\ n \in Nat /\ 0 <= n /\ 0 + 1 = 1
    OBVIOUS
  <2>3. \A i \in 0..n : I[i] \subseteq Table(m)
    BY DEF I
  <2>4. CanRun(0, n, e0, g, I, Table(m))
    BY ONLY <1>5, <2>1, <2>2, <2>3 DEF CanRun
  <2>5. PICK f : IsRun(f, 0, n, e0, g, I, Table(m))
    BY <2>4, Runs
  <2> QED BY <2>2, <2>5 DEF IsRun
<1> DEFINE Loop(r) == r = [i \in 0..n |-> IF i = 0 THEN e0 ELSE LET p == r[i-1] IN Tab!Again(t[i-1], p)]
           R == CHOOSE r : Loop(r)
<1>9. Loop(f)
  <2>1. \A i \in 1..n : i - 1 \in 0..n
    OBVIOUS
  <2>2. \A i \in 1..n : g[<<i, f[i-1]>>] = Tab!Again(t[i-1], f[i-1])
    BY <1>7, <1>8, <2>1
  <2>3. ASSUME NEW i \in 0..n
        PROVE  f[i] = IF i = 0 THEN e0 ELSE LET p == f[i-1] IN Tab!Again(t[i-1], p)
    <3>1. CASE i = 0
      BY <1>8, <3>1
    <3>2. CASE i # 0
      <4>1. i \in 1..n
        BY <3>2
      <4>2. f[i] = Tab!Again(t[i-1], f[i-1])
        BY <1>8, <2>2, <4>1
      <4> QED BY <3>2, <4>2
    <3> QED BY <3>1, <3>2
  <2>4. f = [i \in 0..n |-> f[i]]
    OBVIOUS
  <2> QED BY <2>3, <2>4
<1>10. Loop(R)
  <2> HIDE DEF Loop
  <2> QED BY <1>9, Zenon
<1>11. Tab!ExpandHashTable(t) = R[n]
  BY <1>4
<1> HIDE DEF R
<1>12. R[0] \in I[0] /\ \A i \in 1..n : R[i-1] \in I[i-1] => R[i] \in I[i]
  <2>1. R[0] = e0
    BY <1>10
  <2>2. \A i \in 1..n : R[i] = Tab!Again(t[i-1], R[i-1])
    BY <1>10
  <2> QED BY <1>5, <1>6, <2>1, <2>2
<1>13. R[n] \in I[n]
  <2>1. 0 \in Nat /\ n \in Nat /\ 0 <= n /\ 1 = 0 + 1
    OBVIOUS
  <2>2. \A i \in 0..n : R[i] \in I[i]
    BY ONLY <1>12, <2>1, StepByStep
  <2> QED BY <2>2
<1>14. Upto(n) = Entries(t)
  BY <1>1, EntriesOf DEF Upto, Entries
<1> QED BY <1>2, <1>11, <1>13, <1>14 DEF I

-----------------------------------------------------------------------------
(* The cluster after a hole. *)
LEMMA AtDistance ==
  ASSUME NEW n \in Nat \ {0}, NEW i \in 0..(n-1), NEW d \in 0..(n-1)
  PROVE  (i + d) % n \in 0..(n-1) /\ Near(n, i, (i + d) % n) = d
<1>1. CASE i + d < n
  <2>1. i + d \in 0..(n-1)
    BY <1>1
  <2>2. (i + d) % n = i + d
    BY <2>1
  <2> QED BY <2>1, <2>2 DEF Near
<1>2. CASE ~(i + d < n)
  <2>1. i + d - n \in 0..(n-1) /\ i + d = (i + d - n) + n
    BY <1>2
  <2>2. ((i + d - n) + n) % n = i + d - n
    BY <2>1
  <2>3. (i + d) % n = i + d - n
    BY <2>1, <2>2
  <2> QED BY <1>2, <2>1, <2>3 DEF Near
<1> QED BY <1>1, <1>2

(* The way from y on to x passes what lies between them as seen from i. *)
LEMMA PassesBetween ==
  ASSUME NEW n \in Nat \ {0}, NEW h \in 0..(n-1), NEW i \in 0..(n-1),
         NEW x \in 0..(n-1), NEW y \in 0..(n-1), NEW j \in 0..(n-1),
         Near(n, h, y) < Near(n, h, x), Near(n, i, y) < Near(n, i, j), Near(n, i, j) < Near(n, i, x)
  PROVE  Near(n, h, j) < Near(n, h, x)
BY DEF Near
LEMMA PassesAround ==
  ASSUME NEW n \in Nat \ {0}, NEW h \in 0..(n-1), NEW i \in 0..(n-1),
         NEW x \in 0..(n-1), NEW z \in 0..(n-1), NEW j \in 0..(n-1),
         Near(n, h, j) < Near(n, h, x), Near(n, i, x) < Near(n, i, j), Near(n, i, j) < Near(n, i, z)
  PROVE  Near(n, h, z) < Near(n, h, x)
BY DEF Near

(* u has the entries of t but the one at i, none farther from i than it was. *)
Without(u, t, n, i) ==
  /\ u \in Table(n) /\ KeysOnce(u) /\ Entries(u) = Entries(t) \ {t[i]}
  /\ \A y \in UsedIn(t) \ {i} :
       \E x \in UsedIn(u) : u[x] = t[y] /\ Near(n, i, x) <= Near(n, i, y)
(* Those nearer than d to the hole have been put back, the rest is as it was. *)
PutBack(u, t, n, i, d) ==
  /\ \A x \in 0..(n-1) : Near(n, i, x) >= d => u[x] = t[x]
  /\ \A x \in 0..(n-1) : Near(n, i, x) < d => t[x] # NoEntry
  /\ \A x \in UsedIn(u) : Near(n, i, x) < d => Reached(u, n, x)

LEMMA NearTypes ==
  ASSUME NEW n \in Nat \ {0}, NEW i \in 0..(n-1)
  PROVE  /\ \A x \in 0..(n-1) : Near(n, i, x) \in 0..(n-1)
         /\ Near(n, i, i) = 0
         /\ \A x, y \in 0..(n-1) : Near(n, i, x) = Near(n, i, y) => x = y
BY DEF Near

LEMMA HoleIs ==
  ASSUME NEW n \in Nat \ {0}, NEW t \in Table(n), KeysOnce(t), NoEntry \notin Entry, NEW i \in UsedIn(t)
  PROVE  /\ Tab!Hole(i, t) \in Table(n) /\ KeysOnce(Tab!Hole(i, t))
         /\ UsedIn(Tab!Hole(i, t)) = UsedIn(t) \ {i} /\ Entries(Tab!Hole(i, t)) = Entries(t) \ {t[i]}
         /\ Tab!Hole(i, t)[i] = NoEntry
         /\ \A x \in 0..(n-1) : x # i => Tab!Hole(i, t)[x] = t[x]
         /\ \A x \in UsedIn(t) \ {i} : t[x].key # t[i].key
<1> DEFINE u == Tab!Hole(i, t)
<1>1. i \in 0..(n-1) /\ t[i] # NoEntry
  BY EntriesOf
<1>2. u \in Table(n) /\ u[i] = NoEntry /\ \A x \in 0..(n-1) : x # i => u[x] = t[x]
  BY <1>1 DEF Tab!Hole, Table
<1> HIDE DEF u
<1>3. /\ \A j \in 0..(n-1) : (j \in UsedIn(u) <=> u[j] # NoEntry) /\ (j \in UsedIn(t) <=> t[j] # NoEntry)
      /\ UsedIn(u) \subseteq 0..(n-1) /\ UsedIn(t) \subseteq 0..(n-1)
  BY <1>2, EntriesOf
<1>4. UsedIn(u) = UsedIn(t) \ {i}
  BY <1>1, <1>2, <1>3
<1>5. \A j \in UsedIn(u) : u[j] = t[j]
  BY <1>2, <1>3, <1>4
<1>6. KeysOnce(u)
  BY <1>4, <1>5 DEF KeysOnce
<1>7. \A x \in UsedIn(t) \ {i} : t[x].key # t[i].key
  BY DEF KeysOnce
<1>8. Entries(u) = Entries(t) \ {t[i]}
  BY <1>4, <1>5, <1>7 DEF Entries
<1> QED BY <1>2, <1>4, <1>6, <1>7, <1>8 DEF u

LEMMA RehashBegins ==
  ASSUME NEW n \in Nat \ {0}, NEW t, Probable(t, n), NoEntry \notin Entry, NEW i \in UsedIn(t)
  PROVE  Without(Tab!Hole(i, t), t, n, i) /\ PutBack(Tab!Hole(i, t), t, n, i, 1)
<1> DEFINE u == Tab!Hole(i, t)
<1>1. t \in Table(n) /\ KeysOnce(t)
  BY DEF Probable
<1>2. i \in 0..(n-1) /\ t[i] # NoEntry /\ UsedIn(t) \subseteq 0..(n-1)
  BY <1>1, EntriesOf
<1>3. /\ u \in Table(n) /\ KeysOnce(u) /\ UsedIn(u) = UsedIn(t) \ {i} /\ Entries(u) = Entries(t) \ {t[i]}
      /\ \A x \in 0..(n-1) : x # i => u[x] = t[x]
  BY <1>1, HoleIs
<1> HIDE DEF u
<1>4. \A x \in 0..(n-1) : Near(n, i, x) \in Nat /\ (Near(n, i, x) < 1 <=> x = i)
  <2>1. /\ \A x \in 0..(n-1) : Near(n, i, x) \in 0..(n-1)
        /\ Near(n, i, i) = 0
        /\ \A x, y \in 0..(n-1) : Near(n, i, x) = Near(n, i, y) => x = y
    BY <1>2, NearTypes
  <2>2. \A x \in 0..(n-1) : Near(n, i, x) < 1 => x = i
    BY <1>2, <2>1
  <2> QED BY <2>1, <2>2
<1>5. Without(u, t, n, i)
  BY <1>2, <1>3, <1>4 DEF Without
<1>6. PutBack(u, t, n, i, 1)
  <2>1. \A x \in UsedIn(u) : x \in 0..(n-1) /\ x # i
    BY <1>2, <1>3
  <2>2. \A x \in 0..(n-1) : Near(n, i, x) >= 1 => x # i
    BY <1>4
  <2> QED BY <1>2, <1>3, <1>4, <2>1, <2>2 DEF PutBack
<1> QED BY <1>5, <1>6 DEF u

(* The next of the cluster is put back: it goes to an empty slot no farther *)
(* from the hole, and cuts no other off.                                    *)
LEMMA RehashGoesOn ==
  ASSUME NEW n \in Nat \ {0}, NEW t, Probable(t, n), Keys \subseteq Nat, NoEntry \notin Entry,
         NEW i \in UsedIn(t), NEW d \in 1..(n-1), NEW j \in 0..(n-1), Near(n, i, j) = d,
         NEW u, Without(u, t, n, i), PutBack(u, t, n, i, d), u[j] # NoEntry
  PROVE  /\ Without(Tab!Again(u[j], Tab!Hole(j, u)), t, n, i)
         /\ PutBack(Tab!Again(u[j], Tab!Hole(j, u)), t, n, i, d + 1)
<1> DEFINE w == Tab!Hole(j, u)   e == u[j]   k == e.key   v == e.value   r == Tab!Again(e, w)
<1>1. t \in Table(n) /\ KeysOnce(t) /\ u \in Table(n) /\ KeysOnce(u) /\ i \in 0..(n-1)
      /\ UsedIn(t) \subseteq 0..(n-1) /\ UsedIn(u) \subseteq 0..(n-1) /\ j \in UsedIn(u)
  BY EntriesOf DEF Probable, Without
<1>2. /\ w \in Table(n) /\ KeysOnce(w) /\ UsedIn(w) = UsedIn(u) \ {j} /\ Entries(w) = Entries(u) \ {e}
      /\ w[j] = NoEntry /\ \A x \in 0..(n-1) : x # j => w[x] = u[x]
      /\ \A x \in UsedIn(u) \ {j} : u[x].key # k
  BY <1>1, HoleIs
<1>3. k \in Keys /\ v \in Values /\ e = [key |-> k, value |-> v] /\ e \in Entries(u) /\ e # NoEntry
  <2>1. e \in Entry /\ e \in Entries(u)
    BY <1>1 DEF Table, Entries
  <2> QED BY <2>1 DEF Entry
<1>4. r = Tab!Put(k, v, w)
  BY <1>3 DEF Tab!Again
<1> HIDE DEF w, r, k, v
<1>5. \A x \in UsedIn(w) : w[x].key # k
  BY <1>1, <1>2
<1>6. PICK p \in 0..(n-1) :
           /\ w[p] = NoEntry /\ r = [w EXCEPT ![p] = e]
           /\ \A x \in 0..(n-1) : Near(n, k % n, x) < Near(n, k % n, p) => w[x] # NoEntry
           /\ r \in Table(n) /\ KeysOnce(r)
           /\ Reached(r, n, p)
           /\ \A x \in UsedIn(w) : Reached(w, n, x) => Reached(r, n, x)
           /\ Entries(r) = Entries(w) \cup {e}
  BY <1>2, <1>3, <1>4, <1>5, PutAbsent
<1> DEFINE h == k % n
<1>7. h \in 0..(n-1)
  BY <1>3, RemainderIs
<1>8. e = t[j] /\ j \in UsedIn(t) /\ j # i
  <2>1. u[j] = t[j]
    BY DEF PutBack
  <2>2. j # i
    BY <1>1, NearTypes
  <2> QED BY <1>1, <1>3, <2>1, <2>2, EntriesOf
<1>9. \A x \in 0..(n-1) : Near(n, h, x) < Near(n, h, j) => t[x] # NoEntry
  BY <1>8 DEF Probable, Reached, k
<1>10. /\ \A x \in 0..(n-1) : Near(n, i, x) \in 0..(n-1)
       /\ \A x, y \in 0..(n-1) : Near(n, i, x) = Near(n, i, y) => x = y
       /\ Near(n, i, i) = 0
  BY <1>1, NearTypes
<1>11. Near(n, i, p) <= d
  <2>1. CASE p = j
    BY <2>1
  <2>2. CASE p # j
    <3>1. ~(Near(n, h, j) < Near(n, h, p))
      BY <1>2, <1>6
    <3>2. Near(n, h, p) # Near(n, h, j) /\ Near(n, h, p) \in Int /\ Near(n, h, j) \in Int
      <4> HIDE DEF h
      <4>1. \A x \in 0..(n-1) : Near(n, h, x) \in 0..(n-1)
        BY <1>7, NearTypes
      <4>2. \A x, y \in 0..(n-1) : Near(n, h, x) = Near(n, h, y) => x = y
        BY <1>7, NearTypes
      <4> QED BY <2>2, <4>1, <4>2
    <3> HIDE DEF h
    <3>3. t[p] # NoEntry
      BY <1>9, <3>1, <3>2
    <3>4. u[p] = NoEntry
      BY <1>2, <1>6, <2>2
    <3>5. ~(Near(n, i, p) >= d)
      BY <3>3, <3>4 DEF PutBack
    <3> QED BY <1>10, <3>5
  <2> QED BY <2>1, <2>2
<1> HIDE DEF h, e
<1>12. \A x \in 0..(n-1) : x # p => r[x] = w[x]
  BY <1>2, <1>6 DEF Table
<1>13. r[p] = e
  BY <1>2, <1>6 DEF Table
<1>14. /\ \A x \in 0..(n-1) : /\ x \in UsedIn(u) <=> u[x] # NoEntry
                              /\ x \in UsedIn(w) <=> w[x] # NoEntry
                              /\ x \in UsedIn(r) <=> r[x] # NoEntry
                              /\ x \in UsedIn(t) <=> t[x] # NoEntry
       /\ UsedIn(r) \subseteq 0..(n-1)
  <2>1. \A x \in 0..(n-1) : (x \in UsedIn(u) <=> u[x] # NoEntry) /\ (x \in UsedIn(t) <=> t[x] # NoEntry)
    BY <1>1, EntriesOf
  <2>2. \A x \in 0..(n-1) : x \in UsedIn(w) <=> w[x] # NoEntry
    BY <1>2, EntriesOf
  <2>3. UsedIn(r) \subseteq 0..(n-1) /\ \A x \in 0..(n-1) : x \in UsedIn(r) <=> r[x] # NoEntry
    BY <1>6, EntriesOf
  <2> QED BY <2>1, <2>2, <2>3
<1>15. PICK z \in 0..(n-1) : t[z] = NoEntry
  BY DEF Probable
<1>16. Near(n, i, z) > d /\ u[z] = NoEntry
  <2>1. ~(Near(n, i, z) < d)
    BY <1>15 DEF PutBack
  <2>2. z # j
    BY <1>8, <1>14, <1>15
  <2>3. Near(n, i, z) # d /\ Near(n, i, z) \in Int
    BY <1>10, <2>2
  <2>4. Near(n, i, z) >= d /\ Near(n, i, z) > d
    BY <2>1, <2>3
  <2> QED BY <1>15, <2>4 DEF PutBack
<1>17. ASSUME NEW y \in UsedIn(t) \ {i}
       PROVE  \E x \in UsedIn(r) : r[x] = t[y] /\ Near(n, i, x) <= Near(n, i, y)
  <2>1. PICK x \in UsedIn(u) : u[x] = t[y] /\ Near(n, i, x) <= Near(n, i, y)
    BY <1>17 DEF Without
  <2>2. CASE x = j
    <3>1. r[p] = t[y] /\ p \in UsedIn(r)
      BY <1>3, <1>13, <1>14, <2>1, <2>2 DEF e
    <3>2. Near(n, i, p) <= Near(n, i, y)
      BY <1>1, <1>10, <1>11, <2>1, <2>2
    <3> QED BY <3>1, <3>2
  <2>3. CASE x # j
    <3>1. x \in 0..(n-1) /\ w[x] = u[x] /\ u[x] # NoEntry
      BY <1>1, <1>2, <1>14, <2>3
    <3>2. x # p
      BY <1>6, <3>1
    <3>3. r[x] = u[x] /\ x \in UsedIn(r)
      BY <1>12, <1>14, <3>1, <3>2
    <3> QED BY <2>1, <3>3
  <2> QED BY <2>2, <2>3
<1>18. Without(r, t, n, i)
  <2>1. Entries(r) = Entries(t) \ {t[i]}
    BY <1>2, <1>3, <1>6 DEF Without
  <2> QED BY <1>6, <1>17, <2>1 DEF Without
<1>19. ASSUME NEW x \in 0..(n-1), Near(n, i, x) >= d + 1
       PROVE  r[x] = t[x]
  <2>1. Near(n, i, x) \in Int /\ x # j /\ x # p /\ Near(n, i, x) >= d
    BY <1>10, <1>11, <1>19
  <2> QED BY <1>2, <1>12, <2>1 DEF PutBack
<1>20. ASSUME NEW x \in 0..(n-1), Near(n, i, x) < d + 1
       PROVE  t[x] # NoEntry
  <2>1. Near(n, i, x) < d \/ x = j
    BY <1>10, <1>20
  <2> QED BY <1>8, <1>14, <2>1 DEF PutBack
<1>21. ASSUME NEW x \in UsedIn(r), Near(n, i, x) < d + 1
       PROVE  Reached(r, n, x)
  <2>1. CASE x = p
    BY <1>6, <2>1
  <2>2. CASE x # p
    <3>1. x \in 0..(n-1) /\ r[x] # NoEntry
      BY <1>14
    <3>2. w[x] # NoEntry
      BY <1>12, <2>2, <3>1
    <3>3. x # j
      BY <1>2, <3>2
    <3>4. w[x] = u[x] /\ x \in UsedIn(w) /\ x \in UsedIn(u)
      BY <1>2, <1>14, <3>1, <3>2, <3>3
    <3>5. Near(n, i, x) < d
      BY <1>10, <1>21, <3>1, <3>3
    <3>6. Reached(u, n, x)
      BY <3>4, <3>5 DEF PutBack
    <3> DEFINE g == u[x].key % n
    <3>7. g \in 0..(n-1)
      <4>1. u[x].key \in Keys
        BY <1>1, <3>4, EntriesOf DEF Entry
      <4> QED BY <4>1, RemainderIs
    <3>8. \A y \in 0..(n-1) : Near(n, g, y) < Near(n, g, x) => u[y] # NoEntry
      BY <3>6 DEF Reached
    <3> HIDE DEF g
    <3>9. ~(Near(n, g, j) < Near(n, g, x))
      <4>1. SUFFICES ASSUME Near(n, g, j) < Near(n, g, x)
                     PROVE  FALSE
        OBVIOUS
      <4>2. Near(n, i, x) < Near(n, i, j) /\ Near(n, i, j) < Near(n, i, z)
        BY <1>10, <1>16, <3>5, <3>1
      <4>3. Near(n, g, z) < Near(n, g, x)
        BY <1>1, <3>1, <3>7, <4>1, <4>2, PassesAround
      <4> QED BY <1>16, <3>8, <4>3
    <3>10. \A y \in 0..(n-1) : Near(n, g, y) < Near(n, g, x) => w[y] # NoEntry
      BY <1>2, <3>8, <3>9
    <3>11. Reached(w, n, x)
      BY <3>4, <3>10 DEF Reached, g
    <3> QED BY <1>6, <3>4, <3>11
  <2> QED BY <2>1, <2>2
<1>22. PutBack(r, t, n, i, d + 1)
  BY <1>19, <1>20, <1>21 DEF PutBack
<1> QED BY <1>18, <1>22 DEF r, w, e

(* At the end of the cluster all that is left is reached. *)
LEMMA RehashEnds ==
  ASSUME NEW n \in Nat \ {0}, NEW t, Probable(t, n), Keys \subseteq Nat, NoEntry \notin Entry,
         NEW i \in UsedIn(t), NEW d \in 1..(n-1), NEW j \in 0..(n-1), Near(n, i, j) = d,
         NEW u, Without(u, t, n, i), PutBack(u, t, n, i, d), u[j] = NoEntry
  PROVE  Probable(u, n)
<1>1. t \in Table(n) /\ KeysOnce(t) /\ u \in Table(n) /\ KeysOnce(u) /\ i \in 0..(n-1)
      /\ UsedIn(t) \subseteq 0..(n-1) /\ UsedIn(u) \subseteq 0..(n-1)
  BY EntriesOf DEF Probable, Without
<1>2. /\ \A x \in 0..(n-1) : Near(n, i, x) \in 0..(n-1)
      /\ \A x, y \in 0..(n-1) : Near(n, i, x) = Near(n, i, y) => x = y
  BY <1>1, NearTypes
<1>3. t[j] = NoEntry
  BY <1>2 DEF PutBack
<1>4. ASSUME NEW x \in UsedIn(u)
      PROVE  Reached(u, n, x)
  <2>1. CASE Near(n, i, x) < d
    BY <2>1 DEF PutBack
  <2>2. CASE ~(Near(n, i, x) < d)
    <3>1. x \in 0..(n-1) /\ x # j /\ u[x] \in Entry /\ u[x] # NoEntry
      BY <1>1, EntriesOf
    <3>2. Near(n, i, x) > d /\ Near(n, i, x) >= d
      BY <1>2, <2>2, <3>1
    <3>3. u[x] = t[x] /\ x \in UsedIn(t)
      <4>1. u[x] = t[x]
        BY <3>1, <3>2 DEF PutBack
      <4> QED BY <1>1, <3>1, <4>1, EntriesOf
    <3> DEFINE h == t[x].key % n
    <3>4. h \in 0..(n-1)
      <4>1. t[x].key \in Keys
        BY <3>1, <3>3 DEF Entry
      <4> QED BY <4>1, RemainderIs
    <3>5. \A y \in 0..(n-1) : Near(n, h, y) < Near(n, h, x) => t[y] # NoEntry
      BY <3>3 DEF Probable, Reached
    <3> HIDE DEF h
    <3>6. ASSUME NEW y \in 0..(n-1), Near(n, h, y) < Near(n, h, x)
          PROVE  u[y] # NoEntry
      <4>1. CASE Near(n, i, y) >= d
        BY <3>5, <3>6, <4>1 DEF PutBack
      <4>2. CASE ~(Near(n, i, y) >= d)
        <5>1. Near(n, i, y) < Near(n, i, j) /\ Near(n, i, j) < Near(n, i, x)
          BY <1>2, <3>2, <4>2
        <5>2. Near(n, h, j) < Near(n, h, x)
          BY <1>1, <3>1, <3>4, <3>6, <5>1, PassesBetween
        <5> QED BY <1>3, <3>5, <5>2
      <4> QED BY <4>1, <4>2
    <3> QED BY <3>3, <3>6 DEF Reached, h
  <2> QED BY <2>1, <2>2
<1> QED BY <1>1, <1>4 DEF Probable

LEMMA RehashKeeps ==
  ASSUME NEW n \in Nat \ {0}, NEW t, Probable(t, n), Keys \subseteq Nat, NoEntry \notin Entry,
         NEW i \in UsedIn(t)
  PROVE  Probable(Tab!RehashFrom(i, t), n) /\ Without(Tab!RehashFrom(i, t), t, n, i)
<1> DEFINE e0 == [t |-> Tab!Hole(i, t), ends |-> FALSE]
           Body(d, p) ==
             LET j == (i + d - 1) % n
             IN IF p.ends \/ p.t[j] = NoEntry THEN [p EXCEPT !.ends = TRUE]
                ELSE [p EXCEPT !.t = Tab!Again(p.t[j], Tab!Hole(j, p.t))]
<1>1. t \in Table(n) /\ Tab!Size(t) = n /\ i \in 0..(n-1) /\ t[i] # NoEntry
  BY SizeOf, EntriesOf DEF Probable
<1>2. n > 1
  <2>1. PICK z \in 0..(n-1) : t[z] = NoEntry
    BY DEF Probable
  <2>2. z # i
    BY <1>1, <2>1
  <2> QED BY <1>1, <2>2
<1>3. Tab!RehashFrom(i, t) =
        LET R[d \in 1..n] ==
              IF d = 1 THEN e0
              ELSE LET j == (i + d - 1) % n
                       p == R[d - 1]
                   IN IF p.ends \/ p.t[j] = NoEntry THEN [p EXCEPT !.ends = TRUE]
                      ELSE [p EXCEPT !.t = Tab!Again(p.t[j], Tab!Hole(j, p.t))]
        IN R[n].t
  BY <1>1 DEF Tab!RehashFrom
<1> DEFINE S == [t : Table(n), ends : BOOLEAN]
           I == [d \in 1..n |-> {p \in S : /\ Without(p.t, t, n, i)
                                           /\ p.ends => Probable(p.t, n)
                                           /\ ~p.ends => PutBack(p.t, t, n, i, d)}]
           g == [z \in (1..n) \X S |-> Body(z[1], z[2])]
<1>4. e0 \in I[1]
  <2>1. Without(Tab!Hole(i, t), t, n, i) /\ PutBack(Tab!Hole(i, t), t, n, i, 1)
    BY RehashBegins
  <2>2. Tab!Hole(i, t) \in Table(n)
    BY <2>1 DEF Without
  <2>3. 1 \in 1..n /\ e0 \in S /\ e0.t = Tab!Hole(i, t) /\ e0.ends = FALSE
    BY <1>2, <2>2
  <2> HIDE DEF e0, S
  <2> QED BY <2>1, <2>3
<1>5. ASSUME NEW d \in 2..n, NEW p \in I[d-1]
      PROVE  Body(d, p) \in I[d]
  <2> DEFINE j == (i + d - 1) % n   u == p.t   c == d - 1
  <2>1. d \in 1..n /\ c \in 1..n /\ c \in 1..(n-1) /\ c \in 0..(n-1) /\ i + d - 1 = i + c /\ d = c + 1
    BY <1>1
  <2>2. p \in S /\ Without(u, t, n, i) /\ (p.ends => Probable(u, n)) /\ (~p.ends => PutBack(u, t, n, i, c))
    BY <2>1
  <2>3. p = [t |-> u, ends |-> p.ends] /\ u \in Table(n) /\ p.ends \in BOOLEAN
    BY <2>2
  <2> HIDE DEF c
  <2>4. j \in 0..(n-1) /\ Near(n, i, j) = c
    <3>1. j = (i + c) % n
      BY <2>1
    <3> HIDE DEF j
    <3> QED BY <1>1, <2>1, <3>1, AtDistance
  <2> HIDE DEF j, u
  <2>5. CASE p.ends
    <3>1. Body(d, p) = [t |-> u, ends |-> TRUE]
      BY <2>3, <2>5
    <3> QED BY <2>1, <2>2, <2>3, <2>5, <3>1
  <2>6. CASE ~p.ends /\ u[j] = NoEntry
    <3>1. Body(d, p) = [t |-> u, ends |-> TRUE]
      BY <2>3, <2>6 DEF j, u
    <3>2. Probable(u, n)
      BY <2>1, <2>2, <2>4, <2>6, RehashEnds
    <3> QED BY <2>1, <2>2, <2>3, <3>1, <3>2
  <2>7. CASE ~p.ends /\ u[j] # NoEntry
    <3> DEFINE r == Tab!Again(u[j], Tab!Hole(j, u))
    <3>1. Body(d, p) = [t |-> r, ends |-> FALSE]
      BY <2>3, <2>7 DEF j, u
    <3>2. Without(r, t, n, i) /\ PutBack(r, t, n, i, c + 1)
      BY <2>1, <2>2, <2>4, <2>7, RehashGoesOn
    <3> HIDE DEF r
    <3>3. r \in Table(n)
      BY <3>2 DEF Without
    <3> QED BY <2>1, <3>1, <3>2, <3>3
  <2> QED BY <2>5, <2>6, <2>7
<1>6. \A d \in 2..n : \A p \in I[d-1] : g[<<d, p>>] \in I[d] /\ g[<<d, p>>] = Body(d, p)
  <2>1. \A d \in 2..n : d \in 1..n /\ d - 1 \in 1..n
    OBVIOUS
  <2>2. \A d \in 2..n : \A p \in I[d-1] : p \in S
    BY <2>1
  <2> HIDE DEF Body, S, I
  <2>3. \A d \in 2..n : \A p \in I[d-1] : g[<<d, p>>] = Body(d, p)
    BY <2>1, <2>2
  <2> HIDE DEF g
  <2> QED BY <1>5, <2>3
<1>7. \A d \in 1..n : I[d] \subseteq S
  OBVIOUS
<1> HIDE DEF I, g, S, Body, e0
<1>8. PICK f \in [1..n -> S] :
            /\ f[1] = e0
            /\ \A d \in 2..n : f[d] = g[<<d, f[d-1]>>]
            /\ \A d \in 1..n : f[d] \in I[d]
  <2>1. \A d \in 2..n : \A x \in I[d-1] : g[<<d, x>>] \in I[d]
    BY <1>6
  <2>2. 1 \in Nat /\ n \in Nat /\ 1 <= n /\ 1 + 1 = 2
    BY <1>2
  <2>3. CanRun(1, n, e0, g, I, S)
    BY ONLY <1>4, <1>7, <2>1, <2>2 DEF CanRun
  <2>4. PICK f : IsRun(f, 1, n, e0, g, I, S)
    BY <2>3, Runs
  <2> QED BY <2>2, <2>4 DEF IsRun
<1> DEFINE Loop(r) ==
             r = [d \in 1..n |->
                    IF d = 1 THEN e0
                    ELSE LET j == (i + d - 1) % n
                             p == r[d - 1]
                         IN IF p.ends \/ p.t[j] = NoEntry THEN [p EXCEPT !.ends = TRUE]
                            ELSE [p EXCEPT !.t = Tab!Again(p.t[j], Tab!Hole(j, p.t))]]
           R == CHOOSE r : Loop(r)
<1>9. \A r : Loop(r) <=> r = [d \in 1..n |-> IF d = 1 THEN e0 ELSE Body(d, r[d-1])]
  BY DEF Body
<1>10. Tab!RehashFrom(i, t) = R[n].t
  BY <1>3
<1> HIDE DEF Loop
<1>11. Loop(f)
  <2>1. \A d \in 2..n : d - 1 \in 1..n
    OBVIOUS
  <2>2. \A d \in 2..n : g[<<d, f[d-1]>>] = Body(d, f[d-1])
    BY <1>6, <1>8, <2>1
  <2>3. ASSUME NEW d \in 1..n
        PROVE  f[d] = IF d = 1 THEN e0 ELSE Body(d, f[d-1])
    <3>1. CASE d = 1
      BY <1>8, <3>1
    <3>2. CASE d # 1
      <4>1. d \in 2..n
        BY <3>2
      <4>2. f[d] = Body(d, f[d-1])
        BY <1>8, <2>2, <4>1
      <4> QED BY <3>2, <4>2
    <3> QED BY <3>1, <3>2
  <2>4. f = [d \in 1..n |-> f[d]]
    OBVIOUS
  <2>5. f = [d \in 1..n |-> IF d = 1 THEN e0 ELSE Body(d, f[d-1])]
    BY <2>3, <2>4
  <2> QED BY <1>9, <2>5
<1>12. Loop(R)
  BY <1>11, Zenon
<1> HIDE DEF R
<1>13. R = [d \in 1..n |-> IF d = 1 THEN e0 ELSE Body(d, R[d-1])]
  BY <1>9, <1>12
<1>14. R[1] \in I[1] /\ \A d \in 2..n : R[d-1] \in I[d-1] => R[d] \in I[d]
  <2>1. R[1] = e0
    BY <1>2, <1>13
  <2>2. \A d \in 2..n : d \in 1..n /\ d # 1
    OBVIOUS
  <2>3. \A d \in 2..n : R[d] = Body(d, R[d-1])
    BY <1>13, <2>2
  <2> QED BY <1>4, <1>5, <2>1, <2>3
<1>15. R[n] \in I[n]
  <2>1. 1 \in Nat /\ n \in Nat /\ 1 <= n /\ 2 = 1 + 1
    BY <1>2
  <2>2. \A d \in 1..n : R[d] \in I[d]
    BY ONLY <1>14, <2>1, StepByStep
  <2> QED BY <2>1, <2>2
<1>16. /\ Without(R[n].t, t, n, i) /\ (R[n].ends => Probable(R[n].t, n))
       /\ (~R[n].ends => PutBack(R[n].t, t, n, i, n))
  BY <1>2, <1>15 DEF I
<1>17. ~PutBack(R[n].t, t, n, i, n)
  <2>1. PICK z \in 0..(n-1) : t[z] = NoEntry
    BY DEF Probable
  <2>2. Near(n, i, z) < n
    BY <1>1, NearTypes
  <2> QED BY <2>1, <2>2 DEF PutBack
<1> QED BY <1>10, <1>16, <1>17

LEMMA RemoveKeeps ==
  ASSUME NEW n \in Nat \ {0}, NEW t, Probable(t, n), Keys \subseteq Nat, NoEntry \notin Entry,
         NEW k \in Keys
  PROVE  /\ Probable(Tab!Remove(k, t), n)
         /\ Entries(Tab!Remove(k, t)) = {e \in Entries(t) : e.key # k}
         /\ \A i \in UsedIn(t) : t[i].key = k =>
              Without(Tab!Remove(k, t), t, n, i) /\ Tab!Count(Tab!Remove(k, t)) = Tab!Count(t) - 1
<1> DEFINE u == Tab!Remove(k, t)
<1>1. t \in Table(n) /\ KeysOnce(t)
  BY DEF Probable
<1>2. ASSUME NEW i \in UsedIn(t), t[i].key = k
      PROVE  Probable(u, n) /\ Entries(u) = {e \in Entries(t) : e.key # k}
             /\ Without(u, t, n, i) /\ Tab!Count(u) = Tab!Count(t) - 1
  <2>1. Tab!Probe(k, t) = i
    BY <1>2, ProbeFinds
  <2>2. t[i] # NoEntry
    BY DEF UsedIn
  <2>3. u = Tab!RehashFrom(i, t)
    BY <2>1, <2>2 DEF Tab!Remove
  <2>4. Probable(u, n) /\ Without(u, t, n, i)
    BY <2>3, RehashKeeps
  <2> HIDE DEF u
  <2>5. Entries(u) = Entries(t) \ {t[i]} /\ KeysOnce(u) /\ u \in Table(n)
    BY <2>4 DEF Without
  <2>6. t[i] \in Entries(t) /\ \A e \in Entries(t) : e.key = k => e = t[i]
    BY <1>1, <1>2 DEF Entries, KeysOnce
  <2>7. Entries(u) = {e \in Entries(t) : e.key # k}
    BY <1>2, <2>5, <2>6
  <2>8. Tab!Count(u) = Tab!Count(t) - 1
    <3>1. Tab!Count(t) = Cardinality(Entries(t)) /\ IsFiniteSet(Entries(t))
      BY <1>1, Counts
    <3>2. Tab!Count(u) = Cardinality(Entries(u))
      BY <2>5, Counts
    <3>3. Cardinality(Entries(t) \ {t[i]}) = Cardinality(Entries(t)) - 1
      BY ONLY <2>6, <3>1, FS_RemoveElement
    <3> QED BY <2>5, <3>1, <3>2, <3>3
  <2> QED BY <2>4, <2>7, <2>8
<1>3. CASE \E i \in UsedIn(t) : t[i].key = k
  <2> HIDE DEF u
  <2>1. PICK i \in UsedIn(t) : t[i].key = k
    BY <1>3
  <2> QED BY <1>2, <2>1 DEF u
<1>4. CASE ~\E i \in UsedIn(t) : t[i].key = k
  <2>1. Tab!Probe(k, t) \in 0..(n-1) /\ (t[Tab!Probe(k, t)] # NoEntry => t[Tab!Probe(k, t)].key = k)
    BY ProbeMisses
  <2>2. t[Tab!Probe(k, t)] = NoEntry
    BY <1>1, <1>4, <2>1, EntriesOf
  <2>3. u = t
    BY <2>2 DEF Tab!Remove
  <2>4. Entries(t) = {e \in Entries(t) : e.key # k}
    BY <1>4 DEF Entries
  <2> QED BY <1>4, <2>3, <2>4
<1> QED BY <1>3, <1>4

LEMMA RoomForKeeps ==
  ASSUME Tab!ConstantsOK, NEW n \in Sizes, NEW t, Probable(t, n), Tab!Count(t) <= MaxKeys
  PROVE  \E m \in Sizes : /\ Probable(Tab!RoomFor(t), m) /\ Entries(Tab!RoomFor(t)) = Entries(t)
                          /\ Tab!Count(Tab!RoomFor(t)) = Tab!Count(t) /\ Tab!Count(t) + 1 < m
<1>1. /\ Sizes \subseteq Nat \ {0} /\ n \in Nat \ {0} /\ MaxKeys \in Nat /\ Keys \subseteq Nat
      /\ NoEntry \notin Entry
  BY NoEntryIsNone DEF Tab!ConstantsOK
<1>2. PICK s \in Sizes : (s * 17) \div 20 > MaxKeys
  BY DEF Tab!ConstantsOK, Tab!MaxFill
<1>3. t \in Table(n) /\ KeysOnce(t) /\ Tab!Size(t) = n /\ \E i \in 0..(n-1) : t[i] = NoEntry
  BY <1>1, SizeOf DEF Probable
<1>4. Tab!Count(t) < n /\ Tab!Count(t) \in Nat
  BY <1>1, <1>3, SomeHole, Counts
<1>5. CASE Tab!Count(t) >= (n * 17) \div 20
  <2>1. Tab!RoomFor(t) = Tab!ExpandHashTable(t)
    BY <1>3, <1>5 DEF Tab!RoomFor, Tab!MaxFill
  <2>2. s > n
    <3>1. s \in Nat /\ (s * 17) \div 20 > (n * 17) \div 20 /\ (s * 17) \div 20 \in Nat /\ (n * 17) \div 20 \in Nat
      BY <1>1, <1>2, <1>4, <1>5
    <3> QED BY <1>1, <3>1
  <2>3. PICK m \in Sizes : /\ m > n /\ Probable(Tab!ExpandHashTable(t), m)
                           /\ Entries(Tab!ExpandHashTable(t)) = Entries(t)
    BY <1>1, <2>2, ExpandKeeps
  <2>4. Tab!Count(Tab!ExpandHashTable(t)) = Tab!Count(t)
    <3>1. m \in Nat
      BY <1>1
    <3>2. Tab!Count(Tab!ExpandHashTable(t)) = Cardinality(Entries(Tab!ExpandHashTable(t)))
      BY <1>1, <2>3, <3>1, Counts DEF Probable
    <3>3. Tab!Count(t) = Cardinality(Entries(t))
      BY <1>1, <1>3, Counts
    <3> QED BY <2>3, <3>2, <3>3
  <2>5. Tab!Count(t) + 1 < m
    BY <1>1, <1>4, <2>3
  <2> QED BY <2>1, <2>3, <2>4, <2>5
<1>6. CASE ~(Tab!Count(t) >= (n * 17) \div 20)
  <2>1. Tab!RoomFor(t) = t
    BY <1>3, <1>6 DEF Tab!RoomFor, Tab!MaxFill
  <2>2. Tab!Count(t) + 1 <= (n * 17) \div 20 /\ (n * 17) \div 20 < n
    BY <1>1, <1>4, <1>6
  <2>3. Tab!Count(t) + 1 < n
    BY <1>1, <1>4, <2>2
  <2> QED BY <2>1, <2>3
<1> QED BY <1>5, <1>6

(* An insertion with the room made for it. *)
LEMMA InsertKeeps ==
  ASSUME Tab!ConstantsOK, NEW n \in Sizes, NEW t, Probable(t, n), Tab!Count(t) <= MaxKeys,
         NEW k \in Keys, NEW v \in Values
  PROVE  \E m \in Sizes :
           /\ Probable(Tab!Put(k, v, Tab!RoomFor(t)), m)
           /\ Entries(Tab!Put(k, v, Tab!RoomFor(t)))
                = {e \in Entries(t) : e.key # k} \cup {[key |-> k, value |-> v]}
           /\ (\E e \in Entries(t) : e.key = k)
                => Tab!Count(Tab!Put(k, v, Tab!RoomFor(t))) = Tab!Count(t)
           /\ Tab!Count(Tab!Put(k, v, Tab!RoomFor(t))) <= Tab!Count(t) + 1
<1> DEFINE r == Tab!RoomFor(t)
<1>1. PICK m \in Sizes : /\ Probable(r, m) /\ Entries(r) = Entries(t)
                         /\ Tab!Count(r) = Tab!Count(t) /\ Tab!Count(t) + 1 < m
  BY RoomForKeeps
<1>2. m \in Nat \ {0} /\ Keys \subseteq Nat /\ NoEntry \notin Entry
  BY NoEntryIsNone DEF Tab!ConstantsOK
<1> HIDE DEF r
<1>3. /\ Probable(Tab!Put(k, v, r), m)
      /\ Entries(Tab!Put(k, v, r)) = {e \in Entries(r) : e.key # k} \cup {[key |-> k, value |-> v]}
      /\ (\E e \in Entries(r) : e.key = k) => Tab!Count(Tab!Put(k, v, r)) = Tab!Count(r)
      /\ Tab!Count(Tab!Put(k, v, r)) <= Tab!Count(r) + 1
  BY <1>1, <1>2, PutKeeps
<1> QED BY <1>1, <1>3 DEF r

(* After a collection the keys have new addresses. *)
Renamed(f, e) == [key |-> f[e.key], value |-> e.value]
LEMMA MovedKeeps ==
  ASSUME Tab!ConstantsOK, NEW n \in Sizes, NEW t, Probable(t, n), Tab!Count(t) <= MaxKeys,
         NEW f \in [Keys -> Keys], \A a, b \in Keys : f[a] = f[b] => a = b
  PROVE  \E m \in Sizes : /\ Probable(Tab!Moved(f, t), m)
                          /\ Entries(Tab!Moved(f, t)) = {Renamed(f, e) : e \in Entries(t)}
                          /\ Tab!Count(Tab!Moved(f, t)) <= Tab!Count(t)
<1> DEFINE E2 == {Renamed(f, e) : e \in Entries(t)}
           e0 == Tab!CreateN(Tab!Count(t))
           Body(i, p) == IF t[i - 1] = NoEntry THEN p
                         ELSE Tab!Put(f[t[i - 1].key], t[i - 1].value, Tab!RoomFor(p))
           Upto(i) == {Renamed(f, t[j]) : j \in UsedIn(t) \cap 0..(i-1)}
           S == UNION {Table(m) : m \in Sizes}
           I == [i \in 0..n |-> {u \in S : (\E m \in Sizes : Probable(u, m)) /\ Entries(u) = Upto(i)}]
           g == [z \in (0..n) \X S |-> Body(z[1], z[2])]
<1>1. /\ Sizes \subseteq Nat \ {0} /\ n \in Nat \ {0} /\ MaxKeys \in Nat /\ Keys \subseteq Nat
      /\ NoEntry \notin Entry
  BY NoEntryIsNone DEF Tab!ConstantsOK
<1>2. t \in Table(n) /\ KeysOnce(t) /\ Tab!Size(t) = n /\ DOMAIN t = 0..(n-1)
      /\ \E i \in 0..(n-1) : t[i] = NoEntry
  BY <1>1, SizeOf DEF Probable
<1>3. /\ Tab!Count(t) < n /\ Tab!Count(t) \in Nat
      /\ Tab!Count(t) = Cardinality(Entries(t)) /\ IsFiniteSet(Entries(t))
  BY <1>1, <1>2, SomeHole, Counts
<1>4. Cardinality(E2) <= Tab!Count(t) /\ IsFiniteSet(E2)
  <2> DEFINE h == [e \in Entries(t) |-> Renamed(f, e)]
  <2>1. E2 = {h[e] : e \in Entries(t)}
    OBVIOUS
  <2>2. h \in [Entries(t) -> E2]
    OBVIOUS
  <2>3. \A y \in E2 : \E e \in Entries(t) : h[e] = y
    OBVIOUS
  <2> HIDE DEF E2, h
  <2>4. h \in Surjection(Entries(t), E2)
    BY <2>2, <2>3 DEF Surjection
  <2>5. IsFiniteSet(E2) /\ Cardinality(E2) <= Cardinality(Entries(t))
    BY ONLY <1>3, <2>4, FS_Surjection
  <2> QED BY <1>3, <2>5
<1>5. Tab!Moved(f, t) =
        LET R[i \in 0..n] ==
              IF i = 0 THEN e0
              ELSE LET p == R[i - 1]
                   IN IF t[i - 1] = NoEntry THEN p
                      ELSE Tab!Put(f[t[i - 1].key], t[i - 1].value, Tab!RoomFor(p))
        IN R[n]
  BY <1>2 DEF Tab!Moved
<1>6. e0 \in I[0]
  <2> DEFINE m == Tab!Min({s \in Sizes : s >= Tab!Count(t)})
  <2>1. m \in Sizes /\ m \in Nat \ {0}
    <3>1. m \in {s \in Sizes : s >= Tab!Count(t)}
      BY <1>1, <1>3, MinIs
    <3> QED BY <1>1, <3>1
  <2>2. e0 = Tab!EmptyTable(m)
    BY DEF Tab!CreateN
  <2> HIDE DEF m, e0
  <2>3. Probable(e0, m) /\ Entries(e0) = {}
    BY <1>1, <2>1, <2>2, EmptyIs
  <2>4. Upto(0) = {}
    OBVIOUS
  <2>5. e0 \in S
    BY <2>1, <2>3 DEF Probable
  <2>6. 0 \in 0..n
    BY <1>1
  <2> HIDE DEF Upto, S
  <2> QED BY <2>1, <2>3, <2>4, <2>5, <2>6
<1>7. ASSUME NEW i \in 1..n, NEW x \in I[i-1]
      PROVE  Body(i, x) \in I[i]
  <2>1. i \in 0..n /\ i - 1 \in 0..n /\ i - 1 \in 0..(n-1)
    BY <1>1
  <2>2. PICK m \in Sizes : Probable(x, m)
    BY <2>1
  <2>3. x \in S /\ Entries(x) = Upto(i-1)
    BY <2>1
  <2> DEFINE e == t[i-1]
  <2>4. CASE e = NoEntry
    <3>1. Body(i, x) = x
      BY <2>4
    <3>2. \A j : j \in UsedIn(t) \cap 0..(i-1) <=> j \in UsedIn(t) \cap 0..((i-1)-1)
      BY <1>2, <2>1, <2>4 DEF UsedIn
    <3>3. Upto(i) = Upto(i-1)
      BY <3>2
    <3> HIDE DEF Body, Upto, S
    <3> QED BY <2>1, <2>2, <2>3, <3>1, <3>3
  <2>5. CASE e # NoEntry
    <3>1. i-1 \in UsedIn(t) /\ e \in Entry /\ e.key \in Keys /\ e.value \in Values
      BY <1>2, <2>1, <2>5 DEF UsedIn, Table, Entry
    <3> DEFINE k == f[e.key]   v == e.value
    <3>2. k \in Keys /\ v \in Values /\ Renamed(f, e) = [key |-> k, value |-> v]
      BY <3>1 DEF Renamed
    <3>3. Body(i, x) = Tab!Put(k, v, Tab!RoomFor(x))
      BY <2>5
    <3>4. Tab!Count(x) <= MaxKeys
      <4>1. Tab!Count(x) = Cardinality(Entries(x)) /\ Tab!Count(x) \in Nat
        BY <1>1, <2>2, Counts DEF Probable
      <4>2. Entries(x) \subseteq E2
        BY <2>3 DEF Entries
      <4> HIDE DEF E2
      <4>3. Cardinality(Entries(x)) <= Cardinality(E2)
        BY ONLY <1>4, <4>2, FS_Subset
      <4>4. Cardinality(E2) \in Nat
        BY ONLY <1>4, FS_CardinalityType
      <4> QED BY <1>1, <1>3, <1>4, <4>1, <4>3, <4>4
    <3>5. \A j : j \in UsedIn(t) \cap 0..(i-1)
                 <=> j \in UsedIn(t) \cap 0..((i-1)-1) \/ j = i-1
      BY <2>1, <3>1
    <3>6. Upto(i) = Upto(i-1) \cup {[key |-> k, value |-> v]}
      <4>1. Upto(i) = Upto(i-1) \cup {Renamed(f, e)}
        BY <3>5
      <4> QED BY <3>2, <4>1
    <3>7. \A y \in Entries(x) : y.key # k
      <4>1. SUFFICES ASSUME NEW j \in UsedIn(t) \cap 0..((i-1)-1), Renamed(f, t[j]).key = k
                     PROVE  FALSE
        BY <2>3
      <4>2. t[j].key \in Keys /\ f[t[j].key] = f[e.key]
        BY <1>1, <1>2, <4>1, EntriesOf DEF Renamed, Entry
      <4>3. t[j].key = e.key
        BY <3>1, <4>2
      <4>4. j = i-1
        BY <1>2, <3>1, <4>3 DEF KeysOnce
      <4> QED BY <2>1, <4>4
    <3> HIDE DEF Body, Upto, e, k, v
    <3>8. PICK l \in Sizes :
           /\ Probable(Tab!Put(k, v, Tab!RoomFor(x)), l)
           /\ Entries(Tab!Put(k, v, Tab!RoomFor(x)))
                = {y \in Entries(x) : y.key # k} \cup {[key |-> k, value |-> v]}
      BY <2>2, <3>2, <3>4, InsertKeeps
    <3>9. Entries(Tab!Put(k, v, Tab!RoomFor(x))) = Upto(i)
      BY <2>3, <3>6, <3>7, <3>8
    <3>10. Tab!Put(k, v, Tab!RoomFor(x)) \in S
      BY <3>8 DEF Probable
    <3> HIDE DEF S
    <3> QED BY <2>1, <3>3, <3>8, <3>9, <3>10
  <2> QED BY <2>4, <2>5
<1>8. \A i \in 0..n : I[i] \subseteq S
  OBVIOUS
<1>9. \A i \in 1..n : \A p \in I[i-1] : g[<<i, p>>] \in I[i] /\ g[<<i, p>>] = Body(i, p)
  <2>1. \A i \in 1..n : i \in 0..n /\ i - 1 \in 0..n
    BY <1>1
  <2>2. \A i \in 1..n : \A p \in I[i-1] : p \in S
    BY <1>8, <2>1
  <2> HIDE DEF Body, S, I
  <2>3. \A i \in 1..n : \A p \in I[i-1] : g[<<i, p>>] = Body(i, p)
    BY <2>1, <2>2
  <2> HIDE DEF g
  <2> QED BY <1>7, <2>3
<1> HIDE DEF I, g, S, Body, e0
<1>10. PICK q \in [0..n -> S] :
            /\ q[0] = e0
            /\ \A i \in 1..n : q[i] = g[<<i, q[i-1]>>]
            /\ \A i \in 0..n : q[i] \in I[i]
  <2>1. \A i \in 1..n : \A x \in I[i-1] : g[<<i, x>>] \in I[i]
    BY <1>9
  <2>2. 0 \in Nat /\ n \in Nat /\ 0 <= n /\ 0 + 1 = 1
    BY <1>1
  <2>3. CanRun(0, n, e0, g, I, S)
    BY ONLY <1>6, <1>8, <2>1, <2>2 DEF CanRun
  <2>4. PICK q : IsRun(q, 0, n, e0, g, I, S)
    BY <2>3, Runs
  <2> QED BY <2>2, <2>4 DEF IsRun
<1> DEFINE Loop(r) ==
             r = [i \in 0..n |->
                    IF i = 0 THEN e0
                    ELSE LET p == r[i - 1]
                         IN IF t[i - 1] = NoEntry THEN p
                            ELSE Tab!Put(f[t[i - 1].key], t[i - 1].value, Tab!RoomFor(p))]
           R == CHOOSE r : Loop(r)
<1>11. \A r : Loop(r) <=> r = [i \in 0..n |-> IF i = 0 THEN e0 ELSE Body(i, r[i-1])]
  BY DEF Body
<1>12. Tab!Moved(f, t) = R[n]
  BY <1>5
<1> HIDE DEF Loop
<1>13. Loop(q)
  <2>1. \A i \in 1..n : i - 1 \in 0..n
    BY <1>1
  <2>2. \A i \in 1..n : g[<<i, q[i-1]>>] = Body(i, q[i-1])
    BY <1>9, <1>10, <2>1
  <2>3. ASSUME NEW i \in 0..n
        PROVE  q[i] = IF i = 0 THEN e0 ELSE Body(i, q[i-1])
    <3>1. CASE i = 0
      BY <1>10, <3>1
    <3>2. CASE i # 0
      <4>1. i \in 1..n
        BY <1>1, <3>2
      <4>2. q[i] = Body(i, q[i-1])
        BY <1>10, <2>2, <4>1
      <4> QED BY <3>2, <4>2
    <3> QED BY <3>1, <3>2
  <2>4. q = [i \in 0..n |-> q[i]]
    OBVIOUS
  <2>5. q = [i \in 0..n |-> IF i = 0 THEN e0 ELSE Body(i, q[i-1])]
    BY <2>3, <2>4
  <2> QED BY <1>11, <2>5
<1>14. Loop(R)
  BY <1>13, Zenon
<1> HIDE DEF R
<1>15. R = [i \in 0..n |-> IF i = 0 THEN e0 ELSE Body(i, R[i-1])]
  BY <1>11, <1>14
<1>16. R[0] \in I[0] /\ \A i \in 1..n : R[i-1] \in I[i-1] => R[i] \in I[i]
  <2>1. R[0] = e0
    BY <1>1, <1>15
  <2>2. \A i \in 1..n : i \in 0..n /\ i # 0
    OBVIOUS
  <2>3. \A i \in 1..n : R[i] = Body(i, R[i-1])
    BY <1>15, <2>2
  <2> QED BY <1>6, <1>7, <2>1, <2>3
<1>17. R[n] \in I[n]
  <2>1. 0 \in Nat /\ n \in Nat /\ 0 <= n /\ 1 = 0 + 1
    BY <1>1
  <2>2. \A i \in 0..n : R[i] \in I[i]
    BY ONLY <1>16, <2>1, StepByStep
  <2> QED BY <2>1, <2>2
<1>18. Upto(n) = E2
  BY <1>1, <1>2, EntriesOf DEF Upto, Entries
<1>19. PICK m \in Sizes : Probable(R[n], m) /\ Entries(R[n]) = E2
  <2>1. n \in 0..n
    BY <1>1
  <2> HIDE DEF Upto, E2
  <2> QED BY <1>17, <1>18, <2>1 DEF I
<1>20. Tab!Count(R[n]) = Cardinality(Entries(R[n]))
  BY <1>1, <1>19, Counts DEF Probable
<1> QED BY <1>4, <1>12, <1>19, <1>20

-----------------------------------------------------------------------------
(* The table as a map. *)
MapOf(t) == [k \in {k \in Keys : Tab!Lookup(k, t) # NoEntry} |-> Tab!Lookup(k, t)]

LEMMA AsMapIs == Tab!AsMap = MapOf(slots)
BY DEF Tab!AsMap, Tab!Found, MapOf

LEMMA MapIs ==
  ASSUME Tab!ConstantsOK, NEW n \in Sizes, NEW t, Probable(t, n)
  PROVE  /\ DOMAIN MapOf(t) = {e.key : e \in Entries(t)}
         /\ MapOf(t) = [k \in DOMAIN MapOf(t) |-> MapOf(t)[k]]
         /\ \A e \in Entries(t) : /\ MapOf(t)[e.key] = e.value /\ e.key \in Keys /\ e.value \in Values
                                  /\ e = [key |-> e.key, value |-> e.value]
         /\ DOMAIN MapOf(t) \subseteq Keys
<1>1. n \in Nat \ {0} /\ Keys \subseteq Nat /\ NoEntry \notin Entry /\ NoEntry \notin Values /\ t \in Table(n)
  BY NoEntryIsNone DEF Tab!ConstantsOK, Probable
<1>2. \A e \in Entries(t) : e.key \in Keys /\ e.value \in Values /\ e = [key |-> e.key, value |-> e.value]
  <2>1. Entries(t) \subseteq Entry
    BY <1>1, EntriesOf
  <2> QED BY <2>1 DEF Entry
<1>3. \A e \in Entries(t) : Tab!Lookup(e.key, t) = e.value
  BY <1>1, <1>2, LookupIs
<1>4. ASSUME NEW k \in Keys, Tab!Lookup(k, t) # NoEntry
      PROVE  \E e \in Entries(t) : e.key = k
  BY <1>1, <1>4, LookupIs
<1>5. DOMAIN MapOf(t) = {e.key : e \in Entries(t)}
  <2>1. DOMAIN MapOf(t) = {k \in Keys : Tab!Lookup(k, t) # NoEntry}
    BY DEF MapOf
  <2>2. \A e \in Entries(t) : Tab!Lookup(e.key, t) # NoEntry
    BY <1>1, <1>2, <1>3
  <2> QED BY <1>2, <1>4, <2>1, <2>2
<1>6. \A k \in DOMAIN MapOf(t) : MapOf(t)[k] = Tab!Lookup(k, t)
  BY DEF MapOf
<1>7. \A e \in Entries(t) : MapOf(t)[e.key] = e.value
  BY <1>3, <1>5, <1>6
<1>8. MapOf(t) = [k \in DOMAIN MapOf(t) |-> MapOf(t)[k]]
  BY DEF MapOf
<1>9. DOMAIN MapOf(t) \subseteq Keys
  BY <1>2, <1>5
<1> QED BY <1>2, <1>5, <1>7, <1>8, <1>9

LEMMA InsertMaps ==
  ASSUME Tab!ConstantsOK, NEW n \in Sizes, NEW t, Probable(t, n), NEW m \in Sizes, NEW u, Probable(u, m),
         NEW k \in Keys, NEW v \in Values,
         Entries(u) = {e \in Entries(t) : e.key # k} \cup {[key |-> k, value |-> v]}
  PROVE  MapOf(u) = [x \in DOMAIN MapOf(t) \cup {k} |-> IF x = k THEN v ELSE MapOf(t)[x]]
<1> DEFINE new == [key |-> k, value |-> v]
<1>1. new.key = k /\ new.value = v /\ new \in Entries(u)
  OBVIOUS
<1>2. /\ DOMAIN MapOf(t) = {e.key : e \in Entries(t)}
      /\ \A e \in Entries(t) : MapOf(t)[e.key] = e.value
  BY MapIs
<1>3. /\ DOMAIN MapOf(u) = {e.key : e \in Entries(u)}
      /\ \A e \in Entries(u) : MapOf(u)[e.key] = e.value
      /\ MapOf(u) = [x \in DOMAIN MapOf(u) |-> MapOf(u)[x]]
  BY MapIs
<1> HIDE DEF new
<1>4. DOMAIN MapOf(u) = DOMAIN MapOf(t) \cup {k}
  <2>1. \A x : x \in {e.key : e \in Entries(u)} <=> x = k \/ x \in {e.key : e \in Entries(t)}
    BY <1>1 DEF new
  <2> QED BY <1>2, <1>3, <2>1
<1>5. \A x \in DOMAIN MapOf(t) \cup {k} : MapOf(u)[x] = IF x = k THEN v ELSE MapOf(t)[x]
  <2>1. MapOf(u)[k] = v
    BY <1>1, <1>3
  <2>2. ASSUME NEW x \in DOMAIN MapOf(t), x # k
        PROVE  MapOf(u)[x] = MapOf(t)[x]
    <3>1. PICK e \in Entries(t) : e.key = x
      BY <1>2
    <3>2. e \in Entries(u)
      BY <2>2, <3>1
    <3> QED BY <1>2, <1>3, <3>1, <3>2
  <2> QED BY <2>1, <2>2
<1> QED BY <1>3, <1>4, <1>5

LEMMA RemoveMaps ==
  ASSUME Tab!ConstantsOK, NEW n \in Sizes, NEW t, Probable(t, n), NEW m \in Sizes, NEW u, Probable(u, m),
         NEW k \in Keys, Entries(u) = {e \in Entries(t) : e.key # k}
  PROVE  MapOf(u) = [x \in DOMAIN MapOf(t) \ {k} |-> MapOf(t)[x]]
<1>1. /\ DOMAIN MapOf(t) = {e.key : e \in Entries(t)}
      /\ \A e \in Entries(t) : MapOf(t)[e.key] = e.value
  BY MapIs
<1>2. /\ DOMAIN MapOf(u) = {e.key : e \in Entries(u)}
      /\ \A e \in Entries(u) : MapOf(u)[e.key] = e.value
      /\ MapOf(u) = [x \in DOMAIN MapOf(u) |-> MapOf(u)[x]]
  BY MapIs
<1>3. DOMAIN MapOf(u) = DOMAIN MapOf(t) \ {k}
  BY <1>1, <1>2
<1>4. \A x \in DOMAIN MapOf(t) \ {k} : MapOf(u)[x] = MapOf(t)[x]
  BY <1>1, <1>2
<1> QED BY <1>2, <1>3, <1>4

LEMMA MoveMaps ==
  ASSUME Tab!ConstantsOK, NEW n \in Sizes, NEW t, Probable(t, n), NEW m \in Sizes, NEW u, Probable(u, m),
         NEW f \in [Keys -> Keys], \A a, b \in Keys : f[a] = f[b] => a = b,
         Entries(u) = {Renamed(f, e) : e \in Entries(t)}
  PROVE  MapOf(u) = [k \in {f[x] : x \in DOMAIN MapOf(t)}
                       |-> MapOf(t)[CHOOSE x \in DOMAIN MapOf(t) : f[x] = k]]
<1>1. /\ DOMAIN MapOf(t) = {e.key : e \in Entries(t)} /\ DOMAIN MapOf(t) \subseteq Keys
      /\ \A e \in Entries(t) : MapOf(t)[e.key] = e.value
  BY MapIs
<1>2. /\ DOMAIN MapOf(u) = {e.key : e \in Entries(u)}
      /\ \A e \in Entries(u) : MapOf(u)[e.key] = e.value
      /\ MapOf(u) = [x \in DOMAIN MapOf(u) |-> MapOf(u)[x]]
  BY MapIs
<1>3. \A e \in Entries(t) : Renamed(f, e).key = f[e.key] /\ Renamed(f, e).value = e.value
                            /\ Renamed(f, e) \in Entries(u)
  BY DEF Renamed
<1>4. DOMAIN MapOf(u) = {f[x] : x \in DOMAIN MapOf(t)}
  BY <1>1, <1>2, <1>3
<1>5. ASSUME NEW k \in {f[x] : x \in DOMAIN MapOf(t)}
      PROVE  MapOf(u)[k] = MapOf(t)[CHOOSE x \in DOMAIN MapOf(t) : f[x] = k]
  <2> DEFINE c == CHOOSE x \in DOMAIN MapOf(t) : f[x] = k
  <2>1. c \in DOMAIN MapOf(t) /\ f[c] = k
    <3>1. \E x \in DOMAIN MapOf(t) : f[x] = k
      OBVIOUS
    <3> QED BY <3>1
  <2> HIDE DEF c
  <2>2. PICK e \in Entries(t) : e.key = c
    BY <1>1, <2>1
  <2>3. MapOf(u)[k] = e.value
    BY <1>2, <1>3, <2>1, <2>2
  <2> QED BY <1>1, <2>2, <2>3 DEF c
<1> QED BY <1>2, <1>4, <1>5

-----------------------------------------------------------------------------
(* The inductive invariant: the table can be probed, and a loop still has  *)
(* before it what it has not met.                                          *)
LoopType == [index : Nat, seen : SUBSET Keys, given : SUBSET Keys, on : BOOLEAN]
AheadOf(t, l) ==
  /\ l.seen \subseteq l.given /\ Tab!KeysOf(t) \subseteq l.given
  /\ \A k \in l.given \ l.seen : \E i \in UsedIn(t) : t[i].key = k /\ i >= l.index
TableInv ==
  /\ \E n \in Sizes : Probable(slots, n)
  /\ Tab!Count(slots) <= MaxKeys
  /\ loop \in LoopType
  /\ loop.on => AheadOf(slots, loop)

LEMMA IdleIs == Tab!Idle \in LoopType /\ ~Tab!Idle.on
BY DEF Tab!Idle, LoopType

LEMMA TableBegins ==
  ASSUME Tab!ConstantsOK, Tab!Init
  PROVE  /\ \E n \in Sizes : Probable(slots, n)
         /\ Entries(slots) = {} /\ Tab!Count(slots) = 0 /\ TableInv
<1> DEFINE n == Tab!Min({s \in Sizes : s >= 0})
<1>1. /\ Sizes \subseteq Nat \ {0} /\ MaxKeys \in Nat /\ NoEntry \notin Entry /\ Sizes # {}
  BY NoEntryIsNone DEF Tab!ConstantsOK
<1>2. n \in Sizes /\ n \in Nat \ {0}
  <2>1. {s \in Sizes : s >= 0} \in SUBSET Nat /\ {s \in Sizes : s >= 0} # {}
    <3>1. \A s \in Sizes : s \in Nat /\ s >= 0
      BY <1>1
    <3>2. PICK s \in Sizes : s >= 0
      BY <1>1, <3>1
    <3> QED BY <3>1, <3>2
  <2>2. n \in {s \in Sizes : s >= 0}
    BY <2>1, MinIs
  <2> QED BY <1>1, <2>2
<1>3. slots = Tab!EmptyTable(n) /\ loop = Tab!Idle
  BY DEF Tab!Init, Tab!CreateN
<1> HIDE DEF n
<1>4. Probable(slots, n) /\ Entries(slots) = {}
  BY <1>1, <1>2, <1>3, EmptyIs
<1>5. Tab!Count(slots) = 0
  <2>1. Tab!Count(slots) = Cardinality(Entries(slots))
    BY <1>1, <1>2, <1>4, Counts DEF Probable
  <2> QED BY <1>4, <2>1, FS_EmptySet
<1> QED BY <1>1, <1>2, <1>3, <1>4, <1>5, IdleIs DEF TableInv

(* A change of the table while no loop runs. *)
LEMMA TableChanges ==
  ASSUME TableInv, ~loop.on, loop' = loop,
         \E m \in Sizes : Probable(slots', m), Tab!Count(slots') <= MaxKeys
  PROVE  TableInv'
BY DEF TableInv

(* One action each: what becomes of the table. *)
LEMMA InsertStep ==
  ASSUME Tab!ConstantsOK, TableInv, NEW k \in Keys, NEW v \in Values,
         k \in Tab!KeysOf(slots) \/ Tab!Count(slots) < MaxKeys,
         slots' = Tab!Put(k, v, Tab!RoomFor(slots))
  PROVE  /\ \E m \in Sizes : Probable(slots', m)
         /\ Tab!Count(slots') <= MaxKeys
         /\ MapOf(slots') = [x \in DOMAIN MapOf(slots) \cup {k} |-> IF x = k THEN v ELSE MapOf(slots)[x]]
<1>1. PICK n \in Sizes : Probable(slots, n)
  BY DEF TableInv
<1>2. Tab!Count(slots) <= MaxKeys /\ n \in Nat \ {0} /\ MaxKeys \in Nat /\ Sizes \subseteq Nat
      /\ NoEntry \notin Entry
  BY NoEntryIsNone DEF TableInv, Tab!ConstantsOK
<1>3. PICK m \in Sizes :
           /\ Probable(slots', m)
           /\ Entries(slots') = {e \in Entries(slots) : e.key # k} \cup {[key |-> k, value |-> v]}
           /\ (\E e \in Entries(slots) : e.key = k) => Tab!Count(slots') = Tab!Count(slots)
           /\ Tab!Count(slots') <= Tab!Count(slots) + 1
  BY <1>1, <1>2, InsertKeeps
<1>4. MapOf(slots') = [x \in DOMAIN MapOf(slots) \cup {k} |-> IF x = k THEN v ELSE MapOf(slots)[x]]
  BY <1>1, <1>3, InsertMaps
<1>5. Tab!Count(slots) \in Nat /\ Tab!Count(slots') \in Nat
  BY <1>1, <1>2, <1>3, Counts DEF Probable
<1>6. k \in Tab!KeysOf(slots) => \E e \in Entries(slots) : e.key = k
  BY KeysOfIs
<1>7. Tab!Count(slots') <= MaxKeys
  BY <1>2, <1>3, <1>5, <1>6
<1> QED BY <1>3, <1>4, <1>7

LEMMA BumpStep ==
  ASSUME Tab!ConstantsOK, TableInv, NEW k \in Keys, NEW v \in Values,
         Tab!Lookup(k, slots) # NoEntry, slots' = Tab!Put(k, v, slots)
  PROVE  /\ \E m \in Sizes : Probable(slots', m)
         /\ Tab!Count(slots') <= MaxKeys
         /\ MapOf(slots') = [x \in DOMAIN MapOf(slots) \cup {k} |-> IF x = k THEN v ELSE MapOf(slots)[x]]
<1>1. PICK n \in Sizes : Probable(slots, n)
  BY DEF TableInv
<1>2. Tab!Count(slots) <= MaxKeys /\ n \in Nat \ {0} /\ Keys \subseteq Nat /\ NoEntry \notin Entry
  BY NoEntryIsNone DEF TableInv, Tab!ConstantsOK
<1>3. \E e \in Entries(slots) : e.key = k
  BY <1>1, <1>2, LookupIs
<1>4. /\ Probable(slots', n)
      /\ Entries(slots') = {e \in Entries(slots) : e.key # k} \cup {[key |-> k, value |-> v]}
      /\ Tab!Count(slots') = Tab!Count(slots)
  BY <1>1, <1>2, <1>3, PutKeeps
<1>5. MapOf(slots') = [x \in DOMAIN MapOf(slots) \cup {k} |-> IF x = k THEN v ELSE MapOf(slots)[x]]
  BY <1>1, <1>4, InsertMaps
<1> QED BY <1>2, <1>4, <1>5

LEMMA DeleteStep ==
  ASSUME Tab!ConstantsOK, TableInv, NEW k \in Keys, slots' = Tab!Remove(k, slots)
  PROVE  /\ \E m \in Sizes : Probable(slots', m)
         /\ Tab!Count(slots') <= MaxKeys
         /\ MapOf(slots') = [x \in DOMAIN MapOf(slots) \ {k} |-> MapOf(slots)[x]]
<1>1. PICK n \in Sizes : Probable(slots, n)
  BY DEF TableInv
<1>2. Tab!Count(slots) <= MaxKeys /\ n \in Nat \ {0} /\ Keys \subseteq Nat /\ NoEntry \notin Entry
      /\ MaxKeys \in Nat
  BY NoEntryIsNone DEF TableInv, Tab!ConstantsOK
<1>3. Probable(slots', n) /\ Entries(slots') = {e \in Entries(slots) : e.key # k}
  BY <1>1, <1>2, RemoveKeeps
<1>4. MapOf(slots') = [x \in DOMAIN MapOf(slots) \ {k} |-> MapOf(slots)[x]]
  BY <1>1, <1>3, RemoveMaps
<1>5. /\ Tab!Count(slots) = Cardinality(Entries(slots)) /\ IsFiniteSet(Entries(slots))
      /\ Tab!Count(slots) \in Nat
  BY <1>1, <1>2, Counts DEF Probable
<1>6. Tab!Count(slots') = Cardinality(Entries(slots')) /\ Tab!Count(slots') \in Nat
  BY <1>2, <1>3, Counts DEF Probable
<1>7. Entries(slots') \subseteq Entries(slots)
  BY <1>3
<1>8. Cardinality(Entries(slots')) <= Cardinality(Entries(slots))
  BY ONLY <1>5, <1>7, FS_Subset
<1>9. Tab!Count(slots') <= MaxKeys
  BY <1>2, <1>5, <1>6, <1>8
<1> QED BY <1>3, <1>4, <1>9

LEMMA MoveStep ==
  ASSUME Tab!ConstantsOK, TableInv, NEW f \in [Keys -> Keys], \A a, b \in Keys : f[a] = f[b] => a = b,
         slots' = Tab!Moved(f, slots)
  PROVE  /\ \E m \in Sizes : Probable(slots', m)
         /\ Tab!Count(slots') <= MaxKeys
         /\ MapOf(slots') = [k \in {f[x] : x \in DOMAIN MapOf(slots)}
                               |-> MapOf(slots)[CHOOSE x \in DOMAIN MapOf(slots) : f[x] = k]]
<1>1. PICK n \in Sizes : Probable(slots, n)
  BY DEF TableInv
<1>2. Tab!Count(slots) <= MaxKeys /\ n \in Nat \ {0} /\ Sizes \subseteq Nat \ {0} /\ MaxKeys \in Nat
      /\ NoEntry \notin Entry
  BY NoEntryIsNone DEF TableInv, Tab!ConstantsOK
<1>3. PICK m \in Sizes : /\ Probable(slots', m)
                         /\ Entries(slots') = {Renamed(f, e) : e \in Entries(slots)}
                         /\ Tab!Count(slots') <= Tab!Count(slots)
  BY <1>1, <1>2, MovedKeeps
<1>4. MapOf(slots') = [k \in {f[x] : x \in DOMAIN MapOf(slots)}
                         |-> MapOf(slots)[CHOOSE x \in DOMAIN MapOf(slots) : f[x] = k]]
  BY <1>1, <1>3, MoveMaps
<1>5. Tab!Count(slots) \in Nat /\ Tab!Count(slots') \in Nat
  BY <1>1, <1>2, <1>3, Counts DEF Probable
<1> QED BY <1>2, <1>3, <1>4, <1>5

(* What the loop deletes leaves before it what it has not met. *)
LEMMA VisitStep ==
  ASSUME Tab!ConstantsOK, TableInv, NEW deletes \in BOOLEAN, Tab!Visit(deletes)
  PROVE  TableInv'
<1> DEFINE l == loop.index   k == slots[l].key
<1>1. PICK n \in Sizes : Probable(slots, n)
  BY DEF TableInv
<1>2. Tab!Count(slots) <= MaxKeys /\ n \in Nat \ {0} /\ Keys \subseteq Nat /\ NoEntry \notin Entry
      /\ MaxKeys \in Nat
  BY NoEntryIsNone DEF TableInv, Tab!ConstantsOK
<1>3. slots \in Table(n) /\ KeysOnce(slots) /\ Tab!Size(slots) = n
  BY <1>1, <1>2, SizeOf DEF Probable
<1>4. /\ loop.on /\ l < n /\ slots[l] # NoEntry
      /\ slots' = IF deletes THEN Tab!Remove(k, slots) ELSE slots
      /\ loop' = [loop EXCEPT !.seen = loop.seen \cup {k}, !.index = IF deletes THEN l ELSE l + 1]
  BY <1>3 DEF Tab!Visit, Tab!AfterDelete
<1>5. loop \in LoopType /\ l \in Nat /\ l \in 0..(n-1) /\ AheadOf(slots, loop)
  BY <1>2, <1>4 DEF TableInv, LoopType
<1>6. l \in UsedIn(slots) /\ k \in Keys /\ k \in Tab!KeysOf(slots)
  <2>1. l \in UsedIn(slots) /\ slots[l] \in Entry
    BY <1>2, <1>3, <1>4, <1>5, EntriesOf
  <2> QED BY <2>1, KeysOfIs DEF Entry, Entries
<1>7. /\ loop'.on /\ loop'.seen = loop.seen \cup {k} /\ loop'.given = loop.given
      /\ loop'.index = (IF deletes THEN l ELSE l + 1)
  BY <1>4, <1>5 DEF LoopType
<1>8. loop' \in LoopType
  <2>1. (IF deletes THEN l ELSE l + 1) \in Nat /\ loop.seen \cup {k} \in SUBSET Keys
    BY <1>5, <1>6 DEF LoopType
  <2> HIDE DEF l, k
  <2> QED BY <1>4, <1>5, <2>1 DEF LoopType
<1> HIDE DEF l, k
<1>9. CASE ~deletes
  <2>1. slots' = slots /\ loop'.index = l + 1
    BY <1>4, <1>7, <1>9
  <2>2. ASSUME NEW q \in loop.given \ (loop.seen \cup {k})
        PROVE  \E i \in UsedIn(slots) : slots[i].key = q /\ i >= l + 1
    <3>1. PICK i \in UsedIn(slots) : slots[i].key = q /\ i >= l
      BY <1>5 DEF AheadOf, l
    <3>2. i # l /\ i \in Nat
      BY <1>2, <1>3, <3>1, <2>2, EntriesOf DEF k
    <3> QED BY <1>5, <3>1, <3>2
  <2>3. AheadOf(slots', loop')
    BY <1>5, <1>6, <1>7, <2>1, <2>2 DEF AheadOf
  <2> QED BY <1>1, <1>2, <1>8, <2>1, <2>3 DEF TableInv
<1>10. CASE deletes
  <2>1. slots' = Tab!Remove(k, slots) /\ loop'.index = l
    BY <1>4, <1>7, <1>10
  <2>2. /\ \E m \in Sizes : Probable(slots', m)
        /\ Tab!Count(slots') <= MaxKeys
    BY <1>6, <2>1, DeleteStep
  <2>3. /\ Without(slots', slots, n, l) /\ Entries(slots') = {e \in Entries(slots) : e.key # k}
    <3>1. slots[l].key = k
      BY DEF k
    <3>2. /\ Entries(Tab!Remove(k, slots)) = {e \in Entries(slots) : e.key # k}
          /\ \A i \in UsedIn(slots) : slots[i].key = k => Without(Tab!Remove(k, slots), slots, n, i)
      BY <1>1, <1>2, <1>6, RemoveKeeps
    <3> QED BY <1>6, <2>1, <3>1, <3>2
  <2>4. ASSUME NEW q \in loop.given \ (loop.seen \cup {k})
        PROVE  \E i \in UsedIn(slots') : slots'[i].key = q /\ i >= l
    <3>1. PICK i \in UsedIn(slots) : slots[i].key = q /\ i >= l
      BY <1>5 DEF AheadOf, l
    <3>2. i # l /\ i \in 0..(n-1)
      BY <1>2, <1>3, <3>1, <2>4, EntriesOf DEF k
    <3>3. PICK x \in UsedIn(slots') : slots'[x] = slots[i] /\ Near(n, l, x) <= Near(n, l, i)
      BY <2>3, <3>2 DEF Without
    <3>4. x \in 0..(n-1)
      BY <1>2, <2>3, EntriesOf DEF Without
    <3>5. x >= l
      BY <1>2, <1>5, <3>1, <3>2, <3>3, <3>4 DEF Near
    <3> QED BY <3>1, <3>3, <3>5
  <2>5. Tab!KeysOf(slots') \subseteq Tab!KeysOf(slots)
    BY <2>3, KeysOfIs
  <2>6. AheadOf(slots', loop')
    BY <1>5, <1>6, <1>7, <2>1, <2>4, <2>5 DEF AheadOf
  <2> QED BY <1>8, <2>2, <2>6 DEF TableInv
<1> QED BY <1>9, <1>10

LEMMA SkipStep ==
  ASSUME Tab!ConstantsOK, TableInv, Tab!Skip
  PROVE  TableInv'
<1> DEFINE l == loop.index
<1>1. PICK n \in Sizes : Probable(slots, n)
  BY DEF TableInv
<1>2. n \in Nat \ {0} /\ NoEntry \notin Entry
  BY NoEntryIsNone DEF Tab!ConstantsOK
<1>3. slots \in Table(n) /\ Tab!Size(slots) = n
  BY <1>1, <1>2, SizeOf DEF Probable
<1>4. /\ loop.on /\ l < n /\ slots[l] = NoEntry /\ slots' = slots
      /\ loop' = [loop EXCEPT !.index = l + 1]
  BY <1>3 DEF Tab!Skip
<1>5. loop \in LoopType /\ l \in Nat /\ AheadOf(slots, loop)
  BY <1>4 DEF TableInv, LoopType
<1>6. loop' \in LoopType /\ loop'.index = l + 1 /\ loop'.seen = loop.seen /\ loop'.given = loop.given
  BY <1>4, <1>5 DEF LoopType
<1> HIDE DEF l
<1>7. ASSUME NEW q \in loop.given \ loop.seen
      PROVE  \E i \in UsedIn(slots) : slots[i].key = q /\ i >= l + 1
  <2>1. PICK i \in UsedIn(slots) : slots[i].key = q /\ i >= l
    BY <1>5 DEF AheadOf, l
  <2>2. i # l /\ i \in Nat
    BY <1>2, <1>3, <1>4, <2>1, EntriesOf
  <2> QED BY <1>5, <2>1, <2>2
<1>8. AheadOf(slots', loop')
  BY <1>4, <1>5, <1>6, <1>7 DEF AheadOf
<1> QED BY <1>4, <1>6, <1>8 DEF TableInv

LEMMA ForEachStep ==
  ASSUME Tab!ConstantsOK, TableInv, Tab!ForEach
  PROVE  TableInv'
<1>1. PICK n \in Sizes : Probable(slots, n)
  BY DEF TableInv
<1>2. n \in Nat \ {0} /\ NoEntry \notin Entry /\ slots \in Table(n)
  BY <1>1, NoEntryIsNone DEF Tab!ConstantsOK, Probable
<1>3. slots' = slots /\ loop' = [index |-> 0, seen |-> {}, given |-> Tab!KeysOf(slots), on |-> TRUE]
  BY DEF Tab!ForEach, Tab!Idle
<1>4. Tab!KeysOf(slots) \subseteq Keys
  BY <1>2, KeysOfIs, EntriesOf DEF Entry
<1>5. loop' \in LoopType
  BY <1>3, <1>4 DEF LoopType
<1>6. \A i \in UsedIn(slots) : i >= 0
  <2>1. UsedIn(slots) \subseteq 0..(n-1)
    BY <1>2, EntriesOf
  <2> QED BY <1>2, <2>1
<1>7. \A k \in Tab!KeysOf(slots) : \E i \in UsedIn(slots) : slots[i].key = k
  BY DEF Tab!KeysOf, UsedIn
<1>8. AheadOf(slots', loop')
  BY <1>3, <1>6, <1>7 DEF AheadOf
<1> QED BY <1>3, <1>5, <1>8 DEF TableInv

LEMMA InjectionIs ==
  ASSUME NEW f \in Tab!Injection(Keys, Keys)
  PROVE  f \in [Keys -> Keys] /\ \A a, b \in Keys : f[a] = f[b] => a = b
BY DEF Tab!Injection, Tab!IsInjective

(* What a step does to the map: nothing, or one of the three operations. *)
MapStep ==
  \/ MapOf(slots') = MapOf(slots)
  \/ \E k \in Keys, v \in Values :
       MapOf(slots') = [x \in DOMAIN MapOf(slots) \cup {k} |-> IF x = k THEN v ELSE MapOf(slots)[x]]
  \/ \E k \in Keys : MapOf(slots') = [x \in DOMAIN MapOf(slots) \ {k} |-> MapOf(slots)[x]]
  \/ \E f \in Tab!Injection(Keys, Keys) :
       MapOf(slots') = [k \in {f[x] : x \in DOMAIN MapOf(slots)}
                          |-> MapOf(slots)[CHOOSE x \in DOMAIN MapOf(slots) : f[x] = k]]

LEMMA TableStep ==
  ASSUME Tab!ConstantsOK, TableInv, [Tab!Next]_(Tab!vars)
  PROVE  TableInv' /\ MapStep
<1>1. ASSUME NEW k \in Keys, NEW v \in Values, Tab!Insert(k, v)
      PROVE  TableInv' /\ MapStep
  <2>1. /\ ~loop.on /\ loop' = loop /\ (k \in Tab!KeysOf(slots) \/ Tab!Count(slots) < MaxKeys)
        /\ slots' = Tab!Put(k, v, Tab!RoomFor(slots))
    BY <1>1 DEF Tab!Insert
  <2>2. /\ \E m \in Sizes : Probable(slots', m)
        /\ Tab!Count(slots') <= MaxKeys
        /\ MapOf(slots') = [x \in DOMAIN MapOf(slots) \cup {k} |-> IF x = k THEN v ELSE MapOf(slots)[x]]
    BY <2>1, InsertStep
  <2>3. TableInv'
    BY <2>1, <2>2, TableChanges
  <2> QED BY <2>2, <2>3 DEF MapStep
<1>2. ASSUME NEW k \in Keys, Tab!Bump(k)
      PROVE  TableInv' /\ MapStep
  <2> DEFINE v == Tab!Lookup(k, slots)
  <2>1. /\ ~loop.on /\ loop' = loop /\ (k \in Tab!KeysOf(slots) \/ Tab!Count(slots) < MaxKeys)
        /\ v = NoEntry => slots' = Tab!Put(k, 1, Tab!RoomFor(slots))
        /\ v # NoEntry => v + 1 \in Values /\ slots' = Tab!Put(k, v + 1, slots)
    BY <1>2 DEF Tab!Bump
  <2>2. 1 \in Values
    BY DEF Tab!ConstantsOK
  <2>3. PICK w \in Values :
          /\ \E m \in Sizes : Probable(slots', m)
          /\ Tab!Count(slots') <= MaxKeys
          /\ MapOf(slots') = [x \in DOMAIN MapOf(slots) \cup {k} |-> IF x = k THEN w ELSE MapOf(slots)[x]]
    <3>1. CASE v = NoEntry
      <4>1. slots' = Tab!Put(k, 1, Tab!RoomFor(slots))
        BY <2>1, <3>1
      <4>2. /\ \E m \in Sizes : Probable(slots', m)
            /\ Tab!Count(slots') <= MaxKeys
            /\ MapOf(slots') = [x \in DOMAIN MapOf(slots) \cup {k} |-> IF x = k THEN 1 ELSE MapOf(slots)[x]]
        BY <2>1, <2>2, <4>1, InsertStep
      <4> QED BY <2>2, <4>2
    <3>2. CASE v # NoEntry
      <4> DEFINE w == v + 1
      <4>1. w \in Values /\ slots' = Tab!Put(k, w, slots)
        BY <2>1, <3>2
      <4> HIDE DEF w
      <4>2. /\ \E m \in Sizes : Probable(slots', m)
            /\ Tab!Count(slots') <= MaxKeys
            /\ MapOf(slots') = [x \in DOMAIN MapOf(slots) \cup {k} |-> IF x = k THEN w ELSE MapOf(slots)[x]]
        BY <3>2, <4>1, BumpStep
      <4> QED BY <4>1, <4>2
    <3> QED BY <3>1, <3>2
  <2>4. TableInv'
    BY <2>1, <2>3, TableChanges
  <2> QED BY <2>3, <2>4 DEF MapStep
<1>3. ASSUME NEW k \in Keys, Tab!Delete(k)
      PROVE  TableInv' /\ MapStep
  <2>1. ~loop.on /\ loop' = loop /\ slots' = Tab!Remove(k, slots)
    BY <1>3 DEF Tab!Delete
  <2>2. /\ \E m \in Sizes : Probable(slots', m)
        /\ Tab!Count(slots') <= MaxKeys
        /\ MapOf(slots') = [x \in DOMAIN MapOf(slots) \ {k} |-> MapOf(slots)[x]]
    BY <2>1, DeleteStep
  <2>3. TableInv'
    BY <2>1, <2>2, TableChanges
  <2> QED BY <2>2, <2>3 DEF MapStep
<1>4. ASSUME NEW f \in Tab!Injection(Keys, Keys), Tab!Move(f)
      PROVE  TableInv' /\ MapStep
  <2>1. ~loop.on /\ loop' = loop /\ slots' = Tab!Moved(f, slots)
    BY <1>4 DEF Tab!Move
  <2>2. f \in [Keys -> Keys] /\ \A a, b \in Keys : f[a] = f[b] => a = b
    BY InjectionIs
  <2>3. /\ \E m \in Sizes : Probable(slots', m)
        /\ Tab!Count(slots') <= MaxKeys
        /\ MapOf(slots') = [k \in {f[x] : x \in DOMAIN MapOf(slots)}
                              |-> MapOf(slots)[CHOOSE x \in DOMAIN MapOf(slots) : f[x] = k]]
    BY <2>1, <2>2, MoveStep
  <2>4. TableInv'
    BY <2>1, <2>3, TableChanges
  <2> QED BY <2>3, <2>4 DEF MapStep
<1>5. ASSUME Tab!ForEach
      PROVE  TableInv' /\ MapStep
  <2>1. slots' = slots
    BY <1>5 DEF Tab!ForEach
  <2> QED BY <1>5, <2>1, ForEachStep DEF MapStep
<1>6. ASSUME Tab!Skip
      PROVE  TableInv' /\ MapStep
  <2>1. slots' = slots
    BY <1>6 DEF Tab!Skip
  <2> QED BY <1>6, <2>1, SkipStep DEF MapStep
<1>7. ASSUME Tab!LoopEnds
      PROVE  TableInv' /\ MapStep
  <2>1. slots' = slots /\ loop' = Tab!Idle
    BY <1>7 DEF Tab!LoopEnds
  <2>2. TableInv'
    BY <2>1, IdleIs DEF TableInv
  <2> QED BY <2>1, <2>2 DEF MapStep
<1>8. ASSUME NEW deletes \in BOOLEAN, Tab!Visit(deletes)
      PROVE  TableInv' /\ MapStep
  <2>1. TableInv'
    BY <1>8, VisitStep
  <2> DEFINE k == slots[loop.index].key
  <2>2. slots' = IF deletes THEN Tab!Remove(k, slots) ELSE slots
    BY <1>8 DEF Tab!Visit
  <2>3. k \in Keys
    <3>1. PICK n \in Sizes : Probable(slots, n)
      BY DEF TableInv
    <3>2. n \in Nat \ {0} /\ NoEntry \notin Entry /\ slots \in Table(n)
      BY <3>1, NoEntryIsNone DEF Tab!ConstantsOK, Probable
    <3>3. loop.index < Tab!Size(slots) /\ slots[loop.index] # NoEntry /\ loop.index \in Nat
      BY <1>8 DEF Tab!Visit, TableInv, LoopType
    <3>4. loop.index \in 0..(n-1)
      BY <3>2, <3>3, SizeOf
    <3>5. slots[loop.index] \in Entry
      BY <3>2, <3>3, <3>4, EntriesOf
    <3> QED BY <3>5 DEF Entry
  <2> HIDE DEF k
  <2>4. CASE deletes
    <3>1. slots' = Tab!Remove(k, slots)
      BY <2>2, <2>4
    <3>2. MapOf(slots') = [x \in DOMAIN MapOf(slots) \ {k} |-> MapOf(slots)[x]]
      BY <2>3, <3>1, DeleteStep
    <3> QED BY <2>1, <2>3, <3>2 DEF MapStep
  <2>5. CASE ~deletes
    <3>1. slots' = slots
      BY <2>2, <2>5
    <3> QED BY <2>1, <3>1 DEF MapStep
  <2> QED BY <2>4, <2>5
<1>9. ASSUME UNCHANGED Tab!vars
      PROVE  TableInv' /\ MapStep
  <2>1. slots' = slots /\ loop' = loop
    BY <1>9 DEF Tab!vars
  <2> QED BY <2>1 DEF TableInv, MapStep
<1> QED BY <1>1, <1>2, <1>3, <1>4, <1>5, <1>6, <1>7, <1>8, <1>9 DEF Tab!Next

LEMMA TableSound ==
  ASSUME Tab!ConstantsOK
  PROVE  Tab!Spec => []TableInv
<1>1. Tab!Init => TableInv
  BY TableBegins
<1>2. TableInv /\ [Tab!Next]_(Tab!vars) => TableInv'
  BY TableStep
<1> QED BY <1>1, <1>2, PTL DEF Tab!Spec

(* Every probe ends: a slot is empty, and no key is in two (iset.c,        *)
(* iisc.c), for any keys, any sizes and any sequence of calls.             *)
THEOREM ProbesAlwaysEnd == Tab!ConstantsOK => (Tab!Spec => []Tab!ProbesEnd)
<1> SUFFICES ASSUME Tab!ConstantsOK
             PROVE  Tab!Spec => []Tab!ProbesEnd
  OBVIOUS
<1>1. TableInv => Tab!ProbesEnd
  <2> SUFFICES ASSUME TableInv
               PROVE  Tab!ProbesEnd
    OBVIOUS
  <2>1. PICK n \in Sizes : Probable(slots, n)
    BY DEF TableInv
  <2>2. n \in Nat \ {0} /\ NoEntry \notin Entry
    BY NoEntryIsNone DEF Tab!ConstantsOK
  <2>3. slots \in Table(n) /\ KeysOnce(slots) /\ (\E i \in 0..(n-1) : slots[i] = NoEntry)
    BY <2>1 DEF Probable
  <2>4. Tab!Count(slots) < n /\ Tab!Size(slots) = n
    BY <2>2, <2>3, SomeHole, SizeOf
  <2>5. Tab!Cardinality(Tab!KeysOf(slots)) = Tab!Count(slots)
    BY <2>2, <2>3, Counts
  <2> QED BY <2>4, <2>5 DEF Tab!ProbesEnd
<1> QED BY <1>1, TableSound, PTL

(* The table is the finite map AbstractTable promises, through every wrap, *)
(* cluster, expansion and move of the keys.                                *)
THEOREM TableIsAMap == Tab!ConstantsOK => (Tab!Spec => Tab!RefinesTable)
<1> SUFFICES ASSUME Tab!ConstantsOK
             PROVE  Tab!Spec => Tab!RefinesTable
  OBVIOUS
<1>1. Tab!Init => Tab!Abstract!Init
  <2> SUFFICES ASSUME Tab!Init
               PROVE  Tab!Abstract!Init
    OBVIOUS
  <2>1. PICK n \in Sizes : Probable(slots, n)
    BY TableBegins
  <2>2. Entries(slots) = {}
    BY TableBegins
  <2>3. DOMAIN MapOf(slots) = {} /\ MapOf(slots) = [k \in DOMAIN MapOf(slots) |-> MapOf(slots)[k]]
    <3>1. /\ DOMAIN MapOf(slots) = {e.key : e \in Entries(slots)}
          /\ MapOf(slots) = [k \in DOMAIN MapOf(slots) |-> MapOf(slots)[k]]
      BY <2>1, MapIs
    <3>2. {e.key : e \in Entries(slots)} = {}
      BY <2>2
    <3> QED BY <3>1, <3>2
  <2>4. MapOf(slots) = [k \in {} |-> 0]
    BY <2>3
  <2> QED BY <2>4, AsMapIs DEF Tab!Abstract!Init
<1>2. TableInv /\ [Tab!Next]_(Tab!vars) => [Tab!Abstract!Next]_(Tab!AsMap)
  <2> SUFFICES ASSUME TableInv, [Tab!Next]_(Tab!vars)
               PROVE  [Tab!Abstract!Next]_(Tab!AsMap)
    OBVIOUS
  <2>1. MapStep
    BY TableStep
  <2>2. Tab!AsMap = MapOf(slots) /\ (Tab!AsMap)' = MapOf(slots')
    BY DEF Tab!AsMap, Tab!Found, MapOf
  <2>3. CASE MapOf(slots') = MapOf(slots)
    BY <2>2, <2>3
  <2>4. ASSUME NEW k \in Keys, NEW v \in Values,
               MapOf(slots') = [x \in DOMAIN MapOf(slots) \cup {k} |-> IF x = k THEN v ELSE MapOf(slots)[x]]
        PROVE  Tab!Abstract!Changes
    <3>1. Tab!Abstract!Insert(k, v)
      BY <2>2, <2>4 DEF Tab!Abstract!Insert
    <3> QED BY <3>1 DEF Tab!Abstract!Changes
  <2>5. ASSUME NEW k \in Keys, MapOf(slots') = [x \in DOMAIN MapOf(slots) \ {k} |-> MapOf(slots)[x]]
        PROVE  Tab!Abstract!Changes
    <3>1. Tab!Abstract!Delete(k)
      BY <2>2, <2>5 DEF Tab!Abstract!Delete, Tab!Abstract!Restrict
    <3> QED BY <3>1 DEF Tab!Abstract!Changes
  <2>6. ASSUME NEW f \in Tab!Injection(Keys, Keys),
               MapOf(slots') = [k \in {f[x] : x \in DOMAIN MapOf(slots)}
                                  |-> MapOf(slots)[CHOOSE x \in DOMAIN MapOf(slots) : f[x] = k]]
        PROVE  Tab!Abstract!Changes
    <3>1. Tab!Abstract!Move(f)
      BY <2>2, <2>6 DEF Tab!Abstract!Move
    <3>2. f \in Tab!Abstract!Injection(Keys, Keys)
      BY DEF Tab!Injection, Tab!IsInjective, Tab!Abstract!Injection, Tab!Abstract!IsInjective
    <3> QED BY <3>1, <3>2 DEF Tab!Abstract!Changes
  <2>7. MapOf(slots') = MapOf(slots) \/ Tab!Abstract!Changes
    BY <2>1, <2>4, <2>5, <2>6 DEF MapStep
  <2> QED BY <2>2, <2>3, <2>7 DEF Tab!Abstract!Next
<1> QED BY <1>1, <1>2, TableSound, PTL DEF Tab!Spec, Tab!RefinesTable, Tab!Abstract!Spec

(* A loop over a table that deletes nothing but what it visits meets every *)
(* key that was there (ISetForEach, ISetDelete).                           *)
THEOREM LoopsMeetAll == Tab!ConstantsOK => (Tab!Spec => []Tab!LoopMeetsAll)
<1> SUFFICES ASSUME Tab!ConstantsOK
             PROVE  Tab!Spec => []Tab!LoopMeetsAll
  OBVIOUS
<1>1. TableInv => Tab!LoopMeetsAll
  <2> SUFFICES ASSUME TableInv, loop.on, loop.index >= Tab!Size(slots)
               PROVE  loop.seen = loop.given
    BY DEF Tab!LoopMeetsAll
  <2>1. PICK n \in Sizes : Probable(slots, n)
    BY DEF TableInv
  <2>2. n \in Nat \ {0} /\ NoEntry \notin Entry /\ slots \in Table(n)
    BY <2>1, NoEntryIsNone DEF Tab!ConstantsOK, Probable
  <2>3. loop.index \in Nat /\ loop.index >= n /\ AheadOf(slots, loop)
    BY <2>2, SizeOf DEF TableInv, LoopType
  <2>4. \A i \in UsedIn(slots) : ~(i >= loop.index)
    <3>1. UsedIn(slots) \subseteq 0..(n-1)
      BY <2>2, EntriesOf
    <3> QED BY <2>2, <2>3, <3>1
  <2> QED BY <2>3, <2>4 DEF AheadOf
<1> QED BY <1>1, TableSound, PTL

(* Such a loop ends, although a deletion steps its index back: each step   *)
(* leaves fewer slots before it or fewer entries.                          *)
THEOREM LoopsAdvance == Tab!ConstantsOK => (Tab!Spec => Tab!LoopAdvances)
<1> SUFFICES ASSUME Tab!ConstantsOK
             PROVE  Tab!Spec => Tab!LoopAdvances
  OBVIOUS
<1>1. TableInv /\ [Tab!Next]_(Tab!vars) => [Tab!Advances]_(Tab!vars)
  <2> SUFFICES ASSUME TableInv, Tab!Next, loop.on, loop'.on
               PROVE  Tab!StepsLeft(slots', loop') < Tab!StepsLeft(slots, loop)
    BY DEF Tab!Advances
  <2>1. PICK n \in Sizes : Probable(slots, n)
    BY DEF TableInv
  <2>2. n \in Nat \ {0} /\ NoEntry \notin Entry /\ Keys \subseteq Nat /\ slots \in Table(n)
        /\ KeysOnce(slots) /\ loop \in LoopType /\ loop.index \in Nat
    BY <2>1, NoEntryIsNone DEF Tab!ConstantsOK, Probable, TableInv, LoopType
  <2>3. Tab!Size(slots) = n /\ Tab!Count(slots) \in Nat
    BY <2>2, SizeOf, Counts
  <2>4. CASE Tab!Skip
    <3>1. slots' = slots /\ loop'.index = loop.index + 1
      BY <2>2, <2>4 DEF Tab!Skip, LoopType
    <3> QED BY <2>2, <2>3, <3>1 DEF Tab!StepsLeft
  <2>5. ASSUME NEW deletes \in BOOLEAN, Tab!Visit(deletes)
        PROVE  Tab!StepsLeft(slots', loop') < Tab!StepsLeft(slots, loop)
    <3>1. /\ loop.index < n /\ slots[loop.index] # NoEntry
          /\ deletes => slots' = Tab!Remove(slots[loop.index].key, slots)
          /\ ~deletes => slots' = slots
          /\ loop' = [loop EXCEPT !.seen = loop.seen \cup {slots[loop.index].key},
                                  !.index = IF deletes THEN loop.index ELSE loop.index + 1]
      BY <2>3, <2>5 DEF Tab!Visit, Tab!AfterDelete
    <3>2. loop'.index = IF deletes THEN loop.index ELSE loop.index + 1
      BY <2>2, <3>1 DEF LoopType
    <3>3. CASE ~deletes
      <4>1. slots' = slots /\ loop'.index = loop.index + 1
        BY <3>1, <3>2, <3>3
      <4> QED BY <2>2, <2>3, <4>1 DEF Tab!StepsLeft
    <3>4. CASE deletes
      <4>1. loop.index \in UsedIn(slots) /\ slots[loop.index].key \in Keys
        <5>1. loop.index \in 0..(n-1)
          BY <2>2, <3>1
        <5>2. loop.index \in UsedIn(slots) /\ slots[loop.index] \in Entry
          BY <2>2, <3>1, <5>1, EntriesOf
        <5> QED BY <5>2 DEF Entry
      <4>2. PICK i \in UsedIn(slots), k \in Keys : slots[i].key = k /\ slots' = Tab!Remove(k, slots)
        BY <3>1, <3>4, <4>1
      <4>3. Probable(slots', n) /\ Tab!Count(slots') = Tab!Count(slots) - 1
        BY <2>1, <2>2, <4>2, RemoveKeeps
      <4>4. Tab!Size(slots') = n /\ loop'.index = loop.index
        BY <2>2, <3>2, <3>4, <4>3, SizeOf DEF Probable
      <4> QED BY <2>2, <2>3, <4>3, <4>4 DEF Tab!StepsLeft
    <3> QED BY <3>3, <3>4
  <2>6. ~Tab!LoopEnds
    BY IdleIs DEF Tab!LoopEnds
  <2> QED BY <2>4, <2>5, <2>6 DEF Tab!Next, Tab!Insert, Tab!Bump, Tab!Delete, Tab!Move, Tab!ForEach
<1> QED BY <1>1, TableSound, PTL DEF Tab!Spec, Tab!LoopAdvances
=============================================================================
