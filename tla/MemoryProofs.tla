----------------------------- MODULE MemoryProofs -----------------------------
(***************************************************************************)
(* What holds of the memory's structures for any number of levels, indices *)
(* and processes, any number of frames, and any keys, hashes, sizes and    *)
(* alignments. A step is one part's, so what holds of each part holds of   *)
(* all.                                                                    *)
(*                                                                         *)
(* Page tables: PageTablesProofs.                                          *)
(*                                                                         *)
(* Frames: those given away are those whose bit is set, they are the       *)
(* first ones, and everything below the remembered position is among       *)
(* them; so the free bits a scan counts are adjacent.                      *)
(*                                                                         *)
(* Heap and hash table: HeapProofs and HashTableProofs, whose theorems are *)
(* instantiated here.                                                      *)
(***************************************************************************)
EXTENDS Memory, PageTablesProofs

HeapP == INSTANCE HeapProofs
TableP == INSTANCE HashTableProofs

-----------------------------------------------------------------------------
(* Page frames *)

\* What is assumed of the frames.
LEMMA FramesFacts ==
  /\ m_pages \in Nat \ {0} /\ Marked \in 0 .. m_pages
  /\ PerContainer \in Nat \ {0} /\ PageSize \in Nat \ {0}
  /\ Requests \subseteq Nat \ {0}
  BY FramesAssumption DEF Frame!Sized

\* FrameAllocator counts as this module does.
LEMMA CardinalityAlike == \A S : Frame!Cardinality(S) = Cardinality(S)
  BY DEF Frame!Cardinality, Cardinality

\* Every request is nearer to one page's bytes than to a larger block's.
SmallRequests == \A pages \in Requests : Frame!largest_container(pages) = 0

-----------------------------------------------------------------------------
(* Arithmetic of containers *)

LEMMA ContainerStart ==
  ASSUME NEW p \in Nat, NEW c \in Nat \ {0}
  PROVE  (p \div c) * c \in 0 .. p
<1>1. p \div c \in Nat /\ p % c \in 0 .. c - 1
  OBVIOUS
<1>2. p = c * (p \div c) + (p % c)
  OBVIOUS
<1>3. (p \div c) * c = c * (p \div c) /\ c * (p \div c) \in Nat
  BY <1>1
<1> QED BY <1>1, <1>2, <1>3

LEMMA FrameCount == Frame!Bits(0) \in Nat
<1>1. m_pages \div 2^0 \in Nat
  BY FramesFacts
<1> QED BY <1>1, FramesFacts DEF Frame!Bits

-----------------------------------------------------------------------------
(* Free bits above a prefix of set ones *)

\* No free bit of an interval comes before a set one.
SetBelow(S, E, B) == \A i, j \in S .. E : i < j /\ j \in B => i \in B

\* The free bits of an interval are then its last ones.
LEMMA FreeBitsAreLast ==
  ASSUME NEW S \in Nat, NEW E \in Int, NEW B, SetBelow(S, E, B)
  PROVE  LET F == {k \in S .. E : k \notin B}
             n == Cardinality(F)
         IN  n \in Nat /\ F = (E - n + 1) .. E
<1> DEFINE F == {k \in S .. E : k \notin B}
           n == Cardinality(F)
<1>1. F \in SUBSET (S .. E) /\ IsFiniteSet(S .. E)
  BY FS_Interval
<1>2. IsFiniteSet(F) /\ n \in Nat
  BY <1>1, FS_Subset, FS_CardinalityType
<1>3. n <= Cardinality(S .. E)
  BY <1>1, FS_Subset
<1>4. \A k \in Int : F \in SUBSET (k .. E) => n <= Cardinality(k .. E)
  BY FS_Interval, FS_Subset
<1> HIDE DEF n
<1>5. \A k \in Int : Cardinality(k .. E) = IF k > E THEN 0 ELSE E - k + 1
  BY FS_Interval
<1>6. (E - n + 1) .. E \subseteq F
  <2> SUFFICES ASSUME NEW k \in (E - n + 1) .. E, k \notin F PROVE FALSE
    OBVIOUS
  <2>1. CASE k < S
    BY <1>2, <1>3, <1>5, <2>1
  <2>2. CASE k >= S
    <3>1. k \in S .. E /\ k \in B
      BY <1>2, <2>2
    <3>2. F \in SUBSET ((k + 1) .. E)
      BY <3>1 DEF SetBelow
    <3>3. n <= Cardinality((k + 1) .. E)
      BY <1>2, <1>4, <3>2
    <3> QED BY <1>2, <1>5, <3>3
  <2> QED BY <1>2, <2>1, <2>2
<1>7. Cardinality((E - n + 1) .. E) = n
  BY <1>2, <1>5
<1>8. (E - n + 1) .. E = F
  BY <1>2, <1>6, <1>7, FS_Subset DEF n
<1> QED BY <1>2, <1>8 DEF n

-----------------------------------------------------------------------------
(* The inductive invariant *)

End == Frame!Bits(0) - 1

FramesInOrder ==
  /\ last_position \in [Frame!BitmapLevels -> Nat]
  /\ wanted \in Nat
  /\ handed = [f \in Frame!Frames |-> IF f \in bits[0] THEN 1 ELSE 0]
  /\ SetBelow(0, End, bits[0])
  /\ \A f \in Frame!Frames : f < Frame!ScanStart(0) => f \in bits[0]
  /\ Frame!FailsOnlyWhenFull

LEMMA StartFacts == FramesInOrder => Frame!ScanStart(0) \in Nat /\ End \in Int
BY ContainerStart, FrameCount, FramesFacts DEF FramesInOrder, Frame!ScanStart, Frame!BitmapLevels, End

\* What is free where a scan begins is what was never given away.
LEMMA FreeFrames ==
  ASSUME FramesInOrder
  PROVE  {f \in Frame!Frames : handed[f] = 0} = {k \in Frame!ScanStart(0) .. End : k \notin bits[0]}
BY StartFacts, FrameCount DEF FramesInOrder, Frame!Frames, End

\* A scan that stops has counted adjacent bits, the ones it then takes.
LEMMA ScanTakesFreeBits ==
  ASSUME FramesInOrder, NEW span \in Nat \ {0}, Frame!Stops(0, span) # {}
  PROVE  /\ Frame!Stop(0, span) \in Frame!ScanStart(0) .. End
         /\ {k \in Frame!ScanStart(0) .. Frame!Stop(0, span) : k \notin bits[0]}
              = Frame!Span(Frame!Base(0, span), span)
         /\ Frame!Span(Frame!Base(0, span), span) = (Frame!Stop(0, span) - span + 1) .. Frame!Stop(0, span)
<1> DEFINE S == Frame!ScanStart(0)
<1>1. S \in Nat /\ End \in Int
  BY StartFacts
<1>2. ASSUME NEW j \in Frame!Stops(0, span)
      PROVE  /\ j \in S .. End
             /\ {k \in S .. j : k \notin bits[0]} = (j - span + 1) .. j
  <2>1. j \in S .. End /\ Cardinality({k \in S .. j : k \notin bits[0]}) = span
    BY CardinalityAlike DEF Frame!Stops, Frame!Streak, End
  <2>2. j \in Int /\ SetBelow(S, j, bits[0])
    BY <1>1, <2>1 DEF FramesInOrder, SetBelow
  <2> HIDE DEF S
  <2>3. {k \in S .. j : k \notin bits[0]} = (j - span + 1) .. j
    BY <1>1, <2>1, <2>2, FreeBitsAreLast
  <2> QED BY <2>1, <2>3
<1>3. \A j \in Frame!Stops(0, span) : j \notin bits[0]
  <2> TAKE j \in Frame!Stops(0, span)
  <2>1. j \in Int /\ j \in (j - span + 1) .. j
    BY <1>1, <1>2
  <2> QED BY <1>2, <2>1
<1>4. Frame!Stop(0, span) \in Frame!Stops(0, span)
  BY <1>3 DEF Frame!Stop
<1>5. Frame!Stop(0, span) \in Int
  BY <1>1, <1>2, <1>4
<1>6. Frame!Span(Frame!Base(0, span), span) = (Frame!Stop(0, span) - span + 1) .. Frame!Stop(0, span)
  BY <1>5 DEF Frame!Span, Frame!Base
<1> QED BY <1>2, <1>4, <1>6

\* A scan that does not stop has seen too few free frames.
LEMMA ScanFailsWhenFull ==
  ASSUME FramesInOrder, NEW span \in Nat \ {0}, Frame!Stops(0, span) = {}
  PROVE  Cardinality({f \in Frame!Frames : handed[f] = 0}) < span
<1> DEFINE S == Frame!ScanStart(0)
           F == {k \in S .. End : k \notin bits[0]}
           n == Cardinality(F)
           j == End - n + span
<1>1. S \in Nat /\ End \in Int
  BY StartFacts
<1>2. SetBelow(S, End, bits[0])
  BY <1>1 DEF FramesInOrder, SetBelow
<1> HIDE DEF S
<1>3. n \in Nat /\ F = (End - n + 1) .. End
  BY <1>1, <1>2, FreeBitsAreLast
<1> HIDE DEF n
<1>4. SUFFICES ASSUME n >= span PROVE FALSE
  BY <1>3, FreeFrames DEF n, S
<1>5. End - n + 1 \in F
  BY <1>1, <1>3, <1>4
<1>6. j \in S .. End
  BY <1>1, <1>3, <1>4, <1>5
<1>7. {k \in S .. j : k \notin bits[0]} = (End - n + 1) .. j
  BY <1>1, <1>3, <1>5, <1>6
<1>8. Cardinality((End - n + 1) .. j) = span
  <2>1. End - n + 1 \in Int /\ j \in Int /\ End - n + 1 <= j
    BY <1>1, <1>3
  <2>2. \A a, b \in Int : a <= b => Cardinality(a .. b) = b - a + 1
    BY FS_Interval
  <2>3. Cardinality((End - n + 1) .. j) = j - (End - n + 1) + 1
    BY <2>1, <2>2
  <2> QED BY <1>1, <1>3, <2>3
<1>9. j \in Frame!Stops(0, span)
  BY <1>6, <1>7, <1>8, CardinalityAlike DEF Frame!Stops, Frame!Streak, End, S
<1> QED BY <1>9

-----------------------------------------------------------------------------
(* Every step keeps it *)

\* What mark_range reserved are the first frames.
LEMMA FramesInit == Frame!Init => FramesInOrder
<1> SUFFICES ASSUME Frame!Init PROVE FramesInOrder
  OBVIOUS
<1>1. bits[0] = 0 .. Marked - 1 /\ last_position[0] = 0
  BY DEF Frame!Init, Frame!BitmapLevels
<1>2. Frame!ScanStart(0) = 0
  <2>1. (0 \div PerContainer) * PerContainer \in 0 .. 0
    BY ContainerStart, FramesFacts
  <2> QED BY <1>1, <2>1 DEF Frame!ScanStart
<1>3. \A f \in Frame!Frames : f < Marked <=> f \in bits[0]
  BY <1>1, FrameCount, FramesFacts DEF Frame!Frames
<1>4. handed = [f \in Frame!Frames |-> IF f \in bits[0] THEN 1 ELSE 0]
  BY <1>3 DEF Frame!Init
<1>5. SetBelow(0, End, bits[0])
  BY <1>1, FrameCount, FramesFacts DEF SetBelow, End
<1>6. \A f \in Frame!Frames : ~ (f < Frame!ScanStart(0))
  BY <1>2, FrameCount DEF Frame!Frames
<1> QED BY <1>4, <1>5, <1>6 DEF Frame!Init, FramesInOrder, Frame!FailsOnlyWhenFull, Frame!BitmapLevels

\* The new position's container begins at or below the last bit taken.
LEMMA NextStart ==
  ASSUME NEW stop \in Nat
  PROVE  LET p == IF stop % PerContainer = 0 THEN stop ELSE stop - 1
         IN  p \in Nat /\ (p \div PerContainer) * PerContainer \in 0 .. stop
<1> DEFINE p == IF stop % PerContainer = 0 THEN stop ELSE stop - 1
<1>1. 0 % PerContainer = 0
  BY FramesFacts
<1>2. p \in Nat /\ p <= stop
  BY <1>1
<1> HIDE DEF p
<1>3. (p \div PerContainer) * PerContainer \in 0 .. p
  BY <1>2, ContainerStart, FramesFacts
<1> QED BY <1>2, <1>3 DEF p

\* A scan of the frame bitmap that stops, setting no bits but those it takes.
LEMMA TakeKeepsInv ==
  ASSUME FramesInOrder, wanted = 0, NEW span \in Nat \ {0}, Frame!Stops(0, span) # {},
         NEW also, also \subseteq Frame!Span(Frame!Base(0, span), span),
         bits'[0] = bits[0] \cup also \cup Frame!Span(Frame!Base(0, span), span),
         last_position' = [last_position EXCEPT ![0] = Frame!NextPosition(0, span)],
         handed' = [f \in Frame!Frames |->
                      IF f \in Frame!Span(Frame!Base(0, span), span) THEN handed[f] + 1
                                                         ELSE handed[f]],
         wanted' = wanted
  PROVE  FramesInOrder'
<1> DEFINE stop == Frame!Stop(0, span)
           F == Frame!Span(Frame!Base(0, span), span)
           S == Frame!ScanStart(0)
<1>1. S \in Nat /\ End \in Int
  BY StartFacts
<1>2. stop \in S .. End /\ {k \in S .. stop : k \notin bits[0]} = F
  BY ScanTakesFreeBits
<1>3. Frame!NextPosition(0, span) \in Nat /\ Frame!ScanStart(0)' \in 0 .. stop
  <2>1. stop \in Nat
    BY <1>1, <1>2
  <2>2. Frame!NextPosition(0, span) = IF stop % PerContainer = 0 THEN stop ELSE stop - 1
    BY DEF Frame!NextPosition
  <2>3. Frame!ScanStart(0)' = (Frame!NextPosition(0, span) \div PerContainer) * PerContainer
    BY DEF FramesInOrder, Frame!ScanStart, Frame!BitmapLevels
  <2> HIDE DEF stop
  <2> QED BY <2>1, <2>2, <2>3, NextStart
<1>4. bits'[0] = bits[0] \cup F
  OBVIOUS
<1> HIDE DEF stop, F, S
<1>5. last_position' \in [Frame!BitmapLevels -> Nat]
  BY <1>3 DEF FramesInOrder
<1>6. handed' = [f \in Frame!Frames |-> IF f \in bits'[0] THEN 1 ELSE 0]
  <2>1. \A f \in Frame!Frames : f \in F => f \notin bits[0]
    BY <1>2
  <2>2. \A f \in Frame!Frames : handed[f] = IF f \in bits[0] THEN 1 ELSE 0
    BY DEF FramesInOrder
  <2> QED BY <1>4, <2>1, <2>2 DEF F
<1>7. \A f \in 0 .. stop : f \in bits'[0]
  <2> TAKE f \in 0 .. stop
  <2>1. CASE f < S
    BY <1>1, <1>2, <1>4, <2>1, FrameCount DEF FramesInOrder, Frame!Frames, End, S
  <2>2. CASE f >= S
    BY <1>1, <1>2, <1>4, <2>2
  <2> QED BY <1>1, <1>2, <2>1, <2>2
<1>8. SetBelow(0, End, bits'[0])
  <2> SUFFICES ASSUME NEW i \in 0 .. End, NEW j \in 0 .. End, i < j, j \in bits'[0]
               PROVE  i \in bits'[0]
    BY DEF SetBelow
  <2>1. CASE j \in bits[0]
    BY <1>4, <2>1 DEF FramesInOrder, SetBelow
  <2>2. CASE j \in F
    BY <1>1, <1>2, <1>7, <2>2
  <2> QED BY <1>4, <2>1, <2>2
<1>9. \A f \in Frame!Frames : f < Frame!ScanStart(0)' => f \in bits'[0]
  BY <1>1, <1>2, <1>3, <1>7, FrameCount DEF Frame!Frames
<1>10. End' = End /\ Frame!Frames' = Frame!Frames
  BY DEF End, Frame!Frames, Frame!Bits
<1> QED BY <1>5, <1>6, <1>8, <1>9, <1>10 DEF FramesInOrder, Frame!FailsOnlyWhenFull

\* A scan that comes to the end.
LEMMA FramesFail ==
  ASSUME FramesInOrder, NEW span \in Nat \ {0}, Frame!Stops(0, span) = {}, Frame!Fail(span)
  PROVE  FramesInOrder'
<1>1. Cardinality({f \in Frame!Frames : handed[f] = 0}) < span
  BY ScanFailsWhenFull
<1>2. Frame!FailsOnlyWhenFull'
  BY <1>1, CardinalityAlike DEF Frame!Fail, Frame!FailsOnlyWhenFull, Frame!Frames, Frame!Bits
<1> QED BY <1>2 DEF FramesInOrder, Frame!Fail, Frame!Frames, End, Frame!Bits, Frame!ScanStart

LEMMA FramesStep ==
  ASSUME SmallRequests, FramesInOrder, [Frame!Next]_(Frame!vars)
  PROVE  FramesInOrder'
<1>1. CASE Frame!find_free_page
  <2>1. CASE Frame!Stops(0, 1) = {}
    BY <1>1, <2>1, FramesFail DEF Frame!find_free_page
  <2>2. CASE Frame!Stops(0, 1) # {}
    <3>1. /\ wanted = 0
          /\ bits'[0] = bits[0] \cup {} \cup Frame!Span(Frame!Base(0, 1), 1)
          /\ last_position' = [last_position EXCEPT ![0] = Frame!NextPosition(0, 1)]
          /\ handed' = [f \in Frame!Frames |->
                          IF f \in Frame!Span(Frame!Base(0, 1), 1) THEN handed[f] + 1
                                                       ELSE handed[f]]
          /\ wanted' = wanted
      BY <1>1, <2>2 DEF Frame!find_free_page, Frame!Take, Frame!SetWithPage, Frame!BitmapLevels
    <3>2. {} \subseteq Frame!Span(Frame!Base(0, 1), 1) /\ 1 \in Nat \ {0}
      OBVIOUS
    <3> QED BY <2>2, <3>1, <3>2, TakeKeepsInv
  <2> QED BY <2>1, <2>2
<1>2. ASSUME NEW pages \in Requests, Frame!find_free_pages(pages)
      PROVE  FramesInOrder'
  <2>1. Frame!largest_container(pages) = 0 /\ pages \in Nat \ {0} /\ wanted = 0
    BY <1>2, FramesFacts DEF SmallRequests, Frame!find_free_pages
  <2>2. CASE Frame!Stops(0, pages) = {}
    BY <1>2, <2>1, <2>2, FramesFail DEF Frame!find_free_pages
  <2>3. CASE Frame!Stops(0, pages) # {}
    <3> DEFINE also == Frame!SetWithPages(Frame!Base(0, pages), pages, 0)
    <3>1. also \subseteq Frame!Span(Frame!Base(0, pages), pages)
      <4>1. Frame!Stop(0, pages) \in Frame!ScanStart(0) .. End
        BY <2>1, <2>3, ScanTakesFreeBits
      <4>2. Frame!Base(0, pages) \in Int /\ Frame!Base(0, pages) + pages - 1 = Frame!Stop(0, pages)
        BY <2>1, <4>1, StartFacts DEF Frame!Base
      <4>3. Frame!Base(0, pages) >= 0
        <5>1. Frame!Base(0, pages) \in Frame!Span(Frame!Base(0, pages), pages)
          BY <2>1, <4>2 DEF Frame!Span
        <5>2. Frame!Base(0, pages) \in Frame!ScanStart(0) .. Frame!Stop(0, pages)
          BY <2>1, <2>3, <5>1, ScanTakesFreeBits
        <5> QED BY <4>1, <5>2, StartFacts
      <4> QED BY <2>1, <4>2, <4>3 DEF Frame!SetWithPages, Frame!Span
    <3>2. /\ bits'[0] = bits[0] \cup also \cup Frame!Span(Frame!Base(0, pages), pages)
          /\ last_position' = [last_position EXCEPT ![0] = Frame!NextPosition(0, pages)]
          /\ handed' = [f \in Frame!Frames |->
                          IF f \in Frame!Span(Frame!Base(0, pages), pages) THEN handed[f] + 1
                                                               ELSE handed[f]]
          /\ wanted' = wanted
      BY <1>2, <2>1, <2>3 DEF Frame!find_free_pages, Frame!Take, Frame!BitmapLevels
    <3> HIDE DEF also
    <3> QED BY <2>1, <2>3, <3>1, <3>2, TakeKeepsInv
  <2> QED BY <2>2, <2>3
<1>3. CASE UNCHANGED Frame!vars
  BY <1>3 DEF Frame!vars, FramesInOrder, Frame!FailsOnlyWhenFull, Frame!Frames, End, Frame!Bits, Frame!ScanStart
<1> QED BY <1>1, <1>2, <1>3 DEF Frame!Next, Frame!Halt

-----------------------------------------------------------------------------
(* The invariant holds *)

LEMMA FramesInvariant == ASSUME SmallRequests PROVE Frame!Spec => []FramesInOrder
<1>1. FramesInOrder /\ [Frame!Next]_(Frame!vars) => FramesInOrder'
  BY FramesStep
<1> QED BY <1>1, FramesInit, PTL DEF Frame!Spec


-----------------------------------------------------------------------------
(* This heap *)

\* Where the data of a header begins, and what the search adds up.
LEMMA HeapDataAlike ==
  /\ \A addr, align : Heaps!slow_align(addr, align) = HeapP!slow_align(addr, align)
  /\ \A h : Heaps!Data(h) = HeapP!Data(h)
  /\ \A hs : Heaps!NextAddr(hs) = HeapP!NextAddr(hs)
  BY DEF Heaps!slow_align, HeapP!slow_align, Heaps!Data, HeapP!Data, Heaps!NextAddr,
       HeapP!NextAddr

\* Taking a header.
LEMMA HeapTakenAlike ==
  \A hs, i, at, size, align : Heaps!Taken(hs, i, at, size, align) = HeapP!Taken(hs, i, at, size, align)
<1>1. \A hs, i, at : Heaps!group_free(hs, i, at) = HeapP!group_free(hs, i, at)
  BY DEF Heaps!group_free, HeapP!group_free, Heaps!JoinedSize, HeapP!JoinedSize
<1>2. \A hs, i, at, size : Heaps!Split(hs, i, at, size) = HeapP!Split(hs, i, at, size)
  BY DEF Heaps!Split, HeapP!Split, Heaps!Header, HeapP!Header, Heaps!Rest, HeapP!Rest
<1> SUFFICES ASSUME NEW hs, NEW i, NEW at, NEW size, NEW align
               PROVE  Heaps!Taken(hs, i, at, size, align) = HeapP!Taken(hs, i, at, size, align)
  OBVIOUS
<1> DEFINE taken == [hs EXCEPT ![i].free = FALSE, ![i].align = align]
             a == IF i < Len(hs) THEN Heaps!group_free(taken, i, at) ELSE taken
             b == IF i < Len(hs) THEN HeapP!group_free(taken, i, at) ELSE taken
<1>3. a = b
  <2> HIDE DEF taken
  <2> QED BY <1>1
<1>4. Heaps!Taken(hs, i, at, size, align) = Heaps!Split(a, i, at, size) BY Zenon DEF Heaps!Taken
<1>5. HeapP!Taken(hs, i, at, size, align) = HeapP!Split(b, i, at, size) BY Zenon DEF HeapP!Taken
<1> HIDE DEF a, b
<1> QED BY <1>2, <1>3, <1>4, <1>5

\* Freeing one.
LEMMA HeapFreedAlike ==
  /\ \A hs, i : Heaps!Freed(hs, i) = HeapP!Freed(hs, i)
  /\ \A hs, at : Heaps!FirstHeader(hs, at) = HeapP!FirstHeader(hs, at)
  /\ \A hs, at : Heaps!HeadersOf(hs, at) = HeapP!HeadersOf(hs, at)
  BY DEF Heaps!Freed, HeapP!Freed, Heaps!group_free, HeapP!group_free, Heaps!JoinedSize,
       HeapP!JoinedSize, Heaps!FirstHeader, HeapP!FirstHeader, Heaps!HeadersOf, HeapP!HeadersOf,
       Heaps!Data, HeapP!Data, Heaps!slow_align, HeapP!slow_align

\* The search.
LEMMA HeapFoundAlike ==
  \A hs, size, align : Heaps!find_free(hs, size, align) = HeapP!find_free(hs, size, align)
<1> SUFFICES ASSUME NEW hs, NEW size, NEW align
               PROVE  Heaps!find_free(hs, size, align) = HeapP!find_free(hs, size, align)
  OBVIOUS
<1> DEFINE fitting == {i \in DOMAIN hs : Heaps!Fits(hs[i], size, align)}
             i == CHOOSE j \in fitting : \A k \in fitting : j <= k
             at == Heaps!slow_align(Heaps!NextAddr(hs)[i], align)
<1>1. Heaps!Taken(hs, i, at, size, align) = HeapP!Taken(hs, i, at, size, align)
  BY HeapTakenAlike, Zenon
<1>2. CASE fitting # {}
  <2>1. Heaps!find_free(hs, size, align) = Heaps!Found(Heaps!Taken(hs, i, at, size, align), at, end)
    BY <1>2, Zenon DEF Heaps!find_free
  <2>2. HeapP!find_free(hs, size, align) = HeapP!Found(HeapP!Taken(hs, i, at, size, align), at, end)
    BY <1>2, Zenon DEF HeapP!find_free, Heaps!NextAddr, HeapP!NextAddr, Heaps!slow_align,
         HeapP!slow_align, Heaps!Fits, HeapP!Fits
  <2> HIDE DEF i, at
  <2> QED BY <1>1, <2>1, <2>2, Zenon DEF Heaps!Found, HeapP!Found
<1>3. CASE fitting = {}
  <2>1. Heaps!find_free(hs, size, align) =
     LET new == Heaps!NextAddr(hs)[Len(hs) + 1] IN
       Heaps!Found(Append(hs, Heaps!Header(new - HeaderSize, FALSE, size, align)), Heaps!slow_align(new, align),
                IF new + size >= end /\ libc
                  THEN end + Heaps!Growth(size)
                  ELSE end)
    BY <1>3, Zenon DEF Heaps!find_free
  <2>2. HeapP!find_free(hs, size, align) =
     LET new == HeapP!NextAddr(hs)[Len(hs) + 1] IN
       HeapP!Found(Append(hs, HeapP!Header(new - HeaderSize, FALSE, size, align)), HeapP!slow_align(new, align),
                IF new + size >= end /\ libc
                  THEN end + HeapP!Growth(size)
                  ELSE end)
    BY <1>3, Zenon DEF HeapP!find_free, Heaps!Fits, HeapP!Fits
  <2> QED
    BY Zenon, <2>1, <2>2 DEF Heaps!NextAddr, HeapP!NextAddr, Heaps!slow_align, HeapP!slow_align,
         Heaps!Growth, HeapP!Growth, Heaps!Found, HeapP!Found, Heaps!Header, HeapP!Header
<1> QED BY <1>2, <1>3

\* The actions of Heaps are those that HeapProofs is about.
LEMMA HeapStepsAlike == (Heaps!Init <=> HeapP!Init) /\ (Heaps!Next <=> HeapP!Next)
<1>1. Heaps!Init <=> HeapP!Init BY DEF Heaps!Init, HeapP!Init, Heaps!Header, HeapP!Header
<1>2. \A size, align : Heaps!malloc(size, align) <=> HeapP!malloc(size, align)
  <2> SUFFICES ASSUME NEW size, NEW align
               PROVE  Heaps!malloc(size, align) <=> HeapP!malloc(size, align)
    OBVIOUS
  <2>1. Heaps!OOM(size, align) <=> HeapP!OOM(size, align)
    BY Zenon DEF Heaps!OOM, HeapP!OOM, Heaps!Fits, HeapP!Fits, Heaps!NextAddr, HeapP!NextAddr,
         Heaps!slow_align, HeapP!slow_align
  <2>2. Heaps!find_free(list, size, align) = HeapP!find_free(list, size, align)
    BY HeapFoundAlike
  <2> QED BY <2>1, <2>2, Zenon DEF Heaps!malloc, HeapP!malloc, Heaps!Block, HeapP!Block
<1>3. \A b : Heaps!free(b) <=> HeapP!free(b)
  BY HeapFreedAlike, Zenon DEF Heaps!free, HeapP!free
<1>4. \A b, size, align : Heaps!realloc(b, size, align) <=> HeapP!realloc(b, size, align)
  <2> SUFFICES ASSUME NEW b, NEW size, NEW align
               PROVE  Heaps!realloc(b, size, align) <=> HeapP!realloc(b, size, align)
    OBVIOUS
  <2>2. Heaps!find_free(list, size, align) = HeapP!find_free(list, size, align)
    BY HeapFoundAlike
  <2> QED
    BY <2>2, HeapFreedAlike, Zenon DEF Heaps!realloc, HeapP!realloc, Heaps!Block, HeapP!Block
<1> QED
  BY <1>1, <1>2, <1>3, <1>4, Zenon DEF Heaps!Next, HeapP!Next, Heaps!RequestAlignments,
       HeapP!RequestAlignments

\* So what holds of the one heap holds of the other.
LEMMA HeapsAlike == Heaps!Spec => HeapP!Spec
  BY HeapStepsAlike, PTL DEF Heaps!Spec, HeapP!Spec, Heaps!vars, HeapP!vars

\* The headers of this heap stay in order and apart.
LEMMA HeapListWhole == Heaps!Spec => []ListWhole
<1>1. HeapP!Layout BY HeapAssumption DEF Heaps!Layout, HeapP!Layout
<1>2. HeapP!Spec => []HeapP!ListWhole BY <1>1, HeapP!ListStaysWhole
<1>3. ListWhole <=> HeapP!ListWhole
  BY HeapDataAlike DEF ListWhole, Heaps!ListWhole, HeapP!ListWhole, Heaps!HeadersApart,
       HeapP!HeadersApart, Heaps!SearchKnowsPlace, HeapP!SearchKnowsPlace,
       Heaps!BlocksHaveHeaders, HeapP!BlocksHaveHeaders
<1> QED BY <1>2, <1>3, HeapsAlike, PTL

\* This heap implements an allocator.
LEMMA HeapIsAllocator == Heaps!Spec => IsAllocator
<1>1. HeapP!Layout BY HeapAssumption DEF Heaps!Layout, HeapP!Layout
<1>2. HeapP!Spec => HeapP!IsAllocator BY <1>1, HeapP!HeapAllocates
<1>3. HeapP!IsAllocator => IsAllocator
  BY PTL DEF IsAllocator, Heaps!IsAllocator, HeapP!IsAllocator, Heaps!Abstract!Spec,
       HeapP!Abstract!Spec, Heaps!Abstract!Init, HeapP!Abstract!Init, Heaps!Abstract!Next,
       HeapP!Abstract!Next, Heaps!Abstract!Come, HeapP!Abstract!Come, Heaps!Abstract!Allocate,
       HeapP!Abstract!Allocate, Heaps!Abstract!Apart, HeapP!Abstract!Apart, Heaps!Abstract!Free,
       HeapP!Abstract!Free, Heaps!Abstract!Move, HeapP!Abstract!Move
<1> QED BY <1>2, <1>3, HeapsAlike, PTL

-----------------------------------------------------------------------------
(* This table *)

\* The actions of Table are those that HashTableProofs is about.
LEMMA TableStepsAlike == (Table!Init <=> TableP!Init) /\ (Table!Next <=> TableP!Next)
<1>1. Table!Init <=> TableP!Init
  BY DEF Table!Init, Table!Slots, Table!Bucket, TableP!Init, TableP!Slots, TableP!Bucket
<1>2. Table!Next <=> TableP!Next
  BY Zenon DEF Table!RemoveAt, Table!Entry, Table!Bucket, Table!Slots, Table!fib_map,
       Table!Positions, Table!Chain, Table!get, Table!Kept, Table!rehash_all, Table!Added,
       Table!Grows, Table!push, Table!FirstKey, Table!remove, Table!Next, TableP!RemoveAt,
       TableP!Entry, TableP!Bucket, TableP!Slots, TableP!fib_map, TableP!Positions,
       TableP!Chain, TableP!get, TableP!Kept, TableP!rehash_all, TableP!Added, TableP!Grows,
       TableP!push, TableP!FirstKey, TableP!remove, TableP!Next
<1> QED BY <1>1, <1>2

\* So what holds of the one table holds of the other.
LEMMA TablesAlike == Table!Spec => TableP!Spec
  BY TableStepsAlike, PTL DEF Table!Spec, TableP!Spec, Table!vars, TableP!vars

\* This table implements a map.
LEMMA TableImplementsMap == Table!Spec => IsMap
<1>1. TableP!Hashing BY TableAssumption DEF Table!Hashing, TableP!Hashing
<1>2. TableP!Spec => TableP!IsMap BY <1>1, TableP!TableIsMap
<1>3. TableP!IsMap => IsMap
  BY PTL DEF IsMap, Table!IsMap, TableP!IsMap, Table!Abstract!Spec, TableP!Abstract!Spec,
       Table!Abstract!Init, TableP!Abstract!Init, Table!Abstract!Next, TableP!Abstract!Next,
       Table!Abstract!Push, TableP!Abstract!Push, Table!Abstract!Remove, TableP!Abstract!Remove,
       Table!fib_map, Table!Positions, Table!Chain, Table!get, TableP!fib_map, TableP!Positions,
       TableP!Chain, TableP!get
<1> QED BY <1>2, <1>3, TablesAlike, PTL

\* Pointers into this table stay good.
LEMMA TablePointersStay == Table!Spec => PointersStay
<1>1. TableP!Hashing BY TableAssumption DEF Table!Hashing, TableP!Hashing
<1>2. TableP!Spec => TableP!PointersStay BY <1>1, TableP!PointersKept
<1>3. TableP!PointersStay => PointersStay
  BY PTL DEF PointersStay, Table!PointersStay, TableP!PointersStay, Table!vars, Table!fib_map,
       Table!Positions, Table!Chain, Table!get, Table!Place, TableP!vars, TableP!fib_map,
       TableP!Positions, TableP!Chain, TableP!get, TableP!Place
<1> QED BY <1>2, <1>3, TablesAlike, PTL

-----------------------------------------------------------------------------
(* The theorems *)

\* In a behaviour of them all, each of the structures behaves as its module says.
LEMMA EachBehaves ==
  MemorySpec => Spec /\ Frame!Spec /\ Heaps!Spec /\ Table!Spec
<1>1. MemoryInit => Init /\ Frame!Init /\ Heaps!Init /\ Table!Init
  BY DEF MemoryInit
<1>2. [MemoryNext /\ UNCHANGED part]_memoryVars =>
        /\ [Next]_vars /\ [Frame!Next]_(Frame!vars)
        /\ [Heaps!Next]_(Heaps!vars) /\ [Table!Next]_(Table!vars)
  BY DEF MemoryNext, memoryVars, vars, frameVars, heapVars, tableVars, Frame!vars, Heaps!vars, Table!vars
<1> QED BY <1>1, <1>2, PTL DEF MemorySpec, Spec, Frame!Spec, Heaps!Spec, Table!Spec

\* Every directory translates the kernel's pages alike, those too that were mapped through
\* another directory after it was made, and no user may use them: for any number of levels and
\* processes, and wherever create_user, fork, map_page and resolve_cow have made tables.
THEOREM KernelStaysAlike == MemorySpec => []KernelAlike
  BY TablesKeepAlike, DirectoriesAssumption, EachBehaves, PTL

\* The page tables implement separate maps of the processes and one of the kernel: what one
\* process maps, resolves or inherits changes no page of another, and fork leaves both maps
\* alike and unwritable, although it copies some tables and shares others.
THEOREM TablesAreSpaces == MemorySpec => IsSpaces
  BY TablesImplement, DirectoriesAssumption, EachBehaves, PTL

\* PageFrameAllocator gives no frame away twice, as long as every request is small enough to be
\* served from the frame bitmap.
THEOREM NoFrameTwice == SmallRequests => (MemorySpec => []FramesHandedOnce)
<1> SUFFICES ASSUME SmallRequests PROVE MemorySpec => []FramesHandedOnce
  OBVIOUS
<1>1. FramesInOrder => FramesHandedOnce BY DEF FramesInOrder, FramesHandedOnce, Frame!FramesHandedOnce
<1>2. Frame!Spec => []FramesInOrder BY FramesInvariant
<1> QED BY <1>1, <1>2, EachBehaves, PTL

\* It fails only for want of frames: what lies below the position its scans remember has been
\* given away.
THEOREM FailsFull == SmallRequests => (MemorySpec => []FailsOnlyWhenFull)
<1> SUFFICES ASSUME SmallRequests PROVE MemorySpec => []FailsOnlyWhenFull
  OBVIOUS
<1>1. FramesInOrder => FailsOnlyWhenFull BY DEF FramesInOrder, FailsOnlyWhenFull
<1>2. Frame!Spec => []FramesInOrder BY FramesInvariant
<1> QED BY <1>1, <1>2, EachBehaves, PTL

\* malloc, free and realloc implement an allocator: no block is given out over one in use, for
\* any sizes and alignments, however the free headers were split, joined and realigned.
THEOREM HeapAllocates == MemorySpec => IsAllocator
  BY HeapIsAllocator, EachBehaves, PTL

\* No canary is overwritten, the search and the links agree on where each header is, and free
\* finds every block: the list of both heaps stays whole.
THEOREM ListStaysWhole == MemorySpec => []ListWhole
  BY HeapListWhole, EachBehaves, PTL

\* HashTable implements a map: get finds what was pushed and not removed, for any keys and
\* hashes, across removals of first entries and of absent keys, and however the table grows.
THEOREM TableIsMap == MemorySpec => IsMap
  BY TableImplementsMap, EachBehaves, PTL

\* A pointer returned by get stays good until the table grows, its key is removed, or the
\* entry before it was the first of the chain and is removed, for any keys and hashes.
THEOREM PointersKept == MemorySpec => PointersStay
  BY TablePointersStay, EachBehaves, PTL
=============================================================================
