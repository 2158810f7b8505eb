--------------------------- MODULE FrameAllocator ---------------------------
(***************************************************************************)
(* PageFrameAllocator and its Bitmaps: page frames are handed out by a     *)
(* scan of a bitmap that starts at a remembered position.  Three further   *)
(* bitmaps, meant for larger blocks, are marked along the way and scanned  *)
(* for requests whose size comes near theirs.  Frames are never given      *)
(* back: nothing calls unmap_page, and Paging::release is compiled out.    *)
(* Bitmap::scan is that of the default build, without OS_SSE4.             *)
(***************************************************************************)
EXTENDS Integers, FiniteSets

CONSTANTS
  Pages,         \* m_pages
  Marked,        \* pages covered by the constructor's caller with mark_range
  PerContainer,  \* s_bits_per_container
  PageSize,      \* PAGE_SIZE
  Requests       \* page counts passed to find_free_pages

\* There are frames, in containers of some bits, and every request is for some pages.
Sized ==
  /\ Pages \in Nat \ {0} /\ Marked \in 0 .. Pages
  /\ PerContainer \in Nat \ {0} /\ PageSize \in Nat \ {0}
  /\ Requests \subseteq Nat \ {0}

BitmapLevels == 0 .. 3

\* Bits in the bitmap of a level: whole containers.
Bits(level) ==
  (((Pages \div 2^level) + PerContainer - 1) \div PerContainer) * PerContainer

Frames == 0 .. Bits(0) - 1

VARIABLES
  bits,           \* per level, the set bits of m_data; may pass the end of it
  last_position,  \* per level, Bitmap::m_last_position
  handed,         \* per frame, how often it was given away
  wanted          \* 0, or the span a failed scan asked for: assert(false)

vars == <<bits, last_position, handed, wanted>>

-----------------------------------------------------------------------------
(* Bitmap::scan *)

ScanStart(level) == (last_position[level] \div PerContainer) * PerContainer

\* streak, when the scan has come to bit j: it is never reset.
Streak(level, j) == Cardinality({k \in ScanStart(level) .. j : k \notin bits[level]})

\* The bits at which streak equals span, and the first of them: the one that
\* made it so.
Stops(level, span) ==
  {j \in ScanStart(level) .. Bits(level) - 1 : Streak(level, j) = span}
Stop(level, span) == CHOOSE j \in Stops(level, span) : j \notin bits[level]

\* Mutant of Base: off by one.
BaseOneBefore(level, span) == Stop(level, span) - span

\* The first of the bits a scan takes.
Base(level, span) == Stop(level, span) - (span - 1)

Span(base, span) == base .. base + span - 1

\* Mutant of NextPosition: the scan starts over in the next container.
NextContainer(level, span) ==
  ((Stop(level, span) \div PerContainer) + 1) * PerContainer

\* The bit before the last one taken, or the container's first.
NextPosition(level, span) ==
  LET stop == Stop(level, span) IN
    IF stop % PerContainer = 0 THEN stop ELSE stop - 1

-----------------------------------------------------------------------------
\* Paging's constructor: an allocator, and one call of mark_range from page 0.
Init ==
  /\ bits = [level \in BitmapLevels |->
               IF level = 0 THEN 0 .. Marked - 1
               ELSE {i \div 2^(level - 1) :
                       i \in {j \in 0 .. Marked - 1 : j % 2^(level - 1) = 0}}]
  /\ last_position = [level \in BitmapLevels |-> 0]
  /\ handed = [f \in Frames |-> IF f < Marked THEN 1 ELSE 0]
  /\ wanted = 0

\* A scan that comes to the end of its bitmap fails an assertion.
Fail(span) == wanted' = span /\ UNCHANGED <<bits, last_position, handed>>

\* A scan of level succeeds; also[l] are the bits of level l set after it.
Take(level, span, also) ==
  LET base == Base(level, span) IN
    /\ bits' = [l \in BitmapLevels |->
                  bits[l] \cup also[l]
                          \cup (IF l = level THEN Span(base, span) ELSE {})]
    /\ last_position' = [last_position EXCEPT ![level] = NextPosition(level, span)]
    /\ handed' = [f \in Frames |->
                    IF f \in Span(base, span) THEN handed[f] + 1 ELSE handed[f]]
    /\ UNCHANGED wanted

\* Mutant of SetWithPage: levels mixed up.
SetOnAllLevels(page, level) == {page + 1}

\* The bits find_free_page sets beside the one its scan took.
SetWithPage(page, level) ==
  IF level > 0 /\ page % 2^(level - 1) = 0 THEN {page \div 2^(level - 1)} ELSE {}

find_free_page ==
  /\ wanted = 0
  /\ IF Stops(0, 1) = {}
       THEN Fail(1)
       ELSE Take(0, 1, [l \in BitmapLevels |-> SetWithPage(Base(0, 1), l)])

\* The level whose block size, in bytes, is nearest to the number of pages.
Distance(level, pages) ==
  LET d == pages - PageSize * (IF level = 0 THEN 1 ELSE 2^(level - 1))
  IN  IF d < 0 THEN -d ELSE d
largest_container(pages) ==
  CHOOSE level \in BitmapLevels :
    \A l \in BitmapLevels : /\ Distance(level, pages) <= Distance(l, pages)
                      /\ l < level => Distance(level, pages) < Distance(l, pages)

\* The bits find_free_pages sets beside those of its scan: its loop runs from
\* the first page to the number of pages.
SetWithPages(start, pages, level) ==
  IF level = 0 THEN start .. pages - 1 ELSE {i \div 2^level : i \in start .. pages - 1}

find_free_pages(pages) ==
  LET container == largest_container(pages) IN
    /\ wanted = 0
    /\ IF Stops(container, pages) = {}
         THEN Fail(pages)
         ELSE Take(container, pages,
                   [l \in BitmapLevels |-> SetWithPages(Base(container, pages), pages, l)])

Halt == wanted # 0 /\ UNCHANGED vars

Next == find_free_page \/ (\E pages \in Requests : find_free_pages(pages)) \/ Halt

Spec == Init /\ [][Next]_vars

-----------------------------------------------------------------------------
(* Properties *)

\* No frame is given away twice, and none that mark_range reserved: the scan,
\* which counts free bits and does not look for adjacent ones, still returns
\* adjacent free bits.
FramesHandedOnce == \A f \in Frames : handed[f] <= 1

\* The scan fails only when there are fewer frames left than it was asked for,
\* although it does not look below the position it remembers.
FailsOnlyWhenFull ==
  wanted > 0 => Cardinality({f \in Frames : handed[f] = 0}) < wanted
=============================================================================
