--------------------------------- MODULE Heap ---------------------------------
(***************************************************************************)
(* The heap of the kernel and that of the libc, which are one algorithm: a *)
(* list of headers, each before its data, the first free one that fits is  *)
(* taken, joined with the free ones after it and split.  They differ in    *)
(* what happens when no header fits (panic, or mmap of more), and free     *)
(* joins in the libc only.                                                 *)
(*                                                                         *)
(* Addresses count from the base, which is aligned.  The data of a header  *)
(* begins after it, or at the next multiple of its alignment.              *)
(***************************************************************************)
EXTENDS Integers, Sequences, SequencesExt

CONSTANTS
  HeaderSize,  \* sizeof(SlowLinkedList)
  SplitAlign,  \* the alignment a split may offer: 16
  Sizes,       \* sizes asked for
  Alignments,  \* alignments the kernel asks for; the libc always asks for SplitAlign
  PageSize,    \* the libc's heap begins with a page and grows by multiples of it
  KernelEnd,   \* where the kernel's heap ends
  MaxEnd       \* bound: the libc's heap does not grow beyond it

VARIABLES
  libc,    \* is this the libc's heap, or the kernel's?
  list,    \* the headers, in the order of their links
  end,     \* alloc_base_size
  blocks,  \* what callers hold: where it begins and how much they asked for
  lost     \* a free did not find its header: the kernel panics, the libc hangs

vars == <<libc, list, end, blocks, lost>>

Header(addr, free, size, align) ==
  [addr |-> addr, free |-> free, size |-> size, align |-> align]
Block(at, size) == [at |-> at, size |-> size]

\* A header and a block take room, and the alignments are multiples of the smaller ones.
Layout ==
  /\ HeaderSize \in Nat \ {0} /\ SplitAlign \in Nat /\ PageSize \in Nat \ {0}
  /\ KernelEnd \in Nat /\ MaxEnd \in Nat
  /\ Sizes \subseteq Nat \ {0} /\ Alignments \subseteq Nat
  /\ \A a, b \in Alignments \cup {SplitAlign} : 1 < a /\ a <= b => b % a = 0

slow_align(addr, align) ==
  IF align > 1 /\ addr % align # 0 THEN addr + (align - (addr % align)) ELSE addr

\* Where the data of a header begins.
Data(h) == slow_align(h.addr + HeaderSize, h.align)

Init ==
  /\ libc \in BOOLEAN
  /\ list = <<Header(0, TRUE, 0, 0)>>
  /\ end = IF libc THEN PageSize ELSE KernelEnd
  /\ blocks = {}
  /\ lost = FALSE

-----------------------------------------------------------------------------
\* next_addr at each header of the search, which adds up what it passes.
NextAddr(hs) ==
  LET at[i \in 1 .. Len(hs) + 1] ==
        IF i = 1 THEN HeaderSize
        ELSE slow_align(at[i - 1], hs[i - 1].align) + hs[i - 1].size + HeaderSize
  IN at

Fits(h, size, align) == h.free /\ h.size >= size /\ h.align >= align

\* Mutant of JoinedSize: over the header of the next in use.
JoinedOverNext(at, next) == next.addr + HeaderSize - at

JoinedSize(at, next) == next.addr - at

\* group_free of header i: the free ones after it go, and its data reaches to the
\* next in use; if there is none it keeps its size.
group_free(hs, i, at) ==
  LET inUse == {j \in i + 1 .. Len(hs) : ~hs[j].free}
      next  == CHOOSE j \in inUse : \A k \in inUse : j <= k
  IN IF inUse = {}
       THEN SubSeq(hs, 1, i)
       ELSE Append(SubSeq(hs, 1, i - 1), [hs[i] EXCEPT !.size = JoinedSize(at, hs[next])])
              \o SubSeq(hs, next, Len(hs))

\* Mutant of Rest: the new header is not paid for.
RestAndHeader(h, size) == h.size - size

\* What a split leaves.
Rest(h, size) == h.size - size - HeaderSize

\* A header in use whose data is longer than size is split if there is room; the
\* difference is unsigned.
Split(hs, i, at, size) ==
  LET excess == hs[i].size - size
      addr   == at + size
      align  == IF (addr + HeaderSize) % SplitAlign = 0 THEN SplitAlign ELSE 0
  IN IF excess \in 0 .. HeaderSize
       THEN hs
       ELSE SubSeq(hs, 1, i - 1)
              \o <<[hs[i] EXCEPT !.size = size], Header(addr, TRUE, Rest(hs[i], size), align)>>
              \o SubSeq(hs, i + 1, Len(hs))

\* The header that fits is taken at address at.
Taken(hs, i, at, size, align) ==
  LET taken == [hs EXCEPT ![i].free = FALSE, ![i].align = align]
  IN Split(IF i < Len(hs) THEN group_free(taken, i, at) ELSE taken, i, at, size)

\* Mutant of Growth: it is not rounded up.
GrowthBySize(size) == size

\* How much more the libc maps for a block that would reach the end: its header, and what
\* its alignment skips, are left out.
Growth(size) == slow_align(size, PageSize)

\* actual_malloc_find_free: the headers, the block and the end after it.
Found(hs, at, till) == [list |-> hs, at |-> at, end |-> till]
find_free(hs, size, align) ==
  LET next    == NextAddr(hs)
      fitting == {i \in DOMAIN hs : Fits(hs[i], size, align)}
      i       == CHOOSE j \in fitting : \A k \in fitting : j <= k
      new     == next[Len(hs) + 1]
      at      == IF fitting # {} THEN slow_align(next[i], align) ELSE slow_align(new, align)
  IN IF fitting # {}
       THEN Found(Taken(hs, i, at, size, align), at, end)
       ELSE Found(Append(hs, Header(new - HeaderSize, FALSE, size, align)), at,
                  IF new + size >= end /\ libc
                    THEN end + Growth(size)
                    ELSE end)

\* The kernel panics when no header fits and the rest of the heap is too short.
OOM(size, align) ==
  /\ ~libc /\ \A i \in DOMAIN list : ~Fits(list[i], size, align)
  /\ NextAddr(list)[Len(list) + 1] + size >= end

malloc(size, align) ==
  LET found == find_free(list, size, align) IN
    /\ ~lost /\ ~OOM(size, align) /\ found.end <= MaxEnd
    /\ list' = found.list
    /\ end' = found.end
    /\ blocks' = blocks \cup {Block(found.at, size)}
    /\ UNCHANGED <<libc, lost>>

\* The headers once header i is freed; the last of the list leaves it.
Freed(hs, i) ==
  LET freed == [hs EXCEPT ![i].free = TRUE] IN
    IF i = Len(hs) THEN SubSeq(hs, 1, i - 1)
    ELSE IF libc THEN group_free(freed, i, Data(hs[i]))
    ELSE freed

\* actual_free looks for the data among all headers.
HeadersOf(hs, at) == {i \in DOMAIN hs : Data(hs[i]) = at}
FirstHeader(hs, at) == CHOOSE i \in HeadersOf(hs, at) : \A j \in HeadersOf(hs, at) : i <= j

free(b) ==
  /\ ~lost
  /\ blocks' = blocks \ {b}
  /\ lost' = (HeadersOf(list, b.at) = {})
  /\ list' = IF lost' THEN list ELSE Freed(list, FirstHeader(list, b.at))
  /\ UNCHANGED <<libc, end>>

\* libc's realloc: malloc, copy and free.
realloc(b, size, align) ==
  LET found == find_free(list, size, align) IN
    /\ libc /\ ~lost /\ HeadersOf(list, b.at) # {} /\ HeadersOf(found.list, b.at) # {}
    /\ found.end <= MaxEnd
    /\ list' = Freed(found.list, FirstHeader(found.list, b.at))
    /\ end' = found.end
    /\ blocks' = (blocks \ {b}) \cup {Block(found.at, size)}
    /\ UNCHANGED <<libc, lost>>

RequestAlignments == IF libc THEN {SplitAlign} ELSE Alignments

Next ==
  \/ \E size \in Sizes, align \in RequestAlignments : malloc(size, align)
  \/ \E b \in blocks : free(b)
  \/ \E b \in blocks, size \in Sizes, align \in RequestAlignments : realloc(b, size, align)

Spec == Init /\ [][Next]_vars

-----------------------------------------------------------------------------
(* Properties *)

\* A block never overlaps one that is in use, however the free ones were split,
\* joined and realigned.
Abstract == INSTANCE Allocator
IsAllocator == Abstract!Spec

\* The headers and what lies behind those in use, where malloc and free write zeros,
\* are in the order of the list and apart.
HeadersApart ==
  \A i \in DOMAIN list : i < Len(list) =>
    (IF list[i].free THEN list[i].addr + HeaderSize ELSE Data(list[i]) + list[i].size)
      <= list[i + 1].addr

\* The sum that the search keeps is the place of the header it looks at.
SearchKnowsPlace == \A i \in DOMAIN list : NextAddr(list)[i] = list[i].addr + HeaderSize

\* free finds the header of every block, which is in use and has the block's size.
BlocksHaveHeaders ==
  /\ ~lost
  /\ \A b \in blocks : \E i \in DOMAIN list :
       ~list[i].free /\ Data(list[i]) = b.at /\ list[i].size >= b.size

\* However headers were split, joined and realigned, no canary is ever overwritten, the
\* search that adds up sizes and the links that free follows agree on where a header is,
\* and every block can be freed.
ListWhole == HeadersApart /\ SearchKnowsPlace /\ BlocksHaveHeaders

\* Sizes for which the libc maps enough: their rounding to pages leaves room for a header,
\* and a block of theirs that ends before a multiple of the alignment may be moved up to it.
RoomToGrow ==
  /\ SplitAlign > 1 /\ HeaderSize % SplitAlign = 0 /\ PageSize % SplitAlign = 0
  /\ HeaderSize <= PageSize
  /\ \A size \in Sizes : /\ size + HeaderSize <= slow_align(size, PageSize)
                         /\ size % SplitAlign \in {0, SplitAlign - 1}

\* A block of the libc ends before the memory does that it has mapped, if RoomToGrow; for
\* other sizes, a multiple of the page or one byte, it does not hold.
BlocksInHeap == libc => \A b \in blocks : b.at + b.size <= end
=============================================================================
