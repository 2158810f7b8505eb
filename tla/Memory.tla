-------------------------------- MODULE Memory --------------------------------
(***************************************************************************)
(* The structures that the kernel's memory rests on: page tables, the      *)
(* allocator of page frames, the heap and the hash table.  They are used   *)
(* one inside the other, but none knows of another's state: a behaviour is *)
(* one of theirs, while the others stay as they are.                       *)
(***************************************************************************)
EXTENDS PageTables

CONSTANTS
  m_pages, Marked, PerContainer, Requests,                       \* of FrameAllocator
  PageSize,
  HeaderSize, SplitAlign, Sizes, Alignments, KernelEnd, MaxEnd,  \* of Heap
  Keys, Values, Missing, Hash, HashBits, InitialBits, MaxBits, CountWord  \* of HashTable

VARIABLES
  part,                                 \* the one that is at work
  bits, last_position, handed, wanted,  \* of FrameAllocator
  libc, list, end, blocks, lost,        \* of Heap
  m_container_bits, m_buckets, m_true_no  \* of HashTable

Frame == INSTANCE FrameAllocator WITH Pages <- m_pages
Heaps == INSTANCE Heap
Table == INSTANCE HashTable

ASSUME DirectoriesAssumption == Directories
ASSUME FramesAssumption == Frame!Sized
ASSUME HeapAssumption == Heaps!Layout
ASSUME TableAssumption == Table!Hashing

frameVars == <<bits, last_position, handed, wanted>>
heapVars == <<libc, list, end, blocks, lost>>
tableVars == <<m_container_bits, m_buckets, m_true_no>>

MemoryInit ==
  /\ Init /\ Frame!Init /\ Heaps!Init /\ Table!Init
  /\ part \in {"frames", "heap", "table", "space"}
  /\ libc => part = "heap"

MemoryNext ==
  \/ part = "frames" /\ Frame!Next /\ UNCHANGED <<vars, heapVars, tableVars>>
  \/ part = "heap" /\ Heaps!Next /\ UNCHANGED <<vars, frameVars, tableVars>>
  \/ part = "table" /\ Table!Next /\ UNCHANGED <<vars, frameVars, heapVars>>
  \/ part = "space" /\ Next /\ UNCHANGED <<frameVars, heapVars, tableVars>>

memoryVars == <<vars, part, frameVars, heapVars, tableVars>>

MemorySpec == MemoryInit /\ [][MemoryNext /\ UNCHANGED part]_memoryVars

-----------------------------------------------------------------------------
(* Properties, as FrameAllocator, Heap and HashTable state them *)

\* No frame is given away twice, and none that mark_range reserved.
FramesHandedOnce == Frame!FramesHandedOnce

\* find_free_page and find_free_pages fail only when there are too few frames left.
FailsOnlyWhenFull == Frame!FailsOnlyWhenFull

\* malloc, free and realloc never give out a block over one in use.
IsAllocator == Heaps!IsAllocator

\* No canary is overwritten, and free finds the header of every block.
ListWhole == Heaps!ListWhole

\* A block of the libc lies in the memory that its heap has mapped.
BlocksInHeap == Heaps!BlocksInHeap

\* get of a HashTable finds what was pushed and not removed, and nothing else.
IsMap == Table!IsMap

\* A pointer that get returned stays good until one of the events that may move its entry.
PointersStay == Table!PointersStay
=============================================================================
