SPECIFICATION MemorySpec
CONSTANTS
  m_pages = 14
  Marked = 3
  PerContainer = 4
  Requests = {2, 3, 5}
  PageSize = 12
  HeaderSize = 4
  SplitAlign = 2
  Sizes = {1, 4, 7}
  Alignments = {0, 2, 8}
  KernelEnd = 34
  MaxEnd = 36
  Keys = {1, 2, 3, 4}
  Values = {1}
  Hash <- MCHash
  HashBits = 3
  InitialBits = 0
  MaxBits = 3
  CountWord = 16
  Procs = {1, 2}
  Levels = 3
  Indices = {0, 1}
  Pages = {1}
  MaxTables = 9
  UserPages <- MCUserPages
  KernelPages <- MCKernelPages
  Missing = Missing
  NoEntry = NoEntry
INVARIANTS FramesHandedOnce FailsOnlyWhenFull ListWhole BlocksInHeap KernelAlike
PROPERTIES IsAllocator IsMap PointersStay IsSpaces
CHECK_DEADLOCK FALSE
