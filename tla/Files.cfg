SPECIFICATION FilesSpec
CONSTANTS
  Blocks = {1, 2, 3}
  RootFiles = {1, 2}
  SubFiles = {3}
  Names = {n1, n2}
  NoName = NoName
  Direct = 1
  Singly = 2
  Values = {1}
  Garbage = 0
  Copies = 2
  MaxWrite = 2
  Procs = {1, 2}
  Root = 1
  Nodes = {1}
  Tty = 0
  FdLim = 2
  Std = 1
  Stderr = 0
  PtrBytes = 2
  Distinct = 2
  Addresses = {1, 2, 3, 4}
  Offered <- DanglingOrFirst
  MaxCounter = 3
  Word = 3
INVARIANTS BlocksOwnedOnce CompletedWritesSurvive EntriesOwnInodes HandlesApart
PROPERTIES ForkKeepsPositions OpenDescriptorsStay
CHECK_DEADLOCK FALSE
SYMMETRY Alike
