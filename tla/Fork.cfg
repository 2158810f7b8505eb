SPECIFICATION Spec
CONSTANTS
  Procs = {p1, p2, p3}
  Root = p1
  PageCount = 2
  ImageSize = 1
  Values = {zero, one}
  Zero = zero
  Unmapped = Unmapped
  MaxFrames = 4
  MaxObjects = 2
  AnyAddress = FALSE
INVARIANTS SharedFramesProtected CountsEveryHolder ReadsWhereWritable
PROPERTIES IsPrivate
CHECK_DEADLOCK FALSE
SYMMETRY Alike
