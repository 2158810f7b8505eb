SPECIFICATION Spec
CONSTANTS
  MaxProcs = 3
  MaxTicks = 1
  Sleeps = {}
  ReadSizes = {1}
  WriteSizes = {1, 2}
  TtySize = 4
  WordSize = 16
  Calls = {"fork", "read", "write", "poll", "refused"}
  HandlerCalls = {}
INVARIANTS BlockerMatchesCall TtyWithinBuffer
