SPECIFICATION Spec
CONSTANTS
  MaxProcs = 2
  MaxTicks = 1
  Sleeps = {}
  ReadSizes = {1}
  WriteSizes = {1}
  TtySize = 2
  WordSize = 4
  Calls = {"fork", "read", "write"}
  HandlerCalls = {}
INVARIANTS WriteFits
