SPECIFICATION FairSpec
CONSTANTS
  MaxProcs = 3
  MaxTicks = 0
  Sleeps = {}
  ReadSizes = {1}
  WriteSizes = {1}
  TtySize = 2
  WordSize = 4
  Calls = {"exit", "fork", "spawn", "waitpid", "kill"}
  HandlerCalls = {}
PROPERTIES WaitersReleased
