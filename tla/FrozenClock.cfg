SPECIFICATION FairSpec
CONSTANTS
  MaxProcs = 2
  MaxTicks = 3
  Sleeps = {2}
  ReadSizes = {1}
  WriteSizes = {1}
  TtySize = 2
  WordSize = 4
  Calls = {"fork", "sleep", "waitpid"}
  HandlerCalls = {}
PROPERTIES SleepersWake
