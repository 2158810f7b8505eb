SPECIFICATION FairSpec
CONSTANTS
  MaxProcs = 3
  MaxTicks = 3
  Sleeps = {0, 1}
  ReadSizes = {1}
  WriteSizes = {1}
  TtySize = 2
  WordSize = 4
  Calls = {"exit", "fork", "sleep"}
  HandlerCalls = {}
PROPERTIES RunnableRuns SleepersWake
