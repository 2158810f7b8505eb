SPECIFICATION Spec
CONSTANTS
  MaxProcs = 2
  MaxTicks = 3
  Sleeps = {1, 2}
  ReadSizes = {1}
  WriteSizes = {1}
  TtySize = 2
  WordSize = 4
  Calls = {"exit", "fork", "waitpid", "sleep", "kill", "signal", "interrupt"}
  HandlerCalls = {"kill", "interrupt"}
INVARIANTS InterruptedContextKept BlockerMatchesCall
PROPERTIES WaitsEndForTheirReason
