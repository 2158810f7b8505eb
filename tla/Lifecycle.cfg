SPECIFICATION Spec
CONSTANTS
  MaxProcs = 3
  MaxTicks = 3
  Sleeps = {1}
  ReadSizes = {1}
  WriteSizes = {1}
  TtySize = 2
  WordSize = 4
  Calls = {"exit", "fork", "exec", "sleep", "waitpid", "kill", "fault"}
  HandlerCalls = {}
INVARIANTS TypeOK RingIsOneCycle
PROPERTIES DeadStaysDead WaitsEndForTheirReason ExitCodeKept ReturnsOnItsStack
