SPECIFICATION MCSpec
CONSTANTS
  Scripts <- MCScripts
  InSize = 5
  OutSize = 3
  MaxRuns = 2
  Messages <- MCMessages
  Line <- MCLine
  Prompt <- MCPrompt
  LineEnd = "n"
  BufSize = 3
  Word = 64
  Sector = 4
  Sectors = 3
  Untouched = Untouched
  MaxSize = 9
  MaxWrites = 1
  Tunnels <- MCTunnels
  bat_num = 1
  pit_num = 1
  arrow_num = 2
  Reach = 2
INVARIANTS CommandsAreLines PrintedInOrder BufferHolds TurnsBeginSafe
PROPERTIES TermKeepsGoing CtrlCEndsCommand TransfersExact
CHECK_DEADLOCK FALSE
