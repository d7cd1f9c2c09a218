SPECIFICATION Spec
CONSTANTS
  Programs = {"proxy", "server"}
  F = 2
  Cap = 3
  FramesPerCheck = 2
  Timeout = 1
  Delay = 1
  MaxUnits = 2
  MaxWrites = 1
  MaxReads = 2
  MaxReady = 4
  MaxKicks = 1
CHECK_DEADLOCK FALSE
INVARIANTS
  TypeOK
  OneReadAtEnd
  ReadLoopAlive
  NoFault
  OneTick
  SocketMatchesState
PROPERTIES
  StateNeverRegresses
