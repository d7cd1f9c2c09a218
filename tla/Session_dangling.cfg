SPECIFICATION Spec
CONSTANTS
  Programs = {"server"}
  F = 1
  Cap = 2
  FramesPerCheck = 1
  Timeout = 1
  Delay = 1
  MaxUnits = 2
  MaxWrites = 1
  MaxReads = 2
  MaxReady = 3
  MaxKicks = 1
CHECK_DEADLOCK FALSE
INVARIANT
  TickSafe
