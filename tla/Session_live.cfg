SPECIFICATION FairSpec
CONSTANTS
  Programs = {"proxy", "server"}
  F = 1
  Cap = 1
  FramesPerCheck = 2
  Timeout = 1
  Delay = 1
  MaxUnits = 1
  MaxWrites = 1
  MaxReads = 2
  MaxReady = 3
  MaxKicks = 1
CHECK_DEADLOCK FALSE
PROPERTIES
  SilentPeerDropped
  ErrorCloses
