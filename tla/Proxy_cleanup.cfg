SPECIFICATION FairSpec
CONSTANTS
  MaxSessions = 2
  MaxUid = 2
  ServerIds = {"gs1"}
CHECK_DEADLOCK FALSE
PROPERTY
  ClosedIsDestroyed
