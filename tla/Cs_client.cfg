SPECIFICATION FairSpec
CONSTANTS
  MaxSockets = 3
  Programs = {"log", "token"}
CHECK_DEADLOCK FALSE
INVARIANTS
  TypeOK
  ConnectedEntered
  ConnectedIsCurrent
PROPERTY
  Settles
