SPECIFICATION Spec
CONSTANTS
  Readers = {"server", "inner"}
  Capacity = 9
  MaxData = 2
  MaxMsgs = 4
CHECK_DEADLOCK FALSE
INVARIANTS
  TypeOK
  StoredWhole
  TornOnlyIfBlind
