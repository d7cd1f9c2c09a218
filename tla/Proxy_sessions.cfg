SPECIFICATION Spec
CONSTANTS
  MaxSessions = 3
  MaxUid = 3
  ServerIds = {"gs1"}
CHECK_DEADLOCK FALSE
INVARIANTS
  TypeOK
  ServersHaveServerLogic
  LogicOwned
  PromotedAsked
