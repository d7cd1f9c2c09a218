SPECIFICATION Spec
CONSTANTS
  Thread = {1, 2, 3}
  SameIds = {TRUE, FALSE}
  Ending = {1}
  Quiets = {TRUE, FALSE}
  MaxObjects = 2
  MaxPools = 3
INVARIANTS
  TypeOK
  MutualExclusion
  NeverLeftLocked
  OneOwner
  NoFault
  ClearedHasCache
CHECK_DEADLOCK FALSE
