SPECIFICATION Spec
CONSTANTS
  Value = {a, b}
  Junk = junk
  Capacity = 4
  Word = 64
  MaxBlock = 3
  Counted = TRUE
  SplitStores = TRUE
INVARIANTS
  TypeOK
  NeverOverwritesStored
PROPERTIES
  RefinesFifo
