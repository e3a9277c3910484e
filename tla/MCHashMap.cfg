SPECIFICATION FairSpec
CONSTANTS
  k1 = k1
  k2 = k2
  k3 = k3
  k4 = k4
  Keys <- MCKeys
  Values = {v1, v2}
  NoKey = NoKey
  NoValue = NoValue
  Hash <- MCHash
  Allocates = TRUE
  ShrinkFloor = 1
  MaxEntries = 8
INVARIANTS
  EveryEntryFound
  InsertionSlotIsFree
PROPERTIES
  ImplementsMap
  RehashTerminates
