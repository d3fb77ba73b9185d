SPECIFICATION Spec
CONSTANTS
  Keys = {"a", "b", "c"}
  Workers = {"w1", "w2"}
  Limits = {0, 1, 2}
  MaxStrings = 2
  MaxPuts = 4
  MaxStarts = 2
INVARIANTS
  StringsAreStored
  CacheIsLimited
PROPERTIES
  FifoEviction
  ImplementsTileStore
CHECK_DEADLOCK FALSE
