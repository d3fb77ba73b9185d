SPECIFICATION Spec
CONSTANTS
  Tiles = {t1, t2}
  StringsOf <- SharedStrings
  Workers = {w1, w2}
  Streams = {h1, h2}
  Wanted <- AllForAll
  Nodes = {1, 2}
  MaxFaults = 1
  t1 = t1
  t2 = t2
  w1 = w1
  w2 = w2
  h1 = h1
  h2 = h2
SYMMETRY Symmetric
INVARIANTS
  ReceivedTilesAreReadable
  StoredTilesAreReadable
  OffsetsTell
CHECK_DEADLOCK FALSE
