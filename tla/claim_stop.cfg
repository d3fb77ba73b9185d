SPECIFICATION FairSpec
CONSTANTS
  Requests = {"r1"}
  Calls = {"c1"}
  Batch <- BatchOfOne
  Layers = {"roads"}
  LayerOf <- OneLayer
  Tiles = {"t1"}
  TilesOf <- OneTile
  Sources = {"s1"}
  Provides <- AllProvide
  Workers = {"w1"}
  SourceOf <- SameSource
  InitialSources = {"s1"}
  Authorized = {"s1"}
  FaultyTiles = {}
  Abortable = {}
  Removable = {}
  MayDestroy = TRUE
PROPERTIES
  StopCompletes
CHECK_DEADLOCK FALSE
