SPECIFICATION FairSpec
CONSTANTS
  Requests = {"r1"}
  Calls = {"c1"}
  Batch <- BatchOfOne
  Layers = {"roads"}
  LayerOf <- OneLayer
  Tiles = {"t1"}
  TilesOf <- OneTile
  Sources = {"s1"}
  Provides <- AllProvide
  Workers = {"w1", "w2"}
  SourceOf <- SameSource
  InitialSources = {"s1"}
  Authorized = {"s1"}
  FaultyTiles = {"t1"}
  Abortable = {}
  Removable = {}
  MayDestroy = FALSE
PROPERTIES
  DoneWhenProcessed
