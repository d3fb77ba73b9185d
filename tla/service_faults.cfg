SPECIFICATION FairSpec
CONSTANTS
  Requests = {"r1", "r2", "r3"}
  Calls = {"c1", "c2"}
  Batch <- BatchWithEmpty
  Layers = {"roads"}
  LayerOf <- OneLayer
  Tiles = {"t1", "t2", "t3"}
  TilesOf <- FaultTiles
  Sources = {"s1"}
  Provides <- AllProvide
  Workers = {"w1", "w2"}
  SourceOf <- SameSource
  InitialSources = {"s1"}
  Authorized = {"s1"}
  FaultyTiles = {"t2"}
  Abortable = {}
  Removable = {}
  MayDestroy = FALSE
INVARIANTS
  InProgressExplained
PROPERTIES
  HealthyRequestsFinish
