SPECIFICATION Spec
CONSTANTS
  Requests = {"r1", "r2", "r3", "r4"}
  Calls = {"c1"}
  Batch <- BatchOfFour
  Layers = {"roads", "lanes"}
  LayerOf <- TwoLayers
  Tiles = {"t1", "t2"}
  TilesOf <- ShortTiles
  Sources = {"s1", "s2"}
  Provides <- RoadsAndBoth
  Workers = {"w1", "w2"}
  SourceOf <- SourcePerWorker
  InitialSources = {"s1"}
  Authorized = {"s2"}
  FaultyTiles = {}
  Abortable = {"r1"}
  Removable = {"s1", "s2"}
  MayDestroy = TRUE
INVARIANTS
  IInv
  NoDoubleWork
  TilesAccounted
  RequestsEndOnce
  NoMissedJob
  AllOrNothing
PROPERTIES
  EndIsFinal
  ClosedFormIsTheLoop
CHECK_DEADLOCK FALSE
