SPECIFICATION PlaceSpec
CONSTANTS
  LatExtent = 32
  Longitudes <- SomeLongitudes
  Latitudes <- SomeLatitudes
  Zooms = {0, 1}
  CoordinateBits = 4
  LayerTypes = {"Features", "SourceData"}
  MapIds <- SomeMaps
  LayerIds = {"Lane"}
INVARIANTS
  KeysComeBack
CHECK_DEADLOCK FALSE
