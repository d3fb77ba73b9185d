SPECIFICATION ModelSpec
CONSTANTS
  Types = {"Way", "Road", "Sign"}
  Compositions <- SomeCompositions
  Numerals = {1, 2}
  Hash <- LastText
  TilePrefixes <- SomePrefixes
  NewIds <- SomeIds
  AddOns = {"direct", "again", "far", "indirect"}
  AddOnId <- SomeAddOnIds
  Located <- SomeLocated
  MaxFeatures = 3
  Points <- SomePoints
  Capacities = {0, 2}
  Outlines <- SomeOutlines
  Spans <- SomeSpans
  IndexBits = 4
  MaxGeometries = 3
  MaxPoints = 3
  Collections <- SomeCollections
  Feature <- SomeFeature
  FeatureIds = {"road", "lost"}
  Names = {"best"}
  NoName = "none"
  NoId = "noid"
  Positions <- SomePositions
  Offsets = {0, 1, 2, 3, 4, 5}
  RelativeSteps = 2
  Geometries <- SomeGeometries
  PointArgs <- GridPoints
  BoxArgs <- SomeBoxes
  LineArgs <- SomeLineArgs
  Far = 1000
  LatExtent = 32
  Longitudes <- SomeLongitudes
  Latitudes <- SomeLatitudes
  Zooms = {0, 1, 3, 4}
  CoordinateBits = 4
  LayerTypes = {"Features", "SourceData"}
  MapIds <- SomeMaps
  LayerIds = {"Lane"}
  StreamMessages <- SomeMessages
  VersionSize = 1
  HeaderSize = 3
  MaxSent = 3
INVARIANTS
  FeaturesAreFound
  IdsAreWhole
  MergedIsFound
  MergeMakesNoTwins
  ViewsShowTheirBase
  RingsAreClosed
  OffsetsArePartsOfTheLine
  CopiesMeanTheSame
  IntersectsIsSymmetric
  OperatorsAnswerGeometry
  TilesCoverTheirPlace
PROPERTIES
  AppendsAreOwn
  ImplementsMessageChannel
CHECK_DEADLOCK FALSE
