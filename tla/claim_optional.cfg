SPECIFICATION Spec
CONSTANTS
  Types = {"Lane"}
  Compositions <- SomeCompositions
  Numerals = {1, 2}
  Hash <- LastText
  TilePrefixes <- SomePrefixes
  NewIds <- LaneIds
  AddOns = {}
  AddOnId <- SomeAddOnIds
  Located <- SomeLocated
  MaxFeatures = 1
INVARIANTS
  CallsReturn
CHECK_DEADLOCK FALSE
