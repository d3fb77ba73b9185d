------------------------------ MODULE MCValidity ------------------------------
EXTENDS ValidityProps
Straight4 == << <<0, 0>>, <<2, 0>>, <<4, 0>> >>
Bent      == << <<0, 0>>, <<2, 0>>, <<2, 2>>, <<0, 2>> >>
Doubled   == << <<0, 1>>, <<0, 3>>, <<0, 3>>, <<2, 3>> >>
FirstTwice == << <<1, 0>>, <<1, 0>>, <<3, 0>> >>
G(name, type, points) == [name |-> name, type |-> type, points |-> points]
SomeCollections == {
  <<G("none", "Line", Straight4)>>,
  <<G("none", "Points", <<<<1, 1>>>>), G("best", "Line", Bent), G("none", "Line", Doubled)>>,
  <<G("best", "Points", Bent), G("best", "Line", FirstTwice)>>,
  <<G("none", "Line", <<<<2, 2>>>>)>>,
  <<>>}
SomeFeature == [f \in {"road"} |-> <<G("none", "Line", Bent), G("best", "Line", Straight4)>>]
SomePositions == (0 .. 3) \X (0 .. 1)
=============================================================================
