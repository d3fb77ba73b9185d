--------------------------- MODULE MCSimfilGeometry ---------------------------
EXTENDS SimfilGeometryProps
At(x, y) == <<2 * x, 2 * y>>
GridPoints == {At(x, y) : x \in -1 .. 4, y \in -1 .. 4}
Square  == <<At(0, 0), At(4, 0), At(4, 4), At(0, 4), At(0, 0)>>
Hole    == <<At(1, 1), At(3, 1), At(3, 3), At(1, 3)>>
Diamond == <<At(1, -1), At(3, 1), At(1, 3), At(-1, 1)>>
Notched == <<At(0, 0), At(4, 0), At(4, 4), At(2, 1)>>
Slim    == <<At(-1, -1), At(0, -1), At(-1, 4)>>
\* within the diamond
Inner   == <<At(1, 0), At(2, 1), At(1, 2)>>
QueryLines == {<<At(-1, -1), At(1, 1), At(1, 4)>>, <<At(0, 2), At(4, 2)>>, <<At(2, 0), At(2, 0)>>,
          <<At(1, 1), At(2, 2)>>, <<At(4, 0), At(0, 4)>>, <<At(-1, 0), At(0, -1)>>}
SomeGeometries ==
  {[type |-> "LineString", coordinates |-> l] : l \in QueryLines}
  \cup {[type |-> "MultiPoint", coordinates |-> <<At(1, 0), At(3, 0)>>],
        [type |-> "Polygon", coordinates |-> <<Square, Hole>>],
        [type |-> "GeometryCollection", coordinates |->
          <<[type |-> "Polygon", coordinates |-> <<Diamond>>],
            [type |-> "MultiPolygon", coordinates |-> <<<<Notched>>, <<Slim>>, <<Inner>>>>]>>]}
SomeBoxes == {<<At(0, 0), At(2, 2)>>, <<At(4, 4), At(1, 1)>>, <<At(-1, 3), At(4, 4)>>, <<At(1, 1), At(1, 1)>>}
P(x, y) == Value("point", <<At(x, y)>>)
N(n) == [kind |-> "number", number |-> n]
SomeLineArgs == {<<P(0, 1), P(3, 4)>>, <<N(2), N(2), N(4), N(8)>>, <<N(2), N(2), N(4)>>, <<P(3, 3), N(8)>>}
=============================================================================
