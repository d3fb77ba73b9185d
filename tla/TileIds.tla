-------------------------------- MODULE TileIds --------------------------------
(***************************************************************************)
(* Tile ids and the keys of tiles. An id is found for a position on the    *)
(* globe, and from a tile one goes on to its neighbours. The key of a tile *)
(* is sent as a text, e.g. in the answer to a locate request.              *)
(*                                                                         *)
(* Degrees are divided so finely that corners and centers of tiles are     *)
(* integers. An id is the triple of what is packed into 64 bits. A text is *)
(* the sequence of its parts between colons.                               *)
(***************************************************************************)
EXTENDS Integers, Sequences

CONSTANTS
  LatExtent,       \* of all latitudes; there are twice as many longitudes
  Longitudes, Latitudes, Zooms,   \* what fromWgs84() is called with
  CoordinateBits,  \* the width of a row and of a column, 16 in the program
  LayerTypes,      \* the types of layers, among them Features, the first one
  MapIds,          \* the names of maps as texts: more than one part if there is a colon
  LayerIds

\* From level 30 on size() overflows.
ASSUME TileIdsAssumption ==
  /\ LatExtent \in Nat \ {0} /\ CoordinateBits \in Nat \ {0}
  /\ Longitudes \subseteq Int /\ Latitudes \subseteq Int
  /\ Zooms \subseteq 0 .. 29
  /\ \A z \in Zooms : LatExtent % 2^(z + 1) = 0
  /\ "Features" \in LayerTypes

VARIABLES
  position,   \* where the tile was looked for, <<>> once it has been left
  tileId      \* its id

place == <<position, tileId>>

LonExtent == 2 * LatExtent
MaxLon == LatExtent
MaxLat == LatExtent \div 2

\* The remainder and the quotient of C++, which are those of the absolute values.
Rem(a, n) == IF a < 0 THEN -((-a) % n) ELSE a % n
Quo(a, n) == IF a < 0 THEN -((-a) \div n) ELSE a \div n

Coordinate(n) == n % 2^CoordinateBits

Id(x, y, z) == [x |-> Coordinate(x), y |-> Coordinate(y), z |-> z]

NumCols(z) == 2^(z + 1)
NumRows(z) == 2^z

\* Mutation of Row: the row at the south pole is counted twice.
RowOff(lat, z) ==
  LET y    == Rem(Quo((MaxLat - lat) * NumRows(z), LatExtent), 2 * NumRows(z))
      away == IF y < 0 THEN -y ELSE y
  IN  IF away >= NumRows(z) THEN NumRows(z) - (away - NumRows(z)) ELSE away

\* Behind the poles the rows go back; the column stays.
Row(lat, z) ==
  LET y    == Rem(Quo((MaxLat - lat) * NumRows(z), LatExtent), 2 * NumRows(z))
      away == IF y < 0 THEN -y ELSE y
  IN  IF away >= NumRows(z) THEN NumRows(z) - (away - NumRows(z)) - 1 ELSE away

FromWgs84(lon, lat, z) ==
  LET shifted == Rem(lon, LonExtent) + MaxLon
      east    == IF shifted < 0 THEN shifted + LonExtent ELSE shifted
  IN  Id(Rem(Quo(east * NumCols(z), LonExtent), NumCols(z)), Row(lat, z), z)

\* Columns wrap at the antimeridian, rows end at the poles.
NeighborColumn(t, dx) ==
  IF dx = -1 /\ t.x = 0 THEN NumCols(t.z) - 1
  ELSE IF dx = 1 /\ t.x = NumCols(t.z) - 1 THEN 0
  ELSE t.x + dx

NeighborRow(t, dy) ==
  IF (dy = -1 /\ t.y > 0) \/ (dy = 1 /\ t.y < NumRows(t.z) - 1) THEN t.y + dy ELSE t.y

Neighbor(t, dx, dy) == Id(NeighborColumn(t, dx), NeighborRow(t, dy), t.z)

Width(z)  == LonExtent \div NumCols(z)
Height(z) == LatExtent \div NumRows(z)

Center(t) ==
  <<-MaxLon + t.x * Width(t.z) + Width(t.z) \div 2, MaxLat - t.y * Height(t.z) - Height(t.z) \div 2>>
SouthWest(t) == <<-MaxLon + t.x * Width(t.z), MaxLat - (t.y + 1) * Height(t.z)>>
NorthEast(t) == <<-MaxLon + (t.x + 1) * Width(t.z), MaxLat - t.y * Height(t.z)>>

(***************************************************************************)
(* Keys as texts                                                           *)
(***************************************************************************)
KeyOf(layer, map, layerId) == [layer |-> layer, map |-> map, layerId |-> layerId, tile |-> tileId]

Text(k) == <<k.layer>> \o k.map \o <<k.layerId, k.tile>>

\* The type of the layer is taken from the part with the map; a word that is no
\* type is read as the first type. A fourth part that is no number is read as zero.
Parsed(text) ==
  [layer   |-> IF text[2] \in LayerTypes THEN text[2] ELSE "Features",
   map     |-> <<text[2]>>,
   layerId |-> text[3],
   tile    |-> IF Len(text) = 4 THEN text[4] ELSE Id(0, 0, 0)]

(***************************************************************************)
(* Actions                                                                 *)
(***************************************************************************)
PlaceInit ==
  \E lon \in Longitudes, lat \in Latitudes, z \in Zooms :
    position = <<lon, lat>> /\ tileId = FromWgs84(lon, lat, z)

GoTo(dx, dy) ==
  /\ position' = <<>>
  /\ tileId' = Neighbor(tileId, dx, dy)

PlaceNext == \E dx, dy \in -1 .. 1 : GoTo(dx, dy)

PlaceSpec == PlaceInit /\ [][PlaceNext]_place
=============================================================================
