------------------------------ MODULE TileIdsProps ------------------------------
(* What tile ids promise to who looks for a tile or goes on from one.      *)
EXTENDS TileIds

\* The columns and rows of a level have 16 bits. The deeper levels do not work:
\* their columns are taken modulo 2^16.
Fits(z) == NumCols(z) <= 2^CoordinateBits

\* The tile found for a position covers it, with its longitude taken around the
\* globe and its latitude turned back at the poles. The center of this tile, and of
\* every tile one gets to, belongs to the tile. And the steps to the neighbours fit
\* together: across the antimeridian too, the opposite step comes back, while a
\* step across a pole stays in its row.
TilesCoverTheirPlace ==
  Fits(tileId.z) =>
    /\ FromWgs84(Center(tileId)[1], Center(tileId)[2], tileId.z) = tileId
    /\ \A dx, dy \in -1 .. 1 :
         LET pole == tileId.y + dy \notin 0 .. NumRows(tileId.z) - 1
         IN  Neighbor(Neighbor(tileId, dx, dy), -dx, IF pole THEN 0 ELSE -dy) = tileId
    /\ position # <<>> =>
         LET lon  == ((position[1] + MaxLon) % LonExtent) - MaxLon
             turn == (position[2] + MaxLat) % LonExtent
             lat  == (IF turn > LatExtent THEN LonExtent - turn ELSE turn) - MaxLat
         IN  /\ SouthWest(tileId)[1] <= lon /\ lon <= NorthEast(tileId)[1]
             /\ SouthWest(tileId)[2] <= lat /\ lat <= NorthEast(tileId)[2]

\* "Constructor to parse the key from a string, as returned by toString", for the
\* names of maps without a colon: the code does not keep this.
KeysComeBack ==
  \A layer \in LayerTypes, map \in MapIds, layerId \in LayerIds :
    Len(map) = 1 => Parsed(Text(KeyOf(layer, map, layerId))) = KeyOf(layer, map, layerId)
=============================================================================
