------------------------------- MODULE MCTileIds -------------------------------
EXTENDS TileIdsProps
SomeLongitudes == {2 * n + (n % 2) : n \in -35 .. 35}
SomeLatitudes == {2 * n + (n % 2) : n \in -55 .. 55}
SomeMaps == {<<"Tropico">>, <<"Isle", "West">>}
=============================================================================
