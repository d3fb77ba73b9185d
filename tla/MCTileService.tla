--------------------------- MODULE MCTileService ---------------------------
(***************************************************************************)
(* Small instances of TileService. Requests are "r1", "r2", "r3", the      *)
(* calls "c1", "c2", data sources "s1", "s2", workers "w1", "w2" and tiles *)
(* "t1", "t2", "t3".                                                       *)
(***************************************************************************)
EXTENDS TileServiceLoop, TLC

\* Every request is for the one layer, every source provides it.
OneLayer    == [r \in Requests |-> "roads"]
AllProvide  == [s \in Sources |-> {"roads"}]
\* r3 asks for a layer of its own.
TwoLayers   == [r \in Requests |-> IF r = "r3" THEN "lanes" ELSE "roads"]

\* s1 provides roads, s2 both layers.
RoadsAndBoth == [s \in Sources |-> IF s = "s1" THEN {"roads"} ELSE {"roads", "lanes"}]

\* All workers belong to s1; or w1 to s1 and w2 to s2.
SameSource  == [w \in Workers |-> "s1"]
SourcePerWorker == [w \in Workers |-> IF w = "w1" THEN "s1" ELSE "s2"]

\* One request per call; r3 has no tiles and goes with r1.
BatchPerRequest == [c \in Calls |-> IF c = "c1" THEN <<"r1">> ELSE <<"r2">>]
BatchWithEmpty  == [c \in Calls |-> IF c = "c1" THEN <<"r1", "r3">> ELSE <<"r2">>]
\* All requests in one call, an empty one among them.
BatchOfFour  == [c \in Calls |-> <<"r1", "r4", "r2", "r3">>]
BatchOfOne   == [c \in Calls |-> <<"r1">>]

\* Two requests ask for the same two tiles in opposite order; r3 is empty.
CrossedTiles == [r \in Requests |-> CASE r = "r1" -> <<"t1", "t2">>
                                      [] r = "r2" -> <<"t2", "t1">>
                                      [] r = "r3" -> <<>>]
\* Two requests ask for the same tiles in opposite order, one asks for a tile twice,
\* and one has none.
ShortTiles   == [r \in Requests |-> CASE r = "r1" -> <<"t1", "t2">>
                                      [] r = "r2" -> <<"t2", "t1">>
                                      [] r = "r3" -> <<"t1", "t1">>
                                      [] r = "r4" -> <<>>]
\* r1 needs only t1, r2 needs t2 before it.
FaultTiles   == [r \in Requests |-> CASE r = "r1" -> <<"t1", "t3">>
                                      [] r = "r2" -> <<"t2", "t1">>
                                      [] r = "r3" -> <<>>]
OneTile      == [r \in Requests |-> <<"t1">>]
=============================================================================
