--------------------------- MODULE MCHttpTilesStream ---------------------------
(***************************************************************************)
(* Small instances of HttpTilesStream: stream "h1" has the requests "r1"   *)
(* and "r2", "h2" has "r3"; both are of the client "k1".                   *)
(***************************************************************************)
EXTENDS HttpTilesStreamProps

TwoAndOne  == [r \in Requests |-> IF r = "r3" THEN "h2" ELSE "h1"]

\* r1 asks for two tiles, r2 for none and r3 for one.
OneEmpty   == [r \in Requests |-> CASE r = "r1" -> 2 [] r = "r2" -> 0 [] r = "r3" -> 1]

SameClient  == [h \in Streams |-> "k1"]
=============================================================================
