------------------------------ MODULE MCTileStream ------------------------------
(* Messages of every type, with values of up to three bytes.               *)
EXTENDS TileStream
Sent(type, size) == [type |-> type, size |-> size, version |-> "current", known |-> TRUE]
SomeMessages ==
  {Sent("StringPool", 2), Sent("TileFeatureLayer", 3), Sent("TileSourceDataLayer", 1),
   Sent("EndOfStream", 0),
   [Sent("TileFeatureLayer", 2) EXCEPT !.known = FALSE],
   [Sent("StringPool", 1) EXCEPT !.version = "other"]}
=============================================================================
