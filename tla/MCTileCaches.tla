----------------------------- MODULE MCTileCaches -----------------------------
(***************************************************************************)
(* Small instances of TileCaches: keys "a", "b", "c", workers "w1", "w2".  *)
(***************************************************************************)
EXTENDS TileCaches
=============================================================================
