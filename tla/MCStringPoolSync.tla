---------------------------- MODULE MCStringPoolSync ----------------------------
(***************************************************************************)
(* Small instances of StringPoolSync. Workers, streams and tiles are alike.*)
(***************************************************************************)
EXTENDS StringPoolSync, TLC

\* Each tile has a string of its own, and one that all of them use.
SharedStrings == [t \in Tiles |-> {t, "shared"}]
AllForAll     == [h \in Streams |-> Tiles]

Symmetric == Permutations(Workers) \cup Permutations(Streams) \cup Permutations(Tiles)
=============================================================================
