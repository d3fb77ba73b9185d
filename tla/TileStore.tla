------------------------------- MODULE TileStore -------------------------------
(***************************************************************************)
(* What every Cache promises, and all that TileService assumes of it: a    *)
(* tile that is found was put under its key, and a put may evict others.   *)
(* A restart of the process may bring back any tile that was ever put.     *)
(***************************************************************************)
CONSTANTS Keys, Data

VARIABLES content, \* <<key, data>> of what getTileLayer finds
          ever     \* <<key, data>> of what was ever put

Init == content = {} /\ ever = {}

Put(k, d) ==
  /\ ever' = ever \cup {<<k, d>>}
  /\ content' \subseteq content \cup {<<k, d>>}
  /\ \A e \in content' : e[1] = k => e = <<k, d>>

Restart == content' \subseteq ever /\ ever' = ever

Next == Restart \/ \E k \in Keys, d \in Data : Put(k, d)

Spec == Init /\ [][Next]_<<content, ever>>
=============================================================================
