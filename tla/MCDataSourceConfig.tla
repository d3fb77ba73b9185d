-------------------------- MODULE MCDataSourceConfig --------------------------
(***************************************************************************)
(* Small instances of DataSourceConfig. "c1" is there, the POST "p1" brings *)
(* "c2", editors "c3", "odd", which is no YAML, "bare", which has no        *)
(* sources, or "twin", which names one node id twice.                      *)
(***************************************************************************)
EXTENDS DataSourceConfigProps

Sharing == [c \in Contents |-> CASE c \in {"c1", "c2"} -> {c, "common"}
                                 [] c \in {"odd", "bare"} -> {}
                                 [] OTHER -> {c}]
Bodies == [p \in Posts |-> "c2"]
=============================================================================
