------------------------------ MODULE MCTileModel ------------------------------
(***************************************************************************)
(* The parts of the tile model that share no state, each with its small    *)
(* instance. A behaviour is one of a single part; the other parts rest.    *)
(***************************************************************************)
EXTENDS MCFeatureLayer, MCGeometryBuffers, MCValidity, MCSimfilGeometry, MCTileIds,
        MCTileStream

VARIABLE part

Parts == {"features", "buffers", "restriction", "query", "place", "stream"}

Resting(p) ==
  CASE p = "features"    -> Init
    [] p = "buffers"     -> BuffersInit
    [] p = "restriction" -> collection = <<>> /\ validity = Fresh
    [] p = "query"       -> QueryInit
    [] p = "place"       -> position = <<>> /\ tileId = Id(0, 0, 0)
    [] p = "stream"      -> StreamInit

Starting(p) ==
  CASE p = "restriction" -> ValidityInit
    [] p = "place"       -> PlaceInit
    [] OTHER             -> Resting(p)

ModelInit == part \in Parts /\ Starting(part) /\ \A p \in Parts \ {part} : Resting(p)

ModelNext ==
  \/ part = "features" /\ Next /\ UNCHANGED <<part, buffers, restriction, query, place, bytestream>>
  \/ part = "buffers" /\ BuffersNext /\ UNCHANGED <<part, vars, restriction, query, place, bytestream>>
  \/ part = "restriction" /\ ValidityNext /\ UNCHANGED <<part, vars, buffers, query, place, bytestream>>
  \/ part = "query" /\ QueryNext /\ UNCHANGED <<part, vars, buffers, restriction, place, bytestream>>
  \/ part = "place" /\ PlaceNext /\ UNCHANGED <<part, vars, buffers, restriction, query, bytestream>>
  \/ part = "stream" /\ StreamNext /\ UNCHANGED <<part, vars, buffers, restriction, query, place>>

ModelSpec == ModelInit /\ [][ModelNext]_<<part, vars, buffers, restriction, query, place, bytestream>>
=============================================================================
