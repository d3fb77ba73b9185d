---------------------------- MODULE StringPoolSync ----------------------------
(***************************************************************************)
(* How the strings of a tile reach its readers. A data source server keeps *)
(* one pool of strings and refers to them by id. The service asks it for a *)
(* tile with the offset up to which it has stored the pool, and gets the   *)
(* strings beyond with the tile (datasource-server.cpp, RemoteDataSource), *)
(* stores both in its cache (cache.cpp) and streams both to its clients,   *)
(* which told it their own offset (http-service.cpp, http-client.cpp).     *)
(* Writer and Reader of stream.cpp are at every end. The service may crash *)
(* and restart from its persistent cache.                                  *)
(*                                                                         *)
(* A pool is a set of <<id, string>>; a tile carries the ids it uses, with *)
(* the string each of them stands for where the tile was filled, so that   *)
(* the properties can tell what a reader makes of them.                    *)
(***************************************************************************)
EXTENDS Integers, Sequences, FiniteSets, FiniteSetsExt, Functions

CONSTANTS
  Tiles,
  StringsOf,    \* StringsOf[t]: the strings that the features of t need
  Workers,      \* the workers of the remote data source
  Streams,      \* the /tiles requests of one client
  Wanted,       \* Wanted[h]: the tiles of stream h
  Nodes,        \* the node ids the data source may have, one after the other
  MaxFaults     \* bound: crashes of the service and fetches that fail, together

ASSUME SyncAssumption ==
  /\ Wanted \in [Streams -> SUBSET Tiles]
  /\ \A t \in Tiles : IsFiniteSet(StringsOf[t])
  /\ Nodes \subseteq Nat /\ 1 \in Nodes
  /\ MaxFaults \in Nat

VARIABLES
  source,   \* the server: its node id and its pool
  info,     \* the node id in info_ of the RemoteDataSource
  pools,    \* stringPoolPerNodeId_ of the cache
  offsets,  \* stringPoolOffsets_ of the cache
  blobs,    \* the string pools in the cache database
  stored,   \* the tiles in the cache database
  worker,   \* what each worker is doing, for which tile and stream
  known,    \* the pools of the client
  stream,   \* the messages of each /tiles response that are under way
  written,  \* stringOffsets_ of each response, or Closed
  sent,     \* the tiles that each response has brought so far
  faults

serviceVars == <<info, pools, offsets, blobs, stored, worker>>
clientVars  == <<known, stream, written, sent>>
vars == <<source, serviceVars, clientVars, faults>>

Idle   == [at |-> "idle"]
Closed == <<>>
NoOffsets == [n \in Nodes |-> 0]

IdsOf(pool)   == {e[1] : e \in pool}
Highest(pool) == IF pool = {} THEN 0 ELSE Max(IdsOf(pool))

\* StringPool::read, which keeps what it knows (simfil).
Merged(pool, update) ==
  pool \cup {e \in update : \A f \in pool : f[1] # e[1] /\ f[2] # e[2]}

\* Writer::write: the strings from offset + 1 on, nothing if there are none.
Update(pool, offset) == {e \in pool : e[1] > offset}

StringsMsg(node, update) == [type |-> "strings", node |-> node, strings |-> update]
TileMsg(t) == [type |-> "tile", node |-> t.node, tile |-> t.tile, uses |-> t.uses]

\* putTileLayer holds stringPoolOffsetMutex_ from its first write to its last.
OffsetMutexFree == \A w \in Workers : worker[w].at # "storing"

----------------------------------------------------------------------------
(* The data source                                                         *)

\* A worker asks for a tile that is not stored, nor in progress elsewhere.
RequestTile(w, h, t) ==
  /\ worker[w] = Idle
  /\ t \in Wanted[h] /\ written[h] # Closed
  /\ t \notin sent[h]
  /\ \A e \in stored : e.tile # t
  /\ \A v \in Workers : worker[v].at # "idle" => worker[v].tile # t
  /\ OffsetMutexFree
  /\ worker' = [worker EXCEPT ![w] = [at |-> "asked", tile |-> t, stream |-> h,
                                      offset |-> offsets[info]]]
  /\ UNCHANGED <<source, info, pools, offsets, blobs, stored, clientVars, faults>>

\* The server fills the tile: strings it has not seen get the next ids.
FillTile(w) ==
  /\ worker[w].at = "asked"
  /\ LET new == StringsOf[worker[w].tile] \ {e[2] : e \in source.pool}
         top == Highest(source.pool)
     IN  \E id \in Bijection(new, (top + 1)..(top + Cardinality(new))) :
           source' = [source EXCEPT !.pool = @ \cup {<<id[s], s>> : s \in new}]
  /\ worker' = [worker EXCEPT ![w] =
       [at |-> "filled", tile |-> @.tile, stream |-> @.stream, offset |-> @.offset,
        node |-> source.node,
        uses |-> {e \in source'.pool : e[2] \in StringsOf[@.tile]}]]
  /\ UNCHANGED <<info, pools, offsets, blobs, stored, clientVars, faults>>

\* The server writes the answer and the worker reads it: first the strings
\* beyond the offset, into the pool of that node, then the tile.
ReceiveTile(w) ==
  LET n == worker[w].node
  IN  /\ worker[w].at = "filled"
      /\ pools' = [pools EXCEPT ![n] =
                     Merged(@, Update(source.pool, worker[w].offset))]
      /\ worker' = [worker EXCEPT ![w] = [at |-> "received", tile |-> @.tile,
                       stream |-> @.stream, node |-> n, uses |-> @.uses]]
      /\ UNCHANGED <<source, info, offsets, blobs, stored, clientVars, faults>>

\* Without a good answer the worker gets a tile with an error, and no strings.
ErrorTile(doing) == [at |-> "received", tile |-> doing.tile, stream |-> doing.stream,
                     node |-> info, uses |-> {}]

FailTile(w) ==
  /\ faults < MaxFaults
  /\ faults' = faults + 1
  /\ worker[w].at = "asked"
  /\ worker' = [worker EXCEPT ![w] = ErrorTile(@)]
  /\ UNCHANGED <<source, info, pools, offsets, blobs, stored, clientVars>>

----------------------------------------------------------------------------
(* The cache                                                               *)

\* Mutation of StoredPool: the cache stores differences too.
StoredUpdate(n) == Update(pools[n], offsets[n])

\* differentialStringUpdates = false: the cache stores the full pool.
StoredPool(n) == pools[n]

\* putTileLayer: the pool is stored if it has grown since it was last stored ...
PutStrings(w) ==
  LET n == worker[w].node
  IN  /\ worker[w].at = "received"
      /\ OffsetMutexFree
      /\ IF offsets[n] < Highest(pools[n])
         THEN /\ blobs' = [blobs EXCEPT ![n] = StoredPool(n)]
              /\ offsets' = [offsets EXCEPT ![n] = Highest(pools[n])]
         ELSE UNCHANGED <<blobs, offsets>>
      /\ worker' = [worker EXCEPT ![w].at = "storing"]
      /\ UNCHANGED <<source, info, pools, stored, clientVars, faults>>

\* ... then the tile, which may evict others.
PutTile(w) ==
  LET t == [tile |-> worker[w].tile, node |-> worker[w].node, uses |-> worker[w].uses]
  IN  /\ worker[w].at = "storing"
      /\ \E kept \in SUBSET stored : stored' = kept \cup {t}
      /\ worker' = [worker EXCEPT ![w].at = "stored"]
      /\ UNCHANGED <<source, info, pools, offsets, blobs, clientVars, faults>>

----------------------------------------------------------------------------
(* The /tiles responses                                                    *)

\* Mutation of OwnOffset: the client tells the id of the next string.
NextOffset(n) == Highest(known[n]) + 1

OwnOffset(n) == Highest(known[n])

\* The client posts a request with the offsets of its own pools.
OpenStream(h) ==
  /\ written[h] = Closed
  /\ sent[h] = {}
  /\ written' = [written EXCEPT ![h] = [n \in Nodes |-> OwnOffset(n)]]
  /\ UNCHANGED <<source, serviceVars, known, stream, sent, faults>>

\* Mutation of Messages: the strings follow the tile.
TileFirst(strings, tile) == <<tile>> \o strings

Messages(strings, tile) == strings \o <<tile>>

\* The writer of stream h writes tile t, its strings first if there are more
\* than the client has or was sent.
WriteTile(h, t) ==
  LET n == t.node
      top == Highest(pools[n])
      update == IF written[h][n] < top
                THEN <<StringsMsg(n, Update(pools[n], written[h][n]))>> ELSE <<>>
  IN  /\ stream' = [stream EXCEPT ![h] = @ \o Messages(update, TileMsg(t))]
      /\ written' = [written EXCEPT ![h][n] = IF top > @ THEN top ELSE @]
      /\ sent' = [sent EXCEPT ![h] = @ \cup {t.tile}]
      /\ UNCHANGED known

\* The worker hands in its result.
DeliverTile(w) ==
  /\ worker[w].at = "stored"
  /\ worker' = [worker EXCEPT ![w] = Idle]
  /\ IF written[worker[w].stream] = Closed THEN UNCHANGED clientVars
     ELSE WriteTile(worker[w].stream, [tile |-> worker[w].tile,
                                       node |-> worker[w].node, uses |-> worker[w].uses])
  /\ UNCHANGED <<source, info, pools, offsets, blobs, stored, faults>>

\* A stored tile is read with the pool of its node and handed in.
ServeStored(h, t) ==
  /\ t \in stored
  /\ t.tile \in Wanted[h] \ sent[h] /\ written[h] # Closed
  /\ \A w \in Workers : worker[w].at # "idle" => worker[w].tile # t.tile
  /\ WriteTile(h, t)
  /\ UNCHANGED <<source, serviceVars, faults>>

\* The Reader of the client: strings go into its pool of that node.
ReadMessage(h) ==
  /\ stream[h] # <<>>
  /\ LET m == Head(stream[h])
     IN  known' = IF m.type = "strings"
                  THEN [known EXCEPT ![m.node] = Merged(@, m.strings)] ELSE known
  /\ stream' = [stream EXCEPT ![h] = Tail(@)]
  /\ UNCHANGED <<source, serviceVars, written, sent, faults>>

----------------------------------------------------------------------------
(* Crashes                                                                 *)

\* The service crashes and starts again from its database; the responses break
\* off, and /info gives it the node id of the source.
RestartService ==
  /\ faults < MaxFaults
  /\ faults' = faults + 1
  /\ info' = source.node
  /\ pools' = blobs
  /\ offsets' = [n \in Nodes |-> Highest(blobs[n])]
  /\ worker' = [w \in Workers |-> Idle]
  /\ written' = [h \in Streams |-> Closed]
  /\ UNCHANGED <<source, blobs, stored, known, stream, sent>>

\* The source restarts with an empty pool under the next node id.
Restarted == [node |-> source.node + 1, pool |-> {}]

\* Source and service restart together.
RestartBoth ==
  /\ source.node + 1 \in Nodes
  /\ source' = Restarted
  /\ info' = Restarted.node
  /\ pools' = blobs
  /\ offsets' = [n \in Nodes |-> Highest(blobs[n])]
  /\ worker' = [w \in Workers |-> Idle]
  /\ written' = [h \in Streams |-> Closed]
  /\ UNCHANGED <<blobs, stored, known, stream, sent, faults>>

----------------------------------------------------------------------------
Init ==
  /\ source = [node |-> 1, pool |-> {}]
  /\ info = 1
  /\ pools = [n \in Nodes |-> {}]
  /\ offsets = NoOffsets
  /\ blobs = [n \in Nodes |-> {}]
  /\ stored = {}
  /\ worker = [w \in Workers |-> Idle]
  /\ known = [n \in Nodes |-> {}]
  /\ stream = [h \in Streams |-> <<>>]
  /\ written = [h \in Streams |-> Closed]
  /\ sent = [h \in Streams |-> {}]
  /\ faults = 0

Next ==
  \/ \E w \in Workers :
       \/ \E h \in Streams, t \in Tiles : RequestTile(w, h, t)
       \/ FillTile(w) \/ FailTile(w) \/ ReceiveTile(w) \/ PutStrings(w) \/ PutTile(w)
       \/ DeliverTile(w)
  \/ \E h \in Streams :
       \/ OpenStream(h) \/ ReadMessage(h)
       \/ \E t \in stored : ServeStored(h, t)
  \/ RestartService \/ RestartBoth

\* The source restarts only together with the service.
Spec == Init /\ [][Next]_vars

----------------------------------------------------------------------------
(* Properties                                                              *)

\* Whoever reads a tile has every string it uses under the id it uses it by:
\* a worker that received it, the cache database by itself (so also after a
\* crash), and the client when the tile is the next message of a response.
WorkersReadTiles ==
  \A w \in Workers : worker[w].at \in {"received", "storing", "stored"} =>
    worker[w].uses \subseteq pools[worker[w].node]

StoredTilesAreReadable ==
  \A t \in stored : t.uses \subseteq blobs[t.node]

ClientReadsTiles ==
  \A h \in Streams :
    stream[h] # <<>> /\ Head(stream[h]).type = "tile" =>
      Head(stream[h]).uses \subseteq known[Head(stream[h]).node]

ReceivedTilesAreReadable == WorkersReadTiles /\ ClientReadsTiles

\* No copy of a pool has a gap, the strings under way included: whoever tells
\* its highest id has everything below.
NoGaps(pool) == IdsOf(pool) = 1..Highest(pool)

PoolsHaveNoGaps ==
  \A n \in Nodes : /\ NoGaps(pools[n]) /\ NoGaps(blobs[n]) /\ NoGaps(known[n])
                   /\ offsets[n] <= Highest(blobs[n])

\* All copies of a pool agree with that of the source, as long as it lives.
PoolsAgree ==
  \A pool \in {pools[source.node], blobs[source.node], known[source.node]} :
    pool \subseteq source.pool

\* So an offset says which strings a copy of the pool has.
OffsetsTell == PoolsHaveNoGaps /\ PoolsAgree
=============================================================================
