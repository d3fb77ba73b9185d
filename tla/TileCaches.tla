------------------------------ MODULE TileCaches ------------------------------
(***************************************************************************)
(* The three tile caches that `mapget serve` chooses from (cli.cpp):       *)
(* MemCache, the persistent SQLiteCache and NullCache, with what their     *)
(* base class Cache adds: the string pool of a data source node and the    *)
(* offset up to which it was stored. The process may crash, also with the  *)
(* loss of what SQLite had not yet synced, and start again with other      *)
(* options.                                                                *)
(*                                                                         *)
(* A string pool is its highest id: a tile stands for the highest id it    *)
(* needs. The table of tiles is the sequence of its rows by timestamp, so  *)
(* that a put at a later time appends.                                     *)
(***************************************************************************)
EXTENDS Integers, Sequences, FiniteSets, SequencesExt

CONSTANTS
  Keys,        \* MapTileKeys of one data source node
  Workers,     \* the worker threads of the data source
  Limits,      \* the values of --cache-max-tiles, 0 for unlimited
  MaxStrings,  \* bound: the highest string id
  MaxPuts,     \* bound: the number of puts
  MaxStarts    \* bound: the number of starts

ASSUME CacheAssumption ==
  /\ Limits \subseteq Nat
  /\ MaxStrings \in Nat \ {0} /\ MaxPuts \in Nat /\ MaxStarts \in Nat

VARIABLES
  kind,        \* --cache-type
  starts,      \* the number of starts; the process runs when `running`
  running,
  limit,       \* maxCachedTiles_ or maxTileCount_
  pool,        \* the string pool of the node in memory
  offset,      \* stringPoolOffsets_ of the node
  cachedTiles, \* MemCache: cachedTiles_, a set of <<key, data>>
  fifo,        \* MemCache: fifo_, the newest key first
  rows,        \* SQLite: the tiles table, the oldest row first
  poolBlob,    \* SQLite: the string_pools table, 0 without a row
  synced,      \* SQLite: rows and poolBlob as of some commit on disk
  worker,      \* where each worker is
  puts,        \* history: the <<key, data>> put so far, in order; after a loss
               \* of power those that are left
  ever         \* history: every <<key, data>> ever put

memoryVars == <<pool, offset, cachedTiles, fifo>>
diskVars   == <<rows, poolBlob>>
vars == <<kind, starts, running, limit, memoryVars, diskVars, synced, worker, puts, ever>>

Kinds     == {"memory", "persistent", "none"}
StaticIds == 1     \* the ids every StringPool starts with
Idle      == [at |-> "idle"]

\* What getTileLayer finds.
Content ==
  CASE kind = "memory" -> cachedTiles
    [] kind = "persistent" -> ToSet(rows)
    [] kind = "none" -> {}

KeysOf(tiles) == {t[1] : t \in tiles}

\* putTileLayer holds stringPoolOffsetMutex_ from its first write to its last.
OffsetMutexFree == \A w \in Workers : worker[w].at # "storing"

----------------------------------------------------------------------------
(* The worker: DataSource::get and Cache::putTileLayer                     *)

\* Mutation of Missing: the cache is not asked first.
NotAsked(k) == TRUE

\* The worker got this job because the tile is not cached (TileService).
Missing(k) == k \notin KeysOf(Content)

\* Nobody else works on the tile; filling it may add strings to the pool.
FillTile(w, k) ==
  /\ running
  /\ worker[w] = Idle
  /\ Len(puts) < MaxPuts
  /\ Missing(k)
  /\ \A v \in Workers : worker[v].at # "idle" => worker[v].key # k
  /\ \E n \in pool..MaxStrings :
       /\ pool' = n
       /\ worker' = [worker EXCEPT ![w] = [at |-> "filled", key |-> k, data |-> n]]
  /\ UNCHANGED <<kind, starts, running, limit, offset, cachedTiles, fifo,
                 diskVars, synced, puts, ever>>

\* The full pool is stored if it has grown; only SQLite keeps it.
StoredStrings == IF kind = "persistent" /\ offset < pool THEN pool ELSE poolBlob

\* Writer::write, first message: the strings.
PutStrings(w) ==
  /\ running
  /\ worker[w].at = "filled"
  /\ OffsetMutexFree
  /\ poolBlob' = StoredStrings
  /\ offset' = IF offset < pool THEN pool ELSE offset
  /\ worker' = [worker EXCEPT ![w].at = "storing"]
  /\ UNCHANGED <<kind, starts, running, limit, pool, cachedTiles, fifo, rows,
                 synced, puts, ever>>

\* MemCache pops keys from the back until the limit holds ...
Evict(keys) == IF Len(keys) > limit THEN SubSeq(keys, 1, limit) ELSE keys

\* ... and erases the tiles of these.
Popped(keys) == ToSet(SubSeq(keys, Len(Evict(keys)) + 1, Len(keys)))

PutInMemory(t) ==
  LET keys  == <<t[1]>> \o fifo
      tiles == IF t[1] \in KeysOf(cachedTiles) THEN cachedTiles
               ELSE cachedTiles \cup {t}
  IN  /\ fifo' = Evict(keys)
      /\ cachedTiles' = {u \in tiles : u[1] \notin Popped(keys)}
      /\ UNCHANGED diskVars

\* Mutation of OverLimit: one row too many is kept.
OverLimitByTwo(table) == limit > 0 /\ Len(table) > limit + 1

OverLimit(table) == limit > 0 /\ Len(table) > limit

\* Mutation of WithoutOldest: the row with the highest timestamp is deleted.
WithoutNewest(table) == SubSeq(table, 1, Len(table) - 1)

\* cleanupOldestTiles.
WithoutOldest(table) == Tail(table)

\* REPLACE deletes the row of a key that is there already.
WithoutKey(table, k) ==
  IF k \in KeysOf(ToSet(table))
  THEN RemoveAt(table, CHOOSE i \in DOMAIN table : table[i][1] = k) ELSE table

\* INSERT OR REPLACE, then a row is deleted if there are too many.
PutInTable(t) ==
  LET table == Append(WithoutKey(rows, t[1]), t)
  IN  /\ rows' = IF OverLimit(table) THEN WithoutOldest(table) ELSE table
      /\ UNCHANGED <<cachedTiles, fifo, poolBlob>>

\* Writer::write, second message: the tile.
PutTile(w) ==
  LET t == <<worker[w].key, worker[w].data>>
  IN  /\ running
      /\ worker[w].at = "storing"
      /\ CASE kind = "memory" -> PutInMemory(t)
           [] kind = "persistent" -> PutInTable(t)
           [] kind = "none" -> UNCHANGED <<cachedTiles, fifo, diskVars>>
      /\ puts' = Append(puts, t) /\ ever' = ever \cup {t}
      /\ worker' = [worker EXCEPT ![w] = Idle]
      /\ UNCHANGED <<kind, starts, running, limit, pool, offset, synced>>

----------------------------------------------------------------------------
(* The process                                                             *)

\* SQLite syncs its log: every commit so far survives the loss of power.
Sync ==
  /\ kind = "persistent"
  /\ synced # [rows |-> rows, poolBlob |-> poolBlob]
  /\ synced' = [rows |-> rows, poolBlob |-> poolBlob]
  /\ UNCHANGED <<kind, starts, running, limit, memoryVars, diskVars, worker, puts, ever>>

\* The process ends anywhere; the commits survive, or those that were synced.
Stop ==
  /\ running
  /\ running' = FALSE
  /\ \/ UNCHANGED <<diskVars, puts>>
     \/ /\ rows' = synced.rows /\ poolBlob' = synced.poolBlob
        /\ puts' = synced.rows
  /\ synced' = [rows |-> rows', poolBlob |-> poolBlob']
  /\ pool' = StaticIds /\ offset' = 0
  /\ cachedTiles' = {} /\ fifo' = <<>>
  /\ worker' = [w \in Workers |-> Idle]
  /\ UNCHANGED <<kind, starts, limit, ever>>

\* Mutation of LoadedPool: the pool is not loaded at the start.
LoadsNoPool(blob) == [pool |-> StaticIds, offset |-> 0]

\* getStringPool for every row of string_pools.
LoadedPool(blob) ==
  IF blob = 0 THEN [pool |-> StaticIds, offset |-> 0]
  ELSE [pool |-> blob, offset |-> blob]

\* serve(): the cache is opened with new options. SQLiteCache clears the
\* database, or deletes the oldest rows beyond the limit, and loads the pools.
Start(newLimit, clear) ==
  LET over == IF newLimit > 0 /\ Len(rows) > newLimit THEN Len(rows) - newLimit ELSE 0
  IN  /\ ~running /\ starts < MaxStarts
      /\ clear => kind = "persistent"
      /\ running' = TRUE
      /\ starts' = starts + 1
      /\ limit' = newLimit
      /\ rows' = IF clear THEN <<>> ELSE SubSeq(rows, over + 1, Len(rows))
      /\ poolBlob' = IF clear THEN 0 ELSE poolBlob
      /\ pool' = LoadedPool(poolBlob').pool
      /\ offset' = LoadedPool(poolBlob').offset
      /\ UNCHANGED <<kind, cachedTiles, fifo, synced, worker, puts, ever>>

----------------------------------------------------------------------------
Init ==
  /\ kind \in Kinds
  /\ starts = 0 /\ running = FALSE /\ limit = 0
  /\ pool = StaticIds /\ offset = 0
  /\ cachedTiles = {} /\ fifo = <<>>
  /\ rows = <<>> /\ poolBlob = 0
  /\ synced = [rows |-> <<>>, poolBlob |-> 0]
  /\ worker = [w \in Workers |-> Idle]
  /\ puts = <<>> /\ ever = {}

Next ==
  \/ \E w \in Workers :
       \/ \E k \in Keys : FillTile(w, k)
       \/ PutStrings(w) \/ PutTile(w)
  \/ Sync \/ Stop
  \/ \E l \in Limits, clear \in BOOLEAN : Start(l, clear)

Spec == Init /\ [][Next]_vars

----------------------------------------------------------------------------
(* Properties                                                              *)

\* Every tile that is found can be read with the strings in memory, and every
\* tile in the database, as it is and as a loss of power would leave it, with
\* the pool stored beside it: no crash separates a tile from its strings.
TilesHaveStrings ==
  /\ running => \A t \in Content : t[2] <= pool
  /\ \A t \in ToSet(rows) : t[2] <= poolBlob
  /\ \A t \in ToSet(synced.rows) : t[2] <= synced.poolBlob

\* The offset that a remote data source is told never exceeds what the cache
\* would still know after a crash of the process.
OffsetIsStored == kind = "persistent" => offset <= poolBlob

\* The limit holds after every put and every start, whatever was stored under
\* the limit of an earlier start; so one eviction per put is enough. Nothing is
\* said of "0 for unlimited", which SQLiteCache keeps to and MemCache does not.
LimitHolds ==
  running /\ limit > 0 => Cardinality(Content) <= limit

\* MemCache: every cached tile has exactly one entry of the fifo, so that the
\* limit counts tiles and each of them is evicted in the end.
FifoMatches ==
  ToSet(fifo) = KeysOf(cachedTiles) /\ IsInjective(fifo)

\* A loss of power or of the process leaves no tile without its strings, and the
\* remote data source is not told of strings that are lost then.
StringsAreStored == TilesHaveStrings /\ OffsetIsStored

\* A cache holds as many tiles as its limit says, whichever counts them.
CacheIsLimited == LimitHolds /\ FifoMatches

\* The last position of a key in a sequence of <<key, data>>.
LastOf(k, tiles) == CHOOSE i \in DOMAIN tiles :
  tiles[i][1] = k /\ \A j \in DOMAIN tiles : tiles[j][1] = k => j <= i

\* README.md: "Tiles are purged from cache in FIFO order": what a put evicts, be
\* it the new tile itself, was put before everything that stays.
FifoEviction ==
  [][running' /\ puts' # puts =>
       LET there == KeysOf(Content) \cup {Last(puts')[1]}
       IN  \A gone \in there \ KeysOf(Content'), kept \in KeysOf(Content') :
             LastOf(gone, puts') < LastOf(kept, puts')]_vars

\* Every cache implements TileStore.
Store == INSTANCE TileStore WITH Data <- 1..MaxStrings, content <- Content
ImplementsTileStore == Store!Spec
=============================================================================
