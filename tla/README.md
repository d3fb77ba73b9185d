# A formal model of mapget

TLA+ modules, TLC runs and TLAPS proofs about mapget, the C++ map data server in
this repository. `PROJECT.json` lists the runs, the lines of the source every
definition stands for, the hazards of the code and the theorems.

## 1. The system

| Component | State it keeps | Operations | What makes it correct |
|---|---|---|---|
| Tile service (`libs/service/src/service.cpp`) | `requests_`, `jobsInProgress_`, the workers of each data source, every request's index, count and status | `request`, `abort`, `addDataSource`, `removeDataSource`, the worker loop, `nextJob` | no tile is fetched twice at a time, skipped or delivered twice; every request is done once; the service stops |
| Tile caches (`cache.cpp`, `memcache.cpp`, `sqlitecache.cpp`, `nullcache.cpp`) | tile blobs, string pool blobs, a limit | `getTileLayer`, `putTileLayer`, `getStringPool` | what is read is what was put under that key; the limit holds; a stored tile can be read with the stored pool, also after a restart |
| String pools, tile stream (`stream.cpp`, `stringpool.cpp`) | a pool per node, the offset of each peer | `Writer::write`, `Reader::read` | a reader never meets a tile whose strings it does not have |
| HTTP tiles stream (`http-service.cpp`) | the buffer and the condition of each `/tiles` response, the requests per client id | `/tiles`, `/abort`, `/locate`, `/config` | every result is streamed once and the stream ends |
| HTTP client (`http-client.cpp`) | - | `request` | the request it is given is done |
| Data source config (`config.cpp`) | subscriptions, the last hash, the watch thread | `subscribe`, `loadConfig`, `end` | every subscriber sees every new configuration |
| Data source, remote and process (`datasource.cpp`, `datasource-client.cpp`, `datasource-server.cpp`, `http-server.cpp`) | HTTP clients, a child process, a pool | `get`, `locate`, start and stop of the child | a tile comes with the strings it needs; a data source that was started is connected to a running server |
| Tile ids and keys (`tileid.cpp`, `layer.cpp`) | - | `neighbor`, `fromWgs84`, corners, keys as texts | a tile covers the position it was found for; neighbours are mutual; a key survives its text |
| Geometry and validity (`geometry.cpp`, `validity.cpp`, `simfil-geometry.cpp`) | vertex arrays of one tile; the offsets of a validity | `append`, views, rings, `computeGeometry`, `within`, `intersects`, ... | arrays are not mixed up; a view shows its base; offsets resolve to the part of the line between them; an operator answers what geometry says |
| Feature model (`featurelayer.cpp`, `featureid.cpp`, `info.cpp`, ...) | arenas of one tile, an id prefix, a lazily sorted index of hashes | `setIdPrefix`, `newFeature`, `find`, `clone`, `write` | a feature is found by its id, whatever collides or was merged; add-on data reaches the features it names and makes no second one |
| Logging, command line, Python bindings | - | - | not modelled: no state of their own |

The components call each other like this: an HTTP handler makes
`LayerTilesRequest`s and hands them to `Service::request`; the worker threads of
each data source take tiles from them, ask the cache and then the data source,
and call back into the handler, whose content provider writes the stream. The
config service calls back into the tile service, which then adds and removes
data sources.

The hard behaviours are the interleavings of the workers, clients and the
managing thread around `jobsMutex_`, what happens to a request when a fetch
throws or a source is removed, and string pools that are sent as differences.

## 2. The modules

* `TileService` models the tile service. One action is one critical section or
  one statement between two: a worker checks its wait predicate (`CheckJobs`,
  which is `nextJob` as a whole), blocks, looks at `shouldTerminate_` again,
  fetches, and hands in the result; a call of `request` checks each of its
  requests, then adds or rejects each; the manager's `removeDataSource` and the
  destructor signal, notify and join. The mutex needs no variable of its own:
  it is held across steps only by a worker between a false predicate and its
  block (`"parking"`), the window of finding 1.
  `requests_` is a set and the order `ahead` on it; the loop of `nextJob` has a
  closed form (`Stop`, `Pass`, `IsNextJob`, `ServedBefore`), because a module with
  a recursive operator cannot be proved about.
* `TileServiceLoop` has the loop of `nextJob` statement by statement, and the
  property that the closed form does the same.
* `TileServiceProps` has the properties, `MCTileService` the small instances,
  `TileServiceProofs` the theorems, first about tiles and jobs, then about requests,
  their ends and notifications.

The cache in `TileService` is the contract of all caches: a put may keep the tile
or not, and evict any others. A fetch of a tile in `FaultyTiles` may throw, which
stands for an exception of `get`, of an add-on or of the cache.

* `HttpTilesStream` models the life of each `/tiles` response: the handler makes the
  requests, starts them, registers them under the client id and returns a content
  provider; `addResult` and `onDone_` run on the threads of the service and wake it;
  it waits for a buffer or for all to be done, takes the buffer under the mutex and
  ends; a lost connection ends it in the cleanup, another stream of the client or
  `/abort` in a sweep, one request after the other. Every request of a stream is a
  small copy of `TileService`'s (index, count, status), and the buffer is the
  sequence of its tiles. `HttpTilesStreamProps` has the properties,
  `HttpTilesStreamProofs` the theorems.
* `TileStore` is the abstract contract of a cache, the one `TileService` assumes:
  content is what was put under its key, one tile per key, and anything may go.
  `TileCaches` models `Cache` with `MemCache`, `SQLiteCache` and `NullCache`: the
  two writes of `putTileLayer`, the fifo, the table in the order of its
  timestamps, and the end of the process with or without the loss of commits that
  were not synced. The abstract `content` is `Content`, what `getTileLayer` finds.
  `TileCachesProofs` has the theorems, the refinement among them.
* `StringPoolSync` models how the strings of a tile get from the pool of a data
  source server through the worker, the cache and its database to a client, each
  with a pool and an offset of its own: the Writer and the Reader of `stream.cpp`
  are at every end. A tile carries the ids it uses and what they meant where it was
  filled. Two crashes are modelled: the service alone, and both together.
  `StreamProofs` has the theorems.

* `DataSourceConfig` models how the data sources of `mapget serve` follow a file:
  `loadConfig` as its two readings of the file, the update under
  `memberAccessMutex_` and one step per subscriber; the watch thread with the
  time it compares; the main thread from the first load to `end()`; POST
  `/config` from the subscription over the two steps of writing the file to the
  answer or the timeout; and the callback of the tile service. A content stands for
  its bytes, hash and YAML at once, and `SourcesOf` for what `makeDataSource` makes
  of it. `DataSourceConfigProps` has the properties, `DataSourceConfigProofs` the
  theorems.

* `FeatureLayer` models the ids of the features of one tile: a data source sets the
  prefix and adds features, some of which the check of the id turns down or never
  answers; `find` and `write` sort the index of hashes; the service then merges the
  features of add-on tiles, which `locate()` may have to resolve, each to a feature
  `find` returns or to a new one. An id is a sequence of labels and values, a value
  an integer or a string; the data a feature has is the set of add-on features it
  adopted. The walks over compositions and the binary search are recursive functions
  and folds. `FeatureLayerProps` has the properties, `FeatureLayerProofs` the theorems.

* `GeometryBuffers` models the geometries of a layer and the vertex arrays behind them:
  `newGeometry`, `append`, the `add...` functions of a feature, views, clones, and what
  is read back, up to the rings of polygons and meshes. The negated capacity that
  stands for an array until the first point is kept, in `IndexBits` bits.
* `Validity` models what a validity holds after each setter, what is left of it when
  it is written and read or cloned, and the points it resolves to with each type of
  offset. Lines are parallel to the axes, on integers, so that lengths and projections
  are exact.
* `SimfilGeometry` models the geometric values of a query: the functions that make
  them, and `==`, `within`, `contains` and `intersects` with the dispatch of each class.
* `TileIds` models positions, neighbours, corners and centers of tile ids in the width
  of a column, with degrees so fine that all of them are integers, and keys as texts.
  `GeometryBuffersProps`, `ValidityProps`, `SimfilGeometryProps` and `TileIdsProps` have
  the properties, against reference definitions of their own; `FeatureLayerProofs` has the
  theorems about `GeometryBuffers`, `GeometryProofs` those about the other three.
* `TileStream` models messages as bytes: the header the Writer puts before each, and
  `Reader::read`, whose loop takes as many headers and values as there are; a version or
  a layer it cannot read raises, after which no caller uses the Reader again.
  `MessageChannel` is the abstract specification, and what `StringPoolSync` assumes of
  a stream: messages are handled whole, once, in order, and before more bytes arrive.
  `StreamProofs` proves the implementation.
* `MCTileModel` puts these five and `FeatureLayer` next to each other. They share no
  state, so each behaviour is one of a single part, while the others rest.

* `RemoteProcess` models the start of a data source in a process of its own: the
  child binds a port, prints it on one thread and listens, while its main thread
  sleeps and looks; a thread of the process library reads the output in chunks of
  whole lines and connects under `mutex_`; the constructor waits with a predicate,
  spurious wakeups and a timeout. A fact the program ends on (an exception nobody
  catches) is `program = "terminated"`. The constructor is "raised" from its throw on: its
  members are destroyed then, the mutex first, and at last the process object, whose destructor
  (in the process library) joins the thread that reads the output. So the exception may reach
  the caller only when the child ends; the model has no step for its arrival. A server that has
  listened stays "listening" also after `Exit`, so that a connection is to a server that ran
  when it was made, and may be gone by the time the constructor returns.
  `RemoteProcessProps` has the properties, `RemoteProcessProofs` the theorems.

`TileService` and `HttpTilesStream` meet in the requests, which the first sees from
the workers and the second from the stream; `TileService` and `TileCaches` in the
contract; `TileCaches` knows a pool by its highest id, which is enough since
`StringPoolSync` shows that pools have no gaps. `DataSourceConfig` calls the
`AddDataSource` and `RemoveDataSource` of `TileService`, as one step on the set of
sources.

## 3. The runs

* `service_requests` (MCTileService): Two sources, one with a layer of its own, that come and go while their workers and a call of request() are anywhere, and the service destroyed; the call has requests in opposite order, one that asks for a tile twice, an empty one and one that may be aborted, and a source the client may not use: delays, cache hits and evictions in every order, the inductive invariant of the proofs, and in each state nextJob does what the nested loop of the source does.
* `service_faults` (MCTileService): Two calls, one of them with an empty request, and a tile whose fetch may throw: requests without faulty tiles are done all the same and their onDone_ is called once, and only dropped jobs leave keys behind in jobsInProgress_.
* `claim_stop` (MCTileService, `StopCompletes` is violated): A worker that has just found its predicate false misses both shouldTerminate_ and the notification, which are given without jobsMutex_: the destructor waits for it forever.
* `claim_done` (MCTileService, `DoneWhenProcessed` is violated): A request one of whose tiles throws is never done although all of its tiles have been processed.
* `http_streams` (MCHttpTilesStream): Two streams of one client id, one with an empty request, while /abort may be posted and a connection lost at any time: what is sent is whole and in order, and no tile is taken any more for a stream that was replaced, aborted or abandoned.
* `tile_caches` (MCTileCaches): Two workers put three keys into each of the three caches under the limits 0, 1 and 2 while the process crashes, loses what was not synced, and starts again with another limit.
* `string_pools` (MCStringPoolSync): Two workers fetch, store and stream two tiles that share a string to two streams of one client; a fetch may fail, or the service crash and restart from its database, alone or with the source.
* `config_watch` (MCDataSourceConfig): The file is edited or removed twice, also to contents that cannot be loaded or that end the process, while a POST writes it, the first load and the watch thread read it, and the service may be destroyed.
* `claim_optional` (MCFeatureLayer, `CallsReturn` is violated): A feature is added whose id leaves out an optional part at the end: the check of the id does not return.
* `tile_model` (MCTileModel): The six parts of the tile model that share no state, each with an instance of its own: features of one tile that are added, looked for by id, written and read, and merged from add-on tiles; geometries with their vertex arrays, views and rings; validities that are set, written, cloned and resolved into points; geometric operators of queries over every pair of values; tile ids of positions and their neighbours at levels that fit in the width of a column; and a stream of messages that is cut anywhere, whose reader implements a channel of whole messages.
* `claim_key` (MCTileIds, `KeysComeBack` is violated): A key that is written and parsed again has another layer type.
* `remote_process` (MCRemoteProcess): A child process that prints its port among other lines, binds it or not, and may exit at any time, against the callback that connects, spurious wakeups and the timeout of the constructor: it returns with a connection to a server that was listening, or to a foreign one on a port that was not bound, and a connection made before the constructor gave up is not missed.

The bounds: two workers are enough for every race on the mutex, the set of jobs
in progress and the list, since a step involves at most one worker and a tile
held by another; the batch has requests that
ask for the tiles in opposite order, one with a tile twice, an empty one and one that
may be aborted, so that one call of `nextJob` serves some from the cache, delays one
and takes a tile. Two sources are the fewest for removing one while the other works.
For the stream, two responses of one client are the fewest of which one replaces
the other, with two tiles in one request so that a buffer can be sent between
them, and one empty request. The caches see three keys and limits up to two, so
that a put can evict one of two, two starts and four puts. After a loss of power the
order of the puts begins anew with the rows that survived, since the commits that were
lost never happened for the next start. Of the limit 0 `CacheIsLimited` says nothing: it is
meant as unlimited, which `MemCache` is not (section 5). The pools have two tiles with a
common string, two workers, two streams, two node ids and one fault (a failed
fetch or a crash of the service), next to one restart of both. The configuration
has one POST and two edits, so that one edit falls before and one into a load or a
POST; the contents are one of every kind (there at first, posted, edited, no YAML,
no sources, a node id twice), and a content is written once, because with a
content that comes back `FileIsApplied` fails (section 5). Two POSTs at a time
answer each other and are not bounded by any property, so one is enough. A tile
gets three features, one to be found and one on either side of it in the index; a
hash of two values makes most of them collide; the prefixes are one that every
composition begins with and one with the optional part; one type has none, one has
it in the middle and one at the beginning.
A layer gets three geometries, the fewest for a view of a view, with outlines of up to
six points; `addLine({})`, whose capacity wraps (section 5), is not called. The lines of
validities are straight or have corners, repeated points or one point only, and the
offsets reach from zero to the ends of most of them and beyond some. Queries take every pair of values: points of a grid,
boxes, lines and polygons, one with a hole, two that cross and two of which one lies in the other, also with negative coordinates. Tile
ids have columns of four bits, so that level 4 does not fit any more, and all positions
of a fine grid that goes over both poles and the antimeridian. A stream has three
messages, the fewest for one that ends in a piece in which another begins and a third
is whole, of every type, with values of up to three bytes, one of another version and one
of an unknown layer; each piece may have any length. The child process prints
two other lines before or after the port.

Fairness (`FairSpec`): a thread that can run does (weak fairness), a fetch returns
or throws, and a thread that asks for `jobsMutex_` again and again gets it (strong
fairness of the actions that lock it: `std::mutex` does not promise it in theory,
every implementation in use gives it). No client has to call anything, the
manager need not remove anything, and there are no fair spurious wakeups, so that
a lost notification is not healed by one. For the configuration,
every thread goes on when it can and gets `memberAccessMutex_` when it asks again
and again; no editor, client or signal has to come, and no timeout is assumed to
fire, so that an answer is not one only by its timeout. For `RemoteProcess` the two
threads of the service go on and `GET /info` is answered or fails; the child may print
nothing or exit, and the clock may stand still. The stream, the caches, the pools and
the tile model have safety properties only. That a stream ends is not among them: the
code does not ensure it (section 5).

## 4. The proofs

Each theorem is about every value of the constants that the named assumptions of the
module allow. The invariants below were first checked with TLC on the instance of the
run. An invariant that a run checks is seldom inductive as it stands; what has to be
added is what this section is about.

### The tile service (`TileServiceProofs`)

From `ServiceAssumption` (the constants have their types):

* `ServiceInvariant`: `IInv` is an invariant. It consists of `TypeOK`, what is of
  interest, `NoDoubleWork` and `TilesAccounted`, and what makes it inductive:
  `JobsInRange` and `IndexInRange` (a worker holds a position its request has),
  `OnlyRunningWork` (only workers of sources that are registered or being stopped
  are alive, so that `addDataSource` starts no worker that still holds a tile) and
  `CallsInRange`.
* `TypeCorrect`, `NeverDoubleWork`, `TilesAreAccounted` follow from it.

The argument: a position below `nextTileIndex_` is delivered, in hand or lost, and
these are disjoint. `nextJob` raises an index only over what it delivers from the
cache and the one tile it takes, whose key it finds outside `jobsInProgress_`, and
every held key is in there, so no other worker holds it; handing in moves a
position from in hand to delivered, dropping a job to lost; nothing else touches
either. The lemmas compute what the closed form of `nextJob` does to an index.

From `OneCallPerRequest` too, which says that a request is in one batch of one call only:
the code sets the status of a request in `request()` without looking at what it was, and
both of its callers, the `/tiles` handler and the command line, make their requests anew.

* `EndInvariant`: `EndInv` is an invariant. `Ends` relates, for each request, the result
  count, the status, the calls of `onDone_` and the place in the list: what was counted
  are the delivered positions, an open request has some left, and a request that was
  rejected or aborted has an index that never reaches its end, which is why a late result
  makes no success of it. `CallsFit` says how far the two loops of each call have come:
  what was rejected is not in the list, what comes later is still untouched.
* `EveryRequestEndsOnce`, `CallsTakeAllOrNothing` and the action property `EndsAreFinal`
  follow.
* `KeysInProgressAreExplained`: a key stays in `jobsInProgress_` only for a worker that has
  it or for a fetch that threw. It is inductive beside `IInv`.
* `NoJobIsMissed`: no worker sleeps while there is a tile for it. The invariant it needs
  (`NoMissedInv`) also speaks of the window between a false predicate and the block: a
  worker in it holds the mutex, so that nobody adds a request or a result; and once it
  blocks, who adds one is about to notify it.

### The caches (`TileCachesProofs`)

From `CacheAssumption`. `CachesInvariant`: `CachesInv` consists of the types, of `BusyAreApart`
(what a worker is about to put is not there, and nobody else puts it), `OthersAreEmpty` (only
the chosen cache keeps anything), `StringsComeFirst` (the strings of a tile are in the pool
from the time it is filled, and in the database from the first write of `putTileLayer` on; so
too for what was synced), `CountsMatch` (what is counted against the limit is what is there,
once by each key) and `ContentWasPut`. `NoTileWithoutStrings` and `CachesKeepTheirLimit`
follow.

* `CachesImplementTileStore`: the refinement. `PutTile` of any cache is a `Put` of
  `TileStore`, the end and the start of a process are a `Restart`, and all other steps
  change nothing there.
* `TilesArePurgedInOrder`: a put purges the tiles put first. It needs `PutInOrder`, a
  second invariant: the fifo and the table are in the order of the last puts, also after
  crashes and starts under other limits.

### The stream of a `/tiles` response (`HttpTilesStreamProofs`)

From `StreamAssumption` and `NoStreamAssumption` (the value for "no stream" is no stream).
`StreamsInvariant`: `HttpInv` relates the stages of a response to what is registered under
its client id, its buffer and its requests. While a stream lives, buffer and wire together
hold what the workers handed in, each tile once, and `EndOfStream` is the last item of a
buffer only when all requests are done (`LiveInv`); a result that is written but not counted
yet is accounted for (`Pending`), and an aborted request never gets to its last tile
(`RequestInv`); and who sweeps over a replaced stream still has those of its requests before
it that are listed (`ClientInv`). A provider that blocks has sent all its buffer, so that the
wakeup of `onDone_` it may miss (section 5) costs it `EndOfStream`, and no tile of a successful
request (`BlockedHasSent`, a part of `ResultsAreSent`). `ResultsReachTheClient` and `TilesHaveReaders` follow.

### The string pools (`StreamProofs`)

From `SyncAssumption` (a tile has finitely many strings). `SyncInvariant`: `SyncInv` says that
there is, for every node id, one full pool, of which the pool of the service, that of the
database and that of the client are the part up to some id (`CopiesFit`), and that

* each message on the way leaves no gap in the pool of its reader, given those before it
  (`AllReadable`, `NoGapAfter`), and brings no tile before its strings;
* the offsets a stream has reached tell of strings the client will have then
  (`OffsetsAreCovered`), and the offset a worker asks with, of strings in the database
  (`WorkerFits`).

The full pool is quantified existentially: it only ever grows, at the place where the
source has just filled a tile, and a restart under a new node id begins another one. That
all pools of a node are parts of the same one is what makes it enough to compare ids.
`ReadersHaveTheStrings`, `DatabaseHasTheStrings` and `OffsetsSayWhatIsKnown` follow.

### The configuration (`DataSourceConfigProofs`)

From `ConfigAssumption` (next to the types: the names of threads and subscribers are
different ones). `ConfigInvariant`: `ConfigInv` consists of the types, of who holds the mutex
and in which statement (`MutexFits`), of what a thread that is calling subscribers has before
it, all of whom are subscribed (`ThreadsFit`), of the sources the service has while and after
it is told (`SourcesFit`), and of what is known of a POST that nobody interferes with
(`PostsFit`, `QuietFits`): since it wrote the file, its content is all that can be loaded.
`SourcesFollowTheConfig`, `SuccessMeansApplied` and the action property `NoSuccessAfterAnswer`
follow. That errors are reported without the mutex (section 5) is why the last one speaks
of successes only.

### The messages in bytes (`StreamProofs`)

From `StreamAssumption` (a layer or a pool has bytes, the end of a stream has none).
`StreamInvariant`: `StreamInv` says that there are places `start[i]` at which the messages begin
in all that was ever written, one behind the other, and that each byte in the network and in
the buffer is the one at its place; the Reader, if it raised nothing, is where the next message
begins or, in the phase `ReadValue`, where its value does, and when it has stopped the rest of
that message has not been read from the network. A place belongs to one message only
(`PlaceTells`), hence what the Reader takes for a header is one.
`ReaderIsAChannel`: every step is one of `MessageChannel` or changes nothing there. How many
messages have arrived is the number of those that end before the first byte of the network
(`ArrivedTo`).

### The start of a process (`RemoteProcessProofs`)

From `RemoteProcessAssumption` alone and for any number of other lines:

* `ProcessInvariant`: `ProcessInv` is an invariant: the types, `ServerComesLater` (no
  server before the child runs), `PortWasPrinted` (whoever knows the port, or has it
  before him in the output, knows it from the line that was printed after the port was
  bound or not), `ConnectedToServer` and `ReturnedWithConnection`;
* `StartedSourcesAreServed`: `StartedIsServed` follows.

`StartedIsServed` alone is not inductive: a connection stays one to the child's server
only because `bound` does not change after the port was printed, and that the port was
printed before anybody connects is a fact about the output, which the lemmas
`PrintedLine` and `SplitOutput` carry through printing and through chunks.

### The tile ids (`GeometryProofs`)

From `TileIdsAssumption` (positions are integers, the levels are below 30, and the degrees so
fine that half a tile of each of them is an integer): `TilesCoverAnyPlace`, for every level
whose columns fit in their width. In a level of `n` rows a tile is `2 * h` high and wide, and
the globe `4 * n * h` around (`Scale`). The column of a position is its longitude around the
globe, divided by the width (`ColumnOf`); its row is the distance to the north pole around
the globe, divided by the height, and counted back behind the south pole (`RowOf`): that the
remainders of C++, which keep the sign, come to the same is what these two show. That the tile
covers its position, also one beyond a pole (`FoundCovers`), that its center leads back to it
(`CenterIsFound`), and that steps come back (`StepsComeBack`) follow. `PlaceInv`, the inductive
invariant, keeps the ids in range.

### The validities (`GeometryProofs`)

From `ValidityAssumption` (a geometry is a record of a name, a type and points).
`CopiesKeepTheirMeaning`: what is written and read describes the same points, and a clone those
of the validity or those of the validity without names, which a clone does not keep (section 5).
`ValidityInv`, the inductive invariant, says that the kind of a validity, the type of its
offsets and its value fit together, which is what writing relies on when it decides by kind
and type how many values to write, and cloning when it calls the setters anew
(`RestoredMeansTheSame`, `ClonedMeansTheSame`, `ClonedIsNameless`). How points are computed from the offsets
does not matter, only that it depends on nothing that is lost.

### The operators of a query (`GeometryProofs`)

From `SimfilAssumption`. `SidesMatterForNestedPolygonsOnly` rests on `QueryInv` (the stack has
at most two values, each a geometry or null) and on one case for each pair of kinds, two
polygons among them (`PolygonsEitherWay`): what is asked of both is whether the outlines cross,
which is symmetric, and then whether one has a corner of the other. Where both or none has, the
side does not matter; the property admits different answers for the remaining pairs, and for
no other.

`SegmentsIntersectWhereTheyMeet` is about all integer coordinates: the orientations and the
special cases of `lineIntersects` come to the same as the solution of the linear equations.
Coordinates are taken from one end of the first segment, so that the two directions `u` and
`v` and the way `w` from the one to the other are all there is. If `u` and `v` are not
parallel, the four orientations tell the signs of the two parameters and of what is left of
them (`Crossing`), and the special cases add nothing (`TouchingCutsBoth`); if they are, only
the special cases are left, and on one line one varying coordinate decides about the other
(`OneCoordinateDecides`).

### The ids of features (`FeatureLayerProofs`)

From `FeatureLayerAssumption`: a primary composition is a sequence with a part; prefixes, new
ids, ids of add-on features and what `locate()` returns have types of the layer and sequences
of parts, in any number. The theorems also have the hypothesis `HashesAreNumbers`, which says
that `hashFeatureId` returns a number, whatever the key; TLC cannot evaluate it, since it is
about all keys. Nothing is assumed about collisions.

* `EveryFeatureIsFound`, `EveryIdIsWhole`, `MergedDataIsFound` and `MergesMakeNoTwins` state
  the four invariants of the run.

They are about folds and recursive functions, and the induction theorems of the library cannot
be cited. It is done by hand: `Inductive` shows, from the least element of a set of numbers,
that a set with 0 and all successors has all numbers, and each induction names its set. That a
recursive definition defines a function at all is shown the same way: `SplitExists` and
`LowerBoundSplits` for the binary search, `WalkExists` for the walk over a composition, and
`StepsExist` for a fold, in the form in which the community modules define it.

* `SortedIndexIsSorted`, `LowerBoundSplits` and `FindIsFirst`: the sorted index has the same
  entries in order, the binary search comes to the first entry with the hash, and the walk
  from there over entries of that hash, which lie in the order of the features, returns the
  first feature with the type and the key (`Matching`), if there is one.
* `WholeIsMatched`, `PlainMatch`: a prefix without gaps and the parts that the check of
  `newFeature` lets go on from it are a whole id, and an id without optional parts has exactly
  the parts of its composition.
* `FeatureInv` is the inductive invariant. `TileFits` says of the tile that its index has one
  entry for each feature, with the hash of its key, in order unless the flag says otherwise,
  and that all features go on from the prefix; `NoTwins` is the invariant of the run; and
  `AllLed` says where the ids of merged features lead. `MergedIsFound` is not inductive
  without the rest: that the ids of one merge still lead to its data after the next rests on
  `Merges`, what one `clone` may do. It appends to the first match, which changes no key, or
  adds a feature behind all others, whose key then had no match.
* `MergeIsWalk` takes the loop over the ids of an add-on feature apart into its turns, and
  `MergeAll` goes through them.

### The geometries of a layer (`FeatureLayerProofs`)

From `BuffersAssumption`: spans are pairs of numbers, outlines sequences of points, and
capacities within the width of a handle.

* `ViewsShowTheirBases`. `BuffersInv`, the inductive invariant, says that the base of each view
  is an older geometry. So the recursion of `AllResolved`, which follows views to the geometry
  that holds the points, defines a function (`ResolvedExists`, by the same induction by hand),
  and the sum of the offsets is that of the base and one more; a span within a span of the
  points is one of them (`PartOfPart`).
* `AppendsKeepToTheirArray` has the hypothesis `HandlesSuffice`: capacities, the lengths of
  outlines and the bound on points are below half of the range of a handle, and no outline is
  empty. The first is what 31 of 32 bits are meant for; the last is what the code relies on
  without a check, since `addLine` and the like ask for one vertex less than they are given,
  which wraps without any. The run satisfies it with handles of 4 bits. `OwnInv` adds to
  `BuffersInv` what the negated capacity stands for (`HandlesFit`): a geometry without an
  array has a negative handle, one with an array a handle within the storage that no other
  has; and no length reaches the range. It is proved along what a step may do, whatever its
  action (`StepIs`): build a geometry, append one point, or make a view. What `Built` does with
  an outline is a fold of `append`, taken apart into its turns (`BuiltIsWalk`, `BuiltIsOwn`),
  none of which touches the points of an older geometry.

### Model-checked only

* What must eventually happen (`HealthyRequestsFinish`, `ConnectionIsNotMissed`, `EndsAtLast`,
  `FileIsApplied`, `NewBodyIsAnswered`): the prover has no rules for fairness.
* The equality of `nextJob`'s closed form with its loop (`ClosedFormIsTheLoop`): the loop is
  a recursive operator, which no module with a theorem may reach.
* The rings that `GeometryBuffers` reads from polygons (`RingsAreClosed`), whose orientation is
  a sum over the points of a ring, and the lengths along a line in `Validity`
  (`OffsetsArePartsOfTheLine`), which are sums of distances: what such sums come to for every
  line needs an induction for each sum and for each way to cut it.
* Of `OperatorsAnswerGeometry`, the boxes in front of the exact tests, and the rays through
  polygons. The exact test of two segments is proved.

## 5. Where the code departs from what it says

1. `src/libs/service/src/service.cpp:386` (StopCompletes): removeDataSource and ~Impl set shouldTerminate_ and call notify_all without holding jobsMutex_, so a worker between a false wait predicate and its block misses both, and join() never returns; src/libs/service/include/mapget/service/service.h:125 says "Destructor. Stops all workers of the present data sources." and service.cpp:330 "Wake up all workers to check shouldTerminate_.".
2. `src/libs/service/src/service.cpp:271` (DoneWhenProcessed): when get(), an add-on or the cache throws, the catch block only logs: no result is counted, no status is set and the key stays in jobsInProgress_, so onDone_ is never called and wait() never returns; src/libs/service/include/mapget/service/service.h:65 says of onDone_ "The callback function which is called when all tiles have been processed.".
3. `src/libs/model/src/info.cpp:155` (CallsReturn): after all parts of an id have matched, the loop over the rest of the composition, "while (compositionIter != candidateComposition.end())", returns at a mandatory part and does nothing at an optional one: the iterator is never advanced. newFeature and newFeatureId with an id that leaves out an optional part at the end, and the service that merges an add-on feature with such an id, never return; src/libs/model/include/mapget/model/featurelayer.h:102-103 says of newFeature that the parts "must conform to an existing UniqueIdComposition for the feature typeId within the associated layer, or a runtime error will be raised.".
4. `src/libs/model/src/layer.cpp:31` (KeysComeBack): the constructor of MapTileKey reads the type of the layer from partsVec[1], which is the map id, instead of partsVec[0], and a word that is no layer type is read as Features: a key of a SourceData layer, written with toString and parsed again, as in the LocateResponse of a remote data source (src/libs/service/src/locate.cpp:55), is one of a feature layer; src/libs/model/include/mapget/model/layer.h:47 says "Constructor to parse the key from a string, as returned by toString.".

More departures were met while modelling and are not given a run of their own:

* `abort()` of a request whose last tile has been taken finds it in no list and
  leaves it open until that tile is there, or for ever if its fetch throws
  (`service.cpp:427`; `service.h:164` says "forcefully marked as done");
* an empty request bundled with one that is rejected is a success whose `onDone_`
  is never called (`service.cpp:580`; `service.cpp:34` says it will be);
* the error callbacks of a configuration are called without the mutex
  (`config.cpp:125`), so one may run after the POST it belongs to has returned,
  on references to a stack that is gone (`NotifyError` in `DataSourceConfig`);
* a configuration with one node id twice ends the process (`Crash`): `loadConfig`
  catches YAML errors only;
* a POST `/config` that is polled between the truncation and the writing of the file
  answers 500 although its configuration is applied at the next poll; one that
  brings the content the file already has waits for its timeout; and of two at a time
  one may be told the outcome of the other;
* a worker that takes a tile and then sees `shouldTerminate_` drops it, also if
  another source could have served it (`service.cpp:244`; `service.h:139` says only
  requests no other source can satisfy are affected);
* a layer that only an add-on source offers passes the access check and is never
  served (`service.cpp:626`);
* results arrive in the order in which the workers finish, not "in the given order"
  (`service.h:60`);
* a `/tiles` handler that registers late aborts a newer stream of its client
  (`http-service.cpp:309`);
* the binary `EndOfStream` message ends a JSON response too (`http-service.cpp:339`),
  and the code accepts `application/jsonl` where `README.md:331` names `text/jsonl`;
* `MemCache` keeps nothing under the limit 0, which `README.md:92` and `cli.cpp:210`
  call unlimited;
* the config file is read once for its hash and again as YAML (`config.cpp:101`): when
  it is written in between and has its earlier content back at the next poll, the hash
  is found unchanged and that content is not applied (`README.md:51` says changes are
  "applied immediately once the config file is saved");
* a data source that restarts under a new node id while the service goes on is asked
  with the offset of the old node id (`datasource-client.cpp:61`), so that the strings
  up to it are never sent (`stream.h:117` says the required part of the pool is);
* `find` of a text runs over the composition with and then without the optional parts,
  and the second pass always decides (`featurelayer.cpp:1225`): what `toString()`
  prints of an id with an optional part is not found;
* an integer given as a string passes the check of an id, which converts a copy
  (`info.cpp:134`, `info.h` says the converted value is written back), and is stored
  as a string, so that the integer does not find it;
* a prefix that leaves out an optional part is accepted (`featurelayer.cpp:758`), but
  `newFeature` takes its length for the position in the composition;
* `clone` strips the prefix of an id by its length (`featurelayer.cpp:1144`): an add-on
  feature of another area becomes one of this area, if need be a second one;
* `setStrings` resolves the geometry names of validities in the new pool instead of
  the old one (`featurelayer.cpp:905`);
* `onDone_` notifies the stream without the mutex its content provider waits with
  (`http-service.cpp:284`): between the predicate and the wait the last notification may
  be missed, and the response does not end before the client leaves (`http-service.cpp:315-316`
  promise data "until all tile requests are done. Then, signal sink->done()"); the `Block`
  and `NotifyDone` of `HttpTilesStream` have this step;
* `RemoteDataSourceProcess` connects on the thread that reads the child's output
  (`datasource-client.cpp:164`): when that fails the program ends, while
  `datasource-client.h:66` says the constructor throws "if the connection fails for any
  reason"; and `HttpServer::go` prints a port without looking whether it was bound
  (`http-server.cpp:66`), so that the connection may be to a foreign server;
* a clockwise ring that is closed already comes out open, since it is read backwards
  from its first point (`geometry.cpp:661`; line 654 says "GeoJSON rings must be
  closed"), and the direction of every mesh triangle but the first is computed with a
  point of another one (`geometry.cpp:631`);
* a length behind the end of a line resolves to its first point, a segment of length
  zero divides by zero (`geometry.cpp:422`), and a position that projects on no segment
  adds an uninitialized offset (`geometry.cpp:342`);
* `addLine({})` asks for a capacity of -1, which wraps (`feature.cpp:248`);
* the clone of a validity loses the name of its geometry and the feature it refers to,
  the clone of a geometry its name (`featurelayer.cpp:954`, `featurelayer.cpp:1031`);
* `LineString::bbox` seeks its largest coordinate from the least positive number on
  (`simfil-geometry.cpp:252`), so that lines of negative coordinates inside a box do not
  intersect it;
* a point is not in a polygon if its ray hits a corner, such as the center of a diamond
  (`simfil-geometry.cpp:304`), and whether two polygons intersect, one of which lies in the
  other, depends on the side: a corner of the left one is looked for in the right one, and not
  the other way round (`simfil-geometry.cpp:389`);
* `geo()` returns the first point of a MultiPoint only (`simfil-geometry.cpp:861`), and
  `linestring` takes numbers after a point for coordinates (`simfil-geometry.cpp:1094`);
* the columns of tile ids have 16 bits, so that ids of level 16 and deeper lose the
  upper ones (`tileid.cpp:69`, `README.md` names no limit), and `size()` shifts an `int`,
  which overflows from level 30 on (`tileid.cpp:121`);
* the tile with an error that stands for a failed remote fetch is cached and served
  from then on (`datasource-client.cpp:86`, `service.cpp:260`);
* a data source that restarts under the same node id, which an explicit `nodeId`
  brings about, gives ids other meanings than the stored pools have. `string_pools`
  assumes a new id: with the old one its `OffsetsTell` would not hold.

## 6. What is not modelled, and the plan

In this order:

1. `StringNames`: `setStrings` and `clone` between the pools of a base tile, an add-on
   tile and the artificial node of both (`service.cpp:471-479`), composed with
   `StringPoolSync`; two tiles, two add-ons. To state: every id of a merged tile means
   what it meant where it was filled, also for a client and after a restart.
2. The end of the HTTP client that sets, or does not set, a status; and `locate` of the
   service over its data sources.
3. Theorems: that the rings of polygons are closed and turn the way they should
   (`RingsAreClosed`), and that the boxes in front of the exact tests of `SimfilGeometry` lose
   nothing.

Out of reach: floating-point geometry, and what SQLite, spdlog, cpp-httplib and
simfil do inside. Left aside because they keep no state or only forward: logging,
the command line, the Python bindings, JSON and YAML of `DataSourceInfo`.
