---------------------------- MODULE TileService ----------------------------
(***************************************************************************)
(* The tile service of libs/service/src/service.cpp: client threads hand   *)
(* LayerTilesRequests to Service::request, the worker threads of each data *)
(* source take tiles from them in Controller::nextJob, fetch what the      *)
(* cache does not hold and hand every tile to the callbacks of its         *)
(* request, while a manager thread adds and removes data sources and at    *)
(* last destroys the service.                                              *)
(*                                                                         *)
(* jobsMutex_ is held across steps only by a worker whose wait predicate   *)
(* was false and which has not yet blocked ("parking"): every other        *)
(* critical section is one action, enabled when no worker is parking.      *)
(* The cache is what every Cache class keeps to: a put may keep the tile   *)
(* or not, and may evict any others.                                       *)
(***************************************************************************)
EXTENDS Integers, Sequences, FiniteSets

CONSTANTS
  Requests,      \* the LayerTilesRequest objects
  Calls,         \* the calls of Service::request, one client thread each
  Batch,         \* Batch[c]: the sequence of requests call c passes
  Layers,        \* the map+layer pairs
  LayerOf,       \* LayerOf[r]: mapId_ and layerId_ of r
  Tiles,
  TilesOf,       \* TilesOf[r]: tiles_ of r
  Sources,       \* the data sources
  Provides,      \* Provides[s]: the map+layers in the info of s
  Workers,       \* the worker threads of all data sources
  SourceOf,      \* SourceOf[w]: the source of w; an add-on source has none
  InitialSources,\* the sources added before the first client call
  Authorized,    \* the sources the headers of the clients give access to
  FaultyTiles,   \* tiles for which get(), an add-on or the cache may throw
  Abortable,     \* requests a client may pass to Service::abort
  Removable,     \* sources the manager may remove and add again
  MayDestroy     \* whether the service may be destroyed

ASSUME ServiceAssumption ==
  /\ Batch \in [Calls -> Seq(Requests)]
  /\ LayerOf \in [Requests -> Layers]
  /\ TilesOf \in [Requests -> Seq(Tiles)]
  /\ Provides \in [Sources -> SUBSET Layers]
  /\ SourceOf \in [Workers -> Sources]
  /\ InitialSources \subseteq Sources
  /\ Removable \subseteq Sources
  /\ MayDestroy \in BOOLEAN

\* A LayerTilesRequest is made for one call of request(): HttpService makes a new
\* one for every entry of the "requests" of a client.
ASSUME OneCallPerRequest ==
  \A c, d \in Calls : \A i \in DOMAIN Batch[c], j \in DOMAIN Batch[d] :
    Batch[c][i] = Batch[d][j] => c = d /\ i = j

VARIABLES
  requests,        \* requests_: the members of the list
  ahead,           \* <<q, r>>: q is nearer to the front of requests_ than r
  nextTileIndex,   \* nextTileIndex_ of every request
  resultCount,     \* resultCount_ of every request
  status,          \* status_ of every request
  doneCalls,       \* how often onDone_ of the request was called
  delivered,       \* history: the positions of tiles_ given to the callback
  lost,            \* history: the positions whose job was dropped
  aborted,         \* history: the requests for which abort() has returned
  jobsInProgress,  \* jobsInProgress_
  cached,          \* the keys the cache can answer
  pc,              \* where each worker thread is
  job,             \* nextJob of each worker: <<request, position>>, or <<>>
  shouldTerminate, \* shouldTerminate_ of each worker
  call,            \* the state of each client call
  registered,      \* the keys of dataSourceInfo_
  running,         \* the sources in dataSourceWorkers_
  manager          \* the thread in removeDataSource or in the destructor

requestVars == <<requests, ahead, nextTileIndex, resultCount, status,
                 doneCalls, delivered, lost, aborted>>
workerVars  == <<pc, job, shouldTerminate>>
managerVars == <<registered, running, manager>>
vars == <<requestVars, jobsInProgress, cached, workerVars, call, managerVars>>

Status   == {"Open", "Success", "NoDataSource", "Unauthorized", "Aborted"}
NoJob    == <<>>
Key      == Layers \X Tiles
Size(r)  == Len(TilesOf[r])
Positions(r) == 1..Size(r)
KeyOf(r, p)  == <<LayerOf[r], TilesOf[r][p]>>
WorkersOf(S) == {w \in Workers : SourceOf[w] \in S}

\* The workers between taking a job and handing in its result.
Holds(w)  == pc[w] \in {"taken", "fetching", "fetched"}
HeldKey(w) == KeyOf(job[w][1], job[w][2])

MutexFree == \A w \in Workers : pc[w] # "parking"

\* Mutation of Notified: nobody is notified.
NotifiedNobody == pc

\* pc after jobsAvailable_.notify_all(): only who is blocked is woken.
Notified == [w \in Workers |-> IF pc[w] = "waiting" THEN "check" ELSE pc[w]]

----------------------------------------------------------------------------
(* LayerTilesRequest                                                       *)

\* The constructor: a request without tiles is a success from the start.
InitialStatus(r) == IF Size(r) = 0 THEN "Success" ELSE "Open"

\* setStatus(s) of one request, with the notifyStatus() it ends in.
SetStatus(r, s) ==
  /\ status' = [status EXCEPT ![r] = s]
  /\ doneCalls' = [doneCalls EXCEPT ![r] = @ + 1]

\* Mutation of Completes: the count is compared before it is incremented.
CompletesLate(r, n) == n > 0 /\ resultCount[r] = Size(r)

\* The last of n results of r is the one that resultCount_ waits for.
Completes(r, n) == n > 0 /\ resultCount[r] + n = Size(r)

\* notifyResult for the n[r] tiles of each request r at the positions got[r].
NotifyResults(n, got) ==
  /\ delivered' = [r \in Requests |-> delivered[r] \cup got[r]]
  /\ resultCount' = [r \in Requests |-> resultCount[r] + n[r]]
  /\ status' = [r \in Requests |->
                   IF Completes(r, n[r]) THEN "Success" ELSE status[r]]
  /\ doneCalls' = [r \in Requests |->
                   IF Completes(r, n[r]) THEN doneCalls[r] + 1 ELSE doneCalls[r]]

----------------------------------------------------------------------------
(* Controller::nextJob. Its loop goes over requests_ again and again; each *)
(* pass looks at one tile of every request the worker can serve: it hands  *)
(* in a cached tile, leaves a tile in progress for later, and stops at the *)
(* first other tile. The passes end when one of them serves nothing.       *)

Wanted(w, r) == r \in requests /\ LayerOf[r] \in Provides[SourceOf[w]]

\* The position at which the cache stops serving r, one past the end if none.
Stop(r) ==
  LET missing == {p \in Positions(r) :
                    p > nextTileIndex[r] /\ KeyOf(r, p) \notin cached}
  IN  IF missing = {} THEN Size(r) + 1
      ELSE CHOOSE p \in missing : \A q \in missing : p <= q

\* The pass of the loop that looks at position Stop(r).
Pass(r) == Stop(r) - nextTileIndex[r]

\* Mutation of Takeable: jobsInProgress_ is not consulted.
TakeableTwice(w) == {r \in Requests : Wanted(w, r) /\ Stop(r) <= Size(r)}

\* The requests whose first tile that is not cached the worker could fetch.
Takeable(w) == {r \in Requests :
  /\ Wanted(w, r)
  /\ Stop(r) <= Size(r)
  /\ KeyOf(r, Stop(r)) \notin jobsInProgress}

\* Mutation of IsNextJob: the nearest to the front wins, whatever the pass.
IsFirstInList(w, r) ==
  /\ r \in Takeable(w)
  /\ \A q \in Takeable(w) \ {r} : <<r, q>> \in ahead

\* Who offers a job in the earliest pass, and nearest to the front in it.
IsNextJob(w, r) ==
  /\ r \in Takeable(w)
  /\ \A q \in Takeable(w) \ {r} :
       Pass(r) < Pass(q) \/ (Pass(r) = Pass(q) /\ <<r, q>> \in ahead)

\* The cached tiles of r served before the job of j is found: one in every
\* pass that reaches r.
ServedBefore(w, r, j) ==
  LET passes == IF r = j \/ <<r, j>> \in ahead THEN Pass(j) ELSE Pass(j) - 1
  IN  IF ~Wanted(w, r) THEN 0
      ELSE IF passes < Pass(r) - 1 THEN passes ELSE Pass(r) - 1

\* Without a job the passes go on until no cached tile is left.
ServedWithoutJob(w, r) == IF Wanted(w, r) THEN Pass(r) - 1 ELSE 0

\* Mutation of TakenWithoutJob: nextTileIndex_ counts the delayed tile too.
TakenWithDelayed(w, r) ==
  IF Wanted(w, r) /\ Stop(r) <= Size(r) THEN Stop(r)
  ELSE nextTileIndex[r] + ServedWithoutJob(w, r)

\* Mutation of TakenWithoutJob: a delayed tile is put back twice.
TakenBackTwice(w, r) ==
  IF Wanted(w, r) /\ Stop(r) <= Size(r)
  THEN nextTileIndex[r] + ServedWithoutJob(w, r) - 1
  ELSE nextTileIndex[r] + ServedWithoutJob(w, r)

\* nextTileIndex_ of r then: a delayed tile is put back.
TakenWithoutJob(w, r) == nextTileIndex[r] + ServedWithoutJob(w, r)

\* The requests that are left in the list when it is cleaned up.
Unfinished(taken) == {r \in requests : taken[r] # Size(r)}

\* The cached tiles are delivered; taken is how far each request has come.
ServeCached(served, taken) ==
  /\ NotifyResults(served,
       [r \in Requests |-> (nextTileIndex[r] + 1)..(nextTileIndex[r] + served[r])])
  /\ nextTileIndex' = taken
  /\ requests' = Unfinished(taken)

\* nextJob finds a job in r, which moves to the end of the list.
TakeJob(w, r) ==
  LET served == [q \in Requests |-> ServedBefore(w, q, r)]
      taken  == [q \in Requests |-> IF q = r THEN Stop(r)
                                    ELSE nextTileIndex[q] + served[q]]
      spliced == {a \in ahead : a[1] # r /\ a[2] # r} \cup ((requests \ {r}) \X {r})
  IN  /\ IsNextJob(w, r)
      /\ ServeCached(served, taken)
      /\ ahead' = {a \in spliced : a[1] \in requests' /\ a[2] \in requests'}
      /\ jobsInProgress' = jobsInProgress \cup {KeyOf(r, Stop(r))}
      /\ job' = [job EXCEPT ![w] = <<r, Stop(r)>>]
      /\ pc' = [pc EXCEPT ![w] = "taken"]

\* nextJob finds none: the predicate is false, the worker is about to block.
FindNothing(w) ==
  LET served == [q \in Requests |-> ServedWithoutJob(w, q)]
  IN  /\ Takeable(w) = {}
      /\ ServeCached(served, [q \in Requests |-> TakenWithoutJob(w, q)])
      /\ ahead' = {a \in ahead : a[1] \in requests' /\ a[2] \in requests'}
      /\ pc' = [pc EXCEPT ![w] = "parking"]
      /\ UNCHANGED <<jobsInProgress, job>>

----------------------------------------------------------------------------
(* Worker::work                                                            *)

\* Lock jobsMutex_ and evaluate the wait predicate.
CheckJobs(w) ==
  /\ pc[w] = "check"
  /\ MutexFree
  /\ ~shouldTerminate[w]
  /\ FindNothing(w) \/ \E r \in Requests : TakeJob(w, r)
  /\ UNCHANGED <<lost, aborted, cached, shouldTerminate, call, managerVars>>

\* The predicate sees shouldTerminate_: work() returns false.
Exit(w) ==
  /\ pc[w] = "check"
  /\ MutexFree
  /\ shouldTerminate[w]
  /\ pc' = [pc EXCEPT ![w] = "exited"]
  /\ UNCHANGED <<requestVars, jobsInProgress, cached, job, shouldTerminate,
                 call, managerVars>>

\* wait() releases jobsMutex_ and blocks.
Block(w) ==
  /\ pc[w] = "parking"
  /\ pc' = [pc EXCEPT ![w] = "waiting"]
  /\ UNCHANGED <<requestVars, jobsInProgress, cached, job, shouldTerminate,
                 call, managerVars>>

\* wait() may return from its block without a notification.
SpuriousWakeup(w) ==
  /\ pc[w] = "waiting"
  /\ pc' = [pc EXCEPT ![w] = "check"]
  /\ UNCHANGED <<requestVars, jobsInProgress, cached, job, shouldTerminate,
                 call, managerVars>>

\* A job is dropped: nothing removes its key from jobsInProgress_ any more.
DropJob(w, next) ==
  /\ lost' = [lost EXCEPT ![job[w][1]] = @ \cup {job[w][2]}]
  /\ job' = [job EXCEPT ![w] = NoJob]
  /\ pc' = [pc EXCEPT ![w] = next]
  /\ UNCHANGED <<requests, ahead, nextTileIndex, resultCount, status, doneCalls,
                 delivered, aborted, jobsInProgress, cached, shouldTerminate,
                 call, managerVars>>

\* The second look at shouldTerminate_, after the mutex is released.
StartJob(w) ==
  /\ pc[w] = "taken"
  /\ ~shouldTerminate[w]
  /\ pc' = [pc EXCEPT ![w] = "fetching"]
  /\ UNCHANGED <<requestVars, jobsInProgress, cached, job, shouldTerminate,
                 call, managerVars>>

ExitWithJob(w) ==
  /\ pc[w] = "taken"
  /\ shouldTerminate[w]
  /\ DropJob(w, "exited")

\* get(), the add-ons and putTileLayer succeed.
FetchTile(w) ==
  /\ pc[w] = "fetching"
  /\ \E kept \in SUBSET (cached \cup {HeldKey(w)}) : cached' = kept
  /\ pc' = [pc EXCEPT ![w] = "fetched"]
  /\ UNCHANGED <<requestVars, jobsInProgress, job, shouldTerminate, call,
                 managerVars>>

\* One of them throws: the error is logged, the next job is looked for.
FetchFails(w) ==
  /\ pc[w] = "fetching"
  /\ TilesOf[job[w][1]][job[w][2]] \in FaultyTiles
  /\ DropJob(w, "check")

\* Mutation of Erased: the key stays in jobsInProgress_.
ErasedNothing(w) == jobsInProgress

Erased(w) == jobsInProgress \ {HeldKey(w)}

\* The result is handed in under the mutex and the other workers are notified.
FinishJob(w) ==
  LET r == job[w][1]
  IN  /\ pc[w] = "fetched"
      /\ MutexFree
      /\ jobsInProgress' = Erased(w)
      /\ NotifyResults([q \in Requests |-> IF q = r THEN 1 ELSE 0],
                       [q \in Requests |-> IF q = r THEN {job[w][2]} ELSE {}])
      /\ pc' = [Notified EXCEPT ![w] = "check"]
      /\ job' = [job EXCEPT ![w] = NoJob]
      /\ UNCHANGED <<requests, ahead, nextTileIndex, lost, aborted, cached,
                     shouldTerminate, call, managerVars>>

----------------------------------------------------------------------------
(* Service::request, one call per client thread, and Service::abort        *)

Current(c) == Batch[c][call[c].at]

\* The loop of call c goes on with the next request, or ends.
Advance(c, ok) ==
  LET more == call[c].at < Len(Batch[c])
      loop == IF call[c].pc = "access" THEN "access" ELSE "add"
      next == IF loop = "access" THEN "add" ELSE "returned"
  IN  [pc |-> IF more THEN loop ELSE next,
       at |-> IF more THEN call[c].at + 1 ELSE 1,
       ok |-> ok]

BeginCall(c) ==
  /\ call[c].pc = "idle"
  /\ ~manager.destroyed
  /\ call' = [call EXCEPT ![c] =
                IF Batch[c] = <<>> THEN [@ EXCEPT !.pc = "returned"]
                ELSE [@ EXCEPT !.pc = "access"]]
  /\ UNCHANGED <<requestVars, jobsInProgress, cached, workerVars, managerVars>>

\* hasLayerAndCanAccess: the first matching source decides; their order in
\* dataSourceInfo_ is that of their addresses.
AccessOutcomes(r) ==
  LET matching == {s \in registered : LayerOf[r] \in Provides[s]}
  IN  IF matching = {} THEN {"NoDataSource"}
      ELSE {IF s \in Authorized THEN "Success" ELSE "Unauthorized" : s \in matching}

\* Mutation of Accepted: the flag is overwritten, the last check decides.
AcceptedAtLast(c) == Advance(c, TRUE)

\* A check that succeeds leaves dataSourcesAvailable as it is.
Accepted(c) == Advance(c, call[c].ok)

\* The first loop of request(): the check of one request.
CheckAccess(c) ==
  /\ call[c].pc = "access"
  /\ MutexFree
  /\ \E outcome \in AccessOutcomes(Current(c)) :
       IF outcome = "Success"
       THEN /\ call' = [call EXCEPT ![c] = Accepted(c)]
            /\ UNCHANGED <<status, doneCalls>>
       ELSE /\ call' = [call EXCEPT ![c] = Advance(c, FALSE)]
            /\ SetStatus(Current(c), outcome)
  /\ UNCHANGED <<requests, ahead, nextTileIndex, resultCount, delivered, lost,
                 aborted, jobsInProgress, cached, workerVars, managerVars>>

\* The second loop, some check failed: an open request is aborted.
RejectRequest(c) ==
  /\ call[c].pc = "add"
  /\ ~call[c].ok
  /\ IF status[Current(c)] = "Open"
     THEN SetStatus(Current(c), "Aborted")
     ELSE UNCHANGED <<status, doneCalls>>
  /\ call' = [call EXCEPT ![c] = Advance(c, @.ok)]
  /\ UNCHANGED <<requests, ahead, nextTileIndex, resultCount, delivered, lost,
                 aborted, jobsInProgress, cached, workerVars, managerVars>>

\* addRequest of a request that is done: only notifyStatus().
AddDoneRequest(c) ==
  /\ call[c].pc = "add"
  /\ call[c].ok
  /\ status[Current(c)] # "Open"
  /\ doneCalls' = [doneCalls EXCEPT ![Current(c)] = @ + 1]
  /\ call' = [call EXCEPT ![c] = Advance(c, @.ok)]
  /\ UNCHANGED <<requests, ahead, nextTileIndex, resultCount, status, delivered,
                 lost, aborted, jobsInProgress, cached, workerVars, managerVars>>

\* addRequest of an open request: push_back under the mutex ...
AddRequest(c) ==
  /\ call[c].pc = "add"
  /\ call[c].ok
  /\ status[Current(c)] = "Open"
  /\ MutexFree
  /\ requests' = requests \cup {Current(c)}
  /\ ahead' = ahead \cup (requests \X {Current(c)})
  /\ call' = [call EXCEPT ![c].pc = "notify"]
  /\ UNCHANGED <<nextTileIndex, resultCount, status, doneCalls, delivered, lost,
                 aborted, jobsInProgress, cached, workerVars, managerVars>>

\* ... and notify_all without it.
NotifyAdded(c) ==
  /\ call[c].pc = "notify"
  /\ pc' = Notified
  /\ call' = [call EXCEPT ![c] = Advance(c, @.ok)]
  /\ UNCHANGED <<requestVars, jobsInProgress, cached, job, shouldTerminate,
                 managerVars>>

\* Only a request found in the list is marked as done.
MarkAborted(r) ==
  IF r \in requests THEN SetStatus(r, "Aborted") ELSE UNCHANGED <<status, doneCalls>>

\* Mutation of WithoutRequest: the request stays in the list.
WithRequest(r) == requests

WithoutRequest(r) == requests \ {r}

\* abort(r), by a client whose request() has returned.
AbortRequest(c, r) ==
  /\ call[c].pc = "returned"
  /\ ~manager.destroyed
  /\ \E i \in DOMAIN Batch[c] : Batch[c][i] = r
  /\ r \in Abortable \ aborted
  /\ MutexFree
  /\ aborted' = aborted \cup {r}
  /\ requests' = WithoutRequest(r)
  /\ ahead' = {a \in ahead : a[1] # r /\ a[2] # r}
  /\ MarkAborted(r)
  /\ UNCHANGED <<nextTileIndex, resultCount, delivered, lost, jobsInProgress,
                 cached, workerVars, call, managerVars>>

----------------------------------------------------------------------------
(* addDataSource, removeDataSource and ~Impl. They are never called in     *)
(* parallel with each other (service.h).                                   *)

\* Every worker starts with a first evaluation of its wait predicate.
AddDataSource(s) ==
  /\ manager.pc = "idle" /\ ~manager.destroyed
  /\ s \in Removable \ registered
  /\ registered' = registered \cup {s}
  /\ running' = IF WorkersOf({s}) = {} THEN running ELSE running \cup {s}
  /\ pc' = [w \in Workers |-> IF SourceOf[w] = s THEN "check" ELSE pc[w]]
  /\ shouldTerminate' = [w \in Workers |-> shouldTerminate[w] /\ SourceOf[w] # s]
  /\ UNCHANGED <<requestVars, jobsInProgress, cached, job, call, manager>>

\* removeDataSource(s): no new request is accepted for s from here on.
RemoveDataSource(s) ==
  /\ manager.pc = "idle" /\ ~manager.destroyed
  /\ s \in Removable \cap registered
  /\ registered' = registered \ {s}
  /\ manager' = IF s \in running
                THEN [manager EXCEPT !.pc = "signal", !.stopping = {s}]
                ELSE manager
  /\ UNCHANGED <<requestVars, jobsInProgress, cached, workerVars, call, running>>

\* ~Impl stops the workers of every source; no client call may be under way.
Destroy ==
  /\ MayDestroy
  /\ manager.pc = "idle" /\ ~manager.destroyed
  /\ \A c \in Calls : call[c].pc \in {"idle", "returned"}
  /\ manager' = [pc |-> "signal", stopping |-> running, destroyed |-> TRUE]
  /\ UNCHANGED <<requestVars, jobsInProgress, cached, workerVars, call,
                 registered, running>>

\* shouldTerminate_ is set for each worker, jobsMutex_ not being locked ...
SignalWorkers ==
  /\ manager.pc = "signal"
  /\ manager' = [manager EXCEPT !.pc = "notify"]
  /\ shouldTerminate' = [w \in Workers |->
                           shouldTerminate[w] \/ SourceOf[w] \in manager.stopping]
  /\ UNCHANGED <<requestVars, jobsInProgress, cached, pc, job, call, registered,
                 running>>

\* ... then all that are blocked by then are notified ...
NotifyWorkers ==
  /\ manager.pc = "notify"
  /\ manager' = [manager EXCEPT !.pc = "join"]
  /\ pc' = Notified
  /\ UNCHANGED <<requestVars, jobsInProgress, cached, job, shouldTerminate, call,
                 registered, running>>

\* ... and joined.
JoinWorkers ==
  /\ manager.pc = "join"
  /\ \A w \in WorkersOf(manager.stopping) : pc[w] = "exited"
  /\ running' = running \ manager.stopping
  /\ manager' = [manager EXCEPT !.pc = "idle", !.stopping = {}]
  /\ UNCHANGED <<requestVars, jobsInProgress, cached, workerVars, call, registered>>

----------------------------------------------------------------------------
Init ==
  /\ requests = {}
  /\ ahead = {}
  /\ nextTileIndex = [r \in Requests |-> 0]
  /\ resultCount = [r \in Requests |-> 0]
  /\ status = [r \in Requests |-> InitialStatus(r)]
  /\ doneCalls = [r \in Requests |-> 0]
  /\ delivered = [r \in Requests |-> {}]
  /\ lost = [r \in Requests |-> {}]
  /\ aborted = {}
  /\ jobsInProgress = {}
  /\ cached = {}
  /\ pc = [w \in Workers |->
             IF SourceOf[w] \in InitialSources THEN "check" ELSE "exited"]
  /\ job = [w \in Workers |-> NoJob]
  /\ shouldTerminate = [w \in Workers |-> FALSE]
  /\ call = [c \in Calls |-> [pc |-> "idle", at |-> 1, ok |-> TRUE]]
  /\ registered = InitialSources
  /\ running = {s \in InitialSources : WorkersOf({s}) # {}}
  /\ manager = [pc |-> "idle", stopping |-> {}, destroyed |-> FALSE]

WorkerStep(w) ==
  \/ CheckJobs(w) \/ Exit(w) \/ Block(w) \/ SpuriousWakeup(w)
  \/ StartJob(w) \/ ExitWithJob(w) \/ FetchTile(w) \/ FetchFails(w)
  \/ FinishJob(w)

CallStep(c) ==
  \/ BeginCall(c) \/ CheckAccess(c) \/ RejectRequest(c) \/ AddDoneRequest(c)
  \/ AddRequest(c) \/ NotifyAdded(c)

ManagerStep ==
  \/ \E s \in Sources : AddDataSource(s) \/ RemoveDataSource(s)
  \/ Destroy \/ SignalWorkers \/ NotifyWorkers \/ JoinWorkers

Next ==
  \/ \E w \in Workers : WorkerStep(w)
  \/ \E c \in Calls : CallStep(c) \/ \E r \in Requests : AbortRequest(c, r)
  \/ ManagerStep

Spec == Init /\ [][Next]_vars

(* A thread that can go on does so, every fetch returns or throws, and     *)
(* jobsMutex_ is given in the end to every thread that asks for it again   *)
(* and again. Nobody has to call the service, and no wakeup is spurious    *)
(* unless it happens to be.                                                *)
Fairness ==
  /\ \A w \in Workers :
       /\ SF_vars(CheckJobs(w) \/ Exit(w))
       /\ SF_vars(FinishJob(w))
       /\ WF_vars(Block(w))
       /\ WF_vars(StartJob(w) \/ ExitWithJob(w))
       /\ WF_vars(FetchTile(w) \/ FetchFails(w))
  /\ \A c \in Calls :
       /\ SF_vars(CheckAccess(c))
       /\ SF_vars(AddRequest(c))
       /\ WF_vars(RejectRequest(c) \/ AddDoneRequest(c) \/ NotifyAdded(c))
  /\ WF_vars(SignalWorkers \/ NotifyWorkers \/ JoinWorkers)

FairSpec == Spec /\ Fairness

----------------------------------------------------------------------------
(* Type correctness.                                                       *)

CallState    == [pc : {"idle", "access", "add", "notify", "returned"},
                 at : Nat, ok : BOOLEAN]
ManagerState == [pc : {"idle", "signal", "notify", "join"},
                 stopping : SUBSET Sources, destroyed : BOOLEAN]

TypeOK ==
  /\ requests \subseteq Requests
  /\ ahead \subseteq Requests \X Requests
  /\ nextTileIndex \in [Requests -> Nat]
  /\ resultCount \in [Requests -> Nat]
  /\ status \in [Requests -> Status]
  /\ doneCalls \in [Requests -> Nat]
  /\ delivered \in [Requests -> SUBSET Nat]
  /\ lost \in [Requests -> SUBSET Nat]
  /\ aborted \subseteq Requests
  /\ jobsInProgress \subseteq Key
  /\ cached \subseteq Key
  /\ pc \in [Workers -> {"check", "parking", "waiting", "taken", "fetching",
                         "fetched", "exited"}]
  /\ job \in [Workers -> {NoJob} \cup (Requests \X Nat)]
  /\ shouldTerminate \in [Workers -> BOOLEAN]
  /\ call \in [Calls -> CallState]
  /\ registered \subseteq Sources
  /\ running \subseteq Sources
  /\ manager \in ManagerState
=============================================================================
