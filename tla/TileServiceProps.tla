-------------------------- MODULE TileServiceProps --------------------------
(***************************************************************************)
(* What the tile service must do: the properties of TileService that the   *)
(* runs check and TileServiceProofs proves, and the claims of comments and *)
(* of service.h that the code does not keep.                               *)
(***************************************************************************)
EXTENDS TileService

----------------------------------------------------------------------------
(* Safety                                                                  *)

\* Two workers, of one source or of two, never fetch the same tile at the
\* same time, and what a worker holds is marked in jobsInProgress_.
NoDoubleWork ==
  \A v, w \in Workers :
    Holds(w) => /\ HeldKey(w) \in jobsInProgress
                /\ Holds(v) /\ HeldKey(v) = HeldKey(w) => v = w

\* The positions of r that some worker is busy with.
InHand(r) == {p \in Positions(r) : \E w \in Workers : Holds(w) /\ job[w] = <<r, p>>}

\* Whatever nextTileIndex_ has passed was delivered, is in the hands of a
\* worker or went down with a dropped job, and never two of these: no tile is
\* skipped or delivered twice, by cache, fetch, abort or removal.
TilesAccounted ==
  \A r \in Requests :
    /\ 1..nextTileIndex[r] = delivered[r] \cup InHand(r) \cup lost[r]
    /\ delivered[r] \cap InHand(r) = {}
    /\ delivered[r] \cap lost[r] = {}
    /\ InHand(r) \cap lost[r] = {}

\* Why they hold: a worker holds a tile its request has; no index runs
\* past the end; and only workers of sources that are registered or being
\* stopped run, so that adding a source again revives no busy worker.
JobsInRange ==
  \A w \in Workers : Holds(w) =>
    job[w] \in Requests \X Nat /\ job[w][2] \in Positions(job[w][1])

IndexInRange == \A r \in Requests : nextTileIndex[r] <= Size(r)

OnlyRunningWork ==
  /\ \A w \in Workers : pc[w] # "exited" => SourceOf[w] \in running
  /\ running \subseteq registered \cup manager.stopping
  /\ manager.pc = "idle" => manager.stopping = {}

\* A loop of request() is at a request of its batch, and starts at the first.
CallsInRange ==
  \A c \in Calls :
    /\ call[c].pc = "idle" => call[c].at = 1
    /\ call[c].pc \in {"access", "add", "notify"} => call[c].at \in 1..Len(Batch[c])

\* The inductive invariant behind TypeOK, NoDoubleWork and TilesAccounted.
IInv ==
  /\ TypeOK
  /\ IndexInRange
  /\ JobsInRange
  /\ NoDoubleWork
  /\ TilesAccounted
  /\ OnlyRunningWork
  /\ CallsInRange

\* A request in the list is open and has tiles left; so an abort never hits a
\* request whose last result would still turn it into a success.
ListedAreOpen ==
  \A r \in requests : status[r] = "Open" /\ nextTileIndex[r] < Size(r)

\* Success means that every tile was handed over, and the last tile handed
\* over means success. A request without tiles may be rejected.
SuccessIsComplete ==
  \A r \in Requests :
    /\ status[r] = "Success" => delivered[r] = Positions(r)
    /\ Size(r) > 0 /\ delivered[r] = Positions(r) => status[r] = "Success"

\* onDone_ is called once at most, and never while the request is open.
DoneOnce ==
  \A r \in Requests : doneCalls[r] <= 1 /\ (doneCalls[r] = 1 => status[r] # "Open")

\* A request ends once: it stays in the list while it is open, with the right
\* status, and calls back no more than once.
RequestsEndOnce == ListedAreOpen /\ SuccessIsComplete /\ DoneOnce

\* A key stays in jobsInProgress_ only while a worker holds it or because a
\* worker dropped it.
InProgressExplained ==
  \A k \in jobsInProgress :
    \/ \E w \in Workers : Holds(w) /\ HeldKey(w) = k
    \/ \E r \in Requests : \E p \in lost[r] : KeyOf(r, p) = k

\* No worker is blocked while it could take a tile that nobody is working on,
\* unless a notification is still to come: from a request just added, or from
\* a worker that has touched the cache and is about to hand in its result.
NoMissedJob ==
  \A w \in Workers : pc[w] = "waiting" =>
    \/ shouldTerminate[w]
    \/ Takeable(w) = {}
    \/ \E c \in Calls : call[c].pc = "notify"
    \/ \E v \in Workers : pc[v] = "fetched"

\* A call of request() takes all of its requests or none: when it returns
\* true it has rejected none, and when it returns false, every one of them is
\* done and no tile of them was ever looked at.
AllOrNothing ==
  \A c \in Calls : call[c].pc = "returned" =>
    \A i \in DOMAIN Batch[c] :
      LET r == Batch[c][i]
      IN  IF call[c].ok THEN status[r] \notin {"NoDataSource", "Unauthorized"}
          ELSE status[r] # "Open" /\ nextTileIndex[r] = 0 /\ r \notin requests

----------------------------------------------------------------------------
(* What a step may never do                                                *)

\* The status a request ends with is final, and after an abort no more tiles of the
\* request are taken: at most the tiles in hand at that time still arrive.
EndIsFinal ==
  [][\A r \in Requests :
       /\ status[r] # "Open" /\ Size(r) > 0 => status'[r] = status[r]
       /\ status[r] = "Aborted" =>
            /\ nextTileIndex'[r] = nextTileIndex[r]
            /\ delivered'[r] \subseteq delivered[r] \cup InHand(r)]_vars

----------------------------------------------------------------------------
(* Claims of the comments and of service.h that the code does not keep.    *)

\* onDone_ is "called when all tiles have been processed".
DoneWhenProcessed ==
  \A r \in Requests :
    Size(r) > 0 /\ nextTileIndex[r] = Size(r) /\ InHand(r) = {} ~> doneCalls[r] = 1

\* The destructor, and remove(), stop the workers and return.
StopCompletes == manager.pc = "signal" ~> manager.pc = "idle"

----------------------------------------------------------------------------
(* Liveness                                                                *)

Healthy(r) == \A p \in Positions(r) : TilesOf[r][p] \notin FaultyTiles

\* Every request that none of the faults can hit is done and its onDone_ is
\* called, whatever happens to the requests it competes with.
HealthyRequestsFinish ==
  \A c \in Calls : \A i \in DOMAIN Batch[c] :
    Healthy(Batch[c][i]) =>
      (call[c].pc # "idle" ~> doneCalls[Batch[c][i]] = 1)
=============================================================================
