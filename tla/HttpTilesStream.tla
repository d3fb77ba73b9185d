---------------------------- MODULE HttpTilesStream ----------------------------
(***************************************************************************)
(* The /tiles streams of libs/http-service/src/http-service.cpp: a handler *)
(* thread turns a POST into LayerTilesRequests, the workers of the tile    *)
(* service write their results into the buffer of the stream, and the      *)
(* handler's content provider waits for results and sends them until all   *)
(* requests are done. Streams with one clientId replace each other, /abort *)
(* ends them, and a client may close its connection.                       *)
(*                                                                         *)
(* Of the tile service only its promises are modelled (TileService has the *)
(* rest): tiles of a listed request are taken in order, results are handed *)
(* in one at a time under jobsMutex_, and abort() ends a listed request.   *)
(* jobsMutex_ is held across steps by whoever hands in a result or aborts  *)
(* a request (handing); the mutex_ of a stream by its provider while it is *)
(* about to block or writes to the socket.                                 *)
(***************************************************************************)
EXTENDS Integers, Sequences, FiniteSets, SequencesExt

CONSTANTS
  Streams,       \* the POSTs to /tiles, each with a thread of its own
  Requests,      \* the LayerTilesRequest objects of all streams
  StreamOf,      \* StreamOf[r]: the stream whose requests_ has r
  Size,          \* Size[r]: the number of tiles of r
  Clients,       \* the values of clientId
  NoClient,
  ClientOf,      \* ClientOf[h]: clientId in the body of h, or NoClient
  Rejectable,    \* the streams whose requests the tile service may reject
  MayDisconnect, \* the streams whose client may close the connection
  MayAbort       \* the clients that may POST to /abort

ASSUME StreamAssumption ==
  /\ StreamOf \in [Requests -> Streams]
  /\ Size \in [Requests -> Nat]
  /\ NoClient \notin Clients
  /\ ClientOf \in [Streams -> Clients \cup {NoClient}]
  /\ Rejectable \subseteq Streams
  /\ MayDisconnect \subseteq Streams
  /\ MayAbort \subseteq Clients

VARIABLES
  handler,     \* where the handler thread of each stream is
  provider,    \* where its content provider is while it is streaming
  connected,   \* whether the client of the stream still listens
  buffer,      \* buffer_ of each stream: results and EndOfStream
  wire,        \* what the client of the stream has received
  todo,        \* the requests a handler whose client has gone has to abort
  listed,      \* the requests in requests_ of the tile service
  taken,       \* nextTileIndex_ of each request
  inHand,      \* the tiles of each request that a worker has taken
  resultCount, \* resultCount_ of each request
  status,      \* status_ of each request
  handing,     \* who holds jobsMutex_: the request and what comes next
  clientMap,   \* requestStatePerClientId_: clientId -> stream
  sweep        \* who holds clientRequestMapMutex_, and what is left to do

streamVars  == <<handler, provider, connected, buffer, wire, todo>>
serviceVars == <<listed, taken, inHand, resultCount, status, handing>>
clientVars  == <<clientMap, sweep>>
vars == <<streamVars, serviceVars, clientVars>>

\* No stream in requestStatePerClientId_: no entry, or a null pointer.
NoStream == "none"
ASSUME NoStreamAssumption == NoStream \notin Streams

Free     == [at |-> "free"]
End      == <<"EndOfStream">>
Tile(r, p) == <<r, p>>

RequestsOf(h) == {r \in Requests : StreamOf[r] = h}
IsDone(r)     == status[r] # "Open"

\* What setStatus(Success) or setStatus(Aborted) is followed by.
Notifying(r) == [at |-> "notify", request |-> r]

\* resultEvent_.notify_one() of stream h: only a provider that is blocked
\* by now is woken.
Woken(h) == IF provider[h] = "waiting" THEN [provider EXCEPT ![h] = "check"]
            ELSE provider

\* The mutex_ of the stream is not held across steps.
BufferFree(h) == provider[h] \notin {"parking", "writing"}

----------------------------------------------------------------------------
(* The handler thread                                                      *)

\* handleTilesRequest: Service::request() accepts all requests. The service may
\* start on the first ones before the last is added: nobody looks at their
\* states before the stream starts.
PostTiles(h) ==
  /\ handler[h] = "idle"
  /\ handler' = [handler EXCEPT
                   ![h] = IF ClientOf[h] = NoClient THEN "streaming" ELSE "accepted"]
  /\ listed' = listed \cup {r \in RequestsOf(h) : ~IsDone(r)}
  /\ UNCHANGED <<provider, connected, buffer, wire, todo, taken, inHand,
                 resultCount, status, handing, clientVars>>

\* Or it rejects them, which ends each, and the answer lists their states.
RejectTiles(h) ==
  /\ h \in Rejectable
  /\ handler[h] = "idle"
  /\ handler' = [handler EXCEPT ![h] = "rejected"]
  /\ status' = [r \in Requests |-> IF r \in RequestsOf(h) /\ ~IsDone(r)
                                   THEN "Aborted" ELSE status[r]]
  /\ UNCHANGED <<provider, connected, buffer, wire, todo, listed, taken, inHand,
                 resultCount, handing, clientVars>>

\* abortRequestsForClientId(clientId, state): the map is locked.
RegisterClient(h) ==
  LET k == ClientOf[h]
  IN  /\ handler[h] = "accepted"
      /\ sweep = Free
      /\ sweep' = [at |-> "abort", client |-> k, next |-> h,
                   todo |-> IF clientMap[k] = NoStream THEN {}
                            ELSE RequestsOf(clientMap[k])]
      /\ UNCHANGED <<streamVars, serviceVars, clientMap>>

\* handleAbortRequest: the same without a stream to put in the map.
PostAbort(k) ==
  /\ k \in MayAbort
  /\ sweep = Free
  /\ clientMap[k] # NoStream
  /\ sweep' = [at |-> "abort", client |-> k, next |-> NoStream,
               todo |-> RequestsOf(clientMap[k])]
  /\ UNCHANGED <<streamVars, serviceVars, clientMap>>

\* Service::abort(r) by the thread that holds no jobsMutex_ yet: a request that
\* is listed is marked as done, and its onDone_ comes next.
Abort(r) ==
  /\ handing = Free
  /\ IF r \in listed
     THEN /\ listed' = listed \ {r}
          /\ status' = [status EXCEPT ![r] = "Aborted"]
          /\ handing' = Notifying(r)
     ELSE UNCHANGED <<listed, status, handing>>
  /\ UNCHANGED <<taken, inHand, resultCount>>

\* One request of the loop over the requests of the stream in the map.
SweepRequest ==
  /\ sweep # Free
  /\ \E r \in sweep.todo :
       /\ IF IsDone(r) THEN UNCHANGED serviceVars ELSE Abort(r)
       /\ sweep' = [sweep EXCEPT !.todo = @ \ {r}]
  /\ UNCHANGED <<streamVars, clientMap>>

\* Mutation of Replaced: emplace does not replace what is still there.
ReplacedUnlessThere ==
  [clientMap EXCEPT ![sweep.client] = IF @ = NoStream THEN sweep.next ELSE @]

\* erase and emplace.
Replaced == [clientMap EXCEPT ![sweep.client] = sweep.next]

\* The map is changed and unlocked; a stream that registered starts.
FinishSweep ==
  /\ sweep # Free
  /\ sweep.todo = {}
  /\ clientMap' = Replaced
  /\ handler' = IF sweep.next = NoStream THEN handler
                ELSE [handler EXCEPT ![sweep.next] = "streaming"]
  /\ sweep' = Free
  /\ UNCHANGED <<provider, connected, buffer, wire, todo, serviceVars>>

----------------------------------------------------------------------------
(* The content provider                                                    *)

\* Mutation of AllDone: the first request decides.
AnyDone(h) == RequestsOf(h) = {} \/ \E r \in RequestsOf(h) : IsDone(r)

AllDone(h) == \A r \in RequestsOf(h) : IsDone(r)

\* The provider is called, or its wait goes on: the predicate appends
\* EndOfStream when all requests are done, and tells if there is data.
CheckBuffer(h) ==
  LET data == IF AllDone(h) THEN Append(buffer[h], End) ELSE buffer[h]
  IN  /\ handler[h] = "streaming"
      /\ provider[h] = "check" \/ (provider[h] = "called" /\ connected[h])
      /\ buffer' = [buffer EXCEPT ![h] = data]
      /\ provider' = [provider EXCEPT ![h] = IF data = <<>> THEN "parking" ELSE "writing"]
      /\ UNCHANGED <<handler, connected, wire, todo, serviceVars, clientVars>>

\* wait() releases mutex_ and blocks, or wakes up by itself.
Block(h) ==
  /\ provider[h] = "parking"
  /\ provider' = [provider EXCEPT ![h] = "waiting"]
  /\ UNCHANGED <<handler, connected, buffer, wire, todo, serviceVars, clientVars>>

SpuriousWakeup(h) ==
  /\ provider[h] = "waiting"
  /\ provider' = [provider EXCEPT ![h] = "check"]
  /\ UNCHANGED <<handler, connected, buffer, wire, todo, serviceVars, clientVars>>

Cleared(h) == [buffer EXCEPT ![h] = <<>>]

\* sink.write, then sink.done() if all requests were done.
SendBuffer(h) ==
  /\ provider[h] = "writing"
  /\ connected[h]
  /\ wire' = [wire EXCEPT ![h] = @ \o buffer[h]]
  /\ buffer' = Cleared(h)
  /\ handler' = [handler EXCEPT ![h] = IF Last(buffer[h]) = End THEN "closed" ELSE @]
  /\ provider' = [provider EXCEPT ![h] = "called"]
  /\ UNCHANGED <<connected, todo, serviceVars, clientVars>>

\* The HTTP server sees that the connection is gone, before a call of the
\* provider or in its write: the cleanup callback gets success = false.
LoseClient(h) ==
  /\ handler[h] = "streaming"
  /\ provider[h] \in {"called", "writing"}
  /\ ~connected[h]
  /\ handler' = [handler EXCEPT ![h] = "cleanup"]
  /\ provider' = [provider EXCEPT ![h] = "called"]
  /\ buffer' = IF provider[h] = "writing" THEN [buffer EXCEPT ![h] = <<>>] ELSE buffer
  /\ todo' = [todo EXCEPT ![h] = RequestsOf(h)]
  /\ UNCHANGED <<connected, wire, serviceVars, clientVars>>

LeftToAbort(h, r) == todo[h] \ {r}

\* The cleanup callback aborts one request after the other.
AbortNext(h) ==
  /\ handler[h] = "cleanup"
  /\ \E r \in todo[h] :
       /\ Abort(r)
       /\ todo' = [todo EXCEPT ![h] = LeftToAbort(h, r)]
  /\ UNCHANGED <<handler, provider, connected, buffer, wire, clientVars>>

Abandon(h) ==
  /\ handler[h] = "cleanup"
  /\ todo[h] = {}
  /\ handler' = [handler EXCEPT ![h] = "abandoned"]
  /\ UNCHANGED <<provider, connected, buffer, wire, todo, serviceVars, clientVars>>

\* The client closes its connection.
Disconnect(h) ==
  /\ h \in MayDisconnect
  /\ connected[h]
  /\ handler[h] \in {"accepted", "streaming"}
  /\ connected' = [connected EXCEPT ![h] = FALSE]
  /\ UNCHANGED <<handler, provider, buffer, wire, todo, serviceVars, clientVars>>

----------------------------------------------------------------------------
(* The workers of the tile service                                         *)

\* nextJob takes a tile; a request whose last tile is taken leaves the list.
TakeTile(r) ==
  LET p == taken[r] + 1
  IN  /\ handing = Free
      /\ r \in listed
      /\ taken' = [taken EXCEPT ![r] = p]
      /\ inHand' = [inHand EXCEPT ![r] = @ \cup {p}]
      /\ listed' = IF p = Size[r] THEN listed \ {r} ELSE listed
      /\ UNCHANGED <<resultCount, status, handing, streamVars, clientVars>>

\* notifyResult locks jobsMutex_ and calls addResult, which locks mutex_,
\* writes the tile and notifies the provider.
AddResult(r, p) ==
  LET h == StreamOf[r]
  IN  /\ handing = Free
      /\ p \in inHand[r]
      /\ BufferFree(h)
      /\ inHand' = [inHand EXCEPT ![r] = @ \ {p}]
      /\ buffer' = [buffer EXCEPT ![h] = Append(@, Tile(r, p))]
      /\ provider' = Woken(h)
      /\ handing' = [at |-> "count", request |-> r]
      /\ UNCHANGED <<listed, taken, resultCount, status,
                     handler, connected, wire, todo, clientVars>>

\* Then it counts the result; the last one makes the request a success.
CountResult ==
  /\ handing.at = "count"
  /\ LET r == handing.request
         n == resultCount[r] + 1
     IN  /\ resultCount' = [resultCount EXCEPT ![r] = n]
         /\ IF n = Size[r]
            THEN /\ status' = [status EXCEPT ![r] = "Success"]
                 /\ handing' = Notifying(r)
            ELSE /\ handing' = Free
                 /\ UNCHANGED status
  /\ UNCHANGED <<listed, taken, inHand, streamVars, clientVars>>

\* onDone_ notifies the provider, without locking the mutex_ of the stream.
NotifyDone ==
  /\ handing.at = "notify"
  /\ provider' = Woken(StreamOf[handing.request])
  /\ handing' = Free
  /\ UNCHANGED <<listed, taken, inHand, resultCount, status, handler, connected,
                 buffer, wire, todo, clientVars>>

----------------------------------------------------------------------------
Init ==
  /\ handler = [h \in Streams |-> "idle"]
  /\ provider = [h \in Streams |-> "called"]
  /\ connected = [h \in Streams |-> TRUE]
  /\ buffer = [h \in Streams |-> <<>>]
  /\ wire = [h \in Streams |-> <<>>]
  /\ todo = [h \in Streams |-> {}]
  /\ listed = {}
  /\ taken = [r \in Requests |-> 0]
  /\ inHand = [r \in Requests |-> {}]
  /\ resultCount = [r \in Requests |-> 0]
  /\ status = [r \in Requests |-> IF Size[r] = 0 THEN "Success" ELSE "Open"]
  /\ handing = Free
  /\ clientMap = [k \in Clients |-> NoStream]
  /\ sweep = Free

HandlerStep(h) ==
  \/ PostTiles(h) \/ RejectTiles(h) \/ RegisterClient(h) \/ CheckBuffer(h)
  \/ Block(h) \/ SpuriousWakeup(h) \/ SendBuffer(h) \/ LoseClient(h)
  \/ AbortNext(h) \/ Abandon(h) \/ Disconnect(h)

ServiceStep ==
  \/ \E r \in Requests : TakeTile(r) \/ \E p \in 1..Size[r] : AddResult(r, p)
  \/ CountResult \/ NotifyDone

Next ==
  \/ \E h \in Streams : HandlerStep(h)
  \/ ServiceStep
  \/ \E k \in Clients : PostAbort(k)
  \/ SweepRequest \/ FinishSweep

Spec == Init /\ [][Next]_vars
=============================================================================
