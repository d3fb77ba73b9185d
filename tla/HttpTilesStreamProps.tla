------------------------- MODULE HttpTilesStreamProps -------------------------
(***************************************************************************)
(* What the /tiles streams of HttpTilesStream must do.                     *)
(***************************************************************************)
EXTENDS HttpTilesStream

Sent(h)   == {wire[h][i] : i \in DOMAIN wire[h]}
TilesOf(r) == {Tile(r, p) : p \in 1..Size[r]}

\* A stream that was closed ends with EndOfStream, has it nowhere else and no
\* tile twice, and brought every tile of its successful requests: no result is
\* cleared from the buffer unsent, and none is overtaken by the end.
StreamIsWhole ==
  \A h \in Streams : handler[h] = "closed" =>
    /\ Last(wire[h]) = End
    /\ IsInjective(wire[h])
    /\ \A r \in RequestsOf(h) : status[r] = "Success" => TilesOf(r) \subseteq Sent(h)

\* No provider is blocked while its buffer has something to send: what
\* addResult does under the mutex is never missed.
BlockedHasNothing ==
  \A h \in Streams : provider[h] = "waiting" => buffer[h] = <<>>

\* onDone_ notifies without the mutex, and a provider may miss that. One that is
\* blocked has sent every tile of its successful requests all the same: what it
\* misses then is EndOfStream alone.
BlockedHasSent ==
  \A h \in Streams : provider[h] = "waiting" =>
    \A r \in RequestsOf(h) : status[r] = "Success" => TilesOf(r) \subseteq Sent(h)

\* What addResult is given reaches the stream.
ResultsAreSent == StreamIsWhole /\ BlockedHasNothing /\ BlockedHasSent

\* When the cleanup for a lost client is over, no worker will take another tile
\* of its requests.
AbandonedIsAborted ==
  \A h \in Streams : handler[h] = "abandoned" => RequestsOf(h) \cap listed = {}

\* Of the streams of one client only the one in requestStatePerClientId_ still
\* has tiles to be taken: a stream that is replaced, or ended by /abort, has
\* none from the time the map is unlocked.
OneStreamPerClient ==
  \A h \in Streams :
    (/\ ClientOf[h] # NoClient
     /\ handler[h] \in {"streaming", "cleanup"}
     /\ RequestsOf(h) \cap listed # {}) => clientMap[ClientOf[h]] = h

\* So the tiles of a request are taken for a client that reads them.
StreamsHaveClients == AbandonedIsAborted /\ OneStreamPerClient
=============================================================================
