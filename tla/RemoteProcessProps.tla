--------------------------- MODULE RemoteProcessProps ---------------------------
(* What a data source in a process of its own promises to who starts it.   *)
EXTENDS RemoteProcess

\* The constructor returns with a connection only: to the child's server, which was
\* listening when the connection was made, unless the child failed to bind its port and somebody else
\* answers on it.
StartedIsServed ==
  constructor = "returned" =>
    \/ remoteSource = "child" /\ serverThread = "listening"
    \/ remoteSource = "foreign" /\ ~bound

\* A connection that was made before the constructor has given up makes it return:
\* neither the notification nor the connection gets lost, whatever the order of the
\* callback, the wait and the timeout. When the ten seconds end while the callback
\* connects under the mutex, the connection still counts. Nothing is said of a
\* connection that fails.
ConnectionIsNotMissed ==
  remoteSource # "none" /\ constructor # "raised" ~> constructor \in {"returned", "destroyed"}
=============================================================================
