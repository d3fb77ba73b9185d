----------------------------- MODULE RemoteProcess -----------------------------
(***************************************************************************)
(* The start of a data source in a process of its own. The constructor of  *)
(* RemoteDataSourceProcess starts a child and waits for up to ten seconds  *)
(* on a condition variable. The child's server (HttpServer::go) prints its *)
(* port; a thread of the process library reads the child's output, hands   *)
(* it over in chunks, and the callback connects to the port that is found  *)
(* in one of them.                                                         *)
(*                                                                         *)
(* The build is a release build: a debug build waits for ever. A line that *)
(* the child prints is not torn apart.                                     *)
(***************************************************************************)
EXTENDS Naturals, Sequences, SequencesExt

CONSTANTS
  ForeignServes,  \* a port that the child fails to bind is served by another data source
  MaxLogLines     \* a bound on the other lines the child prints

ASSUME RemoteProcessAssumption == ForeignServes \in BOOLEAN /\ MaxLogLines \in Nat

VARIABLES
  main,           \* of the child: off, starting, waiting in go(), serving, exited
  bound,          \* the child's server has the port it prints
  serverThread,   \* none, printing, starting, listening, ended
  output,         \* of the child, not read yet: lines "port" and "log"
  logged,         \* how many other lines there were
  reader,         \* the library's thread: reading, locking, connecting
  mutex,          \* mutex_: free, or held by the reader
  constructor,    \* idle, entering, waiting, locking again, returned, destroyed, or
                  \* raised: its members are destroyed from there on, the mutex first
  expired,        \* wait_for has timed out
  remoteSource,   \* remoteSource_: none, or connected to the child or to a foreign server
  program         \* of the service: runs, or has been terminated

child   == <<main, bound, serverThread, output, logged>>
service == <<reader, mutex, constructor, expired, remoteSource, program>>
vars    == <<child, service>>

Runs == program = "runs"

(***************************************************************************)
(* The child                                                               *)
(***************************************************************************)
\* Whether the port could be bound is not looked at.
Bind ==
  /\ main = "starting"
  /\ main' = "waiting" /\ serverThread' = "printing"
  /\ bound' \in BOOLEAN
  /\ UNCHANGED <<output, logged, service>>

PrintPort ==
  /\ serverThread = "printing" /\ main # "exited"
  /\ output' = Append(output, "port")
  /\ serverThread' = "starting"
  /\ UNCHANGED <<main, bound, logged, service>>

Listen ==
  /\ serverThread = "starting" /\ main # "exited"
  /\ serverThread' = IF bound THEN "listening" ELSE "ended"
  /\ UNCHANGED <<main, bound, output, logged, service>>

\* go() sleeps and raises if the server is not running then.
Awake ==
  /\ main = "waiting"
  /\ main' = IF serverThread = "listening" THEN "serving" ELSE "exited"
  /\ UNCHANGED <<bound, serverThread, output, logged, service>>

LogLine ==
  /\ main \notin {"off", "exited"} /\ logged < MaxLogLines
  /\ output' = Append(output, "log") /\ logged' = logged + 1
  /\ UNCHANGED <<main, bound, serverThread, service>>

Exit ==
  /\ main \notin {"off", "exited"}
  /\ main' = "exited"
  /\ UNCHANGED <<bound, serverThread, output, logged, service>>

(***************************************************************************)
(* The callback for the child's output                                     *)
(***************************************************************************)
\* A chunk may hold several lines.
ReadChunk ==
  /\ Runs /\ reader = "reading"
  /\ \E n \in 1 .. Len(output) :
       /\ output' = SubSeq(output, n + 1, Len(output))
       /\ reader' = IF remoteSource = "none" /\ "port" \in ToSet(SubSeq(output, 1, n))
                    THEN "locking" ELSE "reading"
  /\ UNCHANGED <<main, bound, serverThread, logged, mutex, constructor, expired, remoteSource, program>>

\* If the constructor has raised, the mutex is destroyed already: it may seem to be
\* locked, or the program ends.
ReaderLocks ==
  /\ Runs /\ reader = "locking" /\ mutex = "free"
  /\ \/ reader' = "connecting" /\ mutex' = "reader" /\ UNCHANGED program
     \/ constructor = "raised" /\ program' = "terminated" /\ UNCHANGED <<reader, mutex>>
  /\ UNCHANGED <<child, constructor, expired, remoteSource>>

\* Who answers GET /info.
Servers ==
  IF bound THEN (IF serverThread = "listening" /\ main # "exited" THEN {"child"} ELSE {})
  ELSE IF ForeignServes THEN {"foreign"} ELSE {}

\* notify_all
Notified == IF constructor = "waiting" THEN "locking" ELSE constructor

Connect ==
  /\ Runs /\ reader = "connecting"
  /\ \E s \in Servers : remoteSource' = s
  /\ constructor' = Notified
  /\ reader' = "reading" /\ mutex' = "free"
  /\ UNCHANGED <<child, expired, program>>

\* The exception leaves a callback of the library's thread.
ConnectFails ==
  /\ Runs /\ reader = "connecting"
  /\ program' = "terminated" /\ mutex' = "free"
  /\ UNCHANGED <<child, reader, constructor, expired, remoteSource>>

(***************************************************************************)
(* The constructor and the destructor                                      *)
(***************************************************************************)
StartProcess ==
  /\ constructor = "idle"
  /\ main' = "starting" /\ constructor' = "entering"
  /\ UNCHANGED <<bound, serverThread, output, logged, reader, mutex, expired, remoteSource, program>>

\* Mutation of Outcome: the predicate is not asked after the timeout.
OutcomeByClock ==
  IF expired THEN "raised" ELSE IF remoteSource # "none" THEN "returned" ELSE "waiting"

\* Mutation of Outcome: any wakeup will do.
OutcomeWoken == IF expired THEN "raised" ELSE "returned"

\* With the mutex in its hands the constructor looks at the predicate.
Outcome ==
  IF remoteSource # "none" THEN "returned" ELSE IF expired THEN "raised" ELSE "waiting"

Look ==
  /\ Runs /\ constructor \in {"entering", "locking"} /\ mutex = "free"
  /\ constructor' = Outcome
  /\ UNCHANGED <<child, reader, mutex, expired, remoteSource, program>>

\* A wakeup without a notification
SpuriousWakeup ==
  /\ Runs /\ constructor = "waiting"
  /\ constructor' = "locking"
  /\ UNCHANGED <<child, reader, mutex, expired, remoteSource, program>>

\* The ten seconds are over, also if the constructor has been woken already.
Timeout ==
  /\ Runs /\ constructor \in {"locking", "waiting"} /\ ~expired
  /\ expired' = TRUE /\ constructor' = "locking"
  /\ UNCHANGED <<child, reader, mutex, remoteSource, program>>

\* The destructor kills the child.
Destroy ==
  /\ Runs /\ constructor = "returned"
  /\ constructor' = "destroyed" /\ main' = "exited"
  /\ UNCHANGED <<bound, serverThread, output, logged, reader, mutex, expired, remoteSource, program>>

Init ==
  /\ main = "off" /\ bound = FALSE /\ serverThread = "none" /\ output = <<>> /\ logged = 0
  /\ reader = "reading" /\ mutex = "free" /\ constructor = "idle" /\ expired = FALSE
  /\ remoteSource = "none" /\ program = "runs"

Next ==
  \/ Bind \/ PrintPort \/ Listen \/ Awake \/ LogLine \/ Exit
  \/ ReadChunk \/ ReaderLocks \/ Connect \/ ConnectFails
  \/ StartProcess \/ Look \/ SpuriousWakeup \/ Timeout \/ Destroy

Spec == Init /\ [][Next]_vars

\* The threads of the service go on, and GET /info is answered or times out. Nothing
\* is assumed of the child and of the clock.
FairSpec == Spec /\ WF_vars(ReadChunk) /\ WF_vars(ReaderLocks) /\ WF_vars(Connect \/ ConnectFails)
                 /\ WF_vars(Look)
=============================================================================
