-------------------------- MODULE RemoteProcessProofs --------------------------
(***************************************************************************)
(* A started remote data source is served, for every order of the child,   *)
(* the reader and the constructor, and any number of other lines.          *)
(*                                                                         *)
(* StartedIsServed is not inductive: that who is connected goes on being   *)
(* connected to a server that has bound its port rests on the order in     *)
(* which the child binds, prints and listens, and on the port being known  *)
(* to the service only after it was printed.                               *)
(***************************************************************************)
EXTENDS RemoteProcessProps, SequenceTheorems, TLAPS

TypeOK ==
  /\ main \in {"off", "starting", "waiting", "serving", "exited"}
  /\ bound \in BOOLEAN
  /\ serverThread \in {"none", "printing", "starting", "listening", "ended"}
  /\ output \in Seq({"port", "log"})
  /\ logged \in Nat
  /\ reader \in {"reading", "locking", "connecting"}
  /\ mutex \in {"free", "reader"}
  /\ constructor \in {"idle", "entering", "waiting", "locking", "returned", "raised", "destroyed"}
  /\ expired \in BOOLEAN
  /\ remoteSource \in {"none", "child", "foreign"}
  /\ program \in {"runs", "terminated"}

\* The child begins with no server, and only when it is started.
ServerComesLater ==
  /\ constructor = "idle" => main = "off"
  /\ main \in {"off", "starting"} => serverThread = "none"

\* Whoever knows of the port knows it from the line that was printed.
PortKnown == reader # "reading" \/ remoteSource # "none" \/ "port" \in ToSet(output)
PortWasPrinted == PortKnown => serverThread \notin {"none", "printing"}

\* A connection is one to the child if the child had bound the port and listened.
ConnectedToServer ==
  /\ remoteSource = "child" => bound /\ serverThread = "listening"
  /\ remoteSource = "foreign" => ~bound

ReturnedWithConnection == constructor = "returned" => remoteSource # "none"

ProcessInv ==
  /\ TypeOK /\ ServerComesLater /\ PortWasPrinted /\ ConnectedToServer /\ ReturnedWithConnection

(***************************************************************************)
(* The output of the child                                                 *)
(***************************************************************************)
\* A line that is printed is the only one that is new to the output.
LEMMA PrintedLine ==
  ASSUME NEW line, NEW s \in Seq({"port", "log"}), line \in {"port", "log"}
  PROVE  /\ Append(s, line) \in Seq({"port", "log"})
         /\ "port" \in ToSet(Append(s, line)) => "port" \in ToSet(s) \/ line = "port"
<1>1. Append(s, line) \in Seq({"port", "log"})
  OBVIOUS
<1>2. \A i \in DOMAIN Append(s, line) : Append(s, line)[i] = line \/ (i \in DOMAIN s /\ Append(s, line)[i] = s[i])
  OBVIOUS
<1> QED BY <1>1, <1>2 DEF ToSet

\* Both parts of the output that a chunk splits hold lines of the output only.
LEMMA SplitOutput ==
  ASSUME NEW s \in Seq({"port", "log"}), NEW n \in 1 .. Len(s)
  PROVE  /\ SubSeq(s, n + 1, Len(s)) \in Seq({"port", "log"})
         /\ "port" \in ToSet(SubSeq(s, 1, n)) => "port" \in ToSet(s)
         /\ "port" \in ToSet(SubSeq(s, n + 1, Len(s))) => "port" \in ToSet(s)
<1> DEFINE rest == SubSeq(s, n + 1, Len(s))
           first == SubSeq(s, 1, n)
<1>1. rest \in Seq({"port", "log"}) /\ Len(rest) = Len(s) - n
      /\ \A i \in 1 .. Len(rest) : rest[i] = s[n + i]
  BY SubSeqProperties
<1>2. first \in Seq({"port", "log"}) /\ Len(first) = n /\ \A i \in 1 .. n : first[i] = s[i]
  BY SubSeqProperties
<1>3. \A i \in 1 .. Len(rest) : n + i \in DOMAIN s
  BY <1>1
<1>4. \A i \in 1 .. n : i \in DOMAIN s
  OBVIOUS
<1> QED BY <1>1, <1>2, <1>3, <1>4 DEF ToSet

(***************************************************************************)
(* The invariant                                                           *)
(***************************************************************************)
LEMMA InitProcessInv == Init => ProcessInv
<1> SUFFICES ASSUME Init PROVE ProcessInv
  OBVIOUS
<1>1. output \in Seq({"port", "log"})
  BY DEF Init
<1>2. "port" \notin ToSet(output)
  BY DEF Init, ToSet
<1> QED BY <1>1, <1>2 DEF Init, ProcessInv, TypeOK, ServerComesLater, PortWasPrinted, PortKnown,
                    ConnectedToServer, ReturnedWithConnection

\* The steps of the child
LEMMA ChildStep ==
  ASSUME ProcessInv, Bind \/ PrintPort \/ Listen \/ Awake \/ LogLine \/ Exit
  PROVE  ProcessInv'
<1> USE DEF ProcessInv, TypeOK, ServerComesLater, PortWasPrinted, PortKnown, ConnectedToServer,
            ReturnedWithConnection, service
<1>1. CASE Bind
  BY <1>1 DEF Bind
<1>2. CASE PrintPort
  <2>1. output' \in Seq({"port", "log"})
    BY <1>2, PrintedLine DEF PrintPort
  <2> QED BY <1>2, <2>1 DEF PrintPort
<1>3. CASE Listen
  BY <1>3 DEF Listen
<1>4. CASE Awake
  BY <1>4 DEF Awake
<1>5. CASE LogLine
  <2>1. output' \in Seq({"port", "log"}) /\ ("port" \in ToSet(output') => "port" \in ToSet(output))
    BY <1>5, PrintedLine DEF LogLine
  <2> QED BY <1>5, <2>1 DEF LogLine
<1>6. CASE Exit
  BY <1>6 DEF Exit
<1> QED BY <1>1, <1>2, <1>3, <1>4, <1>5, <1>6

\* The steps of the thread that reads the output
LEMMA ReaderStep ==
  ASSUME ProcessInv, ReadChunk \/ ReaderLocks \/ Connect \/ ConnectFails
  PROVE  ProcessInv'
<1> USE DEF ProcessInv, TypeOK, ServerComesLater, PortWasPrinted, PortKnown, ConnectedToServer,
            ReturnedWithConnection, child
<1>1. CASE ReadChunk
  <2>1. PICK n \in 1 .. Len(output) :
          /\ output' = SubSeq(output, n + 1, Len(output))
          /\ reader' = IF remoteSource = "none" /\ "port" \in ToSet(SubSeq(output, 1, n))
                       THEN "locking" ELSE "reading"
    BY <1>1 DEF ReadChunk
  <2>2. output' \in Seq({"port", "log"}) /\ ("port" \in ToSet(output') => "port" \in ToSet(output))
    BY <2>1, SplitOutput
  <2>3. reader' # "reading" => "port" \in ToSet(output)
    BY <2>1, SplitOutput
  <2> QED BY <1>1, <2>1, <2>2, <2>3 DEF ReadChunk
<1>2. CASE ReaderLocks
  BY <1>2 DEF ReaderLocks
<1>3. CASE Connect
  <2>1. PICK s \in Servers : remoteSource' = s
    BY <1>3 DEF Connect
  <2>2. \/ remoteSource' = "child" /\ bound /\ serverThread = "listening"
        \/ remoteSource' = "foreign" /\ ~bound
    BY <2>1 DEF Servers
  <2> QED BY <1>3, <2>2 DEF Connect, Notified
<1>4. CASE ConnectFails
  BY <1>4 DEF ConnectFails
<1> QED BY <1>1, <1>2, <1>3, <1>4

\* The steps of the constructor and the destructor
LEMMA ConstructorStep ==
  ASSUME ProcessInv, StartProcess \/ Look \/ SpuriousWakeup \/ Timeout \/ Destroy
  PROVE  ProcessInv'
<1> USE DEF ProcessInv, TypeOK, ServerComesLater, PortWasPrinted, PortKnown, ConnectedToServer,
            ReturnedWithConnection, child
<1>1. CASE StartProcess
  BY <1>1 DEF StartProcess
<1>2. CASE Look
  BY <1>2 DEF Look, Outcome
<1>3. CASE SpuriousWakeup
  BY <1>3 DEF SpuriousWakeup
<1>4. CASE Timeout
  BY <1>4 DEF Timeout
<1>5. CASE Destroy
  BY <1>5 DEF Destroy
<1> QED BY <1>1, <1>2, <1>3, <1>4, <1>5

LEMMA StepProcessInv == ProcessInv /\ [Next]_vars => ProcessInv'
<1> SUFFICES ASSUME ProcessInv, [Next]_vars PROVE ProcessInv'
  OBVIOUS
<1>1. CASE Next
  BY <1>1, ChildStep, ReaderStep, ConstructorStep DEF Next
<1>2. CASE UNCHANGED vars
  BY <1>2 DEF vars, child, service, ProcessInv, TypeOK, ServerComesLater, PortWasPrinted, PortKnown,
              ConnectedToServer, ReturnedWithConnection
<1> QED BY <1>1, <1>2

\* The order in which the child binds, prints and listens carries over to the service.
THEOREM ProcessInvariant == Spec => []ProcessInv
BY InitProcessInv, StepProcessInv, PTL DEF Spec

\* Whenever the constructor has returned, there is a connection to the child's server,
\* which has been listening, or to the one that holds the port instead of it.
THEOREM StartedSourcesAreServed == Spec => []StartedIsServed
<1>1. ProcessInv => StartedIsServed
  BY DEF ProcessInv, TypeOK, ConnectedToServer, ReturnedWithConnection, StartedIsServed
<1> QED BY <1>1, ProcessInvariant, PTL
=============================================================================
