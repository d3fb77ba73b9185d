------------------------------- MODULE TileStream -------------------------------
(***************************************************************************)
(* The messages of a stream of tile layers as bytes. The Writer puts a     *)
(* header before each message; the network cuts the stream anywhere; and   *)
(* read() adds a piece to the Reader's buffer and calls continueReading()  *)
(* until it returns false. An exception ends the use of a Reader, as with  *)
(* all callers in src/.                                                    *)
(*                                                                         *)
(* Byte k of the message i is the pair <<i, k>>; what a header or a value  *)
(* says depends on the byte it is read from. A header has HeaderSize bytes, *)
(* of which the version is the first VersionSize.                          *)
(***************************************************************************)
EXTENDS Integers, Sequences, SequencesExt, FiniteSetsExt

CONSTANTS
  StreamMessages,  \* records [type, size, version, known]; a layer may not be known to the Reader
  VersionSize, HeaderSize,
  MaxSent          \* a bound on the messages

TileLayers == {"TileFeatureLayer", "TileSourceDataLayer"}

\* Layers and string pools have bytes, the end of the stream has none.
ASSUME StreamAssumption ==
  /\ VersionSize \in Nat /\ HeaderSize \in Nat /\ VersionSize < HeaderSize
  /\ StreamMessages \subseteq
       [type : STRING, size : Nat, version : {"current", "other"}, known : BOOLEAN]
  /\ \A m \in StreamMessages :
       IF m.type \in TileLayers \cup {"StringPool"} THEN m.size > 0 ELSE m.size = 0 /\ m.known
  /\ MaxSent \in Nat

VARIABLES
  transmitted,  \* the messages that were written
  network,      \* their bytes that have not been read
  unread,       \* what is left of buffer_
  currentPhase, \* currentPhase_: ReadHeader or ReadValue
  nextValue,    \* nextValueType_ and nextValueSize_
  reading,      \* in the loop of read()
  raised,       \* an exception has left read()
  handled       \* the messages whose value was read

reader == <<unread, currentPhase, nextValue, reading, raised, handled>>
bytestream == <<transmitted, network, reader>>

\* sendMessage
Write(m) ==
  LET i == Len(transmitted) + 1
  IN  /\ i <= MaxSent
      /\ transmitted' = Append(transmitted, m)
      /\ network' = network \o [k \in 1 .. HeaderSize + m.size |-> <<i, k>>]
      /\ UNCHANGED reader

\* read(bytes)
Read(n) ==
  /\ ~reading /\ ~raised
  /\ unread' = unread \o SubSeq(network, 1, n)
  /\ network' = SubSeq(network, n + 1, Len(network))
  /\ reading' = TRUE
  /\ UNCHANGED <<transmitted, currentPhase, nextValue, raised, handled>>

Stop == reading' = FALSE

(***************************************************************************)
(* One call of continueReading()                                           *)
(***************************************************************************)
\* The message that a byte belongs to
MessageAt(bytes) == transmitted[Head(bytes)[1]]

\* Mutation of HeaderIsThere: one byte less will do.
HeaderIsNearlyThere == Len(unread) >= HeaderSize - 1

HeaderIsThere == Len(unread) >= HeaderSize

Rest(n) == SubSeq(unread, n + 1, Len(unread))

\* What is unread, and what is known of the next value, once its header is read
AfterHeader == IF currentPhase = "ReadHeader" THEN Rest(HeaderSize) ELSE unread
Expected ==
  IF currentPhase = "ReadHeader"
  THEN [type |-> MessageAt(unread).type, size |-> MessageAt(unread).size] ELSE nextValue

WaitForHeader ==
  /\ reading /\ currentPhase = "ReadHeader" /\ ~HeaderIsThere
  /\ Stop
  /\ UNCHANGED <<transmitted, network, unread, currentPhase, nextValue, raised, handled>>

\* The header with a version that does not fit is left half read.
RefuseVersion ==
  /\ reading /\ currentPhase = "ReadHeader" /\ HeaderIsThere
  /\ MessageAt(unread).version # "current"
  /\ unread' = Rest(VersionSize)
  /\ raised' = TRUE /\ Stop
  /\ UNCHANGED <<transmitted, network, currentPhase, nextValue, handled>>

CanGoOn ==
  reading /\ (currentPhase = "ReadHeader" => HeaderIsThere /\ MessageAt(unread).version = "current")

WaitForValue ==
  /\ CanGoOn
  /\ Len(AfterHeader) < Expected.size
  /\ unread' = AfterHeader /\ nextValue' = Expected /\ currentPhase' = "ReadValue"
  /\ Stop
  /\ UNCHANGED <<transmitted, network, raised, handled>>

\* A layer or a string pool takes its own bytes, the end of the stream none.
Taken == IF Expected.type \in TileLayers \cup {"StringPool"} THEN Expected.size ELSE 0

\* The message a value is read from: the end of a stream has no byte of its own.
ValueRead ==
  IF Taken = 0 THEN [type |-> Expected.type, size |-> 0, version |-> "current", known |-> TRUE]
  ELSE MessageAt(AfterHeader)

HasValue == CanGoOn /\ Len(AfterHeader) >= Expected.size

ReadValue ==
  /\ HasValue
  /\ Expected.type \in TileLayers => ValueRead.known
  /\ unread' = SubSeq(AfterHeader, Taken + 1, Len(AfterHeader))
  /\ handled' = Append(handled, ValueRead)
  /\ nextValue' = Expected /\ currentPhase' = "ReadHeader"
  /\ UNCHANGED <<transmitted, network, reading, raised>>

\* The layer info of a tile cannot be resolved: some of its bytes have been read.
RefuseLayer ==
  /\ HasValue
  /\ Expected.type \in TileLayers /\ ~ValueRead.known
  /\ \E n \in 1 .. Expected.size : unread' = SubSeq(AfterHeader, n + 1, Len(AfterHeader))
  /\ nextValue' = Expected /\ currentPhase' = "ReadValue"
  /\ raised' = TRUE /\ Stop
  /\ UNCHANGED <<transmitted, network, handled>>

StreamInit ==
  /\ transmitted = <<>> /\ network = <<>> /\ unread = <<>> /\ handled = <<>>
  /\ currentPhase = "ReadHeader" /\ nextValue = [type |-> "None", size |-> 0]
  /\ reading = FALSE /\ raised = FALSE

StreamNext ==
  \/ \E m \in StreamMessages : Write(m)
  \/ \E n \in 1 .. Len(network) : Read(n)
  \/ WaitForHeader \/ RefuseVersion \/ WaitForValue \/ ReadValue \/ RefuseLayer

StreamSpec == StreamInit /\ [][StreamNext]_bytestream

(***************************************************************************)
(* Properties                                                              *)
(***************************************************************************)
\* The messages of which the network holds no byte any more
Arrived == Len(transmitted) - Cardinality({b[1] : b \in ToSet(network)})

Channel == INSTANCE MessageChannel WITH
  Sendable <- StreamMessages, sent <- transmitted, arrived <- Arrived, done <- handled

\* "The next object will be parsed once sufficient bytes are available": wherever the
\* stream is cut, read() has handled each message that is there before it asks for
\* more bytes, and none that is not, none twice, and none with bytes of another one.
ImplementsMessageChannel == Channel!Spec
=============================================================================
