----------------------------- MODULE StreamProofs -----------------------------
(***************************************************************************)
(* TLAPS proofs about TileStream and StringPoolSync: the stream of messages *)
(* delivers what was written, and whoever reads a tile has its strings.    *)
(***************************************************************************)
EXTENDS StringPoolSync, TileStream, SequenceTheorems, FiniteSetTheorems, TLAPS

(***************************************************************************)
(* Wherever the network cuts the bytes, the Writer and the Reader are a    *)
(* MessageChannel.                                                         *)
(*                                                                         *)
(* The bytes of message i are those from start[i] + 1 to start[i + 1] of   *)
(* all that was ever written. The argument says for each byte that is      *)
(* still there at which place of the whole it is, and at which place the   *)
(* Reader is.                                                              *)
(***************************************************************************)

Bytes == Nat \X Nat
SizeOf(i) == HeaderSize + transmitted[i].size

\* The messages follow one another without gaps.
Laid(start) ==
  /\ \A i \in 1 .. Len(transmitted) : start[i + 1] = start[i] + SizeOf(i)
  /\ \A i, j \in 1 .. Len(transmitted) + 1 :
       i < j => start[i] + SizeOf(i) <= start[j]

\* Byte b is the one at place x of the whole.
IsAt(start, b, x) ==
  /\ b[1] \in 1 .. Len(transmitted)
  /\ b[2] \in 1 .. SizeOf(b[1])
  /\ x = start[b[1]] + b[2]

\* How far the Reader has read from the network, and how far it has got with it.
ReadTo(start)   == start[Len(transmitted) + 1] - Len(network)
ParsedTo(start) == ReadTo(start) - Len(unread)

ReaderFits(start) ==
  LET i == Len(handled) + 1
  IN  /\ \A j \in 1 .. Len(unread) : IsAt(start, unread[j], ParsedTo(start) + j)
      /\ currentPhase = "ReadHeader" => ParsedTo(start) = start[i]
      /\ currentPhase = "ReadValue" =>
           /\ i <= Len(transmitted)
           /\ ParsedTo(start) = start[i] + HeaderSize
           /\ nextValue = [type |-> transmitted[i].type, size |-> transmitted[i].size]
           /\ transmitted[i].version = "current"
      /\ ~reading => i = Len(transmitted) + 1 \/ ReadTo(start) < start[i + 1]

NetworkFits(start) ==
  \A j \in 1 .. Len(network) : IsAt(start, network[j], ReadTo(start) + j)

BytesFit(start) ==
  /\ Laid(start)
  /\ NetworkFits(start)
  /\ ~raised => ReaderFits(start)

StreamTypeOK ==
  /\ transmitted \in Seq(StreamMessages)
  /\ network \in Seq(Bytes) /\ unread \in Seq(Bytes)
  /\ handled \in Seq(StreamMessages) /\ Len(handled) <= Len(transmitted)
  /\ currentPhase \in {"ReadHeader", "ReadValue"}
  /\ reading \in BOOLEAN /\ raised \in BOOLEAN
  /\ raised => ~reading

StreamInv ==
  /\ StreamTypeOK
  /\ \E start \in [1 .. Len(transmitted) + 1 -> Nat] : BytesFit(start)

----------------------------------------------------------------------------
(* Pieces of a sequence of bytes                                           *)

LEMMA RestOf ==
  ASSUME NEW s \in Seq(Bytes), NEW k \in 0 .. Len(s)
  PROVE  LET t == SubSeq(s, k + 1, Len(s))
         IN  /\ t \in Seq(Bytes) /\ Len(t) = Len(s) - k
             /\ \A j \in 1 .. Len(t) : t[j] = s[k + j]
OBVIOUS

LEMMA PieceOf ==
  ASSUME NEW s \in Seq(Bytes), NEW k \in 0 .. Len(s)
  PROVE  LET t == SubSeq(s, 1, k)
         IN  /\ t \in Seq(Bytes) /\ Len(t) = k
             /\ \A j \in 1 .. k : t[j] = s[j]
OBVIOUS

LEMMA Joined ==
  ASSUME NEW s \in Seq(Bytes), NEW t \in Seq(Bytes)
  PROVE  /\ s \o t \in Seq(Bytes) /\ Len(s \o t) = Len(s) + Len(t)
         /\ \A j \in 1 .. Len(s) : (s \o t)[j] = s[j]
         /\ \A j \in 1 .. Len(t) : (s \o t)[Len(s) + j] = t[j]
OBVIOUS

----------------------------------------------------------------------------
(* Places                                                                  *)

LEMMA Sizes ==
  ASSUME StreamTypeOK, NEW i \in 1 .. Len(transmitted)
  PROVE  /\ transmitted[i] \in StreamMessages
         /\ transmitted[i].size \in Nat
         /\ SizeOf(i) \in Nat /\ SizeOf(i) >= 1 /\ SizeOf(i) = HeaderSize + transmitted[i].size
<1>1. transmitted[i] \in StreamMessages
  BY DEF StreamTypeOK
<1>2. transmitted[i].size \in Nat
  BY <1>1, StreamAssumption
<1>3. HeaderSize \in Nat /\ HeaderSize >= 1
  BY StreamAssumption
<1> QED
  BY <1>1, <1>2, <1>3 DEF SizeOf

\* A place is in one message only.
LEMMA PlaceTells ==
  ASSUME StreamTypeOK, NEW start \in [1 .. Len(transmitted) + 1 -> Nat], Laid(start),
         NEW b, NEW x, IsAt(start, b, x),
         NEW i \in 1 .. Len(transmitted), NEW k \in 1 .. SizeOf(i), x = start[i] + k
  PROVE  b[1] = i /\ b[2] = k
<1> DEFINE j == b[1]
<1>1. j \in 1 .. Len(transmitted) /\ b[2] \in 1 .. SizeOf(j) /\ x = start[j] + b[2]
  BY DEF IsAt
<1>2. Len(transmitted) \in Nat
  BY DEF StreamTypeOK
<1>3. SizeOf(i) \in Nat /\ SizeOf(j) \in Nat
  BY <1>1, Sizes
<1>4. i \in 1 .. Len(transmitted) + 1 /\ j \in 1 .. Len(transmitted) + 1
  BY <1>1, <1>2
<1>5. start[i] \in Nat /\ start[j] \in Nat
  BY <1>4
<1>6. ~ i < j
  <2>1. i < j => start[i] + SizeOf(i) <= start[j]
    BY <1>4 DEF Laid
  <2> HIDE DEF j
  <2> QED
    BY <2>1, <1>1, <1>3, <1>5
<1>7. ~ j < i
  <2>1. j < i => start[j] + SizeOf(j) <= start[i]
    BY <1>4 DEF Laid
  <2> HIDE DEF j
  <2> QED
    BY <2>1, <1>1, <1>3, <1>5
<1>8. j = i
  BY <1>1, <1>2, <1>6, <1>7
<1> QED
  BY <1>1, <1>3, <1>5, <1>8

\* A message does not begin before an earlier one.
LEMMA InOrder ==
  ASSUME StreamTypeOK, NEW start \in [1 .. Len(transmitted) + 1 -> Nat], Laid(start),
         NEW i \in 1 .. Len(transmitted) + 1, NEW j \in 1 .. Len(transmitted) + 1, i <= j
  PROVE  start[i] <= start[j]
<1>1. Len(transmitted) \in Nat /\ start[i] \in Nat /\ start[j] \in Nat
  BY DEF StreamTypeOK
<1>2. CASE i = j
  BY <1>1, <1>2
<1>3. CASE i < j
  <2>1. start[i] + SizeOf(i) <= start[j]
    BY <1>3 DEF Laid
  <2>2. i \in 1 .. Len(transmitted)
    BY <1>1, <1>3
  <2>3. SizeOf(i) \in Nat
    BY <2>2, Sizes
  <2> QED
    BY <2>1, <2>3, <1>1
<1> QED
  BY <1>2, <1>3

\* A message has arrived if the Reader has read to its end.
LEMMA ArrivedTo ==
  ASSUME StreamTypeOK, NEW start \in [1 .. Len(transmitted) + 1 -> Nat], Laid(start), NetworkFits(start),
         NEW a \in 0 .. Len(transmitted), start[a + 1] <= ReadTo(start),
         a < Len(transmitted) => ReadTo(start) < start[a + 2]
  PROVE  Arrived = a
<1> DEFINE n == Len(transmitted)
           q == ReadTo(start)
           ids == {b[1] : b \in ToSet(network)}
<1>1. /\ n \in Nat /\ Len(network) \in Nat /\ q = start[n + 1] - Len(network)
      /\ \A i \in 1 .. n + 1 : start[i] \in Nat
  <2>1. n \in Nat /\ Len(network) \in Nat
    BY DEF StreamTypeOK
  <2>2. q = start[n + 1] - Len(network)
    BY DEF ReadTo
  <2>3. \A i \in 1 .. n + 1 : start[i] \in Nat
    OBVIOUS
  <2> QED
    BY <2>1, <2>2, <2>3
<1>2. \A i, j \in 1 .. n + 1 : i <= j => start[i] <= start[j]
  BY InOrder
<1>3. ASSUME NEW i \in ids PROVE i \in a + 1 .. n
  <2>1. PICK j \in 1 .. Len(network) : network[j][1] = i
    BY DEF ToSet, StreamTypeOK
  <2>2. IsAt(start, network[j], q + j)
    BY DEF NetworkFits
  <2>3. /\ i \in 1 .. n /\ network[j][2] \in 1 .. SizeOf(i)
        /\ q + j = start[i] + network[j][2]
    BY <2>1, <2>2 DEF IsAt
  <2>4. SizeOf(i) \in Nat /\ start[i + 1] = start[i] + SizeOf(i)
    BY <2>3, Sizes DEF Laid
  <2>5. i \in 1 .. n + 1 /\ i + 1 \in 1 .. n + 1 /\ a + 1 \in 1 .. n + 1
    BY <2>3, <1>1
  <2>8. /\ start[i] \in Nat /\ start[i + 1] \in Nat /\ start[a + 1] \in Nat
        /\ start[n + 1] \in Nat /\ n + 1 \in 1 .. n + 1
    BY <2>5, <1>1
  <2>6. q < start[i + 1]
    <3>1. q \in Int
      BY <2>8, <1>1
    <3>2. j \in Nat /\ j >= 1
      BY <1>1
    <3> DEFINE k == network[j][2]
    <3> DEFINE s == start[i]
               e == start[i + 1]
               w == SizeOf(i)
    <3>3. k \in Nat /\ k <= w /\ q + j = s + k
      BY <2>3, <2>4
    <3>4. w \in Nat /\ s \in Nat /\ e \in Nat /\ e = s + w
      BY <2>4, <2>8
    <3> HIDE DEF q, k, s, e, w
    <3>5. q < e
      BY <3>1, <3>2, <3>3, <3>4
    <3> QED
      BY <3>5 DEF e
  <2>7. i <= a => start[i + 1] <= start[a + 1]
    BY <2>5, <1>1, <1>2
  <2>9. q \in Int /\ start[a + 1] <= q
    BY <2>8, <1>1 DEF q
  <2>10. ~ i <= a
    BY <2>6, <2>7, <2>8, <2>9
  <2> QED
    BY <2>3, <2>10, <1>1
<1>4. ASSUME NEW i \in a + 1 .. n PROVE i \in ids
  <2>1. i \in 1 .. n /\ i \in 1 .. n + 1 /\ i + 1 \in 1 .. n + 1 /\ a < n
        /\ a + 2 \in 1 .. n + 1 /\ n + 1 \in 1 .. n + 1
    BY <1>1
  <2>2. SizeOf(i) \in Nat /\ SizeOf(i) >= 1 /\ start[i + 1] = start[i] + SizeOf(i)
    BY <2>1, Sizes DEF Laid
  <2>3. start[a + 2] <= start[i + 1]
    <3>1. CASE i = a + 1
      BY <3>1, <2>1, <1>1
    <3>2. CASE i # a + 1
      <4>1. a + 2 < i + 1
        BY <3>2, <1>1
      <4> QED
        BY <4>1, <2>1, <1>2
    <3> QED
      BY <3>1, <3>2
  <2>4. start[i + 1] <= start[n + 1]
    <3>1. CASE i = n
      BY <3>1, <2>1, <1>1
    <3>2. CASE i # n
      <4>1. i + 1 < n + 1
        BY <3>2, <2>1, <1>1
      <4> QED
        BY <4>1, <2>1, <1>2
    <3> QED
      BY <3>1, <3>2
  <2>5. q < start[a + 2]
    BY <2>1
  <2>6. q \in Int
    BY <1>1, <2>1
  <2> DEFINE j == start[i + 1] - q
  <2> HIDE DEF q
  <2>11. start[i] \in Nat /\ start[i + 1] \in Nat /\ start[a + 2] \in Nat /\ start[n + 1] \in Nat
    BY <2>1, <1>1
  <2>7. j \in 1 .. Len(network) /\ q + j = start[i] + SizeOf(i)
    <3> DEFINE s == start[i]
               e == start[i + 1]
               last == start[n + 1]
               w == SizeOf(i)
               size == Len(network)
    <3>1. q = last - size /\ size \in Nat /\ j = e - q
      BY <1>1 DEF j
    <3>2. e <= last /\ q < e
      <4> DEFINE f == start[a + 2]
      <4>1. e <= last /\ f <= e /\ q < f /\ f \in Nat /\ e \in Nat
        BY <2>3, <2>4, <2>5, <2>11
      <4> HIDE DEF e, f, last, s, w, size, j
      <4> QED
        BY <2>6, <4>1
    <3>3. e = s + w /\ s \in Nat /\ w \in Nat /\ e \in Nat /\ last \in Nat
      BY <2>2, <2>11
    <3> HIDE DEF s, e, last, w, size, j
    <3>4. j \in 1 .. size /\ q + j = s + w
      BY <2>6, <3>1, <3>2, <3>3
    <3> QED
      BY <3>4 DEF s, w, size
  <2> HIDE DEF j
  <2>8. IsAt(start, network[j], q + j)
    BY <2>7 DEF q, NetworkFits
  <2>9. SizeOf(i) \in 1 .. SizeOf(i)
    BY <2>2
  <2>10. network[j][1] = i
    BY <2>1, <2>7, <2>8, <2>9, PlaceTells
  <2> QED
    BY <2>7, <2>10 DEF ToSet, StreamTypeOK
<1>5. ids = a + 1 .. n
  BY <1>3, <1>4
<1>6. Cardinality(a + 1 .. n) = n - a
  <2>1. CASE a = n
    <3>1. a + 1 .. n = {}
      BY <2>1, <1>1
    <3> QED
      BY <3>1, <2>1, <1>1, FS_EmptySet
  <2>2. CASE a < n
    <3>1. a + 1 \in Int /\ n \in Int /\ ~ a + 1 > n
      BY <2>2, <1>1
    <3>2. Cardinality(a + 1 .. n) = n - (a + 1) + 1
      BY <3>1, FS_Interval
    <3> QED
      BY <3>2, <1>1
  <2> QED
    BY <2>1, <2>2, <1>1
<1>7. Arrived = n - (n - a)
  BY <1>5, <1>6 DEF Arrived
<1> QED
  BY <1>7, <1>1

LEMMA SomeArrived ==
  ASSUME StreamTypeOK, NEW start \in [1 .. Len(transmitted) + 1 -> Nat], Laid(start), NetworkFits(start)
  PROVE  \E a \in 0 .. Len(transmitted) :
           /\ start[a + 1] <= ReadTo(start)
           /\ a < Len(transmitted) => ReadTo(start) < start[a + 2]
           /\ Arrived = a
<1> DEFINE n == Len(transmitted)
           q == ReadTo(start)
<1>1. /\ n \in Nat /\ Len(network) \in Nat /\ q = start[n + 1] - Len(network)
      /\ \A i \in 1 .. n + 1 : start[i] \in Nat
  <2>1. n \in Nat /\ Len(network) \in Nat
    BY DEF StreamTypeOK
  <2>2. q = start[n + 1] - Len(network)
    BY DEF ReadTo
  <2>3. \A i \in 1 .. n + 1 : start[i] \in Nat
    OBVIOUS
  <2> QED
    BY <2>1, <2>2, <2>3
<1>2. CASE Len(network) = 0
  <2>1. n \in 0 .. n /\ n + 1 \in 1 .. n + 1 /\ ~ n < n
    BY <1>1
  <2>2. start[n + 1] <= q
    BY <2>1, <1>1, <1>2
  <2> QED
    BY <2>1, <2>2, ArrivedTo
<1>3. CASE Len(network) # 0
  <2> DEFINE i == network[1][1]
  <2>1. 1 \in 1 .. Len(network)
    BY <1>1, <1>3
  <2>2. IsAt(start, network[1], q + 1)
    BY <2>1 DEF NetworkFits
  <2>3. i \in 1 .. n /\ network[1][2] \in 1 .. SizeOf(i) /\ q + 1 = start[i] + network[1][2]
    BY <2>2 DEF IsAt
  <2>4. SizeOf(i) \in Nat /\ start[i + 1] = start[i] + SizeOf(i)
    BY <2>3, Sizes DEF Laid
  <2> HIDE DEF i
  <2>5. i - 1 \in 0 .. n /\ (i - 1) + 1 = i /\ (i - 1) + 2 = i + 1
        /\ i \in 1 .. n + 1 /\ n + 1 \in 1 .. n + 1
    BY <2>3, <1>1, SMTT(30)
  <2>6. q \in Int
    BY <2>5, <1>1
  <2> HIDE DEF q
  <2>8. start[i] \in Nat /\ start[i + 1] \in Nat
    BY <2>3, <2>4, <2>5, <1>1, SMTT(30)
  <2>7. start[i] <= q /\ q < start[i + 1]
    <3> DEFINE k == network[1][2]
               s == start[i]
               e == start[i + 1]
               w == SizeOf(i)
    <3>1. k \in 1 .. w /\ q + 1 = s + k /\ e = s + w /\ w \in Nat /\ s \in Nat /\ e \in Nat
      BY <2>3, <2>4, <2>8
    <3> HIDE DEF k, s, e, w
    <3>2. s <= q /\ q < e
      BY <2>6, <3>1
    <3> QED
      BY <3>2 DEF s, e
  <2> QED
    BY <2>5, <2>7, ArrivedTo DEF q
<1> QED
  BY <1>1, <1>2, <1>3
\* The same of the next state
ArrivedIs(start, a) ==
  /\ start[a + 1] <= ReadTo(start)
  /\ a < Len(transmitted) => ReadTo(start) < start[a + 2]
  /\ Arrived = a

ArrivalTells ==
  StreamTypeOK =>
    \A start \in [1 .. Len(transmitted) + 1 -> Nat] :
      Laid(start) /\ NetworkFits(start) => \E a \in 0 .. Len(transmitted) : ArrivedIs(start, a)

LEMMA ArrivalIsKnown == ArrivalTells
BY SomeArrived DEF ArrivalTells, ArrivedIs

LEMMA ArrivalWillBeKnown == ArrivalTells'
BY ArrivalIsKnown, PTL
----------------------------------------------------------------------------
(* The value the Reader is about to read is the next message's.            *)

\* After the header of message i, what is unread begins with its value.
AtValue(start, i) ==
  /\ i \in 1 .. Len(transmitted)
  /\ transmitted[i].version = "current"
  /\ Expected = [type |-> transmitted[i].type, size |-> transmitted[i].size]
  /\ AfterHeader \in Seq(Bytes)
  /\ \A j \in 1 .. Len(AfterHeader) : IsAt(start, AfterHeader[j], start[i] + HeaderSize + j)
  /\ ReadTo(start) = start[i] + HeaderSize + Len(AfterHeader)

\* The unread bytes are all of a message only if there is one.
LEMMA HeaderTells ==
  ASSUME StreamTypeOK, NEW start \in [1 .. Len(transmitted) + 1 -> Nat], BytesFit(start), ~raised,
         currentPhase = "ReadHeader", HeaderIsThere
  PROVE  LET i == Len(handled) + 1
         IN  /\ i \in 1 .. Len(transmitted)
             /\ unread[1][1] = i
             /\ MessageAt(unread) = transmitted[i]
<1> DEFINE i == Len(handled) + 1
           n == Len(transmitted)
           q == ReadTo(start)
<1>1. /\ n \in Nat /\ Len(handled) \in Nat /\ Len(unread) \in Nat /\ Len(network) \in Nat
      /\ i \in 1 .. n + 1 /\ n + 1 \in 1 .. n + 1
  BY DEF StreamTypeOK
<1>2. start[i] \in Nat /\ start[n + 1] \in Nat
  BY <1>1
<1>3. HeaderSize \in Nat /\ HeaderSize >= 1 /\ Len(unread) >= HeaderSize
  BY StreamAssumption DEF HeaderIsThere
<1>4. q = start[n + 1] - Len(network) /\ q - Len(unread) = start[i]
  BY DEF BytesFit, ReaderFits, ParsedTo, ReadTo
<1>5. i # n + 1
  <2>1. q \in Int
    BY <1>1, <1>2, <1>4
  <2> DEFINE s == start[i]
             last == start[n + 1]
  <2>2. q = last - Len(network) /\ q - Len(unread) = s /\ s \in Nat /\ last \in Nat
    BY <1>2, <1>4
  <2> HIDE DEF q, i, n, s, last
  <2>3. s < last
    BY <2>1, <2>2, <1>1, <1>3
  <2> QED
    BY <2>2, <2>3 DEF s, last
<1>6. i \in 1 .. n
  BY <1>1, <1>5
<1>7. IsAt(start, unread[1], start[i] + 1)
  <2>1. 1 \in 1 .. Len(unread)
    BY <1>1, <1>3
  <2> QED
    BY <2>1, <1>4 DEF BytesFit, ReaderFits, ParsedTo
<1>8. 1 \in 1 .. SizeOf(i)
  BY <1>6, Sizes
<1>9. unread[1][1] = i
  <2> HIDE DEF i
  <2> QED
    BY <1>6, <1>7, <1>8, PlaceTells DEF BytesFit
<1>10. Head(unread) = unread[1]
  BY <1>1, <1>3 DEF StreamTypeOK
<1> QED
  BY <1>6, <1>9, <1>10 DEF MessageAt

LEMMA ValueIsNext ==
  ASSUME StreamTypeOK, NEW start \in [1 .. Len(transmitted) + 1 -> Nat], BytesFit(start), CanGoOn
  PROVE  AtValue(start, Len(handled) + 1)
<1> DEFINE i == Len(handled) + 1
           n == Len(transmitted)
<1>1. ~raised /\ ReaderFits(start)
  BY DEF StreamTypeOK, BytesFit, CanGoOn
<1>2. /\ n \in Nat /\ Len(handled) \in Nat /\ Len(unread) \in Nat /\ Len(network) \in Nat
      /\ i \in 1 .. n + 1 /\ n + 1 \in 1 .. n + 1
  BY DEF StreamTypeOK
<1>3. start[i] \in Nat /\ start[n + 1] \in Nat
  BY <1>2
<1>4. ReadTo(start) = start[n + 1] - Len(network) /\ ParsedTo(start) = ReadTo(start) - Len(unread)
  BY DEF ParsedTo, ReadTo
<1>5. HeaderSize \in Nat
  BY StreamAssumption
<1>6. CASE currentPhase = "ReadHeader"
  <2>1. HeaderIsThere /\ MessageAt(unread).version = "current"
    BY <1>6 DEF CanGoOn
  <2>2. i \in 1 .. n /\ MessageAt(unread) = transmitted[i]
    BY <1>1, <1>6, <2>1, HeaderTells
  <2>3. Expected = [type |-> transmitted[i].type, size |-> transmitted[i].size]
    BY <1>6, <2>2 DEF Expected
  <2>4. AfterHeader = SubSeq(unread, HeaderSize + 1, Len(unread)) /\ HeaderSize \in 0 .. Len(unread)
    BY <1>2, <1>5, <1>6, <2>1 DEF AfterHeader, Rest, HeaderIsThere
  <2>5. /\ AfterHeader \in Seq(Bytes) /\ Len(AfterHeader) = Len(unread) - HeaderSize
        /\ \A j \in 1 .. Len(AfterHeader) : AfterHeader[j] = unread[HeaderSize + j]
    BY <2>4, RestOf DEF StreamTypeOK
  <2>6. ParsedTo(start) = start[i]
    BY <1>1, <1>6 DEF ReaderFits
  <2> HIDE DEF i, n
  <2>7. ReadTo(start) = start[i] + HeaderSize + Len(AfterHeader)
    <3>1. ReadTo(start) \in Int
      BY <1>2, <1>3, <1>4
    <3>2. Len(AfterHeader) = Len(unread) - HeaderSize
      BY <2>5
    <3>3. ReadTo(start) - Len(unread) = start[i]
      BY <1>4, <2>6
    <3> QED
      BY <1>2, <1>3, <1>5, <3>1, <3>2, <3>3
  <2>8. ASSUME NEW j \in 1 .. Len(AfterHeader)
        PROVE  IsAt(start, AfterHeader[j], start[i] + HeaderSize + j)
    <3>1. HeaderSize + j \in 1 .. Len(unread)
      BY <1>2, <1>5, <2>5
    <3>2. IsAt(start, unread[HeaderSize + j], ParsedTo(start) + (HeaderSize + j))
      BY <1>1, <3>1 DEF ReaderFits
    <3>3. ParsedTo(start) + (HeaderSize + j) = start[i] + HeaderSize + j
      BY <1>3, <1>5, <2>6
    <3> QED
      BY <2>5, <3>2, <3>3
  <2> QED
    BY <2>1, <2>2, <2>3, <2>5, <2>7, <2>8 DEF AtValue, i, n
<1>7. CASE currentPhase = "ReadValue"
  <2>1. AfterHeader = unread /\ Expected = nextValue
    BY <1>7 DEF AfterHeader, Expected
  <2>2. /\ i <= n /\ ParsedTo(start) = start[i] + HeaderSize
        /\ nextValue = [type |-> transmitted[i].type, size |-> transmitted[i].size]
        /\ transmitted[i].version = "current"
    BY <1>1, <1>7 DEF ReaderFits
  <2>3. i \in 1 .. n
    BY <1>2, <2>2
  <2>4. \A j \in 1 .. Len(unread) : IsAt(start, unread[j], start[i] + HeaderSize + j)
    BY <1>1, <2>2 DEF ReaderFits
  <2>5. ReadTo(start) = start[i] + HeaderSize + Len(unread)
    <3>1. ReadTo(start) \in Int
      BY <1>2, <1>3, <1>4
    <3>2. ReadTo(start) - Len(unread) = start[i] + HeaderSize
      BY <1>4, <2>2
    <3> HIDE DEF i, n
    <3> QED
      BY <1>2, <1>3, <1>5, <3>1, <3>2
  <2> QED
    BY <2>1, <2>2, <2>3, <2>4, <2>5 DEF AtValue, StreamTypeOK
<1> QED
  BY <1>6, <1>7 DEF StreamTypeOK
LEMMA TakenIsIt ==
  ASSUME StreamTypeOK, NEW start \in [1 .. Len(transmitted) + 1 -> Nat], BytesFit(start), HasValue
  PROVE  LET i == Len(handled) + 1
         IN  /\ Taken = transmitted[i].size
             /\ ValueRead = transmitted[i]
<1> DEFINE i == Len(handled) + 1
           m == transmitted[i]
<1>1. AtValue(start, i) /\ Len(AfterHeader) >= Expected.size
  BY ValueIsNext DEF HasValue
<1>2. /\ i \in 1 .. Len(transmitted)
      /\ m.version = "current" /\ Expected = [type |-> m.type, size |-> m.size]
  BY <1>1 DEF AtValue
<1>3. m \in StreamMessages
  BY <1>2, Sizes
<1>4. /\ m \in [type : STRING, size : Nat, version : {"current", "other"}, known : BOOLEAN]
      /\ IF m.type \in TileLayers \cup {"StringPool"} THEN m.size > 0 ELSE m.size = 0 /\ m.known
  BY <1>3, StreamAssumption
<1> HIDE DEF m
<1>5. Taken = m.size
  BY <1>2, <1>4 DEF Taken
<1>6. CASE m.size = 0
  <2>1. ValueRead = [type |-> m.type, size |-> 0, version |-> "current", known |-> TRUE]
    BY <1>2, <1>5, <1>6 DEF ValueRead
  <2>2. m.known = TRUE
    BY <1>4, <1>6
  <2>3. m = [type |-> m.type, size |-> m.size, version |-> m.version, known |-> m.known]
    BY <1>4
  <2>4. ValueRead = m
    BY <2>1, <2>2, <2>3, <1>2, <1>6
  <2> QED
    BY <1>5, <2>4 DEF m
<1>7. CASE m.size # 0
  <2>1. HeaderSize \in Nat /\ m.size \in Nat
    BY <1>4, StreamAssumption
  <2>2. Len(AfterHeader) \in Nat /\ Len(AfterHeader) >= m.size
    BY <1>1, <1>2 DEF AtValue
  <2>3. 1 \in 1 .. Len(AfterHeader)
    BY <2>1, <2>2, <1>7
  <2>4. IsAt(start, AfterHeader[1], start[i] + HeaderSize + 1)
    BY <1>1, <2>3 DEF AtValue
  <2>5. start[i] \in Nat
    BY <1>2 DEF StreamTypeOK
  <2>6. start[i] + HeaderSize + 1 = start[i] + (HeaderSize + 1)
    BY <2>1, <2>5
  <2>7. HeaderSize + 1 \in 1 .. SizeOf(i)
    BY <2>1, <1>7 DEF SizeOf, m
  <2>8. AfterHeader[1][1] = i
    <3> HIDE DEF i
    <3> QED
      BY <1>2, <2>4, <2>6, <2>7, PlaceTells DEF BytesFit
  <2>9. Head(AfterHeader) = AfterHeader[1]
    BY <1>1, <2>3 DEF AtValue
  <2>10. ValueRead = transmitted[AfterHeader[1][1]]
    BY <1>5, <1>7, <2>9 DEF ValueRead, MessageAt
  <2> QED
    BY <1>5, <2>8, <2>10 DEF m
<1> QED
  BY <1>6, <1>7

----------------------------------------------------------------------------
(* Steps                                                                   *)

\* A step in which the Reader stops reads nothing from the network.
LEMMA SameNetwork ==
  ASSUME NEW start, UNCHANGED <<transmitted, network>>
  PROVE  /\ Laid(start)' = Laid(start)
         /\ NetworkFits(start)' = NetworkFits(start)
         /\ ReadTo(start)' = ReadTo(start)
         /\ \A b, x : IsAt(start, b, x)' = IsAt(start, b, x)
BY DEF Laid, IsAt, SizeOf, NetworkFits, ReadTo

\* A piece of what is unread, for the type of the next state
LEMMA RestIsBytes ==
  ASSUME NEW s \in Seq(Bytes), NEW k \in Nat
  PROVE  SubSeq(s, k + 1, Len(s)) \in Seq(Bytes)
OBVIOUS

Stutters == UNCHANGED <<transmitted, Arrived, handled>>

LEMMA StepOfWaitForHeader ==
  ASSUME StreamInv, WaitForHeader
  PROVE  StreamInv' /\ Stutters
<1> DEFINE i == Len(handled) + 1
           n == Len(transmitted)
<1>1. PICK start \in [1 .. n + 1 -> Nat] : BytesFit(start)
  BY DEF StreamInv
<1>2. StreamTypeOK /\ ReaderFits(start) /\ ~raised
  BY <1>1 DEF StreamInv, StreamTypeOK, BytesFit, WaitForHeader
<1>3. UNCHANGED <<transmitted, network, unread, currentPhase, nextValue, raised, handled>>
      /\ reading' = FALSE /\ currentPhase = "ReadHeader"
  BY DEF WaitForHeader, Stop
<1>4. StreamTypeOK'
  BY <1>2, <1>3 DEF StreamTypeOK
<1>5. i = n + 1 \/ ReadTo(start) < start[i + 1]
  <2>1. /\ n \in Nat /\ Len(unread) \in Nat /\ Len(network) \in Nat
        /\ i \in 1 .. n + 1 /\ n + 1 \in 1 .. n + 1
    BY <1>2 DEF StreamTypeOK
  <2>2. ReadTo(start) - Len(unread) = start[i]
    BY <1>2, <1>3 DEF ReaderFits, ParsedTo
  <2>3. ReadTo(start) \in Int
    BY <2>1 DEF ReadTo
  <2>4. HeaderSize \in Nat /\ Len(unread) < HeaderSize
    BY <2>1, StreamAssumption DEF WaitForHeader, HeaderIsThere
  <2>5. CASE i # n + 1
    <3>1. i \in 1 .. n /\ i + 1 \in 1 .. n + 1
      BY <2>1, <2>5
    <3>2. start[i] \in Nat /\ start[i + 1] \in Nat
      BY <2>1, <3>1
    <3>3. start[i + 1] = start[i] + SizeOf(i)
      BY <1>1, <3>1 DEF BytesFit, Laid
    <3>4. SizeOf(i) = HeaderSize + transmitted[i].size /\ transmitted[i].size \in Nat
      BY <1>2, <3>1, Sizes
    <3>5. SizeOf(i) \in Nat /\ SizeOf(i) >= HeaderSize
      BY <2>4, <3>4
    <3> HIDE DEF i, n
    <3> QED
      BY <2>1, <2>2, <2>3, <2>4, <3>2, <3>3, <3>5
  <2> QED
    BY <2>5
<1>6. BytesFit(start)'
  BY <1>1, <1>2, <1>3, <1>5, SameNetwork DEF BytesFit, ReaderFits, ParsedTo
<1> QED
  BY <1>1, <1>3, <1>4, <1>6 DEF StreamInv, Stutters, Arrived
LEMMA StepOfRefuseVersion ==
  ASSUME StreamInv, RefuseVersion
  PROVE  StreamInv' /\ Stutters
<1>1. PICK start \in [1 .. Len(transmitted) + 1 -> Nat] : BytesFit(start)
  BY DEF StreamInv
<1>2. /\ UNCHANGED <<transmitted, network, currentPhase, nextValue, handled>>
      /\ unread' = Rest(VersionSize) /\ raised' = TRUE /\ reading' = FALSE
  BY DEF RefuseVersion, Stop
<1>3. unread' \in Seq(Bytes)
  BY <1>2, RestIsBytes, StreamAssumption DEF StreamInv, StreamTypeOK, Rest
<1>4. StreamTypeOK'
  BY <1>2, <1>3 DEF StreamInv, StreamTypeOK
<1>5. BytesFit(start)'
  BY <1>1, <1>2, SameNetwork DEF BytesFit
<1> QED
  BY <1>1, <1>2, <1>4, <1>5 DEF StreamInv, Stutters, Arrived

LEMMA StepOfWaitForValue ==
  ASSUME StreamInv, WaitForValue
  PROVE  StreamInv' /\ Stutters
<1> DEFINE i == Len(handled) + 1
           n == Len(transmitted)
<1>1. PICK start \in [1 .. n + 1 -> Nat] : BytesFit(start)
  BY DEF StreamInv
<1>2. AtValue(start, i) /\ StreamTypeOK
  BY <1>1, ValueIsNext DEF StreamInv, WaitForValue
<1>3. /\ UNCHANGED <<transmitted, network, raised, handled>>
      /\ unread' = AfterHeader /\ nextValue' = Expected /\ currentPhase' = "ReadValue"
      /\ reading' = FALSE /\ Len(AfterHeader) < Expected.size /\ ~raised
  BY <1>2 DEF WaitForValue, Stop, CanGoOn, StreamTypeOK
<1>4. StreamTypeOK'
  BY <1>2, <1>3 DEF StreamTypeOK, AtValue
<1>5. /\ n \in Nat /\ i \in 1 .. n /\ i + 1 \in 1 .. n + 1 /\ i \in 1 .. n + 1
      /\ Len(AfterHeader) \in Nat /\ HeaderSize \in Nat
  BY <1>2, StreamAssumption DEF AtValue, StreamTypeOK
<1>6. start[i] \in Nat /\ start[i + 1] \in Nat
  BY <1>5
<1>7. ReadTo(start) = start[i] + HeaderSize + Len(AfterHeader)
  BY <1>2 DEF AtValue
<1>8. ReadTo(start) < start[i + 1]
  <2>1. start[i + 1] = start[i] + SizeOf(i)
    BY <1>1, <1>5 DEF BytesFit, Laid
  <2>2. SizeOf(i) \in Nat /\ SizeOf(i) = HeaderSize + transmitted[i].size /\ transmitted[i].size \in Nat
    BY <1>2, <1>5, Sizes
  <2>3. Len(AfterHeader) < transmitted[i].size
    BY <1>2, <1>3 DEF AtValue
  <2>4. HeaderSize + Len(AfterHeader) < SizeOf(i)
    BY <1>5, <2>2, <2>3
  <2> DEFINE w == HeaderSize + Len(AfterHeader)
  <2>5. w \in Nat /\ ReadTo(start) = start[i] + w
    BY <1>5, <1>6, <1>7
  <2> HIDE DEF i, n, w
  <2> QED
    BY <1>6, <2>1, <2>2, <2>4, <2>5 DEF w
<1>9. ReadTo(start) - Len(AfterHeader) = start[i] + HeaderSize
  <2> HIDE DEF i, n
  <2> QED
    BY <1>5, <1>6, <1>7
<1>10. ReaderFits(start)'
  <2>1. ParsedTo(start)' = start[i] + HeaderSize /\ ReadTo(start)' = ReadTo(start)
    <3>1. ReadTo(start)' = ReadTo(start)
      BY <1>3 DEF ReadTo
    <3>2. ParsedTo(start)' = ReadTo(start)' - Len(unread')
      BY DEF ParsedTo
    <3>3. ParsedTo(start)' = ReadTo(start) - Len(AfterHeader)
      BY <1>3, <3>1, <3>2
    <3> QED
      BY <3>1, <3>3, <1>9
  <2>2. \A j \in 1 .. Len(unread') : IsAt(start, unread[j], ParsedTo(start) + j)'
    BY <1>2, <1>3, <2>1, SameNetwork DEF AtValue
  <2>3. /\ nextValue' = [type |-> transmitted[i].type, size |-> transmitted[i].size]
        /\ transmitted[i].version = "current"
    BY <1>2, <1>3 DEF AtValue
  <2> QED
    BY <1>3, <1>5, <1>8, <2>1, <2>2, <2>3 DEF ReaderFits
<1>11. BytesFit(start)'
  BY <1>1, <1>3, <1>10, SameNetwork DEF BytesFit
<1> QED
  BY <1>1, <1>3, <1>4, <1>11 DEF StreamInv, Stutters, Arrived

LEMMA StepOfRefuseLayer ==
  ASSUME StreamInv, RefuseLayer
  PROVE  StreamInv' /\ Stutters
<1>1. PICK start \in [1 .. Len(transmitted) + 1 -> Nat] : BytesFit(start)
  BY DEF StreamInv
<1>2. AtValue(start, Len(handled) + 1) /\ StreamTypeOK
  BY <1>1, ValueIsNext DEF StreamInv, RefuseLayer, HasValue
<1>3. /\ UNCHANGED <<transmitted, network, handled>>
      /\ currentPhase' = "ReadValue" /\ raised' = TRUE /\ reading' = FALSE
      /\ \E k \in 1 .. Expected.size : unread' = SubSeq(AfterHeader, k + 1, Len(AfterHeader))
  BY DEF RefuseLayer, Stop
<1>4. transmitted[Len(handled) + 1].size \in Nat
  BY <1>2, Sizes DEF AtValue
<1>5. PICK k \in 1 .. Expected.size : unread' = SubSeq(AfterHeader, k + 1, Len(AfterHeader))
  BY <1>3
<1>6. k \in Nat
  BY <1>2, <1>4 DEF AtValue
<1>7. unread' \in Seq(Bytes)
  BY <1>2, <1>5, <1>6, RestIsBytes DEF AtValue
<1>8. StreamTypeOK'
  BY <1>2, <1>3, <1>7 DEF StreamTypeOK
<1>9. BytesFit(start)'
  BY <1>1, <1>3, SameNetwork DEF BytesFit
<1> QED
  BY <1>1, <1>3, <1>8, <1>9 DEF StreamInv, Stutters, Arrived
\* A message that has been read to its end has arrived.
LEMMA ArrivedAfter ==
  ASSUME StreamTypeOK, NEW start \in [1 .. Len(transmitted) + 1 -> Nat], Laid(start),
         NEW q \in Int, NEW a \in 0 .. Len(transmitted), NEW d \in 0 .. Len(transmitted),
         start[d + 1] <= q, a < Len(transmitted) => q < start[a + 2]
  PROVE  d <= a
<1>1. Len(transmitted) \in Nat
  BY DEF StreamTypeOK
<1>2. CASE a < d
  <2>1. /\ a < Len(transmitted) /\ a + 2 \in 1 .. Len(transmitted) + 1
        /\ d + 1 \in 1 .. Len(transmitted) + 1 /\ a + 2 <= d + 1
    BY <1>1, <1>2
  <2>2. start[a + 2] <= start[d + 1]
    BY <2>1, InOrder
  <2>3. start[a + 2] \in Nat /\ start[d + 1] \in Nat /\ q < start[a + 2]
    BY <2>1
  <2> QED
    BY <2>2, <2>3
<1> QED
  BY <1>1, <1>2

LEMMA StepOfReadValue ==
  ASSUME StreamInv, ReadValue
  PROVE  StreamInv' /\ Channel!Handle
<1> DEFINE i == Len(handled) + 1
           n == Len(transmitted)
           z == transmitted[i].size
<1>1. PICK start \in [1 .. n + 1 -> Nat] : BytesFit(start)
  BY DEF StreamInv
<1>2. AtValue(start, i) /\ StreamTypeOK /\ Taken = z /\ ValueRead = transmitted[i]
  BY <1>1, ValueIsNext, TakenIsIt DEF StreamInv, ReadValue, HasValue
<1>3. /\ UNCHANGED <<transmitted, network, raised, reading>>
      /\ unread' = SubSeq(AfterHeader, z + 1, Len(AfterHeader))
      /\ handled' = Append(handled, transmitted[i]) /\ currentPhase' = "ReadHeader"
      /\ reading = TRUE /\ Expected.size = z /\ Len(AfterHeader) >= z
  BY <1>2 DEF ReadValue, HasValue, CanGoOn, AtValue, StreamTypeOK
<1>4. /\ n \in Nat /\ i \in 1 .. n /\ i \in 1 .. n + 1 /\ i + 1 \in 1 .. n + 1
      /\ Len(AfterHeader) \in Nat /\ HeaderSize \in Nat /\ Len(handled) \in Nat
  BY <1>2, StreamAssumption DEF AtValue, StreamTypeOK
<1>5. start[i] \in Nat /\ start[i + 1] \in Nat
  BY <1>4
<1>6. transmitted[i] \in StreamMessages /\ z \in Nat /\ SizeOf(i) = HeaderSize + z
  BY <1>2, <1>4, Sizes
<1>7. start[i + 1] = start[i] + (HeaderSize + z)
  BY <1>1, <1>4, <1>6 DEF BytesFit, Laid
<1>8. /\ unread' \in Seq(Bytes) /\ Len(unread') = Len(AfterHeader) - z
      /\ \A j \in 1 .. Len(unread') : unread'[j] = AfterHeader[z + j]
  <2>1. z \in 0 .. Len(AfterHeader)
    BY <1>3, <1>4, <1>6
  <2>2. AfterHeader \in Seq(Bytes)
    BY <1>2 DEF AtValue
  <2> HIDE DEF z
  <2> QED
    BY <1>3, <2>1, <2>2, RestOf
<1>9. handled' \in Seq(StreamMessages) /\ Len(handled') = i /\ Len(handled') <= n
  BY <1>2, <1>3, <1>4, <1>6 DEF StreamTypeOK
<1>10. StreamTypeOK'
  BY <1>2, <1>3, <1>8, <1>9 DEF StreamTypeOK
<1>11. ReadTo(start) = start[i] + HeaderSize + Len(AfterHeader)
  BY <1>2 DEF AtValue
<1>12. ReadTo(start) \in Int /\ start[i + 1] <= ReadTo(start)
       /\ ReadTo(start) - Len(unread') = start[i + 1]
  <2> HIDE DEF i, n, z
  <2>1. ReadTo(start) \in Int
    BY <1>4, <1>5, <1>11
  <2>2. start[i + 1] = start[i] + HeaderSize + z
    BY <1>4, <1>5, <1>6, <1>7
  <2> DEFINE s == start[i]
             e == start[i + 1]
             l == Len(AfterHeader)
  <2>5. /\ e = s + HeaderSize + z /\ ReadTo(start) = s + HeaderSize + l /\ l >= z
        /\ s \in Nat /\ e \in Nat /\ l \in Nat /\ z \in Nat /\ HeaderSize \in Nat
    BY <1>3, <1>4, <1>5, <1>6, <1>11, <2>2 DEF z
  <2> HIDE DEF s, e, l
  <2>6. e <= ReadTo(start) /\ ReadTo(start) - (l - z) = e
    BY <2>5
  <2>3. start[i + 1] <= ReadTo(start)
    BY <2>6 DEF e
  <2>4. ReadTo(start) - (Len(AfterHeader) - z) = start[i + 1]
    BY <2>6 DEF e, l
  <2> QED
    BY <1>8, <2>1, <2>3, <2>4
<1>13. ReaderFits(start)'
  <2>1. ReadTo(start)' = ReadTo(start)
    BY <1>3 DEF ReadTo
  <2>2. ParsedTo(start)' = ReadTo(start)' - Len(unread')
    BY DEF ParsedTo
  <2>3. ParsedTo(start)' = start[i + 1]
    BY <1>12, <2>1, <2>2
  <2>4. ASSUME NEW j \in 1 .. Len(unread')
        PROVE  IsAt(start, unread[j], ParsedTo(start) + j)'
    <3>1. z + j \in 1 .. Len(AfterHeader)
      <4> HIDE DEF z
      <4> QED
        BY <1>4, <1>6, <1>8
    <3>2. IsAt(start, AfterHeader[z + j], start[i] + HeaderSize + (z + j))
      BY <1>2, <3>1 DEF AtValue
    <3>3. start[i] + HeaderSize + (z + j) = start[i + 1] + j
      <4> HIDE DEF i, n, z
      <4> QED
        BY <1>4, <1>5, <1>6, <1>7
    <3>4. IsAt(start, unread'[j], start[i + 1] + j)
      BY <1>8, <3>2, <3>3
    <3> QED
      BY <1>3, <2>3, <3>4 DEF IsAt, SizeOf
  <2>5. Len(handled') + 1 = i + 1
    BY <1>9
  <2> QED
    BY <1>3, <2>3, <2>4, <2>5 DEF ReaderFits
<1>14. BytesFit(start)'
  BY <1>1, <1>3, <1>13, SameNetwork DEF BytesFit
<1>15. UNCHANGED Arrived
  BY <1>3 DEF Arrived
<1>16. Len(handled) < Arrived
  <2>1. PICK a \in 0 .. n : ArrivedIs(start, a)
    BY <1>1, <1>2, ArrivalIsKnown DEF ArrivalTells, BytesFit
  <2>2. i \in 0 .. n /\ Laid(start)
    BY <1>1, <1>4 DEF BytesFit
  <2> HIDE DEF i
  <2>3. i <= a
    BY <1>2, <1>12, <2>1, <2>2, ArrivedAfter DEF ArrivedIs
  <2> QED
    BY <1>4, <2>1, <2>3 DEF ArrivedIs, i
<1> QED
  BY <1>1, <1>3, <1>10, <1>14, <1>15, <1>16 DEF StreamInv, Channel!Handle

LEMMA StepOfRead ==
  ASSUME StreamInv, NEW k \in 1 .. Len(network), Read(k)
  PROVE  StreamInv' /\ Channel!Arrive
<1> DEFINE i == Len(handled) + 1
           n == Len(transmitted)
           piece == SubSeq(network, 1, k)
<1>1. PICK start \in [1 .. n + 1 -> Nat] : BytesFit(start)
  BY DEF StreamInv
<1>2. StreamTypeOK /\ ReaderFits(start) /\ ~reading /\ ~raised
  BY <1>1 DEF StreamInv, BytesFit, Read
<1>3. /\ UNCHANGED <<transmitted, currentPhase, nextValue, raised, handled>>
      /\ unread' = unread \o piece /\ network' = SubSeq(network, k + 1, Len(network))
      /\ reading' = TRUE
  BY DEF Read
<1>4. /\ n \in Nat /\ Len(handled) \in Nat /\ i \in 1 .. n + 1 /\ n + 1 \in 1 .. n + 1
      /\ Len(network) \in Nat /\ Len(unread) \in Nat /\ k \in Nat /\ k \in 0 .. Len(network)
  BY <1>2 DEF StreamTypeOK
<1>5. start[i] \in Nat /\ start[n + 1] \in Nat
  BY <1>4
<1>6. ReadTo(start) = start[n + 1] - Len(network) /\ ReadTo(start) \in Int
      /\ ParsedTo(start) = ReadTo(start) - Len(unread) /\ ParsedTo(start) \in Int
  BY <1>4, <1>5 DEF ReadTo, ParsedTo
<1>7. /\ network' \in Seq(Bytes) /\ Len(network') = Len(network) - k
      /\ \A j \in 1 .. Len(network') : network'[j] = network[k + j]
  BY <1>2, <1>3, <1>4, RestOf DEF StreamTypeOK
<1>8. piece \in Seq(Bytes) /\ Len(piece) = k /\ \A j \in 1 .. k : piece[j] = network[j]
  BY <1>2, <1>4, PieceOf DEF StreamTypeOK
<1>9. /\ unread' \in Seq(Bytes) /\ Len(unread') = Len(unread) + k
      /\ \A j \in 1 .. Len(unread) : unread'[j] = unread[j]
      /\ \A j \in 1 .. k : unread'[Len(unread) + j] = network[j]
  <2>1. unread \in Seq(Bytes)
    BY <1>2 DEF StreamTypeOK
  <2> HIDE DEF piece
  <2>2. /\ unread' \in Seq(Bytes) /\ Len(unread') = Len(unread) + Len(piece)
        /\ \A j \in 1 .. Len(unread) : unread'[j] = unread[j]
        /\ \A j \in 1 .. Len(piece) : unread'[Len(unread) + j] = piece[j]
    BY <1>3, <1>8, <2>1, Joined
  <2> QED
    BY <1>8, <2>2
<1>10. StreamTypeOK'
  BY <1>2, <1>3, <1>7, <1>9 DEF StreamTypeOK
<1>11. ReadTo(start)' = ReadTo(start) + k /\ ParsedTo(start)' = ParsedTo(start)
  <2>1. ReadTo(start)' = start[n + 1] - Len(network')
    BY <1>3 DEF ReadTo
  <2>2. ParsedTo(start)' = ReadTo(start)' - Len(unread')
    BY DEF ParsedTo
  <2> DEFINE last == start[n + 1]
             r == ReadTo(start)
             old == Len(network)
             u == Len(unread)
  <2>3. r = last - old /\ last \in Nat /\ old \in Nat /\ u \in Nat /\ r \in Int
    BY <1>4, <1>5, <1>6
  <2>4. ReadTo(start)' = last - (old - k)
    BY <1>7, <2>1
  <2>5. ParsedTo(start) = r - u
    BY <1>6
  <2> HIDE DEF n, last, r, old, u
  <2>6. last - (old - k) = r + k /\ (r + k) - (u + k) = r - u
    BY <1>4, <2>3
  <2>7. ReadTo(start)' = r + k /\ ParsedTo(start)' = r - u
    BY <1>9, <2>2, <2>4, <2>6 DEF u
  <2> QED
    BY <2>5, <2>7 DEF r
<1>12. Laid(start)' /\ \A b, x : IsAt(start, b, x)' = IsAt(start, b, x)
  BY <1>1, <1>3 DEF BytesFit, Laid, IsAt, SizeOf
<1>13. ASSUME NEW j \in 1 .. Len(network) PROVE IsAt(start, network[j], ReadTo(start) + j)
  BY <1>1 DEF BytesFit, NetworkFits
<1>14. NetworkFits(start)'
  <2>1. ASSUME NEW j \in 1 .. Len(network')
        PROVE  IsAt(start, network[j], ReadTo(start) + j)'
    <3>1. k + j \in 1 .. Len(network)
      BY <1>4, <1>7
    <3>2. IsAt(start, network[k + j], ReadTo(start) + (k + j))
      BY <1>13, <3>1
    <3>3. ReadTo(start)' + j = ReadTo(start) + (k + j)
      BY <1>4, <1>6, <1>11
    <3>4. IsAt(start, network'[j], ReadTo(start)' + j)
      BY <1>7, <3>2, <3>3
    <3> QED
      BY <1>3, <3>4 DEF IsAt, SizeOf
  <2> QED
    BY <2>1 DEF NetworkFits
<1>15. ReaderFits(start)'
  <2>1. ASSUME NEW j \in 1 .. Len(unread')
        PROVE  IsAt(start, unread[j], ParsedTo(start) + j)'
    <3>1. IsAt(start, unread'[j], ParsedTo(start) + j)
      <4>1. CASE j <= Len(unread)
        <5>1. j \in 1 .. Len(unread)
          BY <1>4, <4>1
        <5>2. IsAt(start, unread[j], ParsedTo(start) + j)
          BY <1>2, <5>1 DEF ReaderFits
        <5> QED
          BY <1>9, <5>1, <5>2
      <4>2. CASE ~ j <= Len(unread)
        <5> DEFINE h == j - Len(unread)
        <5>1. h \in 1 .. k /\ h \in 1 .. Len(network) /\ j = Len(unread) + h
          BY <1>4, <1>9, <4>2
        <5>2. IsAt(start, network[h], ReadTo(start) + h)
          BY <1>13, <5>1
        <5>3. ReadTo(start) + h = ParsedTo(start) + j
          BY <1>4, <1>6, <5>1, SMTT(30)
        <5> HIDE DEF h
        <5>4. unread'[j] = network[h]
          BY <1>9, <5>1
        <5> QED
          BY <5>2, <5>3, <5>4
      <4> QED
        BY <4>1, <4>2
    <3> QED
      BY <1>3, <1>11, <3>1 DEF IsAt, SizeOf
  <2> QED
    BY <1>2, <1>3, <1>11, <2>1 DEF ReaderFits
<1>16. BytesFit(start)'
  BY <1>12, <1>14, <1>15 DEF BytesFit
<1>17. StreamInv'
  BY <1>3, <1>10, <1>16 DEF StreamInv
<1>18. start[i] <= ReadTo(start)
  <2>1. CASE currentPhase = "ReadHeader"
    <3>1. ParsedTo(start) = start[i]
      BY <1>2, <2>1 DEF ReaderFits
    <3> DEFINE r == ReadTo(start)
               s == start[i]
    <3>2. r - Len(unread) = s /\ r \in Int /\ s \in Nat /\ Len(unread) \in Nat
      BY <1>4, <1>5, <1>6, <3>1
    <3> HIDE DEF r, s
    <3>3. s <= r
      BY <3>2
    <3> QED
      BY <3>3 DEF r, s
  <2>2. CASE currentPhase = "ReadValue"
    <3>1. ParsedTo(start) = start[i] + HeaderSize /\ HeaderSize \in Nat
      BY <1>2, <2>2, StreamAssumption DEF ReaderFits
    <3> DEFINE r == ReadTo(start)
               s == start[i]
    <3>2. r - Len(unread) = s + HeaderSize /\ r \in Int /\ s \in Nat /\ Len(unread) \in Nat
      BY <1>4, <1>5, <1>6, <3>1
    <3> HIDE DEF r, s
    <3>3. s <= r
      BY <3>1, <3>2
    <3> QED
      BY <3>3 DEF r, s
  <2> QED
    BY <1>2, <2>1, <2>2 DEF StreamTypeOK
<1>19. Arrived = Len(handled)
  <2> DEFINE d == Len(handled)
  <2>1. d \in 0 .. n /\ start[d + 1] <= ReadTo(start)
    BY <1>4, <1>18
  <2>2. d < n => ReadTo(start) < start[d + 2]
    <3>1. i = n + 1 \/ ReadTo(start) < start[i + 1]
      BY <1>2 DEF ReaderFits
    <3>2. i = n + 1 => ~ d < n
      BY <1>4
    <3>3. i + 1 = d + 2
      BY <1>4
    <3> QED
      BY <3>1, <3>2, <3>3
  <2> HIDE DEF d
  <2>3. Laid(start) /\ NetworkFits(start)
    BY <1>1 DEF BytesFit
  <2>4. Arrived = d
    BY <1>2, <2>1, <2>2, <2>3, ArrivedTo
  <2> QED
    BY <2>4 DEF d
<1>20. Arrived' \in Arrived .. n
  <2>1. \E a \in 0 .. n : ArrivedIs(start, a)'
    BY <1>3, <1>10, <1>12, <1>14, ArrivalWillBeKnown DEF ArrivalTells
  <2>2. PICK a \in 0 .. n : ArrivedIs(start, a)'
    BY <2>1
  <2>3. Arrived' = a /\ (a < n => ReadTo(start)' < start[a + 2])
    BY <1>3, <2>2 DEF ArrivedIs
  <2>4. /\ Len(handled) \in 0 .. n /\ start[Len(handled) + 1] <= ReadTo(start)'
        /\ ReadTo(start)' \in Int
    <3> DEFINE r == ReadTo(start)
               s == start[Len(handled) + 1]
    <3>1. r \in Int /\ s \in Nat /\ s <= r
      BY <1>5, <1>6, <1>18
    <3> HIDE DEF r, s
    <3>2. s <= r + k /\ r + k \in Int
      BY <1>4, <3>1
    <3>3. ReadTo(start)' = r + k
      BY <1>11 DEF r
    <3>4. Len(handled) \in 0 .. n
      BY <1>2 DEF StreamTypeOK
    <3> QED
      BY <3>2, <3>3, <3>4 DEF s
  <2>5. Len(handled) <= a
    BY <1>1, <1>2, <2>3, <2>4, ArrivedAfter DEF BytesFit
  <2> QED
    BY <1>4, <1>19, <2>3, <2>5
<1> QED
  BY <1>3, <1>17, <1>19, <1>20 DEF Channel!Arrive

LEMMA StepOfWrite ==
  ASSUME StreamInv, NEW m \in StreamMessages, Write(m)
  PROVE  StreamInv' /\ Channel!Send(m)
<1>0. PICK n \in Nat : n = Len(transmitted)
  BY DEF StreamInv, StreamTypeOK
<1> DEFINE i == Len(handled) + 1
           z == HeaderSize + m.size
           piece == [k \in 1 .. z |-> <<n + 1, k>>]
<1>1. PICK start \in [1 .. n + 1 -> Nat] : BytesFit(start)
  BY <1>0 DEF StreamInv
<1>2. StreamTypeOK /\ Laid(start) /\ NetworkFits(start)
  BY <1>1 DEF StreamInv, BytesFit
<1>3. /\ transmitted' = Append(transmitted, m) /\ network' = network \o piece
      /\ UNCHANGED <<unread, currentPhase, nextValue, reading, raised, handled>>
  BY <1>0 DEF Write, reader
<1>4. /\ n \in Nat /\ Len(handled) \in Nat /\ Len(handled) <= n /\ i \in 1 .. n + 1
      /\ n + 1 \in 1 .. n + 1 /\ Len(network) \in Nat /\ Len(unread) \in Nat
  BY <1>0, <1>2 DEF StreamTypeOK
<1>5. HeaderSize \in Nat /\ m.size \in Nat /\ z \in Nat /\ z >= 1
  BY StreamAssumption
<1>6. \A h \in 1 .. n + 1 : start[h] \in Nat
  OBVIOUS
<1>7. /\ transmitted' \in Seq(StreamMessages) /\ Len(transmitted') = n + 1
      /\ transmitted'[n + 1] = m /\ \A h \in 1 .. n : transmitted'[h] = transmitted[h]
  BY <1>0, <1>2, <1>3 DEF StreamTypeOK
<1>8. piece \in Seq(Bytes) /\ Len(piece) = z /\ \A k \in 1 .. z : piece[k] = <<n + 1, k>>
  <2>1. \A k \in 1 .. z : <<n + 1, k>> \in Bytes
    <3> HIDE DEF z
    <3> QED
      BY <1>4, <1>5 DEF Bytes
  <2> HIDE DEF z
  <2> QED
    BY <1>5, <2>1
<1>9. /\ network' \in Seq(Bytes) /\ Len(network') = Len(network) + z
      /\ \A j \in 1 .. Len(network) : network'[j] = network[j]
      /\ \A j \in 1 .. z : network'[Len(network) + j] = <<n + 1, j>>
  <2>1. network \in Seq(Bytes)
    BY <1>2 DEF StreamTypeOK
  <2> HIDE DEF piece
  <2>2. /\ network' \in Seq(Bytes) /\ Len(network') = Len(network) + Len(piece)
        /\ \A j \in 1 .. Len(network) : network'[j] = network[j]
        /\ \A j \in 1 .. Len(piece) : network'[Len(network) + j] = piece[j]
    BY <1>3, <1>8, <2>1, Joined
  <2> HIDE DEF z
  <2> QED
    BY <1>8, <2>2
<1>10. StreamTypeOK'
  <2>1. Len(handled') <= Len(transmitted')
    BY <1>3, <1>4, <1>7
  <2> QED
    BY <1>2, <1>3, <1>7, <1>9, <2>1 DEF StreamTypeOK
<1>11. \A h \in 1 .. n : SizeOf(h)' = SizeOf(h) /\ SizeOf(h) \in Nat
  BY <1>0, <1>2, <1>7, Sizes DEF SizeOf
<1>12. SizeOf(n + 1)' = z
  BY <1>7 DEF SizeOf, z
\* The new message begins where the last one ends.
<1>13. PICK next \in [1 .. n + 2 -> Nat] :
         next[n + 2] = start[n + 1] + z /\ \A h \in 1 .. n + 1 : next[h] = start[h]
  <2> DEFINE w == [h \in 1 .. n + 2 |-> IF h = n + 2 THEN start[n + 1] + z ELSE start[h]]
  <2>1. n + 2 \in 1 .. n + 2
    BY <1>4
  <2>2. w[n + 2] = start[n + 1] + z
    BY <2>1
  <2>3. \A h \in 1 .. n + 1 : h \in 1 .. n + 2 /\ h # n + 2
    BY <1>4
  <2>4. \A h \in 1 .. n + 1 : w[h] = start[h]
    BY <2>3
  <2>5. start[n + 1] + z \in Nat
    <3> HIDE DEF z
    <3> QED
      BY <1>4, <1>5, <1>6
  <2>6. \A h \in 1 .. n + 2 : h # n + 2 => h \in 1 .. n + 1
    BY <1>4
  <2>7. w \in [1 .. n + 2 -> Nat]
    BY <1>6, <2>5, <2>6
  <2> HIDE DEF w
  <2> QED
    BY <2>2, <2>4, <2>7
<1> HIDE DEF piece, z
<1>14. \A b, x : IsAt(start, b, x) => IsAt(next, b, x)'
  <2> SUFFICES ASSUME NEW b, NEW x, IsAt(start, b, x) PROVE IsAt(next, b, x)'
    OBVIOUS
  <2>1. b[1] \in 1 .. n /\ b[2] \in 1 .. SizeOf(b[1]) /\ x = start[b[1]] + b[2]
    BY <1>0 DEF IsAt
  <2>2. b[1] \in 1 .. n + 1
    <3>1. \A c \in 1 .. n : c \in 1 .. n + 1
      BY <1>4
    <3> QED
      BY <2>1, <3>1
  <2>3. b[1] \in 1 .. Len(transmitted') /\ SizeOf(b[1])' = SizeOf(b[1]) /\ next[b[1]] = start[b[1]]
    BY <1>7, <1>11, <1>13, <2>1, <2>2
  <2>4. b[2] \in 1 .. SizeOf(b[1])'
    BY <2>1, <2>3
  <2> QED
    BY <2>1, <2>3, <2>4 DEF IsAt
<1>15. Laid(next)'
  <2>1. ASSUME NEW h \in 1 .. n + 1
        PROVE  next[h + 1] = next[h] + SizeOf(h)' /\ SizeOf(h)' \in Nat
    <3>1. CASE h = n + 1
      <4>1. (n + 1) + 1 = n + 2 /\ n + 1 \in 1 .. n + 1
        BY <1>4
      <4> QED
        BY <1>5, <1>12, <1>13, <3>1, <4>1
    <3>2. CASE h # n + 1
      <4>1. h \in 1 .. n /\ h + 1 \in 1 .. n + 1
        BY <1>4, <3>2
      <4>2. start[h + 1] = start[h] + SizeOf(h)
        BY <1>0, <1>2, <4>1 DEF Laid
      <4> QED
        BY <1>11, <1>13, <4>1, <4>2
    <3> QED
      BY <3>1, <3>2
  <2>2. ASSUME NEW h \in 1 .. n + 2, NEW j \in 1 .. n + 2, h < j
        PROVE  next[h] + SizeOf(h)' <= next[j]
    <3>1. h \in 1 .. n + 1
      BY <1>4, <2>2
    <3>2. CASE j # n + 2
      <4>1. j \in 1 .. n + 1 /\ h \in 1 .. n
        BY <1>4, <2>2, <3>2
      <4>2. start[h] + SizeOf(h) <= start[j]
        BY <1>0, <1>2, <2>2, <3>1, <4>1 DEF Laid
      <4> QED
        BY <1>11, <1>13, <3>1, <4>1, <4>2
    <3>3. CASE j = n + 2
      <4>1. next[h + 1] = next[h] + SizeOf(h)'
        BY <2>1, <3>1
      <4>2. next[h + 1] <= next[n + 2]
        <5>1. CASE h = n + 1
          <6>1. (n + 1) + 1 = n + 2 /\ n + 2 \in 1 .. n + 2 /\ next[n + 2] \in Nat
            BY <1>4
          <6> QED
            BY <5>1, <6>1
        <5>2. CASE h # n + 1
          <6>1. h + 1 \in 1 .. n + 1 /\ n + 1 \in 1 .. n + 1 /\ h + 1 <= n + 1
            BY <1>4, <3>1, <5>2
          <6>2. start[h + 1] <= start[n + 1]
            BY <1>0, <1>2, <6>1, InOrder
          <6>3. start[h + 1] \in Nat /\ start[n + 1] \in Nat
            BY <1>6, <6>1
          <6>4. start[n + 1] <= start[n + 1] + z
            BY <1>5, <6>3
          <6>5. start[h + 1] <= start[n + 1] + z
            BY <1>5, <6>2, <6>3, <6>4
          <6> QED
            BY <1>13, <6>1, <6>5
        <5> QED
          BY <5>1, <5>2
      <4> QED
        BY <3>3, <4>1, <4>2
    <3> QED
      BY <3>2, <3>3
  <2>3. Len(transmitted') + 1 = n + 2
    BY <1>4, <1>7
  <2> QED
    BY <1>7, <2>1, <2>2, <2>3 DEF Laid
<1>16. ReadTo(start) = start[n + 1] - Len(network) /\ ReadTo(start) \in Int
       /\ ReadTo(start) < start[n + 1] + z
  <2> DEFINE last == start[n + 1]
             old == Len(network)
  <2>1. ReadTo(start) = last - old /\ last \in Nat /\ old \in Nat
    BY <1>0, <1>4, <1>6 DEF ReadTo
  <2> HIDE DEF last, old
  <2>2. ReadTo(start) \in Int /\ ReadTo(start) < last + z
    BY <1>5, <2>1
  <2> QED
    BY <2>1, <2>2 DEF last, old
<1>17. ReadTo(next)' = ReadTo(start) /\ ParsedTo(next)' = ParsedTo(start)
  <2>1. Len(transmitted') + 1 = n + 2
    BY <1>4, <1>7
  <2>2. ReadTo(next)' = next[n + 2] - Len(network')
    BY <2>1 DEF ReadTo
  <2>3. start[n + 1] \in Nat
    BY <1>4, <1>6
  <2>4. ReadTo(next)' = ReadTo(start)
    BY <1>4, <1>5, <1>9, <1>13, <1>16, <2>2, <2>3
  <2> QED
    BY <1>3, <2>4 DEF ParsedTo
<1>18. NetworkFits(next)'
  <2>1. ASSUME NEW j \in 1 .. Len(network')
        PROVE  IsAt(next, network[j], ReadTo(next) + j)'
    <3>1. CASE j <= Len(network)
      <4>1. j \in 1 .. Len(network)
        BY <1>4, <3>1
      <4>2. IsAt(start, network[j], ReadTo(start) + j)
        BY <1>2, <4>1 DEF NetworkFits
      <4>3. network'[j] = network[j]
        BY <1>9, <4>1
      <4> QED
        BY <1>14, <1>17, <4>2, <4>3 DEF IsAt
    <3>2. CASE ~ j <= Len(network)
      <4> DEFINE k == j - Len(network)
      <4>1. k \in 1 .. z /\ j = Len(network) + k
        BY <1>4, <1>5, <1>9, <3>2
      <4> HIDE DEF k
      <4>2. network'[j] = <<n + 1, k>>
        BY <1>9, <4>1
      <4>3. start[n + 1] \in Nat /\ k \in Nat
        BY <1>4, <1>5, <1>6, <4>1
      <4>4. ReadTo(start) + j = start[n + 1] + k
        BY <1>4, <1>16, <4>1, <4>3
      <4>5. next[n + 1] = start[n + 1] /\ n + 1 \in 1 .. Len(transmitted')
        BY <1>4, <1>7, <1>13
      <4> QED
        BY <1>12, <1>17, <4>1, <4>2, <4>4, <4>5 DEF IsAt
    <3> QED
      BY <3>1, <3>2
  <2> QED
    BY <2>1 DEF NetworkFits
<1>19. ASSUME ~raised PROVE ReaderFits(next)'
  <2>1. ReaderFits(start)
    BY <1>1, <1>19 DEF BytesFit
  <2>2. ASSUME NEW j \in 1 .. Len(unread')
        PROVE  IsAt(next, unread[j], ParsedTo(next) + j)'
    <3>1. IsAt(start, unread[j], ParsedTo(start) + j) /\ unread' = unread
      BY <1>3, <2>1 DEF ReaderFits
    <3> QED
      BY <1>14, <1>17, <3>1 DEF IsAt
  <2>3. next[i] = start[i] /\ i' = i
    BY <1>3, <1>4, <1>13
  <2>4. currentPhase' = "ReadHeader" => ParsedTo(next)' = next[i]
    BY <1>3, <1>17, <2>1, <2>3 DEF ReaderFits
  <2>5. currentPhase' = "ReadValue" =>
          /\ i <= Len(transmitted')
          /\ ParsedTo(next)' = next[i] + HeaderSize
          /\ nextValue' = [type |-> transmitted'[i].type, size |-> transmitted'[i].size]
          /\ transmitted'[i].version = "current"
    <3> SUFFICES ASSUME currentPhase' = "ReadValue"
                 PROVE  /\ i <= Len(transmitted')
                        /\ ParsedTo(next)' = next[i] + HeaderSize
                        /\ nextValue' = [type |-> transmitted'[i].type, size |-> transmitted'[i].size]
                        /\ transmitted'[i].version = "current"
      OBVIOUS
    <3>1. /\ i <= n /\ ParsedTo(start) = start[i] + HeaderSize
          /\ nextValue = [type |-> transmitted[i].type, size |-> transmitted[i].size]
          /\ transmitted[i].version = "current"
      BY <1>0, <1>3, <2>1 DEF ReaderFits
    <3>2. i \in 1 .. n /\ i <= n + 1
      BY <1>4, <3>1
    <3>3. transmitted'[i] = transmitted[i]
      BY <1>7, <3>2
    <3> QED
      BY <1>3, <1>7, <1>17, <2>3, <3>1, <3>2, <3>3
  <2>6. i = n + 1 + 1 \/ ReadTo(next)' < next[i + 1] \/ reading'
    <3>1. CASE i = n + 1
      <4>1. i + 1 = n + 2 /\ start[n + 1] \in Nat
        BY <1>4, <1>6, <3>1
      <4>2. ReadTo(start) < start[n + 1] + z
        BY <1>16
      <4> QED
        BY <1>13, <1>17, <4>1, <4>2
    <3>2. CASE i # n + 1 /\ ~reading
      <4>1. ReadTo(start) < start[i + 1]
        BY <1>0, <2>1, <3>2 DEF ReaderFits
      <4>2. i + 1 \in 1 .. n + 1
        <5>1. i \in 1 .. n + 1 /\ i # n + 1 /\ n \in Nat
          BY <1>4, <3>2
        <5> HIDE DEF i
        <5> QED
          BY <5>1
      <4> QED
        BY <1>13, <1>17, <4>1, <4>2
    <3> QED
      BY <1>3, <3>1, <3>2
  <2> HIDE DEF i
  <2> QED
    BY <1>7, <2>2, <2>3, <2>4, <2>5, <2>6 DEF ReaderFits, i
<1>20. BytesFit(next)'
  BY <1>3, <1>15, <1>18, <1>19 DEF BytesFit
<1>21. StreamInv'
  <2>1. Len(transmitted') + 1 = n + 2
    BY <1>4, <1>7
  <2> QED
    BY <1>10, <1>13, <1>20, <2>1 DEF StreamInv
\* What has been read is the same, and less than the new message.
<1>22. UNCHANGED Arrived
  <2>1. PICK a \in 0 .. n : ArrivedIs(start, a)
    BY <1>0, <1>1, <1>2, ArrivalIsKnown DEF ArrivalTells
  <2>2. PICK c \in 0 .. n + 1 : ArrivedIs(next, c)'
    <3>1. next \in [1 .. Len(transmitted') + 1 -> Nat] /\ Len(transmitted') = n + 1
      BY <1>4, <1>7, <1>13
    <3>2. \E c \in 0 .. Len(transmitted') : ArrivedIs(next, c)'
      BY <1>10, <1>15, <1>18, <3>1, ArrivalWillBeKnown DEF ArrivalTells
    <3> QED
      BY <3>1, <3>2
  <2>3. Arrived = a /\ start[a + 1] <= ReadTo(start) /\ (a < n => ReadTo(start) < start[a + 2])
    BY <1>0, <2>1 DEF ArrivedIs
  <2>4. /\ Arrived' = c /\ next[c + 1] <= ReadTo(start)
        /\ c < n + 1 => ReadTo(start) < next[c + 2]
    BY <1>7, <1>17, <2>2 DEF ArrivedIs
  <2>5. c # n + 1
    <3>1. c = n + 1 => next[c + 1] = start[n + 1] + z
      BY <1>4, <1>13
    <3>2. start[n + 1] \in Nat
      BY <1>4, <1>6
    <3>3. ReadTo(start) < start[n + 1] + z
      BY <1>16
    <3> QED
      BY <1>5, <1>16, <2>4, <3>1, <3>2, <3>3
  <2>6. c \in 0 .. n /\ c + 1 \in 1 .. n + 1
    BY <1>4, <2>5
  <2>7. start[c + 1] <= ReadTo(start) /\ (c < n => ReadTo(start) < start[c + 2])
    <3>1. next[c + 1] = start[c + 1]
      BY <1>13, <2>6
    <3>2. c < n => c + 2 \in 1 .. n + 1 /\ c < n + 1
      BY <1>4, <2>6
    <3>3. c < n => next[c + 2] = start[c + 2]
      BY <1>13, <3>2
    <3> QED
      BY <2>4, <3>1, <3>2, <3>3
  <2>8. Arrived = c
    BY <1>0, <1>1, <1>2, <2>6, <2>7, ArrivedTo
  <2> QED
    BY <2>4, <2>8
<1> QED
  BY <1>3, <1>21, <1>22 DEF Channel!Send
----------------------------------------------------------------------------
(* The theorems                                                            *)

\* At the start nothing is written, read or known.
LEMMA StartFits == StreamInit => StreamInv
<1> SUFFICES ASSUME StreamInit PROVE StreamInv
  OBVIOUS
<1>1. /\ transmitted = <<>> /\ network = <<>> /\ unread = <<>> /\ handled = <<>>
      /\ currentPhase = "ReadHeader" /\ reading = FALSE /\ raised = FALSE
  BY DEF StreamInit
<1>2. StreamTypeOK
  <2>1. <<>> \in Seq(StreamMessages) /\ <<>> \in Seq(Bytes) /\ Len(<<>>) <= Len(<<>>)
    OBVIOUS
  <2> QED
    BY <1>1, <2>1 DEF StreamTypeOK
<1> DEFINE start == [i \in 1 .. 1 |-> 0]
<1>3. start \in [1 .. Len(transmitted) + 1 -> Nat] /\ start[1] = 0
  BY <1>1
<1>4. Laid(start) /\ NetworkFits(start)
  BY <1>1 DEF Laid, NetworkFits
<1>5. ReadTo(start) = 0 /\ ParsedTo(start) = 0
  BY <1>1, <1>3 DEF ReadTo, ParsedTo
<1>6. ReaderFits(start)
  BY <1>1, <1>3, <1>5 DEF ReaderFits
<1> QED
  BY <1>2, <1>3, <1>4, <1>6 DEF StreamInv, BytesFit

\* Each step keeps the places, and is one of the channel.
LEMMA StreamStep ==
  ASSUME StreamInv, [StreamNext]_bytestream
  PROVE  StreamInv' /\ [Channel!Next]_<<transmitted, Arrived, handled>>
<1>1. ASSUME NEW m \in StreamMessages, Write(m)
      PROVE  StreamInv' /\ Channel!Next
  BY <1>1, StepOfWrite DEF Channel!Next
<1>2. ASSUME NEW n \in 1 .. Len(network), Read(n)
      PROVE  StreamInv' /\ Channel!Next
  BY <1>2, StepOfRead DEF Channel!Next
<1>3. CASE ReadValue
  BY <1>3, StepOfReadValue DEF Channel!Next
<1>4. CASE WaitForHeader
  BY <1>4, StepOfWaitForHeader DEF Stutters
<1>5. CASE RefuseVersion
  BY <1>5, StepOfRefuseVersion DEF Stutters
<1>6. CASE WaitForValue
  BY <1>6, StepOfWaitForValue DEF Stutters
<1>7. CASE RefuseLayer
  BY <1>7, StepOfRefuseLayer DEF Stutters
<1>8. CASE UNCHANGED bytestream
  <2>1. UNCHANGED <<transmitted, network, unread, currentPhase, nextValue, reading, raised, handled>>
    BY <1>8 DEF bytestream, reader
  <2>2. StreamTypeOK'
    BY <2>1 DEF StreamInv, StreamTypeOK
  <2>3. PICK start \in [1 .. Len(transmitted) + 1 -> Nat] : BytesFit(start)
    BY DEF StreamInv
  <2>4. Laid(start)' /\ NetworkFits(start)'
    BY <2>1, <2>3 DEF BytesFit, Laid, NetworkFits, IsAt, SizeOf, ReadTo
  <2>5. ReaderFits(start) => ReaderFits(start)'
    BY <2>1 DEF ReaderFits, IsAt, SizeOf, ReadTo, ParsedTo
  <2>6. StreamInv'
    BY <2>1, <2>2, <2>3, <2>4, <2>5 DEF StreamInv, BytesFit
  <2> QED
    BY <2>1, <2>6 DEF Arrived
<1> QED
  BY <1>1, <1>2, <1>3, <1>4, <1>5, <1>6, <1>7, <1>8 DEF StreamNext

\* Every byte that is left is at its place, and the Reader is where the next message
\* or its value begins.
THEOREM StreamInvariant == StreamSpec => []StreamInv
<1>1. StreamInit => StreamInv
  BY StartFits
<1>2. StreamInv /\ [StreamNext]_bytestream => StreamInv'
  BY StreamStep
<1> QED
  BY <1>1, <1>2, PTL DEF StreamSpec

\* However the network cuts the bytes, the Reader handles each message once it is there,
\* whole, once and in the order of the writes, and asks for more bytes only when none
\* is left (TileLayerStream::Reader::continueReading).
THEOREM ReaderIsAChannel == StreamSpec => ImplementsMessageChannel
<1>1. StreamInit => Channel!Init
  <2> SUFFICES ASSUME StreamInit PROVE Channel!Init
    OBVIOUS
  <2>1. transmitted = <<>> /\ network = <<>> /\ handled = <<>>
    BY DEF StreamInit
  <2>2. {b[1] : b \in ToSet(network)} = {}
    BY <2>1 DEF ToSet
  <2>3. Arrived = 0
    <3>1. Cardinality({}) = 0
      BY FS_EmptySet
    <3>2. Len(transmitted) = 0
      BY <2>1
    <3>3. Arrived = 0 - 0
      BY <2>2, <3>1, <3>2 DEF Arrived
    <3> QED
      BY <3>3
  <2> QED
    BY <2>1, <2>3 DEF Channel!Init
<1>2. StreamInv /\ [StreamNext]_bytestream => [Channel!Next]_<<transmitted, Arrived, handled>>
  BY StreamStep
<1> QED
  BY <1>1, <1>2, StreamInvariant, PTL DEF StreamSpec, ImplementsMessageChannel, Channel!Spec

(***************************************************************************)
(* Whoever reads a tile has the strings it uses, and no copy of a pool has *)
(* a gap, for any tiles, workers and streams and any crashes of the        *)
(* service and of the data source.                                         *)
(*                                                                         *)
(* Each node of the data source has one full pool: the source's, while the *)
(* node lives, and what the source had when it ended. Every copy, in pools, *)
(* database and clients, is a lower part of it, and a message never leaves *)
(* a gap in the pool of its reader.                                        *)
(***************************************************************************)

AllStrings == UNION {StringsOf[t] : t \in Tiles}
Entries    == Nat \X AllStrings

AskedState  == [at : {"asked"}, tile : Tiles, stream : Streams, offset : Nat]
FilledState == [at : {"filled"}, tile : Tiles, stream : Streams, offset : Nat,
                node : Nodes, uses : SUBSET Entries]
DoneState   == [at : {"received", "storing", "stored"}, tile : Tiles, stream : Streams,
                node : Nodes, uses : SUBSET Entries]

MessageSet == [type : {"strings"}, node : Nodes, strings : SUBSET Entries]
                \cup [type : {"tile"}, node : Nodes, tile : Tiles, uses : SUBSET Entries]

PoolOfNodes == [Nodes -> SUBSET Entries]

SyncTypeOK ==
  /\ source \in [node : Nodes, pool : SUBSET Entries]
  /\ info = source.node
  /\ offsets \in [Nodes -> Nat]
  /\ pools \in PoolOfNodes /\ blobs \in PoolOfNodes /\ known \in PoolOfNodes
  /\ stored \subseteq [tile : Tiles, node : Nodes, uses : SUBSET Entries]
  /\ worker \in [Workers -> {Idle} \cup AskedState \cup FilledState \cup DoneState]
  /\ stream \in [Streams -> Seq(MessageSet)]
  /\ written \in [Streams -> {Closed} \cup [Nodes -> Nat]]

\* A pool: its ids count from one, and each stands for one string.
IsPool(P) ==
  /\ P \subseteq Entries
  /\ Highest(P) \in Nat
  /\ IdsOf(P) = 1 .. Highest(P)
  /\ \A e, f \in P : e[1] = f[1] <=> e[2] = f[2]

\* What P holds up to an id.
UpToId(P, k) == {e \in P : e[1] <= k}

\* What pool p has of P, it has from the first id on.
IsLower(p, P) == \E k \in 0 .. Highest(P) : p = UpToId(P, k)

\* The strings for node n among the messages of q before the i-th.
StringsBefore(q, i, n) ==
  UNION {q[j].strings : j \in {k \in 1 .. i - 1 : q[k].type = "strings" /\ q[k].node = n}}

\* With strings u, whoever knows p of the full pool P still knows a lower part.
NoGapAfter(P, p, u) ==
  \E k \in 0 .. Highest(P) : u \subseteq UpToId(P, k) /\ UpToId(P, k) \subseteq p \cup u

\* The client that knows p of the node of message m can read it.
Readable(F, p, m) ==
  /\ m.type = "strings" => NoGapAfter(F[m.node], p, m.strings)
  /\ m.type = "tile" => m.uses \subseteq p

\* Whoever knows kn can read the messages of q one after the other.
AllReadable(F, kn, q) ==
  \A i \in 1 .. Len(q) :
    Readable(F, kn[q[i].node] \cup StringsBefore(q, i, q[i].node), q[i])

\* Offsets off tell of strings that whoever knows kn will have after q.
OffsetsAreCovered(F, kn, q, off) ==
  \A n \in Nodes :
    /\ off[n] \in 0 .. Highest(F[n])
    /\ UpToId(F[n], off[n]) \subseteq kn[n] \cup StringsBefore(q, Len(q) + 1, n)

StreamFits(F, h) ==
  /\ AllReadable(F, known, stream[h])
  /\ written[h] # Closed => OffsetsAreCovered(F, known, stream[h], written[h])

WorkerFits(w) ==
  /\ worker[w].at \in {"asked", "filled"} =>
       /\ worker[w].offset \in 0 .. Highest(source.pool)
       /\ UpToId(source.pool, worker[w].offset) \subseteq blobs[source.node]
  /\ worker[w].at = "filled" =>
       worker[w].node = source.node /\ worker[w].uses \subseteq source.pool
  /\ worker[w].at \in {"received", "storing", "stored"} =>
       worker[w].uses \subseteq pools[worker[w].node]
  /\ worker[w].at \in {"storing", "stored"} =>
       worker[w].uses \subseteq blobs[worker[w].node]

\* All copies are lower parts of the full pools F of the nodes.
CopiesFit(F) ==
  /\ F[source.node] = source.pool
  /\ \A n \in Nodes :
       /\ IsPool(F[n])
       /\ n > source.node => F[n] = {}
       /\ IsLower(pools[n], F[n]) /\ IsLower(blobs[n], F[n]) /\ IsLower(known[n], F[n])
       /\ blobs[n] \subseteq pools[n]
       /\ offsets[n] = Highest(blobs[n])

Fits(F) ==
  /\ CopiesFit(F)
  /\ \A w \in Workers : WorkerFits(w)
  /\ \A h \in Streams : StreamFits(F, h)
  /\ StoredTilesAreReadable

SyncInv == SyncTypeOK /\ \E F \in PoolOfNodes : Fits(F)

----------------------------------------------------------------------------
(* Pools                                                                   *)

\* The highest id of a pool whose ids count from one.
LEMMA HighestCounts ==
  ASSUME NEW P, NEW n \in Nat, IdsOf(P) = 1 .. n
  PROVE  Highest(P) = n
<1>1. CASE n = 0
  <2>1. P = {}
    <3>1. IdsOf(P) = {}
      BY <1>1
    <3> QED
      BY <3>1 DEF IdsOf
  <2> QED
    BY <2>1, <1>1 DEF Highest
<1>2. CASE n > 0
  <2>1. P # {}
    BY <1>2 DEF IdsOf
  <2>2. n \in 1 .. n /\ \A y \in 1 .. n : n >= y
    BY <1>2
  <2>3. \A x \in 1 .. n : (\A y \in 1 .. n : x >= y) => x = n
    BY <1>2
  <2>4. Max(1 .. n) = n
    BY <2>2, <2>3 DEF Max
  <2> QED
    BY <2>1, <2>4 DEF Highest
<1> QED
  BY <1>1, <1>2

\* The entries of a pool are pairs of an id and a string.
LEMMA EntryParts ==
  ASSUME NEW P, IsPool(P), NEW e \in P
  PROVE  e[1] \in 1 .. Highest(P) /\ e = <<e[1], e[2]>> /\ e[2] \in AllStrings
<1>1. e \in Nat \X AllStrings
  BY DEF IsPool, Entries
<1>2. e[1] \in IdsOf(P)
  BY DEF IdsOf
<1> QED
  BY <1>1, <1>2 DEF IsPool

\* Up to one of its ids, a pool is a pool.
LEMMA LowerPartIsPool ==
  ASSUME NEW P, IsPool(P), NEW k \in 0 .. Highest(P)
  PROVE  IsPool(UpToId(P, k)) /\ Highest(UpToId(P, k)) = k
<1> DEFINE U == UpToId(P, k)
<1>0. Highest(P) \in Nat /\ k \in Nat
  BY DEF IsPool
<1>1. IdsOf(U) = 1 .. k
  <2>1. \A i \in IdsOf(U) : i \in 1 .. k
    BY <1>0, EntryParts DEF IdsOf, UpToId
  <2>2. ASSUME NEW i \in 1 .. k PROVE i \in IdsOf(U)
    <3>1. i \in IdsOf(P)
      BY <1>0 DEF IsPool
    <3>2. PICK e \in P : e[1] = i
      BY <3>1 DEF IdsOf
    <3> QED
      BY <3>2 DEF IdsOf, UpToId
  <2> QED
    BY <2>1, <2>2
<1>2. Highest(U) = k
  BY <1>0, <1>1, HighestCounts
<1>3. U \subseteq P
  BY DEF UpToId
<1> QED
  BY <1>0, <1>1, <1>2, <1>3 DEF IsPool

\* A copy of a full pool is the part of it up to its own highest id.
LEMMA CopyIsLowerPart ==
  ASSUME NEW P, NEW p, IsPool(P), IsLower(p, P)
  PROVE  /\ Highest(p) \in 0 .. Highest(P)
         /\ p = UpToId(P, Highest(p))
         /\ p \subseteq P
         /\ NoGaps(p)
<1>1. PICK k \in 0 .. Highest(P) : p = UpToId(P, k)
  BY DEF IsLower
<1>2. IsPool(p) /\ Highest(p) = k
  BY <1>1, LowerPartIsPool
<1> QED
  BY <1>1, <1>2 DEF UpToId, IsPool, NoGaps

\* What a reader merges into its copy of a pool, it has.
LEMMA MergedIsUnion ==
  ASSUME NEW P, IsPool(P), NEW p, NEW u, p \subseteq P, u \subseteq P
  PROVE  Merged(p, u) = p \cup u
<1>1. ASSUME NEW e \in u, e \notin p PROVE e \in Merged(p, u)
  <2>1. ASSUME NEW f \in p PROVE f[1] # e[1] /\ f[2] # e[2]
    <3>1. e = <<e[1], e[2]>> /\ f = <<f[1], f[2]>>
      BY EntryParts
    <3>2. e[1] = f[1] <=> e[2] = f[2]
      BY DEF IsPool
    <3> QED
      BY <3>1, <3>2, <1>1
  <2> QED
    BY <2>1 DEF Merged
<1> QED
  BY <1>1 DEF Merged

\* A lower part of a pool with strings that leave no gap is a lower part.
LEMMA LowerPartGrows ==
  ASSUME NEW P, IsPool(P), NEW p, NEW u, IsLower(p, P), NoGapAfter(P, p, u)
  PROVE  IsLower(p \cup u, P) /\ Merged(p, u) = p \cup u
<1>0. Highest(P) \in Nat
  BY DEF IsPool
<1>1. PICK j \in 0 .. Highest(P) : p = UpToId(P, j)
  BY DEF IsLower
<1>2. PICK k \in 0 .. Highest(P) : u \subseteq UpToId(P, k) /\ UpToId(P, k) \subseteq p \cup u
  BY DEF NoGapAfter
<1>3. \A e \in P : e[1] \in Nat
  BY EntryParts
<1>4. CASE j <= k
  <2>1. p \subseteq UpToId(P, k)
    BY <1>0, <1>1, <1>3, <1>4 DEF UpToId
  <2>2. p \cup u = UpToId(P, k)
    BY <2>1, <1>2
  <2> QED
    BY <2>2, <1>2, <1>1, MergedIsUnion DEF IsLower, UpToId
<1>5. CASE k <= j
  <2>1. UpToId(P, k) \subseteq p
    BY <1>0, <1>1, <1>3, <1>5 DEF UpToId
  <2>2. p \cup u = p
    BY <2>1, <1>2
  <2> QED
    BY <2>2, <1>2, <1>1, MergedIsUnion DEF IsLower, UpToId
<1> QED
  BY <1>0, <1>4, <1>5

\* The strings beyond an offset leave no gap for whoever knows those below.
LEMMA UpdateLeavesNoGap ==
  ASSUME NEW P, IsPool(P), NEW p, IsLower(p, P), NEW kn,
         NEW o \in 0 .. Highest(P), UpToId(P, o) \subseteq kn
  PROVE  NoGapAfter(P, kn, Update(p, o)) /\ p \subseteq kn \cup Update(p, o)
<1>0. Highest(P) \in Nat
  BY DEF IsPool
<1>1. PICK k \in 0 .. Highest(P) : p = UpToId(P, k)
  BY DEF IsLower
<1>2. \A e \in P : e[1] \in Nat
  BY EntryParts
<1>3. p \subseteq kn \cup Update(p, o)
  BY <1>0, <1>1, <1>2 DEF UpToId, Update
<1>4. Update(p, o) \subseteq p
  BY DEF Update
<1> QED
  BY <1>1, <1>3, <1>4 DEF NoGapAfter
\* Pool G is P with more strings under the next ids.
ExtendsPool(G, P) ==
  /\ IsPool(G) /\ P \subseteq G
  /\ Highest(P) <= Highest(G)
  /\ \A k \in 0 .. Highest(P) : UpToId(G, k) = UpToId(P, k)

\* FillTile extends a pool.
LEMMA NewStringsExtend ==
  ASSUME NEW P, IsPool(P), NEW S, S \subseteq AllStrings, IsFiniteSet(S),
         \A s \in S : s \notin {e[2] : e \in P},
         NEW id \in Bijection(S, (Highest(P) + 1) .. (Highest(P) + Cardinality(S)))
  PROVE  ExtendsPool(P \cup {<<id[s], s>> : s \in S}, P)
<1> DEFINE N == Highest(P)
           c == Cardinality(S)
           U == {<<id[s], s>> : s \in S}
           G == P \cup U
<1>0. N \in Nat /\ c \in Nat
  BY FS_CardinalityType DEF IsPool
<1> HIDE DEF c
<1>1. /\ \A s \in S : id[s] \in (N + 1) .. (N + c)
      /\ \A s, t \in S : id[s] = id[t] => s = t
      /\ \A i \in (N + 1) .. (N + c) : \E s \in S : id[s] = i
  BY DEF Bijection, Injection, Surjection, IsInjective, c
<1>2. \A e \in U : e[1] \in (N + 1) .. (N + c) /\ e[2] \in S /\ e = <<id[e[2]], e[2]>>
  BY <1>1
<1>3. \A e \in P : e[1] \in 1 .. N /\ e[2] \in AllStrings /\ e[2] \notin S
  BY EntryParts
<1>4. G \subseteq Entries
  <2>1. U \subseteq Entries
    BY <1>0, <1>1 DEF Entries
  <2> QED
    BY <2>1 DEF IsPool
<1>5. IdsOf(G) = 1 .. (N + c)
  <2>1. \A i \in IdsOf(G) : i \in 1 .. (N + c)
    BY <1>0, <1>2, <1>3 DEF IdsOf
  <2>2. ASSUME NEW i \in 1 .. (N + c) PROVE i \in IdsOf(G)
    <3>1. CASE i <= N
      <4>1. i \in IdsOf(P)
        BY <3>1, <1>0 DEF IsPool
      <4> QED
        BY <4>1 DEF IdsOf
    <3>2. CASE i > N
      <4>1. PICK s \in S : id[s] = i
        BY <3>2, <1>0, <1>1
      <4>2. <<id[s], s>> \in G /\ <<id[s], s>>[1] = i
        BY <4>1
      <4> QED
        BY <4>2 DEF IdsOf
    <3> QED
      BY <3>1, <3>2, <1>0
  <2> QED
    BY <2>1, <2>2
<1>6. Highest(G) = N + c
  <2>1. N + c \in Nat
    BY <1>0
  <2> QED
    BY <2>1, <1>5, HighestCounts
<1>7. \A e, f \in G : e[1] = f[1] <=> e[2] = f[2]
  <2>1. \A e, f \in P : e[1] = f[1] <=> e[2] = f[2]
    BY DEF IsPool
  <2>2. \A e, f \in U : e[1] = f[1] <=> e[2] = f[2]
    BY <1>1, <1>2
  <2>3. \A e \in P, f \in U : e[1] # f[1] /\ e[2] # f[2]
    BY <1>0, <1>2, <1>3
  <2> QED
    BY <2>1, <2>2, <2>3
<1>8. \A k \in 0 .. N : UpToId(G, k) = UpToId(P, k)
  <2>1. \A k \in 0 .. N, e \in U : ~ e[1] <= k
    BY <1>0, <1>2
  <2> QED
    BY <2>1 DEF UpToId
<1> QED
  BY <1>0, <1>4, <1>5, <1>6, <1>7, <1>8 DEF ExtendsPool, IsPool

\* What holds of a pool's copies and updates still holds when the pool is extended.
LEMMA ExtendedPool ==
  ASSUME NEW P, IsPool(P), NEW G, ExtendsPool(G, P)
  PROVE  /\ \A p : IsLower(p, P) => IsLower(p, G)
         /\ \A p, u : NoGapAfter(P, p, u) => NoGapAfter(G, p, u)
         /\ \A k \in 0 .. Highest(P) : k \in 0 .. Highest(G) /\ UpToId(G, k) = UpToId(P, k)
<1>1. \A k \in 0 .. Highest(P) : k \in 0 .. Highest(G) /\ UpToId(G, k) = UpToId(P, k)
  BY DEF IsPool, ExtendsPool
<1> QED
  BY <1>1 DEF IsLower, NoGapAfter

----------------------------------------------------------------------------
(* Messages                                                                *)

StringsIn(m, n) == IF m.type = "strings" /\ m.node = n THEN m.strings ELSE {}

LEMMA StringBefore ==
  ASSUME NEW q, NEW i, NEW n, NEW e
  PROVE  e \in StringsBefore(q, i, n)
           <=> \E j \in 1 .. i - 1 : e \in StringsIn(q[j], n)
BY DEF StringsBefore, StringsIn

\* A message that is appended comes after all others.
LEMMA AppendMessage ==
  ASSUME NEW q \in Seq(MessageSet), NEW m \in MessageSet, NEW n
  PROVE  /\ \A i \in 1 .. Len(q) + 1 : StringsBefore(Append(q, m), i, n) = StringsBefore(q, i, n)
         /\ StringsBefore(Append(q, m), Len(q) + 2, n)
              = StringsBefore(q, Len(q) + 1, n) \cup StringsIn(m, n)
<1> DEFINE r == Append(q, m)
<1>1. /\ Len(q) \in Nat /\ r[Len(q) + 1] = m
      /\ \A j \in 1 .. Len(q) : r[j] = q[j]
  OBVIOUS
<1> HIDE DEF r
<1>2. ASSUME NEW i \in 1 .. Len(q) + 1
      PROVE  StringsBefore(r, i, n) = StringsBefore(q, i, n)
  <2>1. \A j \in 1 .. i - 1 : r[j] = q[j]
    BY <1>1
  <2>2. \A e : e \in StringsBefore(r, i, n) <=> e \in StringsBefore(q, i, n)
    BY <2>1, StringBefore
  <2> QED
    BY <2>2 DEF StringsBefore
<1>3. ASSUME NEW e
      PROVE  e \in StringsBefore(r, Len(q) + 2, n)
               <=> e \in StringsBefore(q, Len(q) + 1, n) \cup StringsIn(m, n)
  <2>1. e \in StringsBefore(r, Len(q) + 2, n)
          <=> \E j \in 1 .. Len(q) + 1 : e \in StringsIn(r[j], n)
    BY <1>1, StringBefore
  <2>2. e \in StringsBefore(q, Len(q) + 1, n)
          <=> \E j \in 1 .. Len(q) : e \in StringsIn(q[j], n)
    BY <1>1, StringBefore
  <2>3. \A j : j \in 1 .. Len(q) + 1 <=> j \in 1 .. Len(q) \/ j = Len(q) + 1
    BY <1>1
  <2> QED
    BY <1>1, <2>1, <2>2, <2>3
<1>4. StringsBefore(r, Len(q) + 2, n) = StringsBefore(q, Len(q) + 1, n) \cup StringsIn(m, n)
  BY <1>3
<1> QED
  BY <1>2, <1>4 DEF r

\* The first message comes before all others.
LEMMA TakeMessage ==
  ASSUME NEW q \in Seq(MessageSet), q # <<>>, NEW n, NEW i \in 1 .. Len(q)
  PROVE  StringsBefore(q, i + 1, n) = StringsBefore(Tail(q), i, n) \cup StringsIn(Head(q), n)
<1> DEFINE t == Tail(q)
<1>1. /\ Len(q) \in Nat \ {0} /\ q[1] = Head(q)
      /\ \A j \in 1 .. Len(q) - 1 : t[j] = q[j + 1]
  OBVIOUS
<1> HIDE DEF t
<1>2. ASSUME NEW e
      PROVE  e \in StringsBefore(q, i + 1, n)
               <=> e \in StringsBefore(t, i, n) \cup StringsIn(Head(q), n)
  <2>1. e \in StringsBefore(q, i + 1, n) <=> \E j \in 1 .. i : e \in StringsIn(q[j], n)
    BY <1>1, StringBefore
  <2>2. e \in StringsBefore(t, i, n) <=> \E j \in 1 .. i - 1 : e \in StringsIn(q[j + 1], n)
    BY <1>1, StringBefore
  <2>3. (\E j \in 1 .. i : e \in StringsIn(q[j], n))
          <=> e \in StringsIn(q[1], n) \/ \E j \in 1 .. i - 1 : e \in StringsIn(q[j + 1], n)
    <3>1. \A j \in 1 .. i : j = 1 \/ (j - 1 \in 1 .. i - 1 /\ (j - 1) + 1 = j)
      OBVIOUS
    <3>2. \A j \in 1 .. i - 1 : j + 1 \in 1 .. i
      OBVIOUS
    <3>3. 1 \in 1 .. i
      OBVIOUS
    <3> QED
      BY <3>1, <3>2, <3>3
  <2> QED
    BY <1>1, <2>1, <2>2, <2>3
<1> QED
  BY <1>2 DEF t
\* Whoever knows more can read what it could read before.
LEMMA ReadableGrows ==
  ASSUME NEW F, NEW p, NEW p2, p \subseteq p2, NEW m, Readable(F, p, m)
  PROVE  Readable(F, p2, m)
BY DEF Readable, NoGapAfter

\* A message that can be read after all others may be appended.
LEMMA AppendReadable ==
  ASSUME NEW F, NEW kn, NEW q \in Seq(MessageSet), NEW m \in MessageSet,
         AllReadable(F, kn, q),
         Readable(F, kn[m.node] \cup StringsBefore(q, Len(q) + 1, m.node), m)
  PROVE  AllReadable(F, kn, Append(q, m))
<1> DEFINE r == Append(q, m)
<1>1. /\ Len(q) \in Nat /\ Len(r) = Len(q) + 1 /\ r[Len(q) + 1] = m
      /\ \A j \in 1 .. Len(q) : r[j] = q[j]
  OBVIOUS
<1>2. \A n, i : i \in 1 .. Len(q) + 1 => StringsBefore(r, i, n) = StringsBefore(q, i, n)
  BY AppendMessage
<1> HIDE DEF r
<1>3. ASSUME NEW i \in 1 .. Len(r)
      PROVE  Readable(F, kn[r[i].node] \cup StringsBefore(r, i, r[i].node), r[i])
  <2>1. CASE i \in 1 .. Len(q)
    <3>1. r[i] = q[i] /\ StringsBefore(r, i, q[i].node) = StringsBefore(q, i, q[i].node)
      BY <1>1, <1>2, <2>1
    <3> QED
      BY <2>1, <3>1 DEF AllReadable
  <2>2. CASE i = Len(q) + 1
    <3>1. r[i] = m /\ StringsBefore(r, i, m.node) = StringsBefore(q, Len(q) + 1, m.node)
      BY <1>1, <1>2, <2>2
    <3> QED
      BY <3>1
  <2> QED
    BY <1>1, <2>1, <2>2
<1> QED
  BY <1>3 DEF AllReadable, r

\* WriteTile, if the pool of the tile's node has more than the stream has brought.
LEMMA WriteStringsAndTile ==
  ASSUME NEW F, NEW kn, NEW q \in Seq(MessageSet), NEW off \in [Nodes -> Nat],
         AllReadable(F, kn, q), OffsetsAreCovered(F, kn, q, off),
         NEW n \in Nodes, IsPool(F[n]), NEW p, IsLower(p, F[n]),
         NEW m \in MessageSet, m.type = "tile", m.node = n, m.uses \subseteq p,
         off[n] < Highest(p)
  PROVE  LET u == StringsMsg(n, Update(p, off[n]))
             r == Append(Append(q, u), m)
         IN  /\ r \in Seq(MessageSet)
             /\ AllReadable(F, kn, r)
             /\ OffsetsAreCovered(F, kn, r, [off EXCEPT ![n] = Highest(p)])
<1> DEFINE u == StringsMsg(n, Update(p, off[n]))
           s == Append(q, u)
           r == Append(s, m)
           before(w, k) == StringsBefore(w, Len(w) + 1, k)
<1>1. /\ off[n] \in 0 .. Highest(F[n])
      /\ UpToId(F[n], off[n]) \subseteq kn[n] \cup before(q, n)
  BY DEF OffsetsAreCovered
<1>2. /\ NoGapAfter(F[n], kn[n] \cup before(q, n), Update(p, off[n]))
      /\ p \subseteq (kn[n] \cup before(q, n)) \cup Update(p, off[n])
  BY <1>1, UpdateLeavesNoGap
<1>3. Highest(p) \in 0 .. Highest(F[n]) /\ p = UpToId(F[n], Highest(p)) /\ p \subseteq F[n]
  BY CopyIsLowerPart
<1>4. /\ u \in MessageSet /\ u.type = "strings" /\ u.node = n /\ u.strings = Update(p, off[n])
      /\ s \in Seq(MessageSet) /\ r \in Seq(MessageSet)
      /\ Len(q) \in Nat /\ Len(s) = Len(q) + 1 /\ Len(r) = Len(q) + 2
  <2>1. Update(p, off[n]) \subseteq Entries
    BY <1>3 DEF Update, IsPool
  <2>2. u \in MessageSet
    BY <2>1 DEF StringsMsg, MessageSet
  <2> QED
    BY <2>2 DEF StringsMsg
<1>5. \A k : /\ before(s, k) = before(q, k) \cup StringsIn(u, k)
             /\ before(r, k) = before(s, k)
  <2>1. \A k : StringsIn(m, k) = {}
    BY DEF StringsIn
  <2>2. \A k : StringsBefore(s, Len(q) + 2, k) = before(q, k) \cup StringsIn(u, k)
    BY <1>4, AppendMessage
  <2>3. \A k : StringsBefore(r, Len(s) + 2, k) = before(s, k) \cup StringsIn(m, k)
    <3> HIDE DEF s
    <3> QED
      BY <1>4, AppendMessage
  <2>4. Len(s) + 1 = Len(q) + 2 /\ Len(r) + 1 = Len(s) + 2
    BY <1>4
  <2>5. \A k : before(s, k) = StringsBefore(s, Len(q) + 2, k)
    BY <2>4
  <2>6. \A k : before(r, k) = StringsBefore(r, Len(s) + 2, k)
    BY <2>4
  <2> HIDE DEF u, s, r, before
  <2> QED
    BY <2>1, <2>2, <2>3, <2>5, <2>6, ZenonT(30)
<1>6. StringsIn(u, n) = Update(p, off[n])
  BY <1>4 DEF StringsIn
<1> HIDE DEF u, s, r, before
<1>7. AllReadable(F, kn, s)
  <2>1. Readable(F, kn[u.node] \cup before(q, u.node), u)
    BY <1>2, <1>4 DEF Readable
  <2> QED
    BY <2>1, <1>4, AppendReadable DEF s, before
<1>8. p \subseteq kn[n] \cup before(s, n)
  BY <1>2, <1>5, <1>6
<1>9. AllReadable(F, kn, r)
  <2>1. Readable(F, kn[m.node] \cup before(s, m.node), m)
    BY <1>8 DEF Readable
  <2> QED
    BY <2>1, <1>4, <1>7, AppendReadable DEF r, before
<1>10. ASSUME NEW k \in Nodes
       PROVE  LET o == [off EXCEPT ![n] = Highest(p)][k]
              IN  /\ o \in 0 .. Highest(F[k])
                  /\ UpToId(F[k], o) \subseteq kn[k] \cup before(r, k)
  <2>1. CASE k = n
    BY <2>1, <1>3, <1>5, <1>8
  <2>2. CASE k # n
    <3>1. off[k] \in 0 .. Highest(F[k]) /\ UpToId(F[k], off[k]) \subseteq kn[k] \cup before(q, k)
      BY DEF OffsetsAreCovered, before
    <3> QED
      BY <3>1, <2>2, <1>5
  <2> QED
    BY <2>1, <2>2
<1> QED
  BY <1>4, <1>9, <1>10 DEF OffsetsAreCovered, u, s, r, before

\* WriteTile, if it has not.
LEMMA WriteTileAlone ==
  ASSUME NEW F, NEW kn, NEW q \in Seq(MessageSet), NEW off \in [Nodes -> Nat],
         AllReadable(F, kn, q), OffsetsAreCovered(F, kn, q, off),
         NEW n \in Nodes, IsPool(F[n]), NEW p, IsLower(p, F[n]),
         NEW m \in MessageSet, m.type = "tile", m.node = n, m.uses \subseteq p,
         ~ off[n] < Highest(p)
  PROVE  /\ AllReadable(F, kn, Append(q, m))
         /\ OffsetsAreCovered(F, kn, Append(q, m), off)
<1> DEFINE r == Append(q, m)
           before(w, k) == StringsBefore(w, Len(w) + 1, k)
<1>1. /\ off[n] \in 0 .. Highest(F[n])
      /\ UpToId(F[n], off[n]) \subseteq kn[n] \cup before(q, n)
  BY DEF OffsetsAreCovered
<1>2. Highest(p) \in 0 .. Highest(F[n]) /\ p = UpToId(F[n], Highest(p))
  BY CopyIsLowerPart
<1>3. p \subseteq kn[n] \cup before(q, n)
  <2>1. \A e \in F[n] : e[1] \in Nat
    BY EntryParts
  <2>2. UpToId(F[n], Highest(p)) \subseteq UpToId(F[n], off[n])
    <3>1. Highest(F[n]) \in Nat
      BY DEF IsPool
    <3>2. Highest(p) <= off[n]
      BY <3>1, <1>1, <1>2
    <3>3. Highest(p) \in Nat /\ off[n] \in Nat
      BY <3>1, <1>1, <1>2
    <3>4. \A i \in Nat : i <= Highest(p) => i <= off[n]
      BY <3>2, <3>3
    <3> QED
      BY <2>1, <3>4 DEF UpToId
  <2> QED
    BY <2>2, <1>1, <1>2
<1>4. Readable(F, kn[m.node] \cup before(q, m.node), m)
  BY <1>3 DEF Readable
<1>5. AllReadable(F, kn, r)
  BY <1>4, AppendReadable
<1>6. \A k : before(r, k) = before(q, k)
  <2>1. \A k : StringsIn(m, k) = {}
    BY DEF StringsIn
  <2>2. Len(r) + 1 = Len(q) + 2
    OBVIOUS
  <2>3. \A k : StringsBefore(r, Len(q) + 2, k) = before(q, k) \cup StringsIn(m, k)
    BY AppendMessage
  <2>4. \A k : before(r, k) = StringsBefore(r, Len(q) + 2, k)
    BY <2>2
  <2> HIDE DEF r, before
  <2> QED
    BY <2>1, <2>3, <2>4
<1> QED
  BY <1>5, <1>6 DEF OffsetsAreCovered

\* The stream whose first message is read.
LEMMA ReadFirst ==
  ASSUME NEW F, NEW kn, NEW kn2, NEW q \in Seq(MessageSet), q # <<>>,
         \A n \in Nodes : kn2[n] = kn[n] \cup StringsIn(Head(q), n)
  PROVE  /\ AllReadable(F, kn, q) => AllReadable(F, kn2, Tail(q))
         /\ \A off : OffsetsAreCovered(F, kn, q, off) => OffsetsAreCovered(F, kn2, Tail(q), off)
<1> DEFINE t == Tail(q)
<1>1. /\ Len(q) \in Nat \ {0} /\ Len(t) = Len(q) - 1 /\ t \in Seq(MessageSet)
      /\ \A j \in 1 .. Len(t) : t[j] = q[j + 1]
  OBVIOUS
<1>2. \A n \in Nodes, i \in 1 .. Len(q) :
         kn2[n] \cup StringsBefore(t, i, n) = kn[n] \cup StringsBefore(q, i + 1, n)
  <2> TAKE n \in Nodes, i \in 1 .. Len(q)
  <2>1. StringsBefore(q, i + 1, n) = StringsBefore(t, i, n) \cup StringsIn(Head(q), n)
    BY TakeMessage
  <2>2. kn2[n] = kn[n] \cup StringsIn(Head(q), n)
    OBVIOUS
  <2> HIDE DEF t
  <2> QED
    BY <2>1, <2>2
<1> HIDE DEF t
<1>3. ASSUME AllReadable(F, kn, q), NEW i \in 1 .. Len(t)
      PROVE  Readable(F, kn2[t[i].node] \cup StringsBefore(t, i, t[i].node), t[i])
  <2>1. t[i].node \in Nodes
    <3>1. t[i] \in MessageSet
      BY <1>1
    <3> QED
      BY <3>1 DEF MessageSet
  <2>2. i \in 1 .. Len(q) /\ i + 1 \in 1 .. Len(q) /\ t[i] = q[i + 1]
    BY <1>1
  <2>3. Readable(F, kn[q[i + 1].node] \cup StringsBefore(q, i + 1, q[i + 1].node), q[i + 1])
    BY <2>2, <1>3 DEF AllReadable
  <2> QED
    BY <2>1, <2>2, <2>3, <1>2
<1>4. \A n \in Nodes : kn2[n] \cup StringsBefore(t, Len(t) + 1, n)
                         = kn[n] \cup StringsBefore(q, Len(q) + 1, n)
  BY <1>1, <1>2
<1> QED
  BY <1>3, <1>4 DEF AllReadable, OffsetsAreCovered, t

\* Every other stream, whose reader knows more now.
LEMMA ReadOther ==
  ASSUME NEW F, NEW kn, NEW kn2, NEW q \in Seq(MessageSet),
         \A n \in Nodes : kn[n] \subseteq kn2[n]
  PROVE  /\ AllReadable(F, kn, q) => AllReadable(F, kn2, q)
         /\ \A off : OffsetsAreCovered(F, kn, q, off) => OffsetsAreCovered(F, kn2, q, off)
<1>1. ASSUME AllReadable(F, kn, q), NEW i \in 1 .. Len(q)
      PROVE  Readable(F, kn2[q[i].node] \cup StringsBefore(q, i, q[i].node), q[i])
  <2>1. q[i].node \in Nodes
    <3>1. q[i] \in MessageSet
      OBVIOUS
    <3> QED
      BY <3>1 DEF MessageSet
  <2>2. Readable(F, kn[q[i].node] \cup StringsBefore(q, i, q[i].node), q[i])
    BY <1>1 DEF AllReadable
  <2>3. kn[q[i].node] \cup StringsBefore(q, i, q[i].node)
          \subseteq kn2[q[i].node] \cup StringsBefore(q, i, q[i].node)
    BY <2>1
  <2> QED
    BY <2>2, <2>3, ReadableGrows
<1>2. \A off : OffsetsAreCovered(F, kn, q, off) => OffsetsAreCovered(F, kn2, q, off)
  BY DEF OffsetsAreCovered
<1> QED
  BY <1>1, <1>2 DEF AllReadable

\* Every stream, when a full pool grows.
LEMMA StreamsKeepUp ==
  ASSUME NEW F, NEW F2, NEW kn, NEW q \in Seq(MessageSet),
         \A n \in Nodes : IsPool(F[n]) /\ ExtendsPool(F2[n], F[n])
  PROVE  /\ AllReadable(F, kn, q) => AllReadable(F2, kn, q)
         /\ \A off : OffsetsAreCovered(F, kn, q, off) => OffsetsAreCovered(F2, kn, q, off)
<1>1. ASSUME AllReadable(F, kn, q), NEW i \in 1 .. Len(q)
      PROVE  Readable(F2, kn[q[i].node] \cup StringsBefore(q, i, q[i].node), q[i])
  <2>1. q[i].node \in Nodes
    <3>1. q[i] \in MessageSet
      OBVIOUS
    <3> QED
      BY <3>1 DEF MessageSet
  <2>2. Readable(F, kn[q[i].node] \cup StringsBefore(q, i, q[i].node), q[i])
    BY <1>1 DEF AllReadable
  <2> QED
    BY <2>1, <2>2, ExtendedPool DEF Readable
<1>2. ASSUME NEW off, OffsetsAreCovered(F, kn, q, off)
      PROVE  OffsetsAreCovered(F2, kn, q, off)
  BY <1>2, ExtendedPool DEF OffsetsAreCovered
<1> QED
  BY <1>1, <1>2 DEF AllReadable
----------------------------------------------------------------------------
(* The invariant                                                           *)

\* No copy has a gap, and every reader has the strings it needs.
LEMMA FitsIsEnough ==
  ASSUME SyncInv
  PROVE  ReceivedTilesAreReadable /\ StoredTilesAreReadable /\ OffsetsTell
<1>1. PICK F \in PoolOfNodes : Fits(F)
  BY DEF SyncInv
<1> USE DEF SyncInv, Fits
<1>2. \A n \in Nodes :
        /\ IsPool(F[n])
        /\ IsLower(pools[n], F[n]) /\ IsLower(blobs[n], F[n]) /\ IsLower(known[n], F[n])
        /\ offsets[n] = Highest(blobs[n])
  BY <1>1 DEF CopiesFit
<1>3. WorkersReadTiles
  BY <1>1 DEF WorkersReadTiles, WorkerFits
<1>4. ClientReadsTiles
  <2> SUFFICES ASSUME NEW h \in Streams, stream[h] # <<>>, Head(stream[h]).type = "tile"
               PROVE  Head(stream[h]).uses \subseteq known[Head(stream[h]).node]
    BY DEF ClientReadsTiles
  <2>1. stream[h] \in Seq(MessageSet)
    BY DEF SyncTypeOK
  <2>2. 1 \in 1 .. Len(stream[h]) /\ Head(stream[h]) = stream[h][1]
    BY <2>1
  <2>3. StringsBefore(stream[h], 1, Head(stream[h]).node) = {}
    BY DEF StringsBefore
  <2>4. Readable(F, known[Head(stream[h]).node] \cup {}, Head(stream[h]))
    BY <1>1, <2>2, <2>3 DEF StreamFits, AllReadable
  <2> QED
    BY <2>4 DEF Readable
<1>5. PoolsHaveNoGaps
  <2> SUFFICES ASSUME NEW n \in Nodes
               PROVE  /\ NoGaps(pools[n]) /\ NoGaps(blobs[n]) /\ NoGaps(known[n])
                      /\ offsets[n] <= Highest(blobs[n])
    BY DEF PoolsHaveNoGaps
  <2>1. offsets[n] \in Nat
    BY DEF SyncTypeOK
  <2> QED
    BY <1>2, <2>1, CopyIsLowerPart
<1>6. PoolsAgree
  <2>1. source.node \in Nodes /\ F[source.node] = source.pool
    BY <1>1 DEF SyncTypeOK, CopiesFit
  <2> QED
    BY <1>2, <2>1, CopyIsLowerPart DEF PoolsAgree
<1> QED
  BY <1>1, <1>3, <1>4, <1>5, <1>6 DEF ReceivedTilesAreReadable, OffsetsTell

LEMMA InitFits == Init => SyncInv
<1> SUFFICES ASSUME Init PROVE SyncInv
  OBVIOUS
<1> USE DEF Init
<1>1. SyncTypeOK
  <2>1. {} \in SUBSET Entries
    OBVIOUS
  <2> QED
    BY <2>1, SyncAssumption DEF SyncTypeOK, PoolOfNodes, NoOffsets
<1> DEFINE F == [n \in Nodes |-> {}]
<1>2. F \in PoolOfNodes
  BY DEF PoolOfNodes
<1>3. Highest({}) = 0 /\ IsPool({}) /\ IsLower({}, {})
  <2>1. Highest({}) = 0
    BY DEF Highest
  <2>2. IdsOf({}) = {}
    BY DEF IdsOf
  <2>3. UpToId({}, 0) = {}
    BY DEF UpToId
  <2>4. 1 .. 0 = {} /\ 0 \in 0 .. 0 /\ 0 \in Nat
    OBVIOUS
  <2>5. IsPool({})
    BY <2>1, <2>2, <2>4 DEF IsPool
  <2>6. IsLower({}, {})
    BY <2>1, <2>3, <2>4 DEF IsLower
  <2> QED
    BY <2>1, <2>5, <2>6
<1>4. CopiesFit(F)
  BY <1>3, SyncAssumption DEF CopiesFit, NoOffsets
<1>5. \A w \in Workers : WorkerFits(w)
  BY DEF WorkerFits, Idle
<1>6. \A h \in Streams : StreamFits(F, h)
  BY DEF StreamFits, AllReadable
<1> QED
  BY <1>1, <1>2, <1>4, <1>5, <1>6 DEF SyncInv, Fits, StoredTilesAreReadable
\* What each worker holds, by what it is doing.
LEMMA WorkerStates ==
  ASSUME SyncTypeOK, NEW w \in Workers
  PROVE  /\ worker[w].at = "asked" => worker[w] \in AskedState
         /\ worker[w].at = "filled" => worker[w] \in FilledState
         /\ worker[w].at \in {"received", "storing", "stored"} => worker[w] \in DoneState
<1>1. worker[w] \in {Idle} \cup AskedState \cup FilledState \cup DoneState
  BY DEF SyncTypeOK
<1>2. Idle.at = "idle"
  BY DEF Idle
<1>3. \A s \in AskedState : s.at = "asked"
  BY DEF AskedState
<1>4. \A s \in FilledState : s.at = "filled"
  BY DEF FilledState
<1>5. \A s \in DoneState : s.at \in {"received", "storing", "stored"}
  BY DEF DoneState
<1> QED
  BY <1>1, <1>2, <1>3, <1>4, <1>5

\* A step that changes only what one worker is doing.
LEMMA WorkerSteps ==
  ASSUME SyncInv, NEW w \in Workers,
         NEW s \in {Idle} \cup AskedState \cup FilledState \cup DoneState,
         worker' = [worker EXCEPT ![w] = s], WorkerFits(w)',
         UNCHANGED <<source, info, pools, offsets, blobs, stored, known, stream, written>>
  PROVE  SyncInv'
<1>1. PICK F \in PoolOfNodes : Fits(F)
  BY DEF SyncInv
<1>2. SyncTypeOK'
  <2>1. SyncTypeOK
    BY DEF SyncInv
  <2>2. worker' \in [Workers -> {Idle} \cup AskedState \cup FilledState \cup DoneState]
    BY <2>1 DEF SyncTypeOK
  <2> QED
    BY <2>1, <2>2 DEF SyncTypeOK
<1>3. CopiesFit(F)'
  BY <1>1 DEF Fits, CopiesFit
<1>4. ASSUME NEW v \in Workers PROVE WorkerFits(v)'
  <2>1. CASE v = w
    BY <2>1
  <2>2. CASE v # w
    <3>1. worker'[v] = worker[v]
      BY <2>2 DEF SyncInv, SyncTypeOK
    <3> QED
      BY <3>1, <1>1 DEF Fits, WorkerFits
  <2> QED
    BY <2>1, <2>2
<1>5. \A h \in Streams : StreamFits(F, h)'
  BY <1>1 DEF Fits, StreamFits
<1>6. StoredTilesAreReadable'
  BY <1>1 DEF Fits, StoredTilesAreReadable
<1> QED
  BY <1>2, <1>3, <1>4, <1>5, <1>6 DEF SyncInv, Fits

\* The offset that a worker asks with tells of the strings in the database.
LEMMA RequestTileFits ==
  ASSUME SyncInv, NEW w \in Workers, NEW h \in Streams, NEW t \in Tiles, RequestTile(w, h, t)
  PROVE  SyncInv'
<1> DEFINE s == [at |-> "asked", tile |-> t, stream |-> h, offset |-> offsets[info]]
<1>1. PICK F \in PoolOfNodes : Fits(F)
  BY DEF SyncInv
<1>2. SyncTypeOK
  BY DEF SyncInv
<1>3. source.node \in Nodes /\ info = source.node
  BY <1>2 DEF SyncTypeOK
<1>4. /\ IsPool(source.pool) /\ IsLower(blobs[source.node], source.pool)
      /\ offsets[info] = Highest(blobs[source.node])
  BY <1>1, <1>3 DEF Fits, CopiesFit
<1>5. /\ offsets[info] \in 0 .. Highest(source.pool)
      /\ UpToId(source.pool, offsets[info]) \subseteq blobs[source.node]
  BY <1>4, CopyIsLowerPart
<1>6. s \in AskedState
  BY <1>2, <1>3 DEF AskedState, SyncTypeOK
<1>7. worker' = [worker EXCEPT ![w] = s] /\ worker'[w] = s
  BY <1>2 DEF RequestTile, SyncTypeOK
<1>8. UNCHANGED <<source, info, pools, offsets, blobs, stored, known, stream, written>>
  BY DEF RequestTile, clientVars
<1>9. WorkerFits(w)'
  BY <1>5, <1>7, <1>8 DEF WorkerFits
<1> QED
  BY <1>6, <1>7, <1>8, <1>9, WorkerSteps

\* A tile with an error uses no strings.
LEMMA FailTileFits ==
  ASSUME SyncInv, NEW w \in Workers, FailTile(w)
  PROVE  SyncInv'
<1> DEFINE s == ErrorTile(worker[w])
<1>1. SyncTypeOK
  BY DEF SyncInv
<1>2. worker[w] \in AskedState
  BY <1>1, WorkerStates DEF FailTile
<1>3. s \in DoneState
  BY <1>1, <1>2 DEF DoneState, AskedState, ErrorTile, SyncTypeOK
<1>4. worker' = [worker EXCEPT ![w] = s] /\ worker'[w] = s
  BY <1>1 DEF FailTile, SyncTypeOK
<1>5. UNCHANGED <<source, info, pools, offsets, blobs, stored, known, stream, written>>
  BY DEF FailTile, clientVars
<1>6. s.at = "received" /\ s.uses = {}
  BY DEF ErrorTile
<1>7. WorkerFits(w)'
  BY <1>4, <1>6 DEF WorkerFits
<1> QED
  BY <1>3, <1>4, <1>5, <1>7, WorkerSteps
\* The source's pool grows, and with it what every offset and copy is a part of.
LEMMA FillTileFits ==
  ASSUME SyncInv, NEW w \in Workers, FillTile(w)
  PROVE  SyncInv'
<1> DEFINE tile == worker[w].tile
           new == StringsOf[tile] \ {e[2] : e \in source.pool}
           top == Highest(source.pool)
           s == [at |-> "filled", tile |-> tile, stream |-> worker[w].stream,
                 offset |-> worker[w].offset, node |-> source.node,
                 uses |-> {e \in source'.pool : e[2] \in StringsOf[tile]}]
<1>1. PICK F \in PoolOfNodes : Fits(F)
  BY DEF SyncInv
<1>2. SyncTypeOK
  BY DEF SyncInv
<1>3. worker[w] \in AskedState
  BY <1>2, WorkerStates DEF FillTile
<1>4. /\ source.node \in Nodes /\ F[source.node] = source.pool /\ IsPool(source.pool)
      /\ source.pool \subseteq Entries
  BY <1>1, <1>2 DEF Fits, CopiesFit, SyncTypeOK, IsPool
<1>5. PICK id \in Bijection(new, (top + 1) .. (top + Cardinality(new))) :
        source' = [source EXCEPT !.pool = @ \cup {<<id[x], x>> : x \in new}]
  BY DEF FillTile
<1>6. /\ source'.node = source.node
      /\ source'.pool = source.pool \cup {<<id[x], x>> : x \in new}
  BY <1>2, <1>5 DEF SyncTypeOK
<1>7. ExtendsPool(source'.pool, source.pool)
  <2>1. tile \in Tiles
    BY <1>3 DEF AskedState
  <2>2. new \subseteq AllStrings
    BY <2>1 DEF AllStrings
  <2>3. IsFiniteSet(new)
    BY <2>1, SyncAssumption, FS_Subset
  <2> HIDE DEF new
  <2>4. \A x \in new : x \notin {e[2] : e \in source.pool}
    BY DEF new
  <2> QED
    BY <1>4, <1>6, <2>2, <2>3, <2>4, NewStringsExtend
<1>8. source' \in [node : Nodes, pool : SUBSET Entries]
  <2>1. source'.pool \in SUBSET Entries
    BY <1>7 DEF ExtendsPool, IsPool
  <2>2. source' = [node |-> source'.node, pool |-> source'.pool]
    BY <1>2, <1>5 DEF SyncTypeOK
  <2> QED
    BY <2>1, <2>2, <1>4, <1>6
<1>9. PICK F2 \in PoolOfNodes : F2 = [F EXCEPT ![source.node] = source'.pool]
  BY <1>4, <1>8 DEF PoolOfNodes
<1>10. \A n \in Nodes : /\ n # source.node => F2[n] = F[n]
                        /\ n = source.node => F2[n] = source'.pool
                        /\ IsPool(F[n]) /\ ExtendsPool(F2[n], F[n])
  <2>1. \A n \in Nodes : n # source.node => F2[n] = F[n]
    BY <1>9 DEF PoolOfNodes
  <2>2. F2[source.node] = source'.pool
    BY <1>4, <1>9 DEF PoolOfNodes
  <2>3. \A n \in Nodes : IsPool(F[n])
    BY <1>1 DEF Fits, CopiesFit
  <2>4. \A n \in Nodes : Highest(F[n]) <= Highest(F[n])
    BY <2>3 DEF IsPool
  <2>5. \A n \in Nodes : ExtendsPool(F[n], F[n])
    BY <2>3, <2>4 DEF ExtendsPool
  <2> QED
    BY <1>4, <1>7, <2>1, <2>2, <2>3, <2>5
<1>11. UNCHANGED <<info, pools, offsets, blobs, stored, known, stream, written>>
  BY DEF FillTile, clientVars
<1>12. worker' = [worker EXCEPT ![w] = s] /\ worker'[w] = s
  BY <1>2 DEF FillTile, SyncTypeOK
<1>13. s \in FilledState
  <2>1. s.uses \in SUBSET Entries
    BY <1>8
  <2> QED
    BY <2>1, <1>3, <1>4 DEF FilledState, AskedState
<1> HIDE DEF s
<1>14. SyncTypeOK'
  <2>1. worker' \in [Workers -> {Idle} \cup AskedState \cup FilledState \cup DoneState]
    BY <1>2, <1>12, <1>13 DEF SyncTypeOK
  <2> QED
    BY <1>2, <1>6, <1>8, <1>11, <2>1 DEF SyncTypeOK
<1>15. CopiesFit(F2)'
  <2>1. F2[source'.node] = source'.pool
    BY <1>4, <1>6, <1>10
  <2>2. \A n \in Nodes :
          /\ n > source.node => F[n] = {}
          /\ IsLower(pools[n], F[n]) /\ IsLower(blobs[n], F[n]) /\ IsLower(known[n], F[n])
          /\ blobs[n] \subseteq pools[n]
          /\ offsets[n] = Highest(blobs[n])
    BY <1>1 DEF Fits, CopiesFit
  <2> SUFFICES ASSUME NEW n \in Nodes
               PROVE  /\ IsPool(F2[n])
                      /\ n > source.node => F2[n] = {}
                      /\ IsLower(pools[n], F2[n]) /\ IsLower(blobs[n], F2[n])
                      /\ IsLower(known[n], F2[n])
                      /\ blobs[n] \subseteq pools[n]
                      /\ offsets[n] = Highest(blobs[n])
    BY <2>1, <1>6, <1>11 DEF CopiesFit
  <2>3. IsPool(F2[n])
    BY <1>10 DEF ExtendsPool
  <2>4. n > source.node => F2[n] = {}
    <3>1. n \in Nat
      BY SyncAssumption
    <3>2. n > source.node => n # source.node
      BY <3>1
    <3> QED
      BY <3>2, <2>2, <1>10
  <2>5. IsLower(pools[n], F2[n]) /\ IsLower(blobs[n], F2[n]) /\ IsLower(known[n], F2[n])
    BY <1>10, <2>2, ExtendedPool
  <2> QED
    BY <2>2, <2>3, <2>4, <2>5
<1>16. ASSUME NEW v \in Workers PROVE WorkerFits(v)'
  <2>1. /\ \A k \in 0 .. top : /\ k \in 0 .. Highest(source'.pool)
                               /\ UpToId(source'.pool, k) = UpToId(source.pool, k)
        /\ source.pool \subseteq source'.pool
    BY <1>4, <1>7, ExtendedPool DEF ExtendsPool
  <2>2. WorkerFits(v)
    BY <1>1 DEF Fits
  <2>3. CASE v = w
    <3>1. worker[v].offset \in 0 .. top
           /\ UpToId(source.pool, worker[v].offset) \subseteq blobs[source.node]
      BY <2>2, <2>3 DEF WorkerFits, FillTile
    <3>2. s.at = "filled" /\ s.offset = worker[v].offset /\ s.node = source.node
           /\ s.uses \subseteq source'.pool
      BY <2>3 DEF s
    <3> QED
      BY <1>6, <1>11, <1>12, <2>1, <2>3, <3>1, <3>2 DEF WorkerFits
  <2>4. CASE v # w
    <3>1. worker'[v] = worker[v]
      BY <2>4, <1>2, <1>12 DEF SyncTypeOK
    <3> QED
      BY <3>1, <2>1, <2>2, <1>6, <1>11 DEF WorkerFits
  <2> QED
    BY <2>3, <2>4
<1>17. ASSUME NEW h \in Streams PROVE StreamFits(F2, h)'
  <2>1. StreamFits(F, h) /\ stream[h] \in Seq(MessageSet)
    BY <1>1, <1>2 DEF Fits, SyncTypeOK
  <2>2. /\ AllReadable(F2, known, stream[h])
        /\ written[h] # Closed => OffsetsAreCovered(F2, known, stream[h], written[h])
    BY <2>1, <1>10, StreamsKeepUp DEF StreamFits
  <2> QED
    BY <2>2, <1>11 DEF StreamFits
<1>18. StoredTilesAreReadable'
  BY <1>1, <1>11 DEF Fits, StoredTilesAreReadable
<1> QED
  BY <1>14, <1>15, <1>16, <1>17, <1>18 DEF SyncInv, Fits

\* The strings beyond the offset complete the pool of the worker.
LEMMA ReceiveTileFits ==
  ASSUME SyncInv, NEW w \in Workers, ReceiveTile(w)
  PROVE  SyncInv'
<1> DEFINE n == worker[w].node
           u == Update(source.pool, worker[w].offset)
           s == [at |-> "received", tile |-> worker[w].tile, stream |-> worker[w].stream,
                 node |-> n, uses |-> worker[w].uses]
<1>1. PICK F \in PoolOfNodes : Fits(F)
  BY DEF SyncInv
<1>2. SyncTypeOK
  BY DEF SyncInv
<1>3. worker[w] \in FilledState /\ worker[w].at = "filled"
  BY <1>2, WorkerStates DEF ReceiveTile
<1>4. /\ n = source.node /\ worker[w].uses \subseteq source.pool
      /\ worker[w].offset \in 0 .. Highest(source.pool)
      /\ UpToId(source.pool, worker[w].offset) \subseteq blobs[source.node]
  BY <1>1, <1>3 DEF Fits, WorkerFits
<1>5. /\ n \in Nodes /\ F[n] = source.pool /\ IsPool(source.pool)
      /\ IsLower(pools[n], source.pool) /\ blobs[n] \subseteq pools[n]
  BY <1>1, <1>2, <1>4 DEF Fits, CopiesFit, SyncTypeOK
<1>6. IsLower(source.pool, source.pool)
  <2>1. Highest(source.pool) \in 0 .. Highest(source.pool)
    BY <1>5 DEF IsPool
  <2>2. source.pool = UpToId(source.pool, Highest(source.pool))
    BY <1>5, EntryParts DEF UpToId
  <2> QED
    BY <2>1, <2>2 DEF IsLower
<1>7. NoGapAfter(source.pool, pools[n], u) /\ source.pool \subseteq pools[n] \cup u
  BY <1>4, <1>5, <1>6, UpdateLeavesNoGap
<1>8. IsLower(pools[n] \cup u, source.pool) /\ Merged(pools[n], u) = pools[n] \cup u
  BY <1>5, <1>7, LowerPartGrows
<1>9. pools' = [pools EXCEPT ![n] = pools[n] \cup u]
  BY <1>8 DEF ReceiveTile
<1>10. /\ pools'[n] = pools[n] \cup u
       /\ \A m \in Nodes : m # n => pools'[m] = pools[m]
       /\ \A m \in Nodes : pools[m] \subseteq pools'[m]
  BY <1>2, <1>5, <1>9 DEF SyncTypeOK, PoolOfNodes
<1>11. UNCHANGED <<source, info, offsets, blobs, stored, known, stream, written>>
  BY DEF ReceiveTile, clientVars
<1>12. worker' = [worker EXCEPT ![w] = s] /\ worker'[w] = s
  BY <1>2 DEF ReceiveTile, SyncTypeOK
<1>13. s \in DoneState
  BY <1>3 DEF FilledState, DoneState
<1>14. s.at = "received" /\ s.node = n /\ s.uses = worker[w].uses
  OBVIOUS
<1> HIDE DEF s, u
<1>15. SyncTypeOK'
  <2>1. worker' \in [Workers -> {Idle} \cup AskedState \cup FilledState \cup DoneState]
    BY <1>2, <1>12, <1>13 DEF SyncTypeOK
  <2>2. pools[n] \cup u \in SUBSET Entries
    BY <1>5, <1>8, CopyIsLowerPart DEF IsPool
  <2>3. pools' \in PoolOfNodes
    BY <2>2, <1>2, <1>9 DEF SyncTypeOK, PoolOfNodes
  <2> QED
    BY <1>2, <1>11, <2>1, <2>3 DEF SyncTypeOK
<1>16. CopiesFit(F)'
  <2>1. \A m \in Nodes : IsLower(pools'[m], F[m]) /\ blobs[m] \subseteq pools'[m]
    BY <1>1, <1>5, <1>8, <1>10 DEF Fits, CopiesFit
  <2> QED
    BY <2>1, <1>1, <1>11 DEF Fits, CopiesFit
<1>17. ASSUME NEW v \in Workers PROVE WorkerFits(v)'
  <2>1. WorkerFits(v)
    BY <1>1 DEF Fits
  <2>2. CASE v = w
    BY <1>4, <1>7, <1>10, <1>12, <1>14, <2>2 DEF WorkerFits
  <2>3. CASE v # w
    <3>1. worker'[v] = worker[v]
      BY <2>3, <1>2, <1>12 DEF SyncTypeOK
    <3>2. worker[v].at \in {"received", "storing", "stored"} => worker[v].node \in Nodes
      BY <1>2, WorkerStates DEF DoneState
    <3> QED
      BY <3>1, <3>2, <2>1, <1>10, <1>11 DEF WorkerFits
  <2> QED
    BY <2>2, <2>3
<1>18. \A h \in Streams : StreamFits(F, h)'
  BY <1>1, <1>11 DEF Fits, StreamFits
<1>19. StoredTilesAreReadable'
  BY <1>1, <1>11 DEF Fits, StoredTilesAreReadable
<1> QED
  BY <1>15, <1>16, <1>17, <1>18, <1>19 DEF SyncInv, Fits
\* Whether it has grown or not, the database has the whole pool afterwards.
LEMMA PutStringsFits ==
  ASSUME SyncInv, NEW w \in Workers, PutStrings(w)
  PROVE  SyncInv'
<1> DEFINE n == worker[w].node
           s == [worker[w] EXCEPT !.at = "storing"]
<1>1. PICK F \in PoolOfNodes : Fits(F)
  BY DEF SyncInv
<1>2. SyncTypeOK
  BY DEF SyncInv
<1>3. worker[w] \in DoneState /\ worker[w].at = "received" /\ n \in Nodes
  BY <1>2, WorkerStates DEF PutStrings, DoneState
<1>4. \A m \in Nodes :
        /\ IsPool(F[m]) /\ IsLower(pools[m], F[m]) /\ IsLower(blobs[m], F[m])
        /\ blobs[m] \subseteq pools[m] /\ offsets[m] = Highest(blobs[m])
  BY <1>1 DEF Fits, CopiesFit
<1>5. Highest(pools[n]) \in Nat
  BY <1>3, <1>4, CopyIsLowerPart
<1>6. /\ blobs' = [blobs EXCEPT ![n] = pools[n]]
      /\ offsets' = [offsets EXCEPT ![n] = Highest(pools[n])]
  <2>1. CASE offsets[n] < Highest(pools[n])
    BY <2>1 DEF PutStrings, StoredPool
  <2>2. CASE ~ offsets[n] < Highest(pools[n])
    <3>1. UNCHANGED <<blobs, offsets>>
      BY <2>2 DEF PutStrings
    <3>2. /\ pools[n] = UpToId(F[n], Highest(pools[n]))
          /\ blobs[n] = UpToId(F[n], Highest(blobs[n]))
          /\ Highest(blobs[n]) \in Nat
      BY <1>3, <1>4, CopyIsLowerPart
    <3>3. Highest(pools[n]) <= Highest(blobs[n])
      BY <2>2, <3>2, <1>3, <1>4, <1>5
    <3>4. \A i \in Nat : i <= Highest(pools[n]) => i <= Highest(blobs[n])
      BY <3>2, <3>3, <1>5
    <3>5. \A e \in F[n] : e[1] \in Nat
      BY <1>3, <1>4, EntryParts
    <3>6. UpToId(F[n], Highest(pools[n])) \subseteq UpToId(F[n], Highest(blobs[n]))
      BY <3>4, <3>5 DEF UpToId
    <3>7. pools[n] = blobs[n]
      BY <3>2, <3>6, <1>3, <1>4
    <3> QED
      BY <3>1, <3>7, <1>2, <1>3, <1>4 DEF SyncTypeOK, PoolOfNodes
  <2> QED
    BY <2>1, <2>2
<1>7. \A m \in Nodes : /\ m = n => blobs'[m] = pools[m] /\ offsets'[m] = Highest(pools[m])
                       /\ m # n => blobs'[m] = blobs[m] /\ offsets'[m] = offsets[m]
                       /\ blobs[m] \subseteq blobs'[m]
  BY <1>2, <1>3, <1>4, <1>6 DEF SyncTypeOK, PoolOfNodes
<1>8. UNCHANGED <<source, info, pools, stored, known, stream, written>>
  BY DEF PutStrings, clientVars
<1>9. worker' = [worker EXCEPT ![w] = s] /\ worker'[w] = s
  BY <1>2 DEF PutStrings, SyncTypeOK
<1>10. s \in DoneState /\ s.at = "storing" /\ s.node = n /\ s.uses = worker[w].uses
  BY <1>3 DEF DoneState
<1> HIDE DEF s
<1>11. SyncTypeOK'
  <2>1. worker' \in [Workers -> {Idle} \cup AskedState \cup FilledState \cup DoneState]
    BY <1>2, <1>9, <1>10 DEF SyncTypeOK
  <2>2. blobs' \in PoolOfNodes
    BY <1>2, <1>3, <1>6 DEF SyncTypeOK, PoolOfNodes
  <2>3. offsets' \in [Nodes -> Nat]
    BY <1>2, <1>5, <1>6 DEF SyncTypeOK
  <2> QED
    BY <1>2, <1>8, <2>1, <2>2, <2>3 DEF SyncTypeOK
<1>12. CopiesFit(F)'
  <2>1. \A m \in Nodes : /\ IsLower(blobs'[m], F[m]) /\ blobs'[m] \subseteq pools[m]
                         /\ offsets'[m] = Highest(blobs'[m])
    BY <1>4, <1>7
  <2> QED
    BY <2>1, <1>1, <1>8 DEF Fits, CopiesFit
<1>13. ASSUME NEW v \in Workers PROVE WorkerFits(v)'
  <2>1. WorkerFits(v)
    BY <1>1 DEF Fits
  <2>2. CASE v = w
    <3>1. worker[v].uses \subseteq pools[n]
      BY <2>1, <2>2, <1>3 DEF WorkerFits
    <3> QED
      BY <3>1, <2>2, <1>3, <1>7, <1>8, <1>9, <1>10 DEF WorkerFits
  <2>3. CASE v # w
    <3>1. worker'[v] = worker[v]
      BY <2>3, <1>2, <1>9 DEF SyncTypeOK
    <3>2. /\ worker[v].at \in {"received", "storing", "stored"} => worker[v].node \in Nodes
          /\ source.node \in Nodes
      BY <1>2, WorkerStates DEF DoneState, SyncTypeOK
    <3> QED
      BY <3>1, <3>2, <2>1, <1>7, <1>8 DEF WorkerFits
  <2> QED
    BY <2>2, <2>3
<1>14. \A h \in Streams : StreamFits(F, h)'
  BY <1>1, <1>8 DEF Fits, StreamFits
<1>15. StoredTilesAreReadable'
  <2>1. \A t \in stored : t.node \in Nodes /\ t.uses \subseteq blobs[t.node]
    BY <1>1, <1>2 DEF Fits, SyncTypeOK, StoredTilesAreReadable
  <2> QED
    BY <2>1, <1>7, <1>8 DEF StoredTilesAreReadable
<1> QED
  BY <1>11, <1>12, <1>13, <1>14, <1>15 DEF SyncInv, Fits

\* The tile follows its strings into the database.
LEMMA PutTileFits ==
  ASSUME SyncInv, NEW w \in Workers, PutTile(w)
  PROVE  SyncInv'
<1> DEFINE t == [tile |-> worker[w].tile, node |-> worker[w].node, uses |-> worker[w].uses]
           s == [worker[w] EXCEPT !.at = "stored"]
<1>1. PICK F \in PoolOfNodes : Fits(F)
  BY DEF SyncInv
<1>2. SyncTypeOK
  BY DEF SyncInv
<1>3. worker[w] \in DoneState /\ worker[w].at = "storing"
  BY <1>2, WorkerStates DEF PutTile
<1>4. /\ worker[w].uses \subseteq pools[worker[w].node]
      /\ worker[w].uses \subseteq blobs[worker[w].node]
  BY <1>1, <1>3 DEF Fits, WorkerFits
<1>5. PICK kept \in SUBSET stored : stored' = kept \cup {t}
  BY DEF PutTile
<1>6. t \in [tile : Tiles, node : Nodes, uses : SUBSET Entries]
  BY <1>3 DEF DoneState
<1>7. UNCHANGED <<source, info, pools, offsets, blobs, known, stream, written>>
  BY DEF PutTile, clientVars
<1>8. worker' = [worker EXCEPT ![w] = s] /\ worker'[w] = s
  BY <1>2 DEF PutTile, SyncTypeOK
<1>9. s \in DoneState /\ s.at = "stored" /\ s.node = worker[w].node /\ s.uses = worker[w].uses
  BY <1>3 DEF DoneState
<1>10. t.node = worker[w].node /\ t.uses = worker[w].uses
  OBVIOUS
<1> HIDE DEF s, t
<1>11. SyncTypeOK'
  <2>1. worker' \in [Workers -> {Idle} \cup AskedState \cup FilledState \cup DoneState]
    BY <1>2, <1>8, <1>9 DEF SyncTypeOK
  <2>2. stored' \subseteq [tile : Tiles, node : Nodes, uses : SUBSET Entries]
    BY <1>2, <1>5, <1>6 DEF SyncTypeOK
  <2> QED
    BY <1>2, <1>7, <2>1, <2>2 DEF SyncTypeOK
<1>12. CopiesFit(F)'
  BY <1>1, <1>7 DEF Fits, CopiesFit
<1>13. ASSUME NEW v \in Workers PROVE WorkerFits(v)'
  <2>1. CASE v = w
    BY <2>1, <1>4, <1>7, <1>8, <1>9 DEF WorkerFits
  <2>2. CASE v # w
    <3>1. worker'[v] = worker[v]
      BY <2>2, <1>2, <1>8 DEF SyncTypeOK
    <3> QED
      BY <3>1, <1>1, <1>7 DEF Fits, WorkerFits
  <2> QED
    BY <2>1, <2>2
<1>14. \A h \in Streams : StreamFits(F, h)'
  BY <1>1, <1>7 DEF Fits, StreamFits
<1>15. StoredTilesAreReadable'
  BY <1>1, <1>4, <1>5, <1>7, <1>10 DEF Fits, StoredTilesAreReadable
<1> QED
  BY <1>11, <1>12, <1>13, <1>14, <1>15 DEF SyncInv, Fits

\* The client's offsets tell of what it knows.
LEMMA OpenStreamFits ==
  ASSUME SyncInv, NEW h \in Streams, OpenStream(h)
  PROVE  SyncInv'
<1> DEFINE off == [n \in Nodes |-> Highest(known[n])]
<1>1. PICK F \in PoolOfNodes : Fits(F)
  BY DEF SyncInv
<1>2. SyncTypeOK
  BY DEF SyncInv
<1>3. UNCHANGED <<source, info, pools, offsets, blobs, stored, worker, known, stream>>
  BY DEF OpenStream, serviceVars
<1>4. written' = [written EXCEPT ![h] = off]
  BY DEF OpenStream, OwnOffset
<1>5. \A n \in Nodes : /\ IsPool(F[n])
                       /\ Highest(known[n]) \in 0 .. Highest(F[n])
                       /\ known[n] = UpToId(F[n], Highest(known[n]))
  BY <1>1, CopyIsLowerPart DEF Fits, CopiesFit
<1>6. off \in [Nodes -> Nat]
  BY <1>5 DEF IsPool
<1>7. OffsetsAreCovered(F, known, stream[h], off)
  BY <1>5 DEF OffsetsAreCovered
<1> HIDE DEF off
<1>8. SyncTypeOK'
  BY <1>2, <1>3, <1>4, <1>6 DEF SyncTypeOK
<1>9. CopiesFit(F)'
  BY <1>1, <1>3 DEF Fits, CopiesFit
<1>10. \A w \in Workers : WorkerFits(w)'
  BY <1>1, <1>3 DEF Fits, WorkerFits
<1>11. ASSUME NEW g \in Streams PROVE StreamFits(F, g)'
  <2>1. written'[g] = IF g = h THEN off ELSE written[g]
    BY <1>2, <1>4 DEF SyncTypeOK
  <2>2. StreamFits(F, g)
    BY <1>1 DEF Fits
  <2> QED
    BY <2>1, <2>2, <1>3, <1>7 DEF StreamFits
<1>12. StoredTilesAreReadable'
  BY <1>1, <1>3 DEF Fits, StoredTilesAreReadable
<1> QED
  BY <1>8, <1>9, <1>10, <1>11, <1>12 DEF SyncInv, Fits
\* Whatever has been written, a stream takes a tile that the cache can read.
LEMMA WriteTileFits ==
  ASSUME SyncInv, NEW h \in Streams, written[h] # Closed,
         NEW t \in [tile : Tiles, node : Nodes, uses : SUBSET Entries],
         t.uses \subseteq pools[t.node], WriteTile(h, t),
         worker' \in [Workers -> {Idle} \cup AskedState \cup FilledState \cup DoneState],
         \A w \in Workers : WorkerFits(w)',
         UNCHANGED <<source, info, pools, offsets, blobs, stored>>
  PROVE  SyncInv'
<1> DEFINE n == t.node
           p == pools[n]
           top == Highest(p)
           off == written[h]
           q == stream[h]
           m == TileMsg(t)
           u == StringsMsg(n, Update(p, off[n]))
<1>1. PICK F \in PoolOfNodes : Fits(F)
  BY DEF SyncInv
<1>2. SyncTypeOK
  BY DEF SyncInv
<1>3. /\ n \in Nodes /\ q \in Seq(MessageSet) /\ off \in [Nodes -> Nat]
      /\ IsPool(F[n]) /\ IsLower(p, F[n])
      /\ AllReadable(F, known, q) /\ OffsetsAreCovered(F, known, q, off)
  BY <1>1, <1>2 DEF Fits, CopiesFit, StreamFits, SyncTypeOK
<1>4. m \in MessageSet /\ m.type = "tile" /\ m.node = n /\ m.uses = t.uses
  <2>1. m = [type |-> "tile", node |-> t.node, tile |-> t.tile, uses |-> t.uses]
    BY DEF TileMsg
  <2> QED
    BY <2>1 DEF MessageSet
<1>5. top \in Nat
  BY <1>3, CopyIsLowerPart
<1>6. UNCHANGED known
  BY DEF WriteTile
<1> HIDE DEF m, u, p, q, off, top
<1>7. PICK r \in Seq(MessageSet), o \in [Nodes -> Nat] :
        /\ stream' = [stream EXCEPT ![h] = r]
        /\ written' = [written EXCEPT ![h] = o]
        /\ AllReadable(F, known, r)
        /\ OffsetsAreCovered(F, known, r, o)
  <2>1. CASE off[n] < top
    <3>1. stream' = [stream EXCEPT ![h] = q \o (<<u>> \o <<m>>)]
      BY <2>1 DEF WriteTile, Messages, m, u, p, q, off, top
    <3>2. u \in MessageSet
      <4>1. Update(p, off[n]) \subseteq Entries
        BY <1>3, CopyIsLowerPart DEF Update, IsPool
      <4> QED
        BY <4>1, <1>3 DEF StringsMsg, MessageSet, u
    <3>3. q \o (<<u>> \o <<m>>) = Append(Append(q, u), m)
      BY <1>3, <1>4, <3>2
    <3>4. written' = [written EXCEPT ![h] = [off EXCEPT ![n] = top]]
      <4>1. top > off[n]
        BY <2>1, <1>3, <1>5
      <4> QED
        BY <4>1, <1>2, <1>3 DEF WriteTile, SyncTypeOK, p, off, top
    <3>5. /\ Append(Append(q, u), m) \in Seq(MessageSet)
          /\ AllReadable(F, known, Append(Append(q, u), m))
          /\ OffsetsAreCovered(F, known, Append(Append(q, u), m), [off EXCEPT ![n] = top])
      BY <1>3, <1>4, <2>1, WriteStringsAndTile DEF u, p, top
    <3>6. [off EXCEPT ![n] = top] \in [Nodes -> Nat]
      BY <1>3, <1>5
    <3> QED
      BY <3>1, <3>3, <3>4, <3>5, <3>6
  <2>2. CASE ~ off[n] < top
    <3>1. stream' = [stream EXCEPT ![h] = q \o (<<>> \o <<m>>)]
      BY <2>2 DEF WriteTile, Messages, m, p, q, off, top
    <3>2. q \o (<<>> \o <<m>>) = Append(q, m) /\ Append(q, m) \in Seq(MessageSet)
      BY <1>3, <1>4
    <3>3. written' = [written EXCEPT ![h] = off]
      <4>1. ~ top > off[n]
        BY <2>2, <1>3, <1>5
      <4>2. [off EXCEPT ![n] = off[n]] = off
        BY <1>3
      <4> QED
        BY <4>1, <4>2, <1>2, <1>3 DEF WriteTile, SyncTypeOK, p, off, top
    <3>4. /\ AllReadable(F, known, Append(q, m))
          /\ OffsetsAreCovered(F, known, Append(q, m), off)
      BY <1>3, <1>4, <2>2, WriteTileAlone DEF p, top
    <3> QED
      BY <3>1, <3>2, <3>3, <3>4, <1>3
  <2> QED
    BY <2>1, <2>2
<1>8. SyncTypeOK'
  <2>1. stream' \in [Streams -> Seq(MessageSet)]
    BY <1>2, <1>7 DEF SyncTypeOK
  <2>2. written' \in [Streams -> {Closed} \cup [Nodes -> Nat]]
    BY <1>2, <1>7 DEF SyncTypeOK
  <2> QED
    BY <1>2, <1>6, <2>1, <2>2 DEF SyncTypeOK
<1>9. CopiesFit(F)'
  BY <1>1, <1>6 DEF Fits, CopiesFit
<1>10. ASSUME NEW g \in Streams PROVE StreamFits(F, g)'
  <2>1. CASE g = h
    <3>1. stream'[g] = r /\ written'[g] = o
      BY <2>1, <1>2, <1>7 DEF SyncTypeOK
    <3> QED
      BY <3>1, <1>6, <1>7 DEF StreamFits
  <2>2. CASE g # h
    <3>1. stream'[g] = stream[g] /\ written'[g] = written[g]
      BY <2>2, <1>2, <1>7 DEF SyncTypeOK
    <3> QED
      BY <3>1, <1>1, <1>6 DEF Fits, StreamFits
  <2> QED
    BY <2>1, <2>2
<1>11. StoredTilesAreReadable'
  BY <1>1 DEF Fits, StoredTilesAreReadable
<1> QED
  BY <1>8, <1>9, <1>10, <1>11 DEF SyncInv, Fits

LEMMA DeliverTileFits ==
  ASSUME SyncInv, NEW w \in Workers, DeliverTile(w)
  PROVE  SyncInv'
<1> DEFINE h == worker[w].stream
           t == [tile |-> worker[w].tile, node |-> worker[w].node, uses |-> worker[w].uses]
<1>1. PICK F \in PoolOfNodes : Fits(F)
  BY DEF SyncInv
<1>2. SyncTypeOK
  BY DEF SyncInv
<1>3. worker[w] \in DoneState /\ worker[w].at = "stored" /\ h \in Streams
  BY <1>2, WorkerStates DEF DeliverTile, DoneState
<1>4. t \in [tile : Tiles, node : Nodes, uses : SUBSET Entries]
  BY <1>3 DEF DoneState
<1>5. t.uses \subseteq pools[t.node]
  BY <1>1, <1>3 DEF Fits, WorkerFits
<1>6. worker' = [worker EXCEPT ![w] = Idle] /\ worker'[w] = Idle
  BY <1>2 DEF DeliverTile, SyncTypeOK
<1>7. UNCHANGED <<source, info, pools, offsets, blobs, stored>>
  BY DEF DeliverTile
<1>8. Idle.at = "idle"
  BY DEF Idle
<1>9. WorkerFits(w)'
  BY <1>6, <1>8 DEF WorkerFits
<1>10. CASE written[h] = Closed
  <2>1. UNCHANGED <<known, stream, written>>
    BY <1>10 DEF DeliverTile, clientVars
  <2> QED
    BY <2>1, <1>6, <1>7, <1>9, WorkerSteps
<1>11. CASE written[h] # Closed
  <2>1. WriteTile(h, t)
    BY <1>11 DEF DeliverTile
  <2>2. worker' \in [Workers -> {Idle} \cup AskedState \cup FilledState \cup DoneState]
    BY <1>2, <1>6 DEF SyncTypeOK
  <2>3. ASSUME NEW v \in Workers PROVE WorkerFits(v)'
    <3>1. CASE v = w
      BY <3>1, <1>9
    <3>2. CASE v # w
      <4>1. worker'[v] = worker[v]
        BY <3>2, <1>2, <1>6 DEF SyncTypeOK
      <4> QED
        BY <4>1, <1>1, <1>7 DEF Fits, WorkerFits
    <3> QED
      BY <3>1, <3>2
  <2> HIDE DEF t
  <2> QED
    BY <1>3, <1>4, <1>5, <1>7, <1>11, <2>1, <2>2, <2>3, WriteTileFits
<1> QED
  BY <1>10, <1>11

LEMMA ServeStoredFits ==
  ASSUME SyncInv, NEW h \in Streams, NEW t \in stored, ServeStored(h, t)
  PROVE  SyncInv'
<1>1. PICK F \in PoolOfNodes : Fits(F)
  BY DEF SyncInv
<1>2. SyncTypeOK
  BY DEF SyncInv
<1>3. t \in [tile : Tiles, node : Nodes, uses : SUBSET Entries]
  BY <1>2 DEF SyncTypeOK
<1>4. t.uses \subseteq pools[t.node]
  <2>1. t.node \in Nodes
    BY <1>3
  <2>2. t.uses \subseteq blobs[t.node]
    BY <1>1 DEF Fits, StoredTilesAreReadable
  <2> QED
    BY <2>1, <2>2, <1>1 DEF Fits, CopiesFit
<1>5. WriteTile(h, t) /\ written[h] # Closed
      /\ UNCHANGED <<source, info, pools, offsets, blobs, stored, worker>>
  BY DEF ServeStored, serviceVars
<1>6. worker' \in [Workers -> {Idle} \cup AskedState \cup FilledState \cup DoneState]
  BY <1>2, <1>5 DEF SyncTypeOK
<1>7. \A w \in Workers : WorkerFits(w)'
  BY <1>1, <1>5 DEF Fits, WorkerFits
<1> QED
  BY <1>3, <1>4, <1>5, <1>6, <1>7, WriteTileFits

\* The strings of a message complete the pool of the client, for every stream.
LEMMA ReadMessageFits ==
  ASSUME SyncInv, NEW h \in Streams, ReadMessage(h)
  PROVE  SyncInv'
<1> DEFINE q == stream[h]
           m == Head(q)
<1>1. PICK F \in PoolOfNodes : Fits(F)
  BY DEF SyncInv
<1>2. SyncTypeOK
  BY DEF SyncInv
<1>3. q \in Seq(MessageSet) /\ q # <<>> /\ m \in MessageSet /\ m.node \in Nodes
  <2>1. q \in Seq(MessageSet) /\ q # <<>>
    BY <1>2 DEF SyncTypeOK, ReadMessage
  <2>2. m \in MessageSet
    BY <2>1
  <2> QED
    BY <2>1, <2>2 DEF MessageSet
<1>4. UNCHANGED <<source, info, pools, offsets, blobs, stored, worker, written>>
      /\ stream' = [stream EXCEPT ![h] = Tail(q)]
  BY DEF ReadMessage, serviceVars
<1>5. \A n \in Nodes : IsPool(F[n]) /\ IsLower(known[n], F[n])
  BY <1>1 DEF Fits, CopiesFit
<1>6. m.type = "strings" => NoGapAfter(F[m.node], known[m.node], m.strings)
  <2>1. 1 \in 1 .. Len(q) /\ m = q[1]
    BY <1>3
  <2>2. StringsBefore(q, 1, m.node) = {}
    BY DEF StringsBefore
  <2>3. Readable(F, known[m.node] \cup {}, m)
    BY <1>1, <2>1, <2>2 DEF Fits, StreamFits, AllReadable
  <2> QED
    BY <2>3 DEF Readable
<1>7. /\ known' \in PoolOfNodes
      /\ \A n \in Nodes : /\ known'[n] = known[n] \cup StringsIn(m, n)
                          /\ IsLower(known'[n], F[n])
  <2>1. CASE m.type = "strings"
    <3>1. /\ IsLower(known[m.node] \cup m.strings, F[m.node])
          /\ Merged(known[m.node], m.strings) = known[m.node] \cup m.strings
      <4>1. /\ IsPool(F[m.node]) /\ IsLower(known[m.node], F[m.node])
            /\ NoGapAfter(F[m.node], known[m.node], m.strings)
        BY <1>3, <1>5, <1>6, <2>1
      <4> HIDE DEF m
      <4> QED
        BY <4>1, LowerPartGrows
    <3>2. known' = [known EXCEPT ![m.node] = known[m.node] \cup m.strings]
      BY <2>1, <3>1 DEF ReadMessage
    <3>3. known[m.node] \cup m.strings \in SUBSET Entries
      BY <1>3, <1>5, <3>1, CopyIsLowerPart DEF IsPool
    <3> HIDE DEF m
    <3>4. \A n \in Nodes : known'[n] = known[n] \cup StringsIn(m, n)
      BY <2>1, <3>2, <1>2 DEF StringsIn, SyncTypeOK, PoolOfNodes
    <3>5. \A n \in Nodes : IsLower(known'[n], F[n])
      BY <3>1, <3>2, <1>2, <1>3, <1>5 DEF SyncTypeOK, PoolOfNodes
    <3> QED
      BY <1>2, <3>2, <3>3, <3>4, <3>5 DEF SyncTypeOK, PoolOfNodes
  <2>2. CASE m.type # "strings"
    <3>1. known' = known
      BY <2>2 DEF ReadMessage
    <3> QED
      BY <2>2, <3>1, <1>2, <1>5 DEF StringsIn, SyncTypeOK
  <2> QED
    BY <2>1, <2>2
<1>8. SyncTypeOK'
  <2>1. Tail(q) \in Seq(MessageSet)
    BY <1>3
  <2>2. stream' \in [Streams -> Seq(MessageSet)]
    BY <1>2, <1>4, <2>1 DEF SyncTypeOK
  <2> QED
    BY <1>2, <1>4, <1>7, <2>2 DEF SyncTypeOK
<1>9. CopiesFit(F)'
  BY <1>1, <1>4, <1>7 DEF Fits, CopiesFit
<1>10. \A w \in Workers : WorkerFits(w)'
  BY <1>1, <1>4 DEF Fits, WorkerFits
<1>11. ASSUME NEW g \in Streams PROVE StreamFits(F, g)'
  <2>1. CASE g = h
    <3>1. stream'[g] = Tail(q) /\ written'[g] = written[h]
      BY <2>1, <1>2, <1>4 DEF SyncTypeOK
    <3>2. StreamFits(F, h)
      BY <1>1 DEF Fits
    <3>3. AllReadable(F, known', Tail(q))
      BY <3>2, <1>3, <1>7, ReadFirst DEF StreamFits
    <3>4. written[h] # Closed => OffsetsAreCovered(F, known', Tail(q), written[h])
      BY <3>2, <1>3, <1>7, ReadFirst DEF StreamFits
    <3> QED
      BY <3>1, <3>3, <3>4 DEF StreamFits
  <2>2. CASE g # h
    <3>1. stream'[g] = stream[g] /\ written'[g] = written[g]
      BY <2>2, <1>2, <1>4 DEF SyncTypeOK
    <3>2. StreamFits(F, g) /\ stream[g] \in Seq(MessageSet)
      BY <1>1, <1>2 DEF Fits, SyncTypeOK
    <3>3. \A n \in Nodes : known[n] \subseteq known'[n]
      BY <1>7
    <3>4. AllReadable(F, known', stream[g])
      BY <3>2, <3>3, ReadOther DEF StreamFits
    <3>5. written[g] # Closed => OffsetsAreCovered(F, known', stream[g], written[g])
      BY <3>2, <3>3, ReadOther DEF StreamFits
    <3> QED
      BY <3>1, <3>4, <3>5 DEF StreamFits
  <2> QED
    BY <2>1, <2>2
<1>12. StoredTilesAreReadable'
  BY <1>1, <1>4 DEF Fits, StoredTilesAreReadable
<1> QED
  BY <1>8, <1>9, <1>10, <1>11, <1>12 DEF SyncInv, Fits
\* After a crash the service has the pools of its database; nobody works for it.
LEMMA RestartFits ==
  ASSUME SyncInv, NEW F \in PoolOfNodes, Fits(F),
         source' \in [node : Nodes, pool : SUBSET Entries], info' = source'.node,
         F[source'.node] = source'.pool, source'.node >= source.node,
         pools' = blobs, offsets' = [n \in Nodes |-> Highest(blobs[n])],
         worker' = [w \in Workers |-> Idle], written' = [h \in Streams |-> Closed],
         UNCHANGED <<blobs, stored, known, stream>>
  PROVE  SyncInv'
<1>1. SyncTypeOK
  BY DEF SyncInv
<1>2. \A n \in Nodes :
        /\ IsPool(F[n]) /\ (n > source.node => F[n] = {})
        /\ IsLower(blobs[n], F[n]) /\ IsLower(known[n], F[n])
  BY DEF Fits, CopiesFit
<1>3. SyncTypeOK'
  <2>1. \A n \in Nodes : Highest(blobs[n]) \in Nat
    BY <1>2, CopyIsLowerPart DEF IsPool
  <2>2. offsets' \in [Nodes -> Nat]
    BY <2>1
  <2>3. worker' \in [Workers -> {Idle} \cup AskedState \cup FilledState \cup DoneState]
    OBVIOUS
  <2>4. written' \in [Streams -> {Closed} \cup [Nodes -> Nat]]
    OBVIOUS
  <2> QED
    BY <1>1, <2>2, <2>3, <2>4 DEF SyncTypeOK
<1>4. CopiesFit(F)'
  <2>1. \A n \in Nodes : n > source'.node => F[n] = {}
    <3>1. source.node \in Nat /\ source'.node \in Nat /\ Nodes \subseteq Nat
      BY <1>1, SyncAssumption DEF SyncTypeOK
    <3>2. \A n \in Nodes : n > source'.node => n > source.node
      BY <3>1
    <3> QED
      BY <3>2, <1>2
  <2>2. \A n \in Nodes : /\ IsPool(F[n]) /\ IsLower(pools'[n], F[n])
                         /\ IsLower(blobs'[n], F[n]) /\ IsLower(known'[n], F[n])
                         /\ blobs'[n] \subseteq pools'[n]
                         /\ offsets'[n] = Highest(blobs'[n])
    BY <1>2
  <2> QED
    BY <2>1, <2>2 DEF CopiesFit
<1>5. \A w \in Workers : WorkerFits(w)'
  BY DEF WorkerFits, Idle
<1>6. \A h \in Streams : StreamFits(F, h)'
  BY DEF Fits, StreamFits
<1>7. StoredTilesAreReadable'
  BY DEF Fits, StoredTilesAreReadable
<1> QED
  BY <1>3, <1>4, <1>5, <1>6, <1>7 DEF SyncInv, Fits

LEMMA RestartServiceFits ==
  ASSUME SyncInv, RestartService
  PROVE  SyncInv'
<1>1. PICK F \in PoolOfNodes : Fits(F)
  BY DEF SyncInv
<1>2. /\ source \in [node : Nodes, pool : SUBSET Entries]
      /\ F[source.node] = source.pool /\ source.node >= source.node
  <2>1. source \in [node : Nodes, pool : SUBSET Entries] /\ info = source.node
    BY DEF SyncInv, SyncTypeOK
  <2>2. source.node \in Nat
    BY <2>1, SyncAssumption
  <2>3. F[source.node] = source.pool
    BY <1>1 DEF Fits, CopiesFit
  <2>4. source.node >= source.node
    BY <2>2
  <2> QED
    BY <2>1, <2>3, <2>4
<1> QED
  BY <1>1, <1>2, RestartFits DEF RestartService

\* The next node has had no strings yet.
LEMMA RestartBothFits ==
  ASSUME SyncInv, RestartBoth
  PROVE  SyncInv'
<1>1. PICK F \in PoolOfNodes : Fits(F)
  BY DEF SyncInv
<1>2. source.node \in Nat /\ source.node + 1 \in Nodes
  BY SyncAssumption DEF SyncInv, SyncTypeOK, RestartBoth
<1>3. source' \in [node : Nodes, pool : SUBSET Entries]
  BY <1>2 DEF RestartBoth, Restarted
<1>4. source'.node = source.node + 1 /\ source'.pool = {} /\ info' = source'.node
  BY DEF RestartBoth, Restarted
<1>5. F[source'.node] = source'.pool
  BY <1>1, <1>2, <1>4 DEF Fits, CopiesFit
<1>6. source'.node >= source.node
  BY <1>2, <1>4
<1> QED
  BY <1>1, <1>3, <1>4, <1>5, <1>6, RestartFits DEF RestartBoth

LEMMA StepFits == SyncInv /\ [Next]_vars => SyncInv'
<1> SUFFICES ASSUME SyncInv, [Next]_vars
             PROVE  SyncInv'
  OBVIOUS
<1>1. ASSUME NEW w \in Workers, NEW h \in Streams, NEW t \in Tiles, RequestTile(w, h, t)
      PROVE  SyncInv'
  BY <1>1, RequestTileFits
<1>2. ASSUME NEW w \in Workers,
             \/ FillTile(w) \/ FailTile(w) \/ ReceiveTile(w)
             \/ PutStrings(w) \/ PutTile(w) \/ DeliverTile(w)
      PROVE  SyncInv'
  BY <1>2, FillTileFits, FailTileFits, ReceiveTileFits, PutStringsFits, PutTileFits,
     DeliverTileFits
<1>3. ASSUME NEW h \in Streams, OpenStream(h) \/ ReadMessage(h)
      PROVE  SyncInv'
  BY <1>3, OpenStreamFits, ReadMessageFits
<1>4. ASSUME NEW h \in Streams, NEW t \in stored, ServeStored(h, t)
      PROVE  SyncInv'
  BY <1>4, ServeStoredFits
<1>5. ASSUME RestartService \/ RestartBoth PROVE SyncInv'
  BY <1>5, RestartServiceFits, RestartBothFits
<1>6. CASE UNCHANGED vars
  BY <1>6 DEF vars, serviceVars, clientVars, SyncInv, SyncTypeOK, Fits, CopiesFit, WorkerFits,
              StreamFits, StoredTilesAreReadable
<1> QED
  BY <1>1, <1>2, <1>3, <1>4, <1>5, <1>6 DEF Next

----------------------------------------------------------------------------
(* Theorems                                                                *)

\* Each node of the data source has one full pool, of which the pools of the
\* cache, the database and the client are lower parts, and no message leaves a
\* gap in the pool of its reader (stream.cpp, datasource-client.cpp, cache.cpp).
THEOREM SyncInvariant == Spec => []SyncInv
<1>1. Init => SyncInv
  BY InitFits
<1>2. SyncInv /\ [Next]_vars => SyncInv'
  BY StepFits
<1> QED
  BY <1>1, <1>2, PTL DEF Spec

\* A worker that received a tile and a client whose next message is one have every
\* string it uses, under the ids it uses (Reader::continueReading).
THEOREM ReadersHaveTheStrings == Spec => []ReceivedTilesAreReadable
<1>1. SyncInv => ReceivedTilesAreReadable
  BY FitsIsEnough
<1> QED
  BY <1>1, SyncInvariant, PTL

\* Every tile in the database can be read with the pool stored there, whenever the
\* service crashes (Cache::putTileLayer stores the strings first).
THEOREM DatabaseHasTheStrings == Spec => []StoredTilesAreReadable
<1>1. SyncInv => StoredTilesAreReadable
  BY FitsIsEnough
<1> QED
  BY <1>1, SyncInvariant, PTL

\* No copy of a pool has a gap or differs from the source's, so the one offset that
\* is told of it says which strings it has (stringPoolOffsets).
THEOREM OffsetsSayWhatIsKnown == Spec => []OffsetsTell
<1>1. SyncInv => OffsetsTell
  BY FitsIsEnough
<1> QED
  BY <1>1, SyncInvariant, PTL
=============================================================================
