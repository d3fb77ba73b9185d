------------------------- MODULE HttpTilesStreamProofs -------------------------
(***************************************************************************)
(* TLAPS proofs about the /tiles streams of HttpTilesStream: what          *)
(* addResult is given reaches a client that still listens, whole and once, *)
(* and the tiles of a request are taken for a client that reads them.      *)
(***************************************************************************)
EXTENDS HttpTilesStreamProps, FiniteSetTheorems, SequenceTheorems, TLAPS

Items == (Requests \X Nat) \cup {End}

StreamTypeOK ==
  /\ handler \in [Streams -> {"idle", "accepted", "rejected", "streaming", "closed",
                              "cleanup", "abandoned"}]
  /\ provider \in [Streams -> {"called", "check", "parking", "waiting", "writing"}]
  /\ connected \in [Streams -> BOOLEAN]
  /\ buffer \in [Streams -> Seq(Items)]
  /\ wire \in [Streams -> Seq(Items)]
  /\ todo \in [Streams -> SUBSET Requests]
  /\ listed \subseteq Requests
  /\ taken \in [Requests -> Nat]
  /\ inHand \in [Requests -> SUBSET Nat]
  /\ resultCount \in [Requests -> Nat]
  /\ status \in [Requests -> {"Open", "Success", "Aborted"}]
  /\ handing = Free \/ handing \in [at : {"notify", "count"}, request : Requests]
  /\ clientMap \in [Clients -> Streams \cup {NoStream}]
  /\ \/ sweep = Free
     \/ sweep \in [at : {"abort"}, client : Clients, next : Streams \cup {NoStream},
                   todo : SUBSET Requests]

\* The result of r that is written but not counted.
Pending(r) == IF handing.at = "count" /\ handing.request = r THEN 1 ELSE 0

\* Every tile taken is in the hands of a worker, written, or counted; a request
\* that is listed has tiles left, a success none, and an aborted one never gets
\* to its last: so no late result turns it into a success.
RequestInv(r) ==
  /\ taken[r] <= Size[r]
  /\ inHand[r] \subseteq 1 .. taken[r]
  /\ resultCount[r] + Pending(r) + Cardinality(inHand[r]) = taken[r]
  /\ r \in listed => /\ status[r] = "Open" /\ taken[r] < Size[r]
                     /\ handler[StreamOf[r]] # "idle"
  /\ status[r] = "Open" => Size[r] > 0
  /\ status[r] = "Success" => resultCount[r] = Size[r]
  /\ status[r] = "Aborted" => taken[r] < Size[r]
  /\ handler[StreamOf[r]] = "idle" => taken[r] = 0

Elements(s) == {s[i] : i \in DOMAIN s}
Buffered(h) == Elements(buffer[h])

\* The tiles of the stream that were taken and are in no worker's hands.
HandedIn(h) ==
  UNION {{Tile(r, p) : p \in (1 .. taken[r]) \ inHand[r]} : r \in RequestsOf(h)}

\* While the stream lives, wire and buffer hold what was handed in, each tile
\* once; EndOfStream is the last item of a buffer that is being written, and then
\* all requests are done.
LiveInv(h) ==
  /\ HandedIn(h) \subseteq Sent(h) \cup Buffered(h)
  /\ Sent(h) \subseteq HandedIn(h)
  /\ Buffered(h) \subseteq HandedIn(h) \cup {End}
  /\ IsInjective(wire[h]) /\ IsInjective(buffer[h])
  /\ Sent(h) \cap Buffered(h) = {}
  /\ End \in Buffered(h) => /\ provider[h] = "writing" /\ AllDone(h)
                            /\ Last(buffer[h]) = End

ClosedInv(h) ==
  /\ AllDone(h)
  /\ Last(wire[h]) = End
  /\ IsInjective(wire[h])
  /\ \A r \in RequestsOf(h) : status[r] = "Success" => TilesOf(r) \subseteq Sent(h)

StreamInv(h) ==
  /\ handler[h] \in {"idle", "accepted", "streaming"} => LiveInv(h)
  /\ handler[h] = "closed" => ClosedInv(h)
  /\ provider[h] # "called" => handler[h] = "streaming"
  /\ provider[h] = "writing" => buffer[h] # <<>>
  /\ provider[h] \in {"parking", "waiting"} => buffer[h] = <<>>
  /\ handler[h] = "cleanup" => RequestsOf(h) \cap listed \subseteq todo[h]
  /\ handler[h] = "abandoned" => RequestsOf(h) \cap listed = {}
  /\ handler[h] = "accepted" => ClientOf[h] # NoClient

\* A stream in the map has started; the requests of the one that is about to be
\* replaced are aborted, or still in the sweep.
ClientInv ==
  /\ OneStreamPerClient
  /\ \A k \in Clients : clientMap[k] # NoStream =>
       /\ ClientOf[clientMap[k]] = k
       /\ handler[clientMap[k]] \notin {"idle", "accepted", "rejected"}
  /\ sweep # Free =>
       /\ clientMap[sweep.client] # NoStream =>
            RequestsOf(clientMap[sweep.client]) \cap listed \subseteq sweep.todo
       /\ sweep.next # NoStream =>
            ClientOf[sweep.next] = sweep.client /\ handler[sweep.next] = "accepted"

HttpInv ==
  /\ StreamTypeOK
  /\ \A r \in Requests : RequestInv(r)
  /\ \A h \in Streams : StreamInv(h)
  /\ ClientInv

(***************************************************************************)
(* Buffers                                                                 *)
(***************************************************************************)
LEMMA AppendNew ==
  ASSUME NEW S, NEW s \in Seq(S), NEW x \in S
  PROVE  /\ Append(s, x) \in Seq(S)
         /\ Append(s, x) # <<>>
         /\ Elements(Append(s, x)) = Elements(s) \cup {x}
         /\ Last(Append(s, x)) = x
         /\ IsInjective(s) /\ x \notin Elements(s) => IsInjective(Append(s, x))
<1>1. /\ Append(s, x) \in Seq(S) /\ Len(Append(s, x)) = Len(s) + 1
      /\ \A i \in 1 .. Len(s) : Append(s, x)[i] = s[i]
      /\ Append(s, x)[Len(s) + 1] = x
      /\ Len(s) \in Nat /\ DOMAIN s = 1 .. Len(s)
      /\ DOMAIN Append(s, x) = 1 .. (Len(s) + 1)
  BY AppendProperties, LenProperties
<1>2. Elements(Append(s, x)) = Elements(s) \cup {x}
  <2>1. ASSUME NEW y \in Elements(Append(s, x)) PROVE y \in Elements(s) \cup {x}
    BY <1>1, <2>1 DEF Elements
  <2>2. ASSUME NEW y \in Elements(s) PROVE y \in Elements(Append(s, x))
    <3>1. PICK i \in DOMAIN s : y = s[i]
      BY <2>2 DEF Elements
    <3>2. i \in DOMAIN Append(s, x) /\ Append(s, x)[i] = y
      BY <1>1, <3>1
    <3> QED BY <3>2 DEF Elements
  <2>3. x \in Elements(Append(s, x))
    <3>1. Len(s) + 1 \in DOMAIN Append(s, x)
      BY <1>1
    <3> QED BY <1>1, <3>1 DEF Elements
  <2> QED BY <2>1, <2>2, <2>3
<1>3. IsInjective(s) /\ x \notin Elements(s) => IsInjective(Append(s, x))
  BY <1>1 DEF Elements, IsInjective
<1> QED BY <1>1, <1>2, <1>3 DEF Last

LEMMA ConcatDisjoint ==
  ASSUME NEW S, NEW s \in Seq(S), NEW t \in Seq(S)
  PROVE  /\ s \o t \in Seq(S)
         /\ Elements(s \o t) = Elements(s) \cup Elements(t)
         /\ t # <<>> => Last(s \o t) = Last(t)
         /\ IsInjective(s) /\ IsInjective(t) /\ Elements(s) \cap Elements(t) = {}
              => IsInjective(s \o t)
<1>1. /\ s \o t \in Seq(S) /\ Len(s \o t) = Len(s) + Len(t)
      /\ \A i \in 1 .. (Len(s) + Len(t)) :
           (s \o t)[i] = IF i <= Len(s) THEN s[i] ELSE t[i - Len(s)]
      /\ Len(s) \in Nat /\ Len(t) \in Nat
      /\ DOMAIN s = 1 .. Len(s) /\ DOMAIN t = 1 .. Len(t)
      /\ DOMAIN (s \o t) = 1 .. (Len(s) + Len(t))
      /\ t # <<>> => Len(t) > 0
  BY ConcatProperties, LenProperties, EmptySeq
<1>2. /\ \A i \in DOMAIN s : i \in DOMAIN (s \o t) /\ (s \o t)[i] = s[i]
      /\ \A j \in DOMAIN t : Len(s) + j \in DOMAIN (s \o t) /\ (s \o t)[Len(s) + j] = t[j]
  BY <1>1
<1>3. \A i \in DOMAIN (s \o t) : \/ i \in DOMAIN s /\ (s \o t)[i] = s[i]
                                 \/ \E j \in DOMAIN t : i = Len(s) + j /\ (s \o t)[i] = t[j]
  <2> SUFFICES ASSUME NEW i \in DOMAIN (s \o t), i \notin DOMAIN s
               PROVE  \E j \in DOMAIN t : i = Len(s) + j /\ (s \o t)[i] = t[j]
    BY <1>2
  <2>1. i - Len(s) \in DOMAIN t /\ i = Len(s) + (i - Len(s)) /\ (s \o t)[i] = t[i - Len(s)]
    BY <1>1
  <2> QED BY <2>1
<1>4. Elements(s \o t) = Elements(s) \cup Elements(t)
  <2>1. ASSUME NEW y \in Elements(s \o t) PROVE y \in Elements(s) \cup Elements(t)
    BY <1>3, <2>1 DEF Elements
  <2>2. ASSUME NEW y \in Elements(s) \cup Elements(t) PROVE y \in Elements(s \o t)
    BY <1>2, <2>2 DEF Elements
  <2> QED BY <2>1, <2>2
<1>5. t # <<>> => Last(s \o t) = Last(t)
  BY <1>1 DEF Last
<1>6. ASSUME IsInjective(s), IsInjective(t), Elements(s) \cap Elements(t) = {}
      PROVE  IsInjective(s \o t)
  <2> SUFFICES ASSUME NEW a \in DOMAIN (s \o t), NEW b \in DOMAIN (s \o t),
                      (s \o t)[a] = (s \o t)[b]
               PROVE  a = b
    BY DEF IsInjective
  <2>1. CASE a \in DOMAIN s /\ (s \o t)[a] = s[a]
    <3>1. s[a] \notin Elements(t)
      BY <1>6, <2>1 DEF Elements
    <3>2. b \in DOMAIN s /\ (s \o t)[b] = s[b]
      BY <1>3, <2>1, <3>1 DEF Elements
    <3> QED BY <1>6, <2>1, <3>2 DEF IsInjective
  <2>2. CASE \E j \in DOMAIN t : a = Len(s) + j /\ (s \o t)[a] = t[j]
    <3>1. PICK j \in DOMAIN t : a = Len(s) + j /\ (s \o t)[a] = t[j]
      BY <2>2
    <3>2. t[j] \notin Elements(s)
      BY <1>6 DEF Elements
    <3>3. \E k \in DOMAIN t : b = Len(s) + k /\ (s \o t)[b] = t[k]
      BY <1>3, <3>1, <3>2 DEF Elements
    <3> QED BY <1>6, <3>1, <3>3 DEF IsInjective
  <2> QED BY <1>3, <2>1, <2>2
<1> QED BY <1>1, <1>4, <1>5, <1>6

\* EndOfStream is no tile.
LEMMA EndIsNoTile == ASSUME NEW r, NEW p PROVE Tile(r, p) # End
BY DEF Tile, End

LEMMA HandedInTiles ==
  ASSUME NEW h
  PROVE  /\ \A x : x \in HandedIn(h) <=> \E r \in RequestsOf(h) :
              \E p \in (1 .. taken[r]) \ inHand[r] : x = Tile(r, p)
         /\ End \notin HandedIn(h)
BY EndIsNoTile DEF HandedIn
(***************************************************************************)
(* Requests                                                                *)
(***************************************************************************)
LEMMA UpTo ==
  ASSUME NEW n \in Nat
  PROVE  IsFiniteSet(1 .. n) /\ Cardinality(1 .. n) = n
<1>1. IsFiniteSet(1 .. n) /\ Cardinality(1 .. n) = IF 1 > n THEN 0 ELSE n - 1 + 1
  BY FS_Interval
<1> QED BY <1>1

LEMMA RequestFacts ==
  ASSUME StreamTypeOK, NEW r \in Requests, RequestInv(r)
  PROVE  /\ Size[r] \in Nat /\ taken[r] \in Nat /\ resultCount[r] \in Nat
         /\ StreamOf[r] \in Streams /\ Pending(r) \in {0, 1}
         /\ IsFiniteSet(inHand[r]) /\ Cardinality(inHand[r]) \in Nat
<1>1. /\ Size[r] \in Nat /\ taken[r] \in Nat /\ resultCount[r] \in Nat
      /\ StreamOf[r] \in Streams /\ Pending(r) \in {0, 1}
  BY StreamAssumption DEF StreamTypeOK, Pending, StreamAssumption
<1>2. IsFiniteSet(1 .. taken[r]) /\ inHand[r] \subseteq 1 .. taken[r]
  BY <1>1, UpTo DEF RequestInv
<1>3. IsFiniteSet(inHand[r])
  BY <1>2, FS_Subset
<1> QED BY <1>1, <1>3, FS_CardinalityType

\* A success has been handed in completely.
LEMMA SuccessIsHandedIn ==
  ASSUME StreamTypeOK, NEW r \in Requests, RequestInv(r), status[r] = "Success"
  PROVE  taken[r] = Size[r] /\ inHand[r] = {}
<1>1. resultCount[r] = Size[r] /\ taken[r] <= Size[r]
      /\ resultCount[r] + Pending(r) + Cardinality(inHand[r]) = taken[r]
  BY DEF RequestInv
<1>2. taken[r] = Size[r] /\ Cardinality(inHand[r]) = 0
  BY <1>1, RequestFacts
<1> QED BY <1>2, RequestFacts, FS_EmptySet

LEMMA RequestsUntouched ==
  ASSUME NEW r \in Requests, RequestInv(r), Pending(r)' = Pending(r),
         UNCHANGED <<taken, inHand, resultCount, status>>, listed' \subseteq listed,
         handler'[StreamOf[r]] = "idle" <=> handler[StreamOf[r]] = "idle"
  PROVE  RequestInv(r)'
BY DEF RequestInv

LEMMA AbortKeepsRequests ==
  ASSUME StreamTypeOK, NEW r \in Requests, Abort(r), NEW q \in Requests, RequestInv(q),
         handler'[StreamOf[q]] = "idle" <=> handler[StreamOf[q]] = "idle"
  PROVE  RequestInv(q)' /\ (status'[q] = status[q] \/ status[q] = "Open")
<1>1. handing = Free /\ UNCHANGED <<taken, inHand, resultCount>>
  BY DEF Abort
<1>2. Pending(q)' = 0 /\ Pending(q) = 0
  BY <1>1 DEF Abort, Notifying, Free, Pending
<1>3. CASE r \notin listed
  <2>1. UNCHANGED <<status, listed>>
    BY <1>3 DEF Abort
  <2> QED BY <1>1, <1>2, <2>1, RequestsUntouched
<1>4. CASE r \in listed
  <2>1. listed' = listed \ {r} /\ status' = [status EXCEPT ![r] = "Aborted"]
    BY <1>4 DEF Abort
  <2>2. CASE q = r
    <3>1. status[q] = "Open" /\ taken[q] < Size[q] /\ status'[q] = "Aborted" /\ q \notin listed'
      BY <1>4, <2>1, <2>2 DEF RequestInv, StreamTypeOK
    <3> QED BY <1>1, <1>2, <3>1 DEF RequestInv
  <2>3. CASE q # r
    <3>1. status'[q] = status[q] /\ (q \in listed' <=> q \in listed)
      BY <2>1, <2>3 DEF StreamTypeOK
    <3> QED BY <1>1, <1>2, <3>1 DEF RequestInv
  <2> QED BY <2>2, <2>3
<1> QED BY <1>3, <1>4

LEMMA TakeTileKeepsRequests ==
  ASSUME StreamTypeOK, NEW r \in Requests, TakeTile(r), NEW q \in Requests, RequestInv(q)
  PROVE  RequestInv(q)'
<1>1. /\ handing' = handing /\ handler' = handler /\ resultCount' = resultCount
      /\ status' = status /\ listed' \subseteq listed
      /\ r \in listed
      /\ taken' = [taken EXCEPT ![r] = taken[r] + 1]
      /\ inHand' = [inHand EXCEPT ![r] = inHand[r] \cup {taken[r] + 1}]
      /\ taken[r] + 1 = Size[r] => listed' = listed \ {r}
  BY DEF TakeTile, streamVars
<1>2. Pending(q)' = Pending(q)
  BY <1>1 DEF Pending
<1>3. CASE q # r
  <2>1. taken'[q] = taken[q] /\ inHand'[q] = inHand[q] /\ (q \in listed' => q \in listed)
    BY <1>1, <1>3 DEF StreamTypeOK
  <2> QED BY <1>1, <1>2, <2>1 DEF RequestInv
<1>4. CASE q = r
  <2>1. taken'[q] = taken[q] + 1 /\ inHand'[q] = inHand[q] \cup {taken[q] + 1}
    BY <1>1, <1>4 DEF StreamTypeOK
  <2>2. /\ status[q] = "Open" /\ taken[q] < Size[q] /\ handler[StreamOf[q]] # "idle"
        /\ inHand[q] \subseteq 1 .. taken[q] /\ taken[q] \in Nat /\ Size[q] \in Nat
        /\ Size[q] > 0 /\ IsFiniteSet(inHand[q]) /\ Cardinality(inHand[q]) \in Nat
        /\ resultCount[q] \in Nat /\ Pending(q) \in {0, 1}
        /\ resultCount[q] + Pending(q) + Cardinality(inHand[q]) = taken[q]
    BY <1>1, <1>4, RequestFacts DEF RequestInv
  <2>3. Cardinality(inHand'[q]) = Cardinality(inHand[q]) + 1
    <3>1. taken[q] + 1 \notin inHand[q]
      BY <2>2
    <3> QED BY <2>1, <2>2, <3>1, FS_AddElement, ZenonT(30)
  <2>4. inHand'[q] \subseteq 1 .. taken'[q]
    BY <2>1, <2>2
  <2>5. resultCount[q] + Pending(q) + Cardinality(inHand'[q]) = taken'[q]
    BY <2>1, <2>2, <2>3
  <2>6. q \in listed' => taken'[q] < Size[q]
    BY <1>1, <1>4, <2>1, <2>2
  <2>7. /\ taken'[q] <= Size[q] /\ status'[q] = "Open" /\ handler'[StreamOf[q]] # "idle"
        /\ resultCount'[q] + Pending(q)' + Cardinality(inHand'[q]) = taken'[q]
    BY <1>1, <1>2, <2>1, <2>2, <2>5
  <2> QED BY <2>2, <2>4, <2>6, <2>7 DEF RequestInv
<1> QED BY <1>3, <1>4

LEMMA AddResultKeepsRequests ==
  ASSUME StreamTypeOK, NEW r \in Requests, NEW p \in Nat, AddResult(r, p),
         NEW q \in Requests, RequestInv(q)
  PROVE  RequestInv(q)'
<1>1. /\ handing = Free /\ handing' = [at |-> "count", request |-> r]
      /\ UNCHANGED <<listed, taken, resultCount, status, handler>>
      /\ p \in inHand[r]
      /\ inHand' = [inHand EXCEPT ![r] = inHand[r] \ {p}]
  BY DEF AddResult
<1>2. Pending(q) = 0 /\ Pending(q)' = IF q = r THEN 1 ELSE 0
  BY <1>1 DEF Pending, Free
<1>3. CASE q # r
  <2>1. inHand'[q] = inHand[q]
    BY <1>1, <1>3 DEF StreamTypeOK
  <2> QED BY <1>1, <1>2, <1>3, <2>1 DEF RequestInv
<1>4. CASE q = r
  <2>1. inHand'[q] = inHand[q] \ {p} /\ Pending(q)' = 1
    BY <1>1, <1>2, <1>4 DEF StreamTypeOK
  <2>2. Cardinality(inHand'[q]) = Cardinality(inHand[q]) - 1
    BY <1>1, <1>4, <2>1, RequestFacts, FS_RemoveElement
  <2>3. resultCount[q] + Pending(q)' + Cardinality(inHand'[q]) = taken[q]
    <3>1. resultCount[q] + 0 + Cardinality(inHand[q]) = taken[q]
      BY <1>2 DEF RequestInv
    <3> QED BY <2>1, <2>2, <3>1, RequestFacts
  <2> QED BY <1>1, <2>1, <2>3 DEF RequestInv
<1> QED BY <1>3, <1>4

LEMMA CountResultKeepsRequests ==
  ASSUME StreamTypeOK, CountResult, NEW q \in Requests, RequestInv(q)
  PROVE  RequestInv(q)' /\ (status'[q] = status[q] \/ status[q] = "Open")
<1>1. PICK r \in Requests : handing.request = r
  BY DEF CountResult, StreamTypeOK, Free
<1>2. /\ handing.at = "count" /\ UNCHANGED <<listed, taken, inHand, handler>>
      /\ resultCount' = [resultCount EXCEPT ![r] = resultCount[r] + 1]
      /\ \/ /\ resultCount[r] + 1 = Size[r]
            /\ status' = [status EXCEPT ![r] = "Success"]
            /\ handing' = Notifying(r)
         \/ resultCount[r] + 1 # Size[r] /\ handing' = Free /\ status' = status
  BY <1>1 DEF CountResult, streamVars
<1>3. Pending(q)' = 0 /\ Pending(q) = IF q = r THEN 1 ELSE 0
  BY <1>1, <1>2 DEF Pending, Notifying, Free
<1>4. CASE q # r
  <2>1. resultCount'[q] = resultCount[q] /\ status'[q] = status[q]
    BY <1>2, <1>4 DEF StreamTypeOK
  <2> QED BY <1>2, <1>3, <1>4, <2>1 DEF RequestInv
<1>5. CASE q = r
  <2>1. resultCount'[q] = resultCount[q] + 1
    BY <1>2, <1>5 DEF StreamTypeOK
  <2>2. /\ taken[q] \in Nat /\ Size[q] \in Nat /\ resultCount[q] \in Nat
        /\ Cardinality(inHand[q]) \in Nat /\ taken[q] <= Size[q]
        /\ resultCount[q] + 1 + Cardinality(inHand[q]) = taken[q]
    BY <1>3, <1>5, RequestFacts DEF RequestInv
  <2>3. resultCount'[q] + Pending(q)' + Cardinality(inHand'[q]) = taken'[q]
    BY <1>2, <1>3, <2>1, <2>2
  <2>4. status[q] # "Success"
    BY <2>2 DEF RequestInv
  <2>5. CASE resultCount[q] + 1 # Size[q] /\ status' = status
    BY <1>2, <2>1, <2>3, <2>4, <2>5 DEF RequestInv
  <2>6. CASE resultCount[q] + 1 = Size[q] /\ status' = [status EXCEPT ![r] = "Success"]
    <3>1. status'[q] = "Success"
      BY <1>5, <2>6 DEF StreamTypeOK
    <3>2. taken[q] = Size[q]
      BY <2>2, <2>6
    <3>3. status[q] = "Open" /\ q \notin listed
      BY <2>2, <2>4, <3>2 DEF RequestInv, StreamTypeOK
    <3> QED BY <1>2, <2>1, <2>3, <2>6, <3>1, <3>3 DEF RequestInv
  <2> QED BY <1>2, <1>5, <2>5, <2>6
<1> QED BY <1>4, <1>5
(***************************************************************************)
(* Streams                                                                 *)
(***************************************************************************)
\* What no step does to a stream it does not touch.
LEMMA StreamUntouched ==
  ASSUME NEW h \in Streams, StreamInv(h),
         handler'[h] = handler[h], provider'[h] = provider[h],
         buffer'[h] = buffer[h], wire'[h] = wire[h],
         RequestsOf(h) \cap listed' \subseteq listed,
         handler[h] = "cleanup" => RequestsOf(h) \cap listed' \subseteq todo'[h],
         \A r \in RequestsOf(h) :
           /\ taken'[r] = taken[r] /\ inHand'[r] = inHand[r]
           /\ status'[r] = status[r] \/ status[r] = "Open"
  PROVE  StreamInv(h)'
<1>1. HandedIn(h)' = HandedIn(h)
  <2>1. \A x : x \in HandedIn(h)' <=> \E r \in RequestsOf(h) :
                 \E p \in (1 .. taken'[r]) \ inHand'[r] : x = Tile(r, p)
    BY DEF HandedIn, RequestsOf, Tile
  <2>2. \A x : x \in HandedIn(h)' <=> x \in HandedIn(h)
    BY <2>1, HandedInTiles
  <2> QED BY <2>2
<1>2. Sent(h)' = Sent(h) /\ Buffered(h)' = Buffered(h)
  BY DEF Sent, Buffered, Elements
<1>3. RequestsOf(h)' = RequestsOf(h)
  BY DEF RequestsOf
<1>4. AllDone(h) => /\ AllDone(h)'
                    /\ \A r \in RequestsOf(h) : status'[r] = status[r]
  BY <1>3 DEF AllDone, IsDone
<1>5. LiveInv(h) => LiveInv(h)'
  BY <1>1, <1>2, <1>4 DEF LiveInv
<1>6. ClosedInv(h) => ClosedInv(h)'
  BY <1>2, <1>3, <1>4 DEF ClosedInv, TilesOf, Tile
<1>7. handler[h] = "abandoned" => RequestsOf(h) \cap listed' = {}
  BY DEF StreamInv
<1> QED BY <1>3, <1>5, <1>6, <1>7 DEF StreamInv

LEMMA CheckBufferKeepsStream ==
  ASSUME StreamTypeOK, NEW h \in Streams, CheckBuffer(h), StreamInv(h)
  PROVE  StreamInv(h)'
<1>1. /\ UNCHANGED <<handler, wire, todo, listed, taken, inHand, status>>
      /\ handler[h] = "streaming" /\ provider[h] \in {"check", "called"}
  BY DEF CheckBuffer, serviceVars
<1>2. PICK data : /\ data = IF AllDone(h) THEN Append(buffer[h], End) ELSE buffer[h]
                  /\ buffer' = [buffer EXCEPT ![h] = data]
                  /\ provider' = [provider EXCEPT ![h] = IF data = <<>> THEN "parking" ELSE "writing"]
  BY DEF CheckBuffer
<1>3. /\ buffer'[h] = data
      /\ data = <<>> => provider'[h] = "parking"
      /\ data # <<>> => provider'[h] = "writing"
      /\ buffer[h] \in Seq(Items) /\ End \in Items
  BY <1>2 DEF StreamTypeOK, Items
<1>4. LiveInv(h)
  BY <1>1 DEF StreamInv
<1>5. /\ HandedIn(h)' = HandedIn(h) /\ Sent(h)' = Sent(h) /\ (AllDone(h)' <=> AllDone(h))
      /\ End \notin Buffered(h)
  <2>1. End \notin Buffered(h)
    BY <1>1, <1>4 DEF LiveInv
  <2> QED BY <1>1, <2>1 DEF HandedIn, Sent, AllDone, IsDone, RequestsOf, Tile
<1>6. LiveInv(h)'
  <2>1. CASE ~AllDone(h)
    <3>1. buffer'[h] = buffer[h]
      BY <1>2, <1>3, <2>1
    <3>2. Buffered(h)' = Buffered(h)
      BY <3>1 DEF Buffered, Elements
    <3> QED BY <1>1, <1>4, <1>5, <3>1, <3>2 DEF LiveInv
  <2>2. CASE AllDone(h)
    <3>1. data = Append(buffer[h], End)
      BY <1>2, <2>2
    <3>2. /\ data # <<>> /\ Elements(data) = Elements(buffer[h]) \cup {End} /\ Last(data) = End
          /\ IsInjective(buffer[h]) /\ End \notin Elements(buffer[h]) => IsInjective(data)
      BY <1>3, <3>1, AppendNew
    <3>3. Buffered(h)' = Buffered(h) \cup {End} /\ provider'[h] = "writing" /\ Last(buffer'[h]) = End
      BY <1>3, <3>2 DEF Buffered, Elements
    <3>4. IsInjective(buffer'[h])
      BY <1>3, <1>4, <1>5, <3>2 DEF LiveInv, Buffered
    <3>5. End \notin Sent(h)
      BY <1>4, HandedInTiles DEF LiveInv
    <3> QED BY <1>1, <1>4, <1>5, <2>2, <3>3, <3>4, <3>5 DEF LiveInv
  <2> QED BY <2>1, <2>2
<1> QED BY <1>1, <1>3, <1>6 DEF StreamInv

\* What is written reaches the wire, whole and once; with EndOfStream the stream
\* is closed, and all that its successful requests got is there.
LEMMA SendBufferKeepsStream ==
  ASSUME StreamTypeOK, NEW h \in Streams, SendBuffer(h), StreamInv(h),
         \A r \in Requests : RequestInv(r)
  PROVE  StreamInv(h)'
<1>1. /\ provider[h] = "writing" /\ handler[h] = "streaming" /\ buffer[h] # <<>>
      /\ UNCHANGED <<todo, listed, taken, inHand, status>>
      /\ wire'[h] = wire[h] \o buffer[h] /\ buffer'[h] = <<>> /\ provider'[h] = "called"
      /\ Last(buffer[h]) = End => handler'[h] = "closed"
      /\ Last(buffer[h]) # End => handler'[h] = "streaming"
      /\ wire[h] \in Seq(Items) /\ buffer[h] \in Seq(Items)
  BY DEF SendBuffer, Cleared, serviceVars, StreamInv, StreamTypeOK
<1>2. LiveInv(h)
  BY <1>1 DEF StreamInv
<1>3. HandedIn(h)' = HandedIn(h) /\ (AllDone(h)' <=> AllDone(h)) /\ RequestsOf(h)' = RequestsOf(h)
  BY <1>1 DEF HandedIn, AllDone, IsDone, RequestsOf, Tile
<1>4. /\ Sent(h)' = Sent(h) \cup Buffered(h) /\ IsInjective(wire'[h])
      /\ Last(wire'[h]) = Last(buffer[h])
  <2>1. /\ Elements(wire[h] \o buffer[h]) = Elements(wire[h]) \cup Elements(buffer[h])
        /\ Last(wire[h] \o buffer[h]) = Last(buffer[h])
        /\ (IsInjective(wire[h]) /\ IsInjective(buffer[h])
            /\ Elements(wire[h]) \cap Elements(buffer[h]) = {}) => IsInjective(wire[h] \o buffer[h])
    BY <1>1, ConcatDisjoint
  <2>2. Sent(h) = Elements(wire[h]) /\ Sent(h)' = Elements(wire'[h]) /\ Buffered(h) = Elements(buffer[h])
    BY DEF Sent, Elements, Buffered
  <2> QED BY <1>1, <1>2, <2>1, <2>2 DEF LiveInv
<1>5. CASE Last(buffer[h]) = End
  <2>1. End \in Buffered(h)
    <3>1. Len(buffer[h]) \in DOMAIN buffer[h]
      BY <1>1, LenProperties, EmptySeq
    <3> QED BY <1>5, <3>1 DEF Buffered, Elements, Last
  <2>2. AllDone(h)'
    BY <1>2, <1>3, <2>1 DEF LiveInv
  <2>3. ASSUME NEW r \in RequestsOf(h), status[r] = "Success"
        PROVE  TilesOf(r) \subseteq Sent(h)'
    <3>1. r \in Requests /\ taken[r] = Size[r] /\ inHand[r] = {}
      BY <2>3, SuccessIsHandedIn DEF RequestsOf
    <3>2. \A p \in 1 .. Size[r] : Tile(r, p) \in HandedIn(h)
      BY <3>1, HandedInTiles
    <3> QED BY <1>2, <1>4, <3>2 DEF LiveInv, TilesOf
  <2>4. ClosedInv(h)'
    BY <1>1, <1>3, <1>4, <1>5, <2>2, <2>3 DEF ClosedInv, TilesOf, Tile
  <2> QED BY <1>1, <1>5, <2>4 DEF StreamInv
<1>6. CASE Last(buffer[h]) # End
  <2>1. End \notin Buffered(h)
    BY <1>2, <1>6 DEF LiveInv
  <2>2. Buffered(h)' = {} /\ IsInjective(buffer'[h])
    BY <1>1 DEF Buffered, Elements, IsInjective
  <2>3. LiveInv(h)'
    BY <1>2, <1>3, <1>4, <2>1, <2>2 DEF LiveInv
  <2> QED BY <1>1, <1>6, <2>3 DEF StreamInv
<1> QED BY <1>5, <1>6
\* The result of a worker is a new tile of its stream, which a blocked provider
\* is woken for.
LEMMA AddResultKeepsStreams ==
  ASSUME StreamTypeOK, NEW r \in Requests, NEW p \in Nat, AddResult(r, p),
         NEW g \in Streams, StreamInv(g), \A q \in Requests : RequestInv(q)
  PROVE  StreamInv(g)'
<1> DEFINE h == StreamOf[r]
<1>1. /\ UNCHANGED <<handler, wire, todo, listed, taken, status>>
      /\ p \in inHand[r] /\ h \in Streams /\ r \in RequestsOf(h)
      /\ provider[h] \notin {"parking", "writing"}
      /\ inHand' = [inHand EXCEPT ![r] = inHand[r] \ {p}]
      /\ buffer' = [buffer EXCEPT ![h] = Append(buffer[h], Tile(r, p))]
      /\ provider' = IF provider[h] = "waiting" THEN [provider EXCEPT ![h] = "check"]
                     ELSE provider
      /\ p \in 1 .. taken[r]
  BY StreamAssumption DEF AddResult, BufferFree, Woken, RequestsOf, StreamAssumption, RequestInv
<1>2. /\ inHand'[r] = inHand[r] \ {p} /\ \A q \in Requests \ {r} : inHand'[q] = inHand[q]
      /\ buffer'[h] = Append(buffer[h], Tile(r, p))
      /\ buffer[h] \in Seq(Items) /\ Tile(r, p) \in Items
      /\ provider'[h] = IF provider[h] = "waiting" THEN "check" ELSE provider[h]
      /\ provider'[h] \notin {"parking", "waiting", "writing"}
  BY <1>1 DEF StreamTypeOK, Items, Tile
<1>3. CASE g # h
  <2>1. buffer'[g] = buffer[g] /\ provider'[g] = provider[g] /\ \A q \in RequestsOf(g) : q # r
    BY <1>1, <1>3 DEF StreamTypeOK, RequestsOf
  <2>2. \A q \in RequestsOf(g) : q \in Requests /\ inHand'[q] = inHand[q]
    BY <1>2, <2>1 DEF RequestsOf
  <2>3. handler[g] = "cleanup" => RequestsOf(g) \cap listed \subseteq todo[g]
    BY DEF StreamInv
  <2> QED BY <1>1, <2>1, <2>2, <2>3, StreamUntouched
<1>4. CASE g = h
  <2>1. /\ Elements(buffer'[h]) = Elements(buffer[h]) \cup {Tile(r, p)}
        /\ IsInjective(buffer[h]) /\ Tile(r, p) \notin Elements(buffer[h]) => IsInjective(buffer'[h])
    BY <1>2, AppendNew
  <2>2. Buffered(h)' = Buffered(h) \cup {Tile(r, p)}
    BY <2>1 DEF Buffered, Elements
  <2>3. Sent(h)' = Sent(h) /\ (AllDone(h)' <=> AllDone(h)) /\ RequestsOf(h)' = RequestsOf(h)
    BY <1>1 DEF Sent, AllDone, IsDone, RequestsOf
  <2>4. Tile(r, p) \notin HandedIn(h) /\ HandedIn(h)' = HandedIn(h) \cup {Tile(r, p)}
    <3>1. Tile(r, p) \notin HandedIn(h)
      BY <1>1, HandedInTiles DEF Tile
    <3>2. \A x : x \in HandedIn(h)' <=> \E q \in RequestsOf(h) :
                   \E n \in (1 .. taken[q]) \ inHand'[q] : x = Tile(q, n)
      BY <1>1 DEF HandedIn, RequestsOf, Tile
    <3>3. ASSUME NEW x \in HandedIn(h)' PROVE x \in HandedIn(h) \cup {Tile(r, p)}
      <4>1. PICK q \in RequestsOf(h) : \E n \in (1 .. taken[q]) \ inHand'[q] : x = Tile(q, n)
        BY <3>2
      <4>2. q \in Requests
        BY DEF RequestsOf
      <4> QED BY <1>2, <4>1, <4>2, HandedInTiles
    <3>4. ASSUME NEW x \in HandedIn(h) \cup {Tile(r, p)} PROVE x \in HandedIn(h)'
      <4>1. CASE x = Tile(r, p)
        BY <1>1, <1>2, <3>2, <4>1
      <4>2. CASE x \in HandedIn(h)
        <5>1. PICK q \in RequestsOf(h) : \E n \in (1 .. taken[q]) \ inHand[q] : x = Tile(q, n)
          BY <4>2, HandedInTiles
        <5>2. q \in Requests
          BY DEF RequestsOf
        <5> QED BY <1>2, <3>2, <5>1, <5>2
      <4> QED BY <4>1, <4>2
    <3> QED BY <3>1, <3>3, <3>4
  <2>5. LiveInv(h) => LiveInv(h)'
    <3> SUFFICES ASSUME LiveInv(h) PROVE LiveInv(h)'
      OBVIOUS
    <3>1. Tile(r, p) \notin Sent(h) \cup Buffered(h) /\ End \notin Buffered(h)
      BY <1>1, <2>4, EndIsNoTile DEF LiveInv
    <3>2. IsInjective(buffer'[h]) /\ wire'[h] = wire[h]
      BY <1>1, <2>1, <3>1 DEF LiveInv, Buffered
    <3>3. End \notin Buffered(h)'
      BY <2>2, <3>1, EndIsNoTile
    <3> QED BY <2>2, <2>3, <2>4, <3>1, <3>2, <3>3 DEF LiveInv
  <2>6. ClosedInv(h) => ClosedInv(h)'
    BY <1>1, <2>3 DEF ClosedInv, TilesOf, Tile
  <2> QED BY <1>1, <1>2, <1>4, <2>3, <2>5, <2>6 DEF StreamInv
<1> QED BY <1>3, <1>4

LEMMA TakeTileKeepsStreams ==
  ASSUME StreamTypeOK, NEW r \in Requests, TakeTile(r), NEW h \in Streams, StreamInv(h),
         RequestInv(r)
  PROVE  StreamInv(h)'
<1>1. /\ UNCHANGED <<handler, provider, buffer, wire, todo, status>>
      /\ listed' \subseteq listed /\ r \in listed
      /\ taken'[r] = taken[r] + 1 /\ inHand'[r] = inHand[r] \cup {taken[r] + 1}
      /\ \A q \in Requests \ {r} : taken'[q] = taken[q] /\ inHand'[q] = inHand[q]
      /\ taken[r] \in Nat /\ inHand[r] \subseteq 1 .. taken[r] /\ status[r] = "Open"
  BY DEF TakeTile, streamVars, StreamTypeOK, RequestInv
<1>2. (1 .. taken'[r]) \ inHand'[r] = (1 .. taken[r]) \ inHand[r]
  BY <1>1
<1>3. HandedIn(h)' = HandedIn(h)
  <2>1. \A x : x \in HandedIn(h)' <=> \E q \in RequestsOf(h) :
                 \E n \in (1 .. taken'[q]) \ inHand'[q] : x = Tile(q, n)
    BY DEF HandedIn, RequestsOf, Tile
  <2>2. \A q \in RequestsOf(h) :
          (1 .. taken'[q]) \ inHand'[q] = (1 .. taken[q]) \ inHand[q]
    BY <1>1, <1>2 DEF RequestsOf
  <2>3. \A x : x \in HandedIn(h)' <=> x \in HandedIn(h)
    BY <2>1, <2>2, HandedInTiles
  <2> QED BY <2>3
<1>4. Sent(h)' = Sent(h) /\ Buffered(h)' = Buffered(h) /\ (AllDone(h)' <=> AllDone(h))
      /\ RequestsOf(h)' = RequestsOf(h)
  BY <1>1 DEF Sent, Buffered, Elements, AllDone, IsDone, RequestsOf
<1>5. LiveInv(h) => LiveInv(h)'
  BY <1>1, <1>3, <1>4 DEF LiveInv
<1>6. ClosedInv(h) => ClosedInv(h)'
  BY <1>1, <1>4 DEF ClosedInv, TilesOf, Tile
<1> QED BY <1>1, <1>4, <1>5, <1>6 DEF StreamInv

(***************************************************************************)
(* The clients                                                             *)
(***************************************************************************)
LEMMA ClientsUntouched ==
  ASSUME StreamTypeOK, ClientInv, UNCHANGED <<clientMap, sweep>>, listed' \subseteq listed,
         \A h \in Streams :
           \/ handler'[h] = handler[h]
           \/ handler[h] = "idle" /\ handler'[h] = "rejected"
           \/ handler[h] \in {"streaming", "cleanup"}
              /\ handler'[h] \in {"closed", "cleanup", "abandoned"}
  PROVE  ClientInv'
<1>1. \A h : RequestsOf(h)' = RequestsOf(h)
  BY DEF RequestsOf
<1>2. OneStreamPerClient'
  BY <1>1 DEF ClientInv, OneStreamPerClient
<1>3. \A k \in Clients : clientMap[k] # NoStream => clientMap[k] \in Streams
  BY DEF StreamTypeOK
<1>4. sweep # Free => sweep.client \in Clients /\ (sweep.next # NoStream => sweep.next \in Streams)
  BY DEF StreamTypeOK
<1> QED BY <1>1, <1>2, <1>3, <1>4 DEF ClientInv
LEMMA StreamsOfClients ==
  ASSUME StreamTypeOK
  PROVE  /\ \A k \in Clients : clientMap[k] # NoStream => clientMap[k] \in Streams
         /\ sweep # Free => /\ sweep.client \in Clients
                            /\ sweep.next # NoStream => sweep.next \in Streams
                            /\ sweep.todo \subseteq Requests
BY DEF StreamTypeOK

\* A sweep starts with all requests of the stream in the map.
LEMMA StartSweepKeepsClients ==
  ASSUME StreamTypeOK, ClientInv, NEW k \in Clients, NEW next \in Streams \cup {NoStream},
         next # NoStream => ClientOf[next] = k /\ handler[next] = "accepted",
         sweep' = [at |-> "abort", client |-> k, next |-> next,
                   todo |-> IF clientMap[k] = NoStream THEN {}
                            ELSE RequestsOf(clientMap[k])],
         UNCHANGED <<handler, listed, clientMap>>
  PROVE  ClientInv'
<1>1. \A h : RequestsOf(h)' = RequestsOf(h)
  BY DEF RequestsOf
<1>2. OneStreamPerClient'
  BY <1>1 DEF ClientInv, OneStreamPerClient
<1>3. /\ sweep'.client = k /\ sweep'.next = next
      /\ clientMap[k] # NoStream => sweep'.todo = RequestsOf(clientMap[k])
  OBVIOUS
<1> QED BY <1>1, <1>2, <1>3 DEF ClientInv

LEMMA SweepRequestKeepsClients ==
  ASSUME StreamTypeOK, ClientInv, SweepRequest, \A q \in Requests : RequestInv(q)
  PROVE  ClientInv'
<1>1. PICK r \in sweep.todo :
        /\ IF IsDone(r) THEN UNCHANGED serviceVars ELSE Abort(r)
        /\ sweep' = [sweep EXCEPT !.todo = sweep.todo \ {r}]
  BY DEF SweepRequest
<1>2. sweep # Free /\ r \in Requests /\ UNCHANGED <<handler, clientMap>>
  BY StreamsOfClients DEF SweepRequest, streamVars
<1>3. listed' \subseteq listed /\ r \notin listed'
  <2>1. CASE IsDone(r)
    BY <1>1, <1>2, <2>1 DEF serviceVars, IsDone, RequestInv
  <2>2. CASE ~IsDone(r)
    BY <1>1, <2>2 DEF Abort
  <2> QED BY <2>1, <2>2
<1>4. sweep'.client = sweep.client /\ sweep'.next = sweep.next /\ sweep'.todo = sweep.todo \ {r}
  BY <1>1, <1>2 DEF StreamTypeOK
<1>5. \A h : RequestsOf(h)' = RequestsOf(h)
  BY DEF RequestsOf
<1>6. OneStreamPerClient'
  BY <1>2, <1>3, <1>5 DEF ClientInv, OneStreamPerClient
<1> QED BY <1>2, <1>3, <1>4, <1>5, <1>6 DEF ClientInv

\* The stream that was in the map has no tile left to be taken when it leaves it.
LEMMA FinishSweepKeepsClients ==
  ASSUME StreamTypeOK, ClientInv, FinishSweep
  PROVE  ClientInv'
<1> DEFINE k == sweep.client
           next == sweep.next
<1>1. /\ sweep # Free /\ sweep.todo = {} /\ sweep' = Free /\ listed' = listed
      /\ clientMap' = [clientMap EXCEPT ![k] = next]
      /\ handler' = IF next = NoStream THEN handler ELSE [handler EXCEPT ![next] = "streaming"]
  BY DEF FinishSweep, Replaced, serviceVars
<1>2. /\ k \in Clients /\ (next # NoStream => next \in Streams)
      /\ \A j \in Clients : clientMap[j] # NoStream => clientMap[j] \in Streams
  BY <1>1, StreamsOfClients
<1>3. /\ next # NoStream => ClientOf[next] = k /\ handler[next] = "accepted"
      /\ clientMap[k] # NoStream => RequestsOf(clientMap[k]) \cap listed = {}
  BY <1>1 DEF ClientInv
<1>4. /\ clientMap'[k] = next /\ \A j \in Clients \ {k} : clientMap'[j] = clientMap[j]
      /\ \A h \in Streams : h # next => handler'[h] = handler[h]
      /\ next # NoStream => handler'[next] = "streaming"
  BY <1>1, <1>2 DEF StreamTypeOK
<1>5. \A h : RequestsOf(h)' = RequestsOf(h)
  BY DEF RequestsOf
<1>6. OneStreamPerClient'
  <2> SUFFICES ASSUME NEW h \in Streams, ClientOf[h] # NoClient,
                      handler'[h] \in {"streaming", "cleanup"},
                      RequestsOf(h) \cap listed # {}
               PROVE  clientMap'[ClientOf[h]] = h
    BY <1>1, <1>5 DEF OneStreamPerClient
  <2>1. CASE h = next
    BY <1>3, <1>4, <2>1, NoStreamAssumption DEF NoStreamAssumption
  <2>2. CASE h # next
    <3>1. clientMap[ClientOf[h]] = h /\ ClientOf[h] \in Clients
      BY <1>4, <2>2, StreamAssumption DEF ClientInv, OneStreamPerClient, StreamAssumption
    <3>2. h # NoStream
      BY NoStreamAssumption DEF NoStreamAssumption
    <3>3. ClientOf[h] # k
      BY <1>3, <3>1, <3>2
    <3> QED BY <1>4, <3>1, <3>3
  <2> QED BY <2>1, <2>2
<1>7. ASSUME NEW j \in Clients, clientMap'[j] # NoStream
      PROVE  /\ ClientOf[clientMap'[j]] = j
             /\ handler'[clientMap'[j]] \notin {"idle", "accepted", "rejected"}
  <2>1. CASE j = k
    BY <1>3, <1>4, <1>7, <2>1
  <2>2. CASE j # k
    <3>1. clientMap'[j] = clientMap[j] /\ clientMap[j] \in Streams
      BY <1>2, <1>4, <1>7, <2>2
    <3>2. ClientOf[clientMap[j]] = j /\ handler[clientMap[j]] \notin {"idle", "accepted", "rejected"}
      BY <1>7, <3>1 DEF ClientInv
    <3>3. clientMap[j] # next
      BY <1>3, <2>2, <3>1, <3>2, NoStreamAssumption DEF NoStreamAssumption
    <3> QED BY <1>4, <3>1, <3>2, <3>3
  <2> QED BY <2>1, <2>2
<1> QED BY <1>1, <1>6, <1>7 DEF ClientInv

\* A new stream is neither in the map nor in a sweep.
LEMMA PostTilesKeepsClients ==
  ASSUME StreamTypeOK, ClientInv, NEW h \in Streams, PostTiles(h)
  PROVE  ClientInv'
<1>1. /\ handler[h] = "idle" /\ UNCHANGED <<clientMap, sweep>>
      /\ handler' = [handler EXCEPT ![h] = IF ClientOf[h] = NoClient THEN "streaming" ELSE "accepted"]
      /\ listed' = listed \cup {r \in RequestsOf(h) : ~IsDone(r)}
  BY DEF PostTiles, clientVars
<1>2. /\ \A g \in Streams \ {h} : handler'[g] = handler[g]
      /\ ClientOf[h] # NoClient => handler'[h] = "accepted"
      /\ \A g \in Streams \ {h} : RequestsOf(g)' \cap listed' = RequestsOf(g) \cap listed
  BY <1>1 DEF StreamTypeOK, RequestsOf
<1>3. OneStreamPerClient'
  BY <1>1, <1>2 DEF ClientInv, OneStreamPerClient
<1>4. \A k \in Clients : clientMap[k] # NoStream =>
        /\ clientMap[k] \in Streams \ {h} /\ ClientOf[clientMap[k]] = k
        /\ handler[clientMap[k]] \notin {"idle", "accepted", "rejected"}
  BY <1>1, StreamsOfClients DEF ClientInv
<1>5. sweep # Free =>
        /\ sweep.client \in Clients
        /\ clientMap[sweep.client] # NoStream =>
             RequestsOf(clientMap[sweep.client]) \cap listed \subseteq sweep.todo
        /\ sweep.next # NoStream => /\ sweep.next \in Streams \ {h}
                                    /\ ClientOf[sweep.next] = sweep.client
                                    /\ handler[sweep.next] = "accepted"
  BY <1>1, StreamsOfClients DEF ClientInv
<1>6. \A k \in Clients : clientMap'[k] # NoStream =>
        /\ ClientOf[clientMap'[k]] = k
        /\ handler'[clientMap'[k]] \notin {"idle", "accepted", "rejected"}
  BY <1>1, <1>2, <1>4
<1>7. ASSUME sweep # Free
      PROVE  /\ clientMap[sweep.client] # NoStream =>
                  RequestsOf(clientMap[sweep.client]) \cap listed' \subseteq sweep.todo
             /\ sweep.next # NoStream =>
                  ClientOf[sweep.next] = sweep.client /\ handler'[sweep.next] = "accepted"
  <2>1. \A g \in Streams \ {h} : RequestsOf(g) \cap listed' = RequestsOf(g) \cap listed
    BY <1>2 DEF RequestsOf
  <2>2. ASSUME clientMap[sweep.client] # NoStream
        PROVE  RequestsOf(clientMap[sweep.client]) \cap listed' \subseteq sweep.todo
    BY <1>4, <1>5, <1>7, <2>1, <2>2
  <2>3. sweep.next # NoStream =>
          ClientOf[sweep.next] = sweep.client /\ handler'[sweep.next] = "accepted"
    BY <1>2, <1>5, <1>7
  <2> QED BY <2>2, <2>3
<1>8. \A g : RequestsOf(g)' = RequestsOf(g)
  BY DEF RequestsOf
<1> QED BY <1>1, <1>3, <1>6, <1>7, <1>8 DEF ClientInv
(***************************************************************************)
(* Types                                                                   *)
(***************************************************************************)
LEMMA AbortKeepsTypes ==
  ASSUME StreamTypeOK, NEW r \in Requests, Abort(r)
  PROVE  /\ listed' \subseteq Requests
         /\ status' \in [Requests -> {"Open", "Success", "Aborted"}]
         /\ handing' = Free \/ handing' \in [at : {"notify", "count"}, request : Requests]
         /\ UNCHANGED <<taken, inHand, resultCount>>
<1>1. CASE r \in listed
  <2>1. Notifying(r) \in [at : {"notify", "count"}, request : Requests]
    BY DEF Notifying
  <2> QED BY <1>1, <2>1 DEF StreamTypeOK, Abort
<1>2. CASE r \notin listed
  BY <1>2 DEF StreamTypeOK, Abort
<1> QED BY <1>1, <1>2

LEMMA HandlerKeepsTypes ==
  ASSUME StreamTypeOK, NEW h \in Streams, HandlerStep(h), StreamInv(h)
  PROVE  StreamTypeOK'
<1>1. CASE PostTiles(h)
  BY <1>1 DEF PostTiles, StreamTypeOK, clientVars, RequestsOf
<1>2. CASE RejectTiles(h)
  BY <1>2 DEF RejectTiles, StreamTypeOK, clientVars
<1>3. CASE RegisterClient(h)
  <2>1. PICK left \in SUBSET Requests :
          sweep' = [at |-> "abort", client |-> ClientOf[h], next |-> h, todo |-> left]
    BY <1>3 DEF RegisterClient, RequestsOf
  <2>2. ClientOf[h] \in Clients
    BY <1>3, StreamAssumption DEF StreamAssumption, RegisterClient, StreamInv
  <2> QED BY <1>3, <2>1, <2>2 DEF RegisterClient, StreamTypeOK, streamVars, serviceVars
<1>4. CASE CheckBuffer(h)
  <2>1. PICK data : /\ data = IF AllDone(h) THEN Append(buffer[h], End) ELSE buffer[h]
                    /\ buffer' = [buffer EXCEPT ![h] = data]
                    /\ provider' = [provider EXCEPT ![h] = IF data = <<>> THEN "parking" ELSE "writing"]
    BY <1>4 DEF CheckBuffer
  <2>2. data \in Seq(Items)
    BY <2>1, AppendProperties DEF StreamTypeOK, Items
  <2> QED BY <1>4, <2>1, <2>2 DEF CheckBuffer, StreamTypeOK, serviceVars, clientVars
<1>5. CASE Block(h) \/ SpuriousWakeup(h)
  BY <1>5 DEF Block, SpuriousWakeup, StreamTypeOK, serviceVars, clientVars
<1>6. CASE SendBuffer(h)
  <2>1. wire[h] \o buffer[h] \in Seq(Items) /\ <<>> \in Seq(Items)
    BY ConcatDisjoint, EmptySeq DEF StreamTypeOK
  <2> QED BY <1>6, <2>1 DEF SendBuffer, Cleared, StreamTypeOK, serviceVars, clientVars
<1>7. CASE LoseClient(h)
  <2>1. <<>> \in Seq(Items) /\ RequestsOf(h) \subseteq Requests
    BY EmptySeq DEF RequestsOf
  <2> QED BY <1>7, <2>1 DEF LoseClient, StreamTypeOK, serviceVars, clientVars
<1>8. CASE AbortNext(h)
  <2>1. PICK r \in todo[h] : Abort(r) /\ todo' = [todo EXCEPT ![h] = LeftToAbort(h, r)]
    BY <1>8 DEF AbortNext
  <2>2. r \in Requests /\ LeftToAbort(h, r) \subseteq Requests
    BY DEF StreamTypeOK, LeftToAbort
  <2> QED BY <1>8, <2>1, <2>2, AbortKeepsTypes DEF AbortNext, StreamTypeOK, clientVars
<1>9. CASE Abandon(h)
  BY <1>9 DEF Abandon, StreamTypeOK, serviceVars, clientVars
<1>10. CASE Disconnect(h)
  BY <1>10 DEF Disconnect, StreamTypeOK, serviceVars, clientVars
<1> QED BY <1>1, <1>2, <1>3, <1>4, <1>5, <1>6, <1>7, <1>8, <1>9, <1>10 DEF HandlerStep

LEMMA ServiceKeepsTypes ==
  ASSUME StreamTypeOK, ServiceStep
  PROVE  StreamTypeOK'
<1>1. ASSUME NEW r \in Requests, TakeTile(r) PROVE StreamTypeOK'
  BY <1>1 DEF TakeTile, StreamTypeOK, streamVars, clientVars
<1>2. ASSUME NEW r \in Requests, NEW p \in 1 .. Size[r], AddResult(r, p) PROVE StreamTypeOK'
  <2>1. StreamOf[r] \in Streams /\ p \in Nat
    BY StreamAssumption DEF StreamAssumption
  <2>2. Append(buffer[StreamOf[r]], Tile(r, p)) \in Seq(Items)
    BY <2>1, AppendProperties DEF StreamTypeOK, Items, Tile
  <2>3. provider' \in [Streams -> {"called", "check", "parking", "waiting", "writing"}]
    BY <1>2 DEF AddResult, StreamTypeOK, Woken
  <2> QED BY <1>2, <2>1, <2>2, <2>3 DEF AddResult, StreamTypeOK, clientVars
<1>3. CASE CountResult
  <2>1. PICK r \in Requests : handing.request = r
    BY <1>3 DEF CountResult, StreamTypeOK, Free
  <2>2. /\ resultCount' = [resultCount EXCEPT ![r] = resultCount[r] + 1]
        /\ status' \in [Requests -> {"Open", "Success", "Aborted"}]
        /\ handing' = Free \/ handing' = [at |-> "notify", request |-> r]
        /\ UNCHANGED <<listed, taken, inHand, streamVars, clientVars>>
    BY <1>3, <2>1 DEF CountResult, Notifying, StreamTypeOK
  <2>3. resultCount' \in [Requests -> Nat]
    BY <2>2 DEF StreamTypeOK
  <2>4. handing' = Free \/ handing' \in [at : {"notify", "count"}, request : Requests]
    BY <2>2
  <2> QED BY <2>2, <2>3, <2>4 DEF StreamTypeOK, streamVars, clientVars
<1>4. CASE NotifyDone
  <2>1. provider' \in [Streams -> {"called", "check", "parking", "waiting", "writing"}]
    BY <1>4 DEF NotifyDone, StreamTypeOK, Woken
  <2> QED BY <1>4, <2>1 DEF NotifyDone, StreamTypeOK, clientVars
<1> QED BY <1>1, <1>2, <1>3, <1>4 DEF ServiceStep

LEMMA ClientsKeepTypes ==
  ASSUME StreamTypeOK, (\E k \in Clients : PostAbort(k)) \/ SweepRequest \/ FinishSweep
  PROVE  StreamTypeOK'
<1>1. ASSUME NEW k \in Clients, PostAbort(k) PROVE StreamTypeOK'
  BY <1>1 DEF PostAbort, StreamTypeOK, streamVars, serviceVars, RequestsOf
<1>2. CASE SweepRequest
  <2>1. PICK r \in sweep.todo :
          /\ IF IsDone(r) THEN UNCHANGED serviceVars ELSE Abort(r)
          /\ sweep' = [sweep EXCEPT !.todo = sweep.todo \ {r}]
    BY <1>2 DEF SweepRequest
  <2>2. sweep # Free /\ r \in Requests /\ UNCHANGED <<streamVars, clientMap>>
    BY <1>2, StreamsOfClients DEF SweepRequest
  <2>3. sweep' \in [at : {"abort"}, client : Clients, next : Streams \cup {NoStream},
                    todo : SUBSET Requests]
    BY <2>1, <2>2 DEF StreamTypeOK
  <2>4. CASE IsDone(r)
    BY <2>1, <2>2, <2>3, <2>4 DEF StreamTypeOK, streamVars, serviceVars
  <2>5. CASE ~IsDone(r)
    BY <2>1, <2>2, <2>3, <2>5, AbortKeepsTypes DEF StreamTypeOK, streamVars
  <2> QED BY <2>4, <2>5
<1>3. CASE FinishSweep
  <2>1. sweep # Free /\ sweep.client \in Clients /\ sweep.next \in Streams \cup {NoStream}
    BY <1>3 DEF FinishSweep, StreamTypeOK
  <2> QED BY <1>3, <2>1 DEF FinishSweep, Replaced, StreamTypeOK, serviceVars
<1> QED BY <1>1, <1>2, <1>3
(***************************************************************************)
(* The steps                                                               *)
(***************************************************************************)
\* Nothing that is handed in and nothing that was sent.
LEMMA LiveUntouched ==
  ASSUME NEW h, UNCHANGED <<taken, inHand, status>>,
         buffer'[h] = buffer[h], wire'[h] = wire[h], provider'[h] = provider[h]
  PROVE  /\ LiveInv(h) => LiveInv(h)'
         /\ ClosedInv(h) => ClosedInv(h)'
         /\ RequestsOf(h)' = RequestsOf(h)
<1>1. HandedIn(h)' = HandedIn(h) /\ (AllDone(h)' <=> AllDone(h)) /\ RequestsOf(h)' = RequestsOf(h)
  BY DEF HandedIn, AllDone, IsDone, RequestsOf, Tile
<1>2. Sent(h)' = Sent(h) /\ Buffered(h)' = Buffered(h)
  BY DEF Sent, Buffered, Elements
<1> QED BY <1>1, <1>2 DEF LiveInv, ClosedInv, TilesOf, Tile

LEMMA PostTilesKeepsInv ==
  ASSUME HttpInv, NEW h \in Streams, PostTiles(h)
  PROVE  (\A r \in Requests : RequestInv(r)') /\ (\A g \in Streams : StreamInv(g)')
<1>1. /\ StreamTypeOK /\ \A r \in Requests : RequestInv(r) /\ StreamOf[r] \in Streams
      /\ \A g \in Streams : StreamInv(g)
  BY StreamAssumption DEF HttpInv, StreamAssumption
<1>2. /\ handler[h] = "idle" /\ UNCHANGED <<provider, buffer, wire, todo>>
      /\ UNCHANGED <<taken, inHand, resultCount, status, handing>>
      /\ handler'[h] = IF ClientOf[h] = NoClient THEN "streaming" ELSE "accepted"
      /\ \A g \in Streams \ {h} : handler'[g] = handler[g]
      /\ listed' = listed \cup {r \in RequestsOf(h) : ~IsDone(r)}
  BY <1>1 DEF PostTiles, StreamTypeOK
<1>3. ASSUME NEW r \in Requests PROVE RequestInv(r)'
  <2>1. Pending(r)' = Pending(r)
    BY <1>2 DEF Pending
  <2>2. CASE StreamOf[r] # h
    <3>1. handler'[StreamOf[r]] = handler[StreamOf[r]] /\ (r \in listed' <=> r \in listed)
      BY <1>1, <1>2, <2>2 DEF RequestsOf
    <3> QED BY <1>1, <1>2, <2>1, <3>1 DEF RequestInv
  <2>3. CASE StreamOf[r] = h
    <3>1. /\ taken[r] = 0 /\ r \notin listed /\ handler'[StreamOf[r]] # "idle"
          /\ status[r] = "Open" => taken[r] < Size[r]
          /\ r \in listed' => status[r] = "Open"
      BY <1>1, <1>2, <2>3 DEF RequestInv, IsDone
    <3> QED BY <1>1, <1>2, <2>1, <3>1 DEF RequestInv
  <2> QED BY <2>2, <2>3
<1>4. ASSUME NEW g \in Streams PROVE StreamInv(g)'
  <2>1. CASE g # h
    <3>1. RequestsOf(g) \cap listed' \subseteq listed
      BY <1>2, <2>1 DEF RequestsOf
    <3>2. handler[g] = "cleanup" => RequestsOf(g) \cap listed' \subseteq todo'[g]
      BY <1>1, <1>2, <3>1 DEF StreamInv
    <3> QED BY <1>1, <1>2, <2>1, <3>1, <3>2, StreamUntouched
  <2>2. CASE g = h
    <3>1. LiveInv(h)' /\ provider[h] = "called"
      <4>1. LiveInv(h) /\ provider[h] = "called"
        BY <1>1, <1>2 DEF StreamInv, StreamTypeOK
      <4> QED BY <1>2, <4>1, LiveUntouched
    <3> QED BY <1>2, <2>2, <3>1 DEF StreamInv
  <2> QED BY <2>1, <2>2
<1> QED BY <1>3, <1>4

LEMMA RejectTilesKeepsInv ==
  ASSUME HttpInv, NEW h \in Streams, RejectTiles(h)
  PROVE  (\A r \in Requests : RequestInv(r)') /\ (\A g \in Streams : StreamInv(g)')
<1>1. /\ StreamTypeOK /\ \A r \in Requests : RequestInv(r) /\ StreamOf[r] \in Streams
      /\ \A g \in Streams : StreamInv(g)
  BY StreamAssumption DEF HttpInv, StreamAssumption
<1>2. /\ handler[h] = "idle" /\ UNCHANGED <<provider, buffer, wire, todo>>
      /\ UNCHANGED <<taken, inHand, resultCount, listed, handing>>
      /\ handler'[h] = "rejected"
      /\ \A g \in Streams \ {h} : handler'[g] = handler[g]
      /\ \A r \in Requests : status'[r] = IF StreamOf[r] = h /\ status[r] = "Open"
                                          THEN "Aborted" ELSE status[r]
  BY <1>1 DEF RejectTiles, StreamTypeOK, RequestsOf, IsDone
<1>3. ASSUME NEW r \in Requests PROVE RequestInv(r)'
  <2>1. Pending(r)' = Pending(r)
    BY <1>2 DEF Pending
  <2>2. CASE StreamOf[r] # h
    BY <1>1, <1>2, <2>1, <2>2 DEF RequestInv
  <2>3. CASE StreamOf[r] = h
    <3>1. /\ taken[r] = 0 /\ r \notin listed /\ handler'[StreamOf[r]] # "idle"
          /\ status[r] = "Open" => taken[r] < Size[r]
          /\ status'[r] = IF status[r] = "Open" THEN "Aborted" ELSE status[r]
      BY <1>1, <1>2, <2>3 DEF RequestInv
    <3> QED BY <1>1, <1>2, <2>1, <3>1 DEF RequestInv
  <2> QED BY <2>2, <2>3
<1>4. ASSUME NEW g \in Streams PROVE StreamInv(g)'
  <2>1. CASE g # h
    <3>1. \A r \in RequestsOf(g) : status'[r] = status[r]
      BY <1>2, <2>1 DEF RequestsOf
    <3>2. handler[g] = "cleanup" => RequestsOf(g) \cap listed' \subseteq todo'[g]
      BY <1>1, <1>2 DEF StreamInv
    <3> QED BY <1>1, <1>2, <2>1, <3>1, <3>2, StreamUntouched
  <2>2. CASE g = h
    <3>1. provider[h] = "called"
      BY <1>1, <1>2 DEF StreamInv
    <3> QED BY <1>2, <2>2, <3>1 DEF StreamInv
  <2> QED BY <2>1, <2>2
<1> QED BY <1>3, <1>4

LEMMA AbortKeepsStream ==
  ASSUME StreamTypeOK, \A q \in Requests : RequestInv(q), NEW r \in Requests, Abort(r),
         NEW h \in Streams, StreamInv(h), UNCHANGED <<handler, provider, buffer, wire>>,
         todo[h] \ {r} \subseteq todo'[h]
  PROVE  StreamInv(h)'
<1>1. /\ UNCHANGED <<taken, inHand>> /\ listed' = listed \ {r}
  BY DEF Abort
<1>2. \A q \in RequestsOf(h) : status'[q] = status[q] \/ status[q] = "Open"
  BY AbortKeepsRequests DEF RequestsOf
<1>3. handler[h] = "cleanup" => RequestsOf(h) \cap listed' \subseteq todo'[h]
  BY <1>1 DEF StreamInv
<1> QED BY <1>1, <1>2, <1>3, StreamUntouched
\* The provider works on its own stream.
LEMMA ProviderKeepsInv ==
  ASSUME HttpInv, NEW h \in Streams,
         CheckBuffer(h) \/ Block(h) \/ SpuriousWakeup(h) \/ SendBuffer(h) \/ LoseClient(h)
           \/ Abandon(h) \/ Disconnect(h)
  PROVE  (\A r \in Requests : RequestInv(r)') /\ (\A g \in Streams : StreamInv(g)') /\ ClientInv'
<1>1. /\ StreamTypeOK /\ ClientInv /\ \A r \in Requests : RequestInv(r) /\ StreamOf[r] \in Streams
      /\ \A g \in Streams : StreamInv(g)
  BY StreamAssumption DEF HttpInv, StreamAssumption
<1>2. /\ UNCHANGED <<listed, taken, inHand, resultCount, status, handing, clientMap, sweep>>
      /\ \A g \in Streams \ {h} : /\ handler'[g] = handler[g] /\ provider'[g] = provider[g]
                                  /\ buffer'[g] = buffer[g] /\ wire'[g] = wire[g]
                                  /\ todo'[g] = todo[g]
  <2>1. CASE CheckBuffer(h)
    BY <1>1, <2>1 DEF CheckBuffer, serviceVars, clientVars, StreamTypeOK
  <2>2. CASE Block(h) \/ SpuriousWakeup(h)
    BY <1>1, <2>2 DEF Block, SpuriousWakeup, serviceVars, clientVars, StreamTypeOK
  <2>3. CASE SendBuffer(h)
    BY <1>1, <2>3 DEF SendBuffer, Cleared, serviceVars, clientVars, StreamTypeOK
  <2>4. CASE LoseClient(h)
    BY <1>1, <2>4 DEF LoseClient, serviceVars, clientVars, StreamTypeOK
  <2>5. CASE Abandon(h) \/ Disconnect(h)
    BY <1>1, <2>5 DEF Abandon, Disconnect, serviceVars, clientVars, StreamTypeOK
  <2> QED BY <2>1, <2>2, <2>3, <2>4, <2>5
<1>3. \/ handler'[h] = handler[h]
      \/ handler[h] \in {"streaming", "cleanup"} /\ handler'[h] \in {"closed", "cleanup", "abandoned"}
  <2>1. CASE SendBuffer(h)
    <3>1. handler[h] = "streaming"
      BY <1>1, <2>1 DEF SendBuffer, StreamInv
    <3> QED BY <1>1, <2>1, <3>1 DEF SendBuffer, StreamTypeOK
  <2>2. CASE LoseClient(h) \/ Abandon(h)
    BY <1>1, <2>2 DEF LoseClient, Abandon, StreamTypeOK
  <2>3. CASE CheckBuffer(h) \/ Block(h) \/ SpuriousWakeup(h) \/ Disconnect(h)
    BY <2>3 DEF CheckBuffer, Block, SpuriousWakeup, Disconnect
  <2> QED BY <2>1, <2>2, <2>3
<1>4. ASSUME NEW r \in Requests PROVE RequestInv(r)'
  <2>1. Pending(r)' = Pending(r)
    BY <1>2 DEF Pending
  <2>2. handler'[StreamOf[r]] = "idle" <=> handler[StreamOf[r]] = "idle"
    BY <1>1, <1>2, <1>3
  <2> QED BY <1>1, <1>2, <2>1, <2>2, RequestsUntouched
<1>5. ClientInv'
  BY <1>1, <1>2, <1>3, ClientsUntouched
<1>6. StreamInv(h)'
  <2>1. CASE CheckBuffer(h)
    BY <1>1, <2>1, CheckBufferKeepsStream
  <2>2. CASE Block(h) \/ SpuriousWakeup(h)
    <3>1. /\ UNCHANGED <<handler, buffer, wire, todo, listed, taken, inHand, status>>
          /\ \/ provider[h] = "parking" /\ provider'[h] = "waiting"
             \/ provider[h] = "waiting" /\ provider'[h] = "check"
      BY <1>1, <2>2 DEF Block, SpuriousWakeup, serviceVars, StreamTypeOK
    <3>2. handler[h] = "streaming" /\ LiveInv(h) /\ buffer[h] = <<>>
      BY <1>1, <3>1 DEF StreamInv
    <3>3. /\ HandedIn(h)' = HandedIn(h) /\ Sent(h)' = Sent(h) /\ Buffered(h)' = Buffered(h)
          /\ End \notin Buffered(h)
      BY <3>1, <3>2 DEF HandedIn, Sent, Buffered, Elements, RequestsOf, Tile, LiveInv
    <3>4. LiveInv(h)'
      BY <3>1, <3>2, <3>3 DEF LiveInv
    <3> QED BY <3>1, <3>2, <3>4 DEF StreamInv
  <2>3. CASE SendBuffer(h)
    BY <1>1, <2>3, SendBufferKeepsStream
  <2>4. CASE LoseClient(h)
    <3>1. handler'[h] = "cleanup" /\ provider'[h] = "called" /\ todo'[h] = RequestsOf(h)
      BY <1>1, <2>4 DEF LoseClient, StreamTypeOK
    <3> QED BY <3>1 DEF StreamInv, RequestsOf
  <2>5. CASE Abandon(h)
    <3>1. /\ handler'[h] = "abandoned" /\ provider' = provider /\ handler[h] = "cleanup"
          /\ todo[h] = {}
      BY <1>1, <2>5 DEF Abandon, StreamTypeOK
    <3>2. provider[h] = "called" /\ RequestsOf(h) \cap listed = {}
      BY <1>1, <3>1 DEF StreamInv, StreamTypeOK
    <3> QED BY <1>2, <3>1, <3>2 DEF StreamInv, RequestsOf
  <2>6. CASE Disconnect(h)
    <3>1. UNCHANGED <<handler, provider, buffer, wire, todo>>
      BY <2>6 DEF Disconnect
    <3>2. handler[h] = "cleanup" => RequestsOf(h) \cap listed' \subseteq todo'[h]
      BY <1>1, <1>2, <3>1 DEF StreamInv
    <3> QED BY <1>1, <1>2, <3>1, <3>2, StreamUntouched
  <2> QED BY <2>1, <2>2, <2>3, <2>4, <2>5, <2>6
<1>7. ASSUME NEW g \in Streams, g # h PROVE StreamInv(g)'
  <2>1. handler[g] = "cleanup" => RequestsOf(g) \cap listed' \subseteq todo'[g]
    BY <1>1, <1>2, <1>7 DEF StreamInv
  <2> QED BY <1>1, <1>2, <1>7, <2>1, StreamUntouched
<1> QED BY <1>4, <1>5, <1>6, <1>7

\* Who aborts requests: the cleanup of a stream, or a sweep.
LEMMA AbortingKeepsInv ==
  ASSUME HttpInv, NEW h \in Streams, AbortNext(h)
  PROVE  (\A r \in Requests : RequestInv(r)') /\ (\A g \in Streams : StreamInv(g)') /\ ClientInv'
<1>1. /\ StreamTypeOK /\ ClientInv /\ \A r \in Requests : RequestInv(r)
      /\ \A g \in Streams : StreamInv(g)
  BY DEF HttpInv
<1>2. PICK r \in todo[h] : Abort(r) /\ todo' = [todo EXCEPT ![h] = todo[h] \ {r}]
  BY DEF AbortNext, LeftToAbort
<1>3. r \in Requests /\ UNCHANGED <<handler, provider, buffer, wire, clientMap, sweep>>
      /\ listed' \subseteq listed
  BY <1>1, <1>2 DEF AbortNext, StreamTypeOK, clientVars, Abort
<1>4. \A g \in Streams : todo[g] \ {r} \subseteq todo'[g]
  BY <1>1, <1>2 DEF StreamTypeOK
<1>5. \A q \in Requests : RequestInv(q)'
  BY <1>1, <1>2, <1>3, AbortKeepsRequests
<1>6. \A g \in Streams : StreamInv(g)'
  BY <1>1, <1>2, <1>3, <1>4, AbortKeepsStream
<1>7. ClientInv'
  BY <1>1, <1>3, ClientsUntouched
<1> QED BY <1>5, <1>6, <1>7

LEMMA SweepKeepsInv ==
  ASSUME HttpInv, SweepRequest
  PROVE  (\A r \in Requests : RequestInv(r)') /\ (\A g \in Streams : StreamInv(g)') /\ ClientInv'
<1>1. /\ StreamTypeOK /\ ClientInv /\ \A r \in Requests : RequestInv(r)
      /\ \A g \in Streams : StreamInv(g)
  BY DEF HttpInv
<1>2. PICK r \in sweep.todo : IF IsDone(r) THEN UNCHANGED serviceVars ELSE Abort(r)
  BY DEF SweepRequest
<1>3. r \in Requests /\ UNCHANGED <<handler, provider, buffer, wire, todo>>
  BY <1>1, StreamsOfClients DEF SweepRequest, streamVars
<1>4. CASE IsDone(r)
  <2>1. UNCHANGED <<listed, taken, inHand, resultCount, status, handing>>
    BY <1>2, <1>4 DEF serviceVars
  <2>2. \A q \in Requests : RequestInv(q)'
    BY <1>1, <1>3, <2>1, RequestsUntouched DEF Pending
  <2>3. \A g \in Streams : handler[g] = "cleanup" => RequestsOf(g) \cap listed' \subseteq todo'[g]
    BY <1>1, <1>3, <2>1 DEF StreamInv
  <2>4. \A g \in Streams : StreamInv(g)'
    BY <1>1, <1>3, <2>1, <2>3, StreamUntouched
  <2> QED BY <1>1, <2>2, <2>4, SweepRequestKeepsClients
<1>5. CASE ~IsDone(r)
  <2>1. Abort(r)
    BY <1>2, <1>5
  <2>2. \A q \in Requests : RequestInv(q)'
    BY <1>1, <1>3, <2>1, AbortKeepsRequests
  <2>3. \A g \in Streams : StreamInv(g)'
    BY <1>1, <1>3, <2>1, AbortKeepsStream
  <2> QED BY <1>1, <2>2, <2>3, SweepRequestKeepsClients
<1> QED BY <1>4, <1>5

LEMMA FinishSweepKeepsInv ==
  ASSUME HttpInv, FinishSweep
  PROVE  (\A r \in Requests : RequestInv(r)') /\ (\A g \in Streams : StreamInv(g)') /\ ClientInv'
<1>1. /\ StreamTypeOK /\ ClientInv /\ \A r \in Requests : RequestInv(r) /\ StreamOf[r] \in Streams
      /\ \A g \in Streams : StreamInv(g)
  BY StreamAssumption DEF HttpInv, StreamAssumption
<1>2. UNCHANGED <<provider, buffer, wire, todo, listed, taken, inHand, resultCount, status, handing>>
  BY DEF FinishSweep, serviceVars
<1>3. \A g \in Streams : \/ handler'[g] = handler[g]
                         \/ handler[g] = "accepted" /\ handler'[g] = "streaming"
  <2>1. CASE sweep.next = NoStream
    BY <2>1 DEF FinishSweep
  <2>2. CASE sweep.next # NoStream
    <3>1. sweep.next \in Streams /\ handler[sweep.next] = "accepted"
      BY <1>1, <2>2, StreamsOfClients DEF FinishSweep, ClientInv
    <3> QED BY <1>1, <2>2, <3>1 DEF FinishSweep, StreamTypeOK
  <2> QED BY <2>1, <2>2
<1>4. ASSUME NEW r \in Requests PROVE RequestInv(r)'
  <2>1. Pending(r)' = Pending(r)
    BY <1>2 DEF Pending
  <2>2. handler'[StreamOf[r]] = "idle" <=> handler[StreamOf[r]] = "idle"
    BY <1>1, <1>3
  <2> QED BY <1>1, <1>2, <2>1, <2>2, RequestsUntouched
<1>5. ASSUME NEW g \in Streams PROVE StreamInv(g)'
  <2>1. /\ LiveInv(g) => LiveInv(g)'
        /\ ClosedInv(g) => ClosedInv(g)'
        /\ RequestsOf(g)' = RequestsOf(g)
    BY <1>2, LiveUntouched
  <2> QED BY <1>1, <1>2, <1>3, <2>1 DEF StreamInv
<1>6. ClientInv'
  BY <1>1, FinishSweepKeepsClients
<1> QED BY <1>4, <1>5, <1>6
LEMMA ServiceKeepsInv ==
  ASSUME HttpInv, ServiceStep
  PROVE  (\A r \in Requests : RequestInv(r)') /\ (\A g \in Streams : StreamInv(g)') /\ ClientInv'
<1>1. /\ StreamTypeOK /\ ClientInv /\ \A r \in Requests : RequestInv(r)
      /\ \A g \in Streams : StreamInv(g)
  BY DEF HttpInv
<1>2. ASSUME NEW r \in Requests, TakeTile(r)
      PROVE  (\A q \in Requests : RequestInv(q)') /\ (\A g \in Streams : StreamInv(g)') /\ ClientInv'
  <2>1. UNCHANGED <<handler, clientMap, sweep>> /\ listed' \subseteq listed
    BY <1>2 DEF TakeTile, streamVars, clientVars
  <2>2. \A q \in Requests : RequestInv(q)'
    BY <1>1, <1>2, TakeTileKeepsRequests
  <2>3. \A g \in Streams : StreamInv(g)'
    BY <1>1, <1>2, TakeTileKeepsStreams
  <2> QED BY <1>1, <2>1, <2>2, <2>3, ClientsUntouched
<1>3. ASSUME NEW r \in Requests, NEW p \in 1 .. Size[r], AddResult(r, p)
      PROVE  (\A q \in Requests : RequestInv(q)') /\ (\A g \in Streams : StreamInv(g)') /\ ClientInv'
  <2>1. UNCHANGED <<handler, clientMap, sweep, listed>> /\ p \in Nat
    BY <1>3, StreamAssumption DEF AddResult, clientVars, StreamAssumption
  <2>2. \A q \in Requests : RequestInv(q)'
    BY <1>1, <1>3, <2>1, AddResultKeepsRequests
  <2>3. \A g \in Streams : StreamInv(g)'
    BY <1>1, <1>3, <2>1, AddResultKeepsStreams
  <2> QED BY <1>1, <2>1, <2>2, <2>3, ClientsUntouched
<1>4. CASE CountResult
  <2>1. UNCHANGED <<handler, provider, buffer, wire, todo, clientMap, sweep, listed, taken, inHand>>
    BY <1>4 DEF CountResult, streamVars, clientVars
  <2>2. \A q \in Requests : RequestInv(q)' /\ (status'[q] = status[q] \/ status[q] = "Open")
    BY <1>1, <1>4, CountResultKeepsRequests
  <2>3. ASSUME NEW g \in Streams PROVE StreamInv(g)'
    <3>1. handler[g] = "cleanup" => RequestsOf(g) \cap listed' \subseteq todo'[g]
      BY <1>1, <2>1 DEF StreamInv
    <3>2. \A q \in RequestsOf(g) : status'[q] = status[q] \/ status[q] = "Open"
      BY <2>2 DEF RequestsOf
    <3> QED BY <1>1, <2>1, <3>1, <3>2, StreamUntouched
  <2> QED BY <1>1, <2>1, <2>2, <2>3, ClientsUntouched
<1>5. CASE NotifyDone
  <2>1. UNCHANGED <<handler, buffer, wire, todo, clientMap, sweep, listed, taken, inHand,
                    resultCount, status>>
        /\ handing.at = "notify" /\ handing' = Free
    BY <1>5 DEF NotifyDone, clientVars
  <2>2. ASSUME NEW q \in Requests PROVE RequestInv(q)'
    <3>1. Pending(q)' = Pending(q)
      BY <2>1 DEF Pending, Free
    <3> QED BY <1>1, <2>1, <3>1, RequestsUntouched
  <2>3. \A g \in Streams : \/ provider'[g] = provider[g]
                           \/ provider[g] = "waiting" /\ provider'[g] = "check"
    BY <1>1, <1>5 DEF NotifyDone, Woken, StreamTypeOK
  <2>4. ASSUME NEW g \in Streams PROVE StreamInv(g)'
    <3>1. HandedIn(g)' = HandedIn(g) /\ Sent(g)' = Sent(g) /\ Buffered(g)' = Buffered(g)
          /\ (AllDone(g)' <=> AllDone(g)) /\ RequestsOf(g)' = RequestsOf(g)
      BY <2>1 DEF HandedIn, Sent, Buffered, Elements, RequestsOf, Tile, AllDone, IsDone
    <3>2. LiveInv(g) => LiveInv(g)'
      BY <2>1, <2>3, <3>1 DEF LiveInv
    <3>3. ClosedInv(g) => ClosedInv(g)'
      BY <2>1, <3>1 DEF ClosedInv, TilesOf, Tile
    <3> QED BY <1>1, <2>1, <2>3, <3>1, <3>2, <3>3 DEF StreamInv
  <2> QED BY <1>1, <2>1, <2>2, <2>4, ClientsUntouched
<1> QED BY <1>2, <1>3, <1>4, <1>5 DEF ServiceStep

LEMMA StartSweepKeepsInv ==
  ASSUME HttpInv, (\E h \in Streams : RegisterClient(h)) \/ (\E k \in Clients : PostAbort(k))
  PROVE  (\A r \in Requests : RequestInv(r)') /\ (\A g \in Streams : StreamInv(g)') /\ ClientInv'
<1>1. /\ StreamTypeOK /\ ClientInv /\ \A r \in Requests : RequestInv(r)
      /\ \A g \in Streams : StreamInv(g)
  BY DEF HttpInv
<1>2. UNCHANGED <<handler, provider, buffer, wire, todo, listed, taken, inHand, resultCount,
                  status, handing, clientMap>>
  BY DEF RegisterClient, PostAbort, streamVars, serviceVars
<1>3. \A r \in Requests : RequestInv(r)'
  BY <1>1, <1>2, RequestsUntouched DEF Pending
<1>4. ASSUME NEW g \in Streams PROVE StreamInv(g)'
  <2>1. handler[g] = "cleanup" => RequestsOf(g) \cap listed' \subseteq todo'[g]
    BY <1>1, <1>2 DEF StreamInv
  <2> QED BY <1>1, <1>2, <2>1, StreamUntouched
<1>5. ASSUME NEW h \in Streams, RegisterClient(h) PROVE ClientInv'
  <2>1. ClientOf[h] \in Clients /\ handler[h] = "accepted"
    BY <1>1, <1>5, StreamAssumption DEF RegisterClient, StreamInv, StreamAssumption
  <2> QED BY <1>1, <1>2, <1>5, <2>1, StartSweepKeepsClients DEF RegisterClient
<1>6. ASSUME NEW k \in Clients, PostAbort(k) PROVE ClientInv'
  <2>1. sweep' = [at |-> "abort", client |-> k, next |-> NoStream,
                  todo |-> IF clientMap[k] = NoStream THEN {} ELSE RequestsOf(clientMap[k])]
    BY <1>6 DEF PostAbort
  <2> QED BY <1>1, <1>2, <2>1, StartSweepKeepsClients
<1> QED BY <1>3, <1>4, <1>5, <1>6

(***************************************************************************)
(* The theorems                                                            *)
(***************************************************************************)
LEMMA InitHttpInv == Init => HttpInv
<1> SUFFICES ASSUME Init PROVE HttpInv
  OBVIOUS
<1>1. StreamTypeOK
  BY EmptySeq DEF Init, StreamTypeOK
<1>2. ASSUME NEW r \in Requests PROVE RequestInv(r)
  <2>1. Size[r] \in Nat /\ StreamOf[r] \in Streams
    BY StreamAssumption DEF StreamAssumption
  <2>2. Pending(r) = 0 /\ Cardinality({}) = 0
    BY FS_EmptySet DEF Init, Pending, Free
  <2> QED BY <2>1, <2>2 DEF Init, RequestInv
<1>3. ASSUME NEW h \in Streams PROVE StreamInv(h)
  <2>1. HandedIn(h) = {}
    <3>1. \A r \in RequestsOf(h) : (1 .. taken[r]) \ inHand[r] = {}
      BY DEF Init, RequestsOf
    <3> QED BY <3>1 DEF HandedIn
  <2>2. Sent(h) = {} /\ Buffered(h) = {} /\ IsInjective(wire[h]) /\ IsInjective(buffer[h])
    BY DEF Init, Sent, Buffered, Elements, IsInjective
  <2>3. LiveInv(h)
    BY <2>1, <2>2 DEF LiveInv
  <2> QED BY <2>3 DEF Init, StreamInv
<1>4. ClientInv
  BY DEF Init, ClientInv, OneStreamPerClient
<1> QED BY <1>1, <1>2, <1>3, <1>4 DEF HttpInv

LEMMA StepHttpInv == HttpInv /\ [Next]_vars => HttpInv'
<1> SUFFICES ASSUME HttpInv, [Next]_vars PROVE HttpInv'
  OBVIOUS
<1>1. ASSUME NEW h \in Streams, HandlerStep(h) PROVE HttpInv'
  <2>1. StreamTypeOK'
    BY <1>1, HandlerKeepsTypes DEF HttpInv
  <2>2. CASE PostTiles(h)
    <3>1. ClientInv'
      BY <2>2, PostTilesKeepsClients DEF HttpInv
    <3> QED BY <2>1, <2>2, <3>1, PostTilesKeepsInv DEF HttpInv
  <2>3. CASE RejectTiles(h)
    <3>1. UNCHANGED <<clientMap, sweep, listed>> /\ \A g \in Streams :
            handler'[g] = handler[g] \/ (handler[g] = "idle" /\ handler'[g] = "rejected")
      BY <2>3 DEF RejectTiles, clientVars, HttpInv, StreamTypeOK
    <3>2. ClientInv'
      BY <3>1, ClientsUntouched DEF HttpInv
    <3> QED BY <2>1, <2>3, <3>2, RejectTilesKeepsInv DEF HttpInv
  <2>4. CASE RegisterClient(h)
    BY <2>1, <2>4, StartSweepKeepsInv DEF HttpInv
  <2>5. CASE AbortNext(h)
    BY <2>1, <2>5, AbortingKeepsInv DEF HttpInv
  <2> QED BY <1>1, <2>1, <2>2, <2>3, <2>4, <2>5, ProviderKeepsInv DEF HandlerStep, HttpInv
<1>2. CASE ServiceStep
  BY <1>2, ServiceKeepsTypes, ServiceKeepsInv DEF HttpInv
<1>3. ASSUME NEW k \in Clients, PostAbort(k) PROVE HttpInv'
  BY <1>3, ClientsKeepTypes, StartSweepKeepsInv DEF HttpInv
<1>4. CASE SweepRequest
  BY <1>4, ClientsKeepTypes, SweepKeepsInv DEF HttpInv
<1>5. CASE FinishSweep
  BY <1>5, ClientsKeepTypes, FinishSweepKeepsInv DEF HttpInv
<1>6. CASE UNCHANGED vars
  <2>1. UNCHANGED <<handler, provider, connected, buffer, wire, todo>>
        /\ UNCHANGED <<listed, taken, inHand, resultCount, status, handing, clientMap, sweep>>
    BY <1>6 DEF vars, streamVars, serviceVars, clientVars
  <2>2. StreamTypeOK' /\ (\A r \in Requests : RequestInv(r)')
    BY <2>1 DEF HttpInv, StreamTypeOK, RequestInv, Pending
  <2>3. ASSUME NEW g \in Streams PROVE StreamInv(g)'
    <3>1. handler[g] = "cleanup" => RequestsOf(g) \cap listed' \subseteq todo'[g]
      BY <2>1 DEF HttpInv, StreamInv
    <3> QED BY <2>1, <3>1, StreamUntouched DEF HttpInv
  <2> QED BY <2>1, <2>2, <2>3, ClientsUntouched DEF HttpInv
<1> QED BY <1>1, <1>2, <1>3, <1>4, <1>5, <1>6 DEF Next

\* The inductive invariant holds in every state.
THEOREM StreamsInvariant == Spec => []HttpInv
BY InitHttpInv, StepHttpInv, PTL DEF Spec

\* What a worker hands to addResult reaches the client: a stream that was closed
\* brought every tile of its successful requests once and ends with EndOfStream,
\* and no provider is blocked on a buffer that has something to send, or before the
\* tiles of its successful requests were sent.
THEOREM ResultsReachTheClient == Spec => []ResultsAreSent
<1>1. HttpInv => ResultsAreSent
  <2> SUFFICES ASSUME HttpInv PROVE ResultsAreSent
    OBVIOUS
  <2>1. StreamIsWhole
    BY DEF HttpInv, StreamInv, ClosedInv, StreamIsWhole
  <2>2. BlockedHasNothing
    BY DEF HttpInv, StreamInv, BlockedHasNothing
  <2>3. BlockedHasSent
    <3> SUFFICES ASSUME NEW h \in Streams, provider[h] = "waiting",
                        NEW r \in RequestsOf(h), status[r] = "Success"
                 PROVE  TilesOf(r) \subseteq Sent(h)
      BY DEF BlockedHasSent
    <3>1. StreamTypeOK /\ StreamInv(h) /\ r \in Requests /\ RequestInv(r)
      BY DEF HttpInv, RequestsOf
    <3>2. LiveInv(h) /\ buffer[h] = <<>>
      BY <3>1 DEF StreamInv
    <3>3. Buffered(h) = {}
      BY <3>2 DEF Buffered, Elements
    <3>4. taken[r] = Size[r] /\ inHand[r] = {}
      BY <3>1, SuccessIsHandedIn
    <3>5. TilesOf(r) \subseteq HandedIn(h)
      BY <3>4 DEF TilesOf, HandedIn
    <3> QED BY <3>2, <3>3, <3>5 DEF LiveInv
  <2> QED BY <2>1, <2>2, <2>3 DEF ResultsAreSent
<1> QED BY <1>1, StreamsInvariant, PTL

\* Tiles are taken for a client that reads them: none for a stream whose client
\* was lost once the cleanup is over, and of the streams of one client only for
\* the one in requestStatePerClientId_.
THEOREM TilesHaveReaders == Spec => []StreamsHaveClients
<1>1. HttpInv => StreamsHaveClients
  BY DEF HttpInv, StreamInv, ClientInv, StreamsHaveClients, AbandonedIsAborted
<1> QED BY <1>1, StreamsInvariant, PTL
===============================================================================
