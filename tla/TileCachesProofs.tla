---------------------------- MODULE TileCachesProofs ----------------------------
(***************************************************************************)
(* TLAPS proofs about TileCaches, for any number of keys, workers, puts    *)
(* and starts, any limits and every way in which the process may end.      *)
(***************************************************************************)
EXTENDS TileCaches, SequenceTheorems, FiniteSetTheorems, WellFoundedInduction, TLAPS

Strings == 1 .. MaxStrings
Stored  == Keys \X Strings

BusyState == [at : {"filled", "storing"}, key : Keys, data : Strings]

TypeOK ==
  /\ kind \in Kinds
  /\ starts \in Nat
  /\ running \in BOOLEAN
  /\ limit \in Nat
  /\ pool \in Strings
  /\ offset \in 0 .. MaxStrings
  /\ cachedTiles \subseteq Stored
  /\ fifo \in Seq(Keys)
  /\ rows \in Seq(Stored)
  /\ poolBlob \in 0 .. MaxStrings
  /\ synced \in [rows : Seq(Stored), poolBlob : 0 .. MaxStrings]
  /\ worker \in [Workers -> {Idle} \cup BusyState]
  /\ puts \in Seq(Stored)
  /\ ever \subseteq Stored

Busy(w) == worker[w].at # "idle"

\* What a worker is about to put is not there, and nobody else puts it.
BusyAreApart ==
  /\ \A w \in Workers : Busy(w) => worker[w].key \notin KeysOf(Content)
  /\ \A v, w \in Workers : Busy(v) /\ Busy(w) /\ worker[v].key = worker[w].key => v = w

\* Only the chosen cache keeps anything, and memory does not outlive the process.
OthersAreEmpty ==
  /\ kind # "memory" \/ ~running => cachedTiles = {} /\ fifo = <<>>
  /\ kind # "persistent" => rows = <<>> /\ synced.rows = <<>> /\ poolBlob = 0 /\ synced.poolBlob = 0
  /\ ~running => \A w \in Workers : ~Busy(w)

\* The strings of a tile are in the pool from the time it is filled, and in the
\* database from the first write of putTileLayer on.
StringsComeFirst ==
  /\ \A w \in Workers : Busy(w) => worker[w].data <= pool
  /\ \A w \in Workers :
       worker[w].at = "storing" /\ kind = "persistent" => worker[w].data <= poolBlob
  /\ \A t \in cachedTiles : t[2] <= pool
  /\ \A t \in ToSet(rows) : t[2] <= poolBlob
  /\ \A t \in ToSet(synced.rows) : t[2] <= synced.poolBlob
  /\ running => poolBlob <= pool
  /\ kind = "persistent" => offset = IF running THEN poolBlob ELSE 0

\* What is counted is what is there: once by each key.
OnePerKey(tiles) == \A t, u \in tiles : t[1] = u[1] => t = u
RowsApart(table) == \A i, j \in DOMAIN table : table[i][1] = table[j][1] => i = j

CountsMatch ==
  /\ FifoMatches
  /\ OnePerKey(cachedTiles)
  /\ RowsApart(rows) /\ RowsApart(synced.rows)
  /\ running /\ kind = "memory" => Len(fifo) <= limit
  /\ running /\ kind = "persistent" /\ limit > 0 => Len(rows) <= limit

\* Nothing is there that was not put, nor was it ever.
ContentWasPut == cachedTiles \cup ToSet(rows) \cup ToSet(synced.rows) \subseteq ever

\* Every put of k came before some put of l.
Occurs(k, tiles) == \E n \in DOMAIN tiles : tiles[n][1] = k
Precedes(k, l, tiles) ==
  \E n \in DOMAIN tiles :
    tiles[n][1] = l /\ \A m \in DOMAIN tiles : tiles[m][1] = k => m < n

\* What is stored stands in the order in which it was put last.
TableInOrder(table, tiles) ==
  /\ \A i \in DOMAIN table : Occurs(table[i][1], tiles)
  /\ \A i, j \in DOMAIN table : i < j => Precedes(table[i][1], table[j][1], tiles)

PutInOrder ==
  /\ TableInOrder(rows, puts)
  /\ \A i \in DOMAIN fifo : Occurs(fifo[i], puts)
  /\ \A i, j \in DOMAIN fifo : i < j => Precedes(fifo[j], fifo[i], puts)

CachesInv ==
  /\ TypeOK /\ BusyAreApart /\ OthersAreEmpty /\ StringsComeFirst /\ CountsMatch
  /\ ContentWasPut

(***************************************************************************)
(* Sequences of stored tiles                                               *)
(***************************************************************************)
\* What Append, Tail and the end of a sequence have in it.
LEMMA Appended ==
  ASSUME NEW S, NEW s \in Seq(S), NEW e \in S
  PROVE  /\ Append(s, e) \in Seq(S)
         /\ ToSet(Append(s, e)) = ToSet(s) \cup {e}
         /\ Len(Append(s, e)) = Len(s) + 1
         /\ \A i \in 1 .. Len(s) + 1 : Append(s, e)[i] = IF i <= Len(s) THEN s[i] ELSE e
<1>1. /\ Append(s, e) \in Seq(S) /\ Len(Append(s, e)) = Len(s) + 1
      /\ \A i \in 1 .. Len(s) : Append(s, e)[i] = s[i]
      /\ Append(s, e)[Len(s) + 1] = e
  BY AppendProperties
<1>2. DOMAIN Append(s, e) = 1 .. Len(s) + 1 /\ DOMAIN s = 1 .. Len(s) /\ Len(s) \in Nat
  BY <1>1, LenProperties
<1>3. \A i \in 1 .. Len(s) + 1 : i \in 1 .. Len(s) \/ i = Len(s) + 1
  BY <1>2
<1>4. \A i \in 1 .. Len(s) + 1 : Append(s, e)[i] = IF i <= Len(s) THEN s[i] ELSE e
  BY <1>1, <1>2
<1>5. ToSet(Append(s, e)) = ToSet(s) \cup {e}
  BY <1>1, <1>2, <1>3 DEF ToSet
<1> QED BY <1>1, <1>4, <1>5

LEMMA Remaining ==
  ASSUME NEW S, NEW s \in Seq(S), NEW n \in 0 .. Len(s)
  PROVE  LET rest == SubSeq(s, n + 1, Len(s))
         IN  /\ rest \in Seq(S) /\ Len(rest) = Len(s) - n
             /\ \A i \in 1 .. Len(rest) : rest[i] = s[n + i] /\ n + i \in DOMAIN s
             /\ ToSet(rest) \subseteq ToSet(s)
<1> DEFINE rest == SubSeq(s, n + 1, Len(s))
<1>1. Len(s) \in Nat /\ DOMAIN s = 1 .. Len(s) /\ \A i \in n + 1 .. Len(s) : s[i] \in S
  BY LenProperties, ElementOfSeq
<1>2. n \in Int /\ n + 1 \in Int /\ Len(s) \in Int /\ 0 <= n /\ n <= Len(s)
  BY <1>1
<1>3. /\ rest \in Seq(S) /\ Len(rest) = IF n + 1 <= Len(s) THEN Len(s) - (n + 1) + 1 ELSE 0
      /\ \A i \in 1 .. Len(s) - (n + 1) + 1 : rest[i] = s[(n + 1) + i - 1]
  BY <1>1, <1>2, SubSeqProperties
<1> HIDE DEF rest
<1>4. /\ Len(rest) = Len(s) - n
      /\ \A i \in 1 .. Len(rest) : rest[i] = s[n + i] /\ n + i \in DOMAIN s
  <2>1. Len(s) - (n + 1) + 1 = Len(s) - n
    BY <1>2
  <2>3. Len(rest) = Len(s) - n
    <3>1. CASE n = Len(s)
      BY <1>2, <1>3, <3>1
    <3>2. CASE n + 1 <= Len(s)
      BY <1>2, <1>3, <2>1, <3>2
    <3> QED BY <1>2, <3>1, <3>2
  <2>2. ASSUME NEW i \in 1 .. Len(rest)
        PROVE  rest[i] = s[n + i] /\ n + i \in DOMAIN s
    <3>1. rest[i] = s[(n + 1) + i - 1]
      BY <1>3, <2>1, <2>3
    <3>2. (n + 1) + i - 1 = n + i /\ n + i \in 1 .. Len(s)
      BY <1>2, <2>3
    <3> QED BY <1>1, <3>1, <3>2
  <2> QED BY <2>3, <2>2
<1>5. DOMAIN rest = 1 .. Len(rest)
  BY <1>3, LenProperties
<1>6. ToSet(rest) \subseteq ToSet(s)
  BY <1>4, <1>5 DEF ToSet
<1> QED BY <1>3, <1>4, <1>6 DEF rest

LEMMA Beginning ==
  ASSUME NEW S, NEW s \in Seq(S), NEW n \in 0 .. Len(s)
  PROVE  LET first == SubSeq(s, 1, n)
         IN  /\ first \in Seq(S) /\ Len(first) = n
             /\ \A i \in 1 .. n : first[i] = s[i]
<1>1. Len(s) \in Nat /\ \A i \in 1 .. n : s[i] \in S
  BY LenProperties, ElementOfSeq
<1> QED BY <1>1, SubSeqProperties

\* A new key keeps the rows apart, and so does every end of them.
LEMMA RowsStayApart ==
  ASSUME NEW s \in Seq(Stored), RowsApart(s)
  PROVE  /\ \A t \in Stored : t[1] \notin KeysOf(ToSet(s)) => RowsApart(Append(s, t))
         /\ \A n \in 0 .. Len(s) : RowsApart(SubSeq(s, n + 1, Len(s)))
<1>0. Len(s) \in Nat /\ DOMAIN s = 1 .. Len(s)
  BY LenProperties
<1>1. ASSUME NEW t \in Stored, t[1] \notin KeysOf(ToSet(s))
      PROVE  RowsApart(Append(s, t))
  <2>1. /\ DOMAIN Append(s, t) = 1 .. Len(s) + 1
        /\ \A i \in 1 .. Len(s) + 1 : Append(s, t)[i] = IF i <= Len(s) THEN s[i] ELSE t
    BY Appended, LenProperties
  <2>2. \A i \in DOMAIN s : s[i][1] # t[1]
    BY <1>1 DEF KeysOf, ToSet
  <2> QED BY <1>0, <2>1, <2>2 DEF RowsApart
<1>2. ASSUME NEW n \in 0 .. Len(s)
      PROVE  RowsApart(SubSeq(s, n + 1, Len(s)))
  <2> DEFINE rest == SubSeq(s, n + 1, Len(s))
  <2>1. /\ rest \in Seq(Stored) /\ Len(rest) = Len(s) - n
        /\ \A i \in 1 .. Len(rest) : rest[i] = s[n + i] /\ n + i \in DOMAIN s
    BY Remaining
  <2>2. DOMAIN rest = 1 .. Len(rest)
    BY <2>1, LenProperties
  <2> HIDE DEF rest
  <2>3. ASSUME NEW i \in DOMAIN rest, NEW j \in DOMAIN rest, rest[i][1] = rest[j][1]
        PROVE  i = j
    <3>1. s[n + i][1] = s[n + j][1] /\ n + i \in DOMAIN s /\ n + j \in DOMAIN s
      BY <2>1, <2>2, <2>3
    <3>2. n + i = n + j
      BY <3>1 DEF RowsApart
    <3>3. n \in Int /\ i \in Int /\ j \in Int
      BY <1>0, <2>1, <2>2, LenProperties
    <3> QED BY <3>2, <3>3
  <2>4. RowsApart(rest)
    BY <2>3 DEF RowsApart
  <2> QED BY <2>4 DEF rest
<1> QED BY <1>1, <1>2
(***************************************************************************)
(* Every action keeps the invariant.                                       *)
(***************************************************************************)
\* What getTileLayer finds depends on the kind of the cache alone.
LEMMA ContentByKind ==
  ASSUME kind \in Kinds, OthersAreEmpty
  PROVE  /\ kind = "memory" => Content = cachedTiles
         /\ kind = "persistent" => Content = ToSet(rows)
         /\ kind = "none" => Content = {}
BY DEF Content, Kinds

LEMMA InitCachesInv == Init => CachesInv
<1> SUFFICES ASSUME Init PROVE CachesInv
  OBVIOUS
<1>1. MaxStrings \in Nat \ {0} /\ DOMAIN <<>> = 1 .. 0
  BY CacheAssumption DEF CacheAssumption
<1>2. TypeOK
  <2>1. 1 \in Strings /\ 0 \in 0 .. MaxStrings
    BY <1>1 DEF Strings
  <2>2. <<>> \in Seq(Keys) /\ <<>> \in Seq(Stored)
    BY EmptySeq
  <2>3. worker \in [Workers -> {Idle} \cup BusyState]
    BY DEF Init
  <2>4. synced \in [rows : Seq(Stored), poolBlob : 0 .. MaxStrings]
    BY <2>1, <2>2 DEF Init
  <2>5. kind \in Kinds /\ starts \in Nat /\ running \in BOOLEAN /\ limit \in Nat
    BY DEF Init
  <2> QED BY <2>1, <2>2, <2>3, <2>4, <2>5 DEF Init, TypeOK, StaticIds
<1>3. ToSet(<<>>) = {} /\ IsInjective(<<>>) /\ RowsApart(<<>>)
  BY DEF ToSet, IsInjective, RowsApart
<1>4. \A w \in Workers : ~Busy(w)
  BY DEF Init, Busy, Idle
<1>5. BusyAreApart /\ OthersAreEmpty
  BY <1>4 DEF BusyAreApart, OthersAreEmpty, Init
<1>6. StringsComeFirst
  BY <1>3, <1>4 DEF StringsComeFirst, Init, Busy, Idle
<1>7. CountsMatch /\ ContentWasPut
  BY <1>3 DEF CountsMatch, ContentWasPut, FifoMatches, OnePerKey, KeysOf, Init
<1> QED BY <1>2, <1>5, <1>6, <1>7 DEF CachesInv

LEMMA FillTileKeeps ==
  ASSUME CachesInv, NEW w \in Workers, NEW k \in Keys, FillTile(w, k)
  PROVE  CachesInv'
<1>1. PICK n \in pool .. MaxStrings :
        /\ pool' = n
        /\ worker' = [worker EXCEPT ![w] = [at |-> "filled", key |-> k, data |-> n]]
  BY DEF FillTile
<1>2. /\ running /\ worker[w] = Idle /\ k \notin KeysOf(Content)
      /\ \A v \in Workers : Busy(v) => worker[v].key # k
      /\ kind' = kind /\ starts' = starts /\ running' = running /\ limit' = limit
      /\ offset' = offset /\ cachedTiles' = cachedTiles /\ fifo' = fifo /\ rows' = rows
      /\ poolBlob' = poolBlob /\ synced' = synced /\ puts' = puts /\ ever' = ever
  BY DEF FillTile, Missing, diskVars, Busy
<1>3. TypeOK /\ BusyAreApart /\ OthersAreEmpty /\ StringsComeFirst /\ CountsMatch
      /\ ContentWasPut
  BY DEF CachesInv
<1>4. MaxStrings \in Nat /\ pool \in Strings /\ n \in Strings /\ pool <= n
  BY <1>3, CacheAssumption DEF TypeOK, CacheAssumption, Strings
<1>5. TypeOK'
  BY <1>1, <1>2, <1>3, <1>4 DEF TypeOK, BusyState
<1>6. \A v \in Workers : worker'[v] = IF v = w THEN [at |-> "filled", key |-> k, data |-> n]
                                      ELSE worker[v]
  BY <1>1, <1>3 DEF TypeOK
<1>7. Content' = Content
  BY <1>2 DEF Content
<1>8. BusyAreApart'
  BY <1>2, <1>3, <1>6, <1>7 DEF BusyAreApart, Busy
<1>9. OthersAreEmpty' /\ ContentWasPut'
  BY <1>2, <1>3 DEF OthersAreEmpty, ContentWasPut
<1>10. StringsComeFirst'
  <2>1. \A t \in cachedTiles : t[2] \in Nat
    BY <1>3, <1>4 DEF TypeOK, Stored, Strings
  <2>2. \A v \in Workers : Busy(v) => worker[v].data \in Nat
    BY <1>3, <1>4 DEF TypeOK, Busy, Idle, BusyState, Strings
  <2>3. \A v \in Workers : Busy(v)' => worker'[v].data <= pool'
    BY <1>1, <1>3, <1>4, <1>6, <2>2 DEF StringsComeFirst, Busy, Strings
  <2>4. \A t \in cachedTiles' : t[2] <= pool'
    BY <1>1, <1>2, <1>3, <1>4, <2>1 DEF StringsComeFirst, Strings
  <2>5. running' => poolBlob' <= pool'
    BY <1>1, <1>2, <1>3, <1>4 DEF StringsComeFirst, Strings, TypeOK
  <2> QED BY <1>2, <1>3, <1>6, <2>3, <2>4, <2>5 DEF StringsComeFirst
<1>11. CountsMatch'
  BY <1>2, <1>3 DEF CountsMatch, FifoMatches
<1> QED BY <1>5, <1>8, <1>9, <1>10, <1>11 DEF CachesInv

LEMMA PutStringsKeeps ==
  ASSUME CachesInv, NEW w \in Workers, PutStrings(w)
  PROVE  CachesInv'
<1>1. /\ running /\ worker[w].at = "filled"
      /\ poolBlob' = StoredStrings /\ offset' = IF offset < pool THEN pool ELSE offset
      /\ worker' = [worker EXCEPT ![w].at = "storing"]
      /\ kind' = kind /\ starts' = starts /\ running' = running /\ limit' = limit
      /\ pool' = pool /\ cachedTiles' = cachedTiles /\ fifo' = fifo /\ rows' = rows
      /\ synced' = synced /\ puts' = puts /\ ever' = ever
  BY DEF PutStrings
<1>2. TypeOK /\ BusyAreApart /\ OthersAreEmpty /\ StringsComeFirst /\ CountsMatch
      /\ ContentWasPut
  BY DEF CachesInv
<1>3. MaxStrings \in Nat /\ pool \in Strings /\ poolBlob \in 0 .. MaxStrings
      /\ offset \in 0 .. MaxStrings
  BY <1>2, CacheAssumption DEF TypeOK, CacheAssumption
<1>4. worker[w] \in BusyState
  BY <1>1, <1>2 DEF TypeOK, Idle
<1>5. \A v \in Workers : worker'[v] = IF v = w
        THEN [at |-> "storing", key |-> worker[w].key, data |-> worker[w].data]
        ELSE worker[v]
  BY <1>1, <1>2, <1>4 DEF TypeOK, BusyState
<1>6. /\ poolBlob' \in 0 .. MaxStrings /\ offset' \in 0 .. MaxStrings
      /\ poolBlob <= poolBlob' /\ poolBlob' <= pool
      /\ kind = "persistent" => poolBlob' = offset' /\ pool <= poolBlob'
      /\ kind # "persistent" => poolBlob' = 0
  BY <1>1, <1>2, <1>3 DEF StoredStrings, StringsComeFirst, OthersAreEmpty, Strings
<1>7. TypeOK'
  BY <1>1, <1>2, <1>4, <1>5, <1>6 DEF TypeOK, BusyState
<1>8. Content' = Content
  BY <1>1 DEF Content
<1>9. BusyAreApart'
  BY <1>1, <1>2, <1>5, <1>8 DEF BusyAreApart, Busy
<1>10. OthersAreEmpty' /\ ContentWasPut'
  BY <1>1, <1>2, <1>6 DEF OthersAreEmpty, ContentWasPut
<1>11. StringsComeFirst'
  <2>1. \A t \in ToSet(rows) : t[2] \in Nat
    BY <1>2, <1>3, LenProperties DEF TypeOK, Stored, Strings, ToSet
  <2>2. \A v \in Workers : Busy(v) => worker[v].data \in Nat
    BY <1>2, <1>3 DEF TypeOK, Busy, Idle, BusyState, Strings
  <2>3. \A v \in Workers : Busy(v)' => worker'[v].data <= pool'
    BY <1>1, <1>2, <1>5 DEF StringsComeFirst, Busy
  <2>4. ASSUME NEW v \in Workers, worker'[v].at = "storing", kind' = "persistent"
        PROVE  worker'[v].data <= poolBlob'
    <3>1. CASE v = w
      BY <1>1, <1>2, <1>3, <1>4, <1>5, <1>6, <2>2, <2>4, <3>1 DEF StringsComeFirst, Busy, Strings
    <3>2. CASE v # w
      BY <1>1, <1>2, <1>3, <1>5, <1>6, <2>2, <2>4, <3>2 DEF StringsComeFirst, Busy
    <3> QED BY <3>1, <3>2
  <2>5. \A t \in ToSet(rows) : t[2] <= poolBlob'
    BY <1>2, <1>3, <1>6, <2>1 DEF StringsComeFirst
  <2> QED BY <1>1, <1>2, <1>6, <2>3, <2>4, <2>5 DEF StringsComeFirst
<1>12. CountsMatch'
  BY <1>1, <1>2 DEF CountsMatch, FifoMatches
<1> QED BY <1>7, <1>9, <1>10, <1>11, <1>12 DEF CachesInv

\* What a worker that stores its tile may put, and what PutTile leaves alone.
LEMMA PutTileFacts ==
  ASSUME CachesInv, NEW w \in Workers, PutTile(w)
  PROVE  LET t == <<worker[w].key, worker[w].data>>
         IN  /\ t \in Stored /\ t[1] \notin KeysOf(Content) /\ t[2] <= pool
             /\ kind = "persistent" => t[2] <= poolBlob
             /\ \A v \in Workers \ {w} : Busy(v) => worker[v].key # t[1]
             /\ kind = "memory" => PutInMemory(t)
             /\ kind = "persistent" => PutInTable(t)
             /\ kind = "none" => UNCHANGED <<cachedTiles, fifo, diskVars>>
             /\ puts' = Append(puts, t) /\ ever' = ever \cup {t}
             /\ \A v \in Workers : worker'[v] = IF v = w THEN Idle ELSE worker[v]
             /\ worker' \in [Workers -> {Idle} \cup BusyState]
             /\ running /\ UNCHANGED <<kind, starts, running, limit, pool, offset, synced>>
<1> DEFINE t == <<worker[w].key, worker[w].data>>
<1>1. TypeOK /\ BusyAreApart /\ StringsComeFirst
  BY DEF CachesInv
<1>2. worker[w] \in BusyState /\ Busy(w) /\ worker[w].at = "storing"
  BY <1>1 DEF PutTile, TypeOK, Idle, Busy
<1>3. t \in Stored /\ t[1] = worker[w].key /\ t[2] = worker[w].data
  BY <1>2 DEF BusyState, Stored
<1>4. t[1] \notin KeysOf(Content) /\ \A v \in Workers \ {w} : Busy(v) => worker[v].key # t[1]
  BY <1>1, <1>2, <1>3 DEF BusyAreApart
<1>5. t[2] <= pool /\ (kind = "persistent" => t[2] <= poolBlob)
  BY <1>1, <1>2, <1>3 DEF StringsComeFirst
<1>6. /\ worker' \in [Workers -> {Idle} \cup BusyState]
      /\ \A v \in Workers : worker'[v] = IF v = w THEN Idle ELSE worker[v]
  BY <1>1 DEF PutTile, TypeOK
<1>7. /\ kind = "memory" => PutInMemory(t)
      /\ kind = "persistent" => PutInTable(t)
      /\ kind = "none" => UNCHANGED <<cachedTiles, fifo, diskVars>>
      /\ puts' = Append(puts, t) /\ ever' = ever \cup {t}
      /\ running /\ UNCHANGED <<kind, starts, running, limit, pool, offset, synced>>
  BY DEF PutTile
<1> QED BY <1>3, <1>4, <1>5, <1>6, <1>7

\* A put in memory: the new key comes first, and the last ones go with their tiles.
LEMMA PutInMemoryAdds ==
  ASSUME CachesInv, kind = "memory", running, NEW t \in Stored,
         t[1] \notin KeysOf(Content), PutInMemory(t)
  PROVE  /\ cachedTiles' \subseteq cachedTiles \cup {t}
         /\ fifo' \in Seq(Keys) /\ Len(fifo') <= limit /\ Len(fifo') <= Len(fifo) + 1
         /\ \A i \in 1 .. Len(fifo') : fifo'[i] = IF i = 1 THEN t[1] ELSE fifo[i - 1]
         /\ FifoMatches' /\ OnePerKey(cachedTiles')
         /\ UNCHANGED diskVars
<1> DEFINE keys == <<t[1]>> \o fifo
           n    == Len(Evict(keys))
<1>1. TypeOK /\ OthersAreEmpty /\ CountsMatch
  BY DEF CachesInv
<1>2. /\ fifo \in Seq(Keys) /\ Len(fifo) \in Nat /\ DOMAIN fifo = 1 .. Len(fifo)
      /\ limit \in Nat /\ cachedTiles \subseteq Stored
      /\ t[1] \in Keys /\ Content = cachedTiles
  BY <1>1, LenProperties, ContentByKind DEF TypeOK, Stored
<1>3. /\ keys \in Seq(Keys) /\ Len(keys) = Len(fifo) + 1
      /\ \A i \in 1 .. Len(keys) : keys[i] = IF i = 1 THEN t[1] ELSE fifo[i - 1]
  BY <1>2
<1> HIDE DEF keys
<1>4. DOMAIN keys = 1 .. Len(keys)
  BY <1>3, LenProperties
<1>5. /\ Evict(keys) \in Seq(Keys) /\ n \in 0 .. Len(keys) /\ n <= limit
      /\ DOMAIN Evict(keys) = 1 .. n
      /\ \A i \in 1 .. n : Evict(keys)[i] = keys[i]
  <2>1. CASE Len(keys) > limit
    <3>1. limit \in 0 .. Len(keys)
      BY <1>2, <1>3, <2>1
    <3>2. /\ SubSeq(keys, 1, limit) \in Seq(Keys) /\ Len(SubSeq(keys, 1, limit)) = limit
          /\ \A i \in 1 .. limit : SubSeq(keys, 1, limit)[i] = keys[i]
      BY <1>3, <3>1, Beginning
    <3> QED BY <1>2, <2>1, <3>1, <3>2, LenProperties DEF Evict
  <2>2. CASE ~(Len(keys) > limit)
    BY <1>2, <1>3, <1>4, <2>2 DEF Evict
  <2> QED BY <2>1, <2>2
<1>6. fifo' = Evict(keys) /\ UNCHANGED diskVars
      /\ cachedTiles' = {u \in cachedTiles \cup {t} : u[1] \notin Popped(keys)}
  BY <1>2 DEF PutInMemory, keys
<1>7. Popped(keys) = {keys[i] : i \in n + 1 .. Len(keys)}
  <2> DEFINE rest == SubSeq(keys, n + 1, Len(keys))
  <2>1. /\ rest \in Seq(Keys) /\ Len(rest) = Len(keys) - n
        /\ \A i \in 1 .. Len(rest) : rest[i] = keys[n + i]
    BY <1>3, <1>5, Remaining
  <2>2. DOMAIN rest = 1 .. Len(rest)
    BY <2>1, LenProperties
  <2>3. Popped(keys) = ToSet(rest)
    BY DEF Popped
  <2> HIDE DEF rest
  <2>4. n \in Nat /\ Len(keys) \in Nat
    BY <1>2, <1>3, <1>5
  <2> HIDE DEF n
  <2>5. \A i \in n + 1 .. Len(keys) : i - n \in 1 .. Len(rest) /\ n + (i - n) = i
    BY <2>1, <2>4
  <2>6. \A i \in 1 .. Len(rest) : n + i \in n + 1 .. Len(keys)
    BY <2>1, <2>4
  <2> QED BY <2>1, <2>2, <2>3, <2>5, <2>6 DEF ToSet
<1>8. \A i, j \in 1 .. Len(keys) : keys[i] = keys[j] => i = j
  <2>1. \A i \in 1 .. Len(fifo) : fifo[i] # t[1]
    BY <1>1, <1>2 DEF CountsMatch, FifoMatches, ToSet
  <2>2. \A i, j \in 1 .. Len(fifo) : fifo[i] = fifo[j] => i = j
    BY <1>1, <1>2 DEF CountsMatch, FifoMatches, IsInjective
  <2>3. \A i \in 1 .. Len(keys) : i # 1 => i - 1 \in 1 .. Len(fifo)
    BY <1>2, <1>3
  <2>4. \A i, j \in 1 .. Len(keys) : i - 1 = j - 1 => i = j
    OBVIOUS
  <2> QED BY <1>3, <2>1, <2>2, <2>3, <2>4
<1>9. KeysOf(cachedTiles \cup {t}) = ToSet(keys)
  <2>1. ToSet(keys) = {t[1]} \cup ToSet(fifo)
    <3>1. \A i \in 1 .. Len(fifo) : i + 1 \in 1 .. Len(keys) /\ keys[i + 1] = fifo[i]
      BY <1>2, <1>3
    <3>2. \A i \in 1 .. Len(keys) : i # 1 => i - 1 \in 1 .. Len(fifo)
      BY <1>2, <1>3
    <3>3. 1 \in 1 .. Len(keys) /\ keys[1] = t[1]
      BY <1>2, <1>3
    <3>4. ToSet(keys) \subseteq {t[1]} \cup ToSet(fifo)
      <4>1. \A i \in 1 .. Len(keys) : keys[i] = t[1] \/ \E j \in 1 .. Len(fifo) : keys[i] = fifo[j]
        BY <1>3, <3>2
      <4> QED BY <1>2, <1>4, <4>1 DEF ToSet
    <3>5. {t[1]} \cup ToSet(fifo) \subseteq ToSet(keys)
      <4>1. \A j \in 1 .. Len(fifo) : \E i \in 1 .. Len(keys) : fifo[j] = keys[i]
        BY <3>1
      <4> QED BY <1>2, <1>4, <3>3, <4>1 DEF ToSet
    <3> QED BY <3>4, <3>5
  <2> QED BY <1>1, <2>1 DEF CountsMatch, FifoMatches, KeysOf
<1>10. ToSet(keys) = ToSet(Evict(keys)) \cup Popped(keys) /\ ToSet(Evict(keys)) \cap Popped(keys) = {}
  <2>1. n \in Nat /\ n <= Len(keys) /\ Len(keys) \in Nat
    BY <1>2, <1>3, <1>5
  <2>2. ToSet(Evict(keys)) = {keys[i] : i \in 1 .. n}
    BY <1>5 DEF ToSet
  <2> HIDE DEF n
  <2>3. 1 .. Len(keys) = 1 .. n \cup n + 1 .. Len(keys)
        /\ \A i \in 1 .. n, j \in n + 1 .. Len(keys) :
              i \in 1 .. Len(keys) /\ j \in 1 .. Len(keys) /\ i # j
    BY <2>1
  <2>4. \A i \in 1 .. n, j \in n + 1 .. Len(keys) : keys[i] # keys[j]
    BY <1>8, <2>3
  <2>5. ToSet(keys) = {keys[i] : i \in 1 .. Len(keys)}
    BY <1>4 DEF ToSet
  <2>6. ToSet(Evict(keys)) \cap Popped(keys) = {}
    BY <1>7, <2>2, <2>4
  <2>7. {keys[i] : i \in 1 .. Len(keys)}
          = {keys[i] : i \in 1 .. n} \cup {keys[i] : i \in n + 1 .. Len(keys)}
    BY <2>3
  <2> QED BY <1>7, <2>2, <2>5, <2>6, <2>7
<1>11. KeysOf(cachedTiles') = ToSet(fifo')
  BY <1>6, <1>9, <1>10 DEF KeysOf
<1>12. IsInjective(fifo')
  <2>1. \A i \in 1 .. n : i \in 1 .. Len(keys)
    BY <1>2, <1>3, <1>5
  <2> QED BY <1>5, <1>6, <1>8, <2>1 DEF IsInjective
<1>13. OnePerKey(cachedTiles')
  BY <1>1, <1>2, <1>6 DEF CountsMatch, OnePerKey, KeysOf
<1>14. \A i \in 1 .. Len(fifo') : fifo'[i] = IF i = 1 THEN t[1] ELSE fifo[i - 1]
  BY <1>2, <1>3, <1>5, <1>6
<1>15. FifoMatches'
  BY <1>11, <1>12 DEF FifoMatches
<1>16. Len(fifo') <= limit /\ Len(fifo') <= Len(fifo) + 1 /\ fifo' \in Seq(Keys)
  BY <1>3, <1>5, <1>6, <1>2
<1> QED BY <1>6, <1>13, <1>14, <1>15, <1>16

\* A put in the database: the new row comes last, and the first one may go.
LEMMA PutInTableAdds ==
  ASSUME CachesInv, kind = "persistent", running, NEW t \in Stored,
         t[1] \notin KeysOf(Content), PutInTable(t)
  PROVE  /\ rows' = IF OverLimit(Append(rows, t)) THEN Tail(Append(rows, t)) ELSE Append(rows, t)
         /\ rows' \in Seq(Stored) /\ ToSet(rows') \subseteq ToSet(rows) \cup {t}
         /\ limit > 0 => Len(rows') <= limit
         /\ RowsApart(rows')
         /\ UNCHANGED <<cachedTiles, fifo, poolBlob>>
<1> DEFINE table == Append(rows, t)
<1>1. TypeOK /\ OthersAreEmpty /\ CountsMatch
  BY DEF CachesInv
<1>2. rows \in Seq(Stored) /\ Len(rows) \in Nat /\ limit \in Nat /\ Content = ToSet(rows)
  BY <1>1, LenProperties, ContentByKind DEF TypeOK
<1>3. WithoutKey(rows, t[1]) = rows
  BY <1>2 DEF WithoutKey
<1>4. /\ rows' = IF OverLimit(table) THEN Tail(table) ELSE table
      /\ UNCHANGED <<cachedTiles, fifo, poolBlob>>
  BY <1>3 DEF PutInTable, WithoutOldest
<1>5. /\ table \in Seq(Stored) /\ ToSet(table) = ToSet(rows) \cup {t} /\ Len(table) = Len(rows) + 1
      /\ RowsApart(table)
  BY <1>1, <1>2, Appended, RowsStayApart DEF CountsMatch
<1> HIDE DEF table
<1>6. Tail(table) = SubSeq(table, 2, Len(table)) /\ 1 \in 0 .. Len(table) /\ 1 + 1 = 2
  <2>1. table # <<>> /\ Len(table) \in Nat /\ 1 <= Len(table)
    BY <1>2, <1>5
  <2> QED BY <1>5, <2>1, TailIsSubSeq
<1>7. /\ Tail(table) \in Seq(Stored) /\ ToSet(Tail(table)) \subseteq ToSet(table)
      /\ Len(Tail(table)) = Len(table) - 1 /\ RowsApart(Tail(table))
  <2>1. /\ SubSeq(table, 1 + 1, Len(table)) \in Seq(Stored)
        /\ ToSet(SubSeq(table, 1 + 1, Len(table))) \subseteq ToSet(table)
        /\ Len(SubSeq(table, 1 + 1, Len(table))) = Len(table) - 1
    BY <1>5, <1>6, Remaining
  <2>2. RowsApart(SubSeq(table, 1 + 1, Len(table)))
    BY <1>5, <1>6, RowsStayApart
  <2> QED BY <1>6, <2>1, <2>2
<1>8. limit > 0 => Len(rows') <= limit
  BY <1>1, <1>2, <1>4, <1>5, <1>7 DEF CountsMatch, OverLimit
<1> QED BY <1>4, <1>5, <1>7, <1>8 DEF table

LEMMA PutTileKeeps ==
  ASSUME CachesInv, NEW w \in Workers, PutTile(w)
  PROVE  CachesInv'
<1> DEFINE t == <<worker[w].key, worker[w].data>>
<1>1. TypeOK /\ BusyAreApart /\ OthersAreEmpty /\ StringsComeFirst /\ CountsMatch
      /\ ContentWasPut
  BY DEF CachesInv
<1>2. /\ t \in Stored /\ t[1] \notin KeysOf(Content) /\ t[2] <= pool
      /\ kind = "persistent" => t[2] <= poolBlob
      /\ \A v \in Workers \ {w} : Busy(v) => worker[v].key # t[1]
      /\ kind = "memory" => PutInMemory(t)
      /\ kind = "persistent" => PutInTable(t)
      /\ kind = "none" => UNCHANGED <<cachedTiles, fifo, diskVars>>
      /\ puts' = Append(puts, t) /\ ever' = ever \cup {t}
      /\ \A v \in Workers : worker'[v] = IF v = w THEN Idle ELSE worker[v]
      /\ worker' \in [Workers -> {Idle} \cup BusyState]
      /\ running /\ UNCHANGED <<kind, starts, running, limit, pool, offset, synced>>
  BY PutTileFacts
<1> HIDE DEF t
<1>3. puts' \in Seq(Stored)
  BY <1>1, <1>2, Appended DEF TypeOK
<1>4. /\ cachedTiles' \subseteq cachedTiles \cup {t} /\ fifo' \in Seq(Keys)
      /\ rows' \in Seq(Stored) /\ ToSet(rows') \subseteq ToSet(rows) \cup {t}
      /\ poolBlob' = poolBlob
      /\ kind # "memory" => cachedTiles' = cachedTiles /\ fifo' = fifo
      /\ kind # "persistent" => rows' = rows
      /\ FifoMatches' /\ OnePerKey(cachedTiles') /\ RowsApart(rows')
      /\ kind = "memory" => Len(fifo') <= limit
      /\ kind = "persistent" /\ limit > 0 => Len(rows') <= limit
  <2>1. CASE kind = "memory"
    <3>1. rows' = rows /\ poolBlob' = poolBlob
      BY <1>2, <2>1, PutInMemoryAdds DEF diskVars
    <3> QED BY <1>1, <1>2, <2>1, <3>1, PutInMemoryAdds DEF TypeOK, CountsMatch
  <2>2. CASE kind = "persistent"
    <3>1. cachedTiles' = cachedTiles /\ fifo' = fifo /\ poolBlob' = poolBlob
      BY <1>2, <2>2, PutInTableAdds
    <3> QED BY <1>1, <1>2, <2>2, <3>1, PutInTableAdds DEF TypeOK, CountsMatch, FifoMatches
  <2>3. CASE kind = "none"
    BY <1>1, <1>2, <2>3 DEF TypeOK, CountsMatch, FifoMatches, diskVars
  <2> QED BY <1>1, <2>1, <2>2, <2>3 DEF TypeOK, Kinds
<1>5. TypeOK'
  BY <1>1, <1>2, <1>3, <1>4 DEF TypeOK
<1>6. \A v \in Workers : Busy(v)' <=> v # w /\ Busy(v)
  BY <1>2 DEF Busy, Idle
<1>7. KeysOf(Content') \subseteq KeysOf(Content) \cup {t[1]}
  <2>1. Content' \subseteq Content \cup {t}
    BY <1>2, <1>4 DEF Content
  <2> QED BY <2>1 DEF KeysOf
<1>8. BusyAreApart'
  BY <1>1, <1>2, <1>6, <1>7 DEF BusyAreApart
<1>9. OthersAreEmpty'
  BY <1>1, <1>2, <1>4 DEF OthersAreEmpty
<1>10. StringsComeFirst'
  <2>1. \A v \in Workers : Busy(v)' => worker'[v].data <= pool'
    BY <1>1, <1>2, <1>6 DEF StringsComeFirst
  <2>2. \A v \in Workers : worker'[v].at = "storing" => v # w /\ worker'[v] = worker[v]
    BY <1>2 DEF Idle
  <2>3. \A u \in cachedTiles' : u[2] <= pool'
    BY <1>1, <1>2, <1>4 DEF StringsComeFirst
  <2>4. \A u \in ToSet(rows') : u[2] <= poolBlob'
    BY <1>1, <1>2, <1>4, EmptySeq, ZenonT(30) DEF StringsComeFirst, OthersAreEmpty, ToSet
  <2> QED BY <1>1, <1>2, <1>4, <2>1, <2>2, <2>3, <2>4 DEF StringsComeFirst
<1>11. CountsMatch'
  BY <1>1, <1>2, <1>4 DEF CountsMatch
<1>12. ContentWasPut'
  BY <1>1, <1>2, <1>4 DEF ContentWasPut
<1> QED BY <1>5, <1>8, <1>9, <1>10, <1>11, <1>12 DEF CachesInv

LEMMA SyncKeeps == ASSUME CachesInv, Sync PROVE CachesInv'
<1>1. /\ kind = "persistent" /\ synced' = [rows |-> rows, poolBlob |-> poolBlob]
      /\ kind' = kind /\ starts' = starts /\ running' = running /\ limit' = limit
      /\ pool' = pool /\ offset' = offset /\ cachedTiles' = cachedTiles /\ fifo' = fifo
      /\ rows' = rows /\ poolBlob' = poolBlob /\ worker' = worker
      /\ puts' = puts /\ ever' = ever
  BY DEF Sync, memoryVars, diskVars
<1>2. synced'.rows = rows /\ synced'.poolBlob = poolBlob
  BY <1>1
<1>3. TypeOK /\ BusyAreApart /\ OthersAreEmpty /\ StringsComeFirst /\ CountsMatch
      /\ ContentWasPut
  BY DEF CachesInv
<1>4. TypeOK'
  BY <1>1, <1>3 DEF TypeOK
<1>5. Content' = Content /\ BusyAreApart'
  BY <1>1, <1>3 DEF BusyAreApart, Busy, Content
<1>6. OthersAreEmpty' /\ ContentWasPut' /\ StringsComeFirst'
  BY <1>1, <1>2, <1>3 DEF OthersAreEmpty, ContentWasPut, StringsComeFirst, Busy
<1>7. CountsMatch'
  BY <1>1, <1>2, <1>3 DEF CountsMatch, FifoMatches
<1> QED BY <1>4, <1>5, <1>6, <1>7 DEF CachesInv

LEMMA StopKeeps == ASSUME CachesInv, Stop PROVE CachesInv'
<1>1. TypeOK /\ BusyAreApart /\ OthersAreEmpty /\ StringsComeFirst /\ CountsMatch
      /\ ContentWasPut
  BY DEF CachesInv
<1>2. /\ running' = FALSE
      /\ synced' = [rows |-> rows', poolBlob |-> poolBlob']
      /\ pool' = 1 /\ offset' = 0 /\ cachedTiles' = {} /\ fifo' = <<>>
      /\ worker' = [w \in Workers |-> Idle]
      /\ kind' = kind /\ starts' = starts /\ limit' = limit /\ ever' = ever
  BY DEF Stop, StaticIds
<1>3. \/ rows' = rows /\ poolBlob' = poolBlob /\ puts' = puts
      \/ rows' = synced.rows /\ poolBlob' = synced.poolBlob /\ puts' = synced.rows
  BY DEF Stop, diskVars
<1>4. synced'.rows = rows' /\ synced'.poolBlob = poolBlob'
  BY <1>2
<1>5. 1 \in Strings /\ 0 \in 0 .. MaxStrings
  BY CacheAssumption DEF CacheAssumption, Strings
<1>6. \A w \in Workers : ~Busy(w)' /\ worker'[w].at # "storing"
  BY <1>2 DEF Busy, Idle
<1>7. TypeOK'
  <2>1. rows' \in Seq(Stored) /\ poolBlob' \in 0 .. MaxStrings /\ puts' \in Seq(Stored)
    BY <1>1, <1>3 DEF TypeOK
  <2>2. synced' \in [rows : Seq(Stored), poolBlob : 0 .. MaxStrings]
    BY <1>2, <2>1
  <2>3. fifo' \in Seq(Keys) /\ cachedTiles' \subseteq Stored
    BY <1>2, EmptySeq
  <2>4. worker' \in [Workers -> {Idle} \cup BusyState]
    BY <1>2
  <2> QED BY <1>1, <1>2, <1>5, <2>1, <2>2, <2>3, <2>4 DEF TypeOK
<1>8. BusyAreApart'
  BY <1>6 DEF BusyAreApart
<1>9. OthersAreEmpty' /\ ContentWasPut'
  BY <1>1, <1>2, <1>3, <1>4, <1>6 DEF OthersAreEmpty, ContentWasPut
<1>10. StringsComeFirst'
  BY <1>1, <1>2, <1>3, <1>4, <1>6 DEF StringsComeFirst
<1>11. CountsMatch'
  <2>1. ToSet(<<>>) = {} /\ IsInjective(<<>>)
    BY DEF ToSet, IsInjective
  <2> QED BY <1>1, <1>2, <1>3, <1>4, <2>1 DEF CountsMatch, FifoMatches, OnePerKey, KeysOf
<1> QED BY <1>7, <1>8, <1>9, <1>10, <1>11 DEF CachesInv

\* The rows that are left when the database is opened.
LEMMA RowsAfterStart ==
  ASSUME CachesInv, NEW l \in Limits, NEW clear \in BOOLEAN, Start(l, clear)
  PROVE  /\ rows' \in Seq(Stored) /\ ToSet(rows') \subseteq ToSet(rows) /\ RowsApart(rows')
         /\ l > 0 => Len(rows') <= l
         /\ clear => rows' = <<>>
         /\ rows' = <<>> \/ \E n \in 0 .. Len(rows) : rows' = SubSeq(rows, n + 1, Len(rows))
<1> DEFINE over == IF l > 0 /\ Len(rows) > l THEN Len(rows) - l ELSE 0
<1>1. TypeOK /\ CountsMatch
  BY DEF CachesInv
<1>2. /\ rows \in Seq(Stored) /\ Len(rows) \in Nat /\ l \in Nat
      /\ RowsApart(rows)
  BY <1>1, CacheAssumption, LenProperties DEF TypeOK, CacheAssumption, CountsMatch
<1>3. rows' = IF clear THEN <<>> ELSE SubSeq(rows, over + 1, Len(rows))
  BY DEF Start
<1>4. over \in 0 .. Len(rows) /\ (l > 0 => Len(rows) - over <= l)
  BY <1>2
<1> HIDE DEF over
<1>5. CASE clear
  <2>1. ToSet(<<>>) = {} /\ RowsApart(<<>>) /\ Len(<<>>) = 0 /\ <<>> \in Seq(Stored)
    BY EmptySeq DEF ToSet, RowsApart
  <2> QED BY <1>2, <1>3, <1>5, <2>1
<1>6. CASE ~clear
  <2>1. rows' = SubSeq(rows, over + 1, Len(rows))
    BY <1>3, <1>6
  <2>2. /\ rows' \in Seq(Stored) /\ Len(rows') = Len(rows) - over
        /\ ToSet(rows') \subseteq ToSet(rows)
    BY <1>2, <1>4, <2>1, Remaining
  <2>3. RowsApart(rows')
    BY <1>2, <1>4, <2>1, RowsStayApart
  <2> QED BY <1>4, <1>6, <2>1, <2>2, <2>3
<1> QED BY <1>5, <1>6

LEMMA StartKeeps ==
  ASSUME CachesInv, NEW l \in Limits, NEW clear \in BOOLEAN, Start(l, clear)
  PROVE  CachesInv'
<1>1. TypeOK /\ BusyAreApart /\ OthersAreEmpty /\ StringsComeFirst /\ CountsMatch
      /\ ContentWasPut
  BY DEF CachesInv
<1>2. /\ ~running /\ running' = TRUE /\ starts' = starts + 1 /\ limit' = l
      /\ clear => kind = "persistent"
      /\ poolBlob' = IF clear THEN 0 ELSE poolBlob
      /\ pool' = LoadedPool(poolBlob').pool /\ offset' = LoadedPool(poolBlob').offset
      /\ kind' = kind /\ cachedTiles' = cachedTiles /\ fifo' = fifo /\ synced' = synced
      /\ worker' = worker /\ puts' = puts /\ ever' = ever
  BY DEF Start
<1>3. /\ rows' \in Seq(Stored) /\ ToSet(rows') \subseteq ToSet(rows) /\ RowsApart(rows')
      /\ l > 0 => Len(rows') <= l
      /\ clear => rows' = <<>>
      /\ rows' = <<>> \/ \E n \in 0 .. Len(rows) : rows' = SubSeq(rows, n + 1, Len(rows))
  BY RowsAfterStart
<1>4. l \in Nat /\ MaxStrings \in Nat \ {0}
  BY CacheAssumption DEF CacheAssumption
<1>5. /\ poolBlob' \in 0 .. MaxStrings /\ pool' \in Strings /\ offset' \in 0 .. MaxStrings
      /\ poolBlob' <= pool' /\ offset' = poolBlob'
  BY <1>1, <1>2, <1>4 DEF TypeOK, LoadedPool, StaticIds, Strings
<1>6. TypeOK'
  BY <1>1, <1>2, <1>3, <1>4, <1>5 DEF TypeOK
<1>7. \A w \in Workers : ~Busy(w) /\ ~Busy(w)' /\ worker[w].at # "storing"
  <2>1. \A w \in Workers : ~Busy(w)
    BY <1>1, <1>2 DEF OthersAreEmpty
  <2> QED BY <1>1, <1>2, <2>1 DEF TypeOK, Busy, Idle
<1>8. BusyAreApart'
  BY <1>7 DEF BusyAreApart
<1>9. cachedTiles = {} /\ fifo = <<>>
  BY <1>1, <1>2 DEF OthersAreEmpty
<1>10. kind # "persistent" => rows' = <<>> /\ poolBlob' = 0
  <2>1. ASSUME kind # "persistent"
        PROVE  rows' = <<>> /\ poolBlob' = 0
    <3>1. rows = <<>> /\ poolBlob = 0 /\ ~clear
      BY <1>1, <1>2, <2>1 DEF OthersAreEmpty
    <3>2. \A n \in 0 .. Len(rows) : SubSeq(rows, n + 1, Len(rows)) = <<>>
      BY <3>1
    <3> QED BY <1>2, <1>3, <3>1, <3>2
  <2> QED BY <2>1
<1>11. OthersAreEmpty' /\ ContentWasPut'
  BY <1>1, <1>2, <1>3, <1>7, <1>9, <1>10 DEF OthersAreEmpty, ContentWasPut
<1>12. StringsComeFirst'
  <2>1. \A t \in ToSet(rows') : t[2] <= poolBlob'
    <3>1. CASE clear
      BY <1>3, <3>1 DEF ToSet
    <3>2. CASE ~clear
      BY <1>1, <1>2, <1>3, <3>2 DEF StringsComeFirst
    <3> QED BY <3>1, <3>2
  <2> QED BY <1>1, <1>2, <1>5, <1>7, <1>9, <2>1 DEF StringsComeFirst
<1>13. CountsMatch'
  <2>1. Len(<<>>) = 0
    OBVIOUS
  <2> QED BY <1>1, <1>2, <1>3, <1>4, <1>9, <2>1 DEF CountsMatch, FifoMatches
<1> QED BY <1>6, <1>8, <1>11, <1>12, <1>13 DEF CachesInv

LEMMA StepCachesInv == CachesInv /\ [Next]_vars => CachesInv'
<1> SUFFICES ASSUME CachesInv, [Next]_vars PROVE CachesInv'
  OBVIOUS
<1>1. CASE Next
  BY <1>1, FillTileKeeps, PutStringsKeeps, PutTileKeeps, SyncKeeps, StopKeeps, StartKeeps DEF Next
<1>2. CASE UNCHANGED vars
  <2>1. CachesInv' <=> CachesInv
    BY <1>2 DEF vars, memoryVars, diskVars, CachesInv, TypeOK, BusyAreApart, Busy, Content,
       KeysOf, OthersAreEmpty, StringsComeFirst, CountsMatch, FifoMatches, ContentWasPut
  <2> QED BY <2>1
<1> QED BY <1>1, <1>2

\* Types, apart keys, strings before tiles and counts that match hold together.
THEOREM CachesInvariant == Spec => []CachesInv
BY InitCachesInv, StepCachesInv, PTL DEF Spec

\* No crash and no loss of power separates a tile from the strings it needs, and
\* a remote data source is told of no string that the database does not have.
THEOREM NoTileWithoutStrings == Spec => []StringsAreStored
<1>1. CachesInv => StringsAreStored
  <2> SUFFICES ASSUME CachesInv PROVE StringsAreStored
    OBVIOUS
  <2>1. TypeOK /\ OthersAreEmpty /\ StringsComeFirst
    BY DEF CachesInv
  <2>2. pool \in Nat /\ poolBlob \in Nat /\ \A t \in ToSet(rows) : t[2] \in Nat
    BY <2>1, CacheAssumption, LenProperties DEF TypeOK, CacheAssumption, Strings, Stored, ToSet
  <2>3. running => \A t \in Content : t[2] <= pool
    <3>1. CASE kind = "memory"
      BY <2>1, <3>1, ContentByKind DEF TypeOK, StringsComeFirst
    <3>2. CASE kind = "persistent"
      <4>1. Content = ToSet(rows)
        BY <2>1, <3>2, ContentByKind DEF TypeOK
      <4>2. running => poolBlob <= pool /\ \A t \in ToSet(rows) : t[2] <= poolBlob
        BY <2>1 DEF StringsComeFirst
      <4> QED BY <2>2, <4>1, <4>2
    <3>3. CASE kind = "none"
      BY <2>1, <3>3, ContentByKind DEF TypeOK
    <3> QED BY <2>1, <3>1, <3>2, <3>3 DEF TypeOK, Kinds
  <2>4. OffsetIsStored
    BY <2>1, <2>2 DEF StringsComeFirst, OffsetIsStored
  <2>5. TilesHaveStrings
    BY <2>1, <2>3 DEF StringsComeFirst, TilesHaveStrings
  <2> QED BY <2>4, <2>5 DEF StringsAreStored
<1> QED BY <1>1, CachesInvariant, PTL

\* As many tiles as keys in the fifo, or as rows in the table.
LEMMA ContentIsCounted ==
  ASSUME CachesInv
  PROVE  /\ IsFiniteSet(Content) /\ Cardinality(Content) \in Nat
         /\ kind = "memory" => Cardinality(Content) <= Len(fifo)
         /\ kind = "persistent" => Cardinality(Content) <= Len(rows)
<1>1. TypeOK /\ OthersAreEmpty /\ CountsMatch
  BY DEF CachesInv
<1>2. /\ Len(fifo) \in Nat /\ DOMAIN fifo = 1 .. Len(fifo)
      /\ Len(rows) \in Nat /\ DOMAIN rows = 1 .. Len(rows)
  BY <1>1, LenProperties DEF TypeOK
<1>3. ASSUME kind = "memory"
      PROVE  IsFiniteSet(Content) /\ Cardinality(Content) <= Len(fifo)
  <2> DEFINE tileOf == [i \in 1 .. Len(fifo) |-> CHOOSE t \in cachedTiles : t[1] = fifo[i]]
  <2>1. \A i \in 1 .. Len(fifo) : tileOf[i] \in cachedTiles /\ tileOf[i][1] = fifo[i]
    <3>1. \A i \in 1 .. Len(fifo) : \E t \in cachedTiles : t[1] = fifo[i]
      BY <1>1, <1>2 DEF CountsMatch, FifoMatches, ToSet, KeysOf
    <3> QED BY <3>1
  <2>2. \A t \in cachedTiles : \E i \in 1 .. Len(fifo) : fifo[i] = t[1]
    BY <1>1, <1>2 DEF CountsMatch, FifoMatches, ToSet, KeysOf
  <2>3. tileOf \in [1 .. Len(fifo) -> cachedTiles]
    BY <2>1
  <2> HIDE DEF tileOf
  <2>4. tileOf \in Surjection(1 .. Len(fifo), cachedTiles)
    BY <1>1, <2>1, <2>2, <2>3 DEF Surjection, CountsMatch, OnePerKey
  <2>5. IsFiniteSet(cachedTiles)
    BY <1>2, <2>4, FS_Interval, FS_Surjection
  <2> QED BY <1>1, <1>2, <1>3, <2>4, <2>5, ContentByKind, FS_SurjCardinalityBound
          DEF ExistsSurjection, TypeOK
<1>4. ASSUME kind = "persistent"
      PROVE  IsFiniteSet(Content) /\ Cardinality(Content) <= Len(rows)
  <2>1. rows \in Surjection(1 .. Len(rows), ToSet(rows))
    BY <1>1, <1>2 DEF Surjection, TypeOK, ToSet
  <2>2. IsFiniteSet(ToSet(rows))
    BY <1>2, <2>1, FS_Interval, FS_Surjection
  <2> QED BY <1>1, <1>2, <1>4, <2>1, <2>2, ContentByKind, FS_SurjCardinalityBound
          DEF ExistsSurjection, TypeOK
<1>5. kind = "none" => IsFiniteSet(Content)
  BY <1>1, ContentByKind, FS_EmptySet DEF TypeOK
<1>6. IsFiniteSet(Content)
  BY <1>1, <1>3, <1>4, <1>5 DEF TypeOK, Kinds
<1> QED BY <1>3, <1>4, <1>6, FS_CardinalityType

\* Every cache keeps its limit through puts, crashes and starts with other options.
THEOREM CachesKeepTheirLimit == Spec => []CacheIsLimited
<1>1. CachesInv => CacheIsLimited
  <2> SUFFICES ASSUME CachesInv PROVE CacheIsLimited
    OBVIOUS
  <2>1. TypeOK /\ OthersAreEmpty /\ CountsMatch
    BY DEF CachesInv
  <2>2. limit \in Nat /\ Len(fifo) \in Nat /\ Len(rows) \in Nat
    BY <2>1, LenProperties DEF TypeOK
  <2>3. ASSUME running, limit > 0
        PROVE  Cardinality(Content) <= limit
    <3>1. CASE kind = "memory"
      BY <2>1, <2>2, <2>3, <3>1, ContentIsCounted DEF CountsMatch
    <3>2. CASE kind = "persistent"
      BY <2>1, <2>2, <2>3, <3>2, ContentIsCounted DEF CountsMatch
    <3>3. CASE kind = "none"
      <4>1. Content = {} /\ Cardinality({}) = 0
        BY <2>1, <3>3, ContentByKind, FS_EmptySet DEF TypeOK
      <4> QED BY <2>2, <4>1
    <3> QED BY <2>1, <3>1, <3>2, <3>3 DEF TypeOK, Kinds
  <2> QED BY <2>1, <2>3 DEF CacheIsLimited, LimitHolds, CountsMatch
<1> QED BY <1>1, CachesInvariant, PTL

(***************************************************************************)
(* TileStore                                                               *)
(***************************************************************************)
\* A put of any cache finds its own tile or none under the key, and nothing new.
LEMMA PutTileRefines ==
  ASSUME CachesInv, NEW w \in Workers, PutTile(w)
  PROVE  \E k \in Keys, d \in 1 .. MaxStrings : Store!Put(k, d)
<1> DEFINE t == <<worker[w].key, worker[w].data>>
<1>1. TypeOK /\ OthersAreEmpty
  BY DEF CachesInv
<1>2. /\ t \in Stored /\ t[1] \notin KeysOf(Content)
      /\ kind = "memory" => PutInMemory(t)
      /\ kind = "persistent" => PutInTable(t)
      /\ kind = "none" => UNCHANGED <<cachedTiles, fifo, diskVars>>
      /\ ever' = ever \cup {t} /\ running /\ kind' = kind
  BY PutTileFacts
<1>3. t = <<t[1], t[2]>> /\ t[1] \in Keys /\ t[2] \in 1 .. MaxStrings
  BY <1>2 DEF Stored, Strings
<1> HIDE DEF t
<1>4. Content' \subseteq Content \cup {t}
  <2>1. CASE kind = "memory"
    BY <1>1, <1>2, <2>1, PutInMemoryAdds, ContentByKind DEF Content, TypeOK
  <2>2. CASE kind = "persistent"
    BY <1>1, <1>2, <2>2, PutInTableAdds, ContentByKind DEF Content, TypeOK
  <2>3. CASE kind = "none"
    BY <1>1, <1>2, <2>3 DEF Content, Kinds
  <2> QED BY <1>1, <2>1, <2>2, <2>3 DEF TypeOK, Kinds
<1>5. \A e \in Content' : e[1] = t[1] => e = t
  BY <1>2, <1>4 DEF KeysOf
<1>6. Store!Put(t[1], t[2])
  BY <1>2, <1>3, <1>4, <1>5 DEF Store!Put
<1> QED BY <1>3, <1>6

LEMMA StepRefinesStore ==
  ASSUME CachesInv, CachesInv', [Next]_vars
  PROVE  [Store!Next]_<<Content, ever>>
<1>1. ASSUME NEW w \in Workers, NEW k \in Keys, FillTile(w, k)
      PROVE  UNCHANGED <<Content, ever>>
  BY <1>1 DEF FillTile, Content, diskVars
<1>2. ASSUME NEW w \in Workers, PutStrings(w)
      PROVE  UNCHANGED <<Content, ever>>
  BY <1>2 DEF PutStrings, Content
<1>3. ASSUME NEW w \in Workers, PutTile(w)
      PROVE  Store!Next
  BY <1>3, PutTileRefines DEF Store!Next
<1>4. CASE Sync
  BY <1>4 DEF Sync, Content, memoryVars, diskVars
<1>5. CASE Stop \/ \E l \in Limits, clear \in BOOLEAN : Start(l, clear)
  <2>1. ever' = ever
    BY <1>5 DEF Stop, Start
  <2>2. Content' \subseteq ever'
    BY DEF CachesInv, TypeOK, Kinds, ContentWasPut, Content
  <2> QED BY <2>1, <2>2 DEF Store!Next, Store!Restart
<1>6. CASE UNCHANGED vars
  BY <1>6 DEF vars, Content, memoryVars, diskVars
<1> QED BY <1>1, <1>2, <1>3, <1>4, <1>5, <1>6 DEF Next

\* TileService may rely on TileStore whichever cache is chosen: each put, crash and
\* start of the three caches is a put or a restart of the store, or changes nothing.
THEOREM CachesImplementTileStore == Spec => ImplementsTileStore
<1>1. Init => Store!Init
  BY DEF Init, Store!Init, Content, ToSet, Kinds
<1>2. CachesInv /\ CachesInv' /\ [Next]_vars => [Store!Next]_<<Content, ever>>
  BY StepRefinesStore
<1> QED BY <1>1, <1>2, CachesInvariant, PTL DEF Spec, ImplementsTileStore, Store!Spec

(***************************************************************************)
(* The order of eviction                                                   *)
(***************************************************************************)
\* A non-empty set of positions has a last one.
LEMMA LastPosition ==
  ASSUME NEW n \in Nat, NEW P \in SUBSET (1 .. n), P # {}
  PROVE  \E i \in P : \A j \in P : j <= i
<1> DEFINE rest == {n - i : i \in P}
<1>0. \A i \in P : i \in Nat /\ i <= n /\ n - i \in Nat
  OBVIOUS
<1>1. rest \in SUBSET Nat /\ rest # {}
  BY <1>0
<1>2. PICK m \in rest : \A q \in rest : ~ (<<q, m>> \in OpToRel(<, Nat))
  BY <1>1, NatLessThanWellFounded, WFMin
<1>3. \A q \in rest : m <= q
  <2>1. \A q \in rest : ~ (q < m)
    BY <1>1, <1>2 DEF OpToRel
  <2>2. m \in Nat /\ \A q \in rest : q \in Nat
    BY <1>1, <1>2
  <2> HIDE DEF rest
  <2> QED BY <2>1, <2>2
<1>4. PICK i \in P : m = n - i
  BY <1>2
<1>5. \A j \in P : n - i <= n - j
  BY <1>3, <1>4
<1>6. ASSUME NEW j \in P
      PROVE  j <= i
  <2>1. n - i <= n - j /\ i \in Nat /\ j \in Nat
    BY <1>0, <1>5
  <2> QED BY <2>1
<1> QED BY <1>6

\* LastOf is the last position, wherever there is one.
LEMMA LastOfIsLast ==
  ASSUME NEW tiles \in Seq(Stored), NEW k, Occurs(k, tiles)
  PROVE  /\ LastOf(k, tiles) \in DOMAIN tiles /\ tiles[LastOf(k, tiles)][1] = k
         /\ \A j \in DOMAIN tiles : tiles[j][1] = k => j <= LastOf(k, tiles)
<1> DEFINE P == {i \in DOMAIN tiles : tiles[i][1] = k}
<1>1. Len(tiles) \in Nat /\ DOMAIN tiles = 1 .. Len(tiles)
  BY LenProperties
<1>2. P \in SUBSET (1 .. Len(tiles)) /\ P # {}
  BY <1>1 DEF Occurs
<1>3. \E i \in P : \A j \in P : j <= i
  BY <1>1, <1>2, LastPosition
<1>4. \E i \in DOMAIN tiles :
        tiles[i][1] = k /\ \A j \in DOMAIN tiles : tiles[j][1] = k => j <= i
  BY <1>3
<1> QED BY <1>4 DEF LastOf

LEMMA LastOfPrecedes ==
  ASSUME NEW tiles \in Seq(Stored), NEW k, NEW l, Occurs(k, tiles), Precedes(k, l, tiles)
  PROVE  LastOf(k, tiles) < LastOf(l, tiles)
<1>1. PICK n \in DOMAIN tiles :
        tiles[n][1] = l /\ \A m \in DOMAIN tiles : tiles[m][1] = k => m < n
  BY DEF Precedes
<1>2. LastOf(k, tiles) \in DOMAIN tiles /\ LastOf(k, tiles) < n
  BY <1>1, LastOfIsLast
<1>3. LastOf(l, tiles) \in DOMAIN tiles /\ n <= LastOf(l, tiles)
  BY <1>1, LastOfIsLast DEF Occurs
<1>4. DOMAIN tiles \subseteq Int
  BY LenProperties
<1> HIDE DEF LastOf
<1> QED BY <1>1, <1>2, <1>3, <1>4

\* A put of another key comes after all there was, and leaves its order alone.
LEMMA OrderGrows ==
  ASSUME NEW tiles \in Seq(Stored), NEW t \in Stored
  PROVE  /\ Occurs(t[1], Append(tiles, t))
         /\ \A k : Occurs(k, tiles) => Occurs(k, Append(tiles, t))
         /\ \A k : k # t[1] => Precedes(k, t[1], Append(tiles, t))
         /\ \A k, l : k # t[1] /\ Precedes(k, l, tiles) => Precedes(k, l, Append(tiles, t))
<1> DEFINE more == Append(tiles, t)
<1>1. /\ Len(tiles) \in Nat /\ DOMAIN tiles = 1 .. Len(tiles)
      /\ DOMAIN more = 1 .. Len(tiles) + 1
      /\ \A i \in 1 .. Len(tiles) + 1 : more[i] = IF i <= Len(tiles) THEN tiles[i] ELSE t
  BY Appended, LenProperties
<1> HIDE DEF more
<1>2. /\ Len(tiles) + 1 \in DOMAIN more /\ more[Len(tiles) + 1] = t
      /\ \A i \in DOMAIN tiles : i \in DOMAIN more /\ more[i] = tiles[i] /\ i < Len(tiles) + 1
      /\ \A i \in DOMAIN more : i \in DOMAIN tiles \/ i = Len(tiles) + 1
  BY <1>1
<1>3. Occurs(t[1], more) /\ \A k : Occurs(k, tiles) => Occurs(k, more)
  BY <1>2 DEF Occurs
<1>4. \A k : k # t[1] => Precedes(k, t[1], more)
  BY <1>2 DEF Precedes
<1>5. \A k, l : k # t[1] /\ Precedes(k, l, tiles) => Precedes(k, l, more)
  BY <1>2 DEF Precedes
<1> QED BY <1>3, <1>4, <1>5 DEF more

\* Of the actions, only PutTile, Stop and Start touch what is stored or its order.
LEMMA PutTileKeepsOrder ==
  ASSUME CachesInv, PutInOrder, NEW w \in Workers, PutTile(w)
  PROVE  PutInOrder'
<1> DEFINE t == <<worker[w].key, worker[w].data>>
<1>1. TypeOK /\ OthersAreEmpty /\ CountsMatch
  BY DEF CachesInv
<1>2. /\ t \in Stored /\ t[1] \notin KeysOf(Content)
      /\ kind = "memory" => PutInMemory(t)
      /\ kind = "persistent" => PutInTable(t)
      /\ kind = "none" => UNCHANGED <<cachedTiles, fifo, diskVars>>
      /\ puts' = Append(puts, t) /\ running
  BY PutTileFacts
<1> HIDE DEF t
<1>3. /\ Len(fifo) \in Nat /\ DOMAIN fifo = 1 .. Len(fifo)
      /\ Len(rows) \in Nat /\ DOMAIN rows = 1 .. Len(rows) /\ rows \in Seq(Stored)
      /\ puts \in Seq(Stored) /\ kind \in Kinds
  BY <1>1, LenProperties DEF TypeOK
<1>4. /\ Occurs(t[1], puts')
      /\ \A k : Occurs(k, puts) => Occurs(k, puts')
      /\ \A k : k # t[1] => Precedes(k, t[1], puts')
      /\ \A k, l : k # t[1] /\ Precedes(k, l, puts) => Precedes(k, l, puts')
  BY <1>2, <1>3, OrderGrows
<1>5. CASE kind = "memory"
  <2>1. /\ \A i \in 1 .. Len(fifo') : fifo'[i] = IF i = 1 THEN t[1] ELSE fifo[i - 1]
        /\ Len(fifo') <= Len(fifo) + 1 /\ fifo' \in Seq(Keys) /\ rows' = rows
    BY <1>2, <1>5, PutInMemoryAdds DEF diskVars
  <2>2. Len(fifo') \in Nat /\ DOMAIN fifo' = 1 .. Len(fifo') /\ rows = <<>>
    BY <1>1, <1>5, <2>1, LenProperties DEF OthersAreEmpty
  <2>3. \A i \in DOMAIN fifo' : i # 1 => i - 1 \in DOMAIN fifo /\ fifo'[i] = fifo[i - 1]
    BY <1>3, <2>1, <2>2
  <2>4. \A i \in DOMAIN fifo' : i = 1 => fifo'[i] = t[1]
    BY <2>1, <2>2
  <2>5. \A i \in DOMAIN fifo : fifo[i] # t[1]
    BY <1>1, <1>2, <1>5, ContentByKind DEF CountsMatch, FifoMatches, ToSet, TypeOK
  <2>6. \A i \in DOMAIN fifo' : Occurs(fifo'[i], puts')
    BY <1>4, <2>3, <2>4 DEF PutInOrder
  <2>7. ASSUME NEW i \in DOMAIN fifo', NEW j \in DOMAIN fifo', i < j
        PROVE  Precedes(fifo'[j], fifo'[i], puts')
    <3>1. j # 1 /\ j - 1 \in DOMAIN fifo /\ fifo'[j] = fifo[j - 1] /\ fifo[j - 1] # t[1]
      BY <2>2, <2>3, <2>5, <2>7
    <3>2. CASE i = 1
      BY <1>4, <2>4, <3>1, <3>2
    <3>3. CASE i # 1
      <4>1. i - 1 \in DOMAIN fifo /\ i - 1 < j - 1 /\ fifo'[i] = fifo[i - 1]
        BY <2>2, <2>3, <2>7, <3>3
      <4>2. Precedes(fifo[j - 1], fifo[i - 1], puts)
        BY <3>1, <4>1 DEF PutInOrder
      <4> QED BY <1>4, <3>1, <4>1, <4>2
    <3> QED BY <3>2, <3>3
  <2>8. DOMAIN rows' = {}
    BY <2>1, <2>2, <1>3
  <2> QED BY <2>6, <2>7, <2>8 DEF PutInOrder, TableInOrder
<1>6. CASE kind = "persistent"
  <2> DEFINE table == Append(rows, t)
  <2>1. /\ rows' = IF OverLimit(table) THEN Tail(table) ELSE table
        /\ fifo' = fifo
    BY <1>2, <1>6, PutInTableAdds
  <2>2. /\ table \in Seq(Stored) /\ Len(table) = Len(rows) + 1
        /\ \A i \in 1 .. Len(rows) + 1 : table[i] = IF i <= Len(rows) THEN rows[i] ELSE t
    BY <1>2, <1>3, Appended
  <2> HIDE DEF table
  <2>3. DOMAIN table = 1 .. Len(rows) + 1 /\ table # <<>>
    BY <1>3, <2>2, LenProperties
  <2>4. TableInOrder(table, puts')
    <3>1. \A i \in DOMAIN rows : rows[i][1] # t[1]
      BY <1>2, <1>3, <1>6, ContentByKind, <1>1 DEF KeysOf, ToSet
    <3>2. \A i \in DOMAIN table :
            \/ i \in DOMAIN rows /\ table[i] = rows[i]
            \/ i = Len(rows) + 1 /\ table[i] = t
      BY <1>3, <2>2, <2>3
    <3>3. \A i \in DOMAIN table : Occurs(table[i][1], puts')
      BY <1>4, <3>2 DEF PutInOrder, TableInOrder
    <3>4. ASSUME NEW i \in DOMAIN table, NEW j \in DOMAIN table, i < j
          PROVE  Precedes(table[i][1], table[j][1], puts')
      <4>1. i \in DOMAIN rows /\ table[i] = rows[i] /\ rows[i][1] # t[1]
        BY <1>3, <2>2, <2>3, <3>1, <3>4
      <4>2. CASE j \in DOMAIN rows /\ table[j] = rows[j]
        BY <1>4, <3>4, <4>1, <4>2 DEF PutInOrder, TableInOrder
      <4>3. CASE table[j] = t
        BY <1>4, <4>1, <4>3
      <4> QED BY <3>2, <4>2, <4>3
    <3> QED BY <3>3, <3>4 DEF TableInOrder
  <2>5. TableInOrder(rows', puts')
    <3>1. CASE ~OverLimit(table)
      BY <2>1, <2>4, <3>1
    <3>2. CASE OverLimit(table)
      <4>1. /\ rows' \in Seq(Stored) /\ Len(rows') = Len(table) - 1
            /\ \A i \in 1 .. Len(rows') : rows'[i] = table[i + 1]
        BY <2>1, <2>2, <2>3, <3>2, HeadTailProperties
      <4>2. DOMAIN rows' = 1 .. Len(rows)
        BY <1>3, <2>2, <4>1, LenProperties
      <4>3. \A i \in DOMAIN rows' : i + 1 \in DOMAIN table /\ rows'[i] = table[i + 1]
        BY <1>3, <2>2, <2>3, <4>1, <4>2
      <4>4. \A i, j \in DOMAIN rows' : i < j => i + 1 < j + 1
        BY <4>2
      <4> QED BY <2>4, <4>3, <4>4 DEF TableInOrder
    <3> QED BY <3>1, <3>2
  <2>6. DOMAIN fifo' = {}
    BY <1>1, <1>3, <1>6, <2>1 DEF OthersAreEmpty
  <2> QED BY <2>5, <2>6 DEF PutInOrder
<1>7. CASE kind = "none"
  <2>1. fifo' = fifo /\ rows' = rows /\ DOMAIN fifo = {} /\ DOMAIN rows = {}
    BY <1>1, <1>2, <1>3, <1>7 DEF OthersAreEmpty, diskVars
  <2> QED BY <2>1 DEF PutInOrder, TableInOrder
<1> QED BY <1>3, <1>5, <1>6, <1>7 DEF Kinds

\* The rows that a loss of power brings back become the order of puts themselves.
LEMMA TableIsInItsOrder ==
  ASSUME NEW s \in Seq(Stored), RowsApart(s)
  PROVE  TableInOrder(s, s)
<1>1. DOMAIN s \subseteq Int
  BY LenProperties
<1>2. \A i, j \in DOMAIN s : i < j => Precedes(s[i][1], s[j][1], s)
  BY <1>1 DEF Precedes, RowsApart
<1> QED BY <1>2 DEF TableInOrder, Occurs

LEMMA StepKeepsOrder ==
  ASSUME CachesInv, PutInOrder, [Next]_vars
  PROVE  PutInOrder'
<1>1. TypeOK /\ CountsMatch
  BY DEF CachesInv
<1>2. ASSUME UNCHANGED <<rows, fifo, puts>>
      PROVE  PutInOrder'
  BY <1>2 DEF PutInOrder
<1>3. ASSUME NEW w \in Workers, NEW k \in Keys, FillTile(w, k)
      PROVE  PutInOrder'
  BY <1>2, <1>3 DEF FillTile, diskVars
<1>4. ASSUME NEW w \in Workers, PutStrings(w)
      PROVE  PutInOrder'
  BY <1>2, <1>4 DEF PutStrings
<1>5. ASSUME NEW w \in Workers, PutTile(w)
      PROVE  PutInOrder'
  BY <1>5, PutTileKeepsOrder
<1>6. CASE Sync
  BY <1>2, <1>6 DEF Sync, memoryVars, diskVars
<1>7. CASE Stop
  <2>1. fifo' = <<>> /\ DOMAIN <<>> = {}
    BY <1>7 DEF Stop
  <2>2. \/ rows' = rows /\ puts' = puts
        \/ rows' = synced.rows /\ puts' = synced.rows
    BY <1>7 DEF Stop, diskVars
  <2>3. TableInOrder(synced.rows, synced.rows)
    BY <1>1, TableIsInItsOrder DEF TypeOK, CountsMatch
  <2> QED BY <2>1, <2>2, <2>3 DEF PutInOrder
<1>8. ASSUME NEW l \in Limits, NEW clear \in BOOLEAN, Start(l, clear)
      PROVE  PutInOrder'
  <2>1. fifo' = fifo /\ puts' = puts
    BY <1>8 DEF Start
  <2>2. rows' = <<>> \/ \E n \in 0 .. Len(rows) : rows' = SubSeq(rows, n + 1, Len(rows))
    BY <1>8, RowsAfterStart
  <2>3. ASSUME NEW n \in 0 .. Len(rows), rows' = SubSeq(rows, n + 1, Len(rows))
        PROVE  TableInOrder(rows', puts)
    <3>1. /\ rows' \in Seq(Stored)
          /\ \A i \in 1 .. Len(rows') : rows'[i] = rows[n + i] /\ n + i \in DOMAIN rows
      BY <1>1, <2>3, Remaining DEF TypeOK
    <3>2. DOMAIN rows' = 1 .. Len(rows') /\ Len(rows') \in Nat /\ Len(rows) \in Nat
      BY <1>1, <3>1, LenProperties DEF TypeOK
    <3>3. \A i, j \in DOMAIN rows' : i < j => n + i < n + j
      BY <3>2
    <3> QED BY <3>1, <3>2, <3>3 DEF PutInOrder, TableInOrder
  <2>4. rows' = <<>> => TableInOrder(rows', puts)
    BY DEF TableInOrder
  <2> QED BY <2>1, <2>2, <2>3, <2>4 DEF PutInOrder
<1>9. CASE UNCHANGED vars
  BY <1>2, <1>9 DEF vars, memoryVars, diskVars
<1> QED BY <1>3, <1>4, <1>5, <1>6, <1>7, <1>8, <1>9 DEF Next

\* What a put evicts was put before all that stays.
EvictsOldest ==
  running' /\ puts' # puts =>
    LET there == KeysOf(Content) \cup {Last(puts')[1]}
    IN  \A gone \in there \ KeysOf(Content'), kept \in KeysOf(Content') :
          LastOf(gone, puts') < LastOf(kept, puts')

LEMMA PutEvictsOldest ==
  ASSUME CachesInv, PutInOrder, NEW w \in Workers, PutTile(w), puts' \in Seq(Stored)
  PROVE  EvictsOldest
<1> DEFINE t == <<worker[w].key, worker[w].data>>
<1>1. TypeOK /\ OthersAreEmpty /\ CountsMatch
  BY DEF CachesInv
<1>2. /\ t \in Stored /\ t[1] \notin KeysOf(Content)
      /\ kind = "memory" => PutInMemory(t)
      /\ kind = "persistent" => PutInTable(t)
      /\ kind = "none" => UNCHANGED <<cachedTiles, fifo, diskVars>>
      /\ puts' = Append(puts, t) /\ running /\ kind' = kind
  BY PutTileFacts
<1> HIDE DEF t
<1>3. /\ Len(fifo) \in Nat /\ DOMAIN fifo = 1 .. Len(fifo)
      /\ Len(rows) \in Nat /\ DOMAIN rows = 1 .. Len(rows) /\ rows \in Seq(Stored)
      /\ puts \in Seq(Stored) /\ kind \in Kinds
  BY <1>1, LenProperties DEF TypeOK
<1>4. Last(puts') = t
  <2>1. Len(puts') = Len(puts) + 1 /\ puts'[Len(puts) + 1] = t
    BY <1>2, <1>3, AppendProperties
  <2> QED BY <2>1 DEF Last
<1>5. /\ Occurs(t[1], puts')
      /\ \A k : Occurs(k, puts) => Occurs(k, puts')
      /\ \A k : k # t[1] => Precedes(k, t[1], puts')
      /\ \A k, l : k # t[1] /\ Precedes(k, l, puts) => Precedes(k, l, puts')
  BY <1>2, <1>3, OrderGrows
<1>6. SUFFICES ASSUME NEW gone \in (KeysOf(Content) \cup {t[1]}) \ KeysOf(Content'),
                      NEW kept \in KeysOf(Content')
               PROVE  Occurs(gone, puts') /\ Precedes(gone, kept, puts')
  BY <1>4, LastOfPrecedes DEF EvictsOldest
<1>7. CASE kind = "memory"
  <2>1. /\ \A i \in 1 .. Len(fifo') : fifo'[i] = IF i = 1 THEN t[1] ELSE fifo[i - 1]
        /\ Len(fifo') <= Len(fifo) + 1 /\ fifo' \in Seq(Keys) /\ FifoMatches'
    BY <1>2, <1>7, PutInMemoryAdds
  <2>2. Len(fifo') \in Nat /\ DOMAIN fifo' = 1 .. Len(fifo')
    BY <2>1, LenProperties
  <2>3. Content = cachedTiles /\ Content' = cachedTiles'
    BY <1>2, <1>7 DEF Content
  <2>4. KeysOf(Content') = ToSet(fifo') /\ KeysOf(Content) = ToSet(fifo)
    BY <1>1, <2>1, <2>3 DEF CountsMatch, FifoMatches, KeysOf
  <2>5. PICK j \in 1 .. Len(fifo') : kept = fifo'[j]
    BY <1>6, <2>2, <2>4 DEF ToSet
  <2>6. PICK i \in 1 .. Len(fifo) : gone = fifo[i]
    <3>1. 1 \in 1 .. Len(fifo') /\ fifo'[1] = t[1]
      BY <2>1, <2>2, <2>5
    <3>2. gone # t[1]
      BY <1>6, <2>2, <2>4, <3>1 DEF ToSet
    <3> QED BY <1>3, <1>6, <2>4, <3>2 DEF ToSet
  <2>7. i + 1 > Len(fifo') /\ gone # t[1]
    <3>1. i + 1 \notin 1 .. Len(fifo')
      <4>1. i + 1 \in 1 .. Len(fifo') => fifo'[i + 1] = fifo[i]
        BY <2>1, <2>2
      <4> QED BY <1>6, <2>2, <2>4, <2>6, <4>1 DEF ToSet
    <3>2. t[1] \notin ToSet(fifo)
      BY <1>2, <2>4
    <3> QED BY <1>3, <2>2, <2>6, <3>1, <3>2 DEF ToSet
  <2>8. Occurs(gone, puts')
    BY <1>3, <1>5, <2>6 DEF PutInOrder
  <2>9. CASE j = 1
    BY <1>5, <2>1, <2>5, <2>7, <2>8, <2>9
  <2>10. CASE j # 1
    <3>1. j - 1 \in 1 .. Len(fifo) /\ j - 1 < i /\ kept = fifo[j - 1]
      BY <1>3, <2>1, <2>2, <2>5, <2>6, <2>7, <2>10
    <3>2. Precedes(gone, kept, puts)
      BY <1>3, <2>6, <3>1 DEF PutInOrder
    <3> QED BY <1>5, <2>7, <2>8, <3>2
  <2> QED BY <2>9, <2>10
<1>8. CASE kind = "persistent"
  <2> DEFINE table == Append(rows, t)
  <2>1. rows' = IF OverLimit(table) THEN Tail(table) ELSE table
    BY <1>2, <1>8, PutInTableAdds
  <2>2. Content = ToSet(rows) /\ Content' = ToSet(rows')
    BY <1>2, <1>8 DEF Content
  <2>3. /\ table \in Seq(Stored) /\ Len(table) = Len(rows) + 1
        /\ \A i \in 1 .. Len(rows) + 1 : table[i] = IF i <= Len(rows) THEN rows[i] ELSE t
        /\ ToSet(table) = ToSet(rows) \cup {t}
    BY <1>2, <1>3, Appended
  <2> HIDE DEF table
  <2>4. DOMAIN table = 1 .. Len(rows) + 1 /\ table # <<>>
    BY <1>3, <2>3, LenProperties
  <2>5. KeysOf(Content) \cup {t[1]} = KeysOf(ToSet(table))
    BY <2>2, <2>3 DEF KeysOf
  <2>6. OverLimit(table)
    BY <1>6, <2>1, <2>2, <2>5
  <2>7. /\ rows' \in Seq(Stored) /\ Len(rows') = Len(rows)
        /\ \A i \in 1 .. Len(rows') : rows'[i] = table[i + 1]
    BY <1>3, <2>1, <2>3, <2>4, <2>6, HeadTailProperties
  <2>8. DOMAIN rows' = 1 .. Len(rows)
    BY <2>7, LenProperties
  <2>9. PICK j \in 2 .. Len(rows) + 1 : kept = table[j][1]
    <3>1. PICK m \in 1 .. Len(rows) : kept = rows'[m][1]
      BY <1>6, <2>2, <2>8 DEF KeysOf, ToSet
    <3>2. m + 1 \in 2 .. Len(rows) + 1 /\ rows'[m] = table[m + 1]
      BY <1>3, <2>7
    <3> QED BY <3>1, <3>2
  <2>10. gone = table[1][1] /\ 1 \in DOMAIN table
    <3>0. PICK u \in ToSet(table) : gone = u[1]
      BY <1>6, <2>5 DEF KeysOf
    <3>1. PICK i \in 1 .. Len(rows) + 1 : gone = table[i][1]
      BY <2>4, <3>0 DEF ToSet
    <3>2. i # 1 => i - 1 \in DOMAIN rows' /\ rows'[i - 1] = table[i]
      <4>1. i # 1 => i - 1 \in 1 .. Len(rows) /\ (i - 1) + 1 = i
        BY <1>3
      <4> QED BY <2>7, <2>8, <4>1
    <3>3. i = 1
      BY <1>6, <2>2, <3>1, <3>2 DEF KeysOf, ToSet
    <3> QED BY <2>4, <3>1, <3>3
  <2>11. PutInOrder'
    BY PutTileKeepsOrder
  <2>12. 1 \in DOMAIN rows /\ table[1] = rows[1]
    <3>1. 1 <= Len(rows)
      BY <1>3, <2>9
    <3> QED BY <1>3, <2>3, <3>1
  <2>13. gone # t[1] /\ Occurs(gone, puts')
    BY <1>2, <1>5, <2>2, <2>10, <2>12 DEF PutInOrder, TableInOrder, KeysOf, ToSet
  <2>14. CASE j = Len(rows) + 1
    <3>1. table[j] = t
      BY <1>3, <2>3, <2>14
    <3> QED BY <1>5, <2>9, <2>13, <3>1
  <2>15. CASE j # Len(rows) + 1
    <3>1. j \in DOMAIN rows /\ 1 < j /\ table[j] = rows[j]
      BY <1>3, <2>3, <2>9, <2>15
    <3>2. Precedes(gone, kept, puts)
      BY <2>9, <2>10, <2>12, <3>1 DEF PutInOrder, TableInOrder
    <3> QED BY <1>5, <2>13, <3>2
  <2> QED BY <2>9, <2>14, <2>15
<1>9. CASE kind = "none"
  BY <1>2, <1>6, <1>9 DEF Content, KeysOf
<1> QED BY <1>3, <1>7, <1>8, <1>9 DEF Kinds

\* No other action puts anything while the process runs.
LEMMA StepEvictsOldest ==
  ASSUME CachesInv, PutInOrder, CachesInv', [Next]_vars
  PROVE  [EvictsOldest]_vars
<1>1. puts' \in Seq(Stored)
  BY DEF CachesInv, TypeOK
<1>2. ASSUME NEW w \in Workers, NEW k \in Keys, FillTile(w, k)
      PROVE  EvictsOldest
  BY <1>2 DEF FillTile, EvictsOldest
<1>3. ASSUME NEW w \in Workers, PutStrings(w)
      PROVE  EvictsOldest
  BY <1>3 DEF PutStrings, EvictsOldest
<1>4. ASSUME NEW w \in Workers, PutTile(w)
      PROVE  EvictsOldest
  BY <1>1, <1>4, PutEvictsOldest
<1>5. CASE Sync
  BY <1>5 DEF Sync, EvictsOldest
<1>6. CASE Stop
  BY <1>6 DEF Stop, EvictsOldest
<1>7. ASSUME NEW l \in Limits, NEW clear \in BOOLEAN, Start(l, clear)
      PROVE  EvictsOldest
  BY <1>7 DEF Start, EvictsOldest
<1> QED BY <1>2, <1>3, <1>4, <1>5, <1>6, <1>7 DEF Next

\* The tiles purged by a put are the ones put first, in memory as in the database,
\* also after crashes and starts under other limits.
THEOREM TilesArePurgedInOrder == Spec => FifoEviction
<1>1. Init => PutInOrder
  BY DEF Init, PutInOrder, TableInOrder
<1>2. CachesInv /\ PutInOrder /\ [Next]_vars => PutInOrder'
  BY StepKeepsOrder
<1>3. CachesInv /\ PutInOrder /\ CachesInv' /\ [Next]_vars => [EvictsOldest]_vars
  BY StepEvictsOldest
<1>4. Spec => [][EvictsOldest]_vars
  BY <1>1, <1>2, <1>3, CachesInvariant, PTL DEF Spec
<1> QED BY <1>4, PTL DEF FifoEviction, EvictsOldest
=============================================================================
