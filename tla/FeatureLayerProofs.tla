-------------------------- MODULE FeatureLayerProofs --------------------------
(***************************************************************************)
(* TLAPS proofs about the two parts of a TileFeatureLayer. Of FeatureLayer: *)
(* features are found, their ids are whole, and merged data is where its id *)
(* leads, in any tile that can be filled and merged. Of GeometryBuffers:   *)
(* views show their bases, and no two geometries share an array.           *)
(*                                                                         *)
(* The folds, the binary search and the walk over a composition are defined *)
(* by recursion. What they compute is shown by induction over a set of     *)
(* numbers: the set of those for which it holds has 0 and each successor,  *)
(* and the least number outside of it would contradict that.               *)
(*                                                                         *)
(* The invariant says that the index has the hash of each feature, that it *)
(* is in order unless the flag says otherwise, that each feature goes on from *)
(* the prefix, and where the ids of merged features lead. That an id still *)
(* leads there after the next merge rests on Merges: a step that does not  *)
(* raise either appends to the first match or adds a feature without one.  *)
(***************************************************************************)
EXTENDS FeatureLayerProps, GeometryBuffersProps, FiniteSetTheorems, SequenceTheorems, TLAPS

(***************************************************************************)
(* Sorting                                                                 *)
(***************************************************************************)
Entries == [hash : Nat, at : Nat]

\* The entries of an index, each for a feature of its own.
IsIndex(index, n) ==
  /\ n \in Nat /\ index \in [1 .. n -> Entries]
  /\ \A k, l \in 1 .. n : index[k].at = index[l].at => k = l

\* Of two entries one precedes the other.
LEMMA PrecedesIsTotal ==
  ASSUME NEW x, NEW y, x.hash \in Nat, x.at \in Nat, y.hash \in Nat, y.at \in Nat
  PROVE  /\ x.at # y.at => Precedes(x, y) \/ Precedes(y, x)
         /\ ~(Precedes(x, y) /\ Precedes(y, x))
         /\ ~Precedes(x, x)
BY DEF Precedes

\* The order of the entries is one.
LEMMA PrecedesIsTransitive ==
  ASSUME NEW x, NEW y, NEW z, x.hash \in Nat, x.at \in Nat, y.hash \in Nat, y.at \in Nat,
         z.hash \in Nat, z.at \in Nat, Precedes(x, y), Precedes(y, z)
  PROVE  Precedes(x, z)
BY DEF Precedes

\* s has the entries of the index, in order.
Sorts(s, index, n) ==
  /\ s \in [1 .. n -> ToSet(index)]
  /\ \A k \in 1 .. n : \E l \in 1 .. n : s[k] = index[l]
  /\ \A l \in 1 .. n : \E k \in 1 .. n : s[k] = index[l]
  /\ \A k, l \in 1 .. n : k < l => Precedes(s[k], s[l])

\* sortFeatureHashIndex sorts.
LEMMA SortedIndexIsSorted ==
  ASSUME NEW index, NEW n, IsIndex(index, n)
  PROVE  Sorts(SortedIndex(index), index, n)
<1>a. PICK s : s = SortedIndex(index)
  OBVIOUS
<1> DEFINE S == ToSet(index)
           Before(e) == {f \in S : Precedes(f, e)}
           Rank(e) == Cardinality(Before(e))
           place == [e \in S |-> Rank(e) + 1]
<1>1. S = {index[k] : k \in 1 .. n} /\ S \subseteq Entries
  BY DEF IsIndex, ToSet
<1>0. index \in [1 .. n -> S]
  BY <1>1 DEF IsIndex
<1>2. index \in Surjection(1 .. n, S)
  <2>1. \A e \in S : \E k \in 1 .. n : index[k] = e
    BY <1>1
  <2> HIDE DEF S
  <2> QED
    BY <1>0, <2>1 DEF Surjection
<1>3. index \in Injection(1 .. n, S)
  <2>1. IsInjective(index)
    BY <1>0 DEF IsIndex, IsInjective
  <2> HIDE DEF S
  <2> QED
    BY <1>0, <2>1 DEF Injection
<1>4. IsFiniteSet(1 .. n) /\ Cardinality(1 .. n) = n
  BY FS_Interval DEF IsIndex
<1>5. IsFiniteSet(S) /\ Cardinality(S) = n
  BY <1>2, <1>3, <1>4, FS_Surjection
<1>6. \A e \in S : e.hash \in Nat /\ e.at \in Nat
  BY <1>1 DEF Entries
<1>7. \A e, f \in S : e # f => e.at # f.at
  BY <1>1 DEF IsIndex
<1>8. ASSUME NEW e \in S
      PROVE  IsFiniteSet(Before(e)) /\ Rank(e) \in Nat /\ Rank(e) + 1 \in 1 .. n
  <2>1. Before(e) \in SUBSET (S \ {e})
    BY <1>6, PrecedesIsTotal
  <2>2. IsFiniteSet(S \ {e}) /\ Cardinality(S \ {e}) = n - 1
    BY <1>5, FS_RemoveElement
  <2>3. IsFiniteSet(Before(e)) /\ Rank(e) <= n - 1
    BY <2>1, <2>2, FS_Subset
  <2>4. Rank(e) \in Nat
    BY <2>3, FS_CardinalityType
  <2> QED
    BY <2>3, <2>4 DEF IsIndex
<1>9. ASSUME NEW e \in S, NEW f \in S, Precedes(e, f)
      PROVE  Rank(e) < Rank(f)
  <2>1. e \notin Before(e)
    BY <1>6, PrecedesIsTotal
  <2>2. IsFiniteSet(Before(e) \cup {e}) /\ Cardinality(Before(e) \cup {e}) = Rank(e) + 1
    BY <1>8, <2>1, FS_AddElement
  <2>3. Before(e) \cup {e} \in SUBSET Before(f)
    BY <1>6, <1>9, PrecedesIsTransitive
  <2>4. Cardinality(Before(e) \cup {e}) <= Rank(f)
    BY <1>8, <2>3, FS_Subset
  <2> HIDE DEF Before
  <2> QED
    BY <1>8, <2>2, <2>4
<1>10. place \in Injection(S, 1 .. n)
  <2>1. place \in [S -> 1 .. n]
    BY <1>8
  <2>2. ASSUME NEW e \in S, NEW f \in S, place[e] = place[f]
        PROVE  e = f
    <3>1. Rank(e) \in Nat /\ Rank(f) \in Nat
      BY <1>8
    <3>2. Rank(e) = Rank(f)
      <4> HIDE DEF Rank
      <4> QED
        BY <2>2, <3>1
    <3>3. ~Precedes(e, f) /\ ~Precedes(f, e)
      <4> HIDE DEF Rank
      <4> QED
        BY <1>9, <3>1, <3>2
    <3> QED
      BY <1>6, <1>7, <3>3, PrecedesIsTotal
  <2>3. IsInjective(place)
    <3> HIDE DEF Rank
    <3> QED
      BY <2>2 DEF IsInjective
  <2> HIDE DEF place
  <2> QED
    BY <2>1, <2>3 DEF Injection
<1>11. place \in Surjection(S, 1 .. n)
  BY <1>4, <1>5, <1>10, FS_Injection
<1>12. s = [k \in 1 .. n |-> CHOOSE e \in S : Rank(e) = k - 1]
  BY <1>a DEF SortedIndex, IsIndex
<1>13. ASSUME NEW k \in 1 .. n
       PROVE  s[k] \in S /\ Rank(s[k]) = k - 1
  <2>1. PICK e \in S : place[e] = k
    BY <1>11 DEF Surjection
  <2>2. Rank(e) = k - 1
    <3>1. Rank(e) \in Nat
      BY <1>8
    <3> HIDE DEF Rank
    <3> QED
      BY <2>1, <3>1
  <2> HIDE DEF S, Rank
  <2> QED
    BY <1>12, <2>2
<1>14. ASSUME NEW l \in 1 .. n
       PROVE  \E k \in 1 .. n : s[k] = index[l]
  <2>1. index[l] \in S
    BY <1>1
  <2>2. PICK k : k = Rank(index[l]) + 1
    OBVIOUS
  <2>3. Rank(index[l]) \in Nat /\ Rank(index[l]) + 1 \in 1 .. n
    BY <1>8, <2>1
  <2>4. k \in 1 .. n /\ Rank(index[l]) = k - 1
    <3> HIDE DEF Rank
    <3> QED
      BY <2>2, <2>3
  <2>5. s[k] \in S /\ Rank(s[k]) = Rank(index[l])
    BY <1>13, <2>4
  <2>6. place[s[k]] = place[index[l]]
    <3> HIDE DEF Rank, S
    <3> QED
      BY <2>1, <2>5
  <2>7. IsInjective(place) /\ DOMAIN place = S
    BY <1>10 DEF Injection
  <2>8. s[k] = index[l]
    <3> HIDE DEF place, S
    <3> QED
      BY <2>1, <2>5, <2>6, <2>7 DEF IsInjective
  <2> QED
    BY <2>4, <2>8
<1>15. ASSUME NEW k \in 1 .. n, NEW l \in 1 .. n, k < l
       PROVE  Precedes(s[k], s[l])
  <2>1. s[k] \in S /\ s[l] \in S /\ Rank(s[k]) = k - 1 /\ Rank(s[l]) = l - 1
    BY <1>13
  <2>2. s[k] # s[l]
    <3> HIDE DEF Rank
    <3> QED
      BY <1>15, <2>1
  <2>3. ~Precedes(s[l], s[k])
    <3> HIDE DEF Rank
    <3> QED
      BY <1>9, <1>15, <2>1
  <2> QED
    BY <1>6, <1>7, <2>1, <2>2, <2>3, PrecedesIsTotal
<1>16. s \in [1 .. n -> S]
  BY <1>12, <1>13
<1>17. \A k \in 1 .. n : \E l \in 1 .. n : s[k] = index[l]
  BY <1>1, <1>13
<1> QED
  BY <1>14, <1>15, <1>16, <1>17, <1>a DEF Sorts

\* A non-empty set of numbers has a least element.
LEMMA LeastElement ==
  ASSUME NEW S \in SUBSET Nat, S # {}
  PROVE  \E p \in S : \A q \in S : p <= q
<1>1. PICK p \in S : \A q \in S : ~ (<<q, p>> \in OpToRel(<, Nat))
  BY NatLessThanWellFounded, WFMin
<1>2. \A q \in S : ~ (q < p)
  BY <1>1 DEF OpToRel
<1> QED BY <1>2

\* So it has all numbers if it has 0 and with each number the next one.
LEMMA Inductive ==
  ASSUME NEW S \in SUBSET Nat, 0 \in S, \A m \in S : m + 1 \in S
  PROVE  S = Nat
<1> SUFFICES ASSUME Nat \ S # {} PROVE FALSE
  OBVIOUS
<1>1. PICK p \in Nat \ S : \A q \in Nat \ S : p <= q
  BY LeastElement
<1>2. p # 0 /\ p - 1 \in Nat /\ (p - 1) + 1 = p /\ ~(p <= p - 1)
  BY <1>1
<1>3. p - 1 \in S
  BY <1>1, <1>2
<1> QED
  BY <1>1, <1>2, <1>3

\* The least element of a set of positions is its Min.
LEMMA MinIs ==
  ASSUME NEW S \in SUBSET Nat, S # {}
  PROVE  Min(S) \in S /\ \A q \in S : Min(S) <= q
BY LeastElement DEF Min

\* What is least in a set is its Min.
LEMMA MinIsUnique ==
  ASSUME NEW S \in SUBSET Nat, NEW m \in S, \A q \in S : m <= q
  PROVE  Min(S) = m
<1>1. Min(S) \in S /\ Min(S) <= m /\ m <= Min(S)
  BY MinIs
<1>2. Min(S) \in Nat /\ m \in Nat
  BY <1>1
<1> QED
  BY <1>1, <1>2

(***************************************************************************)
(* The binary search                                                       *)
(***************************************************************************)
Ascends(index) ==
  \A k, l \in 1 .. Len(index) : k < l => index[k].hash <= index[l].hash

\* p splits the parts r of the index at the hash.
Splits(index, hash, r, p) ==
  /\ p \in r[1] .. (r[1] + r[2])
  /\ \A k \in r[1] .. (p - 1) : index[k].hash < hash
  /\ \A k \in p .. (r[1] + r[2] - 1) : hash <= index[k].hash

\* A sorted index has one place where it splits at a hash, ...
LEMMA SplitExists ==
  ASSUME NEW index \in Seq(Entries), NEW hash \in Nat, Ascends(index),
         NEW r \in Ranges(Len(index))
  PROVE  \E p \in Nat : Splits(index, hash, r, p)
<1>0. PICK n \in Nat : n = Len(index)
  BY LenProperties
<1>1. \A k \in 1 .. n : index[k].hash \in Nat
  <2>1. \A k \in 1 .. n : index[k] \in Entries
    BY <1>0
  <2> QED
    BY <2>1 DEF Entries
<1>2. r[1] \in 1 .. n + 1 /\ r[2] \in 0 .. n /\ r[1] + r[2] <= n + 1
  BY <1>0 DEF Ranges
<1> DEFINE S == {p \in r[1] .. (r[1] + r[2]) : p < r[1] + r[2] => hash <= index[p].hash}
<1>3. S \in SUBSET Nat /\ r[1] + r[2] \in S
  BY <1>2
<1>4. PICK p \in S : \A q \in S : p <= q
  BY <1>3, LeastElement
<1>5. ASSUME NEW k \in r[1] .. (p - 1)
      PROVE  index[k].hash < hash
  <2>1. k \notin S /\ k \in 1 .. n /\ k \in r[1] .. (r[1] + r[2])
    BY <1>2, <1>4
  <2> QED
    BY <1>1, <2>1
<1>6. ASSUME NEW k \in p .. (r[1] + r[2] - 1)
      PROVE  hash <= index[k].hash
  <2>0. p < r[1] + r[2] /\ p \in r[1] .. (r[1] + r[2])
    BY <1>2, <1>4
  <2>1. hash <= index[p].hash /\ p \in 1 .. n /\ k \in 1 .. n /\ (p < k \/ p = k)
    BY <1>2, <1>4, <2>0
  <2> QED
    BY <1>0, <1>1, <2>1 DEF Ascends
<1> QED
  BY <1>2, <1>4, <1>5, <1>6, SMTT(30) DEF Splits

\* ... and no other.
LEMMA SplitIsUnique ==
  ASSUME NEW index \in Seq(Entries), NEW hash \in Nat, NEW r \in Ranges(Len(index)),
         NEW p, NEW q, Splits(index, hash, r, p), Splits(index, hash, r, q)
  PROVE  p = q
<1>0. PICK n \in Nat : n = Len(index)
  BY LenProperties
<1>1. \A k \in 1 .. n : index[k].hash \in Nat
  <2>1. \A k \in 1 .. n : index[k] \in Entries
    BY <1>0
  <2> QED
    BY <2>1 DEF Entries
<1>2. r[1] \in 1 .. n + 1 /\ r[2] \in 0 .. n /\ r[1] + r[2] <= n + 1
  BY <1>0 DEF Ranges
<1>3. ASSUME NEW a, NEW b, Splits(index, hash, r, a), Splits(index, hash, r, b), a < b
      PROVE  FALSE
  <2>1. a \in 1 .. n /\ index[a].hash < hash /\ hash <= index[a].hash
    BY <1>2, <1>3, SMTT(30) DEF Splits
  <2> QED
    BY <1>1, <2>1
<1>4. p \in Int /\ q \in Int
  BY <1>2 DEF Splits
<1>5. ~(p < q) /\ ~(q < p)
  BY <1>3
<1> QED
  BY <1>4, <1>5

\* The same of the positions from a on and before b.
SplitsIn(index, hash, a, b, p) ==
  /\ p \in Int /\ a <= p /\ p <= b
  /\ \A k \in Int : a <= k /\ k < p => index[k].hash < hash
  /\ \A k \in Int : p <= k /\ k < b => hash <= index[k].hash

LEMMA SplitsAt ==
  ASSUME NEW index, NEW hash, NEW a \in Int, NEW c \in Int, NEW p
  PROVE  Splits(index, hash, <<a, c>>, p) <=> SplitsIn(index, hash, a, a + c, p)
<1>1. <<a, c>>[1] = a /\ <<a, c>>[2] = c
  OBVIOUS
<1>2. p \in a .. (a + c) <=> p \in Int /\ a <= p /\ p <= a + c
  OBVIOUS
<1>3. ASSUME p \in Int
      PROVE  /\ \A k : k \in a .. (p - 1) <=> k \in Int /\ a <= k /\ k < p
             /\ \A k : k \in p .. (a + c - 1) <=> k \in Int /\ p <= k /\ k < a + c
  BY <1>3
<1>4. ASSUME p \in Int
      PROVE  /\ (\A k \in a .. (p - 1) : index[k].hash < hash) <=>
                  \A k \in Int : a <= k /\ k < p => index[k].hash < hash
             /\ (\A k \in p .. (a + c - 1) : hash <= index[k].hash) <=>
                  \A k \in Int : p <= k /\ k < a + c => hash <= index[k].hash
  BY <1>3, <1>4, Zenon
<1> QED
  BY <1>1, <1>2, <1>4, Zenon DEF Splits, SplitsIn

\* The hashes of the positions 1 to n ascend.
AscendsTo(index, n) ==
  /\ \A k \in Int : 1 <= k /\ k <= n => index[k].hash \in Nat
  /\ \A k, l \in Int : 1 <= k /\ k <= l /\ l <= n => index[k].hash <= index[l].hash

\* What is before the middle has no greater hash, and what is behind it no smaller one.
LEMMA SplitBehind ==
  ASSUME NEW index, NEW hash \in Nat, NEW n \in Int, AscendsTo(index, n),
         NEW a \in Int, NEW b \in Int, NEW mid \in Int, 1 <= a, a <= mid, mid < b, b <= n + 1,
         NEW p
  PROVE  /\ index[mid].hash < hash /\ SplitsIn(index, hash, mid + 1, b, p) =>
              SplitsIn(index, hash, a, b, p)
         /\ ~(index[mid].hash < hash) /\ SplitsIn(index, hash, a, mid, p) =>
              SplitsIn(index, hash, a, b, p)
<1>1. ASSUME index[mid].hash < hash, SplitsIn(index, hash, mid + 1, b, p)
      PROVE  SplitsIn(index, hash, a, b, p)
  <2>1. p \in Int /\ a <= p /\ p <= b
    BY <1>1 DEF SplitsIn
  <2>2. ASSUME NEW k \in Int, a <= k, k < p
        PROVE  index[k].hash < hash
    <3>1. CASE k <= mid
      <4>1. 1 <= k /\ k <= n /\ 1 <= mid /\ mid <= n
        BY <2>2, <3>1
      <4>2. index[k].hash \in Nat /\ index[mid].hash \in Nat /\ index[k].hash <= index[mid].hash
        BY <3>1, <4>1 DEF AscendsTo
      <4> QED
        BY <1>1, <4>2
    <3>2. CASE ~(k <= mid)
      <4>1. mid + 1 <= k
        BY <3>2
      <4> QED
        BY <1>1, <2>2, <4>1 DEF SplitsIn
    <3> QED
      BY <3>1, <3>2
  <2> QED
    BY <1>1, <2>1, <2>2 DEF SplitsIn
<1>2. ASSUME ~(index[mid].hash < hash), SplitsIn(index, hash, a, mid, p)
      PROVE  SplitsIn(index, hash, a, b, p)
  <2>1. p \in Int /\ a <= p /\ p <= b
    BY <1>2 DEF SplitsIn
  <2>2. ASSUME NEW k \in Int, p <= k, k < b
        PROVE  hash <= index[k].hash
    <3>1. CASE k < mid
      BY <1>2, <2>2, <3>1 DEF SplitsIn
    <3>2. CASE ~(k < mid)
      <4>1. mid <= k /\ 1 <= k /\ k <= n /\ 1 <= mid /\ mid <= n
        BY <2>2, <3>2
      <4>2. index[k].hash \in Nat /\ index[mid].hash \in Nat /\ index[mid].hash <= index[k].hash
        BY <4>1 DEF AscendsTo
      <4> QED
        BY <1>2, <4>2
    <3> QED
      BY <3>1, <3>2
  <2> QED
    BY <1>2, <2>1, <2>2 DEF SplitsIn
<1> QED
  BY <1>1, <1>2

\* The half of r that the search goes on with.
Smaller(index, hash, r) ==
  IF index[r[1] + (r[2] \div 2)].hash < hash
  THEN <<r[1] + (r[2] \div 2) + 1, r[2] - (r[2] \div 2) - 1>>
  ELSE <<r[1], r[2] \div 2>>

\* It is behind the last entry with a smaller hash.
LEMMA SplitOfSmaller ==
  ASSUME NEW index \in Seq(Entries), NEW hash \in Nat, Ascends(index),
         NEW r \in Ranges(Len(index)), r[2] # 0
  PROVE  /\ Smaller(index, hash, r) \in Ranges(Len(index))
         /\ Smaller(index, hash, r)[2] < r[2]
         /\ \A p : Splits(index, hash, Smaller(index, hash, r), p) => Splits(index, hash, r, p)
<1>0. PICK n \in Nat : n = Len(index)
  BY LenProperties
<1>1. \A k \in 1 .. n : index[k].hash \in Nat
  <2>1. \A k \in 1 .. n : index[k] \in Entries
    BY <1>0
  <2> QED
    BY <2>1 DEF Entries
<1>2. AscendsTo(index, n)
  <2>1. ASSUME NEW k \in Int, NEW l \in Int, 1 <= k, k <= l, l <= n
        PROVE  index[k].hash <= index[l].hash
    <3>1. k \in 1 .. n /\ l \in 1 .. n /\ (k < l \/ k = l)
      BY <2>1
    <3> QED
      BY <1>0, <1>1, <3>1 DEF Ascends
  <2> QED
    BY <1>1, <2>1 DEF AscendsTo
<1>3. PICK a \in Nat, c \in Nat : r = <<a, c>> /\ 1 <= a /\ 1 <= c /\ a + c <= n + 1
  BY <1>0 DEF Ranges
<1>4. PICK step \in Nat : step = c \div 2 /\ step < c
  BY <1>3
<1>5. PICK mid \in Nat, b \in Nat : mid = a + step /\ b = a + c /\ a <= mid /\ mid < b /\ b <= n + 1
  BY <1>3, <1>4
<1>a. n \in Int /\ a \in Int /\ b \in Int /\ mid \in Int
  OBVIOUS
<1>6. \A p : Splits(index, hash, r, p) <=> SplitsIn(index, hash, a, b, p)
  <2>1. \A p : Splits(index, hash, <<a, c>>, p) <=> SplitsIn(index, hash, a, a + c, p)
    BY SplitsAt
  <2> QED
    BY <1>3, <1>5, <2>1
<1>7. r[1] = a /\ r[2] = c
  BY <1>3
<1>8. CASE index[mid].hash < hash
  <2>1. PICK d \in Nat : d = c - step - 1 /\ d < c /\ (mid + 1) + d = b
    BY <1>4, <1>5
  <2>2. Smaller(index, hash, r) = <<mid + 1, d>>
    BY <1>4, <1>5, <1>7, <1>8, <2>1 DEF Smaller
  <2>3. <<mid + 1, d>> \in Ranges(n) /\ <<mid + 1, d>>[2] = d
    <3>1. mid + 1 \in 1 .. n + 1 /\ d \in 0 .. n /\ (mid + 1) + d <= n + 1
      BY <1>3, <1>5, <2>1
    <3> QED
      BY <3>1 DEF Ranges
  <2>4. ASSUME NEW p, Splits(index, hash, <<mid + 1, d>>, p)
        PROVE  Splits(index, hash, r, p)
    <3>1. SplitsIn(index, hash, mid + 1, b, p)
      <4>0. mid + 1 \in Int /\ d \in Int
        OBVIOUS
      <4>1. SplitsIn(index, hash, mid + 1, (mid + 1) + d, p)
        BY <2>4, <4>0, SplitsAt, Zenon
      <4> QED
        BY <2>1, <4>1
    <3>2. SplitsIn(index, hash, a, b, p)
      BY <1>a, <1>2, <1>3, <1>5, <1>8, <3>1, SplitBehind, Zenon
    <3> QED
      BY <1>6, <3>2
  <2> QED
    BY <1>0, <1>7, <2>1, <2>2, <2>3, <2>4
<1>9. CASE ~(index[mid].hash < hash)
  <2>1. Smaller(index, hash, r) = <<a, step>>
    BY <1>4, <1>5, <1>7, <1>9 DEF Smaller
  <2>2. <<a, step>> \in Ranges(n) /\ <<a, step>>[2] = step
    <3>1. a \in 1 .. n + 1 /\ step \in 0 .. n /\ a + step <= n + 1
      BY <1>3, <1>4, <1>5
    <3> QED
      BY <3>1 DEF Ranges
  <2>3. ASSUME NEW p, Splits(index, hash, <<a, step>>, p)
        PROVE  Splits(index, hash, r, p)
    <3>1. SplitsIn(index, hash, a, mid, p)
      <4>0. a \in Int /\ step \in Int
        OBVIOUS
      <4>1. SplitsIn(index, hash, a, a + step, p)
        BY <2>3, <4>0, SplitsAt, Zenon
      <4> QED
        BY <1>5, <4>1
    <3>2. SplitsIn(index, hash, a, b, p)
      BY <1>a, <1>2, <1>3, <1>5, <1>9, <3>1, SplitBehind, Zenon
    <3> QED
      BY <1>6, <3>2
  <2> QED
    BY <1>0, <1>4, <1>7, <2>1, <2>2, <2>3
<1> QED
  BY <1>8, <1>9

\* std::lower_bound finds it.
LEMMA LowerBoundSplits ==
  ASSUME NEW index \in Seq(Entries), NEW hash \in Nat, Ascends(index)
  PROVE  Splits(index, hash, <<1, Len(index)>>, LowerBound(index, hash))
<1> DEFINE R == Ranges(Len(index))
           Next1(h, r) == IF r[2] = 0 THEN r[1] ELSE h[Smaller(index, hash, r)]
           split == [r \in R |-> CHOOSE p \in Nat : Splits(index, hash, r, p)]
           Half == CHOOSE h : h = [r \in R |-> Next1(h, r)]
<1>1. ASSUME NEW r \in R
      PROVE  split[r] \in Nat /\ Splits(index, hash, r, split[r])
  BY SplitExists
<1>2. ASSUME NEW r \in R
      PROVE  r[1] \in Nat /\ (r[2] = 0 => Splits(index, hash, r, r[1]))
  BY LenProperties DEF Splits, Ranges
<1>3. ASSUME NEW r \in R
      PROVE  split[r] = Next1(split, r)
  <2>1. CASE r[2] = 0
    BY <1>1, <1>2, <2>1, SplitIsUnique
  <2>2. CASE r[2] # 0
    <3>1. PICK x \in R : x = Smaller(index, hash, r) /\ \A p : Splits(index, hash, x, p) => Splits(index, hash, r, p)
      BY <2>2, SplitOfSmaller
    <3>2. Splits(index, hash, r, split[x])
      BY <1>1, <3>1
    <3>3. split[r] = split[x]
      BY <1>1, <3>2, SplitIsUnique
    <3> QED
      BY <2>2, <3>1, <3>3
  <2> QED
    BY <2>1, <2>2
<1>4. split = [r \in R |-> Next1(split, r)]
  <2> HIDE DEF Next1, R
  <2> QED
    BY <1>3
<1>5. Half = [r \in R |-> Next1(Half, r)]
  <2> HIDE DEF split, Next1, R
  <2> QED
    BY <1>4
<1>6. LowerBound(index, hash) = Half[<<1, Len(index)>>]
  BY DEF LowerBound, Smaller
<1> HIDE DEF Half, split
<1> DEFINE S == {m \in Nat : \A r \in R : r[2] <= m => Splits(index, hash, r, Half[r])}
<1>7. \A r \in R : r[2] \in Nat
  BY LenProperties DEF Ranges
<1>8. 0 \in S
  BY <1>2, <1>5, <1>7
<1>9. ASSUME NEW m \in S
      PROVE  m + 1 \in S
  <2> SUFFICES ASSUME NEW r \in R, r[2] <= m + 1
               PROVE  Splits(index, hash, r, Half[r])
    OBVIOUS
  <2>1. CASE r[2] = 0
    BY <1>2, <1>5, <2>1
  <2>2. CASE r[2] # 0
    <3>1. PICK x \in R : /\ x = Smaller(index, hash, r) /\ x[2] < r[2]
                         /\ \A p : Splits(index, hash, x, p) => Splits(index, hash, r, p)
      BY <2>2, SplitOfSmaller
    <3>2. Half[r] = Half[x]
      BY <1>5, <2>2, <3>1
    <3>3. Splits(index, hash, x, Half[x])
      BY <1>7, <3>1
    <3> QED
      BY <3>1, <3>2, <3>3
  <2> QED
    BY <2>1, <2>2
<1>10. S = Nat
  BY <1>8, <1>9, Inductive
<1>11. <<1, Len(index)>> \in R /\ Len(index) \in Nat
  BY LenProperties DEF Ranges
<1> QED
  BY <1>6, <1>10, <1>11

(***************************************************************************)
(* Folds                                                                   *)
(***************************************************************************)
\* A greatest element is the Max.
LEMMA MaxIs ==
  ASSUME NEW S \in SUBSET Nat, NEW m \in S, \A y \in S : y <= m
  PROVE  Max(S) = m
<1>1. \A y \in S : m >= y
  OBVIOUS
<1>2. \A x \in S : (\A y \in S : x >= y) => x = m
  OBVIOUS
<1> QED
  BY <1>1, <1>2 DEF Max

\* R steps from base, for each position up to n, within the values D.
StepsOn(R, n, D, base) == n \in Nat /\ base \in D /\ R \in [D \X (1 .. n) -> D]

\* The steps up to the positions s, the greatest one last.
Stepped(it, s, R, base) == it[s] = IF s = {} THEN base ELSE R[<<it[s \ {Max(s)}], Max(s)>>]

\* it takes the k-th step, whenever it comes from a value of D.
StepsTo(it, k, R, D) == it[1 .. (k - 1)] \in D => it[1 .. k] = R[<<it[1 .. (k - 1)], k>>]

\* g are the values before and after the steps.
IsWalk(g, R, n, D, base) ==
  g \in [0 .. n -> D] /\ g[0] = base /\ \A k \in 1 .. n : g[k] = R[<<g[k - 1], k>>]

\* A step on the values D for each position up to n can be taken along any set of
\* positions, always with the greatest one last.
LEMMA StepsExist ==
  ASSUME NEW n, NEW D, NEW base, NEW R, StepsOn(R, n, D, base)
  PROVE  \E it \in [SUBSET (1 .. n) -> D] : \A s \in SUBSET (1 .. n) : Stepped(it, s, R, base)
<1> USE DEF StepsOn, Stepped
<1> DEFINE Good(it, k) ==
             /\ it \in [SUBSET (1 .. k) -> D]
             /\ \A s \in SUBSET (1 .. k) :
                  it[s] = IF s = {} THEN base ELSE R[<<it[s \ {Max(s)}], Max(s)>>]
           S == {k \in Nat : k <= n => \E it : Good(it, k)}
<1>1. 0 \in S
  <2>1. PICK it : it = [s \in SUBSET (1 .. 0) |-> base]
    OBVIOUS
  <2>2. \A s \in SUBSET (1 .. 0) : s = {}
    OBVIOUS
  <2>3. Good(it, 0)
    BY <2>1, <2>2
  <2> QED
    BY <2>3
<1>2. ASSUME NEW k \in S
      PROVE  k + 1 \in S
  <2> SUFFICES ASSUME k + 1 <= n
               PROVE  \E it : Good(it, k + 1)
    <3> HIDE DEF Good
    <3> QED
      OBVIOUS
  <2>0. k \in Nat /\ k <= n
    <3> HIDE DEF Good
    <3> QED
      OBVIOUS
  <2>1. PICK it : Good(it, k)
    <3> HIDE DEF Good
    <3> QED
      BY <2>0
  <2>2. PICK next : next = [s \in SUBSET (1 .. k + 1) |->
                              IF k + 1 \in s THEN R[<<it[s \ {k + 1}], k + 1>>] ELSE it[s]]
    OBVIOUS
  <2>3. ASSUME NEW s \in SUBSET (1 .. k + 1), k + 1 \in s
        PROVE  s \ {k + 1} \in SUBSET (1 .. k) /\ Max(s) = k + 1
    <3>1. s \in SUBSET Nat /\ k + 1 \in s /\ \A y \in s : y <= k + 1
      BY <2>0, <2>3
    <3> QED
      BY <2>0, <2>3, <3>1, MaxIs
  <2>4. ASSUME NEW s \in SUBSET (1 .. k + 1), k + 1 \notin s
        PROVE  s \in SUBSET (1 .. k)
    BY <2>4
  <2>5. ASSUME NEW s \in SUBSET (1 .. k)
        PROVE  s \in SUBSET (1 .. k + 1) /\ next[s] = it[s] /\ it[s] \in D
    BY <2>1, <2>2
  <2>6. ASSUME NEW s \in SUBSET (1 .. k + 1)
        PROVE  next[s] \in D
    <3>1. CASE k + 1 \in s
      <4>1. it[s \ {k + 1}] \in D /\ k + 1 \in 1 .. n
        BY <2>0, <2>3, <2>5, <3>1
      <4> QED
        BY <2>2, <3>1, <4>1
    <3>2. CASE k + 1 \notin s
      BY <2>4, <2>5, <3>2
    <3> QED
      BY <3>1, <3>2
  <2>7. ASSUME NEW s \in SUBSET (1 .. k + 1)
        PROVE  next[s] = IF s = {} THEN base ELSE R[<<next[s \ {Max(s)}], Max(s)>>]
    <3>1. CASE k + 1 \in s
      <4>1. Max(s) = k + 1 /\ s \ {k + 1} \in SUBSET (1 .. k)
        BY <2>3, <3>1
      <4>2. next[s \ {k + 1}] = it[s \ {k + 1}]
        BY <2>5, <4>1
      <4>3. next[s] = R[<<it[s \ {k + 1}], k + 1>>]
        BY <2>2, <3>1
      <4> QED
        BY <3>1, <4>1, <4>2, <4>3
    <3>2. CASE k + 1 \notin s
      <4>1. s \in SUBSET (1 .. k) /\ s \ {Max(s)} \in SUBSET (1 .. k)
        BY <2>4, <3>2
      <4>2. next[s] = it[s] /\ next[s \ {Max(s)}] = it[s \ {Max(s)}]
        BY <2>5, <4>1
      <4>3. it[s] = IF s = {} THEN base ELSE R[<<it[s \ {Max(s)}], Max(s)>>]
        BY <2>1, <4>1
      <4> QED
        BY <4>2, <4>3
    <3> QED
      BY <3>1, <3>2
  <2>8. next \in [SUBSET (1 .. k + 1) -> D]
    BY <2>2, <2>6
  <2> QED
    BY <2>7, <2>8
<1>3. S = Nat
  <2> HIDE DEF Good
  <2> QED
    BY <1>1, <1>2, Inductive
<1>4. \E it : Good(it, n)
  <2> HIDE DEF Good
  <2>1. n \in S
    BY <1>3
  <2> QED
    BY <2>1
<1> QED
  BY <1>4

\* The first positions end with the last one of them.
LEMMA Initial ==
  ASSUME NEW k \in Nat \ {0}
  PROVE  1 .. k # {} /\ Max(1 .. k) = k /\ (1 .. k) \ {k} = 1 .. (k - 1)
<1>1. k \in 1 .. k /\ (1 .. k) \ {k} = 1 .. (k - 1) /\ \A y \in 1 .. k : y <= k
  OBVIOUS
<1> QED
  BY <1>1, MaxIs

\* And along all positions they are one step after the other.
LEMMA StepsInOrder ==
  ASSUME NEW n, NEW D, NEW base, NEW R, StepsOn(R, n, D, base),
         NEW it, it[{}] = base,
         \A k \in 1 .. n : StepsTo(it, k, R, D)
  PROVE  \E g : IsWalk(g, R, n, D, base) /\ g[n] = it[1 .. n]
<1> USE DEF StepsOn, StepsTo, IsWalk
<1>1. PICK g : g = [k \in 0 .. n |-> it[1 .. k]]
  OBVIOUS
<1> DEFINE S == {k \in Nat : k <= n => it[1 .. k] \in D}
<1>2. 1 .. 0 = {} /\ 0 \in 0 .. n /\ n \in 0 .. n
  OBVIOUS
<1>3. 0 \in S
  BY <1>2
<1>4. ASSUME NEW k \in S
      PROVE  k + 1 \in S
  <2> SUFFICES ASSUME k + 1 <= n
               PROVE  it[1 .. k + 1] \in D
    OBVIOUS
  <2>1. k + 1 \in 1 .. n /\ (k + 1) - 1 = k /\ it[1 .. k] \in D
    OBVIOUS
  <2>2. it[1 .. k + 1] = R[<<it[1 .. k], k + 1>>]
    BY <2>1
  <2> QED
    BY <2>1, <2>2
<1>5. S = Nat
  BY <1>3, <1>4, Inductive
<1>6. g \in [0 .. n -> D]
  BY <1>1, <1>5
<1>7. ASSUME NEW k \in 1 .. n
      PROVE  g[k] = R[<<g[k - 1], k>>]
  <2>1. k \in 0 .. n /\ k - 1 \in 0 .. n
    OBVIOUS
  <2>2. g[k - 1] = it[1 .. (k - 1)] /\ g[k] = it[1 .. k] /\ g[k - 1] \in D
    BY <1>1, <1>6, <2>1
  <2> QED
    BY <2>2
<1> QED
  BY <1>1, <1>2, <1>6, <1>7

\* A set of positions has a last one.
LEMMA LastPosition ==
  ASSUME NEW n \in Nat, NEW P \in SUBSET (1 .. n), P # {}
  PROVE  \E i \in P : \A j \in P : j <= i
<1> DEFINE rest == {n - i : i \in P}
<1>0. \A i \in P : i \in Nat /\ i <= n /\ n - i \in Nat
  OBVIOUS
<1>1. rest \in SUBSET Nat /\ rest # {}
  BY <1>0
<1>2. PICK m \in rest : \A q \in rest : ~ (<<q, m>> \in OpToRel(<, Nat))
  BY <1>1, NatLessThanWellFounded, WFMin
<1>3. \A q \in rest : m <= q
  <2>1. \A q \in rest : ~ (q < m)
    BY <1>1, <1>2 DEF OpToRel
  <2>2. m \in Nat /\ \A q \in rest : q \in Nat
    BY <1>1, <1>2
  <2> HIDE DEF rest
  <2> QED BY <2>1, <2>2
<1>4. PICK i \in P : m = n - i
  BY <1>2
<1>5. \A j \in P : n - i <= n - j
  BY <1>3, <1>4
<1>6. ASSUME NEW j \in P
      PROVE  j <= i
  <2>1. n - i <= n - j /\ i \in Nat /\ j \in Nat
    BY <1>0, <1>5
  <2> QED BY <2>1
<1> QED BY <1>6

\* If no part is optional, all are mandatory.
LEMMA MandatoryIsPrimary ==
  ASSUME NEW t \in Types, \A k \in DOMAIN Primary(t) : ~Primary(t)[k].optional
  PROVE  Mandatory(t) = Primary(t)
<1>1. PICK c : c = Primary(t)
  OBVIOUS
<1>2. PICK P : P = ToSet(c) /\ c \in Seq(P)
  BY <1>1, FeatureLayerAssumption DEF FeatureLayerAssumption, Primary
<1>3. PICK n \in Nat : n = Len(c) /\ DOMAIN c = 1 .. n
  BY <1>2, LenProperties
<1>4. \A k \in 1 .. n : ~c[k].optional /\ c[k] \in P
  BY <1>1, <1>2, <1>3
<1> DEFINE Op(found, p) == IF p.optional THEN found ELSE Append(found, p)
           R == [x \in Seq(P) \X (1 .. n) |-> Op(x[1], c[x[2]])]
           Iter(it, s) == IF s = {} THEN <<>> ELSE Op(it[s \ {Max(s)}], c[Max(s)])
           iter == CHOOSE it : it = [s \in SUBSET (1 .. n) |-> Iter(it, s)]
<1>5. \A x \in Seq(P), k \in 1 .. n : Op(x, c[k]) = Append(x, c[k]) /\ Op(x, c[k]) \in Seq(P)
  BY <1>4, AppendProperties
<1>6. R \in [Seq(P) \X (1 .. n) -> Seq(P)] /\ \A x \in Seq(P), k \in 1 .. n : R[<<x, k>>] = Op(x, c[k])
  <2> HIDE DEF Op
  <2> QED
    BY <1>5
<1>7. <<>> \in Seq(P)
  OBVIOUS
<1> HIDE DEF R
<1>8. ASSUME NEW s \in SUBSET (1 .. n), s # {}
      PROVE  Max(s) \in s /\ s \ {Max(s)} \in SUBSET (1 .. n)
  <2>1. \E i \in s : \A j \in s : j <= i
    BY <1>8, LastPosition
  <2> QED
    BY <2>1 DEF Max
<1>9. ASSUME NEW it \in [SUBSET (1 .. n) -> Seq(P)], NEW s \in SUBSET (1 .. n), s # {}
      PROVE  R[<<it[s \ {Max(s)}], Max(s)>>] = Op(it[s \ {Max(s)}], c[Max(s)])
  <2>1. Max(s) \in 1 .. n /\ it[s \ {Max(s)}] \in Seq(P)
    BY <1>8, <1>9
  <2> HIDE DEF Op
  <2> QED
    BY <1>6, <2>1
<1>10. PICK it \in [SUBSET (1 .. n) -> Seq(P)] : \A s \in SUBSET (1 .. n) : it[s] = Iter(it, s)
  <2>0. StepsOn(R, n, Seq(P), <<>>)
    BY <1>6, <1>7 DEF StepsOn
  <2>1. PICK it \in [SUBSET (1 .. n) -> Seq(P)] : \A s \in SUBSET (1 .. n) :
           Stepped(it, s, R, <<>>)
    BY <2>0, StepsExist
  <2>2. \A s \in SUBSET (1 .. n) : it[s] = Iter(it, s)
    <3> HIDE DEF Op
    <3> QED
      BY <1>9, <2>1 DEF Stepped
  <2> QED
    BY <2>2
<1>11. it = [s \in SUBSET (1 .. n) |-> Iter(it, s)]
  <2> HIDE DEF Iter
  <2> QED
    BY <1>10
<1>12. iter = [s \in SUBSET (1 .. n) |-> Iter(iter, s)]
  <2> HIDE DEF Iter
  <2> QED
    BY <1>11
<1>13. Mandatory(t) = iter[1 .. n]
  BY <1>1, <1>3 DEF Mandatory, FoldLeft, MapThenFoldSet
<1> HIDE DEF iter
<1>14. iter[{}] = <<>>
  BY <1>12
<1>15. ASSUME NEW k \in 1 .. n
       PROVE  StepsTo(iter, k, R, Seq(P))
  <2> SUFFICES ASSUME iter[1 .. (k - 1)] \in Seq(P)
               PROVE  iter[1 .. k] = R[<<iter[1 .. (k - 1)], k>>]
    BY DEF StepsTo
  <2>1. 1 .. k \in SUBSET (1 .. n) /\ k \in Nat \ {0}
    OBVIOUS
  <2>2. iter[1 .. k] = Op(iter[1 .. (k - 1)], c[k])
    <3>1. iter[1 .. k] = Iter(iter, 1 .. k)
      BY <1>12, <2>1
    <3>2. 1 .. k # {} /\ Max(1 .. k) = k /\ (1 .. k) \ {k} = 1 .. (k - 1)
      BY <2>1, Initial
    <3> HIDE DEF Op
    <3> QED
      BY <3>1, <3>2
  <2> HIDE DEF Op
  <2> QED
    BY <1>6, <2>2
<1>16. PICK g \in [0 .. n -> Seq(P)] :
         /\ g[0] = <<>> /\ g[n] = iter[1 .. n]
         /\ \A k \in 1 .. n : g[k] = R[<<g[k - 1], k>>]
  <2>0. PICK g : IsWalk(g, R, n, Seq(P), <<>>) /\ g[n] = iter[1 .. n]
    <3>1. StepsOn(R, n, Seq(P), <<>>)
      BY <1>6, <1>7 DEF StepsOn
    <3> HIDE DEF Op
    <3> QED
      BY <1>14, <1>15, <3>1, StepsInOrder
  <2> QED
    BY <2>0 DEF IsWalk
<1>17. ASSUME NEW k \in 1 .. n
       PROVE  g[k] = Append(g[k - 1], c[k])
  <2>1. g[k - 1] \in Seq(P)
    OBVIOUS
  <2> HIDE DEF Op
  <2> QED
    BY <1>5, <1>6, <1>16, <2>1
<1> DEFINE S == {k \in Nat : k <= n => Len(g[k]) = k /\ \A i \in 1 .. k : g[k][i] = c[i]}
<1>18. 0 \in S
  BY <1>16
<1>19. ASSUME NEW k \in S
       PROVE  k + 1 \in S
  <2> SUFFICES ASSUME k + 1 <= n
               PROVE  Len(g[k + 1]) = k + 1 /\ \A i \in 1 .. k + 1 : g[k + 1][i] = c[i]
    OBVIOUS
  <2>1. k \in 0 .. n /\ k + 1 \in 1 .. n /\ (k + 1) - 1 = k
    OBVIOUS
  <2>2. g[k + 1] = Append(g[k], c[k + 1]) /\ g[k] \in Seq(P) /\ c[k + 1] \in P
    BY <1>4, <1>17, <2>1
  <2>3. Len(g[k]) = k /\ \A i \in 1 .. k : g[k][i] = c[i]
    BY <2>1
  <2> QED
    BY <2>2, <2>3, AppendProperties
<1>20. S = Nat
  BY <1>18, <1>19, Inductive
<1>21. g[n] \in Seq(P) /\ Len(g[n]) = n /\ \A i \in 1 .. n : g[n][i] = c[i]
  <2>1. n \in S /\ n <= n /\ n \in 0 .. n
    <3> HIDE DEF S
    <3> QED
      BY <1>20
  <2> QED
    BY <2>1
<1>22. g[n] = c
  BY <1>2, <1>3, <1>21, SeqEqual
<1> QED
  BY <1>1, <1>13, <1>16, <1>22

(***************************************************************************)
(* Matching a composition                                                  *)
(***************************************************************************)
AtEnd(c, i, toEnd) ==
  IF ~toEnd \/ i > Len(c) THEN "yes"
  ELSE IF c[i].optional THEN "endless" ELSE "no"

\* What the walk over c and parts says at i and k when it goes on with f.
Walk(f, c, parts, toEnd, i, k) ==
  IF k > Len(parts) THEN AtEnd(c, i, toEnd)
  ELSE IF i > Len(c) THEN "no"
  ELSE IF c[i].label # parts[k][1]
       THEN IF c[i].optional THEN f[<<i + 1, k>>] ELSE "no"
  ELSE IF Admits(c[i], parts[k][2]) THEN f[<<i + 1, k + 1>>]
  ELSE "no"

Places(c, parts) == (1 .. Len(c) + 1) \X (1 .. Len(parts) + 1)

Answers == {"yes", "no", "endless"}

\* f tells the outcome from each place on.
IsOutcome(f, c, parts, toEnd) ==
  \A i \in 1 .. Len(c) + 1, k \in 1 .. Len(parts) + 1 :
    f[<<i, k>>] = Walk(f, c, parts, toEnd, i, k) /\ f[<<i, k>>] \in Answers

\* And Match starts a walk.
Tells(f, c, parts, toEnd) ==
  IsOutcome(f, c, parts, toEnd) /\ \A start : Match(c, start, parts, toEnd) = f[<<start + 1, 1>>]

\* The recursion of Match defines a function, as each step goes on to a later place.
LEMMA WalkExists ==
  ASSUME NEW P, NEW c \in Seq(P), NEW Q, NEW parts \in Seq(Q), NEW toEnd
  PROVE  \E f : f = [at \in Places(c, parts) |-> Walk(f, c, parts, toEnd, at[1], at[2])]
<1>1. PICK n \in Nat, m \in Nat : n = Len(c) /\ m = Len(parts)
  BY LenProperties
<1>2. PICK D : D = Places(c, parts)
  OBVIOUS
<1>3. \A at \in D : at = <<at[1], at[2]>> /\ at[1] \in 1 .. n + 1 /\ at[2] \in 1 .. m + 1
  BY <1>1, <1>2 DEF Places
<1>4. \A i \in 1 .. n + 1, k \in 1 .. m + 1 : <<i, k>> \in D
  BY <1>1, <1>2 DEF Places
<1> DEFINE W(f, at) == Walk(f, c, parts, toEnd, at[1], at[2])
           Down(f, k) == \A at \in D : n + 1 < at[1] + k => f[at] = W(f, at)
           S == {k \in Nat : \E f : Down(f, k)}
<1>5. ASSUME NEW f, NEW g, NEW at \in D,
             at[1] <= n => \A k \in 1 .. m + 1 : f[<<at[1] + 1, k>>] = g[<<at[1] + 1, k>>]
      PROVE  W(f, at) = W(g, at)
  <2>1. at[1] \in 1 .. n + 1 /\ at[2] \in 1 .. m + 1
    BY <1>3
  <2>2. CASE at[1] > n \/ at[2] > m
    BY <1>1, <2>1, <2>2 DEF Walk
  <2>3. CASE at[1] <= n /\ at[2] <= m
    <3>1. f[<<at[1] + 1, at[2]>>] = g[<<at[1] + 1, at[2]>>]
      BY <1>5, <2>1, <2>3
    <3>2. at[2] + 1 \in 1 .. m + 1
      BY <2>1, <2>3
    <3>3. f[<<at[1] + 1, at[2] + 1>>] = g[<<at[1] + 1, at[2] + 1>>]
      BY <1>5, <2>3, <3>2
    <3> QED
      BY <3>1, <3>3 DEF Walk
  <2> QED
    BY <2>1, <2>2, <2>3
<1>6. 0 \in S
  <2>1. \A at \in D : ~(n + 1 < at[1] + 0)
    BY <1>3
  <2> QED
    BY <2>1
<1>7. ASSUME NEW k \in S
      PROVE  k + 1 \in S
  <2> HIDE DEF W
  <2>1. k \in Nat
    OBVIOUS
  <2>2. PICK f : Down(f, k)
    OBVIOUS
  <2>3. PICK g : g = [at \in D |-> IF n + 1 < at[1] + k THEN f[at] ELSE W(f, at)]
    OBVIOUS
  <2>4. ASSUME NEW at \in D, n + 1 < at[1] + (k + 1)
        PROVE  W(f, at) = W(g, at)
    <3> SUFFICES ASSUME at[1] <= n, NEW j \in 1 .. m + 1
                 PROVE  f[<<at[1] + 1, j>>] = g[<<at[1] + 1, j>>]
      BY <1>5
    <3>1. at[1] + 1 \in 1 .. n + 1 /\ n + 1 < (at[1] + 1) + k
      BY <1>3, <2>1, <2>4, SMTT(30)
    <3>2. PICK x \in D : x = <<at[1] + 1, j>> /\ x[1] = at[1] + 1
      BY <1>4, <3>1
    <3>3. g[x] = f[x]
      BY <2>3, <3>1, <3>2
    <3> QED
      BY <3>2, <3>3
  <2>5. ASSUME NEW at \in D, n + 1 < at[1] + (k + 1)
        PROVE  g[at] = W(g, at)
    <3>1. g[at] = W(f, at)
      BY <2>2, <2>3
    <3> QED
      BY <2>4, <2>5, <3>1
  <2> QED
    BY <2>1, <2>5
<1>8. S = Nat
  <2> HIDE DEF Down
  <2> QED
    BY <1>6, <1>7, Inductive
<1>9. PICK f : Down(f, n + 1)
  <2>1. n + 1 \in S
    <3> HIDE DEF S
    <3> QED
      BY <1>8
  <2> HIDE DEF Down
  <2> QED
    BY <2>1
<1>10. PICK g : g = [at \in D |-> f[at]]
  OBVIOUS
<1>11. ASSUME NEW at \in D
       PROVE  g[at] = W(g, at)
  <2> HIDE DEF W
  <2>1. n + 1 < at[1] + (n + 1)
    BY <1>3
  <2>2. W(f, at) = W(g, at)
    <3> SUFFICES ASSUME at[1] <= n, NEW j \in 1 .. m + 1
                 PROVE  f[<<at[1] + 1, j>>] = g[<<at[1] + 1, j>>]
      BY <1>5
    <3>0. at[1] + 1 \in 1 .. n + 1
      BY <1>3
    <3>1. <<at[1] + 1, j>> \in D
      BY <1>4, <3>0
    <3> QED
      BY <1>10, <3>1
  <2> QED
    BY <1>9, <1>10, <2>1, <2>2
<1>12. g = [at \in D |-> W(g, at)]
  <2> HIDE DEF W
  <2> QED
    BY <1>10, <1>11
<1> QED
  BY <1>2, <1>12

\* Match is that outcome, wherever it starts.
LEMMA MatchIsOutcome ==
  ASSUME NEW P, NEW c \in Seq(P), NEW Q, NEW parts \in Seq(Q), NEW toEnd
  PROVE  \E f : Tells(f, c, parts, toEnd)
<1> DEFINE f == CHOOSE f : f = [at \in Places(c, parts) |-> Walk(f, c, parts, toEnd, at[1], at[2])]
<1>1. f = [at \in Places(c, parts) |-> Walk(f, c, parts, toEnd, at[1], at[2])]
  BY WalkExists
<1>2. \A start : Match(c, start, parts, toEnd) = f[<<start + 1, 1>>]
  BY DEF Match, Places, Walk, AtEnd
<1> HIDE DEF f
<1>3. PICK n \in Nat, m \in Nat : n = Len(c) /\ m = Len(parts)
  BY LenProperties
<1>4. ASSUME NEW i \in 1 .. n + 1, NEW k \in 1 .. m + 1
      PROVE  f[<<i, k>>] = Walk(f, c, parts, toEnd, i, k)
  <2>1. <<i, k>> \in Places(c, parts) /\ <<i, k>>[1] = i /\ <<i, k>>[2] = k
    BY <1>3 DEF Places
  <2> HIDE DEF Places
  <2> QED
    BY <1>1, <2>1
<1> DEFINE S == {j \in Nat : \A i \in 1 .. n + 1, k \in 1 .. m + 1 :
                               n + 1 < i + j => f[<<i, k>>] \in Answers}
<1>5. 0 \in S
  OBVIOUS
<1>6. ASSUME NEW j \in S
      PROVE  j + 1 \in S
  <2> SUFFICES ASSUME NEW i \in 1 .. n + 1, NEW k \in 1 .. m + 1, n + 1 < i + (j + 1)
               PROVE  f[<<i, k>>] \in Answers
    OBVIOUS
  <2>1. f[<<i, k>>] = Walk(f, c, parts, toEnd, i, k)
    BY <1>4
  <2>2. CASE k > m \/ i > n
    BY <1>3, <2>1, <2>2 DEF Walk, AtEnd, Answers
  <2>3. CASE k <= m /\ i <= n
    <3>1. i + 1 \in 1 .. n + 1 /\ k + 1 \in 1 .. m + 1 /\ n + 1 < (i + 1) + j
      BY <2>3
    <3>2. f[<<i + 1, k>>] \in Answers /\ f[<<i + 1, k + 1>>] \in Answers
      BY <3>1
    <3> QED
      BY <1>3, <2>1, <2>3, <3>2 DEF Walk, Answers
  <2> QED
    BY <2>2, <2>3
<1>7. S = Nat
  BY <1>5, <1>6, Inductive
<1>8. \A i \in 1 .. n + 1, k \in 1 .. m + 1 : f[<<i, k>>] \in Answers
  <2> SUFFICES ASSUME NEW i \in 1 .. n + 1, NEW k \in 1 .. m + 1
               PROVE  f[<<i, k>>] \in Answers
    OBVIOUS
  <2>1. n + 1 \in S /\ n + 1 < i + (n + 1)
    <3> HIDE DEF S
    <3> QED
      BY <1>7
  <2> QED
    BY <2>1
<1> QED
  BY <1>2, <1>3, <1>4, <1>8 DEF IsOutcome, Tells

\* Parts that match, from their k-th one, are at most as many as the composition has.
LEMMA MatchedFit ==
  ASSUME NEW P, NEW c \in Seq(P), NEW Q, NEW parts \in Seq(Q), NEW toEnd,
         Match(c, 0, parts, toEnd) = "yes"
  PROVE  Len(parts) <= Len(c)
<1>1. PICK n \in Nat, m \in Nat : n = Len(c) /\ m = Len(parts)
  BY LenProperties
<1>2. PICK f : IsOutcome(f, c, parts, toEnd) /\ f[<<1, 1>>] = "yes"
  <2>1. 0 + 1 = 1
    OBVIOUS
  <2> QED
    BY <2>1, MatchIsOutcome DEF Tells
<1> DEFINE S == {j \in Nat : \A i \in 1 .. n + 1, k \in 1 .. m + 1 :
                   n + 1 < i + j /\ f[<<i, k>>] = "yes" => m + 1 - k <= n + 1 - i}
<1>3. 0 \in S
  OBVIOUS
<1>4. ASSUME NEW j \in S
      PROVE  j + 1 \in S
  <2> SUFFICES ASSUME NEW i \in 1 .. n + 1, NEW k \in 1 .. m + 1,
                      n + 1 < i + (j + 1), f[<<i, k>>] = "yes"
               PROVE  m + 1 - k <= n + 1 - i
    OBVIOUS
  <2>1. f[<<i, k>>] = Walk(f, c, parts, toEnd, i, k)
    BY <1>1, <1>2 DEF IsOutcome
  <2>2. CASE k = m + 1
    BY <2>2
  <2>3. CASE k <= m
    <3>1. i <= n
      <4>1. CASE i > n
        BY <1>1, <2>1, <2>3, <4>1 DEF Walk
      <4> QED
        BY <4>1
    <3>2. i + 1 \in 1 .. n + 1 /\ k + 1 \in 1 .. m + 1 /\ n + 1 < (i + 1) + j
      BY <2>3, <3>1
    <3>3. f[<<i + 1, k>>] = "yes" \/ f[<<i + 1, k + 1>>] = "yes"
      BY <1>1, <2>1, <2>3, <3>1 DEF Walk
    <3>4. m + 1 - k <= n + 1 - (i + 1) \/ m + 1 - (k + 1) <= n + 1 - (i + 1)
      BY <3>2, <3>3
    <3> QED
      BY <3>4
  <2> QED
    BY <2>2, <2>3
<1>5. n + 1 \in S
  <2>1. S = Nat
    BY <1>3, <1>4, Inductive
  <2> HIDE DEF S
  <2> QED
    BY <2>1
<1>6. 1 \in 1 .. n + 1 /\ 1 \in 1 .. m + 1 /\ n + 1 < 1 + (n + 1)
  OBVIOUS
<1>7. m + 1 - 1 <= n + 1 - 1
  BY <1>2, <1>5, <1>6
<1> QED
  BY <1>1, <1>7

\* The labels of the parts are those at the beginning of the composition.
Labelled(c, parts) == \A k \in 1 .. Len(parts) : c[k].label = parts[k][1]

Admitted(c, parts) == \A k \in 1 .. Len(parts) : Admits(c[k], parts[k][2])

\* Then a walk goes along both at once.
LEMMA Diagonal ==
  ASSUME NEW P, NEW c \in Seq(P), NEW Q, NEW parts \in Seq(Q), NEW toEnd,
         Labelled(c, parts), Len(parts) <= Len(c),
         NEW f, IsOutcome(f, c, parts, toEnd), f[<<1, 1>>] = "yes"
  PROVE  Admitted(c, parts)
<1>1. PICK n \in Nat, m \in Nat : n = Len(c) /\ m = Len(parts)
  BY LenProperties
<1> DEFINE S == {j \in Nat : j <= m =>
                   f[<<j + 1, j + 1>>] = "yes" /\ \A k \in 1 .. j : Admits(c[k], parts[k][2])}
<1>2. 0 \in S
  <2>1. 0 + 1 = 1
    OBVIOUS
  <2> QED
    BY <2>1
<1>3. ASSUME NEW j \in S
      PROVE  j + 1 \in S
  <2> SUFFICES ASSUME j + 1 <= m
               PROVE  /\ f[<<(j + 1) + 1, (j + 1) + 1>>] = "yes"
                      /\ \A k \in 1 .. j + 1 : Admits(c[k], parts[k][2])
    OBVIOUS
  <2>1. f[<<j + 1, j + 1>>] = "yes" /\ \A k \in 1 .. j : Admits(c[k], parts[k][2])
    OBVIOUS
  <2>2. j + 1 \in 1 .. n + 1 /\ j + 1 \in 1 .. m + 1 /\ j + 1 <= n /\ j + 1 \in 1 .. m
    BY <1>1
  <2>3. f[<<j + 1, j + 1>>] = Walk(f, c, parts, toEnd, j + 1, j + 1)
    BY <1>1, <2>2 DEF IsOutcome
  <2>4. c[j + 1].label = parts[j + 1][1]
    BY <1>1, <2>2 DEF Labelled
  <2>5. ~(j + 1 > m) /\ ~(j + 1 > n)
    BY <2>2
  <2>6. Admits(c[j + 1], parts[j + 1][2]) /\ f[<<(j + 1) + 1, (j + 1) + 1>>] = "yes"
    BY <1>1, <2>1, <2>3, <2>4, <2>5 DEF Walk
  <2>7. \A k \in 1 .. j + 1 : k \in 1 .. j \/ k = j + 1
    OBVIOUS
  <2> QED
    BY <2>1, <2>6, <2>7
<1>4. m \in S
  <2>1. S = Nat
    BY <1>2, <1>3, Inductive
  <2> HIDE DEF S
  <2> QED
    BY <2>1
<1> QED
  BY <1>1, <1>4 DEF Admitted

Continues(g, f, c, prefix, parts) ==
  \A i \in 1 .. Len(c) + 1, k \in 1 .. Len(parts) + 1 : g[<<i, Len(prefix) + k>>] = f[<<i, k>>]

\* Behind a prefix, the walk is the one over the other parts alone.
LEMMA Behind ==
  ASSUME NEW P, NEW c \in Seq(P), NEW Q, NEW prefix \in Seq(Q), NEW parts \in Seq(Q), NEW toEnd,
         NEW f, IsOutcome(f, c, parts, toEnd),
         NEW g, IsOutcome(g, c, prefix \o parts, toEnd)
  PROVE  Continues(g, f, c, prefix, parts)
<1>1. PICK n \in Nat, m \in Nat, l \in Nat : n = Len(c) /\ m = Len(parts) /\ l = Len(prefix)
  BY LenProperties
<1>2. Len(prefix \o parts) = l + m /\ \A k \in 1 .. m : (prefix \o parts)[l + k] = parts[k]
  BY <1>1, ConcatProperties
<1>3. PICK whole : whole = prefix \o parts
  OBVIOUS
<1> DEFINE S == {j \in Nat : \A i \in 1 .. n + 1, k \in 1 .. m + 1 :
                   n + 1 < i + j => g[<<i, l + k>>] = f[<<i, k>>]}
<1>4. 0 \in S
  OBVIOUS
<1>5. ASSUME NEW j \in S
      PROVE  j + 1 \in S
  <2> SUFFICES ASSUME NEW i \in 1 .. n + 1, NEW k \in 1 .. m + 1, n + 1 < i + (j + 1)
               PROVE  g[<<i, l + k>>] = f[<<i, k>>]
    OBVIOUS
  <2>1. f[<<i, k>>] = Walk(f, c, parts, toEnd, i, k)
    BY <1>1 DEF IsOutcome
  <2>2. l + k \in 1 .. (l + m) + 1 /\ Len(whole) = l + m
    BY <1>2, <1>3
  <2>3. g[<<i, l + k>>] = Walk(g, c, whole, toEnd, i, l + k)
    BY <1>1, <1>3, <2>2 DEF IsOutcome
  <2>4. CASE k = m + 1
    <3>1. k > m /\ l + k > l + m
      BY <2>4
    <3> QED
      BY <1>1, <2>1, <2>2, <2>3, <3>1 DEF Walk
  <2>5. CASE k <= m
    <3>1. ~(k > m) /\ ~(l + k > l + m) /\ whole[l + k] = parts[k]
      BY <1>2, <1>3, <2>5
    <3>2. CASE i > n
      BY <1>1, <2>1, <2>2, <2>3, <3>1, <3>2 DEF Walk
    <3>3. CASE i <= n
      <4>1. i + 1 \in 1 .. n + 1 /\ k + 1 \in 1 .. m + 1 /\ n + 1 < (i + 1) + j
            /\ (l + k) + 1 = l + (k + 1) /\ ~(i > n)
        BY <2>5, <3>3
      <4>2. g[<<i + 1, l + k>>] = f[<<i + 1, k>>]
        BY <4>1
      <4>3. g[<<i + 1, (l + k) + 1>>] = f[<<i + 1, k + 1>>]
        BY <4>1
      <4> QED
        BY <1>1, <2>1, <2>2, <2>3, <3>1, <4>1, <4>2, <4>3 DEF Walk
    <3> QED
      BY <3>2, <3>3
  <2> QED
    BY <2>4, <2>5
<1>6. n + 1 \in S
  <2>1. S = Nat
    BY <1>4, <1>5, Inductive
  <2> HIDE DEF S
  <2> QED
    BY <2>1
<1> SUFFICES ASSUME NEW i \in 1 .. n + 1, NEW k \in 1 .. m + 1
             PROVE  g[<<i, l + k>>] = f[<<i, k>>]
  BY <1>1 DEF Continues
<1>7. n + 1 < i + (n + 1)
  OBVIOUS
<1> QED
  BY <1>6, <1>7

\* A prefix and the parts that go on from it are a whole id.
LEMMA WholeIsMatched ==
  ASSUME NEW P, NEW c \in Seq(P), NEW Q, NEW prefix \in Seq(Q), NEW parts \in Seq(Q),
         NEW open, NEW toEnd, Match(c, 0, prefix, open) = "yes",
         Labelled(c, prefix), Len(prefix) <= Len(c), Match(c, Len(prefix), parts, toEnd) = "yes"
  PROVE  Match(c, 0, prefix \o parts, toEnd) = "yes"
<1>1. PICK n \in Nat, m \in Nat, l \in Nat : n = Len(c) /\ m = Len(parts) /\ l = Len(prefix)
  BY LenProperties
<1>2. PICK whole \in Seq(Q) : whole = prefix \o parts
  BY ConcatProperties
<1>3. Len(whole) = l + m /\ \A k \in 1 .. l : whole[k] = prefix[k]
  BY <1>1, <1>2, ConcatProperties
<1>4. 0 + 1 = 1
  OBVIOUS
<1>5. Admitted(c, prefix)
  <2>0. PICK f : Tells(f, c, prefix, open)
    BY MatchIsOutcome
  <2>1. IsOutcome(f, c, prefix, open) /\ f[<<1, 1>>] = "yes"
    BY <1>4, <2>0 DEF Tells
  <2> QED
    BY <2>1, Diagonal
<1>0. PICK f : Tells(f, c, parts, toEnd)
  BY MatchIsOutcome
<1>6. IsOutcome(f, c, parts, toEnd) /\ f[<<l + 1, 1>>] = "yes"
  BY <1>0, <1>1 DEF Tells
<1>15. PICK g : Tells(g, c, whole, toEnd)
  BY MatchIsOutcome
<1>7. IsOutcome(g, c, whole, toEnd) /\ Match(c, 0, whole, toEnd) = g[<<1, 1>>]
  BY <1>4, <1>15 DEF Tells
<1> DEFINE S == {j \in Nat : j <= l => g[<<1, 1>>] = g[<<j + 1, j + 1>>]}
<1>8. 0 \in S
  BY <1>4
<1>9. ASSUME NEW j \in S
      PROVE  j + 1 \in S
  <2> SUFFICES ASSUME j + 1 <= l
               PROVE  g[<<1, 1>>] = g[<<(j + 1) + 1, (j + 1) + 1>>]
    OBVIOUS
  <2>1. g[<<1, 1>>] = g[<<j + 1, j + 1>>]
    OBVIOUS
  <2>2. j + 1 \in 1 .. n + 1 /\ j + 1 \in 1 .. (l + m) + 1 /\ ~(j + 1 > n) /\ j + 1 \in 1 .. l
        /\ ~(j + 1 > l + m)
    BY <1>1
  <2>3. g[<<j + 1, j + 1>>] = Walk(g, c, whole, toEnd, j + 1, j + 1)
    BY <1>1, <1>3, <1>7, <2>2 DEF IsOutcome
  <2>4. c[j + 1].label = whole[j + 1][1] /\ Admits(c[j + 1], whole[j + 1][2])
    BY <1>1, <1>3, <1>5, <2>2 DEF Labelled, Admitted
  <2>5. Walk(g, c, whole, toEnd, j + 1, j + 1) = g[<<(j + 1) + 1, (j + 1) + 1>>]
    BY <1>1, <1>3, <2>2, <2>4 DEF Walk
  <2> QED
    BY <2>1, <2>3, <2>5
<1>10. l \in S
  <2>1. S = Nat
    BY <1>8, <1>9, Inductive
  <2> HIDE DEF S
  <2> QED
    BY <2>1
<1>11. g[<<1, 1>>] = g[<<l + 1, l + 1>>]
  BY <1>10
<1>12. l + 1 \in 1 .. n + 1 /\ 1 \in 1 .. m + 1
  BY <1>1
<1>13. IsOutcome(g, c, prefix \o parts, toEnd)
  BY <1>2, <1>7
<1>14. g[<<l + 1, l + 1>>] = f[<<l + 1, 1>>]
  <2>1. Continues(g, f, c, prefix, parts)
    BY <1>6, <1>13, Behind
  <2> QED
    BY <1>1, <1>12, <2>1 DEF Continues
<1> QED
  BY <1>2, <1>6, <1>7, <1>11, <1>14

\* Without optional parts, what matches is labelled and admitted, to the end.
LEMMA PlainMatch ==
  ASSUME NEW P, NEW c \in Seq(P), NEW Q, NEW parts \in Seq(Q), NEW toEnd,
         \A k \in 1 .. Len(c) : ~c[k].optional, Match(c, 0, parts, toEnd) = "yes"
  PROVE  /\ Labelled(c, parts) /\ Admitted(c, parts) /\ Len(parts) <= Len(c)
         /\ toEnd => Len(parts) = Len(c)
<1>1. PICK n \in Nat, m \in Nat : n = Len(c) /\ m = Len(parts)
  BY LenProperties
<1>2. m <= n
  BY <1>1, MatchedFit
<1>3. PICK f : IsOutcome(f, c, parts, toEnd) /\ f[<<1, 1>>] = "yes"
  <2>1. 0 + 1 = 1
    OBVIOUS
  <2> QED
    BY <2>1, MatchIsOutcome DEF Tells
<1> DEFINE S == {j \in Nat : j <= m => /\ f[<<j + 1, j + 1>>] = "yes"
                                       /\ \A k \in 1 .. j : c[k].label = parts[k][1]}
<1>4. 0 \in S
  <2>1. 0 + 1 = 1
    OBVIOUS
  <2> QED
    BY <1>3, <2>1
<1>5. ASSUME NEW j \in S
      PROVE  j + 1 \in S
  <2> SUFFICES ASSUME j + 1 <= m
               PROVE  /\ f[<<(j + 1) + 1, (j + 1) + 1>>] = "yes"
                      /\ \A k \in 1 .. j + 1 : c[k].label = parts[k][1]
    OBVIOUS
  <2>1. f[<<j + 1, j + 1>>] = "yes" /\ \A k \in 1 .. j : c[k].label = parts[k][1]
    OBVIOUS
  <2>2. j + 1 \in 1 .. n + 1 /\ j + 1 \in 1 .. m + 1 /\ ~(j + 1 > n) /\ ~(j + 1 > m)
        /\ j + 1 \in 1 .. n
    BY <1>2
  <2>3. f[<<j + 1, j + 1>>] = Walk(f, c, parts, toEnd, j + 1, j + 1)
    BY <1>1, <1>3, <2>2 DEF IsOutcome
  <2>4. ~c[j + 1].optional
    BY <1>1, <2>2
  <2>5. c[j + 1].label = parts[j + 1][1] /\ f[<<(j + 1) + 1, (j + 1) + 1>>] = "yes"
    BY <1>1, <2>1, <2>2, <2>3, <2>4 DEF Walk
  <2>6. \A k \in 1 .. j + 1 : k \in 1 .. j \/ k = j + 1
    OBVIOUS
  <2> QED
    BY <2>1, <2>5, <2>6
<1>6. m \in S
  <2>1. S = Nat
    BY <1>4, <1>5, Inductive
  <2> HIDE DEF S
  <2> QED
    BY <2>1
<1>7. f[<<m + 1, m + 1>>] = "yes" /\ Labelled(c, parts)
  BY <1>1, <1>6 DEF Labelled
<1>8. Admitted(c, parts)
  BY <1>1, <1>2, <1>3, <1>7, Diagonal
<1>9. ASSUME toEnd
      PROVE  m = n
  <2>1. m + 1 \in 1 .. n + 1 /\ m + 1 \in 1 .. m + 1
    BY <1>2
  <2>2. f[<<m + 1, m + 1>>] = Walk(f, c, parts, toEnd, m + 1, m + 1)
    BY <1>1, <1>3, <2>1 DEF IsOutcome
  <2>3. AtEnd(c, m + 1, toEnd) = "yes"
    BY <1>1, <1>7, <2>2 DEF Walk
  <2>4. CASE m + 1 <= n
    <3>1. ~(m + 1 > n) /\ ~c[m + 1].optional
      BY <1>1, <2>1, <2>4
    <3> QED
      BY <1>1, <1>9, <2>3, <3>1 DEF AtEnd
  <2> QED
    BY <1>2, <2>4
<1> QED
  BY <1>1, <1>2, <1>7, <1>8, <1>9

(***************************************************************************)
(* The index and find                                                      *)
(***************************************************************************)
\* hashFeatureId returns a number.
HashesAreNumbers == \A t \in Types : \A key : Hash(t, key) \in Nat

FeatureRecords == [type : Types, parts : Seq(AllParts), adopted : SUBSET AddOns]

TileRecords ==
  [prefix : Seq(AllParts), features : Seq(FeatureRecords), index : Seq(Entries),
   unsorted : BOOLEAN, last : Answers]

\* The index x has an entry for each feature of s, with its hash.
Indexed(s, x) ==
  /\ x \in Seq(Entries) /\ Len(x) = Len(s.features)
  /\ \A k \in 1 .. Len(x) :
       /\ x[k].at \in 1 .. Len(s.features)
       /\ x[k].hash = Hash(s.features[x[k].at].type, Key(s, x[k].at))
  /\ \A i \in 1 .. Len(s.features) : \E k \in 1 .. Len(x) : x[k].at = i
  /\ \A k, l \in 1 .. Len(x) : x[k].at = x[l].at => k = l

InOrder(x) == \A k, l \in 1 .. Len(x) : k < l => Precedes(x[k], x[l])

IndexFits(s) == Indexed(s, s.index) /\ (~s.unsorted => InOrder(s.index))

\* find looks at an index that is in order and has all features.
LEMMA IndexOfFits ==
  ASSUME NEW s \in TileRecords, IndexFits(s)
  PROVE  Indexed(s, IndexOf(s)) /\ InOrder(IndexOf(s))
<1>1. CASE ~s.unsorted
  BY <1>1 DEF IndexOf, IndexFits
<1>2. CASE s.unsorted
  <2>a. s.index \in Seq(Entries) /\ Indexed(s, s.index)
    BY DEF IndexFits, Indexed
  <2>b. PICK x \in Seq(Entries) : x = s.index
    BY <2>a
  <2>c. PICK n \in Nat : n = Len(x)
    BY LenProperties
  <2>1. x = s.index /\ n = Len(x) /\ Indexed(s, x)
    BY <2>a, <2>b, <2>c
  <2>2. PICK y : y = SortedIndex(x) /\ y = IndexOf(s)
    BY <1>2, <2>1 DEF IndexOf
  <2>3. IsIndex(x, n)
    <3>1. x \in [1 .. n -> Entries]
      BY <2>1, LenProperties
    <3>2. \A k, l \in 1 .. n : x[k].at = x[l].at => k = l
      BY <2>1 DEF Indexed
    <3> QED
      BY <3>1, <3>2 DEF IsIndex
  <2>4. /\ y \in [1 .. n -> ToSet(x)]
        /\ \A k \in 1 .. n : \E l \in 1 .. n : y[k] = x[l]
        /\ \A l \in 1 .. n : \E k \in 1 .. n : y[k] = x[l]
        /\ \A k, l \in 1 .. n : k < l => Precedes(y[k], y[l])
    <3>1. Sorts(y, x, n)
      BY <2>2, <2>3, SortedIndexIsSorted
    <3> QED
      BY <3>1 DEF Sorts
  <2>5. ToSet(x) \subseteq Entries
    BY DEF ToSet
  <2>6. y \in [1 .. n -> Entries]
    BY <2>4, <2>5
  <2>7. y \in Seq(Entries) /\ Len(y) = n
    BY <2>6
  <2>8. InOrder(y)
    BY <2>4, <2>7 DEF InOrder
  <2>9. ASSUME NEW k \in 1 .. n
        PROVE  /\ y[k].at \in 1 .. Len(s.features)
               /\ y[k].hash = Hash(s.features[y[k].at].type, Key(s, y[k].at))
    <3>1. PICK l \in 1 .. n : y[k] = x[l]
      BY <2>4
    <3>2. /\ x[l].at \in 1 .. Len(s.features)
          /\ x[l].hash = Hash(s.features[x[l].at].type, Key(s, x[l].at))
      BY <2>1 DEF Indexed
    <3> QED
      BY <3>1, <3>2, Zenon
  <2>10. ASSUME NEW i \in 1 .. Len(s.features)
         PROVE  \E k \in 1 .. n : y[k].at = i
    <3>1. PICK l \in 1 .. n : x[l].at = i
      BY <2>1 DEF Indexed
    <3> QED
      BY <2>4, <3>1
  <2>11. ASSUME NEW k \in 1 .. n, NEW l \in 1 .. n, y[k].at = y[l].at
         PROVE  k = l
    <3>1. PICK a \in 1 .. n, b \in 1 .. n : y[k] = x[a] /\ y[l] = x[b]
      BY <2>4
    <3>2. x[a].at = x[b].at
      BY <2>11, <3>1
    <3>3. a = b
      BY <2>1, <3>2 DEF Indexed
    <3>4. y[k] = y[l] /\ y[k] \in Entries
      BY <2>6, <3>1, <3>3
    <3>5. ~(k < l) /\ ~(l < k)
      <4>1. ~Precedes(y[k], y[k])
        BY <3>4, PrecedesIsTotal DEF Entries
      <4> QED
        BY <2>4, <3>4, <4>1
    <3> QED
      BY <3>5
  <2>12. Indexed(s, y)
    BY <2>1, <2>7, <2>9, <2>10, <2>11 DEF Indexed
  <2> QED
    BY <2>2, <2>8, <2>12
<1> QED
  BY <1>1, <1>2 DEF TileRecords

\* The features of a type with the mandatory parts of key.
Matching(s, t, key) ==
  {i \in 1 .. Len(s.features) : s.features[i].type = t /\ Key(s, i) = key}

First(S) == IF S = {} THEN 0 ELSE Min(S)

\* find returns the first feature with the type and the mandatory parts.
LEMMA FindIsFirst ==
  ASSUME HashesAreNumbers, NEW s \in TileRecords, IndexFits(s), NEW t \in Types, NEW parts
  PROVE  Find(s, t, parts) = First(Matching(s, t, Strip(parts, Primary(t))))
<1>1. PICK x : x = IndexOf(s)
  OBVIOUS
<1>2. Indexed(s, x) /\ InOrder(x) /\ x \in Seq(Entries)
  BY <1>1, IndexOfFits DEF Indexed
<1>3. PICK n \in Nat : n = Len(x) /\ n = Len(s.features)
  BY <1>2, LenProperties DEF Indexed
<1>4. \A k \in 1 .. n : x[k] \in Entries /\ x[k].hash \in Nat /\ x[k].at \in 1 .. n
  <2>1. \A k \in 1 .. n : x[k] \in Entries
    BY <1>2, <1>3, ElementOfSeq
  <2> QED
    BY <1>2, <1>3, <2>1 DEF Entries, Indexed
<1>5. PICK key : key = Strip(parts, Primary(t))
  OBVIOUS
<1>6. PICK hash \in Nat : hash = Hash(t, key)
  BY DEF HashesAreNumbers
<1>7. Ascends(x)
  BY <1>2, <1>3, <1>4 DEF InOrder, Precedes, Ascends
<1>8. PICK first : first = LowerBound(x, hash) /\ Splits(x, hash, <<1, n>>, first)
  BY <1>2, <1>3, <1>7, LowerBoundSplits
<1>9. /\ first \in 1 .. n + 1
      /\ \A k \in 1 .. (first - 1) : x[k].hash < hash
      /\ \A k \in first .. n : hash <= x[k].hash
  <2>1. 1 + n - 1 = n /\ 1 + n = n + 1
    OBVIOUS
  <2> QED
    BY <1>8, <2>1 DEF Splits
<1> DEFINE Others == {k \in first .. n : x[k].hash # hash}
           end == IF First(Others) = 0 THEN n ELSE First(Others) - 1
           Hits == {k \in first .. end : s.features[x[k].at].type = t /\ Key(s, x[k].at) = key}
           J == Matching(s, t, key)
<1>10. Find(s, t, parts) = IF First(Hits) = 0 THEN 0 ELSE x[First(Hits)].at
  <2>1. Hash(t, Strip(parts, Primary(t))) = hash
    BY <1>5, <1>6
  <2> QED
    BY <1>1, <1>3, <1>5, <1>8, <2>1, ZenonT(30) DEF Find, SelectInSubSeq, First
<1>11. end \in Nat /\ end <= n /\ \A k \in first .. end : x[k].hash = hash
  <2>1. CASE Others = {}
    <3>1. end = n
      BY <2>1 DEF First
    <3>2. \A k \in first .. n : x[k].hash = hash
      BY <2>1
    <3> HIDE DEF end, Others
    <3> QED
      BY <3>1, <3>2
  <2>2. CASE Others # {}
    <3>1. Others \in SUBSET Nat
      BY <1>9
    <3>2. First(Others) \in Others /\ \A k \in Others : First(Others) <= k
      BY <2>2, <3>1, MinIs DEF First
    <3>3. PICK o \in Nat : o = First(Others) /\ o \in first .. n
      BY <3>1, <3>2
    <3>4. o # 0 /\ o - 1 \in Nat /\ end = o - 1
      BY <1>9, <3>3
    <3>5. ASSUME NEW k \in first .. (o - 1)
          PROVE  x[k].hash = hash
      <4>1. k \in first .. n /\ ~(o <= k)
        BY <1>9, <3>3
      <4> QED
        BY <3>2, <3>3, <4>1
    <3> QED
      BY <3>3, <3>4, <3>5
  <2> QED
    BY <2>1, <2>2
<1>12. \A k \in first .. n : end < k => \E l \in first .. k : x[l].hash # hash
  <2>1. CASE Others = {}
    <3>1. end = n
      BY <2>1 DEF First
    <3> QED
      BY <3>1
  <2>2. CASE Others # {}
    <3>1. Others \in SUBSET Nat
      BY <1>9
    <3>2. First(Others) \in Others
      BY <2>2, <3>1, MinIs DEF First
    <3>3. PICK o \in Nat : o = First(Others) /\ o \in first .. n /\ x[o].hash # hash
      BY <3>1, <3>2
    <3>4. o # 0 /\ end = o - 1
      BY <1>9, <3>3
    <3> QED
      BY <1>9, <3>3, <3>4
  <2> QED
    BY <2>1, <2>2
<1> HIDE DEF Others, end
\* An entry of one of them lies between first and the end.
<1>13. ASSUME NEW k \in 1 .. n, x[k].at \in J
       PROVE  k \in Hits
  <2>1. x[k].hash = hash
    BY <1>2, <1>3, <1>4, <1>6, <1>13 DEF Indexed, Matching
  <2>2. first <= k
    BY <1>6, <1>9, <2>1
  <2>3. ASSUME NEW l \in first .. k
        PROVE  x[l].hash = hash
    <3>1. l \in 1 .. n /\ l \in first .. n /\ (l < k \/ l = k)
      BY <1>9
    <3>2. x[l].hash <= x[k].hash
      BY <1>3, <1>4, <1>7, <3>1 DEF Ascends
    <3>3. hash <= x[l].hash
      BY <1>9, <3>1
    <3> QED
      BY <1>4, <2>1, <3>1, <3>2, <3>3
  <2>4. ~(end < k)
    BY <1>9, <1>12, <2>2, <2>3
  <2> QED
    BY <1>9, <1>11, <1>13, <2>2, <2>4 DEF Matching
<1>14. ASSUME NEW k \in Hits
       PROVE  k \in 1 .. n /\ x[k].at \in J /\ x[k].hash = hash
  <2>1. k \in 1 .. n
    BY <1>9, <1>11
  <2> QED
    BY <1>3, <1>4, <1>11, <2>1 DEF Matching
<1> HIDE DEF Hits, J
<1>15. CASE J = {}
  <2>1. Hits = {}
    BY <1>14, <1>15
  <2> QED
    BY <1>5, <1>10, <1>15, <2>1 DEF First, J
<1>16. CASE J # {}
  <2>0. J \in SUBSET Nat /\ J \subseteq 1 .. n
    BY <1>3 DEF J, Matching
  <2>1. PICK m \in J : m = Min(J) /\ \A i \in J : m <= i
    BY <1>16, <2>0, MinIs
  <2>2. PICK k \in 1 .. n : x[k].at = m
    BY <1>2, <1>3, <2>0 DEF Indexed
  <2>3. k \in Hits /\ x[k].hash = hash
    BY <1>13, <1>14, <2>2
  <2>4. ASSUME NEW l \in Hits, l < k
        PROVE  FALSE
    <3>1. l \in 1 .. n /\ x[l].at \in J /\ x[l].hash = hash
      BY <1>14
    <3>2. Precedes(x[l], x[k])
      BY <1>2, <1>3, <2>4, <3>1 DEF InOrder
    <3>3. x[l].at < m
      BY <1>6, <2>2, <2>3, <3>1, <3>2 DEF Precedes
    <3> QED
      BY <1>4, <2>0, <2>1, <3>1, <3>3
  <2>5. Hits \in SUBSET Nat
    BY <1>14
  <2>6. \A l \in Hits : k <= l
    BY <2>4, <2>5
  <2>7. First(Hits) = k
    BY <2>3, <2>5, <2>6, MinIsUnique DEF First
  <2> QED
    BY <1>5, <1>10, <1>16, <2>1, <2>2, <2>7 DEF First, J
<1> QED
  BY <1>15, <1>16

(***************************************************************************)
(* Adding and merging features                                             *)
(***************************************************************************)
\* Each type admits the prefix, and the other parts of each feature go on from there.
PartsFit(s) ==
  /\ \A t \in Types : \E toEnd \in BOOLEAN : Match(Primary(t), 0, s.prefix, toEnd) = "yes"
  /\ \A i \in 1 .. Len(s.features) :
       ValidNew(s.features[i].type, s.features[i].parts, Len(s.prefix)) = "yes"

TileFits(s) == s \in TileRecords /\ IndexFits(s) /\ PartsFit(s)

\* A primary composition is a sequence.
LEMMA Primaries ==
  ASSUME NEW t \in Types
  PROVE  \E P : Primary(t) \in Seq(P)
BY FeatureLayerAssumption DEF FeatureLayerAssumption, Primary

\* validFeatureId has one of its three outcomes also behind a prefix.
LEMMA MatchAnswers ==
  ASSUME NEW t \in Types, NEW parts \in Seq(AllParts), NEW prefix \in Seq(AllParts), NEW toEnd,
         Match(Primary(t), 0, prefix, toEnd) = "yes"
  PROVE  ValidNew(t, parts, Len(prefix)) \in Answers
<1>1. PICK P : Primary(t) \in Seq(P)
  BY Primaries
<1>2. PICK c \in Seq(P) : c = Primary(t)
  BY <1>1
<1>3. Len(prefix) <= Len(c)
  BY <1>2, MatchedFit
<1>4. PICK e : e = RequireEnd
  OBVIOUS
<1>5. PICK f : Tells(f, c, parts, e)
  BY MatchIsOutcome
<1>6. Match(c, Len(prefix), parts, e) = f[<<Len(prefix) + 1, 1>>]
  BY <1>5 DEF Tells
<1>7. Len(prefix) + 1 \in 1 .. Len(c) + 1 /\ 1 \in 1 .. Len(parts) + 1
  BY <1>3, LenProperties
<1>8. f[<<Len(prefix) + 1, 1>>] \in Answers
  BY <1>5, <1>7 DEF Tells, IsOutcome
<1> QED
  BY <1>2, <1>4, <1>6, <1>8 DEF ValidNew

\* The id of a feature depends on the prefix and its own parts only.
LEMMA SameKey ==
  ASSUME NEW s, NEW r, NEW i, r.prefix = s.prefix,
         r.features[i].type = s.features[i].type, r.features[i].parts = s.features[i].parts
  PROVE  Key(r, i) = Key(s, i)
BY DEF Key, IdOf

\* Sorting the index changes neither the ids nor the features.
LEMMA SortedFits ==
  ASSUME NEW s, TileFits(s)
  PROVE  /\ TileFits(Sorted(s))
         /\ Sorted(s).prefix = s.prefix /\ Sorted(s).features = s.features
         /\ Sorted(s).last = s.last
<1>1. PICK x \in Seq(Entries) : x = IndexOf(s) /\ Indexed(s, x) /\ InOrder(x)
  BY IndexOfFits DEF TileFits, Indexed
<1>2. PICK r : r = Sorted(s)
  OBVIOUS
<1>3. /\ r \in TileRecords /\ r.prefix = s.prefix /\ r.features = s.features
      /\ r.index = x /\ r.unsorted = FALSE /\ r.last = s.last
  BY <1>1, <1>2 DEF Sorted, TileFits, TileRecords
<1>4. \A i : Key(r, i) = Key(s, i)
  BY <1>3, SameKey
<1>5. Indexed(r, x)
  BY <1>1, <1>3, <1>4 DEF Indexed
<1>6. PartsFit(r)
  BY <1>3 DEF PartsFit, TileFits
<1> QED
  BY <1>1, <1>2, <1>3, <1>5, <1>6 DEF TileFits, IndexFits

\* newFeature adds a feature and its entry.
LEMMA FeatureAdded ==
  ASSUME HashesAreNumbers, NEW s, TileFits(s), NEW t \in Types, NEW parts \in Seq(AllParts),
         NEW adopted \in SUBSET AddOns, ValidNew(t, parts, Len(s.prefix)) = "yes"
  PROVE  LET r == WithFeature(s, t, parts, adopted)
         IN  /\ TileFits(r)
             /\ r.prefix = s.prefix /\ r.last = s.last
             /\ r.features = Append(s.features, [type |-> t, parts |-> parts, adopted |-> adopted])
<1>1. PICK f \in FeatureRecords : f = [type |-> t, parts |-> parts, adopted |-> adopted]
  BY DEF FeatureRecords
<1>2. PICK n \in Nat : n = Len(s.features) /\ n = Len(s.index)
  BY LenProperties DEF TileFits, TileRecords, IndexFits, Indexed
<1>0. s \in TileRecords /\ s.features \in Seq(FeatureRecords) /\ s.index \in Seq(Entries)
  BY DEF TileFits, TileRecords
<1>a. PICK fs : fs = Append(s.features, f)
  OBVIOUS
<1>3. /\ fs \in Seq(FeatureRecords) /\ Len(fs) = n + 1
      /\ fs[n + 1] = f /\ \A i \in 1 .. n : fs[i] = s.features[i]
  <2>1. PICK old \in Seq(FeatureRecords) : old = s.features /\ Len(old) = n
    BY <1>0, <1>2
  <2>2. fs = Append(old, f)
    BY <1>a, <2>1
  <2>3. /\ fs \in Seq(FeatureRecords) /\ Len(fs) = n + 1
        /\ fs[n + 1] = f /\ \A i \in 1 .. n : fs[i] = old[i]
    BY <2>1, <2>2, AppendProperties
  <2> QED
    BY <2>1, <2>3
<1>b. PICK added : added = [s EXCEPT !.features = fs]
  OBVIOUS
<1>4. added \in TileRecords /\ added.features = fs /\ added.prefix = s.prefix
      /\ added.last = s.last
  BY <1>0, <1>3, <1>b DEF TileRecords
<1>c. PICK hash : hash = Hash(t, Key(added, n + 1))
  OBVIOUS
<1>d. hash \in Nat
  BY <1>c DEF HashesAreNumbers
<1>f. PICK e : e = [hash |-> hash, at |-> n + 1]
  OBVIOUS
<1>5. e \in Entries
  BY <1>d, <1>f DEF Entries
<1>6. e.hash = Hash(t, Key(added, n + 1)) /\ e.at = n + 1
  BY <1>c, <1>f
<1>e. PICK x : x = Append(s.index, e)
  OBVIOUS
<1>7. /\ x \in Seq(Entries) /\ Len(x) = n + 1
      /\ x[n + 1] = e /\ \A k \in 1 .. n : x[k] = s.index[k]
  BY <1>0, <1>2, <1>5, <1>e, AppendProperties
<1>8. PICK r : r = WithFeature(s, t, parts, adopted)
  OBVIOUS
<1>9. r = [added EXCEPT !.index = x, !.unsorted = TRUE]
  <2>1. s.index = added.index
    BY <1>0, <1>b DEF TileRecords
  <2> QED
    BY <1>1, <1>2, <1>a, <1>b, <1>c, <1>f, <1>e, <1>8, <2>1 DEF WithFeature, MarkUnsorted
<1>10. /\ r \in TileRecords /\ r.prefix = s.prefix /\ r.features = fs /\ r.index = x
       /\ r.unsorted = TRUE /\ r.last = s.last
  BY <1>4, <1>7, <1>9 DEF TileRecords
<1>11. \A i \in 1 .. n : Key(r, i) = Key(s, i)
  BY <1>3, <1>10 DEF Key, IdOf
<1>12. Key(r, n + 1) = Key(added, n + 1)
  BY <1>4, <1>10 DEF Key, IdOf
<1>13. f.type = t /\ f.parts = parts
  BY <1>1
<1>14. Indexed(r, x)
  <2>1. ASSUME NEW k \in 1 .. n
        PROVE  /\ x[k].at \in 1 .. n
               /\ x[k].hash = Hash(r.features[x[k].at].type, Key(r, x[k].at))
    <3>1. PICK i \in 1 .. n : i = s.index[k].at
      BY <1>2 DEF TileFits, IndexFits, Indexed
    <3>2. s.index[k].hash = Hash(s.features[i].type, Key(s, i))
      BY <1>2, <3>1 DEF TileFits, IndexFits, Indexed
    <3>3. Key(r, i) = Key(s, i) /\ r.features[i].type = s.features[i].type
      BY <1>3, <1>10, <1>11
    <3>4. x[k].at = i
      BY <1>7, <3>1
    <3>5. x[k].hash = Hash(r.features[i].type, Key(r, i))
      BY <1>7, <3>2, <3>3
    <3> QED
      BY <3>4, <3>5
  <2>2. x[n + 1].at = n + 1 /\ x[n + 1].hash = Hash(r.features[n + 1].type, Key(r, n + 1))
    BY <1>3, <1>6, <1>7, <1>10, <1>12, <1>13
  <2>3. \A k \in 1 .. n + 1 : k \in 1 .. n \/ k = n + 1
    OBVIOUS
  <2>4. ASSUME NEW i \in 1 .. n
        PROVE  \E k \in 1 .. n : x[k].at = i
    BY <1>2, <1>7 DEF TileFits, IndexFits, Indexed
  <2>5. \A k, l \in 1 .. n : x[k].at = x[l].at => k = l
    BY <1>2, <1>7 DEF TileFits, IndexFits, Indexed
  <2>6. ASSUME NEW k \in 1 .. n + 1, NEW l \in 1 .. n + 1, x[k].at = x[l].at
        PROVE  k = l
    <3>1. n + 1 \notin 1 .. n
      OBVIOUS
    <3> QED
      BY <2>1, <2>2, <2>3, <2>5, <2>6, <3>1
  <2>7. ASSUME NEW k \in 1 .. n + 1
        PROVE  /\ x[k].at \in 1 .. n + 1
               /\ x[k].hash = Hash(r.features[x[k].at].type, Key(r, x[k].at))
    <3>1. CASE k \in 1 .. n
      BY <2>1, <3>1
    <3>2. CASE k = n + 1
      BY <2>2, <3>2
    <3> QED
      BY <2>3, <3>1, <3>2
  <2>8. ASSUME NEW i \in 1 .. n + 1
        PROVE  \E k \in 1 .. n + 1 : x[k].at = i
    BY <2>2, <2>3, <2>4
  <2>9. Len(r.features) = n + 1 /\ Len(x) = n + 1
    BY <1>3, <1>7, <1>10
  <2> QED
    BY <1>7, <2>6, <2>7, <2>8, <2>9 DEF Indexed
<1>15. PartsFit(r)
  <2>1. ASSUME NEW i \in 1 .. n + 1
        PROVE  ValidNew(r.features[i].type, r.features[i].parts, Len(r.prefix)) = "yes"
    <3>1. CASE i \in 1 .. n
      BY <1>2, <1>3, <1>10, <3>1 DEF TileFits, PartsFit
    <3>2. CASE i = n + 1
      BY <1>3, <1>10, <1>13, <3>2
    <3> QED
      BY <3>1, <3>2
  <2> QED
    BY <1>3, <1>10, <2>1 DEF PartsFit, TileFits
<1>16. TileFits(r)
  BY <1>10, <1>14, <1>15 DEF TileFits, IndexFits
<1> QED
  BY <1>1, <1>a, <1>8, <1>10, <1>16

\* r has one more feature than s.
Adds(s, r, t, parts, adopted) ==
  /\ Len(r.features) = Len(s.features) + 1
  /\ \A i \in 1 .. Len(s.features) : r.features[i] = s.features[i]
  /\ r.features[Len(s.features) + 1] = [type |-> t, parts |-> parts, adopted |-> adopted]

\* r has the features of s, and a is appended to one of them.
Appends(s, r, at, a) ==
  /\ at \in 1 .. Len(s.features) /\ Len(r.features) = Len(s.features)
  /\ \A i \in 1 .. Len(s.features) : r.features[i] =
       IF i = at THEN [s.features[i] EXCEPT !.adopted = @ \cup {a}] ELSE s.features[i]

\* A call that does not raise ("yes") adds a feature, one that does adds none.
LEMMA AddToDoes ==
  ASSUME HashesAreNumbers, NEW s, TileFits(s), NEW t \in Types, NEW parts \in Seq(AllParts),
         NEW adopted \in SUBSET AddOns
  PROVE  LET r == AddTo(s, t, parts, adopted)
         IN  /\ TileFits(r) /\ r.prefix = s.prefix
             /\ \/ r.last # "yes" /\ r.features = s.features
                \/ r.last = s.last /\ Adds(s, r, t, parts, adopted)
<1>1. PICK r : r = AddTo(s, t, parts, adopted)
  OBVIOUS
<1>2. PICK match : match = IF parts = <<>> THEN "no" ELSE ValidNew(t, parts, Len(s.prefix))
  OBVIOUS
<1>3. r = IF match = "yes" THEN WithFeature(s, t, parts, adopted) ELSE [s EXCEPT !.last = match]
  BY <1>1, <1>2 DEF AddTo
<1>4. match \in Answers
  <2>1. PICK toEnd : Match(Primary(t), 0, s.prefix, toEnd) = "yes"
    BY DEF TileFits, PartsFit
  <2>2. s.prefix \in Seq(AllParts)
    BY DEF TileFits, TileRecords
  <2>3. ValidNew(t, parts, Len(s.prefix)) \in Answers
    BY <2>1, <2>2, MatchAnswers
  <2>4. CASE parts = <<>>
    BY <1>2, <2>4 DEF Answers
  <2>5. CASE parts # <<>>
    BY <1>2, <2>3, <2>5
  <2> QED
    BY <2>4, <2>5
<1>5. CASE match = "yes"
  <2>1. ValidNew(t, parts, Len(s.prefix)) = "yes"
    BY <1>2, <1>5
  <2>2. PICK f \in FeatureRecords : f = [type |-> t, parts |-> parts, adopted |-> adopted]
    BY DEF FeatureRecords
  <2>3. r = WithFeature(s, t, parts, adopted)
    BY <1>3, <1>5
  <2>4. /\ TileFits(r) /\ r.prefix = s.prefix /\ r.last = s.last
        /\ r.features = Append(s.features, f)
    BY <2>1, <2>2, <2>3, FeatureAdded
  <2>5. PICK old \in Seq(FeatureRecords), n \in Nat : old = s.features /\ n = Len(old)
    BY LenProperties DEF TileFits, TileRecords
  <2>6. PICK new : new = Append(old, f)
    OBVIOUS
  <2>7. Len(new) = n + 1 /\ new[n + 1] = f /\ \A i \in 1 .. n : new[i] = old[i]
    BY <2>5, <2>6, AppendProperties
  <2>8. Adds(s, r, t, parts, adopted)
    BY <2>2, <2>4, <2>5, <2>6, <2>7 DEF Adds
  <2> QED
    BY <1>1, <2>4, <2>8
<1>6. CASE match # "yes"
  <2>1. r = [s EXCEPT !.last = match]
    BY <1>3, <1>6
  <2>2. /\ r \in TileRecords /\ r.prefix = s.prefix /\ r.features = s.features
        /\ r.index = s.index /\ r.unsorted = s.unsorted /\ r.last = match
    BY <1>4, <2>1 DEF TileFits, TileRecords
  <2>3. TileFits(r)
    <3>1. \A i : Key(r, i) = Key(s, i)
      BY <2>2 DEF Key, IdOf
    <3>2. IndexFits(r)
      BY <2>2, <3>1 DEF TileFits, IndexFits, Indexed
    <3>3. PartsFit(r)
      BY <2>2 DEF TileFits, PartsFit
    <3> QED
      BY <2>2, <3>2, <3>3 DEF TileFits
  <2> QED
    BY <1>1, <1>6, <2>2, <2>3
<1> QED
  BY <1>5, <1>6

\* Appending data to a feature leaves all ids as they are.
LEMMA Adopting ==
  ASSUME NEW s, TileFits(s), NEW at \in 1 .. Len(s.features), NEW a \in AddOns
  PROVE  LET r == [s EXCEPT !.features[at].adopted = @ \cup {a}]
         IN  /\ TileFits(r) /\ r.prefix = s.prefix /\ r.last = s.last
             /\ Appends(s, r, at, a)
<1>1. PICK n \in Nat, old \in Seq(FeatureRecords) : n = Len(s.features) /\ old = s.features
  BY LenProperties DEF TileFits, TileRecords
<1>2. at \in 1 .. n /\ old[at] \in FeatureRecords
  BY <1>1, ElementOfSeq
<1>3. PICK f : f = [old[at] EXCEPT !.adopted = @ \cup {a}]
  OBVIOUS
<1>4. f \in FeatureRecords /\ f.type = old[at].type /\ f.parts = old[at].parts
  BY <1>2, <1>3 DEF FeatureRecords
<1>5. PICK fs : fs = [old EXCEPT ![at] = f]
  OBVIOUS
<1>6. /\ fs \in Seq(FeatureRecords) /\ Len(fs) = n /\ fs[at] = f
      /\ \A i \in 1 .. n : i # at => fs[i] = old[i]
  <2>1. old \in [1 .. n -> FeatureRecords]
    BY <1>1, LenProperties
  <2>2. fs \in [1 .. n -> FeatureRecords]
    BY <1>4, <1>5, <2>1
  <2>3. fs \in Seq(FeatureRecords) /\ Len(fs) = n
    BY <2>2
  <2> QED
    BY <1>2, <1>5, <2>1, <2>3
<1>7. PICK r : r = [s EXCEPT !.features[at].adopted = @ \cup {a}]
  OBVIOUS
<1>8. r = [s EXCEPT !.features = fs]
  <2>1. [s.features EXCEPT ![at].adopted = @ \cup {a}] = fs
    BY <1>1, <1>3, <1>5
  <2> QED
    BY <1>7, <2>1 DEF TileFits, TileRecords
<1>9. /\ r \in TileRecords /\ r.prefix = s.prefix /\ r.features = fs
      /\ r.index = s.index /\ r.unsorted = s.unsorted /\ r.last = s.last
  BY <1>6, <1>8 DEF TileFits, TileRecords
<1>10. \A i \in 1 .. n : /\ fs[i].type = s.features[i].type /\ fs[i].parts = s.features[i].parts
                         /\ Key(r, i) = Key(s, i)
  <2>1. \A i \in 1 .. n : fs[i].type = s.features[i].type /\ fs[i].parts = s.features[i].parts
    BY <1>1, <1>4, <1>6
  <2> QED
    BY <1>9, <2>1 DEF Key, IdOf
<1>11. Indexed(r, s.index)
  <2>1. Indexed(s, s.index)
    BY DEF TileFits, IndexFits
  <2>2. PICK x : x = s.index /\ Indexed(s, x)
    BY <2>1
  <2>3. ASSUME NEW k \in 1 .. Len(x)
        PROVE  /\ x[k].at \in 1 .. n
               /\ x[k].hash = Hash(fs[x[k].at].type, Key(r, x[k].at))
    <3>0. PICK i : i = x[k].at
      OBVIOUS
    <3>3. x[k].at \in 1 .. n /\ x[k].hash = Hash(s.features[x[k].at].type, Key(s, x[k].at))
      BY <1>1, <2>2 DEF Indexed
    <3>1. i \in 1 .. n /\ i = x[k].at /\ x[k].hash = Hash(s.features[i].type, Key(s, i))
      BY <3>0, <3>3
    <3>2. x[k].hash = Hash(fs[i].type, Key(r, i))
      BY <1>10, <3>1
    <3> QED
      BY <3>1, <3>2
  <2>4. /\ x \in Seq(Entries) /\ Len(x) = n
        /\ \A i \in 1 .. n : \E k \in 1 .. Len(x) : x[k].at = i
        /\ \A k, l \in 1 .. Len(x) : x[k].at = x[l].at => k = l
    BY <1>1, <2>2 DEF Indexed
  <2>5. r.features = fs /\ Len(r.features) = n
    BY <1>6, <1>9
  <2>6. Indexed(r, x)
    BY <2>3, <2>4, <2>5 DEF Indexed
  <2> QED
    BY <2>2, <2>6
<1>12. IndexFits(r)
  BY <1>9, <1>11 DEF TileFits, IndexFits
<1>13. PartsFit(r)
  BY <1>1, <1>6, <1>9, <1>10 DEF TileFits, PartsFit
<1>14. Appends(s, r, at, a)
  BY <1>1, <1>3, <1>6, <1>9 DEF Appends
<1> QED
  BY <1>7, <1>9, <1>12, <1>13, <1>14 DEF TileFits

IsId(id) == id[1] \in Types /\ id[2] \in Seq(AllParts)

\* What a merge of a into s may do.
Merges(s, r, id, a) ==
  \/ r.last # "yes" /\ r.features = s.features
  \/ /\ s.last = "yes" /\ r.last = "yes"
     /\ \/ Find(s, id[1], id[2]) # 0 /\ Appends(s, r, Find(s, id[1], id[2]), a)
        \/ Find(s, id[1], id[2]) = 0 /\ Adds(s, r, id[1], OwnParts(s, id[2]), {a})

\* What find returns, said of the features.
LEMMA FirstMatching ==
  ASSUME HashesAreNumbers, NEW s, TileFits(s), NEW t \in Types, NEW parts
  PROVE  LET J == Matching(s, t, Strip(parts, Primary(t)))
         IN  /\ Find(s, t, parts) = 0 => J = {}
             /\ Find(s, t, parts) # 0 => Find(s, t, parts) \in J
             /\ \A i \in J : Find(s, t, parts) # 0 /\ Find(s, t, parts) <= i
<1> DEFINE J == Matching(s, t, Strip(parts, Primary(t)))
<1>1. Find(s, t, parts) = First(J)
  BY FindIsFirst DEF TileFits
<1>2. J \in SUBSET Nat /\ 0 \notin J
  BY DEF Matching
<1> HIDE DEF J
<1>3. J # {} => First(J) \in J /\ \A i \in J : First(J) <= i
  BY <1>2, MinIs DEF First
<1>4. J = {} => First(J) = 0
  BY DEF First
<1>5. /\ Find(s, t, parts) = 0 => J = {}
      /\ Find(s, t, parts) # 0 => Find(s, t, parts) \in J
      /\ \A i \in J : Find(s, t, parts) # 0 /\ Find(s, t, parts) <= i
  BY <1>1, <1>2, <1>3, <1>4
<1> QED
  BY <1>5 DEF J

\* clone appends to the feature that is found, or adds one.
LEMMA CloneDoes ==
  ASSUME HashesAreNumbers, NEW s, TileFits(s), NEW id, IsId(id), NEW a \in AddOns
  PROVE  LET r == Clone(s, id, a)
         IN  TileFits(r) /\ r.prefix = s.prefix /\ Merges(s, r, id, a)
<1>1. PICK r : r = Clone(s, id, a)
  OBVIOUS
<1>2. PICK at : at = Find(s, id[1], id[2])
  OBVIOUS
<1>3. PICK t \in Types, parts \in Seq(AllParts) : t = id[1] /\ parts = id[2]
  BY DEF IsId
<1>4. PICK q : q = Sorted(s)
  OBVIOUS
<1>5. TileFits(q) /\ q.prefix = s.prefix /\ q.features = s.features /\ q.last = s.last
  BY <1>4, SortedFits
<1>6. CASE s.last # "yes"
  <2>1. r = s
    BY <1>1, <1>6 DEF Clone
  <2> QED
    BY <1>1, <1>6, <2>1 DEF Merges
<1>7. CASE s.last = "yes" /\ at # 0
  <2>1. r = [q EXCEPT !.features[at].adopted = @ \cup {a}]
    BY <1>1, <1>2, <1>4, <1>7 DEF Clone, Target
  <2>2. at \in 1 .. Len(q.features)
    <3>1. at \in Matching(s, t, Strip(parts, Primary(t)))
      BY <1>2, <1>3, <1>7, FirstMatching
    <3> QED
      BY <1>5, <3>1 DEF Matching
  <2>3. TileFits(r) /\ r.prefix = q.prefix /\ r.last = q.last /\ Appends(q, r, at, a)
    BY <1>5, <2>1, <2>2, Adopting
  <2>4. Appends(s, r, at, a)
    BY <1>5, <2>3 DEF Appends
  <2> QED
    BY <1>1, <1>2, <1>5, <1>7, <2>3, <2>4 DEF Merges
<1>8. CASE s.last = "yes" /\ at = 0
  <2>1. PICK own : own = OwnParts(q, id[2])
    OBVIOUS
  <2>2. own = OwnParts(s, id[2])
    BY <1>5, <2>1 DEF OwnParts
  <2>3. own \in Seq(AllParts)
    <3>1. Len(q.prefix) \in Nat /\ Len(parts) \in Nat
      BY <1>5, LenProperties DEF TileFits, TileRecords
    <3>2. Len(parts) >= Len(q.prefix) =>
             SubSeq(parts, Len(q.prefix) + 1, Len(parts)) \in Seq(AllParts)
      BY <3>1, SubSeqProperties
    <3> QED
      BY <1>3, <2>1, <3>2 DEF OwnParts
  <2>4. r = AddTo(q, t, own, {a})
    BY <1>1, <1>2, <1>3, <1>4, <1>8, <2>2 DEF Clone, Target
  <2>5. {a} \in SUBSET AddOns
    OBVIOUS
  <2>6. /\ TileFits(r) /\ r.prefix = q.prefix
        /\ \/ r.last # "yes" /\ r.features = q.features
           \/ r.last = q.last /\ Adds(q, r, t, own, {a})
    BY <1>5, <2>3, <2>4, <2>5, AddToDoes
  <2>7. CASE r.last # "yes" /\ r.features = q.features
    BY <1>1, <1>5, <2>6, <2>7 DEF Merges
  <2>8. CASE r.last = q.last /\ Adds(q, r, t, own, {a})
    <3>1. Adds(s, r, id[1], OwnParts(s, id[2]), {a})
      BY <1>3, <1>5, <2>2, <2>8 DEF Adds
    <3>2. Merges(s, r, id, a)
      BY <1>2, <1>5, <1>8, <2>8, <3>1 DEF Merges
    <3> QED
      BY <1>1, <1>5, <2>6, <3>2
  <2> QED
    BY <2>6, <2>7, <2>8
<1> QED
  BY <1>6, <1>7, <1>8

\* The whole id is what the prefix and the own parts of a new feature make.
LEMMA WholeId ==
  ASSUME NEW s, NEW parts \in Seq(AllParts), s.prefix \in Seq(AllParts),
         IsPrefix(s.prefix, parts)
  PROVE  s.prefix \o OwnParts(s, parts) = parts
<1>1. PICK p \in Seq(AllParts), l \in Nat : p = s.prefix /\ l = Len(p)
  BY LenProperties
<1>2. PICK m \in Nat : m = Len(parts)
  BY LenProperties
<1>3. l <= m /\ SubSeq(p, 1, l) = SubSeq(parts, 1, l)
  BY <1>1, <1>2 DEF IsPrefix
<1>4. ASSUME NEW k \in 1 .. l
      PROVE  p[k] = parts[k]
  <2>1. \A i \in 1 .. l : p[i] \in AllParts /\ parts[i] \in AllParts
    BY <1>1, <1>2, <1>3, ElementOfSeq
  <2>2. \A i \in 1 .. l - 1 + 1 : SubSeq(p, 1, l)[i] = p[1 + i - 1]
    BY <2>1, SubSeqProperties
  <2>3. \A i \in 1 .. l - 1 + 1 : SubSeq(parts, 1, l)[i] = parts[1 + i - 1]
    BY <2>1, SubSeqProperties
  <2>4. k \in 1 .. l - 1 + 1 /\ 1 + k - 1 = k
    OBVIOUS
  <2>5. SubSeq(p, 1, l)[k] = p[k] /\ SubSeq(parts, 1, l)[k] = parts[k]
    BY <2>2, <2>3, <2>4
  <2> QED
    BY <1>3, <2>5
<1>5. PICK own : own = SubSeq(parts, l + 1, m)
  OBVIOUS
<1>6. OwnParts(s, parts) = own
  BY <1>1, <1>2, <1>3, <1>5 DEF OwnParts
<1>7. /\ own \in Seq(AllParts) /\ Len(own) = m - l
      /\ \A i \in 1 .. m - l : own[i] = parts[l + i]
  <2>0. PICK first \in Int : first = l + 1
    OBVIOUS
  <2>1. \A i \in first .. m : parts[i] \in AllParts
    BY <1>2, <2>0, ElementOfSeq
  <2>2. own = SubSeq(parts, first, m)
    BY <1>5, <2>0
  <2>3. /\ own \in Seq(AllParts) /\ Len(own) = IF first <= m THEN m - first + 1 ELSE 0
        /\ \A i \in 1 .. m - first + 1 : own[i] = parts[first + i - 1]
    BY <2>1, <2>2, SubSeqProperties
  <2>4. m - first + 1 = m - l /\ \A i \in 1 .. m - l : first + i - 1 = l + i
    BY <1>3, <2>0
  <2>5. Len(own) = m - l
    BY <1>3, <2>0, <2>3
  <2> QED
    BY <2>3, <2>4, <2>5
<1>8. PICK w : w = p \o own
  OBVIOUS
<1>9. /\ w \in Seq(AllParts) /\ Len(w) = m
      /\ \A i \in 1 .. m : w[i] = IF i <= l THEN p[i] ELSE own[i - l]
  <2>1. l + (m - l) = m
    OBVIOUS
  <2> QED
    BY <1>1, <1>7, <1>8, <2>1, ConcatProperties
<1>10. ASSUME NEW i \in 1 .. m
       PROVE  w[i] = parts[i]
  <2>1. CASE i <= l
    BY <1>4, <1>9, <2>1
  <2>2. CASE i > l
    <3>1. i - l \in 1 .. m - l /\ l + (i - l) = i /\ ~(i <= l)
      BY <2>2
    <3> QED
      BY <1>7, <1>9, <3>1
  <2> QED
    BY <2>1, <2>2
<1>11. w = parts
  BY <1>2, <1>9, <1>10, SeqEqual
<1> QED
  BY <1>1, <1>6, <1>8, <1>11

\* What was in s stays in r.
LEMMA FeaturesStay ==
  ASSUME NEW s, TileFits(s), NEW r, TileFits(r), r.prefix = s.prefix, NEW id, IsId(id), NEW a,
         Merges(s, r, id, a)
  PROVE  /\ Len(s.features) <= Len(r.features)
         /\ \A i \in 1 .. Len(s.features) :
              /\ r.features[i].type = s.features[i].type
              /\ Key(r, i) = Key(s, i)
              /\ s.features[i].adopted \subseteq r.features[i].adopted
<1>1. PICK n \in Nat : n = Len(s.features)
  BY LenProperties DEF TileFits, TileRecords
<1>2. CASE r.features = s.features
  BY <1>1, <1>2 DEF Key, IdOf
<1>3. ASSUME NEW parts, NEW t, NEW adopted, Adds(s, r, t, parts, adopted)
      PROVE  /\ n <= Len(r.features)
             /\ \A i \in 1 .. n : r.features[i] = s.features[i]
  BY <1>1, <1>3 DEF Adds
<1>4. ASSUME NEW parts, NEW t, NEW adopted, Adds(s, r, t, parts, adopted)
      PROVE  /\ n <= Len(r.features)
             /\ \A i \in 1 .. n : r.features[i] = s.features[i] /\ Key(r, i) = Key(s, i)
  BY <1>3, <1>4 DEF Key, IdOf
<1>5. ASSUME NEW at, Appends(s, r, at, a)
      PROVE  /\ n <= Len(r.features)
             /\ \A i \in 1 .. n : /\ r.features[i].type = s.features[i].type
                                  /\ r.features[i].parts = s.features[i].parts
                                  /\ s.features[i].adopted \subseteq r.features[i].adopted
  <2>1. n = Len(r.features) /\ at \in 1 .. n
    BY <1>1, <1>5 DEF Appends
  <2>2. ASSUME NEW i \in 1 .. n
        PROVE  /\ r.features[i].type = s.features[i].type
               /\ r.features[i].parts = s.features[i].parts
               /\ s.features[i].adopted \subseteq r.features[i].adopted
    <3>1. PICK f \in FeatureRecords : f = s.features[i]
      BY <1>1, ElementOfSeq DEF TileFits, TileRecords
    <3>2. r.features[i] = f \/ r.features[i] = [f EXCEPT !.adopted = @ \cup {a}]
      BY <1>1, <1>5, <3>1 DEF Appends
    <3> QED
      BY <3>1, <3>2 DEF FeatureRecords
  <2> QED
    BY <2>1, <2>2
<1>6. ASSUME NEW at, Appends(s, r, at, a)
      PROVE  \A i \in 1 .. n : Key(r, i) = Key(s, i)
  BY <1>5, <1>6 DEF Key, IdOf
<1> QED
  BY <1>1, <1>2, <1>4, <1>5, <1>6 DEF Merges

Prefixed(prefix, a) == \A k \in DOMAIN Resolved(a) : IsPrefix(prefix, Resolved(a)[k][2])

Led(s, id, a) ==
  Find(s, id[1], id[2]) # 0 /\ a \in s.features[Find(s, id[1], id[2])].adopted

\* The merged id leads to the data of a.
LEMMA MergeLeads ==
  ASSUME HashesAreNumbers, NEW s, TileFits(s), NEW r, TileFits(r), r.prefix = s.prefix,
         NEW id, IsId(id), NEW a \in AddOns, Merges(s, r, id, a), r.last = "yes",
         IsPrefix(s.prefix, id[2])
  PROVE  Led(r, id, a)
<1>1. PICK t \in Types, parts \in Seq(AllParts) : t = id[1] /\ parts = id[2]
  BY DEF IsId
<1>2. PICK key : key = Strip(parts, Primary(t))
  OBVIOUS
<1>3. PICK n \in Nat : n = Len(s.features)
  BY LenProperties DEF TileFits, TileRecords
<1>4. PICK at : at = Find(s, t, parts)
  OBVIOUS
<1>5. PICK to : to = Find(r, t, parts)
  OBVIOUS
<1>6. /\ at = 0 => Matching(s, t, key) = {}
      /\ at # 0 => at \in Matching(s, t, key)
      /\ \A i \in Matching(s, t, key) : at # 0 /\ at <= i
  BY <1>2, <1>4, FirstMatching
<1>7. /\ to = 0 => Matching(r, t, key) = {}
      /\ to # 0 => to \in Matching(r, t, key)
      /\ \A i \in Matching(r, t, key) : to # 0 /\ to <= i
  BY <1>2, <1>5, FirstMatching
<1>8. /\ n <= Len(r.features)
      /\ \A i \in 1 .. n : r.features[i].type = s.features[i].type /\ Key(r, i) = Key(s, i)
  BY <1>3, FeaturesStay
<1>9. CASE at # 0 /\ Appends(s, r, at, a)
  <2>1. at \in 1 .. n /\ Len(r.features) = n
    BY <1>3, <1>9 DEF Appends
  <2>2. at \in Matching(r, t, key)
    BY <1>3, <1>6, <1>8, <1>9, <2>1 DEF Matching
  <2>3. to # 0 /\ to \in 1 .. n /\ to <= at
    BY <1>7, <2>1, <2>2 DEF Matching
  <2>4. to \in Matching(s, t, key)
    BY <1>3, <1>7, <1>8, <2>1, <2>3 DEF Matching
  <2>5. to = at
    BY <1>6, <2>1, <2>3, <2>4
  <2>6. PICK f \in FeatureRecords : f = s.features[at]
    BY <1>3, <2>1, ElementOfSeq DEF TileFits, TileRecords
  <2>7. r.features[at] = [f EXCEPT !.adopted = @ \cup {a}]
    BY <1>3, <1>9, <2>1, <2>6 DEF Appends
  <2>8. a \in r.features[at].adopted
    BY <2>7 DEF FeatureRecords
  <2> QED
    BY <1>1, <1>5, <2>3, <2>5, <2>8 DEF Led
<1>10. CASE at = 0 /\ Adds(s, r, t, OwnParts(s, parts), {a})
  <2>1. PICK f : f = [type |-> t, parts |-> OwnParts(s, parts), adopted |-> {a}]
    OBVIOUS
  <2>2. f.type = t /\ f.parts = OwnParts(s, parts) /\ f.adopted = {a}
    BY <2>1
  <2>3. Len(r.features) = n + 1 /\ r.features[n + 1] = f
    BY <1>3, <1>10, <2>1 DEF Adds
  <2>4. IdOf(r, n + 1) = parts
    <3>1. s.prefix \in Seq(AllParts) /\ IsPrefix(s.prefix, parts)
      BY <1>1 DEF TileFits, TileRecords
    <3>2. s.prefix \o OwnParts(s, parts) = parts
      BY <3>1, WholeId
    <3> QED
      BY <2>2, <2>3, <3>2 DEF IdOf
  <2>5. n + 1 \in Matching(r, t, key)
    BY <1>2, <2>2, <2>3, <2>4 DEF Matching, Key
  <2>6. to # 0 /\ to \in 1 .. n + 1 /\ to \in Matching(r, t, key)
    BY <1>7, <2>3, <2>5 DEF Matching
  <2>7. to \notin 1 .. n
    <3>1. ASSUME to \in 1 .. n
          PROVE  to \in Matching(s, t, key)
      BY <1>3, <1>8, <2>6, <3>1 DEF Matching
    <3> QED
      BY <1>6, <1>10, <3>1
  <2>8. to = n + 1
    BY <2>6, <2>7
  <2> QED
    BY <1>1, <1>5, <2>2, <2>3, <2>6, <2>8 DEF Led
<1> QED
  BY <1>1, <1>4, <1>9, <1>10 DEF Merges

\* Ids that led to data still do.
LEMMA LedStays ==
  ASSUME HashesAreNumbers, NEW s, TileFits(s), NEW r, TileFits(r), r.prefix = s.prefix,
         NEW id, IsId(id), NEW a, Merges(s, r, id, a),
         NEW other, IsId(other), NEW b, Led(s, other, b)
  PROVE  Led(r, other, b)
<1>1. PICK t \in Types, parts \in Seq(AllParts) : t = other[1] /\ parts = other[2]
  BY DEF IsId
<1>2. PICK key : key = Strip(parts, Primary(t))
  OBVIOUS
<1>3. PICK n \in Nat : n = Len(s.features)
  BY LenProperties DEF TileFits, TileRecords
<1>4. PICK at : at = Find(s, t, parts) /\ at # 0 /\ b \in s.features[at].adopted
  BY <1>1 DEF Led
<1>5. PICK to : to = Find(r, t, parts)
  OBVIOUS
<1>6. at \in Matching(s, t, key) /\ \A i \in Matching(s, t, key) : at <= i
  BY <1>2, <1>4, FirstMatching
<1>7. /\ to # 0 => to \in Matching(r, t, key)
      /\ \A i \in Matching(r, t, key) : to # 0 /\ to <= i
  BY <1>2, <1>5, FirstMatching
<1>8. /\ n <= Len(r.features)
      /\ \A i \in 1 .. n : /\ r.features[i].type = s.features[i].type /\ Key(r, i) = Key(s, i)
                           /\ s.features[i].adopted \subseteq r.features[i].adopted
  BY <1>3, FeaturesStay
<1>9. at \in 1 .. n
  BY <1>3, <1>6 DEF Matching
<1>10. PICK m \in Nat : m = Len(r.features)
  BY LenProperties DEF TileFits, TileRecords
<1>11. at \in Matching(r, t, key)
  BY <1>3, <1>6, <1>8, <1>9, <1>10 DEF Matching
<1>12. to # 0 /\ to <= at /\ to \in Matching(r, t, key) /\ to \in 1 .. m
  BY <1>7, <1>10, <1>11 DEF Matching
<1>13. to \in 1 .. n
  BY <1>9, <1>12
<1>14. to \in Matching(s, t, key)
  BY <1>3, <1>8, <1>12, <1>13 DEF Matching
<1>15. to = at
  BY <1>6, <1>9, <1>12, <1>13, <1>14
<1>16. b \in r.features[to].adopted
  BY <1>4, <1>8, <1>9, <1>15
<1> QED
  BY <1>1, <1>5, <1>12, <1>16 DEF Led

\* Features with data of add-on tiles whose ids have the prefix are the first of their id.
NoTwins(s) ==
  \A i, j \in 1 .. Len(s.features) :
    /\ s.features[j].adopted # {}
    /\ \A a \in s.features[j].adopted : Prefixed(s.prefix, a)
    /\ s.features[i].type = s.features[j].type /\ Key(s, i) = Key(s, j)
    => j <= i

\* A feature is added only if there is none of its id.
LEMMA MergeKeepsNoTwins ==
  ASSUME HashesAreNumbers, NEW s, TileFits(s), NEW r, TileFits(r), r.prefix = s.prefix,
         NEW id, IsId(id), NEW a \in AddOns, Merges(s, r, id, a), NoTwins(s),
         Prefixed(s.prefix, a) => IsPrefix(s.prefix, id[2])
  PROVE  NoTwins(r)
<1>1. PICK t \in Types, parts \in Seq(AllParts) : t = id[1] /\ parts = id[2]
  BY DEF IsId
<1>2. PICK key : key = Strip(parts, Primary(t))
  OBVIOUS
<1>3. PICK n \in Nat, m \in Nat : n = Len(s.features) /\ m = Len(r.features)
  BY LenProperties DEF TileFits, TileRecords
<1>4. PICK at : at = Find(s, t, parts)
  OBVIOUS
<1>6. /\ at = 0 => Matching(s, t, key) = {}
      /\ at # 0 => at \in Matching(s, t, key)
      /\ \A i \in Matching(s, t, key) : at # 0 /\ at <= i
  BY <1>2, <1>4, FirstMatching
<1>8. /\ n <= m
      /\ \A i \in 1 .. n : r.features[i].type = s.features[i].type /\ Key(r, i) = Key(s, i)
  BY <1>3, FeaturesStay
<1> SUFFICES ASSUME NEW i \in 1 .. m, NEW j \in 1 .. m, r.features[j].adopted # {},
                    \A b \in r.features[j].adopted : Prefixed(s.prefix, b),
                    r.features[i].type = r.features[j].type, Key(r, i) = Key(r, j)
             PROVE  j <= i
  BY <1>3 DEF NoTwins
<1>9. ASSUME j \in 1 .. n, r.features[j] = s.features[j]
      PROVE  j <= i
  <2>1. CASE i \in 1 .. n
    <3>1. s.features[i].type = s.features[j].type /\ Key(s, i) = Key(s, j)
      BY <1>8, <1>9, <2>1
    <3> QED
      BY <1>3, <1>9, <2>1, <3>1 DEF NoTwins
  <2>2. CASE i \notin 1 .. n
    BY <1>9, <2>2
  <2> QED
    BY <2>1, <2>2
<1>10. CASE r.features = s.features
  BY <1>3, <1>9, <1>10
<1>11. CASE at # 0 /\ Appends(s, r, at, a)
  <2>1. m = n /\ at \in 1 .. n
    BY <1>3, <1>11 DEF Appends
  <2>2. CASE j # at
    BY <1>3, <1>9, <1>11, <2>1, <2>2 DEF Appends
  <2>3. CASE j = at
    <3>1. s.features[at].type = t /\ Key(s, at) = key
      BY <1>6, <1>11 DEF Matching
    <3>2. i \in Matching(s, t, key)
      BY <1>3, <1>8, <2>1, <2>3, <3>1 DEF Matching
    <3> QED
      BY <1>6, <2>3, <3>2
  <2> QED
    BY <2>2, <2>3
<1>12. CASE at = 0 /\ Adds(s, r, t, OwnParts(s, parts), {a})
  <2>1. m = n + 1 /\ \A k \in 1 .. n : r.features[k] = s.features[k]
    BY <1>3, <1>12 DEF Adds
  <2>2. CASE j \in 1 .. n
    BY <1>9, <2>1, <2>2
  <2>3. CASE j = n + 1
    <3>1. PICK f : f = [type |-> t, parts |-> OwnParts(s, parts), adopted |-> {a}]
      OBVIOUS
    <3>2. f.type = t /\ f.parts = OwnParts(s, parts) /\ f.adopted = {a}
      BY <3>1
    <3>3. r.features[j] = f
      BY <1>3, <1>12, <2>3, <3>1 DEF Adds
    <3>4. IsPrefix(s.prefix, parts)
      <4>1. a \in r.features[j].adopted
        BY <3>2, <3>3
      <4> QED
        BY <1>1, <4>1
    <3>5. s.prefix \in Seq(AllParts)
      BY DEF TileFits, TileRecords
    <3>6. IdOf(r, j) = parts
      <4>1. s.prefix \o OwnParts(s, parts) = parts
        BY <3>4, <3>5, WholeId
      <4> QED
        BY <3>2, <3>3, <4>1 DEF IdOf
    <3>7. Key(r, j) = key
      BY <1>2, <3>2, <3>3, <3>6 DEF Key
    <3>8. i \notin 1 .. n
      <4>1. ASSUME i \in 1 .. n
            PROVE  i \in Matching(s, t, key)
        BY <1>3, <1>8, <3>2, <3>3, <3>7, <4>1 DEF Matching
      <4> QED
        BY <1>6, <1>12, <4>1
    <3> QED
      BY <2>1, <2>3, <3>8
  <2> QED
    BY <2>1, <2>2, <2>3
<1> QED
  BY <1>1, <1>4, <1>10, <1>11, <1>12 DEF Merges

\* The ids of add-on features come from outside.
LEMMA ResolvedIds ==
  ASSUME NEW a \in AddOns
  PROVE  \E n \in Nat : /\ n = Len(Resolved(a)) /\ DOMAIN Resolved(a) = 1 .. n
                        /\ \A k \in 1 .. n : IsId(Resolved(a)[k])
<1>1. IsId(AddOnId[a])
  <2>1. AddOnId[a] \in NewIds \cup {AddOnId[b] : b \in AddOns} \cup UNION {ToSet(Located[b]) : b \in AddOns}
    OBVIOUS
  <2>2. AddOnId[a][1] \in Types
    BY <2>1, FeatureLayerAssumption DEF FeatureLayerAssumption
  <2>3. AddOnId[a][2] \in GivenParts
    BY DEF GivenParts
  <2>4. AddOnId[a][2] \in Seq(AllParts)
    BY <2>3, FeatureLayerAssumption DEF FeatureLayerAssumption
  <2> QED
    BY <2>2, <2>4 DEF IsId
<1>2. ASSUME NEW id \in ToSet(Located[a])
      PROVE  IsId(id)
  <2>1. id \in UNION {ToSet(Located[b]) : b \in AddOns}
    OBVIOUS
  <2>2. id[1] \in Types
    BY <2>1, FeatureLayerAssumption DEF FeatureLayerAssumption
  <2>3. id[2] \in {x[2] : x \in ToSet(Located[a])}
    OBVIOUS
  <2>4. id[2] \in GivenParts
    BY <2>3 DEF GivenParts
  <2>5. id[2] \in Seq(AllParts)
    BY <2>4, FeatureLayerAssumption DEF FeatureLayerAssumption
  <2> QED
    BY <2>2, <2>5 DEF IsId
<1>3. CASE Resolved(a) = <<AddOnId[a]>>
  <2>1. PICK id : id = AddOnId[a]
    OBVIOUS
  <2>2. PICK ids : ids = <<id>>
    OBVIOUS
  <2>3. Len(ids) = 1 /\ DOMAIN ids = 1 .. 1 /\ ids[1] = id
    BY <2>2
  <2>4. \A k \in 1 .. 1 : k = 1
    OBVIOUS
  <2> QED
    BY <1>1, <1>3, <2>1, <2>2, <2>3, <2>4
<1>4. CASE Resolved(a) = Located[a]
  <2>1. PICK T : T = ToSet(Located[a]) /\ Located[a] \in Seq(T)
    BY FeatureLayerAssumption DEF FeatureLayerAssumption
  <2>2. PICK n \in Nat : n = Len(Located[a]) /\ DOMAIN Located[a] = 1 .. n
    BY <2>1, LenProperties
  <2>3. \A k \in 1 .. n : Located[a][k] \in T
    BY <2>1, <2>2, ElementOfSeq
  <2> QED
    BY <1>2, <1>4, <2>1, <2>2, <2>3
<1> QED
  BY <1>3, <1>4 DEF Resolved

MergedInto(s, a) == FoldLeft(LAMBDA q, id : Clone(q, id, a), s, Resolved(a))

\* g is the tile after each turn of that loop.
IsMerge(g, s, a, ids, n) ==
  /\ g[0] = s /\ g[n] = MergedInto(s, a)
  /\ \A k \in 0 .. n : TileFits(g[k]) /\ g[k].prefix = s.prefix
  /\ \A k \in 1 .. n : g[k] = Clone(g[k - 1], ids[k], a)

\* The loop over the ids of an add-on feature clones one after the other.
LEMMA MergeIsWalk ==
  ASSUME HashesAreNumbers, NEW s, TileFits(s), NEW a \in AddOns, NEW ids, ids = Resolved(a),
         NEW n \in Nat, n = Len(ids)
  PROVE  \E g : IsMerge(g, s, a, ids, n)
<1> DEFINE D == {q \in TileRecords : TileFits(q) /\ q.prefix = s.prefix}
           Op(q, id) == Clone(q, id, a)
           R == [x \in D \X (1 .. n) |-> Op(x[1], ids[x[2]])]
           Iter(it, p) == IF p = {} THEN s ELSE Op(it[p \ {Max(p)}], ids[Max(p)])
           iter == CHOOSE it : it = [p \in SUBSET (1 .. n) |-> Iter(it, p)]
<1>1. DOMAIN ids = 1 .. n /\ \A k \in 1 .. n : IsId(ids[k])
  BY ResolvedIds
<1>2. s \in D
  BY DEF TileFits
<1>3. ASSUME NEW q \in D, NEW k \in 1 .. n
      PROVE  Op(q, ids[k]) \in D
  <2>1. IsId(ids[k]) /\ TileFits(q)
    BY <1>1
  <2>2. PICK r : r = Clone(q, ids[k], a)
    OBVIOUS
  <2>3. TileFits(r) /\ r.prefix = q.prefix
    BY <2>1, <2>2, CloneDoes
  <2>4. r \in D
    BY <2>3 DEF TileFits
  <2> QED
    BY <2>2, <2>4
<1> HIDE DEF D, Op
<1>4. R \in [D \X (1 .. n) -> D] /\ \A q \in D, k \in 1 .. n : R[<<q, k>>] = Op(q, ids[k])
  BY <1>3
<1> HIDE DEF R
<1>5. StepsOn(R, n, D, s)
  BY <1>2, <1>4 DEF StepsOn
<1>6. ASSUME NEW p \in SUBSET (1 .. n), p # {}
      PROVE  Max(p) \in p /\ p \ {Max(p)} \in SUBSET (1 .. n)
  <2>1. \E i \in p : \A j \in p : j <= i
    BY <1>6, LastPosition
  <2> QED
    BY <2>1 DEF Max
<1>7. PICK it \in [SUBSET (1 .. n) -> D] : \A p \in SUBSET (1 .. n) : Stepped(it, p, R, s)
  BY <1>5, StepsExist
<1>8. ASSUME NEW p \in SUBSET (1 .. n)
      PROVE  it[p] = Iter(it, p)
  <2>1. CASE p = {}
    BY <1>7, <2>1 DEF Stepped
  <2>2. CASE p # {}
    <3>1. Max(p) \in 1 .. n /\ it[p \ {Max(p)}] \in D
      BY <1>6, <1>7, <2>2
    <3>2. R[<<it[p \ {Max(p)}], Max(p)>>] = Op(it[p \ {Max(p)}], ids[Max(p)])
      BY <1>4, <3>1
    <3> QED
      BY <1>7, <2>2, <3>2 DEF Stepped
  <2> QED
    BY <2>1, <2>2
<1>9. it = [p \in SUBSET (1 .. n) |-> Iter(it, p)]
  <2> HIDE DEF Iter
  <2> QED
    BY <1>7, <1>8
<1>10. iter = [p \in SUBSET (1 .. n) |-> Iter(iter, p)]
  <2> HIDE DEF Iter
  <2> QED
    BY <1>9
<1>11. MergedInto(s, a) = iter[1 .. n]
  BY <1>1 DEF MergedInto, FoldLeft, MapThenFoldSet, Op
<1> HIDE DEF iter
<1>12. iter[{}] = s
  BY <1>10
<1>13. ASSUME NEW k \in 1 .. n
       PROVE  StepsTo(iter, k, R, D)
  <2> SUFFICES ASSUME iter[1 .. (k - 1)] \in D
               PROVE  iter[1 .. k] = R[<<iter[1 .. (k - 1)], k>>]
    BY DEF StepsTo
  <2>1. 1 .. k \in SUBSET (1 .. n) /\ k \in Nat \ {0}
    OBVIOUS
  <2>2. iter[1 .. k] = Iter(iter, 1 .. k)
    BY <1>10, <2>1
  <2>3. 1 .. k # {} /\ Max(1 .. k) = k /\ (1 .. k) \ {k} = 1 .. (k - 1)
    BY <2>1, Initial
  <2>4. iter[1 .. k] = Op(iter[1 .. (k - 1)], ids[k])
    BY <2>2, <2>3
  <2> QED
    BY <1>4, <2>4
<1>14. PICK g : IsWalk(g, R, n, D, s) /\ g[n] = iter[1 .. n]
  BY <1>5, <1>12, <1>13, StepsInOrder
<1>15. \A k \in 0 .. n : g[k] \in D
  BY <1>14 DEF IsWalk
<1>16. ASSUME NEW k \in 1 .. n
       PROVE  g[k] = Clone(g[k - 1], ids[k], a)
  <2>1. k - 1 \in 0 .. n /\ g[k - 1] \in D
    BY <1>15
  <2>2. g[k] = R[<<g[k - 1], k>>]
    BY <1>14 DEF IsWalk
  <2> QED
    BY <1>4, <2>1, <2>2 DEF Op
<1>17. \A k \in 0 .. n : TileFits(g[k]) /\ g[k].prefix = s.prefix
  BY <1>15 DEF D
<1>18. g[0] = s /\ g[n] = MergedInto(s, a)
  BY <1>11, <1>14 DEF IsWalk
<1> QED
  BY <1>16, <1>17, <1>18 DEF IsMerge

\* After it, no ids are lost, the ids of a lead to its data, and there are no twins.
LEMMA MergeAll ==
  ASSUME HashesAreNumbers, NEW s, TileFits(s), NoTwins(s), NEW a \in AddOns,
         NEW r, r = MergedInto(s, a)
  PROVE  /\ TileFits(r) /\ r.prefix = s.prefix /\ NoTwins(r)
         /\ r.last = "yes" => s.last = "yes"
         /\ \A id, b : IsId(id) /\ Led(s, id, b) => Led(r, id, b)
         /\ r.last = "yes" /\ Prefixed(s.prefix, a) =>
              \A k \in DOMAIN Resolved(a) : Led(r, Resolved(a)[k], a)
<1>a. PICK ids : ids = Resolved(a)
  OBVIOUS
<1>b. PICK n \in Nat : n = Len(ids) /\ DOMAIN ids = 1 .. n /\ \A k \in 1 .. n : IsId(ids[k])
  BY <1>a, ResolvedIds
<1>1. /\ ids = Resolved(a) /\ n = Len(ids) /\ DOMAIN ids = 1 .. n
      /\ \A k \in 1 .. n : IsId(ids[k])
  BY <1>a, <1>b
<1>c. PICK g : IsMerge(g, s, a, ids, n)
  BY <1>1, MergeIsWalk
<1>2. /\ g[0] = s /\ g[n] = r
      /\ \A k \in 0 .. n : TileFits(g[k]) /\ g[k].prefix = s.prefix
      /\ \A k \in 1 .. n : g[k] = Clone(g[k - 1], ids[k], a)
  BY <1>c DEF IsMerge
<1> DEFINE Fine(k) ==
             /\ NoTwins(g[k])
             /\ g[k].last = "yes" => s.last = "yes"
             /\ \A id, b : IsId(id) /\ Led(s, id, b) => Led(g[k], id, b)
             /\ g[k].last = "yes" /\ Prefixed(s.prefix, a) =>
                  \A i \in 1 .. k : Led(g[k], ids[i], a)
           S == {k \in Nat : k <= n => Fine(k)}
<1>3. 0 \in S
  <2>1. Fine(0)
    BY <1>2
  <2> HIDE DEF Fine
  <2> QED
    BY <2>1
<1>4. ASSUME NEW k \in S
      PROVE  k + 1 \in S
  <2> HIDE DEF Fine
  <2> SUFFICES ASSUME k + 1 <= n
               PROVE  Fine(k + 1)
    OBVIOUS
  <2>1. k \in Nat /\ k <= n /\ Fine(k)
    OBVIOUS
  <2>2. k \in 0 .. n /\ k + 1 \in 0 .. n /\ k + 1 \in 1 .. n /\ (k + 1) - 1 = k
    BY <2>1
  <2>3. PICK p, q, id : p = g[k] /\ q = g[k + 1] /\ id = ids[k + 1]
    OBVIOUS
  <2>4. TileFits(p) /\ p.prefix = s.prefix /\ TileFits(q) /\ q.prefix = p.prefix /\ IsId(id)
    BY <1>1, <1>2, <2>2, <2>3
  <2>5. q = Clone(p, id, a)
    BY <1>2, <2>2, <2>3
  <2>6. Merges(p, q, id, a)
    BY <2>4, <2>5, CloneDoes
  <2>7. q.last = "yes" => p.last = "yes"
    BY <2>6 DEF Merges
  <2>8. Prefixed(p.prefix, a) => IsPrefix(p.prefix, id[2])
    BY <1>1, <2>2, <2>3 DEF Prefixed
  <2>9. NoTwins(q)
    <3>1. NoTwins(p)
      BY <2>1, <2>3 DEF Fine
    <3> QED
      BY <2>4, <2>6, <2>8, <3>1, MergeKeepsNoTwins
  <2>10. ASSUME NEW x, NEW b, IsId(x), Led(p, x, b)
         PROVE  Led(q, x, b)
    BY <2>4, <2>6, <2>10, LedStays
  <2>11. \A x, b : IsId(x) /\ Led(s, x, b) => Led(q, x, b)
    BY <2>1, <2>3, <2>10 DEF Fine
  <2>12. ASSUME q.last = "yes", Prefixed(s.prefix, a), NEW i \in 1 .. k + 1
         PROVE  Led(q, ids[i], a)
    <3>1. CASE i = k + 1
      BY <2>3, <2>4, <2>6, <2>8, <2>12, <3>1, MergeLeads
    <3>2. CASE i \in 1 .. k
      <4>1. Led(p, ids[i], a)
        BY <2>1, <2>3, <2>7, <2>12, <3>2 DEF Fine
      <4>2. IsId(ids[i])
        BY <1>1, <2>2, <3>2
      <4> QED
        BY <2>10, <4>1, <4>2
    <3> QED
      BY <2>1, <3>1, <3>2
  <2>13. q.last = "yes" => s.last = "yes"
    BY <2>1, <2>3, <2>7 DEF Fine
  <2> QED
    BY <2>3, <2>9, <2>11, <2>12, <2>13 DEF Fine
<1>5. Fine(n)
  <2> HIDE DEF Fine
  <2>3. S \in SUBSET Nat
    OBVIOUS
  <2>1. S = Nat
    <3> HIDE DEF S
    <3> QED
      BY <1>3, <1>4, <2>3, Inductive
  <2>2. n \in S
    <3> HIDE DEF S
    <3> QED
      BY <2>1
  <2> QED
    BY <2>2
<1>6. n \in 0 .. n
  OBVIOUS
<1> QED
  BY <1>1, <1>2, <1>5, <1>6

(***************************************************************************)
(* The invariant                                                           *)
(***************************************************************************)
\* Ids of merged features lead to their data.
AllLed(s, A) ==
  \A a \in A : s.last = "yes" /\ Prefixed(s.prefix, a) =>
    \A k \in DOMAIN Resolved(a) : Led(s, Resolved(a)[k], a)

\* No feature has data of an add-on tile.
NoneAdopted(s) == \A i \in 1 .. Len(s.features) : s.features[i].adopted = {}

FeatureInv ==
  /\ TileFits(tile) /\ merged \in SUBSET AddOns
  /\ NoTwins(tile) /\ AllLed(tile, merged)
  /\ phase \in {"filling", "merging", "written"}
  /\ phase = "filling" => merged = {} /\ NoneAdopted(tile)

\* Only the parts and features tell which features are found.
LEMMA SameFeatures ==
  ASSUME HashesAreNumbers, NEW s, TileFits(s), NEW r, TileFits(r), r.prefix = s.prefix,
         r.features = s.features, r.last = "yes" => s.last = "yes"
  PROVE  /\ NoTwins(s) => NoTwins(r)
         /\ NoneAdopted(s) => NoneAdopted(r)
         /\ \A A \in SUBSET AddOns : AllLed(s, A) => AllLed(r, A)
<1>1. \A i : Key(r, i) = Key(s, i)
  BY DEF Key, IdOf
<1>2. NoTwins(s) => NoTwins(r)
  BY <1>1 DEF NoTwins
<1>3. NoneAdopted(s) => NoneAdopted(r)
  BY DEF NoneAdopted
<1>4. ASSUME NEW t \in Types, NEW parts
      PROVE  Find(r, t, parts) = Find(s, t, parts)
  <2>1. PICK key : key = Strip(parts, Primary(t))
    OBVIOUS
  <2>2. Matching(r, t, key) = Matching(s, t, key)
    BY <1>1 DEF Matching
  <2>3. Find(r, t, parts) = First(Matching(r, t, key))
    BY <2>1, FindIsFirst DEF TileFits
  <2>4. Find(s, t, parts) = First(Matching(s, t, key))
    BY <2>1, FindIsFirst DEF TileFits
  <2> QED
    BY <2>2, <2>3, <2>4
<1>5. ASSUME NEW id, IsId(id), NEW a, Led(s, id, a)
      PROVE  Led(r, id, a)
  BY <1>4, <1>5 DEF Led, IsId
<1>6. ASSUME NEW A \in SUBSET AddOns, AllLed(s, A)
      PROVE  AllLed(r, A)
  <2> SUFFICES ASSUME NEW a \in A, r.last = "yes", Prefixed(r.prefix, a),
                      NEW k \in DOMAIN Resolved(a)
               PROVE  Led(r, Resolved(a)[k], a)
    BY DEF AllLed
  <2>1. IsId(Resolved(a)[k])
    BY ResolvedIds
  <2>2. Led(s, Resolved(a)[k], a)
    BY <1>6 DEF AllLed
  <2> QED
    BY <1>5, <2>1, <2>2
<1> QED
  BY <1>2, <1>3, <1>6

\* A call that starts anew forgets how the last one went.
Anew(s) == [s EXCEPT !.last = "yes"]

\* Beginning anew changes no feature.
LEMMA AnewFits ==
  ASSUME NEW s, TileFits(s)
  PROVE  /\ TileFits(Anew(s)) /\ Anew(s).prefix = s.prefix /\ Anew(s).features = s.features
         /\ Anew(s).last = "yes"
<1>1. PICK r : r = Anew(s)
  OBVIOUS
<1>2. /\ r \in TileRecords /\ r.prefix = s.prefix /\ r.features = s.features
      /\ r.index = s.index /\ r.unsorted = s.unsorted /\ r.last = "yes"
  BY <1>1 DEF Anew, TileFits, TileRecords, Answers
<1>3. \A i : Key(r, i) = Key(s, i)
  BY <1>2 DEF Key, IdOf
<1>4. IndexFits(r)
  BY <1>2, <1>3 DEF TileFits, IndexFits, Indexed
<1>5. PartsFit(r)
  BY <1>2 DEF TileFits, PartsFit
<1> QED
  BY <1>1, <1>2, <1>4, <1>5 DEF TileFits

\* While nothing is merged there is nothing to lead to.
LEMMA NoneAdoptedNoTwins ==
  ASSUME NEW s, NoneAdopted(s)
  PROVE  NoTwins(s) /\ AllLed(s, {})
BY DEF NoneAdopted, NoTwins, AllLed

\* The empty tile fits.
LEMMA InvInit ==
  ASSUME Init
  PROVE  FeatureInv
<1>1. PICK s : s = NoTile
  OBVIOUS
<1>2. /\ s \in TileRecords /\ s.prefix = <<>> /\ s.features = <<>> /\ s.index = <<>>
      /\ s.last = "yes"
  BY <1>1 DEF NoTile, TileRecords, Answers
<1>3. Len(s.features) = 0 /\ Len(s.index) = 0
  BY <1>2
<1>4. IndexFits(s)
  <2>1. s.index \in Seq(Entries)
    BY <1>2 DEF TileRecords
  <2>2. Indexed(s, s.index) /\ InOrder(s.index)
    BY <1>3, <2>1 DEF Indexed, InOrder
  <2> QED
    BY <2>2 DEF IndexFits
<1>5. PartsFit(s)
  <2>1. ASSUME NEW t \in Types
        PROVE  \E toEnd \in BOOLEAN : Match(Primary(t), 0, s.prefix, toEnd) = "yes"
    <3>1. PICK P : Primary(t) \in Seq(P)
      BY Primaries
    <3>a. s.prefix \in Seq(AllParts) /\ Len(s.prefix) = 0
      BY <1>2 DEF TileRecords
    <3>2. PICK none \in Seq(AllParts) : none = s.prefix /\ Len(none) = 0
      BY <3>a
    <3>3. PICK c \in Seq(P), n \in Nat : c = Primary(t) /\ n = Len(c)
      BY <3>1, LenProperties
    <3>4. PICK open \in BOOLEAN : open = FALSE
      OBVIOUS
    <3>5. PICK f : Tells(f, c, none, open)
      BY MatchIsOutcome
    <3>6. Match(c, 0, none, open) = f[<<0 + 1, 1>>]
      BY <3>5 DEF Tells
    <3>7. f[<<1, 1>>] = Walk(f, c, none, open, 1, 1)
      <4>1. 1 \in 1 .. Len(c) + 1 /\ 1 \in 1 .. Len(none) + 1
        BY <3>2, <3>3
      <4> QED
        BY <3>5, <4>1 DEF Tells, IsOutcome
    <3>8. Walk(f, c, none, open, 1, 1) = "yes"
      BY <3>2, <3>4 DEF Walk, AtEnd
    <3>9. 0 + 1 = 1
      OBVIOUS
    <3> QED
      BY <3>2, <3>3, <3>6, <3>7, <3>8, <3>9
  <2> QED
    BY <1>3, <2>1 DEF PartsFit
<1>6. NoneAdopted(s)
  BY <1>3 DEF NoneAdopted
<1> QED
  BY <1>1, <1>2, <1>4, <1>5, <1>6, NoneAdoptedNoTwins DEF FeatureInv, Init, TileFits

\* A prefix is set while there are no features.
LEMMA InvSetIdPrefix ==
  ASSUME HashesAreNumbers, FeatureInv, NEW p \in TilePrefixes, SetIdPrefix(p)
  PROVE  FeatureInv'
<1>1. TileFits(tile) /\ tile.features = <<>> /\ merged = {} /\ phase = "filling"
  BY DEF FeatureInv, SetIdPrefix, CanFill
<1>2. PICK r : r = tile'
  OBVIOUS
<1>3. p \in Seq(AllParts)
  BY FeatureLayerAssumption DEF FeatureLayerAssumption, GivenParts
<1>4. /\ r \in TileRecords /\ r.prefix = p /\ r.features = tile.features
      /\ r.index = tile.index /\ r.unsorted = tile.unsorted
  BY <1>1, <1>2, <1>3 DEF SetIdPrefix, TileFits, TileRecords, Answers
<1>5. Len(r.features) = 0 /\ Len(tile.features) = 0
  BY <1>1, <1>4
<1>6. IndexFits(r)
  <2>1. Indexed(tile, tile.index) /\ (~tile.unsorted => InOrder(tile.index))
    BY <1>1 DEF TileFits, IndexFits
  <2>2. Indexed(r, r.index)
    BY <1>4, <1>5, <2>1 DEF Indexed
  <2> QED
    BY <1>4, <2>1, <2>2 DEF IndexFits
<1>7. PartsFit(r)
  <2>1. PICK open \in BOOLEAN : open = FALSE
    OBVIOUS
  <2>2. \A t \in Types : Match(Primary(t), 0, r.prefix, open) = "yes"
    BY <1>4, <2>1 DEF SetIdPrefix
  <2>3. \A i \in 1 .. Len(r.features) :
          ValidNew(r.features[i].type, r.features[i].parts, Len(r.prefix)) = "yes"
    BY <1>5
  <2> QED
    BY <2>2, <2>3 DEF PartsFit
<1>8. NoneAdopted(r)
  BY <1>5 DEF NoneAdopted
<1>9. NoTwins(r) /\ AllLed(r, {})
  BY <1>8, NoneAdoptedNoTwins
<1>10. phase' = "filling" /\ merged' = {}
  BY <1>1 DEF SetIdPrefix
<1> QED
  BY <1>2, <1>4, <1>6, <1>7, <1>8, <1>9, <1>10 DEF FeatureInv, TileFits

\* A data source adds features without data of add-on tiles.
LEMMA InvNewFeature ==
  ASSUME HashesAreNumbers, FeatureInv, NEW id \in NewIds, NewFeature(id)
  PROVE  FeatureInv'
<1>1. TileFits(tile) /\ merged = {} /\ phase = "filling" /\ NoneAdopted(tile)
  BY DEF FeatureInv, NewFeature, CanFill
<1>2. PICK s : s = Anew(tile)
  OBVIOUS
<1>3. TileFits(s) /\ s.features = tile.features
  BY <1>1, <1>2, AnewFits
<1>4. PICK t \in Types, parts \in Seq(AllParts) : t = id[1] /\ parts = id[2]
  <2>1. id[1] \in Types
    BY FeatureLayerAssumption DEF FeatureLayerAssumption
  <2>2. id[2] \in Seq(AllParts)
    BY FeatureLayerAssumption DEF FeatureLayerAssumption, GivenParts
  <2> QED
    BY <2>1, <2>2
<1>5. PICK none \in SUBSET AddOns : none = {}
  OBVIOUS
<1>6. PICK r : r = tile'
  OBVIOUS
<1>7. r = AddTo(s, t, parts, none)
  BY <1>2, <1>4, <1>5, <1>6 DEF NewFeature, Anew
<1>8. /\ TileFits(r)
      /\ \/ r.features = s.features
         \/ Adds(s, r, t, parts, none)
  BY <1>3, <1>7, AddToDoes
<1>9. NoneAdopted(r)
  <2>1. CASE r.features = s.features
    BY <1>1, <1>3, <2>1 DEF NoneAdopted
  <2>2. CASE Adds(s, r, t, parts, none)
    <3>1. PICK n \in Nat : n = Len(s.features)
      BY <1>3, LenProperties DEF TileFits, TileRecords
    <3>2. \A i \in 1 .. n : r.features[i].adopted = {}
      BY <1>1, <1>3, <2>2, <3>1 DEF Adds, NoneAdopted
    <3>3. r.features[n + 1].adopted = {}
      BY <1>5, <2>2, <3>1 DEF Adds
    <3>4. Len(r.features) = n + 1 /\ \A i \in 1 .. n + 1 : i \in 1 .. n \/ i = n + 1
      BY <2>2, <3>1 DEF Adds
    <3> QED
      BY <3>2, <3>3, <3>4 DEF NoneAdopted
  <2> QED
    BY <1>8, <2>1, <2>2
<1>10. NoTwins(r) /\ AllLed(r, {})
  BY <1>9, NoneAdoptedNoTwins
<1>11. phase' = "filling" /\ merged' = {}
  BY <1>1 DEF NewFeature
<1> QED
  BY <1>6, <1>8, <1>9, <1>10, <1>11 DEF FeatureInv

\* Sorting keeps what is found.
LEMMA InvSorted ==
  ASSUME HashesAreNumbers, FeatureInv, FindFeature \/ StoreTile
  PROVE  FeatureInv'
<1>1. TileFits(tile) /\ NoTwins(tile) /\ merged \in SUBSET AddOns /\ AllLed(tile, merged)
  BY DEF FeatureInv
<1>2. PICK r : r = tile'
  OBVIOUS
<1>3. r = Sorted(tile) /\ merged' = merged
  BY <1>2 DEF FindFeature, StoreTile
<1>4. TileFits(r) /\ r.prefix = tile.prefix /\ r.features = tile.features /\ r.last = tile.last
  BY <1>1, <1>3, SortedFits
<1>5. NoTwins(r) /\ AllLed(r, merged) /\ (NoneAdopted(tile) => NoneAdopted(r))
  BY <1>1, <1>4, SameFeatures
<1>6. /\ phase' \in {"filling", "merging", "written"}
      /\ phase' = "filling" => phase = "filling"
  BY DEF FindFeature, StoreTile, CanFill
<1> QED
  BY <1>1, <1>2, <1>3, <1>4, <1>5, <1>6 DEF FeatureInv

\* So does writing the tile.
LEMMA InvFillTile ==
  ASSUME HashesAreNumbers, FeatureInv, FillTile
  PROVE  FeatureInv'
<1>1. TileFits(tile) /\ merged = {} /\ phase = "filling" /\ NoneAdopted(tile)
  BY DEF FeatureInv, FillTile, CanFill
<1>2. PICK s : s = Anew(tile)
  OBVIOUS
<1>3. TileFits(s) /\ s.features = tile.features
  BY <1>1, <1>2, AnewFits
<1>4. PICK r : r = tile'
  OBVIOUS
<1>5. r = s \/ r = Sorted(s)
  BY <1>2, <1>4 DEF FillTile, Anew
<1>6. TileFits(r) /\ r.features = tile.features
  BY <1>3, <1>5, SortedFits
<1>7. NoneAdopted(r)
  BY <1>1, <1>6 DEF NoneAdopted
<1>8. NoTwins(r) /\ AllLed(r, {})
  BY <1>7, NoneAdoptedNoTwins
<1>9. phase' = "merging" /\ merged' = {}
  BY <1>1 DEF FillTile
<1> QED
  BY <1>4, <1>6, <1>8, <1>9 DEF FeatureInv

\* A merge leads the ids of the add-on feature to its data.
LEMMA InvMergeAddOn ==
  ASSUME HashesAreNumbers, FeatureInv, NEW a \in AddOns, MergeAddOn(a)
  PROVE  FeatureInv'
<1>1. TileFits(tile) /\ NoTwins(tile) /\ merged \in SUBSET AddOns /\ AllLed(tile, merged)
  BY DEF FeatureInv
<1>2. PICK r : r = tile'
  OBVIOUS
<1>3. merged' = merged \cup {a} /\ phase' = "merging"
  BY DEF MergeAddOn
<1>4. CASE r = [tile EXCEPT !.last = "endless"]
  <2>1. /\ r \in TileRecords /\ r.prefix = tile.prefix /\ r.features = tile.features
        /\ r.index = tile.index /\ r.unsorted = tile.unsorted /\ r.last = "endless"
    BY <1>1, <1>4 DEF TileFits, TileRecords, Answers
  <2>2. \A i : Key(r, i) = Key(tile, i)
    BY <2>1 DEF Key, IdOf
  <2>3. IndexFits(r)
    BY <1>1, <2>1, <2>2 DEF TileFits, IndexFits, Indexed
  <2>4. PartsFit(r)
    BY <1>1, <2>1 DEF TileFits, PartsFit
  <2>5. NoTwins(r)
    BY <1>1, <2>1, <2>2 DEF NoTwins
  <2>6. AllLed(r, merged \cup {a})
    BY <2>1 DEF AllLed
  <2> QED
    BY <1>1, <1>2, <1>3, <2>1, <2>3, <2>4, <2>5, <2>6 DEF FeatureInv, TileFits
<1>5. CASE r = MergedInto(tile, a)
  <2>1. /\ TileFits(r) /\ r.prefix = tile.prefix /\ NoTwins(r)
        /\ r.last = "yes" => tile.last = "yes"
        /\ \A id, b : IsId(id) /\ Led(tile, id, b) => Led(r, id, b)
        /\ r.last = "yes" /\ Prefixed(tile.prefix, a) =>
             \A k \in DOMAIN Resolved(a) : Led(r, Resolved(a)[k], a)
    BY <1>1, <1>5, MergeAll
  <2>2. AllLed(r, merged \cup {a})
    <3> SUFFICES ASSUME NEW b \in merged \cup {a}, r.last = "yes", Prefixed(r.prefix, b),
                        NEW k \in DOMAIN Resolved(b)
                 PROVE  Led(r, Resolved(b)[k], b)
      BY DEF AllLed
    <3>1. CASE b = a
      BY <2>1, <3>1
    <3>2. CASE b \in merged
      <4>1. Led(tile, Resolved(b)[k], b)
        BY <1>1, <2>1, <3>2 DEF AllLed
      <4>2. IsId(Resolved(b)[k])
        BY <1>1, <3>2, ResolvedIds
      <4> QED
        BY <2>1, <4>1, <4>2
    <3> QED
      BY <3>1, <3>2
  <2> QED
    BY <1>1, <1>2, <1>3, <2>1, <2>2 DEF FeatureInv
<1> QED
  BY <1>2, <1>4, <1>5 DEF MergeAddOn, MergedInto

\* Every step keeps the invariant.
LEMMA InvNext ==
  ASSUME HashesAreNumbers, FeatureInv, [Next]_vars
  PROVE  FeatureInv'
<1>1. CASE UNCHANGED vars
  <2>1. tile' = tile /\ merged' = merged /\ phase' = phase
    BY <1>1 DEF vars
  <2> QED
    BY <2>1 DEF FeatureInv
<1>2. CASE \E p \in TilePrefixes : SetIdPrefix(p)
  BY <1>2, InvSetIdPrefix
<1>3. CASE \E id \in NewIds : NewFeature(id)
  BY <1>3, InvNewFeature
<1>4. CASE FindFeature \/ StoreTile
  BY <1>4, InvSorted
<1>5. CASE FillTile
  BY <1>5, InvFillTile
<1>6. CASE \E a \in AddOns : MergeAddOn(a)
  BY <1>6, InvMergeAddOn
<1> QED
  BY <1>1, <1>2, <1>3, <1>4, <1>5, <1>6 DEF Next

\* The invariant holds in every reachable state.
LEMMA InvHolds ==
  ASSUME HashesAreNumbers
  PROVE  Spec => []FeatureInv
<1>1. Init => FeatureInv
  BY InvInit
<1>2. FeatureInv /\ [Next]_vars => FeatureInv'
  BY InvNext
<1> QED
  BY <1>1, <1>2, PTL DEF Spec

\* Each feature goes on from the prefix.
LEMMA OnePrimary ==
  ASSUME TileFits(tile), NEW i \in Features
  PROVE  /\ i \in 1 .. Len(tile.features) /\ Type(i) \in Types
         /\ tile.prefix \in Seq(AllParts) /\ tile.features[i].parts \in Seq(AllParts)
         /\ \E open : Match(Primary(Type(i)), 0, tile.prefix, open) = "yes"
         /\ Match(Primary(Type(i)), Len(tile.prefix), tile.features[i].parts, RequireEnd) = "yes"
<1>1. PICK n \in Nat : n = Len(tile.features) /\ DOMAIN tile.features = 1 .. n
  BY LenProperties DEF TileFits, TileRecords
<1>2. i \in 1 .. n
  BY <1>1 DEF Features
<1>3. PICK f \in FeatureRecords : f = tile.features[i]
  BY <1>1, <1>2, ElementOfSeq DEF TileFits, TileRecords
<1>4. f.type \in Types /\ f.parts \in Seq(AllParts)
  BY DEF FeatureRecords
<1>5. tile.prefix \in Seq(AllParts)
  BY DEF TileFits, TileRecords
<1>6. \E open : Match(Primary(f.type), 0, tile.prefix, open) = "yes"
  BY <1>4 DEF TileFits, PartsFit
<1>7. ValidNew(f.type, f.parts, Len(tile.prefix)) = "yes"
  BY <1>1, <1>2, <1>3 DEF TileFits, PartsFit
<1> QED
  BY <1>1, <1>2, <1>3, <1>4, <1>5, <1>6, <1>7 DEF Type, ValidNew

\* If the prefix has no gaps, the id of a feature is a whole one.
LEMMA WholeOfFeature ==
  ASSUME TileFits(tile), NEW i \in Features, NEW P, NEW c \in Seq(P), c = Primary(Type(i)),
         Labelled(c, tile.prefix), Len(tile.prefix) <= Len(c)
  PROVE  IdOf(tile, i) \in Seq(AllParts) /\ Match(c, 0, IdOf(tile, i), RequireEnd) = "yes"
<1>1. PICK open : Match(c, 0, tile.prefix, open) = "yes"
  BY OnePrimary
<1>2. PICK prefix \in Seq(AllParts), parts \in Seq(AllParts) :
        prefix = tile.prefix /\ parts = tile.features[i].parts
  BY OnePrimary
<1>3. PICK toEnd : toEnd = RequireEnd
  OBVIOUS
<1>4. Match(c, Len(prefix), parts, toEnd) = "yes"
  BY <1>2, <1>3, OnePrimary
<1>5. Match(c, 0, prefix \o parts, toEnd) = "yes"
  BY <1>1, <1>2, <1>4, WholeIsMatched
<1>6. IdOf(tile, i) = prefix \o parts
  BY <1>2 DEF IdOf
<1> QED
  BY <1>3, <1>5, <1>6, ConcatProperties

\* This is what IdsAreWhole asks for.
LEMMA IdsFit ==
  ASSUME TileFits(tile)
  PROVE  IdsAreWhole
<1> SUFFICES ASSUME NEW i \in Features, Leads(Type(i))
             PROVE  Match(Primary(Type(i)), 0, IdOf(tile, i), TRUE) = "yes"
  BY DEF IdsAreWhole
<1>1. Type(i) \in Types /\ tile.prefix \in Seq(AllParts)
  BY OnePrimary
<1>2. PICK P : Primary(Type(i)) \in Seq(P)
  BY <1>1, Primaries
<1>3. PICK c \in Seq(P) : c = Primary(Type(i))
  BY <1>2
<1>4. Labelled(c, tile.prefix) /\ Len(tile.prefix) <= Len(c)
  <2>1. DOMAIN tile.prefix = 1 .. Len(tile.prefix)
    BY <1>1, LenProperties
  <2> QED
    BY <1>3, <2>1 DEF Leads, Labelled
<1>5. Match(c, 0, IdOf(tile, i), RequireEnd) = "yes"
  BY <1>3, <1>4, WholeOfFeature
<1> QED
  BY <1>3, <1>5 DEF RequireEnd

\* The search is the one through all features.
LEMMA FindSearchesAll ==
  ASSUME HashesAreNumbers, TileFits(tile)
  PROVE  FindIsSearch
<1>1. ASSUME NEW id \in {<<Type(i), IdOf(tile, i)>> : i \in Features} \cup {AddOnId[a] : a \in AddOns}
      PROVE  id[1] \in Types
  <2>1. CASE id \in {<<Type(i), IdOf(tile, i)>> : i \in Features}
    <3>1. PICK i \in Features : id = <<Type(i), IdOf(tile, i)>>
      BY <2>1
    <3>2. Type(i) \in Types
      BY OnePrimary
    <3> QED
      BY <3>1, <3>2
  <2>2. CASE id \in {AddOnId[a] : a \in AddOns}
    BY <2>2, FeatureLayerAssumption DEF FeatureLayerAssumption
  <2> QED
    BY <2>1, <2>2
<1>2. ASSUME NEW id \in {<<Type(i), IdOf(tile, i)>> : i \in Features} \cup {AddOnId[a] : a \in AddOns}
      PROVE  Find(tile, id[1], id[2]) =
               SelectInSeq(tile.features,
                 LAMBDA f : /\ f.type = id[1]
                            /\ Strip(tile.prefix \o f.parts, Primary(id[1])) =
                                 Strip(id[2], Primary(id[1])))
  <2> DEFINE key == Strip(id[2], Primary(id[1]))
             I == {i \in 1 .. Len(tile.features) :
                     /\ tile.features[i].type = id[1]
                     /\ Strip(tile.prefix \o tile.features[i].parts, Primary(id[1])) = key}
  <2>1. I = Matching(tile, id[1], key)
    BY DEF Matching, Key, IdOf
  <2>2. Find(tile, id[1], id[2]) = First(I)
    BY <1>1, <2>1, FindIsFirst, ZenonT(30) DEF TileFits
  <2>3. SelectInSeq(tile.features,
          LAMBDA f : /\ f.type = id[1]
                     /\ Strip(tile.prefix \o f.parts, Primary(id[1])) = key) =
        IF I # {} THEN Min(I) ELSE 0
    BY Zenon DEF SelectInSeq
  <2> HIDE DEF I
  <2>4. First(I) = IF I # {} THEN Min(I) ELSE 0
    BY DEF First
  <2> QED
    BY <2>2, <2>3, <2>4
<1> QED
  BY <1>2 DEF FindIsSearch

\* The text of an id has the values of all its parts.
LEMMA TextFound ==
  ASSUME TileFits(tile), NEW i \in Features,
         \A k \in DOMAIN Primary(Type(i)) : ~Primary(Type(i))[k].optional,
         \A k \in DOMAIN IdOf(tile, i) :
           IdOf(tile, i)[k][2].v \in Numerals => IdOf(tile, i)[k][2].kind = "integer"
  PROVE  FindText(tile, Type(i), TextOf(tile, i)) = Find(tile, Type(i), IdOf(tile, i))
<1>1. PICK t \in Types : t = Type(i)
  BY OnePrimary
<1>2. PICK P : Primary(t) \in Seq(P)
  BY Primaries
<1>3. PICK c \in Seq(P), n \in Nat : c = Primary(t) /\ n = Len(c) /\ DOMAIN c = 1 .. n
  BY <1>2, LenProperties
<1>4. \A k \in 1 .. Len(c) : ~c[k].optional
  BY <1>1, <1>3
<1>5. Labelled(c, tile.prefix) /\ Len(tile.prefix) <= Len(c)
  <2>1. PICK prefix \in Seq(AllParts) : prefix = tile.prefix
    BY OnePrimary
  <2>2. PICK open : Match(c, 0, prefix, open) = "yes"
    BY <1>1, <1>3, <2>1, OnePrimary
  <2> QED
    BY <1>4, <2>1, <2>2, PlainMatch
<1>6. PICK id \in Seq(AllParts) : id = IdOf(tile, i) /\ Match(c, 0, id, RequireEnd) = "yes"
  BY <1>1, <1>3, <1>5, WholeOfFeature
<1>7. Labelled(c, id) /\ Admitted(c, id) /\ Len(id) = n
  <2>1. PICK toEnd : toEnd = RequireEnd
    OBVIOUS
  <2>2. toEnd
    BY <2>1 DEF RequireEnd
  <2>3. Match(c, 0, id, toEnd) = "yes"
    BY <1>6, <2>1
  <2> QED
    BY <1>3, <1>4, <2>2, <2>3, PlainMatch
<1>8. DOMAIN id = 1 .. n /\ id = [k \in 1 .. n |-> id[k]]
  BY <1>7, LenProperties
<1>9. PICK texts : texts = TextOf(tile, i)
  OBVIOUS
<1>10. Len(texts) = n /\ \A k \in 1 .. n : texts[k] = id[k][2].v
  <2>1. texts = [k \in 1 .. n |-> id[k][2].v]
    BY <1>6, <1>8, <1>9 DEF TextOf
  <2> QED
    BY <2>1
<1>11. \A k \in 1 .. n : c[k].integer => texts[k] \in Numerals
  BY <1>7, <1>10 DEF Admitted, Admits
<1> DEFINE Kind(k) == IF c[k].integer THEN "integer" ELSE "string"
           Part(k) == <<c[k].label, [kind |-> Kind(k), v |-> texts[k]]>>
<1>12. ASSUME NEW k \in 1 .. n
       PROVE  id[k] = Part(k)
  <2>1. id[k] \in AllParts
    BY <1>7, ElementOfSeq
  <2>2. id[k] = <<id[k][1], [kind |-> id[k][2].kind, v |-> id[k][2].v]>>
    BY <2>1, FeatureLayerAssumption DEF FeatureLayerAssumption
  <2>3. id[k][1] = c[k].label
    BY <1>7 DEF Labelled
  <2>4. id[k][2].v = texts[k]
    BY <1>10
  <2>5. id[k][2].kind = Kind(k)
    <3>1. CASE c[k].integer
      BY <1>6, <1>8, <1>10, <1>11, <3>1
    <3>2. CASE ~c[k].integer
      BY <1>7, <3>2 DEF Admitted, Admits
    <3> QED
      BY <3>1, <3>2
  <2> QED
    BY <2>2, <2>3, <2>4, <2>5
<1> HIDE DEF Part
<1>13. id = [k \in 1 .. n |-> Part(k)]
  BY <1>8, <1>12
<1> USE DEF Part
<1>14. Mandatory(t) = c
  BY <1>3, <1>4, MandatoryIsPrimary
<1>15. FindText(tile, t, texts) = Find(tile, t, [k \in 1 .. n |-> Part(k)])
  BY <1>3, <1>10, <1>11, <1>14, Zenon DEF FindText
<1> HIDE DEF Part
<1> QED
  BY <1>1, <1>6, <1>9, <1>13, <1>15

\* The invariant gives the four properties.
LEMMA InvImplies ==
  ASSUME HashesAreNumbers, FeatureInv
  PROVE  FeaturesAreFound /\ IdsAreWhole /\ MergedIsFound /\ MergeMakesNoTwins
<1>1. TileFits(tile)
  BY DEF FeatureInv
<1>2. FindIsSearch /\ IdsAreWhole
  BY <1>1, FindSearchesAll, IdsFit
<1>3. TextIsFound
  BY <1>1, TextFound DEF TextIsFound
<1>4. \A a : SamePrefix(a) <=> Prefixed(tile.prefix, a)
  BY DEF SamePrefix, Prefixed
<1>5. MergedIsFound
  <2>1. AllLed(tile, merged)
    BY DEF FeatureInv
  <2> QED
    BY <1>4, <2>1 DEF MergedIsFound, AllLed, Led
<1>6. MergeMakesNoTwins
  <2>1. NoTwins(tile)
    BY DEF FeatureInv
  <2>2. DOMAIN tile.features = 1 .. Len(tile.features)
    BY <1>1, LenProperties DEF TileFits, TileRecords
  <2> QED
    BY <1>4, <2>1, <2>2 DEF MergeMakesNoTwins, NoTwins, Features, Type
<1> QED
  BY <1>2, <1>3, <1>5, <1>6 DEF FeaturesAreFound

\* find() returns the first feature with the type and the mandatory parts asked for,
\* and finds a feature by the text of its id: for any compositions, prefixes, ids,
\* add-on tiles and number of features, and any hash function.
THEOREM EveryFeatureIsFound ==
  ASSUME HashesAreNumbers
  PROVE  Spec => []FeaturesAreFound
<1>1. FeatureInv => FeaturesAreFound
  BY InvImplies
<1> QED
  BY <1>1, InvHolds, PTL

\* With a prefix without gaps, prefix and parts of each feature are a whole primary id,
\* for whatever newFeature and clone are given.
THEOREM EveryIdIsWhole ==
  ASSUME HashesAreNumbers
  PROVE  Spec => []IdsAreWhole
<1>1. FeatureInv => IdsAreWhole
  BY InvImplies
<1> QED
  BY <1>1, InvHolds, PTL

\* After loadAddOnTiles each id of an add-on feature leads to its data, for any number
\* and order of add-on tiles.
THEOREM MergedDataIsFound ==
  ASSUME HashesAreNumbers
  PROVE  Spec => []MergedIsFound
<1>1. FeatureInv => MergedIsFound
  BY InvImplies
<1> QED
  BY <1>1, InvHolds, PTL

\* And no merge adds a second feature of an id, or appends to one that find() does not
\* return.
THEOREM MergesMakeNoTwins ==
  ASSUME HashesAreNumbers
  PROVE  Spec => []MergeMakesNoTwins
<1>1. FeatureInv => MergeMakesNoTwins
  BY InvImplies
<1> QED
  BY <1>1, InvHolds, PTL

(***************************************************************************)
(* The geometries of the layer                                             *)
(***************************************************************************)
\* The points of the layer, its geometries, and its views.
AllPoints == Points \cup {Origin} \cup UNION {ToSet(l) : l \in Outlines}

Records == [isView : {FALSE}, vertexArray : Int, first : AllPoints]
             \cup [isView : {TRUE}, base : Nat, offset : Nat, size : Nat]

Layers == [geom : Seq(Records), store : Seq(Seq(AllPoints))]

\* A view is made of a geometry that is already there.
ViewsFit(geom) == \A g \in DOMAIN geom : geom[g].isView => geom[g].base \in 1 .. (g - 1)

LayerFits(l) == l \in Layers /\ ViewsFit(l.geom)

BuffersInv == LayerFits(Layer)

\* What a geometry has depends on whether it is a view.
LEMMA OfRecord ==
  ASSUME NEW r \in Records
  PROVE  /\ r.isView \in BOOLEAN
         /\ r.isView => /\ r = View(r.base, r.offset, r.size)
                        /\ r.base \in Nat /\ r.offset \in Nat /\ r.size \in Nat
         /\ ~r.isView => /\ r = [isView |-> FALSE, vertexArray |-> r.vertexArray, first |-> r.first]
                         /\ r.vertexArray \in Int /\ r.first \in AllPoints
<1>1. CASE r \in [isView : {FALSE}, vertexArray : Int, first : AllPoints]
  BY <1>1
<1>2. CASE r \in [isView : {TRUE}, base : Nat, offset : Nat, size : Nat]
  BY <1>2 DEF View
<1> QED
  BY <1>1, <1>2 DEF Records

(***************************************************************************)
(* Views                                                                   *)
(***************************************************************************)
\* How AllResolved goes on from a view to its base.
ResolvedBy(at, g) ==
  IF geom_[g].isView
  THEN [at[geom_[g].base] EXCEPT !.offset = @ + geom_[g].offset]
  ELSE [root |-> g, offset |-> 0]

\* The recursion of AllResolved defines a function, as a base is older than its view.
LEMMA ResolvedExists ==
  ASSUME BuffersInv, NEW n \in Nat, n = Len(geom_)
  PROVE  \E at : at = [g \in DOMAIN geom_ |-> ResolvedBy(at, g)]
<1>1. DOMAIN geom_ = 1 .. n /\ ViewsFit(geom_)
  BY LenProperties DEF BuffersInv, LayerFits, Layers, Layer
<1> DEFINE Good(at, k) == at = [g \in 1 .. k |-> ResolvedBy(at, g)]
           S == {k \in Nat : k <= n => \E at : Good(at, k)}
<1>2. 0 \in S
  <2>1. PICK at : at = [g \in 1 .. 0 |-> 0]
    OBVIOUS
  <2>2. at = [g \in 1 .. 0 |-> ResolvedBy(at, g)]
    BY <2>1
  <2> QED
    BY <2>2
<1>3. ASSUME NEW k \in S
      PROVE  k + 1 \in S
  <2> SUFFICES ASSUME k + 1 <= n
               PROVE  \E at : Good(at, k + 1)
    <3> HIDE DEF Good
    <3> QED
      OBVIOUS
  <2>0. k \in Nat /\ k <= n
    <3> HIDE DEF Good
    <3> QED
      OBVIOUS
  <2>1. PICK f : Good(f, k)
    <3> HIDE DEF Good
    <3> QED
      BY <2>0
  <2>2. PICK h : h = [g \in 1 .. k + 1 |-> IF g = k + 1 THEN ResolvedBy(f, g) ELSE f[g]]
    OBVIOUS
  <2>3. ASSUME NEW g \in 1 .. k + 1
        PROVE  ResolvedBy(h, g) = ResolvedBy(f, g)
    <3>1. ASSUME geom_[g].isView
          PROVE  h[geom_[g].base] = f[geom_[g].base]
      <4>1. g \in DOMAIN geom_
        BY <1>1, <2>0
      <4>2. geom_[g].base \in 1 .. (g - 1)
        BY <1>1, <3>1, <4>1 DEF ViewsFit
      <4>3. geom_[g].base \in 1 .. k + 1 /\ geom_[g].base # k + 1
        BY <2>0, <4>2
      <4> QED
        BY <2>2, <4>3
    <3> QED
      BY <3>1 DEF ResolvedBy
  <2>4. ASSUME NEW g \in 1 .. k + 1
        PROVE  h[g] = ResolvedBy(h, g)
    <3>1. CASE g = k + 1
      BY <2>2, <2>3, <3>1
    <3>2. CASE g # k + 1
      <4>1. g \in 1 .. k
        BY <2>0, <3>2
      <4>2. f[g] = ResolvedBy(f, g)
        BY <2>1, <4>1
      <4> QED
        BY <2>2, <2>3, <3>2, <4>2
    <3> QED
      BY <3>1, <3>2
  <2>5. h = [g \in 1 .. k + 1 |-> h[g]]
    BY <2>2
  <2>6. h = [g \in 1 .. k + 1 |-> ResolvedBy(h, g)]
    BY <2>4, <2>5
  <2> QED
    BY <2>6
<1>4. S = Nat
  <2> HIDE DEF Good
  <2> QED
    BY <1>2, <1>3, Inductive
<1>5. \E at : Good(at, n)
  <2> HIDE DEF Good
  <2>1. n \in S
    BY <1>4
  <2> QED
    BY <2>1
<1> QED
  BY <1>1, <1>5

\* What holds the points of a geometry is no view.
LEMMA ResolvedFits ==
  ASSUME BuffersInv, NEW g \in DOMAIN geom_
  PROVE  /\ AllResolved[g] \in [root : Bases, offset : Nat]
         /\ ~geom_[g].isView => AllResolved[g] = [root |-> g, offset |-> 0]
         /\ geom_[g].isView => /\ AllResolved[g].root = AllResolved[geom_[g].base].root
                               /\ AllResolved[g].offset =
                                    AllResolved[geom_[g].base].offset + geom_[g].offset
<1>0. PICK n \in Nat : n = Len(geom_) /\ DOMAIN geom_ = 1 .. n
  BY LenProperties DEF BuffersInv, LayerFits, Layers, Layer
<1>1. ViewsFit(geom_) /\ \A i \in 1 .. n : geom_[i] \in Records
  BY <1>0, ElementOfSeq DEF BuffersInv, LayerFits, Layers, Layer
<1>2. PICK at : at = AllResolved
  OBVIOUS
<1>3. at = [i \in DOMAIN geom_ |-> ResolvedBy(at, i)]
  <2>1. at = CHOOSE f : f = [i \in DOMAIN geom_ |-> ResolvedBy(f, i)]
    BY <1>2 DEF AllResolved, ResolvedBy
  <2> QED
    BY <1>0, <2>1, ResolvedExists
<1> DEFINE Fine(i) == at[i] \in [root : Bases, offset : Nat]
           S == {k \in Nat : \A i \in 1 .. n : i <= k => Fine(i)}
<1>4. 0 \in S
  OBVIOUS
<1>5. ASSUME NEW k \in S
      PROVE  k + 1 \in S
  <2>1. ASSUME k + 1 \in 1 .. n
        PROVE  Fine(k + 1)
    <3>1. at[k + 1] = ResolvedBy(at, k + 1)
      BY <1>0, <1>3, <2>1
    <3>2. CASE geom_[k + 1].isView
      <4>1. geom_[k + 1].base \in 1 .. k /\ geom_[k + 1].offset \in Nat
        <5>1. geom_[k + 1].base \in 1 .. ((k + 1) - 1)
          BY <1>0, <1>1, <2>1, <3>2 DEF ViewsFit
        <5> QED
          BY <1>1, <2>1, <3>2, <5>1, OfRecord
      <4>2. at[geom_[k + 1].base] \in [root : Bases, offset : Nat]
        BY <2>1, <4>1
      <4> QED
        BY <3>1, <3>2, <4>1, <4>2 DEF ResolvedBy
    <3>3. CASE ~geom_[k + 1].isView
      BY <1>0, <2>1, <3>1, <3>3 DEF ResolvedBy, Bases
    <3> QED
      BY <3>2, <3>3
  <2>2. ASSUME NEW i \in 1 .. n, i <= k + 1
        PROVE  Fine(i)
    <3>1. i <= k \/ i = k + 1
      BY <2>2
    <3> HIDE DEF Fine
    <3> QED
      BY <2>1, <2>2, <3>1
  <2> HIDE DEF Fine
  <2> QED
    BY <2>2
<1>6. S = Nat
  <2> HIDE DEF Fine
  <2> QED
    BY <1>4, <1>5, Inductive
<1>7. \A i \in 1 .. n : Fine(i)
  <2>1. n \in S
    BY <1>6
  <2> HIDE DEF Fine
  <2> QED
    BY <2>1
<1>8. at[g] = ResolvedBy(at, g)
  BY <1>3
<1>9. geom_[g].isView => geom_[g].base \in 1 .. n
  BY <1>0, <1>1 DEF ViewsFit
<1> QED
  BY <1>0, <1>2, <1>7, <1>8, <1>9 DEF ResolvedBy

\* Any geometry of the layer that is no view holds points.
LEMMA HeldIsSeq ==
  ASSUME BuffersInv, NEW g \in Bases
  PROVE  Held(g) \in Seq(AllPoints)
<1>1. geom_[g] \in Records /\ ~geom_[g].isView /\ storage \in Seq(Seq(AllPoints))
  BY ElementOfSeq DEF BuffersInv, LayerFits, Layers, Layer, Bases
<1>2. geom_[g].vertexArray \in Int /\ geom_[g].first \in AllPoints
  BY <1>1, OfRecord
<1>3. PICK n \in Nat : n = Len(storage)
  BY <1>1, LenProperties
<1>4. ASSUME 0 <= geom_[g].vertexArray, geom_[g].vertexArray < n
      PROVE  storage[geom_[g].vertexArray + 1] \in Seq(AllPoints)
  <2>1. geom_[g].vertexArray + 1 \in 1 .. n
    BY <1>2, <1>4
  <2> QED
    BY <1>1, <1>3, <2>1, ElementOfSeq
<1>5. <<>> \in Seq(AllPoints) /\ <<geom_[g].first>> \in Seq(AllPoints)
  BY <1>2
<1>6. CASE geom_[g].vertexArray < 0
  BY <1>5, <1>6 DEF Held
<1>7. CASE ~(geom_[g].vertexArray < 0)
  <2>1. PICK more : more = IF geom_[g].vertexArray < Len(storage)
                           THEN storage[geom_[g].vertexArray + 1] ELSE <<>>
    OBVIOUS
  <2>2. more \in Seq(AllPoints)
    BY <1>2, <1>3, <1>4, <1>5, <1>7, <2>1
  <2>3. Held(g) = <<geom_[g].first>> \o more
    BY <1>7, <2>1 DEF Held
  <2> QED
    BY <1>5, <2>2, <2>3, ConcatProperties
<1> QED
  BY <1>6, <1>7

\* The n elements of a sequence after the o-th.
LEMMA PartIs ==
  ASSUME NEW P, NEW s \in Seq(P), NEW o \in Nat, NEW n \in Nat, o + n <= Len(s)
  PROVE  /\ SubSeq(s, o + 1, o + n) \in Seq(P)
         /\ Len(SubSeq(s, o + 1, o + n)) = n
         /\ \A i \in 1 .. n : SubSeq(s, o + 1, o + n)[i] = s[o + i]
<1>0. PICK l \in Nat : l = Len(s) /\ o + n <= l
  BY LenProperties
<1>1. \A i \in 1 .. l : s[i] \in P
  BY <1>0, ElementOfSeq
<1>2. PICK t : t = SubSeq(s, o + 1, o + n)
  OBVIOUS
<1>3. \A i \in o + 1 .. o + n : s[i] \in P
  BY <1>0, <1>1
<1>4. /\ t \in Seq(P)
      /\ Len(t) = IF o + 1 <= o + n THEN (o + n) - (o + 1) + 1 ELSE 0
      /\ \A i \in 1 .. (o + n) - (o + 1) + 1 : t[i] = s[(o + 1) + i - 1]
  BY <1>2, <1>3, SubSeqProperties
<1>5. Len(t) = n
  BY <1>4
<1>6. \A i \in 1 .. n : t[i] = s[o + i]
  BY <1>4
<1> QED
  BY <1>2, <1>4, <1>5, <1>6

\* What is in the bounds of a part of a sequence is a part of the sequence.
LEMMA PartOfPart ==
  ASSUME NEW P, NEW s \in Seq(P), NEW o \in Nat, NEW n \in Nat, o + n <= Len(s),
         NEW p \in Nat, NEW m \in Nat, p + m <= n
  PROVE  SubSeq(SubSeq(s, o + 1, o + n), p + 1, p + m) = SubSeq(s, (o + p) + 1, (o + p) + m)
<1>0. PICK l \in Nat : l = Len(s) /\ o + n <= l
  BY LenProperties
<1>1. PICK t : t = SubSeq(s, o + 1, o + n)
  OBVIOUS
<1>2. t \in Seq(P) /\ Len(t) = n /\ \A i \in 1 .. n : t[i] = s[o + i]
  BY <1>1, PartIs
<1>3. PICK u : u = SubSeq(t, p + 1, p + m)
  OBVIOUS
<1>4. u \in Seq(P) /\ Len(u) = m /\ \A i \in 1 .. m : u[i] = t[p + i]
  BY <1>2, <1>3, PartIs
<1>5. PICK q \in Nat : q = o + p /\ q + m <= l
  BY <1>0
<1>6. PICK v : v = SubSeq(s, q + 1, q + m)
  OBVIOUS
<1>7. v \in Seq(P) /\ Len(v) = m /\ \A i \in 1 .. m : v[i] = s[q + i]
  <2>1. q + m <= Len(s)
    BY <1>0, <1>5
  <2>2. /\ SubSeq(s, q + 1, q + m) \in Seq(P)
        /\ Len(SubSeq(s, q + 1, q + m)) = m
        /\ \A i \in 1 .. m : SubSeq(s, q + 1, q + m)[i] = s[q + i]
    BY <2>1, PartIs
  <2> QED
    BY <1>6, <2>2
<1>8. \A i \in 1 .. m : u[i] = v[i]
  <2> SUFFICES ASSUME NEW i \in 1 .. m
               PROVE  u[i] = v[i]
    OBVIOUS
  <2>1. p + i \in 1 .. n /\ o + (p + i) = q + i
    BY <1>5
  <2>2. u[i] = s[o + (p + i)]
    BY <1>2, <1>4, <2>1
  <2> QED
    BY <1>7, <2>1, <2>2
<1>9. u = v
  BY <1>4, <1>7, <1>8, SeqEqual
<1> QED
  BY <1>1, <1>3, <1>5, <1>6, <1>9

\* The invariant gives what is said of views.
LEMMA ViewsShow ==
  ASSUME BuffersInv
  PROVE  ViewsShowTheirBase
<1> SUFFICES ASSUME NEW g \in DOMAIN geom_ \ Bases, NEW base, base = geom_[g].base,
                    ~OutOfBounds(base), geom_[g].offset + geom_[g].size <= Len(PointsOf(base))
             PROVE  /\ ~OutOfBounds(g)
                    /\ PointsOf(g) = SubSeq(PointsOf(base), geom_[g].offset + 1,
                                            geom_[g].offset + geom_[g].size)
  BY DEF ViewsShowTheirBase
<1>1. g \in DOMAIN geom_ /\ geom_[g].isView
  BY DEF Bases
<1>2. PICK m \in Nat, p \in Nat : m = geom_[g].size /\ p = geom_[g].offset
  <2>1. geom_[g] \in Records
    BY <1>1, ElementOfSeq DEF BuffersInv, LayerFits, Layers, Layer
  <2> QED
    BY <1>1, <2>1, OfRecord
<1>3. base \in DOMAIN geom_ /\ geom_[base] \in Records
  <2>1. PICK n \in Nat : n = Len(geom_) /\ DOMAIN geom_ = 1 .. n
    BY LenProperties DEF BuffersInv, LayerFits, Layers, Layer
  <2>2. base \in 1 .. (g - 1)
    BY <1>1 DEF BuffersInv, LayerFits, Layer, ViewsFit
  <2>3. base \in DOMAIN geom_
    BY <1>1, <2>1, <2>2
  <2> QED
    BY <2>3, ElementOfSeq DEF BuffersInv, LayerFits, Layers, Layer
<1>4. PICK root \in Bases, o \in Nat : AllResolved[base].root = root /\ AllResolved[base].offset = o
  BY <1>3, ResolvedFits
<1>5. PICK q \in Nat : q = o + p
  OBVIOUS
<1>6. AllResolved[g].root = root /\ AllResolved[g].offset = q
  BY <1>1, <1>2, <1>4, <1>5, ResolvedFits
<1>7. PICK s \in Seq(AllPoints), l \in Nat : s = Held(root) /\ l = Len(s)
  BY HeldIsSeq, LenProperties
<1>8. PointsOf(g) = SubSeq(s, q + 1, q + m)
  BY <1>1, <1>2, <1>6, <1>7 DEF PointsOf
<1>9. OutOfBounds(g) <=> q + m > l
  BY <1>1, <1>2, <1>6, <1>7 DEF OutOfBounds
<1>10. PICK n \in Nat : o + n <= l /\ p + m <= n /\ PointsOf(base) = SubSeq(s, o + 1, o + n)
  <2>1. CASE geom_[base].isView
    <3>1. PICK n \in Nat : n = geom_[base].size
      BY <1>3, <2>1, OfRecord
    <3>2. PointsOf(base) = SubSeq(s, o + 1, o + n)
      BY <1>4, <1>7, <2>1, <3>1 DEF PointsOf
    <3>3. ~(o + n > l)
      BY <1>4, <1>7, <2>1, <3>1 DEF OutOfBounds
    <3>4. o + n <= l
      BY <3>3
    <3>5. Len(PointsOf(base)) = n
      BY <1>7, <3>2, <3>4, PartIs
    <3> QED
      BY <1>2, <3>2, <3>4, <3>5
  <2>2. CASE ~geom_[base].isView
    <3>1. AllResolved[base] = [root |-> base, offset |-> 0]
      BY <1>3, <2>2, ResolvedFits
    <3>2. root = base /\ o = 0
      BY <1>4, <3>1
    <3>3. PointsOf(base) = s
      BY <1>7, <2>2, <3>2 DEF PointsOf
    <3>4. s = SubSeq(s, 1, l)
      BY <1>7, SubSeqFull
    <3> QED
      BY <1>2, <1>7, <3>2, <3>3, <3>4
  <2> QED
    BY <2>1, <2>2
<1>11. SubSeq(SubSeq(s, o + 1, o + n), p + 1, p + m) = SubSeq(s, (o + p) + 1, (o + p) + m)
  BY <1>7, <1>10, PartOfPart
<1>12. ~(q + m > l)
  BY <1>5, <1>10
<1>13. PointsOf(g) = SubSeq(PointsOf(base), p + 1, p + m)
  BY <1>5, <1>8, <1>10, <1>11
<1> QED
  BY <1>2, <1>9, <1>12, <1>13

(***************************************************************************)
(* Appending                                                               *)
(***************************************************************************)
\* The array of a geometry that has one.
ArrayOf(l, g) == l.geom[g].vertexArray + 1

\* What the geometry g of the layer l holds.
HeldIn(l, g) ==
  IF l.geom[g].vertexArray < 0 THEN <<>>
  ELSE <<l.geom[g].first>> \o
       (IF l.geom[g].vertexArray < Len(l.store) THEN l.store[ArrayOf(l, g)] ELSE <<>>)

\* A geometry of l that is no view.
IsBase(l, g) == g \in DOMAIN l.geom /\ ~l.geom[g].isView

\* The geometries and arrays of a layer, by their numbers.
LEMMA OfLayer ==
  ASSUME NEW l \in Layers
  PROVE  /\ l = [geom |-> l.geom, store |-> l.store]
         /\ l.geom \in Seq(Records) /\ l.store \in Seq(Seq(AllPoints))
         /\ Len(l.geom) \in Nat /\ DOMAIN l.geom = 1 .. Len(l.geom)
         /\ Len(l.store) \in Nat /\ DOMAIN l.store = 1 .. Len(l.store)
         /\ \A i \in DOMAIN l.geom : l.geom[i] \in Records
         /\ \A h \in DOMAIN l.store : l.store[h] \in Seq(AllPoints)
<1>1. l.geom \in Seq(Records) /\ l.store \in Seq(Seq(AllPoints)) /\ l = [geom |-> l.geom, store |-> l.store]
  BY DEF Layers
<1> QED
  BY <1>1, LenProperties, ElementOfSeq

\* r is l after append(p) to g: the first point allocates an array, and the next
\* ones are appended to it.
IsAppended(r, l, g, p) ==
  /\ r \in Layers /\ Len(r.geom) = Len(l.geom)
  /\ \A i \in DOMAIN l.geom : r.geom[i].isView = l.geom[i].isView
  /\ \A i \in DOMAIN l.geom : i # g => r.geom[i] = l.geom[i]
  /\ l.geom[g].vertexArray < 0 =>
       /\ r.geom[g].vertexArray = Len(l.store) /\ r.geom[g].first = p
       /\ r.store = Append(l.store, <<>>)
  /\ ~(l.geom[g].vertexArray < 0) =>
       /\ r.geom = l.geom
       /\ r.store = [l.store EXCEPT ![ArrayOf(l, g)] = Append(@, p)]

\* append() does that.
LEMMA AppendedIs ==
  ASSUME NEW l \in Layers, NEW g, IsBase(l, g), NEW p \in AllPoints
  PROVE  IsAppended(Appended(l, g, p), l, g, p)
<1>0. PICK r : r = Appended(l, g, p)
  OBVIOUS
<1>1. PICK old \in Records : old = l.geom[g] /\ ~old.isView
  BY OfLayer DEF IsBase
<1>2. PICK v \in Int, f \in AllPoints : old = [isView |-> FALSE, vertexArray |-> v, first |-> f]
  BY <1>1, OfRecord
<1>3. CASE l.geom[g].vertexArray < 0
  <2>1. PICK new : new = [old EXCEPT !.vertexArray = Len(l.store), !.first = p]
    OBVIOUS
  <2>2. new = [isView |-> FALSE, vertexArray |-> Len(l.store), first |-> p]
    BY <1>2, <2>1
  <2>3. new \in Records /\ new.isView = old.isView
    <3>1. Len(l.store) \in Int
      BY OfLayer
    <3> QED
      BY <1>2, <2>2, <3>1 DEF Records
  <2>4. PICK geom, store : geom = [l.geom EXCEPT ![g] = new] /\ store = Append(l.store, <<>>)
    OBVIOUS
  <2>5. r = [geom |-> geom, store |-> store]
    BY <1>0, <1>1, <1>3, <2>1, <2>4 DEF Appended
  <2>6. geom \in Seq(Records) /\ Len(geom) = Len(l.geom)
        /\ \A i \in DOMAIN l.geom : geom[i] = IF i = g THEN new ELSE l.geom[i]
    BY <2>3, <2>4, OfLayer, ExceptSeq DEF IsBase
  <2>7. store \in Seq(Seq(AllPoints))
    BY <2>4, OfLayer, AppendProperties
  <2>8. r.geom = geom /\ r.store = store
    BY <2>5
  <2>9. r \in Layers
    BY <2>5, <2>6, <2>7 DEF Layers
  <2>10. \A i \in DOMAIN l.geom : i # g => r.geom[i] = l.geom[i]
    BY <2>6, <2>8
  <2>11. r.geom[g] = new /\ \A i \in DOMAIN l.geom : r.geom[i].isView = l.geom[i].isView
    BY <1>1, <2>3, <2>6, <2>8 DEF IsBase
  <2>12. r.geom[g].vertexArray = Len(l.store) /\ r.geom[g].first = p
    BY <2>2, <2>11
  <2> QED
    BY <1>0, <1>3, <2>4, <2>6, <2>8, <2>9, <2>10, <2>11, <2>12 DEF IsAppended
<1>4. CASE ~(l.geom[g].vertexArray < 0)
  <2>1. PICK store : store = [l.store EXCEPT ![ArrayOf(l, g)] = Append(@, p)]
    OBVIOUS
  <2>2. r = [l EXCEPT !.store = store]
    BY <1>0, <1>1, <1>4, <2>1 DEF Appended, ArrayOf
  <2>3. r = [geom |-> l.geom, store |-> store] /\ r.geom = l.geom /\ r.store = store
    BY <2>2, OfLayer
  <2>4. store \in Seq(Seq(AllPoints))
    <3>1. \A h \in DOMAIN l.store : Append(l.store[h], p) \in Seq(AllPoints)
      BY OfLayer, AppendProperties
    <3>2. DOMAIN store = DOMAIN l.store /\ \A h \in DOMAIN l.store : store[h] \in Seq(AllPoints)
      BY <2>1, <3>1, OfLayer
    <3>3. PICK n \in Nat : n = Len(l.store) /\ DOMAIN l.store = 1 .. n
      BY OfLayer
    <3>4. store \in [1 .. n -> Seq(AllPoints)]
      BY <2>1, <3>2, <3>3
    <3> QED
      BY <3>3, <3>4
  <2>5. r \in Layers
    BY <2>3, <2>4, OfLayer DEF Layers
  <2> QED
    BY <1>0, <1>4, <2>1, <2>3, <2>5 DEF IsAppended
<1> QED
  BY <1>3, <1>4

\* No two geometries share an array, and the array of a geometry is there.
HandlesFit(l) ==
  \A g \in DOMAIN l.geom : ~l.geom[g].isView =>
    /\ l.geom[g].vertexArray < Len(l.store)
    /\ \A i \in DOMAIN l.geom \ {g} :
         ~l.geom[i].isView /\ l.geom[i].vertexArray = l.geom[g].vertexArray
           => l.geom[g].vertexArray < 0

\* Then a geometry that is appended to gets the point, and no other one changes.
LEMMA AppendedIsOwn ==
  ASSUME NEW l \in Layers, HandlesFit(l), NEW g, IsBase(l, g), NEW p \in AllPoints,
         NEW r, IsAppended(r, l, g, p)
  PROVE  /\ HandlesFit(r)
         /\ HeldIn(l, g) \in Seq(AllPoints) /\ HeldIn(r, g) = Append(HeldIn(l, g), p)
         /\ \A i : IsBase(l, i) /\ i # g => HeldIn(r, i) = HeldIn(l, i)
<1>1. /\ r \in Layers /\ DOMAIN r.geom = DOMAIN l.geom
      /\ \A i \in DOMAIN l.geom : r.geom[i].isView = l.geom[i].isView
      /\ \A i \in DOMAIN l.geom : i # g => r.geom[i] = l.geom[i]
  BY OfLayer DEF IsAppended
<1>2. PICK n \in Nat : n = Len(l.store)
  BY OfLayer
<1>3. \A i \in DOMAIN l.geom : ~l.geom[i].isView => l.geom[i].vertexArray \in Int /\ l.geom[i].first \in AllPoints
  BY OfLayer, OfRecord
<1>4. CASE l.geom[g].vertexArray < 0
  <2>1. r.geom[g].vertexArray = n /\ r.geom[g].first = p /\ r.store = Append(l.store, <<>>)
    BY <1>2, <1>4 DEF IsAppended
  <2>2. Len(r.store) = n + 1 /\ r.store[n + 1] = <<>> /\ \A h \in 1 .. n : r.store[h] = l.store[h]
    BY <1>2, <2>1, OfLayer, AppendProperties
  <2>3. HandlesFit(r)
    <3>1. ASSUME NEW i \in DOMAIN l.geom, ~l.geom[i].isView, i # g
          PROVE  r.geom[i].vertexArray = l.geom[i].vertexArray /\ l.geom[i].vertexArray < n
      BY <1>1, <1>2, <3>1 DEF HandlesFit
    <3> SUFFICES ASSUME NEW i \in DOMAIN l.geom, ~l.geom[i].isView
                 PROVE  /\ r.geom[i].vertexArray < n + 1
                        /\ \A j \in DOMAIN l.geom \ {i} :
                             ~l.geom[j].isView /\ r.geom[j].vertexArray = r.geom[i].vertexArray
                               => r.geom[i].vertexArray < 0
      BY <1>1, <2>2 DEF HandlesFit
    <3>2. CASE i = g
      BY <1>3, <2>1, <3>1, <3>2
    <3>3. CASE i # g
      <4>1. r.geom[i].vertexArray = l.geom[i].vertexArray /\ l.geom[i].vertexArray \in Int
            /\ l.geom[i].vertexArray < n
        BY <1>3, <3>1, <3>3
      <4>2. ASSUME NEW j \in DOMAIN l.geom \ {i}, ~l.geom[j].isView,
                   r.geom[j].vertexArray = r.geom[i].vertexArray
            PROVE  l.geom[i].vertexArray < 0
        <5>1. j # g
          BY <2>1, <4>1, <4>2
        <5>2. l.geom[j].vertexArray = l.geom[i].vertexArray
          BY <3>1, <4>1, <4>2, <5>1
        <5> QED
          BY <4>2, <5>2 DEF HandlesFit
      <4> QED
        BY <4>1, <4>2
    <3> QED
      BY <3>2, <3>3
  <2>4. HeldIn(l, g) = <<>> /\ HeldIn(r, g) = <<p>>
    <3>1. ~(n < 0) /\ n < n + 1
      BY <1>2
    <3>2. HeldIn(r, g) = <<p>> \o <<>>
      BY <2>1, <2>2, <3>1 DEF HeldIn, ArrayOf
    <3>3. <<p>> \in Seq(AllPoints)
      OBVIOUS
    <3> QED
      BY <1>4, <3>2, <3>3, ConcatEmptySeq DEF HeldIn
  <2>5. ASSUME NEW i, IsBase(l, i), i # g
        PROVE  HeldIn(r, i) = HeldIn(l, i)
    <3>1. PICK v \in Int : v = l.geom[i].vertexArray /\ v < n
      BY <1>2, <1>3, <2>5 DEF IsBase, HandlesFit
    <3>2. r.geom[i] = l.geom[i]
      BY <1>1, <2>5 DEF IsBase
    <3>3. CASE v < 0
      BY <3>1, <3>2, <3>3 DEF HeldIn
    <3>4. CASE ~(v < 0)
      <4>1. v + 1 \in 1 .. n /\ v < n + 1
        BY <3>1, <3>4
      <4>2. r.store[v + 1] = l.store[v + 1]
        BY <2>2, <4>1
      <4> QED
        BY <1>2, <2>2, <3>1, <3>2, <3>4, <4>1, <4>2 DEF HeldIn, ArrayOf
    <3> QED
      BY <3>3, <3>4
  <2> QED
    BY <2>3, <2>4, <2>5
<1>5. CASE ~(l.geom[g].vertexArray < 0)
  <2>0. PICK v \in Int : v = l.geom[g].vertexArray /\ 0 <= v /\ v < n /\ v + 1 \in 1 .. n
    BY <1>2, <1>3, <1>5 DEF IsBase, HandlesFit
  <2>1. r.geom = l.geom /\ r.store = [l.store EXCEPT ![v + 1] = Append(@, p)]
    BY <1>5, <2>0 DEF ArrayOf, IsAppended
  <2>2. Len(r.store) = n /\ r.store[v + 1] = Append(l.store[v + 1], p)
        /\ \A h \in 1 .. n : h # v + 1 => r.store[h] = l.store[h]
    <3>1. DOMAIN r.store = DOMAIN l.store /\ DOMAIN l.store = 1 .. n /\ DOMAIN r.store = 1 .. Len(r.store)
          /\ Len(r.store) \in Nat
      BY <1>1, <1>2, <2>1, OfLayer
    <3>2. PICK m \in Nat : m = Len(r.store) /\ 1 .. m = 1 .. n
      BY <3>1
    <3>3. m = n
      BY <3>2
    <3> QED
      BY <2>0, <2>1, <3>1, <3>2, <3>3
  <2>3. HandlesFit(r)
    BY <1>2, <2>1, <2>2 DEF HandlesFit
  <2>4. HeldIn(l, g) \in Seq(AllPoints) /\ HeldIn(r, g) = Append(HeldIn(l, g), p)
    <3>1. PICK s \in Seq(AllPoints), f \in AllPoints : s = l.store[v + 1] /\ f = l.geom[g].first
      BY <1>2, <1>3, <2>0, OfLayer DEF IsBase
    <3>2. HeldIn(l, g) = <<f>> \o s
      BY <1>2, <1>5, <2>0, <3>1 DEF HeldIn, ArrayOf
    <3>3. HeldIn(r, g) = <<f>> \o Append(s, p)
      BY <1>2, <1>5, <2>0, <2>1, <2>2, <3>1 DEF HeldIn, ArrayOf
    <3>4. <<f>> \in Seq(AllPoints)
      BY <3>1
    <3>5. <<f>> \o s \in Seq(AllPoints) /\ <<f>> \o Append(s, p) = Append(<<f>> \o s, p)
      BY <3>4
    <3> QED
      BY <3>2, <3>3, <3>5
  <2>5. ASSUME NEW i, IsBase(l, i), i # g
        PROVE  HeldIn(r, i) = HeldIn(l, i)
    <3>1. PICK w \in Int : w = l.geom[i].vertexArray /\ w < n
      BY <1>2, <1>3, <2>5 DEF IsBase, HandlesFit
    <3>2. w # v
      BY <1>5, <2>0, <2>5, <3>1 DEF IsBase, HandlesFit
    <3>3. CASE w < 0
      BY <2>1, <3>1, <3>3 DEF HeldIn
    <3>4. CASE ~(w < 0)
      <4>1. w + 1 \in 1 .. n /\ w + 1 # v + 1
        BY <3>1, <3>2, <3>4
      <4>2. r.store[w + 1] = l.store[w + 1]
        BY <2>2, <4>1
      <4> QED
        BY <1>2, <2>1, <2>2, <3>1, <3>4, <4>2 DEF HeldIn, ArrayOf
    <3> QED
      BY <3>3, <3>4
  <2> QED
    BY <2>3, <2>4, <2>5
<1> QED
  BY <1>4, <1>5

\* A power of two is the number of the subsets of a set.
LEMMA PowersOfTwo ==
  ASSUME NEW m \in Nat, NEW n \in Nat, m <= n
  PROVE  2^m \in Nat /\ 2^n \in Nat /\ 2^m <= 2^n
<1>1. IsFiniteSet(1 .. m) /\ Cardinality(1 .. m) = m /\ IsFiniteSet(1 .. n) /\ Cardinality(1 .. n) = n
  BY FS_Interval
<1>2. IsFiniteSet(SUBSET (1 .. m)) /\ Cardinality(SUBSET (1 .. m)) = 2^m
      /\ IsFiniteSet(SUBSET (1 .. n)) /\ Cardinality(SUBSET (1 .. n)) = 2^n
  BY <1>1, FS_SUBSET, Zenon
<1>3. SUBSET (1 .. m) \in SUBSET (SUBSET (1 .. n))
  OBVIOUS
<1>4. Cardinality(SUBSET (1 .. m)) \in Nat /\ Cardinality(SUBSET (1 .. n)) \in Nat
      /\ Cardinality(SUBSET (1 .. m)) <= Cardinality(SUBSET (1 .. n))
  BY <1>2, <1>3, FS_CardinalityType, FS_Subset, Zenon
<1> QED
  BY <1>2, <1>4, Zenon

\* Half of the handles that there are.
Half == 2^(IndexBits - 1)

\* It is a number, and there are at least as many handles.
LEMMA Halves ==
  Half \in Nat /\ 2^IndexBits \in Nat /\ Half <= 2^IndexBits /\ 1 <= 2^IndexBits
<1>1. PICK m \in Nat, n \in Nat : m = IndexBits - 1 /\ n = IndexBits /\ m <= n
  BY BuffersAssumption DEF BuffersAssumption
<1>2. 2^m \in Nat /\ 2^n \in Nat /\ 2^m <= 2^n
  BY <1>1, PowersOfTwo
<1>3. 2^0 <= 2^n
  <2>1. 0 \in Nat /\ 0 <= n
    BY <1>1
  <2> QED
    BY <2>1, PowersOfTwo
<1> QED
  BY <1>1, <1>2, <1>3, 2^0 = 1 DEF Half

\* A capacity is kept as a negative handle, unless it wraps.
LEMMA DataFits ==
  ASSUME NEW c \in Nat
  PROVE  /\ Data(c) \in Records /\ ~Data(c).isView
         /\ c < Half /\ 1 < Half => Data(c).vertexArray < 0
<1>1. PICK m \in Nat : m = Max({1, c}) /\ m >= 1 /\ (m = 1 \/ m = c)
  <2>1. CASE c <= 1
    <3>1. Max({1, c}) = 1
      <4>1. {1, c} \in SUBSET Nat /\ 1 \in {1, c} /\ \A y \in {1, c} : y <= 1
        BY <2>1
      <4> QED
        BY <4>1, MaxIs
    <3> QED
      BY <3>1
  <2>2. CASE c > 1
    <3>1. Max({1, c}) = c
      <4>1. {1, c} \in SUBSET Nat /\ c \in {1, c} /\ \A y \in {1, c} : y <= c
        BY <2>2
      <4> QED
        BY <4>1, MaxIs
    <3> QED
      BY <2>2, <3>1
  <2> QED
    BY <2>1, <2>2
<1>2. PICK half \in Nat : half = Half
  BY Halves
<1>3. PICK v : v = IF m < half THEN -m ELSE 2 * half - m
  OBVIOUS
<1>4. v \in Int /\ (m < half => v < 0)
  BY <1>1, <1>3
<1>5. Data(c) = [isView |-> FALSE, vertexArray |-> v, first |-> Origin]
  BY <1>1, <1>2, <1>3 DEF Data, Handle, Half
<1>6. Data(c) \in Records /\ ~Data(c).isView /\ Data(c).vertexArray = v
  <2>1. Origin \in AllPoints
    BY DEF AllPoints
  <2>2. PICK d : d = [isView |-> FALSE, vertexArray |-> v, first |-> Origin]
    OBVIOUS
  <2>3. d \in [isView : {FALSE}, vertexArray : Int, first : AllPoints]
    BY <1>4, <2>1, <2>2
  <2>4. ~d.isView /\ d.vertexArray = v
    BY <2>2
  <2> QED
    BY <1>5, <2>2, <2>3, <2>4 DEF Records
<1>7. c < half /\ 1 < half => m < half
  BY <1>1
<1> QED
  BY <1>2, <1>4, <1>6, <1>7

\* The layer with a new geometry.
New(l, c) == [l EXCEPT !.geom = Append(@, Data(c))]

\* It changes no other one.
LEMMA NewIs ==
  ASSUME NEW l, LayerFits(l), NEW c \in Nat, NEW r, r = New(l, c)
  PROVE  /\ LayerFits(r) /\ r.store = l.store
         /\ r.geom = Append(l.geom, Data(c)) /\ Len(r.geom) = Len(l.geom) + 1
         /\ \A i \in DOMAIN l.geom : i \in DOMAIN r.geom /\ r.geom[i] = l.geom[i]
         /\ r.geom[Len(l.geom) + 1] = Data(c) /\ IsBase(r, Len(l.geom) + 1)
<1>1. l \in Layers /\ ViewsFit(l.geom)
  BY DEF LayerFits
<1>2. PICK n \in Nat : n = Len(l.geom) /\ DOMAIN l.geom = 1 .. n
  BY <1>1, OfLayer
<1>3. PICK d \in Records : d = Data(c) /\ ~d.isView
  BY DataFits
<1>4. PICK geom : geom = Append(l.geom, d)
  OBVIOUS
<1>5. geom \in Seq(Records) /\ Len(geom) = n + 1 /\ DOMAIN geom = 1 .. n + 1
      /\ geom[n + 1] = d /\ \A i \in 1 .. n : geom[i] = l.geom[i]
  BY <1>1, <1>2, <1>4, OfLayer, AppendProperties, LenProperties
<1>6. r = [geom |-> geom, store |-> l.store]
  <2>1. PICK a, b : l = [geom |-> a, store |-> b]
    BY <1>1, OfLayer
  <2> QED
    BY <1>3, <1>4, <2>1 DEF New
<1>7. r.geom = geom /\ r.store = l.store /\ r \in Layers
  <2>1. PICK store \in Seq(Seq(AllPoints)) : store = l.store
    BY <1>1, OfLayer
  <2>2. r = [geom |-> geom, store |-> store]
    BY <1>6, <2>1
  <2>3. r.geom = geom /\ r.store = l.store
    BY <2>1, <2>2
  <2>4. geom \in Seq(Records)
    BY <1>5
  <2>5. r \in [geom : Seq(Records), store : Seq(Seq(AllPoints))]
    BY <2>1, <2>2, <2>4
  <2> QED
    BY <2>3, <2>5 DEF Layers
<1>8. ViewsFit(geom)
  <2> SUFFICES ASSUME NEW i \in 1 .. n + 1, geom[i].isView
               PROVE  geom[i].base \in 1 .. (i - 1)
    BY <1>5 DEF ViewsFit
  <2>1. i \in 1 .. n
    BY <1>3, <1>5
  <2> QED
    BY <1>1, <1>2, <1>5, <2>1 DEF ViewsFit
<1>9. IsBase(r, n + 1)
  BY <1>3, <1>5, <1>7 DEF IsBase
<1> QED
  BY <1>2, <1>3, <1>4, <1>5, <1>7, <1>8, <1>9 DEF LayerFits

\* Appending makes no views.
LEMMA AppendedFits ==
  ASSUME NEW l, LayerFits(l), NEW g, IsBase(l, g), NEW p, NEW r, IsAppended(r, l, g, p)
  PROVE  LayerFits(r) /\ Len(r.geom) = Len(l.geom) /\ \A i : IsBase(l, i) => IsBase(r, i)
<1>1. l \in Layers /\ ViewsFit(l.geom)
  BY DEF LayerFits
<1>2. r \in Layers /\ Len(r.geom) = Len(l.geom)
      /\ \A i \in DOMAIN l.geom : r.geom[i].isView = l.geom[i].isView /\ (i # g => r.geom[i] = l.geom[i])
  BY DEF IsAppended
<1>3. DOMAIN r.geom = DOMAIN l.geom
  BY <1>1, <1>2, OfLayer
<1>4. ViewsFit(r.geom)
  BY <1>1, <1>2, <1>3 DEF ViewsFit, IsBase
<1>5. \A i : IsBase(l, i) => IsBase(r, i)
  BY <1>2, <1>3 DEF IsBase
<1> QED
  BY <1>2, <1>4, <1>5 DEF LayerFits

\* w are the layers while the geometry gets the points, one after the other.
IsBuilding(w, l, c, points, n) ==
  /\ w[0] = New(l, c) /\ w[n] = Built(l, c, points)
  /\ \A k \in 0 .. n : LayerFits(w[k]) /\ Len(w[k].geom) = Len(l.geom) + 1 /\ IsBase(w[k], Len(l.geom) + 1)
  /\ \A k \in 1 .. n : IsAppended(w[k], w[k - 1], Len(l.geom) + 1, points[k])

\* A geometry is built by appending one point after the other.
LEMMA BuiltIsWalk ==
  ASSUME NEW l, LayerFits(l), NEW c \in Nat, NEW points \in Seq(AllPoints),
         NEW n \in Nat, n = Len(points)
  PROVE  \E w : IsBuilding(w, l, c, points, n)
<1>a. PICK new, s : new = Len(l.geom) + 1 /\ s = New(l, c)
  OBVIOUS
<1> DEFINE D == {q \in Layers : LayerFits(q) /\ Len(q.geom) = new /\ IsBase(q, new)}
           Op(q, p) == Appended(q, new, p)
           R == [x \in D \X (1 .. n) |-> Op(x[1], points[x[2]])]
           Iter(it, p) == IF p = {} THEN s ELSE Op(it[p \ {Max(p)}], points[Max(p)])
           iter == CHOOSE it : it = [p \in SUBSET (1 .. n) |-> Iter(it, p)]
<1>1. DOMAIN points = 1 .. n /\ \A k \in 1 .. n : points[k] \in AllPoints
  BY LenProperties, ElementOfSeq
<1>2. s \in D
  BY <1>a, NewIs DEF LayerFits
<1>3. ASSUME NEW q \in D, NEW k \in 1 .. n
      PROVE  Op(q, points[k]) \in D /\ IsAppended(Op(q, points[k]), q, new, points[k])
  <2>1. PICK r : r = Op(q, points[k])
    OBVIOUS
  <2>2. IsAppended(r, q, new, points[k])
    BY <1>1, <2>1, AppendedIs
  <2>3. LayerFits(r) /\ Len(r.geom) = new /\ IsBase(r, new)
    BY <2>2, AppendedFits
  <2> QED
    BY <2>1, <2>2, <2>3 DEF LayerFits
<1> HIDE DEF D, Op
<1>4. R \in [D \X (1 .. n) -> D] /\ \A q \in D, k \in 1 .. n : R[<<q, k>>] = Op(q, points[k])
  BY <1>3
<1> HIDE DEF R
<1>5. StepsOn(R, n, D, s)
  BY <1>2, <1>4 DEF StepsOn
<1>6. ASSUME NEW p \in SUBSET (1 .. n), p # {}
      PROVE  Max(p) \in p /\ p \ {Max(p)} \in SUBSET (1 .. n)
  <2>1. \E i \in p : \A j \in p : j <= i
    BY <1>6, LastPosition
  <2> QED
    BY <2>1 DEF Max
<1>7. PICK it \in [SUBSET (1 .. n) -> D] : \A p \in SUBSET (1 .. n) : Stepped(it, p, R, s)
  BY <1>5, StepsExist
<1>8. ASSUME NEW p \in SUBSET (1 .. n)
      PROVE  it[p] = Iter(it, p)
  <2>1. CASE p = {}
    BY <1>7, <2>1 DEF Stepped
  <2>2. CASE p # {}
    <3>1. Max(p) \in 1 .. n /\ it[p \ {Max(p)}] \in D
      BY <1>6, <1>7, <2>2
    <3>2. R[<<it[p \ {Max(p)}], Max(p)>>] = Op(it[p \ {Max(p)}], points[Max(p)])
      BY <1>4, <3>1
    <3> QED
      BY <1>7, <2>2, <3>2 DEF Stepped
  <2> QED
    BY <2>1, <2>2
<1>9. it = [p \in SUBSET (1 .. n) |-> Iter(it, p)]
  <2> HIDE DEF Iter
  <2> QED
    BY <1>7, <1>8
<1>10. iter = [p \in SUBSET (1 .. n) |-> Iter(iter, p)]
  <2> HIDE DEF Iter
  <2> QED
    BY <1>9
<1>11. Built(l, c, points) = iter[1 .. n]
  BY <1>1, <1>a DEF Built, FoldLeft, MapThenFoldSet, Op, New
<1> HIDE DEF iter
<1>12. iter[{}] = s
  BY <1>10
<1>13. ASSUME NEW k \in 1 .. n
       PROVE  StepsTo(iter, k, R, D)
  <2> SUFFICES ASSUME iter[1 .. (k - 1)] \in D
               PROVE  iter[1 .. k] = R[<<iter[1 .. (k - 1)], k>>]
    BY DEF StepsTo
  <2>1. 1 .. k \in SUBSET (1 .. n) /\ k \in Nat \ {0}
    OBVIOUS
  <2>2. iter[1 .. k] = Iter(iter, 1 .. k)
    BY <1>10, <2>1
  <2>3. 1 .. k # {} /\ Max(1 .. k) = k /\ (1 .. k) \ {k} = 1 .. (k - 1)
    BY <2>1, Initial
  <2>4. iter[1 .. k] = Op(iter[1 .. (k - 1)], points[k])
    BY <2>2, <2>3
  <2> QED
    BY <1>4, <2>4
<1>14. PICK w : IsWalk(w, R, n, D, s) /\ w[n] = iter[1 .. n]
  BY <1>5, <1>12, <1>13, StepsInOrder
<1>15. \A k \in 0 .. n : w[k] \in D
  BY <1>14 DEF IsWalk
<1>16. ASSUME NEW k \in 1 .. n
       PROVE  IsAppended(w[k], w[k - 1], new, points[k])
  <2>1. k - 1 \in 0 .. n /\ w[k - 1] \in D
    BY <1>15
  <2>2. w[k] = R[<<w[k - 1], k>>]
    BY <1>14 DEF IsWalk
  <2> QED
    BY <1>3, <1>4, <2>1, <2>2
<1>17. \A k \in 0 .. n : LayerFits(w[k]) /\ Len(w[k].geom) = new /\ IsBase(w[k], new)
  BY <1>15 DEF D
<1>18. w[0] = s /\ w[n] = Built(l, c, points)
  BY <1>11, <1>14 DEF IsWalk
<1>19. IsBuilding(w, l, c, points, n)
  BY <1>a, <1>16, <1>17, <1>18 DEF IsBuilding
<1> QED
  BY <1>19

\* A geometry that is built changes no other one, whatever its capacity.
LEMMA BuiltFits ==
  ASSUME NEW l, LayerFits(l), NEW c \in Nat, NEW points \in Seq(AllPoints)
  PROVE  LayerFits(Built(l, c, points))
<1>1. PICK n \in Nat : n = Len(points)
  BY LenProperties
<1>2. PICK w : IsBuilding(w, l, c, points, n)
  BY <1>1, BuiltIsWalk
<1> QED
  BY <1>2 DEF IsBuilding

\* And if its handle does not wrap, it has an array of its own with the points.
IsBuilt(r, l, points) ==
  /\ LayerFits(r) /\ HandlesFit(r) /\ DOMAIN r.geom = DOMAIN l.geom \cup {Len(l.geom) + 1}
  /\ IsBase(r, Len(l.geom) + 1) /\ Len(HeldIn(r, Len(l.geom) + 1)) = Len(points)
  /\ \A i : IsBase(l, i) => IsBase(r, i) /\ HeldIn(r, i) = HeldIn(l, i)
  /\ \A i \in DOMAIN l.geom : r.geom[i].isView = l.geom[i].isView

\* A geometry that is built is built so.
LEMMA BuiltIsOwn ==
  ASSUME NEW l, LayerFits(l), HandlesFit(l), NEW c \in Nat, c < Half, 1 < Half,
         NEW points \in Seq(AllPoints)
  PROVE  IsBuilt(Built(l, c, points), l, points)
<1>1. PICK n \in Nat, new \in Nat : n = Len(points) /\ new = Len(l.geom) + 1
                                    /\ DOMAIN l.geom = 1 .. (new - 1)
  BY LenProperties, OfLayer DEF LayerFits
<1>2. PICK w : IsBuilding(w, l, c, points, n)
  BY <1>1, BuiltIsWalk
<1>3. \A k \in 0 .. n : LayerFits(w[k]) /\ Len(w[k].geom) = new /\ IsBase(w[k], new)
  BY <1>1, <1>2 DEF IsBuilding
<1>4. \A k \in 1 .. n : IsAppended(w[k], w[k - 1], new, points[k]) /\ points[k] \in AllPoints
  BY <1>1, <1>2, ElementOfSeq DEF IsBuilding
<1> DEFINE Fine(k) ==
             /\ HandlesFit(w[k]) /\ HeldIn(w[k], new) \in Seq(AllPoints)
             /\ Len(HeldIn(w[k], new)) = k
             /\ \A i : IsBase(l, i) => IsBase(w[k], i) /\ HeldIn(w[k], i) = HeldIn(l, i)
             /\ \A i \in DOMAIN l.geom : w[k].geom[i].isView = l.geom[i].isView
           S == {k \in Nat : k <= n => Fine(k)}
<1>5. 0 \in S
  <2>1. PICK d \in Records : d = Data(c) /\ ~d.isView /\ d.vertexArray < 0
    BY DataFits
  <2>2. PICK r : r = w[0] /\ r = New(l, c)
    BY <1>2 DEF IsBuilding
  <2>3. /\ r.store = l.store /\ Len(r.geom) = new /\ r.geom[new] = d
        /\ \A i \in DOMAIN l.geom : i \in DOMAIN r.geom /\ r.geom[i] = l.geom[i]
    <3>1. LET q == New(l, c)
          IN  /\ q.store = l.store /\ Len(q.geom) = Len(l.geom) + 1
              /\ \A i \in DOMAIN l.geom : i \in DOMAIN q.geom /\ q.geom[i] = l.geom[i]
              /\ q.geom[Len(l.geom) + 1] = Data(c)
      BY NewIs
    <3> QED
      BY <1>1, <2>1, <2>2, <3>1
  <2>4. r \in Layers /\ DOMAIN r.geom = 1 .. new
    <3>1. 0 \in 0 .. n
      BY <1>1
    <3>2. r \in Layers
      BY <1>3, <2>2, <3>1 DEF LayerFits
    <3> QED
      BY <2>3, <3>2, OfLayer
  <2>5. Len(l.store) \in Nat /\ \A i \in DOMAIN l.geom : ~l.geom[i].isView => l.geom[i].vertexArray \in Int
    BY OfLayer, OfRecord DEF LayerFits
  <2>6. d.vertexArray \in Int
    BY <2>1, OfRecord
  <2>7. HandlesFit(r)
    <3> SUFFICES ASSUME NEW i \in 1 .. new, ~r.geom[i].isView
                 PROVE  /\ r.geom[i].vertexArray < Len(l.store)
                        /\ \A j \in (1 .. new) \ {i} :
                             ~r.geom[j].isView /\ r.geom[j].vertexArray = r.geom[i].vertexArray
                               => r.geom[i].vertexArray < 0
      BY <2>3, <2>4 DEF HandlesFit
    <3>1. CASE i = new
      BY <2>1, <2>3, <2>5, <2>6, <3>1
    <3>2. CASE i # new
      <4>0. i \in DOMAIN l.geom
        BY <1>1, <3>2
      <4>1. i \in DOMAIN l.geom /\ r.geom[i] = l.geom[i] /\ ~l.geom[i].isView
        BY <2>3, <4>0
      <4>2. ASSUME NEW j \in (1 .. new) \ {i}, ~r.geom[j].isView,
                   r.geom[j].vertexArray = r.geom[i].vertexArray
            PROVE  r.geom[i].vertexArray < 0
        <5>1. CASE j = new
          BY <2>1, <2>3, <4>2, <5>1
        <5>2. CASE j # new
          <6>1. j \in DOMAIN l.geom \ {i} /\ r.geom[j] = l.geom[j]
            BY <1>1, <2>3, <5>2
          <6> QED
            BY <4>1, <4>2, <6>1 DEF HandlesFit
        <5> QED
          BY <5>1, <5>2
      <4>3. r.geom[i].vertexArray < Len(l.store)
        BY <4>1 DEF HandlesFit
      <4> QED
        BY <4>2, <4>3
    <3> QED
      BY <3>1, <3>2
  <2>8. HeldIn(r, new) = <<>>
    BY <2>1, <2>3 DEF HeldIn
  <2>9. \A i : IsBase(l, i) => IsBase(r, i) /\ HeldIn(r, i) = HeldIn(l, i)
    BY <2>3 DEF IsBase, HeldIn, ArrayOf
  <2>10. Fine(0)
    <3>1. <<>> \in Seq(AllPoints) /\ Len(<<>>) = 0
      OBVIOUS
    <3> QED
      BY <2>2, <2>3, <2>7, <2>8, <2>9, <3>1
  <2> HIDE DEF Fine
  <2> QED
    BY <2>10
<1>6. ASSUME NEW k \in S
      PROVE  k + 1 \in S
  <2> SUFFICES ASSUME k + 1 <= n
               PROVE  Fine(k + 1)
    <3> HIDE DEF Fine
    <3> QED
      OBVIOUS
  <2>1. k \in 0 .. n /\ k + 1 \in 1 .. n /\ (k + 1) - 1 = k
    BY <1>1
  <2>2. Fine(k)
    <3> HIDE DEF Fine
    <3> QED
      BY <2>1
  <2>a. PICK q, r : q = w[k] /\ r = w[k + 1]
    OBVIOUS
  <2>3. PICK p \in AllPoints : p = points[k + 1] /\ q = w[k] /\ r = w[k + 1]
    BY <1>4, <2>a, <2>1
  <2>4. IsAppended(r, q, new, p) /\ LayerFits(q) /\ IsBase(q, new)
    BY <1>3, <1>4, <2>1, <2>3
  <2>5. q \in Layers
    BY <2>4 DEF LayerFits
  <2>6. /\ HandlesFit(q) /\ HeldIn(q, new) \in Seq(AllPoints) /\ Len(HeldIn(q, new)) = k
        /\ \A i : IsBase(l, i) => IsBase(q, i) /\ HeldIn(q, i) = HeldIn(l, i)
        /\ \A i \in DOMAIN l.geom : q.geom[i].isView = l.geom[i].isView
    BY <2>2, <2>3
  <2>7. HandlesFit(r) /\ HeldIn(r, new) = Append(HeldIn(q, new), p)
        /\ \A i : IsBase(q, i) /\ i # new => HeldIn(r, i) = HeldIn(q, i)
    BY <2>4, <2>5, <2>6, AppendedIsOwn
  <2>8. \A i : IsBase(q, i) => IsBase(r, i)
    BY <2>4, AppendedFits
  <2>9. \A i : IsBase(l, i) => i # new
    BY <1>1 DEF IsBase
  <2>10. HeldIn(r, new) \in Seq(AllPoints) /\ Len(HeldIn(r, new)) = k + 1
    <3>1. PICK s \in Seq(AllPoints) : s = HeldIn(q, new) /\ Len(s) = k
      BY <2>6
    <3>2. Append(s, p) \in Seq(AllPoints) /\ Len(Append(s, p)) = k + 1
      BY <3>1, AppendProperties
    <3> QED
      BY <2>7, <3>1, <3>2
  <2>11. \A i : IsBase(l, i) => IsBase(r, i) /\ HeldIn(r, i) = HeldIn(l, i)
    BY <2>6, <2>7, <2>8, <2>9
  <2>12. \A i \in DOMAIN l.geom : r.geom[i].isView = l.geom[i].isView
    <3>1. PICK m \in Nat : m = Len(q.geom) /\ DOMAIN q.geom = 1 .. m /\ m = new
      BY <1>3, <2>1, <2>3, <2>5, OfLayer
    <3>2. \A i \in DOMAIN l.geom : i \in DOMAIN q.geom
      BY <1>1, <3>1
    <3>3. \A i \in DOMAIN q.geom : r.geom[i].isView = q.geom[i].isView
      BY <2>4 DEF IsAppended
    <3>4. \A i \in DOMAIN l.geom : q.geom[i].isView = l.geom[i].isView
      BY <2>6
    <3>5. ASSUME NEW i \in DOMAIN l.geom
          PROVE  r.geom[i].isView = l.geom[i].isView
      <4>1. r.geom[i].isView = q.geom[i].isView
        BY <3>2, <3>3
      <4> QED
        BY <3>4, <4>1
    <3> QED
      BY <3>5
  <2> QED
    BY <2>3, <2>7, <2>10, <2>11, <2>12
<1>7. Fine(n)
  <2> HIDE DEF Fine
  <2>1. S = Nat
    BY <1>5, <1>6, Inductive
  <2>2. n \in S
    BY <2>1
  <2> QED
    BY <2>2
<1>8. PICK r : r = Built(l, c, points) /\ r = w[n]
  BY <1>2 DEF IsBuilding
<1>9. LayerFits(r) /\ Len(r.geom) = new /\ IsBase(r, new)
  BY <1>3, <1>8
<1>10. DOMAIN r.geom = DOMAIN l.geom \cup {new}
  <2>1. DOMAIN r.geom = 1 .. new
    BY <1>9, OfLayer DEF LayerFits
  <2> QED
    BY <1>1, <2>1
<1>11. IsBuilt(r, l, points)
  BY <1>1, <1>7, <1>8, <1>9, <1>10 DEF IsBuilt
<1> QED
  BY <1>8, <1>11

(***************************************************************************)
(* The steps                                                               *)
(***************************************************************************)
\* The state of the layer as a record, and what is read of it.
LEMMA OfState ==
  /\ Layer.geom = geom_ /\ Layer.store = storage
  /\ \A g : (g \in Bases <=> IsBase(Layer, g)) /\ Held(g) = HeldIn(Layer, g)
BY DEF Layer, Bases, IsBase, Held, HeldIn, ArrayOf

\* The points that are read of a geometry are points of the layer.
LEMMA PointsFit ==
  ASSUME BuffersInv, NEW g \in DOMAIN geom_, ~OutOfBounds(g)
  PROVE  /\ PointsOf(g) \in Seq(AllPoints)
         /\ \E root \in Bases : Len(PointsOf(g)) <= Len(Held(root))
<1>1. PICK root \in Bases, o \in Nat : AllResolved[g].root = root /\ AllResolved[g].offset = o
  BY ResolvedFits
<1>2. PICK s \in Seq(AllPoints), l \in Nat : s = Held(root) /\ l = Len(s)
  BY HeldIsSeq, LenProperties
<1>3. CASE geom_[g].isView
  <2>1. PICK n \in Nat : n = geom_[g].size
    <3>1. geom_[g] \in Records
      BY ElementOfSeq DEF BuffersInv, LayerFits, Layers, Layer
    <3> QED
      BY <1>3, <3>1, OfRecord
  <2>2. PointsOf(g) = SubSeq(s, o + 1, o + n) /\ ~(o + n > l)
    BY <1>1, <1>2, <1>3, <2>1 DEF PointsOf, OutOfBounds
  <2>3. o + n <= l
    BY <2>2
  <2>4. PointsOf(g) \in Seq(AllPoints) /\ Len(PointsOf(g)) = n
    BY <1>2, <2>2, <2>3, PartIs
  <2>5. n <= l
    BY <2>3
  <2> QED
    BY <1>2, <2>4, <2>5
<1>4. CASE ~geom_[g].isView
  <2>1. PointsOf(g) = Held(g) /\ g \in Bases
    BY <1>4 DEF PointsOf, Bases
  <2>2. Held(g) \in Seq(AllPoints)
    BY <2>1, HeldIsSeq
  <2>3. Len(Held(g)) <= Len(Held(g))
    BY <2>2, LenProperties
  <2> QED
    BY <2>1, <2>2, <2>3
<1> QED
  BY <1>3, <1>4

\* The outlines are sequences of points.
LEMMA OutlinesFit ==
  ASSUME NEW l \in Outlines
  PROVE  l \in Seq(AllPoints)
<1>1. l \in Seq(ToSet(l)) /\ ToSet(l) \in SUBSET AllPoints
  BY BuffersAssumption DEF BuffersAssumption, AllPoints
<1>2. PICK T \in SUBSET AllPoints : l \in Seq(T)
  BY <1>1
<1> QED
  BY <1>2

\* Handles name arrays as long as capacities and lengths are less than half of them,
\* and addLine() and the like are not called without a point.
HandlesSuffice ==
  /\ 1 < Half /\ MaxPoints < Half
  /\ \A c \in Capacities : c < Half
  /\ \A l \in Outlines : l # <<>> /\ Len(l) < Half

\* No geometry has more points than that.
LengthsFit == \A g \in Bases : Len(Held(g)) < Half

OwnInv == BuffersInv /\ HandlesFit(Layer) /\ LengthsFit

\* The step builds a geometry; it appends a point; it makes a view.
BuildsOne ==
  \E c \in Nat, points \in Seq(AllPoints) :
    /\ Layer' = Built(Layer, c, points)
    /\ HandlesSuffice /\ LengthsFit => c < Half /\ Len(points) < Half

AppendsOne ==
  \E g \in Bases, p \in Points :
    Len(Held(g)) < MaxPoints /\ IsAppended(Layer', Layer, g, p)

ShowsOne ==
  \E base \in DOMAIN geom_, o \in Nat, n \in Nat :
    geom_' = Append(geom_, View(base, o, n)) /\ storage' = storage

\* Every step of the layer is one of these.
LEMMA StepIs ==
  ASSUME BuffersInv, BuffersNext
  PROVE  BuildsOne \/ AppendsOne \/ ShowsOne
<1>0. PICK l : l = Layer /\ LayerFits(l) /\ l \in Layers
  BY DEF BuffersInv, LayerFits
<1>1. ASSUME NEW c \in Capacities, NewGeometry(c)
      PROVE  BuildsOne
  <2>1. c \in Nat
    BY Halves, BuffersAssumption DEF BuffersAssumption
  <2>2. <<>> \in Seq(AllPoints) /\ Len(<<>>) = 0
    OBVIOUS
  <2>3. PICK r : r = New(l, c)
    OBVIOUS
  <2>4. r = Built(l, c, <<>>)
    <3>1. PICK w : IsBuilding(w, l, c, <<>>, 0)
      BY <1>0, <2>1, <2>2, BuiltIsWalk
    <3> QED
      BY <2>3, <3>1 DEF IsBuilding
  <2>5. r = [geom |-> Append(geom_, Data(c)), store |-> storage]
    BY <1>0, <2>3 DEF Layer, New
  <2>6. Layer' = r
    BY <1>1, <2>5 DEF NewGeometry, Layer
  <2>7. HandlesSuffice => c < Half /\ Len(<<>>) < Half
    BY <2>2, Halves DEF HandlesSuffice
  <2> QED
    BY <1>0, <2>1, <2>2, <2>4, <2>6, <2>7 DEF BuildsOne
<1>2. ASSUME NEW q, LayerFits(q), Become(q)
      PROVE  Layer' = q
  <2>1. q = [geom |-> q.geom, store |-> q.store]
    BY <1>2, OfLayer DEF LayerFits
  <2> QED
    BY <1>2, <2>1 DEF Become, Layer
<1>3. ASSUME NEW points \in Outlines, AddLine(points)
      PROVE  BuildsOne
  <2>1. points \in Seq(AllPoints)
    BY OutlinesFit
  <2>2. PICK n \in Nat : n = Len(points)
    BY <2>1, LenProperties
  <2>3. PICK all \in Nat, half \in Nat : all = 2^IndexBits /\ half = Half /\ half <= all /\ 1 <= all
    BY Halves
  <2>4. PICK c : c = (n - 1) % all
    OBVIOUS
  <2>5. c \in Nat
    BY <2>3, <2>4
  <2>6. Layer' = Built(Layer, c, points)
    <3>1. Become(Built(l, c, points))
      BY <1>0, <1>3, <2>2, <2>3, <2>4 DEF AddLine
    <3>2. LayerFits(Built(l, c, points))
      BY <1>0, <2>1, <2>5, BuiltFits
    <3> QED
      BY <1>0, <1>2, <3>1, <3>2
  <2>7. ASSUME HandlesSuffice
        PROVE  c < half /\ n < half
    <3>1. n # 0 /\ n < half
      BY <2>1, <2>2, <2>3, <2>7, EmptySeq DEF HandlesSuffice
    <3>2. n - 1 \in 0 .. all - 1
      BY <2>3, <3>1
    <3>3. c = n - 1
      BY <2>3, <2>4, <3>2
    <3> QED
      BY <3>1, <3>3
  <2> QED
    BY <2>1, <2>2, <2>3, <2>5, <2>6, <2>7 DEF BuildsOne
<1>4. ASSUME NEW g \in DOMAIN geom_, NEW p \in Points, AppendPoint(g, p)
      PROVE  AppendsOne
  <2>1. g \in Bases /\ IsBase(l, g) /\ p \in AllPoints /\ Len(Held(g)) < MaxPoints
    BY <1>0, <1>4, OfState DEF AppendPoint, Bases, AllPoints
  <2>2. PICK r : r = Appended(l, g, p)
    OBVIOUS
  <2>3. IsAppended(r, l, g, p) /\ LayerFits(r)
    BY <1>0, <2>1, <2>2, AppendedIs, AppendedFits
  <2>4. Layer' = r
    BY <1>0, <1>2, <1>4, <2>2, <2>3 DEF AppendPoint
  <2> QED
    BY <1>0, <2>1, <2>3, <2>4 DEF AppendsOne
<1>5. ASSUME NEW g \in DOMAIN geom_, NEW s \in Spans, NewGeometryView(s, g)
      PROVE  ShowsOne
  <2>1. s[1] \in Nat /\ s[2] \in Nat
    BY BuffersAssumption DEF BuffersAssumption
  <2> QED
    BY <1>5, <2>1 DEF NewGeometryView, ShowsOne
<1>6. ASSUME NEW g \in DOMAIN geom_, CloneGeometry(g)
      PROVE  BuildsOne
  <2>0. ~OutOfBounds(g)
    BY <1>6 DEF CloneGeometry
  <2>1. PICK points \in Seq(AllPoints), root \in Bases :
           points = PointsOf(g) /\ Len(points) <= Len(Held(root))
    BY <2>0, PointsFit
  <2>2. PICK n \in Nat, m \in Nat : n = Len(points) /\ m = Len(Held(root)) /\ n <= m
    BY <2>1, HeldIsSeq, LenProperties
  <2>3. Become(Built(l, n, points))
    BY <1>0, <1>6, <2>1, <2>2 DEF CloneGeometry
  <2>4. Layer' = Built(Layer, n, points)
    BY <1>0, <1>2, <2>3, BuiltFits
  <2>5. LengthsFit => n < Half
    <3>1. LengthsFit => m < Half
      BY <2>1, <2>2 DEF LengthsFit
    <3> QED
      BY <2>2, <3>1, Halves
  <2> QED
    BY <2>2, <2>4, <2>5 DEF BuildsOne
<1> QED
  BY <1>1, <1>3, <1>4, <1>5, <1>6 DEF BuffersNext

\* A view is made of a geometry that is there, and shares no array.
LEMMA ShowsOneFits ==
  ASSUME BuffersInv, ShowsOne
  PROVE  /\ BuffersInv' /\ Bases' = Bases /\ \A g \in Bases : Held(g)' = Held(g)
         /\ HandlesFit(Layer) => HandlesFit(Layer)'
<1>0. PICK base \in DOMAIN geom_, o \in Nat, m \in Nat :
         geom_' = Append(geom_, View(base, o, m)) /\ storage' = storage
  BY DEF ShowsOne
<1>1. geom_ \in Seq(Records) /\ storage \in Seq(Seq(AllPoints)) /\ ViewsFit(geom_)
  BY DEF BuffersInv, LayerFits, Layers, Layer
<1>2. PICK n \in Nat : n = Len(geom_) /\ DOMAIN geom_ = 1 .. n
  BY <1>1, LenProperties
<1>3. PICK d : d = View(base, o, m)
  OBVIOUS
<1>4. d \in Records /\ d.isView /\ d.base = base
  <2>1. base \in Nat
    BY <1>2
  <2>2. d = [isView |-> TRUE, base |-> base, offset |-> o, size |-> m]
    BY <1>3 DEF View
  <2>3. d \in [isView : {TRUE}, base : Nat, offset : Nat, size : Nat]
    BY <2>1, <2>2
  <2> QED
    BY <2>2, <2>3 DEF Records
<1>5. geom_' \in Seq(Records) /\ DOMAIN geom_' = 1 .. n + 1 /\ geom_'[n + 1] = d
      /\ \A i \in 1 .. n : geom_'[i] = geom_[i]
  <2>1. Append(geom_, d) \in Seq(Records) /\ Len(Append(geom_, d)) = n + 1
        /\ Append(geom_, d)[n + 1] = d /\ \A i \in 1 .. n : Append(geom_, d)[i] = geom_[i]
    BY <1>1, <1>2, <1>4, AppendProperties
  <2>2. DOMAIN Append(geom_, d) = 1 .. n + 1
    BY <2>1, LenProperties
  <2> QED
    BY <1>0, <1>3, <2>1, <2>2
<1>6. ViewsFit(geom_')
  <2> SUFFICES ASSUME NEW i \in 1 .. n + 1, geom_'[i].isView
               PROVE  geom_'[i].base \in 1 .. (i - 1)
    BY <1>5 DEF ViewsFit
  <2>1. CASE i = n + 1
    BY <1>2, <1>4, <1>5, <2>1
  <2>2. CASE i # n + 1
    <3>1. i \in 1 .. n
      BY <2>2
    <3> QED
      BY <1>1, <1>2, <1>5, <3>1 DEF ViewsFit
  <2> QED
    BY <2>1, <2>2
<1>7. BuffersInv'
  BY <1>0, <1>1, <1>5, <1>6 DEF BuffersInv, LayerFits, Layers, Layer
<1>8. ASSUME NEW i
      PROVE  i \in Bases' <=> i \in Bases
  BY <1>2, <1>4, <1>5 DEF Bases
<1>9. ASSUME NEW i \in Bases
      PROVE  geom_'[i] = geom_[i]
  BY <1>2, <1>5 DEF Bases
<1>10. \A i \in Bases : Held(i)' = Held(i)
  BY <1>0, <1>9 DEF Held
<1>11. HandlesFit(Layer) => HandlesFit(Layer)'
  <2>1. ASSUME NEW i
        PROVE  i \in DOMAIN geom_' /\ ~geom_'[i].isView <=> i \in DOMAIN geom_ /\ ~geom_[i].isView
    BY <1>8 DEF Bases
  <2>2. ASSUME NEW i \in DOMAIN geom_
        PROVE  geom_'[i] = geom_[i]
    BY <1>2, <1>5
  <2> QED
    BY <1>0, <2>1, <2>2 DEF HandlesFit, Layer
<1>12. Bases' = Bases
  BY <1>8
<1> QED
  BY <1>7, <1>10, <1>11, <1>12

\* Every step keeps the geometries and arrays in their shape.
LEMMA BuffersInvNext ==
  ASSUME BuffersInv, [BuffersNext]_buffers
  PROVE  BuffersInv'
<1>1. CASE UNCHANGED buffers
  BY <1>1 DEF BuffersInv, Layer, LayerFits, buffers
<1>2. CASE BuildsOne
  <2>1. PICK c \in Nat, points \in Seq(AllPoints) : Layer' = Built(Layer, c, points)
    BY <1>2 DEF BuildsOne
  <2> QED
    BY <2>1, BuiltFits DEF BuffersInv
<1>3. CASE AppendsOne
  <2>1. PICK g \in Bases, p \in Points : IsAppended(Layer', Layer, g, p)
    BY <1>3 DEF AppendsOne
  <2>2. IsBase(Layer, g)
    BY OfState
  <2> QED
    BY <2>1, <2>2, AppendedFits DEF BuffersInv
<1>4. CASE ShowsOne
  BY <1>4, ShowsOneFits
<1> QED
  BY <1>1, <1>2, <1>3, <1>4, StepIs

\* A layer without geometries is in shape.
LEMMA BuffersInvInit ==
  ASSUME BuffersInit
  PROVE  BuffersInv /\ HandlesFit(Layer) /\ LengthsFit
<1>1. Layer = [geom |-> <<>>, store |-> <<>>] /\ geom_ = <<>>
  BY DEF BuffersInit, Layer
<1>2. <<>> \in Seq(Records) /\ <<>> \in Seq(Seq(AllPoints)) /\ DOMAIN <<>> = {}
  OBVIOUS
<1>3. BuffersInv
  BY <1>1, <1>2 DEF BuffersInv, LayerFits, Layers, ViewsFit
<1> QED
  BY <1>1, <1>2, <1>3 DEF HandlesFit, LengthsFit, Bases

(***************************************************************************)
(* A view of a view shows what its base shows: the bases of views are older *)
(* geometries, so the sum of the offsets is defined, and a part within the *)
(* bounds of a part is one of the whole.                                   *)
(***************************************************************************)
THEOREM ViewsShowTheirBases ==
  BuffersSpec => []ViewsShowTheirBase
<1>1. BuffersInit => BuffersInv
  BY BuffersInvInit
<1>2. BuffersInv /\ [BuffersNext]_buffers => BuffersInv'
  BY BuffersInvNext
<1>3. BuffersInv => ViewsShowTheirBase
  BY ViewsShow
<1> QED
  BY <1>1, <1>2, <1>3, PTL DEF BuffersSpec

\* What a step changes of what the geometries hold, as in AppendsAreOwn.
OnlyOneChanges ==
  /\ \A g \in Bases : Held(g)' = Held(g) \/ \E p \in Points : Held(g)' = Append(Held(g), p)
  /\ Cardinality({g \in Bases : Held(g)' # Held(g)}) <= 1

\* Every step keeps the arrays apart, and thereby changes what one geometry holds at most.
LEMMA OwnInvNext ==
  ASSUME HandlesSuffice, OwnInv, BuffersNext
  PROVE  OwnInv' /\ OnlyOneChanges
<1>0. BuffersInv /\ BuffersInv' /\ HandlesFit(Layer) /\ LengthsFit
  BY BuffersInvNext DEF OwnInv
<1>a. PICK half \in Nat : half = Half
  BY Halves
<1>b. ASSUME NEW g, g \in Bases, \A i \in Bases : i # g => Held(i)' = Held(i)
      PROVE  Cardinality({i \in Bases : Held(i)' # Held(i)}) <= 1
  <2>1. {i \in Bases : Held(i)' # Held(i)} \in SUBSET {g}
    BY <1>b
  <2>2. IsFiniteSet({g}) /\ Cardinality({g}) = 1
    BY FS_Singleton
  <2>3. Cardinality({i \in Bases : Held(i)' # Held(i)}) <= Cardinality({g})
    BY <2>1, <2>2, FS_Subset
  <2> QED
    BY <2>2, <2>3
<1>c. ASSUME \A i \in Bases : Held(i)' = Held(i)
      PROVE  OnlyOneChanges
  <2>1. {i \in Bases : Held(i)' # Held(i)} = {}
    BY <1>c
  <2>2. Cardinality({i \in Bases : Held(i)' # Held(i)}) = 0
    BY <2>1, FS_EmptySet
  <2> QED
    BY <1>c, <2>2 DEF OnlyOneChanges
<1>d. PICK l, r : l = Layer /\ r = Layer' /\ LayerFits(l) /\ LayerFits(r) /\ l \in Layers /\ r \in Layers
  BY <1>0 DEF BuffersInv, LayerFits
<1>e. \A g : (g \in Bases <=> IsBase(l, g)) /\ Held(g) = HeldIn(l, g)
  BY <1>d, OfState
<1>f. \A g : (g \in Bases' <=> IsBase(r, g)) /\ Held(g)' = HeldIn(r, g)
  BY <1>d DEF Layer, Bases, IsBase, Held, HeldIn, ArrayOf
<1>1. CASE BuildsOne
  <2>1. PICK c \in Nat, points \in Seq(AllPoints) :
           r = Built(l, c, points) /\ c < half /\ Len(points) < half
    BY <1>0, <1>1, <1>a, <1>d DEF BuildsOne
  <2>2. 1 < half
    BY <1>a DEF HandlesSuffice
  <2>3. IsBuilt(r, l, points)
    BY <1>0, <1>a, <1>d, <2>1, <2>2, BuiltIsOwn
  <2>4. \A g \in Bases : g \in Bases' /\ Held(g)' = Held(g)
    BY <1>e, <1>f, <2>3 DEF IsBuilt
  <2>5. ASSUME NEW g \in Bases'
        PROVE  Len(Held(g)') < Half
    <3>1. CASE g \in DOMAIN l.geom
      <4>1. g \in Bases
        <5>1. IsBase(r, g)
          BY <1>f, <2>5
        <5> QED
          BY <1>e, <2>3, <3>1, <5>1 DEF IsBuilt, IsBase
      <4> QED
        BY <1>0, <2>4, <4>1 DEF LengthsFit
    <3>2. CASE g \notin DOMAIN l.geom
      <4>1. g = Len(l.geom) + 1
        BY <1>f, <2>3, <2>5, <3>2 DEF IsBuilt, IsBase
      <4> QED
        BY <1>a, <1>f, <2>1, <2>3, <4>1 DEF IsBuilt
    <3> QED
      BY <3>1, <3>2
  <2> QED
    BY <1>0, <1>c, <1>d, <2>3, <2>4, <2>5 DEF IsBuilt, OwnInv, LengthsFit
<1>2. CASE AppendsOne
  <2>1. PICK g \in Bases, p \in Points : Len(Held(g)) < MaxPoints /\ IsAppended(r, l, g, p)
    BY <1>2, <1>d DEF AppendsOne
  <2>2. p \in AllPoints /\ IsBase(l, g)
    BY <1>e DEF AllPoints
  <2>3. /\ HandlesFit(r) /\ HeldIn(l, g) \in Seq(AllPoints) /\ HeldIn(r, g) = Append(HeldIn(l, g), p)
        /\ \A i : IsBase(l, i) /\ i # g => HeldIn(r, i) = HeldIn(l, i)
    BY <1>0, <1>d, <2>1, <2>2, AppendedIsOwn
  <2>4. \A i : IsBase(r, i) <=> IsBase(l, i)
    <3>1. DOMAIN r.geom = DOMAIN l.geom
      BY <1>d, <2>1, OfLayer DEF IsAppended
    <3> QED
      BY <2>1, <3>1 DEF IsAppended, IsBase
  <2>5. Bases' = Bases
    BY <1>e, <1>f, <2>4
  <2>6. Held(g)' = Append(Held(g), p) /\ \A i \in Bases : i # g => Held(i)' = Held(i)
    BY <1>e, <1>f, <2>3
  <2>7. Len(Held(g)') < Half
    <3>1. PICK n \in Nat : n = Len(Held(g)) /\ Len(Held(g)') = n + 1
      BY <1>e, <2>2, <2>3, <2>6, AppendProperties, LenProperties
    <3>2. MaxPoints \in Nat /\ MaxPoints < half /\ n < MaxPoints
      BY <1>a, <2>1, <3>1, BuffersAssumption DEF BuffersAssumption, HandlesSuffice
    <3> QED
      BY <1>a, <3>1, <3>2
  <2>8. \A i \in Bases' : Len(Held(i)') < Half
    BY <1>0, <2>5, <2>6, <2>7 DEF LengthsFit
  <2>9. Cardinality({i \in Bases : Held(i)' # Held(i)}) <= 1
    BY <1>b, <2>6
  <2> QED
    BY <1>0, <1>d, <2>3, <2>6, <2>8, <2>9 DEF OwnInv, LengthsFit, OnlyOneChanges
<1>3. CASE ShowsOne
  <2>1. HandlesFit(Layer)' /\ Bases' = Bases /\ \A g \in Bases : Held(g)' = Held(g)
    BY <1>0, <1>3, ShowsOneFits
  <2>2. \A g \in Bases' : Len(Held(g)') < Half
    BY <1>0, <2>1 DEF LengthsFit
  <2> QED
    BY <1>0, <1>c, <2>1, <2>2 DEF OwnInv, LengthsFit
<1> QED
  BY <1>0, <1>1, <1>2, <1>3, StepIs

(***************************************************************************)
(* append() never writes to the array of another geometry. A handle is the *)
(* capacity until there is an array; where handles are wide enough for it  *)
(* not to wrap, no two geometries have the same array.                     *)
(***************************************************************************)
THEOREM AppendsKeepToTheirArray ==
  ASSUME HandlesSuffice
  PROVE  BuffersSpec => AppendsAreOwn
<1>1. BuffersInit => OwnInv
  BY BuffersInvInit DEF OwnInv
<1>2. OwnInv /\ [BuffersNext]_buffers => OwnInv'
  <2>1. CASE BuffersNext
    BY <2>1, OwnInvNext
  <2>2. CASE UNCHANGED buffers
    BY <2>2 DEF OwnInv, BuffersInv, LengthsFit, HandlesFit, LayerFits, Layer, Bases, Held, buffers
  <2> QED
    BY <2>1, <2>2
<1>3. OwnInv /\ [BuffersNext]_buffers => [OnlyOneChanges]_buffers
  BY OwnInvNext
<1>4. OwnInv /\ [BuffersNext]_buffers =>
        [/\ \A g \in Bases : Held(g)' = Held(g) \/ \E p \in Points : Held(g)' = Append(Held(g), p)
         /\ Cardinality({g \in Bases : Held(g)' # Held(g)}) <= 1]_buffers
  BY <1>3 DEF OnlyOneChanges
<1> QED
  BY <1>1, <1>2, <1>4, PTL DEF BuffersSpec, AppendsAreOwn
=============================================================================
