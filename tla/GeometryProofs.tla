---------------------------- MODULE GeometryProofs ----------------------------
(***************************************************************************)
(* TLAPS proofs about TileIds, Validity and SimfilGeometry.                *)
(***************************************************************************)
EXTENDS TileIdsProps, ValidityProps, SimfilGeometryProps, SequenceTheorems, TLAPS

(***************************************************************************)
(* The tile that is found for a position covers it, and one goes from tile to *)
(* tile and back, at every level that fits in the width of a column.       *)
(***************************************************************************)

(***************************************************************************)
(* Division                                                                *)
(***************************************************************************)
\* Quotient and remainder make up the number.
LEMMA Division ==
  ASSUME NEW a \in Int, NEW b \in Int, b > 0
  PROVE  /\ a \div b \in Int /\ a % b \in Int
         /\ a % b >= 0 /\ a % b < b
         /\ a = b * (a \div b) + (a % b)
<1>1. a \div b \in Int /\ a % b \in Int /\ a % b >= 0 /\ a % b < b
  OBVIOUS
<1> DEFINE p == b * (a \div b)
           r == a % b
<1>2. r = a - p
  OBVIOUS
<1>3. p \in Int /\ r \in Int
  BY <1>1
<1>4. a = p + r
  <2> HIDE DEF p, r
  <2> QED
    BY <1>2, <1>3
<1> QED
  BY <1>1, <1>4

\* And nothing else does.
LEMMA DivisionIsUnique ==
  ASSUME NEW a \in Int, NEW b \in Int, b > 0, NEW q \in Int, NEW r \in Int,
         0 <= r, r < b, a = b * q + r
  PROVE  a \div b = q /\ a % b = r
OBVIOUS

\* A factor of both numbers does not count.
LEMMA Reduced ==
  ASSUME NEW a \in Int, NEW b \in Int, b > 0, NEW n \in Int, n > 0
  PROVE  (a * n) \div (b * n) = a \div b
OBVIOUS

\* The next level has twice as many rows; the prover computes each power.
LEMMA Powers ==
  ASSUME NEW z \in 0 .. 29
  PROVE  2^z \in Int /\ 2^z >= 1 /\ 2^(z + 1) = 2 * 2^z
<1>1. CASE z \in 0 .. 5
  <2>1. CASE z = 0
    BY <2>1, 2^0 = 1, 2^(0 + 1) = 2
  <2>2. CASE z = 1
    BY <2>2, 2^1 = 2, 2^(1 + 1) = 4
  <2>3. CASE z = 2
    BY <2>3, 2^2 = 4, 2^(2 + 1) = 8
  <2>4. CASE z = 3
    BY <2>4, 2^3 = 8, 2^(3 + 1) = 16
  <2>5. CASE z = 4
    BY <2>5, 2^4 = 16, 2^(4 + 1) = 32
  <2>6. CASE z = 5
    BY <2>6, 2^5 = 32, 2^(5 + 1) = 64
  <2> QED
    BY <1>1, <2>1, <2>2, <2>3, <2>4, <2>5, <2>6
<1>2. CASE z \in 6 .. 11
  <2>1. CASE z = 6
    BY <2>1, 2^6 = 64, 2^(6 + 1) = 128
  <2>2. CASE z = 7
    BY <2>2, 2^7 = 128, 2^(7 + 1) = 256
  <2>3. CASE z = 8
    BY <2>3, 2^8 = 256, 2^(8 + 1) = 512
  <2>4. CASE z = 9
    BY <2>4, 2^9 = 512, 2^(9 + 1) = 1024
  <2>5. CASE z = 10
    BY <2>5, 2^10 = 1024, 2^(10 + 1) = 2048
  <2>6. CASE z = 11
    BY <2>6, 2^11 = 2048, 2^(11 + 1) = 4096
  <2> QED
    BY <1>2, <2>1, <2>2, <2>3, <2>4, <2>5, <2>6
<1>3. CASE z \in 12 .. 17
  <2>1. CASE z = 12
    BY <2>1, 2^12 = 4096, 2^(12 + 1) = 8192
  <2>2. CASE z = 13
    BY <2>2, 2^13 = 8192, 2^(13 + 1) = 16384
  <2>3. CASE z = 14
    BY <2>3, 2^14 = 16384, 2^(14 + 1) = 32768
  <2>4. CASE z = 15
    BY <2>4, 2^15 = 32768, 2^(15 + 1) = 65536
  <2>5. CASE z = 16
    BY <2>5, 2^16 = 65536, 2^(16 + 1) = 131072
  <2>6. CASE z = 17
    BY <2>6, 2^17 = 131072, 2^(17 + 1) = 262144
  <2> QED
    BY <1>3, <2>1, <2>2, <2>3, <2>4, <2>5, <2>6
<1>4. CASE z \in 18 .. 23
  <2>1. CASE z = 18
    BY <2>1, 2^18 = 262144, 2^(18 + 1) = 524288
  <2>2. CASE z = 19
    BY <2>2, 2^19 = 524288, 2^(19 + 1) = 1048576
  <2>3. CASE z = 20
    BY <2>3, 2^20 = 1048576, 2^(20 + 1) = 2097152
  <2>4. CASE z = 21
    BY <2>4, 2^21 = 2097152, 2^(21 + 1) = 4194304
  <2>5. CASE z = 22
    BY <2>5, 2^22 = 4194304, 2^(22 + 1) = 8388608
  <2>6. CASE z = 23
    BY <2>6, 2^23 = 8388608, 2^(23 + 1) = 16777216
  <2> QED
    BY <1>4, <2>1, <2>2, <2>3, <2>4, <2>5, <2>6
<1>5. CASE z \in 24 .. 29
  <2>1. CASE z = 24
    BY <2>1, 2^24 = 16777216, 2^(24 + 1) = 33554432
  <2>2. CASE z = 25
    BY <2>2, 2^25 = 33554432, 2^(25 + 1) = 67108864
  <2>3. CASE z = 26
    BY <2>3, 2^26 = 67108864, 2^(26 + 1) = 134217728
  <2>4. CASE z = 27
    BY <2>4, 2^27 = 134217728, 2^(27 + 1) = 268435456
  <2>5. CASE z = 28
    BY <2>5, 2^28 = 268435456, 2^(28 + 1) = 536870912
  <2>6. CASE z = 29
    BY <2>6, 2^29 = 536870912, 2^(29 + 1) = 1073741824
  <2> QED
    BY <1>5, <2>1, <2>2, <2>3, <2>4, <2>5, <2>6
<1> QED
  BY <1>1, <1>2, <1>3, <1>4, <1>5

(***************************************************************************)
(* The globe in units of half a tile                                       *)
(***************************************************************************)
\* A level has n rows and 2 * n columns of tiles that are 2 * h high and wide.
LEMMA Globe ==
  ASSUME NEW z \in Zooms
  PROVE  LET n == NumRows(z)
         IN  /\ n \in Nat /\ n >= 1 /\ NumCols(z) = 2 * n
             /\ \E h \in Nat :
                  /\ h >= 1
                  /\ LatExtent = 2 * (n * h) /\ LonExtent = 4 * (n * h)
                  /\ MaxLon = 2 * (n * h) /\ MaxLat = n * h
                  /\ Width(z) = 2 * h /\ Height(z) = 2 * h
<1> DEFINE n == NumRows(z)
           h == LatExtent \div (2 * n)
<1>1. n \in Int /\ n >= 1 /\ NumCols(z) = 2 * n
  BY Powers, TileIdsAssumption DEF NumRows, NumCols
<1>2. LatExtent % (2 * n) = 0 /\ LatExtent \in Int /\ LatExtent >= 1
  BY <1>1, TileIdsAssumption DEF NumCols
<1> HIDE DEF n
<1>3. h \in Int /\ LatExtent = (2 * n) * h
  <2>1. 2 * n \in Int /\ 2 * n > 0
    BY <1>1
  <2> QED
    BY <1>2, <2>1, Division
<1> HIDE DEF h
<1>4. n * h \in Int /\ LatExtent = 2 * (n * h)
  BY <1>1, <1>3
<1>5. h >= 1
  BY <1>1, <1>2, <1>3
<1>6. LonExtent = 4 * (n * h) /\ MaxLon = 2 * (n * h)
  BY <1>4 DEF LonExtent, MaxLon
<1>7. MaxLat = n * h
  BY <1>4 DEF MaxLat
<1>8. (2 * (n * h)) \div n = 2 * h /\ (4 * (n * h)) \div (2 * n) = 2 * h
  <2>1. 2 * (n * h) = n * (2 * h) + 0 /\ 4 * (n * h) = (2 * n) * (2 * h) + 0
    BY <1>1, <1>3
  <2>2. 2 * (n * h) \in Int /\ 4 * (n * h) \in Int /\ 2 * h \in Int /\ 2 * n \in Int /\ n > 0 /\ 2 * n > 0
    BY <1>1, <1>3, <1>4
  <2> QED
    BY <1>1, <2>1, <2>2, DivisionIsUnique
<1>9. Width(z) = 2 * h /\ Height(z) = 2 * h
  BY <1>1, <1>4, <1>6, <1>8 DEF Width, Height, n
<1> QED
  BY <1>1, <1>3, <1>4, <1>5, <1>6, <1>7, <1>9 DEF n

(***************************************************************************)
(* Columns and rows of a position                                          *)
(***************************************************************************)
\* What is left of a position around a circle of k tiles of size s lies in one of them.
LEMMA Around ==
  ASSUME NEW a \in Int, NEW s \in Int, s > 0, NEW k \in Int, k > 0,
         NEW e \in Int, e = s * k
  PROVE  /\ e > 0
         /\ (a \div s) % k = (a % e) \div s
         /\ (a % e) \div s >= 0 /\ (a % e) \div s < k
         /\ (a % e) \div s \in Int
         /\ s * ((a % e) \div s) <= a % e
         /\ a % e < s * ((a % e) \div s) + s
<1>1. e > 0
  OBVIOUS
<1>2. PICK g \in Int, m \in Int : a = e * g + m /\ 0 <= m /\ m < e /\ m = a % e
  BY <1>1, Division
<1>3. PICK q \in Int, r \in Int : m = s * q + r /\ 0 <= r /\ r < s /\ q = m \div s
  BY Division
<1>4. q >= 0 /\ q < k
  BY <1>2, <1>3
<1>5. a = s * (k * g + q) + r
  <2>1. e * g = s * (k * g)
    OBVIOUS
  <2>2. s * (k * g + q) = s * (k * g) + s * q
    OBVIOUS
  <2>3. s * (k * g) \in Int /\ s * q \in Int /\ s * (k * g + q) \in Int /\ e * g \in Int
    OBVIOUS
  <2>4. s * q = m - r
    BY <1>3
  <2>5. s * (k * g + q) = e * g + (m - r)
    BY <2>1, <2>2, <2>4
  <2> QED
    BY <1>2, <1>3, <2>3, <2>5
<1>6. a \div s = k * g + q
  BY <1>3, <1>5, k * g + q \in Int, DivisionIsUnique
<1>7. (k * g + q) % k = q
  BY <1>4, k * g + q \in Int, DivisionIsUnique
<1> QED
  BY <1>1, <1>2, <1>3, <1>4, <1>6, <1>7

\* The same tile is found without going around first.
LEMMA AroundEq ==
  ASSUME NEW a \in Int, NEW s \in Int, s > 0, NEW k \in Int, k > 0,
         NEW e \in Int, e = s * k
  PROVE  (a \div s) % k = (a % e) \div s
BY Around, SMTT(60)

\* Turns around the circle do not count.
LEMMA Turns ==
  ASSUME NEW a \in Int, NEW e \in Int, e > 0, NEW j \in Int
  PROVE  (a + e * j) % e = a % e
<1>1. PICK g \in Int, m \in Int : a = e * g + m /\ 0 <= m /\ m < e /\ m = a % e
  BY Division
<1>2. a + e * j = e * (g + j) + m
  <2>1. e * (g + j) = e * g + e * j
    OBVIOUS
  <2>2. e * (g + j) \in Int /\ e * g \in Int /\ e * j \in Int
    OBVIOUS
  <2> QED
    BY <1>1, <2>1, <2>2
<1>3. a + e * j \in Int /\ g + j \in Int
  OBVIOUS
<1> QED
  BY <1>1, <1>2, <1>3, DivisionIsUnique

\* A level with n rows, whose tiles are 2 * h high and wide.
Scale(z, n, h) ==
  /\ NumRows(z) = n /\ NumCols(z) = 2 * n
  /\ LatExtent = 2 * (n * h) /\ LonExtent = 4 * (n * h)
  /\ MaxLon = 2 * (n * h) /\ MaxLat = n * h
  /\ Width(z) = 2 * h /\ Height(z) = 2 * h

\* Every level has a scale.
LEMMA Scales ==
  ASSUME NEW z \in Zooms
  PROVE  \E n, h \in Nat : n >= 1 /\ h >= 1 /\ Scale(z, n, h)
BY Globe DEF Scale

\* A column or a row of a level that fits has room in an id.
LEMMA CoordinateFits ==
  ASSUME NEW z \in Zooms, Fits(z), NEW x \in Int, 0 <= x, x < NumCols(z), NumCols(z) \in Int
  PROVE  Coordinate(x) = x
<1> DEFINE c == 2^CoordinateBits
<1>1. c \in Int /\ NumCols(z) <= c
  BY TileIdsAssumption DEF Fits
<1> HIDE DEF c
<1>2. x % c = x
  BY <1>1
<1> QED
  BY <1>2 DEF Coordinate, c

\* The column of a longitude: its place around the globe, from the antimeridian, in
\* widths of a tile.
LEMMA ColumnOf ==
  ASSUME NEW z \in Zooms, Fits(z), NEW lon \in Int, NEW lat,
         NEW n \in Nat, NEW h \in Nat, n >= 1, h >= 1, Scale(z, n, h)
  PROVE  FromWgs84(lon, lat, z).x = ((lon + MaxLon) % LonExtent) \div (2 * h)
<1> DEFINE e == LonExtent
           s == 2 * h
           k == 2 * n
           rem == Rem(lon, e)
           east == IF rem + MaxLon < 0 THEN rem + MaxLon + e ELSE rem + MaxLon
<1>1. e \in Int /\ e > 0 /\ MaxLon \in Int /\ 2 * MaxLon = e
  <2>1. n * h \in Int /\ n * h >= 1
    OBVIOUS
  <2> QED
    BY <2>1 DEF Scale
<1>size. e = s * k
  <2>1. n * h \in Int /\ s * k = 4 * (n * h)
    OBVIOUS
  <2> HIDE DEF s, k
  <2> QED
    BY <2>1 DEF Scale
<1>2. s \in Int /\ s > 0 /\ k \in Int /\ k > 0 /\ NumCols(z) = k
  BY DEF Scale
<1> HIDE DEF e, s, k
<1>3. PICK j \in Int : rem \in Int /\ -e < rem /\ rem < e /\ rem = lon + e * j
  <2>1. CASE lon < 0
    <3>1. PICK g \in Int, m \in Int : -lon = e * g + m /\ 0 <= m /\ m < e /\ m = (-lon) % e
      BY <1>1, Division, -lon \in Int
    <3>2. rem = -m
      BY <2>1, <3>1 DEF Rem
    <3>3. e * g \in Int
      BY <1>1
    <3>4. -m = lon + e * g
      BY <3>1, <3>3
    <3>5. rem \in Int /\ -e < rem /\ rem < e /\ rem = lon + e * g
      <4>1. rem \in Int /\ rem < e
        BY <1>1, <3>1, <3>2
      <4>2. -e < rem
        BY <1>1, <3>1, <3>2
      <4>3. rem = lon + e * g
        BY <3>2, <3>4
      <4> QED
        BY <4>1, <4>2, <4>3
    <3> QED
      BY <3>5
  <2>2. CASE ~(lon < 0)
    <3>1. PICK g \in Int, m \in Int : lon = e * g + m /\ 0 <= m /\ m < e /\ m = lon % e
      BY <1>1, Division
    <3>2. rem = m
      BY <2>2, <3>1 DEF Rem
    <3>3. PICK i \in Int : i = -g
      OBVIOUS
    <3>4. e * g \in Int /\ e * i = -(e * g)
      BY <1>1, <3>3
    <3>5. m = lon + e * i
      BY <3>1, <3>4
    <3>6. rem \in Int /\ -e < rem /\ rem < e
      BY <1>1, <3>1, <3>2
    <3> QED
      BY <3>2, <3>5, <3>6
  <2> QED
    BY <2>1, <2>2
<1> HIDE DEF rem
<1>4. east \in Int /\ east >= 0
  BY <1>1, <1>3
<1>5. PICK i \in Int : east = lon + MaxLon + e * i
  <2>1. e * j \in Int /\ e * (j + 1) = e * j + e
    BY <1>1
  <2>2. CASE rem + MaxLon < 0
    BY <1>1, <1>3, <2>1, <2>2, j + 1 \in Int
  <2>3. CASE ~(rem + MaxLon < 0)
    BY <1>1, <1>3, <2>1, <2>3
  <2> QED
    BY <2>2, <2>3
<1> HIDE DEF east
<1>6. east % e = (lon + MaxLon) % e
  BY <1>1, <1>5, Turns, lon + MaxLon \in Int
<1>7. Quo(east * k, e) = east \div s
  <2>1. (east * k) \div (s * k) = east \div s
    BY <1>2, <1>4, Reduced
  <2>2. ~(east * k < 0)
    BY <1>2, <1>4
  <2> QED
    BY <1>size, <2>1, <2>2 DEF Quo
<1>8. east \div s \in Int /\ ~(east \div s < 0)
  BY <1>2, <1>4
<1>9. Rem(east \div s, k) = (east % e) \div s
  <2>1. Rem(east \div s, k) = (east \div s) % k
    BY <1>8 DEF Rem
  <2>2. (east \div s) % k = (east % e) \div s
    BY <1>1, <1>size, <1>2, <1>4, AroundEq
  <2> QED
    BY <2>1, <2>2
<1>10. (east % e) \div s \in Int /\ 0 <= (east % e) \div s /\ (east % e) \div s < k
  BY <1>1, <1>size, <1>2, <1>4, Around
<1>11. FromWgs84(lon, lat, z).x = Coordinate(Rem(Quo(east * k, e), k))
  BY <1>2 DEF FromWgs84, Id, east, rem, e
<1>12. Coordinate((east % e) \div s) = (east % e) \div s
  BY <1>2, <1>10, CoordinateFits
<1> QED
  BY <1>6, <1>7, <1>9, <1>11, <1>12 DEF e, s

\* The row of a latitude: how far it is from the north pole, in heights of a tile,
\* around the globe; what lies behind the south pole is counted back from there.
Away(lat) == IF MaxLat - lat < 0 THEN -(MaxLat - lat) ELSE MaxLat - lat

LEMMA RowOf ==
  ASSUME NEW z \in Zooms, Fits(z), NEW lon, NEW lat \in Int,
         NEW n \in Nat, NEW h \in Nat, n >= 1, h >= 1, Scale(z, n, h)
  PROVE  LET away == (Away(lat) % LonExtent) \div (2 * h)
         IN  FromWgs84(lon, lat, z).y = IF away < n THEN away ELSE 2 * n - 1 - away
<1> DEFINE e == LonExtent
           s == 2 * h
           d == MaxLat - lat
           w == Away(lat)
           away == (w % e) \div s
           row == IF away < n THEN away ELSE 2 * n - 1 - away
           y == Rem(Quo(d * n, LatExtent), 2 * n)
<1>1. e \in Int /\ e > 0 /\ MaxLat \in Int
  <2>1. n * h \in Int /\ n * h >= 1
    OBVIOUS
  <2> QED
    BY <2>1 DEF Scale
<1>2. e = s * (2 * n) /\ LatExtent = s * n
  <2>1. n * h \in Int /\ s * (2 * n) = 4 * (n * h) /\ s * n = 2 * (n * h)
    OBVIOUS
  <2> HIDE DEF s
  <2> QED
    BY <2>1 DEF Scale
<1>3. s \in Int /\ s > 0 /\ NumRows(z) = n /\ NumCols(z) = 2 * n
  BY DEF Scale
<1>4. d \in Int /\ w \in Int /\ w >= 0 /\ w = (IF d < 0 THEN -d ELSE d)
  BY <1>1 DEF Away
<1> HIDE DEF e, s, d, w
<1>5. /\ (w \div s) % (2 * n) = away
      /\ away \in Int /\ 0 <= away /\ away < 2 * n
  <2> DEFINE k == 2 * n
  <2>1. k \in Int /\ k > 0 /\ e = s * k
    BY <1>2
  <2> HIDE DEF k
  <2>2. (w \div s) % k = (w % e) \div s
    <3>1. s \in Int /\ s > 0 /\ w \in Int /\ e \in Int
      BY <1>1, <1>3, <1>4
    <3> QED
      BY <2>1, <3>1, AroundEq
  <2>3. (w % e) \div s \in Int /\ 0 <= (w % e) \div s /\ (w % e) \div s < k
    BY <1>1, <1>3, <1>4, <2>1, Around
  <2> QED
    BY <2>2, <2>3 DEF k
<1>7. w \div s \in Int /\ w \div s >= 0
  BY <1>3, <1>4
<1>8. (w * n) \div (s * n) = w \div s
  BY <1>3, <1>4, Reduced
<1> HIDE DEF away
<1>9. (IF y < 0 THEN -y ELSE y) = away
  <2>1. CASE d < 0
    <3>1. d * n < 0 /\ -(d * n) = w * n
      BY <1>4, <2>1
    <3>2. Quo(d * n, LatExtent) = -(w \div s)
      BY <1>2, <1>8, <3>1 DEF Quo
    <3>3. CASE w \div s = 0
      <4>1. y = (w \div s) % (2 * n)
        BY <3>2, <3>3 DEF Rem
      <4> QED
        BY <1>5, <4>1
    <3>4. CASE w \div s # 0
      <4>1. -(w \div s) < 0 /\ -(-(w \div s)) = w \div s
        BY <1>7, <3>4
      <4>2. y = -((w \div s) % (2 * n))
        BY <3>2, <4>1 DEF Rem
      <4>3. y = -away
        BY <1>5, <4>2
      <4> QED
        BY <1>5, <4>3
    <3> QED
      BY <3>3, <3>4
  <2>2. CASE ~(d < 0)
    <3>1. ~(d * n < 0) /\ d = w
      BY <1>4, <2>2
    <3>2. Quo(d * n, LatExtent) = w \div s
      BY <1>2, <1>8, <3>1 DEF Quo
    <3>3. y = (w \div s) % (2 * n)
      BY <1>7, <3>2 DEF Rem
    <3> QED
      BY <1>5, <3>3
  <2> QED
    BY <2>1, <2>2
<1> HIDE DEF y
<1>10. Row(lat, z) = row
  <2>1. Row(lat, z) = IF (IF y < 0 THEN -y ELSE y) >= n
                        THEN n - ((IF y < 0 THEN -y ELSE y) - n) - 1
                        ELSE IF y < 0 THEN -y ELSE y
    BY <1>3 DEF Row, y, d
  <2>2. Row(lat, z) = IF away >= n THEN n - (away - n) - 1 ELSE away
    BY <1>9, <2>1
  <2> QED
    BY <1>5, <2>2
<1>11. row \in Int /\ 0 <= row /\ row < NumCols(z) /\ NumCols(z) \in Int
  BY <1>3, <1>5
<1>12. Coordinate(row) = row
  BY <1>11, CoordinateFits
<1> QED
  BY <1>10, <1>12 DEF FromWgs84, Id, away, w, s, e

(***************************************************************************)
(* The tile of a position                                                  *)
(***************************************************************************)
\* All ids of a level.
Tiles(z) == [x : 0 .. NumCols(z) - 1, y : 0 .. NumRows(z) - 1, z : {z}]

\* A position gets a column and a row of its level.
LEMMA FoundInRange ==
  ASSUME NEW z \in Zooms, Fits(z), NEW lon \in Int, NEW lat \in Int
  PROVE  FromWgs84(lon, lat, z) \in Tiles(z)
<1>1. PICK n \in Nat, h \in Nat : n >= 1 /\ h >= 1 /\ Scale(z, n, h)
  BY Scales
<1> DEFINE e == LonExtent
           s == 2 * h
           k == 2 * n
           t == FromWgs84(lon, lat, z)
           around == (lon + MaxLon) % e
           away == (Away(lat) % e) \div s
<1>2. e \in Int /\ MaxLon \in Int /\ MaxLat \in Int
  <2>1. n * h \in Int
    OBVIOUS
  <2> QED
    BY <1>1, <2>1 DEF Scale
<1>3. e = s * k
  <2>1. n * h \in Int /\ s * k = 4 * (n * h)
    OBVIOUS
  <2> HIDE DEF s, k
  <2> QED
    BY <1>1, <2>1 DEF Scale
<1>4. s \in Int /\ s > 0 /\ k \in Int /\ k > 0 /\ k = 2 * n
  BY <1>1
<1>5. t.x = around \div s
  BY <1>1, ColumnOf
<1>6. t.y = IF away < n THEN away ELSE k - 1 - away
  BY <1>1, RowOf
<1>7. NumCols(z) = k /\ NumRows(z) = n
  BY <1>1 DEF Scale
<1> HIDE DEF e, s, k
<1>8. around \div s \in Int /\ 0 <= around \div s /\ around \div s < k
  BY <1>2, <1>3, <1>4, Around, lon + MaxLon \in Int
<1>9. Away(lat) \in Int
  BY <1>2 DEF Away
<1>10. away \in Int /\ 0 <= away /\ away < k
  BY <1>2, <1>3, <1>4, <1>9, Around
<1> HIDE DEF around, away
<1>11. t = [x |-> t.x, y |-> t.y, z |-> z]
  BY DEF FromWgs84, Id
<1> HIDE DEF t
<1>12. t.x \in 0 .. k - 1 /\ t.y \in 0 .. n - 1
  BY <1>4, <1>5, <1>6, <1>8, <1>10
<1> QED
  BY <1>7, <1>11, <1>12 DEF Tiles, t

\* The tile covers the position, as it is understood around the globe.
LEMMA FoundCovers ==
  ASSUME NEW z \in Zooms, Fits(z), NEW lon \in Int, NEW lat \in Int
  PROVE  LET t      == FromWgs84(lon, lat, z)
             folded == ((lon + MaxLon) % LonExtent) - MaxLon
             turn   == (lat + MaxLat) % LonExtent
             north  == (IF turn > LatExtent THEN LonExtent - turn ELSE turn) - MaxLat
         IN  /\ SouthWest(t)[1] <= folded /\ folded <= NorthEast(t)[1]
             /\ SouthWest(t)[2] <= north /\ north <= NorthEast(t)[2]
<1>1. PICK n \in Nat, h \in Nat : n >= 1 /\ h >= 1 /\ Scale(z, n, h)
  BY Scales
<1> DEFINE N == n * h
           e == LonExtent
           s == 2 * h
           k == 2 * n
           t == FromWgs84(lon, lat, z)
           around == (lon + MaxLon) % e
           d == MaxLat - lat
           u == Away(lat) % e
           away == u \div s
           turn == (lat + MaxLat) % e
           north == (IF turn > LatExtent THEN e - turn ELSE turn) - MaxLat
<1>2. /\ N \in Int /\ N >= 1 /\ e = 4 * N /\ MaxLon = 2 * N /\ MaxLat = N /\ LatExtent = 2 * N
      /\ Width(z) = s /\ Height(z) = s
  <2>1. N \in Int /\ N >= 1
    BY <1>1
  <2> QED
    BY <1>1, <2>1 DEF Scale
<1>3. s * k = 4 * N /\ s * n = 2 * N
  OBVIOUS
<1>4. s \in Int /\ s > 0 /\ k \in Int /\ k > 0 /\ k = 2 * n
  BY <1>1
<1>5. t.x = around \div s
  BY <1>1, ColumnOf
<1>6. t.y = IF away < n THEN away ELSE k - 1 - away
  BY <1>1, RowOf
<1>7. t.z = z
  BY DEF FromWgs84, Id
<1> HIDE DEF N, e, s, k, t
<1>size. e \in Int /\ e > 0
  BY <1>2
<1>8. /\ around \in Int /\ t.x \in Int
      /\ s * t.x <= around /\ around < s * t.x + s
  <2>1. lon + MaxLon \in Int /\ e = s * k
    BY <1>2, <1>3
  <2>2. around \in Int
    BY <1>2, <2>1, <1>size, Division
  <2> QED
    BY <1>4, <1>5, <1>size, <2>1, <2>2, Around
<1>9. /\ u \in Int /\ 0 <= u /\ u < e
      /\ away \in Int /\ 0 <= away /\ away < k
      /\ s * away <= u /\ u < s * away + s
  <2>1. Away(lat) \in Int /\ e = s * k
    BY <1>2, <1>3 DEF Away
  <2>2. u \in Int /\ 0 <= u /\ u < e
    BY <2>1, <1>size, Division
  <2> QED
    BY <1>4, <1>size, <2>1, <2>2, Around
<1>10. north = IF u <= 2 * N THEN N - u ELSE u - 3 * N
  <2> DEFINE w == Away(lat)
  <2>1. w \in Int /\ w = IF N - lat < 0 THEN -(N - lat) ELSE N - lat
    BY <1>2 DEF Away
  <2>2. turn = (lat + N) % e
    BY <1>2
  <2>3. N \in Int /\ N >= 1 /\ e = 4 * N
    BY <1>2
  <2> HIDE DEF w, turn
  <2>4. PICK g \in Int : w = e * g + u /\ u \in Int /\ 0 <= u /\ u < e
    <3>1. \E g, r \in Int : w = e * g + r /\ 0 <= r /\ r < e /\ r = w % e
      BY <1>size, <2>1, Division
    <3> QED
      BY <3>1 DEF w
  <2> HIDE DEF u
  <2>5. e * g \in Int /\ e * 0 = 0 /\ e * 1 = e /\ e * (-1) = -e
    BY <1>size
  <2>6. CASE N - lat < 0
    <3>1. turn = (2 * N + u) % e
      <4>1. PICK a \in Int : a = 2 * N + u
        BY <2>3, <2>4
      <4>2. lat + N = a + e * g
        BY <2>1, <2>3, <2>4, <2>5, <2>6, <4>1
      <4>3. (a + e * g) % e = a % e
        BY <1>size, Turns
      <4> QED
        BY <2>2, <4>1, <4>2, <4>3
    <3>2. CASE u < 2 * N
      <4>1. (2 * N + u) % e = 2 * N + u
        BY <1>size, <2>3, <2>4, <2>5, <3>2, 2 * N + u = e * 0 + (2 * N + u), DivisionIsUnique
      <4>2. turn = 2 * N + u
        BY <3>1, <4>1
      <4> QED
        BY <1>2, <2>3, <2>4, <3>2, <4>2
    <3>3. CASE ~(u < 2 * N)
      <4>1. (2 * N + u) % e = u - 2 * N
        BY <1>size, <2>3, <2>4, <2>5, <3>3, 2 * N + u = e * 1 + (u - 2 * N), DivisionIsUnique
      <4>2. turn = u - 2 * N
        BY <3>1, <4>1
      <4> QED
        BY <1>2, <2>3, <2>4, <3>3, <4>2
    <3> QED
      BY <3>2, <3>3
  <2>7. CASE ~(N - lat < 0)
    <3>1. turn = (2 * N - u) % e
      <4>1. PICK a \in Int : a = 2 * N - u
        <5>1. 2 * N - u \in Int
          BY <2>3, <2>4
        <5> QED
          BY <5>1, Zenon
      <4>turns. PICK j \in Int : j = -g
        OBVIOUS
      <4>2. e * j = -(e * g)
        BY <1>size, <4>turns
      <4>3. lat + N = a + e * j
        BY <2>1, <2>3, <2>4, <2>5, <2>7, <4>1, <4>2
      <4>4. (a + e * j) % e = a % e
        BY <1>size, Turns
      <4> QED
        BY <2>2, <4>1, <4>3, <4>4
    <3>2. CASE u <= 2 * N
      <4>1. (2 * N - u) % e = 2 * N - u
        BY <1>size, <2>3, <2>4, <2>5, <3>2, 2 * N - u = e * 0 + (2 * N - u), DivisionIsUnique
      <4>2. turn = 2 * N - u
        BY <3>1, <4>1
      <4> QED
        BY <1>2, <2>3, <2>4, <3>2, <4>2
    <3>3. CASE ~(u <= 2 * N)
      <4>1. (2 * N - u) % e = 6 * N - u
        BY <1>size, <2>3, <2>4, <2>5, <3>3, 2 * N - u = e * (-1) + (6 * N - u), DivisionIsUnique
      <4>2. turn = 6 * N - u
        BY <3>1, <4>1
      <4> QED
        BY <1>2, <2>3, <2>4, <3>3, <4>2
    <3> QED
      BY <3>2, <3>3
  <2> QED
    BY <2>6, <2>7
<1> HIDE DEF around, u, away, turn, north
<1>11. /\ SouthWest(t)[1] = s * t.x - 2 * N
       /\ NorthEast(t)[1] = s * t.x + s - 2 * N
       /\ SouthWest(t)[2] = N - (s * t.y + s)
       /\ NorthEast(t)[2] = N - s * t.y
  <2>1. t.x \in Int /\ t.y \in Int
    BY <1>4, <1>6, <1>8, <1>9
  <2> DEFINE x == t.x
             y == t.y
  <2>2. /\ SouthWest(t) = <<-MaxLon + x * s, MaxLat - (y + 1) * s>>
        /\ NorthEast(t) = <<-MaxLon + (x + 1) * s, MaxLat - y * s>>
    BY <1>2, <1>7 DEF SouthWest, NorthEast
  <2> HIDE DEF x, y
  <2>3. x \in Int /\ y \in Int
    BY <2>1 DEF x, y
  <2>4. /\ x * s = s * x /\ (x + 1) * s = s * x + s
        /\ y * s = s * y /\ (y + 1) * s = s * y + s
    BY <1>4, <2>3
  <2>5. s * x \in Int /\ s * y \in Int
    BY <1>4, <2>3
  <2>6. /\ -MaxLon + x * s = s * x - 2 * N
        /\ -MaxLon + (x + 1) * s = s * x + s - 2 * N
        /\ MaxLat - (y + 1) * s = N - (s * y + s)
        /\ MaxLat - y * s = N - s * y
    BY <1>2, <1>4, <2>4, <2>5
  <2> QED
    BY <2>2, <2>6 DEF x, y
<1>12. around - MaxLon <= NorthEast(t)[1] /\ SouthWest(t)[1] <= around - MaxLon
  <2>1. s * t.x \in Int
    BY <1>4, <1>8
  <2> QED
    BY <1>2, <1>4, <1>8, <1>11, <2>1
<1>13. SouthWest(t)[2] <= north /\ north <= NorthEast(t)[2]
  <2>1. s * away \in Int
    BY <1>4, <1>9
  <2>2. CASE away < n
    <3>1. s * away + s <= s * n
      BY <1>4, <1>9, <2>2
    <3>2. u <= 2 * N
      BY <1>2, <1>3, <1>4, <1>9, <2>1, <3>1
    <3>3. s * t.y = s * away
      BY <1>6, <2>2
    <3> QED
      BY <1>2, <1>4, <1>9, <1>10, <1>11, <2>1, <3>2, <3>3
  <2>3. CASE ~(away < n)
    <3>1. s * away >= s * n
      BY <1>4, <1>9, <2>3
    <3>2. u >= 2 * N
      BY <1>2, <1>3, <1>4, <1>9, <2>1, <3>1
    <3>3. s * t.y = 4 * N - s - s * away
      <4>1. s * (k - 1 - away) = s * k - s - s * away
        BY <1>4, <1>9
      <4> QED
        BY <1>3, <1>6, <2>3, <4>1
    <3> QED
      BY <1>2, <1>4, <1>9, <1>10, <1>11, <2>1, <3>2, <3>3
  <2> QED
    BY <2>2, <2>3
<1> QED
  BY <1>12, <1>13 DEF e, t, around, turn, north

\* From the center of a tile one finds the tile.
LEMMA CenterIsFound ==
  ASSUME NEW z \in Zooms, Fits(z), NEW t \in Tiles(z)
  PROVE  FromWgs84(Center(t)[1], Center(t)[2], z) = t
<1>1. PICK n \in Nat, h \in Nat : n >= 1 /\ h >= 1 /\ Scale(z, n, h)
  BY Scales
<1> DEFINE N == n * h
           e == LonExtent
           s == 2 * h
           k == 2 * n
           x == t.x
           y == t.y
           lon == Center(t)[1]
           lat == Center(t)[2]
<1>2. /\ N \in Int /\ N >= 1 /\ e = 4 * N /\ MaxLon = 2 * N /\ MaxLat = N
      /\ Width(z) = s /\ Height(z) = s /\ NumCols(z) = k /\ NumRows(z) = n
  <2>1. N \in Int /\ N >= 1
    BY <1>1
  <2> QED
    BY <1>1, <2>1 DEF Scale
<1>3. s * k = 4 * N /\ s * n = 2 * N /\ s \div 2 = h
  OBVIOUS
<1>4. s \in Int /\ s > 0 /\ h < s /\ k \in Int /\ k = 2 * n
  BY <1>1
<1>5. x \in Int /\ 0 <= x /\ x < k /\ y \in Int /\ 0 <= y /\ y < n /\ t.z = z
  BY <1>2, <1>4 DEF Tiles
<1>6. Center(t) = <<-MaxLon + x * s + s \div 2, MaxLat - y * s - s \div 2>>
  BY <1>2, <1>5 DEF Center
<1> HIDE DEF N, e, s, k, x, y
<1>7. s * x \in Int /\ s * y \in Int /\ x * s = s * x /\ y * s = s * y
  BY <1>4, <1>5
<1>8. lon = s * x + h - 2 * N /\ lat = N - s * y - h
  BY <1>2, <1>3, <1>6, <1>7
<1> HIDE DEF lon, lat
<1>9. lon \in Int /\ lat \in Int /\ lon + MaxLon = s * x + h /\ Away(lat) = s * y + h
  <2>1. s * y >= 0
    BY <1>4, <1>5
  <2> QED
    BY <1>2, <1>7, <1>8, <2>1 DEF Away
<1>10. s * x >= 0 /\ s * x + s <= s * k /\ s * y >= 0 /\ s * y + s <= s * n
  BY <1>4, <1>5
<1>11. (s * x + h) % e = s * x + h /\ (s * y + h) % e = s * y + h
  <2>1. /\ s * x + h \in Int /\ 0 <= s * x + h /\ s * x + h < e
        /\ s * y + h \in Int /\ 0 <= s * y + h /\ s * y + h < e
        /\ e \in Int /\ e > 0
    BY <1>2, <1>3, <1>4, <1>7, <1>10
  <2>2. ASSUME NEW a \in Int, 0 <= a, a < e
        PROVE  a % e = a
    BY <2>1, <2>2
  <2> QED
    BY <2>1, <2>2
<1>12. (s * x + h) \div s = x /\ (s * y + h) \div s = y
  BY <1>4, <1>5, <1>7, DivisionIsUnique
<1>13. FromWgs84(lon, lat, z).x = x
  BY <1>1, <1>9, <1>11, <1>12, ColumnOf DEF e, s
<1>14. FromWgs84(lon, lat, z).y = y
  <2>1. (Away(lat) % LonExtent) \div (2 * h) = y
    BY <1>9, <1>11, <1>12 DEF e, s
  <2>2. FromWgs84(lon, lat, z).y = IF y < n THEN y ELSE 2 * n - 1 - y
    BY <1>1, <1>9, <2>1, RowOf
  <2> QED
    BY <1>5, <2>2
<1>15. /\ FromWgs84(lon, lat, z) = [x |-> FromWgs84(lon, lat, z).x, y |-> FromWgs84(lon, lat, z).y, z |-> z]
       /\ t = [x |-> t.x, y |-> t.y, z |-> t.z]
  BY DEF FromWgs84, Id, Tiles
<1> QED
  BY <1>5, <1>13, <1>14, <1>15 DEF lon, lat, x, y

(***************************************************************************)
(* Neighbours                                                              *)
(***************************************************************************)
\* A level has rows, and twice as many columns.
LEMMA RowsAndColumns ==
  ASSUME NEW z \in Zooms
  PROVE  \E n \in Nat : n >= 1 /\ NumRows(z) = n /\ NumCols(z) = 2 * n
BY Globe

\* A step from a tile leads to one of the same level, and loses nothing in the id.
LEMMA NeighborIs ==
  ASSUME NEW z \in Zooms, Fits(z), NEW t \in Tiles(z), NEW dx \in -1 .. 1, NEW dy \in -1 .. 1
  PROVE  /\ Neighbor(t, dx, dy) = [x |-> NeighborColumn(t, dx), y |-> NeighborRow(t, dy), z |-> z]
         /\ Neighbor(t, dx, dy) \in Tiles(z)
<1>1. PICK n \in Nat : n >= 1 /\ NumRows(z) = n /\ NumCols(z) = 2 * n
  BY RowsAndColumns
<1>2. t.z = z /\ t.x \in 0 .. 2 * n - 1 /\ t.y \in 0 .. n - 1
  BY <1>1 DEF Tiles
<1>3. NeighborColumn(t, dx) \in 0 .. 2 * n - 1
  BY <1>1, <1>2 DEF NeighborColumn
<1>4. NeighborRow(t, dy) \in 0 .. n - 1
  BY <1>1, <1>2 DEF NeighborRow
<1>5. Coordinate(NeighborColumn(t, dx)) = NeighborColumn(t, dx)
  BY <1>1, <1>3, CoordinateFits
<1>6. Coordinate(NeighborRow(t, dy)) = NeighborRow(t, dy)
  BY <1>1, <1>4, CoordinateFits
<1> QED
  BY <1>1, <1>2, <1>3, <1>4, <1>5, <1>6 DEF Neighbor, Id, Tiles

\* The opposite step comes back.
LEMMA StepsComeBack ==
  ASSUME NEW z \in Zooms, Fits(z), NEW t \in Tiles(z), NEW dx \in -1 .. 1, NEW dy \in -1 .. 1
  PROVE  LET pole == t.y + dy \notin 0 .. NumRows(z) - 1
         IN  Neighbor(Neighbor(t, dx, dy), -dx, IF pole THEN 0 ELSE -dy) = t
<1>1. PICK n \in Nat : n >= 1 /\ NumRows(z) = n /\ NumCols(z) = 2 * n
  BY RowsAndColumns
<1> DEFINE pole == t.y + dy \notin 0 .. NumRows(z) - 1
           back == IF pole THEN 0 ELSE -dy
           s    == Neighbor(t, dx, dy)
<1>2. t.z = z /\ t.x \in 0 .. 2 * n - 1 /\ t.y \in 0 .. n - 1 /\ t = [x |-> t.x, y |-> t.y, z |-> z]
  BY <1>1 DEF Tiles
<1>3. s \in Tiles(z) /\ s.x = NeighborColumn(t, dx) /\ s.y = NeighborRow(t, dy) /\ s.z = z
  BY NeighborIs
<1>4. -dx \in -1 .. 1 /\ back \in -1 .. 1
  OBVIOUS
<1> HIDE DEF s
<1>5. NeighborColumn(s, -dx) = t.x
  BY <1>1, <1>2, <1>3 DEF NeighborColumn
<1>6. NeighborRow(s, back) = t.y
  BY <1>1, <1>2, <1>3 DEF NeighborRow
<1> HIDE DEF back
<1>7. Neighbor(s, -dx, back) = [x |-> NeighborColumn(s, -dx), y |-> NeighborRow(s, back), z |-> z]
  BY <1>3, <1>4, NeighborIs
<1> QED
  BY <1>2, <1>5, <1>6, <1>7 DEF s, back

(***************************************************************************)
(* The theorem                                                             *)
(***************************************************************************)
\* The id is one of its level, and the one found for the position if it is known.
PlaceInv ==
  /\ tileId.z \in Zooms
  /\ Fits(tileId.z) => tileId \in Tiles(tileId.z)
  /\ position # <<>> =>
       /\ position \in Longitudes \X Latitudes
       /\ tileId = FromWgs84(position[1], position[2], tileId.z)

\* It holds for the tile that is looked for first,
LEMMA PlaceInitInv ==
  ASSUME PlaceInit
  PROVE  PlaceInv
<1>1. PICK lon \in Longitudes, lat \in Latitudes, z \in Zooms :
        position = <<lon, lat>> /\ tileId = FromWgs84(lon, lat, z)
  BY PlaceInit DEF PlaceInit
<1>2. tileId.z = z
  BY <1>1 DEF FromWgs84, Id
<1>3. Fits(z) => tileId \in Tiles(z)
  <2>1. lon \in Int /\ lat \in Int
    BY TileIdsAssumption
  <2> QED
    BY <1>1, <2>1, FoundInRange
<1> QED
  BY <1>1, <1>2, <1>3 DEF PlaceInv

\* and after each step to a neighbour.
LEMMA PlaceNextInv ==
  ASSUME PlaceInv, [PlaceNext]_place
  PROVE  PlaceInv'
<1>1. ASSUME NEW dx \in -1 .. 1, NEW dy \in -1 .. 1, GoTo(dx, dy)
      PROVE  PlaceInv'
  <2>1. position' = <<>> /\ tileId' = Neighbor(tileId, dx, dy)
    BY <1>1 DEF GoTo
  <2>2. tileId'.z = tileId.z
    BY <2>1 DEF Neighbor, Id
  <2>3. Fits(tileId.z) => tileId' \in Tiles(tileId.z)
    BY <2>1, NeighborIs, PlaceInv DEF PlaceInv
  <2> QED
    BY <2>1, <2>2, <2>3, PlaceInv DEF PlaceInv
<1>2. CASE UNCHANGED place
  BY <1>2, PlaceInv DEF PlaceInv, place
<1> QED
  BY <1>1, <1>2, [PlaceNext]_place DEF PlaceNext

\* It says enough: the lemmas about single tiles make it what is promised.
LEMMA PlaceCovers ==
  ASSUME PlaceInv
  PROVE  TilesCoverTheirPlace
<1> DEFINE z == tileId.z
<1>1. z \in Zooms
  BY PlaceInv DEF PlaceInv
<1> SUFFICES ASSUME Fits(z) PROVE TilesCoverTheirPlace
  BY DEF TilesCoverTheirPlace
<1>2. tileId \in Tiles(z)
  BY PlaceInv DEF PlaceInv
<1>3. FromWgs84(Center(tileId)[1], Center(tileId)[2], z) = tileId
  BY <1>1, <1>2, CenterIsFound
<1>4. ASSUME NEW dx \in -1 .. 1, NEW dy \in -1 .. 1
      PROVE  LET pole == tileId.y + dy \notin 0 .. NumRows(z) - 1
             IN  Neighbor(Neighbor(tileId, dx, dy), -dx, IF pole THEN 0 ELSE -dy) = tileId
  BY <1>1, <1>2, StepsComeBack
<1>5. ASSUME position # <<>>
      PROVE  LET lon  == ((position[1] + MaxLon) % LonExtent) - MaxLon
                 turn == (position[2] + MaxLat) % LonExtent
                 lat  == (IF turn > LatExtent THEN LonExtent - turn ELSE turn) - MaxLat
             IN  /\ SouthWest(tileId)[1] <= lon /\ lon <= NorthEast(tileId)[1]
                 /\ SouthWest(tileId)[2] <= lat /\ lat <= NorthEast(tileId)[2]
  <2>1. position[1] \in Int /\ position[2] \in Int /\ tileId = FromWgs84(position[1], position[2], z)
    BY <1>5, PlaceInv, TileIdsAssumption DEF PlaceInv
  <2> QED
    BY <1>1, <2>1, FoundCovers
<1> QED
  BY <1>3, <1>4, <1>5 DEF TilesCoverTheirPlace

\* TileId::fromWgs84 and TileId::neighbor, for all positions, levels and widths of a column:
\* the tile covers its place, its center leads back to it, and so does the opposite of
\* every step.
THEOREM TilesCoverAnyPlace == PlaceSpec => []TilesCoverTheirPlace
<1>1. PlaceInit => PlaceInv
  BY PlaceInitInv
<1>2. PlaceInv /\ [PlaceNext]_place => PlaceInv'
  BY PlaceNextInv
<1>3. PlaceInv => TilesCoverTheirPlace
  BY PlaceCovers
<1> QED
  BY <1>1, <1>2, <1>3, PTL DEF PlaceSpec

(***************************************************************************)
(* A validity keeps its meaning when it is copied: its kind, the type of its *)
(* offsets and its value say the same after each call.                     *)
(***************************************************************************)

OffsetTypes == {"GeoPosOffset", "BufferOffset", "MetricLengthOffset", "RelativeLengthOffset"}

IsGeometry(g) == g = [name |-> g.name, type |-> g.type, points |-> g.points]

ValidityOf(d, o, x, n, f) ==
  [descr |-> d, offsetType |-> o, value |-> x, name |-> n, featureId |-> f]

IsRecord(v) == \E d, o, x, n, f : v = ValidityOf(d, o, x, n, f)

\* The kind of the validity, the type of its offsets and its value say the same.
IsConsistentValue(descr, type, value) ==
  \/ descr = "NoGeometry" /\ type = "InvalidOffsetType" /\ value = <<>>
  \/ descr = "SimpleGeometry" /\ IsGeometry(value)
  \/ descr = "OffsetPointValidity" /\ type \in OffsetTypes /\ \E a : value = <<a>>
  \/ descr = "OffsetRangeValidity" /\ type \in OffsetTypes /\ \E a, b : value = <<a, b>>

IsConsistent(v) == IsRecord(v) /\ IsConsistentValue(v.descr, v.offsetType, v.value)

ValidityInv == collection \in Collections /\ IsConsistent(validity)

\* A new validity says nothing.
LEMMA FreshIsConsistent == IsConsistent(Fresh)
<1>1. Fresh = ValidityOf("NoGeometry", "InvalidOffsetType", <<>>, NoName, NoId)
  BY DEF Fresh, ValidityOf
<1> QED
  BY <1>1 DEF IsConsistent, IsRecord, IsConsistentValue, ValidityOf

\* What the setters change, field by field.
LEMMA Changed ==
  ASSUME NEW v, IsRecord(v), NEW d, NEW o, NEW x, NEW n
  PROVE  /\ v = ValidityOf(v.descr, v.offsetType, v.value, v.name, v.featureId)
         /\ [v EXCEPT !.descr = d] = ValidityOf(d, v.offsetType, v.value, v.name, v.featureId)
         /\ [v EXCEPT !.offsetType = o] = ValidityOf(v.descr, o, v.value, v.name, v.featureId)
         /\ [v EXCEPT !.value = x] = ValidityOf(v.descr, v.offsetType, x, v.name, v.featureId)
         /\ [v EXCEPT !.name = n] = ValidityOf(v.descr, v.offsetType, v.value, n, v.featureId)
         /\ [v EXCEPT !.featureId = n] = ValidityOf(v.descr, v.offsetType, v.value, v.name, n)
<1>1. PICK d0, o0, x0, n0, f0 : v = ValidityOf(d0, o0, x0, n0, f0)
  BY DEF IsRecord
<1>2. v \in [descr : {d0, d}, offsetType : {o0, o}, value : {x0, x}, name : {n0, n}, featureId : {f0, n}]
  BY <1>1 DEF ValidityOf
<1>a. PICK D, O, X, N, F : D = {d0, d} /\ O = {o0, o} /\ X = {x0, x} /\ N = {n0, n} /\ F = {f0, n}
  OBVIOUS
<1>3. v \in [descr : D, offsetType : O, value : X, name : N, featureId : F] /\ d \in D /\ o \in O /\ x \in X /\ n \in N /\ n \in F
  BY <1>2, <1>a
<1>4. v = ValidityOf(v.descr, v.offsetType, v.value, v.name, v.featureId)
  BY <1>3 DEF ValidityOf
<1>5. [v EXCEPT !.descr = d] = ValidityOf(d, v.offsetType, v.value, v.name, v.featureId)
  BY <1>3 DEF ValidityOf
<1>9. [v EXCEPT !.offsetType = o] = ValidityOf(v.descr, o, v.value, v.name, v.featureId)
  BY <1>3 DEF ValidityOf
<1>6. [v EXCEPT !.value = x] = ValidityOf(v.descr, v.offsetType, x, v.name, v.featureId)
  BY <1>3 DEF ValidityOf
<1>7. [v EXCEPT !.name = n] = ValidityOf(v.descr, v.offsetType, v.value, n, v.featureId)
  BY <1>3 DEF ValidityOf
<1>8. [v EXCEPT !.featureId = n] = ValidityOf(v.descr, v.offsetType, v.value, v.name, n)
  BY <1>3 DEF ValidityOf
<1> QED
  BY <1>4, <1>5, <1>6, <1>7, <1>8, <1>9

\* The setters write three fields, one after the other.
LEMMA Overwritten ==
  ASSUME NEW v, IsRecord(v), NEW d, NEW o, NEW x,
         NEW v1, v1 = [v EXCEPT !.descr = d], NEW v2, v2 = [v1 EXCEPT !.offsetType = o],
         NEW v3, v3 = [v2 EXCEPT !.value = x]
  PROVE  v3 = ValidityOf(d, o, x, v.name, v.featureId)
<1>1. \A w, e : IsRecord(w) =>
        /\ [w EXCEPT !.descr = e] = ValidityOf(e, w.offsetType, w.value, w.name, w.featureId)
        /\ [w EXCEPT !.offsetType = e] = ValidityOf(w.descr, e, w.value, w.name, w.featureId)
        /\ [w EXCEPT !.value = e] = ValidityOf(w.descr, w.offsetType, e, w.name, w.featureId)
  <2> SUFFICES ASSUME NEW w, NEW e, IsRecord(w)
               PROVE  /\ [w EXCEPT !.descr = e] = ValidityOf(e, w.offsetType, w.value, w.name, w.featureId)
                      /\ [w EXCEPT !.offsetType = e] = ValidityOf(w.descr, e, w.value, w.name, w.featureId)
                      /\ [w EXCEPT !.value = e] = ValidityOf(w.descr, w.offsetType, e, w.name, w.featureId)
    OBVIOUS
  <2> QED
    BY ONLY IsRecord(w), Changed, Zenon
<1>2. v1 = ValidityOf(d, v.offsetType, v.value, v.name, v.featureId)
  BY <1>1, Zenon
<1>3. IsRecord(v1)
  BY <1>2 DEF IsRecord
<1>4. v1.descr = d /\ v1.value = v.value /\ v1.name = v.name /\ v1.featureId = v.featureId
  BY <1>2 DEF ValidityOf
<1>5. v2 = ValidityOf(v1.descr, o, v1.value, v1.name, v1.featureId)
  BY <1>1, <1>3, Zenon
<1>6. IsRecord(v2)
  BY <1>5 DEF IsRecord
<1>7. v2.descr = d /\ v2.offsetType = o /\ v2.name = v.name /\ v2.featureId = v.featureId
  BY <1>4, <1>5 DEF ValidityOf
<1>8. v3 = ValidityOf(v2.descr, v2.offsetType, x, v2.name, v2.featureId)
  BY <1>1, <1>6, Zenon
<1> QED
  BY <1>7, <1>8

\* What the setters for offsets write, ...
LEMMA OffsetsWritten ==
  ASSUME NEW v, IsRecord(v), NEW type, NEW points
  PROVE  WithOffsets(v, type, points) =
           ValidityOf(IF Len(points) = 1 THEN "OffsetPointValidity" ELSE "OffsetRangeValidity",
                      type, points, v.name, v.featureId)
<1>1. PICK d : d = IF Len(points) = 1 THEN "OffsetPointValidity" ELSE "OffsetRangeValidity"
  OBVIOUS
<1>2. PICK v1 : v1 = [v EXCEPT !.descr = d]
  OBVIOUS
<1>3. PICK v2 : v2 = [v1 EXCEPT !.offsetType = type]
  OBVIOUS
<1>4. PICK v3 : v3 = [v2 EXCEPT !.value = points]
  OBVIOUS
<1>5. v3 = [v EXCEPT !.descr = d, !.offsetType = type, !.value = points]
  BY <1>2, <1>3, <1>4
<1>6. WithOffsets(v, type, points) = v3
  BY <1>1, <1>5 DEF WithOffsets
<1>7. v3 = ValidityOf(d, type, points, v.name, v.featureId)
  BY <1>2, <1>3, <1>4, Overwritten
<1> QED
  BY <1>1, <1>6, <1>7

\* ... and the one for a geometry.
LEMMA GeometryWritten ==
  ASSUME NEW v, IsRecord(v), NEW g
  PROVE  WithGeometry(v, g) = ValidityOf("SimpleGeometry", "InvalidOffsetType", g, v.name, v.featureId)
<1>2. PICK v1 : v1 = [v EXCEPT !.descr = "SimpleGeometry"]
  OBVIOUS
<1>3. PICK v2 : v2 = [v1 EXCEPT !.offsetType = "InvalidOffsetType"]
  OBVIOUS
<1>4. PICK v3 : v3 = [v2 EXCEPT !.value = g]
  OBVIOUS
<1>5. v3 = WithGeometry(v, g)
  BY <1>2, <1>3, <1>4 DEF WithGeometry
<1>6. v3 = ValidityOf("SimpleGeometry", "InvalidOffsetType", g, v.name, v.featureId)
  BY <1>2, <1>3, <1>4, Overwritten
<1> QED
  BY <1>5, <1>6

\* A validity is what its fields are.
LEMMA Fields ==
  ASSUME NEW d, NEW o, NEW x, NEW n, NEW f, IsConsistentValue(d, o, x)
  PROVE  IsConsistent(ValidityOf(d, o, x, n, f))
<1> DEFINE v == ValidityOf(d, o, x, n, f)
<1>1. v.descr = d /\ v.offsetType = o /\ v.value = x
  BY DEF ValidityOf
<1>2. IsRecord(v)
  BY DEF IsRecord
<1> HIDE DEF v
<1>3. IsConsistent(v)
  BY <1>1, <1>2 DEF IsConsistent
<1> QED
  BY <1>3 DEF v

\* Both leave kind, type and value consistent, ...
LEMMA OffsetsAreConsistent ==
  ASSUME NEW v, IsRecord(v), NEW call \in OffsetCalls
  PROVE  IsConsistent(WithOffsets(v, call[1], call[2]))
<1>1. call[1] \in OffsetTypes
  BY DEF OffsetCalls, OffsetTypes
<1>2. (\E a : call[2] = <<a>>) \/ (\E a, b : call[2] = <<a, b>>)
  BY DEF OffsetCalls, OneOrTwo
<1>3. IsConsistentValue(IF Len(call[2]) = 1 THEN "OffsetPointValidity" ELSE "OffsetRangeValidity", call[1], call[2])
  BY <1>1, <1>2 DEF IsConsistentValue
<1> DEFINE d == IF Len(call[2]) = 1 THEN "OffsetPointValidity" ELSE "OffsetRangeValidity"
<1>4. WithOffsets(v, call[1], call[2]) =
        ValidityOf(d, call[1], call[2], v.name, v.featureId)
  BY OffsetsWritten
<1> HIDE DEF d
<1> QED
  BY <1>3, <1>4, Fields DEF d

\* ... whatever was there before.
LEMMA GeometryIsConsistent ==
  ASSUME NEW v, IsRecord(v), NEW g, IsGeometry(g)
  PROVE  IsConsistent(WithGeometry(v, g))
<1>1. WithGeometry(v, g) =
        ValidityOf("SimpleGeometry", "InvalidOffsetType", g, v.name, v.featureId)
  BY GeometryWritten
<1>2. IsConsistentValue("SimpleGeometry", "InvalidOffsetType", g)
  BY DEF IsConsistentValue
<1> QED
  BY <1>1, <1>2, Fields

\* A name or a feature id does not matter.
LEMMA NamedIsConsistent ==
  ASSUME NEW v, IsConsistent(v), NEW n
  PROVE  IsConsistent([v EXCEPT !.name = n]) /\ IsConsistent([v EXCEPT !.featureId = n])
<1>1. [v EXCEPT !.name = n] = ValidityOf(v.descr, v.offsetType, v.value, n, v.featureId)
  BY Changed DEF IsConsistent
<1>2. [v EXCEPT !.featureId = n] = ValidityOf(v.descr, v.offsetType, v.value, v.name, n)
  BY Changed DEF IsConsistent
<1> QED
  BY <1>1, <1>2, Fields DEF IsConsistent

\* A validity that was written and read is consistent.
LEMMA RestoredIsConsistent ==
  ASSUME NEW v, IsConsistent(v)
  PROVE  IsConsistent(Restored(v))
<1>1. CASE v.descr = "SimpleGeometry"
  BY <1>1, FreshIsConsistent, GeometryIsConsistent DEF Restored, IsConsistent, IsConsistentValue
<1>2. CASE v.descr = "NoGeometry" \/ (v.descr # "SimpleGeometry" /\ v.offsetType = "GeoPosOffset")
  BY <1>2 DEF Restored
<1>3. CASE v.descr \notin {"SimpleGeometry", "NoGeometry"} /\ v.offsetType # "GeoPosOffset"
  <2> DEFINE value == [k \in DOMAIN v.value |-> <<v.value[k][1], 0>>]
  <2>1. ASSUME NEW a, v.value = <<a>>
        PROVE  value = <<<<a[1], 0>>>>
    BY <2>1
  <2>2. ASSUME NEW a, NEW b, v.value = <<a, b>>
        PROVE  value = <<<<a[1], 0>>, <<b[1], 0>>>>
    BY <2>2
  <2>3. IsConsistentValue(v.descr, v.offsetType, value)
    <3> HIDE DEF value
    <3> QED
      BY <1>3, <2>1, <2>2 DEF IsConsistent, IsConsistentValue
  <2>4. Restored(v) = [v EXCEPT !.value = value]
    BY <1>3 DEF Restored
  <2> HIDE DEF value
  <2>5. Restored(v) = ValidityOf(v.descr, v.offsetType, value, v.name, v.featureId)
    BY <2>4, Changed, Zenon DEF IsConsistent
  <2> QED
    BY <2>3, <2>5, Fields
<1> QED
  BY <1>1, <1>2, <1>3

\* Offsets are copied as they are.
LEMMA ClonedOffsets ==
  ASSUME NEW v, IsConsistent(v), v.descr \notin {"SimpleGeometry", "NoGeometry"}
  PROVE  Cloned(v) = ValidityOf(v.descr, v.offsetType, v.value, NoName, NoId)
<1>1. v.descr = IF Len(v.value) = 1 THEN "OffsetPointValidity" ELSE "OffsetRangeValidity"
  <2>1. ASSUME NEW a, v.value = <<a>>
        PROVE  Len(v.value) = 1
    BY <2>1
  <2>2. ASSUME NEW a, NEW b, v.value = <<a, b>>
        PROVE  Len(v.value) # 1
    BY <2>2
  <2> QED
    BY <2>1, <2>2 DEF IsConsistent, IsConsistentValue
<1>2. Cloned(v) = WithOffsets(Fresh, v.offsetType, v.value)
  BY DEF Cloned
<1>3. Cloned(v) = ValidityOf(v.descr, v.offsetType, v.value, Fresh.name, Fresh.featureId)
  BY <1>1, <1>2, FreshIsConsistent, OffsetsWritten DEF IsConsistent
<1> QED
  BY <1>3 DEF Fresh

\* So is a clone.
LEMMA ClonedIsConsistent ==
  ASSUME NEW v, IsConsistent(v)
  PROVE  IsConsistent(Cloned(v))
<1>1. CASE v.descr = "NoGeometry"
  BY <1>1, FreshIsConsistent DEF Cloned
<1>2. CASE v.descr = "SimpleGeometry"
  <2>1. IsGeometry(ClonedGeometry(v.value))
    BY <1>2 DEF IsConsistent, IsConsistentValue, IsGeometry, ClonedGeometry
  <2> QED
    BY <1>2, <2>1, FreshIsConsistent, GeometryIsConsistent DEF Cloned, IsConsistent
<1>3. CASE v.descr \in {"OffsetPointValidity", "OffsetRangeValidity"}
  BY <1>3, ClonedOffsets, Fields DEF IsConsistent
<1> QED
  BY <1>1, <1>2, <1>3 DEF IsConsistent, IsConsistentValue

\* A collection has geometries.
LEMMA CollectionsHoldGeometries ==
  ASSUME NEW c \in Collections, NEW k \in DOMAIN c
  PROVE  IsGeometry(c[k])
BY ValidityAssumption DEF IsGeometry, ToSet

\* Every reachable validity is consistent.
LEMMA ValidityInvHolds == ValiditySpec => []ValidityInv
<1>1. ValidityInit => ValidityInv
  BY FreshIsConsistent DEF ValidityInit, ValidityInv
<1>2. ValidityInv /\ [ValidityNext]_restriction => ValidityInv'
  <2> SUFFICES ASSUME ValidityInv, [ValidityNext]_restriction
               PROVE  ValidityInv'
    OBVIOUS
  <2> USE DEF ValidityInv
  <2>1. ASSUME NEW call \in OffsetCalls, SetOffsets(call)
        PROVE  ValidityInv'
    BY <2>1, OffsetsAreConsistent DEF SetOffsets, IsConsistent
  <2>2. ASSUME NEW call \in OffsetCalls, NEW n, NewOffsets(call, n)
        PROVE  ValidityInv'
    BY <2>2, FreshIsConsistent, OffsetsAreConsistent, NamedIsConsistent DEF NewOffsets, IsConsistent
  <2>3. ASSUME NEW k \in DOMAIN collection,
               SetSimpleGeometry(collection[k]) \/ NewSimpleGeometry(collection[k])
        PROVE  ValidityInv'
    BY <2>3, FreshIsConsistent, GeometryIsConsistent, CollectionsHoldGeometries
    DEF SetSimpleGeometry, NewSimpleGeometry, IsConsistent
  <2>4. CASE NewDirection
    BY <2>4, FreshIsConsistent DEF NewDirection
  <2>5. ASSUME NEW n, SetGeometryName(n) \/ SetFeatureId(n)
        PROVE  ValidityInv'
    <3>1. CASE SetGeometryName(n)
      BY <3>1, NamedIsConsistent DEF SetGeometryName
    <3>2. CASE SetFeatureId(n)
      BY <3>2, NamedIsConsistent DEF SetFeatureId
    <3> QED
      BY <2>5, <3>1, <3>2
  <2>6. CASE WriteAndRead
    BY <2>6, RestoredIsConsistent DEF WriteAndRead
  <2>7. CASE CloneValidity
    BY <2>7, ClonedIsConsistent DEF CloneValidity
  <2>8. CASE UNCHANGED restriction
    BY <2>8 DEF restriction
  <2> QED
    BY <2>1, <2>2, <2>3, <2>4, <2>5, <2>6, <2>7, <2>8 DEF ValidityNext
<1> QED
  BY <1>1, <1>2, PTL DEF ValiditySpec

\* Only the second coordinates of numbers are lost, which nothing reads.
LEMMA RestoredMeansTheSame ==
  ASSUME NEW v, IsConsistent(v)
  PROVE  ComputeGeometry(Restored(v)) = ComputeGeometry(v)
<1>1. CASE v.descr = "SimpleGeometry"
  BY <1>1 DEF Restored, WithGeometry, Fresh, ComputeGeometry
<1>2. CASE v.descr = "NoGeometry" \/ (v.descr # "SimpleGeometry" /\ v.offsetType = "GeoPosOffset")
  <2>1. Restored(v) = v
    BY <1>2 DEF Restored
  <2> QED
    BY <2>1
<1>3. CASE v.descr \in {"OffsetPointValidity", "OffsetRangeValidity"} /\ v.offsetType # "GeoPosOffset"
  <2> DEFINE value == [k \in DOMAIN v.value |-> <<v.value[k][1], 0>>]
             r     == Restored(v)
  <2>1. r = [v EXCEPT !.value = value]
    BY <1>3 DEF Restored
  <2>2. /\ r.descr = v.descr /\ r.name = v.name /\ r.featureId = v.featureId
        /\ r.offsetType = v.offsetType /\ r.value = value
    BY <2>1, Changed DEF IsConsistent, ValidityOf
  <2>3. [k \in DOMAIN value |-> value[k][1]] = [k \in DOMAIN v.value |-> v.value[k][1]]
    OBVIOUS
  <2>4. Collection(r) = Collection(v)
    BY <2>2 DEF Collection
  <2> HIDE DEF value, r
  <2>5. ASSUME NEW line
        PROVE  Resolve(line, r) = Resolve(line, v)
    BY <1>3, <2>2, <2>3 DEF Resolve, IsConsistent, IsConsistentValue, OffsetTypes
  <2>6. ComputeGeometry(r) = ComputeGeometry(v)
    BY <1>3, <2>2, <2>4, <2>5 DEF ComputeGeometry
  <2> QED
    BY <2>6 DEF r
<1> QED
  BY <1>1, <1>2, <1>3 DEF IsConsistent, IsConsistentValue

\* A clone of a validity without names means the same.
LEMMA ClonedMeansTheSame ==
  ASSUME NEW v, IsConsistent(v), v.name = NoName, v.featureId = NoId
  PROVE  ComputeGeometry(Cloned(v)) = ComputeGeometry(v)
<1>1. CASE v.descr = "NoGeometry"
  <2>1. v = ValidityOf(v.descr, v.offsetType, v.value, v.name, v.featureId)
    BY Changed DEF IsConsistent
  <2>2. v.offsetType = "InvalidOffsetType" /\ v.value = <<>>
    BY <1>1 DEF IsConsistent, IsConsistentValue
  <2>3. Cloned(v) = Fresh
    BY <1>1 DEF Cloned
  <2>4. Cloned(v) = v
    BY <1>1, <2>1, <2>2, <2>3 DEF Fresh, ValidityOf
  <2> QED
    BY <2>4
<1>2. CASE v.descr = "SimpleGeometry"
  BY <1>2 DEF Cloned, ClonedGeometry, WithGeometry, Fresh, ComputeGeometry, IsConsistent, IsConsistentValue, IsGeometry
<1>3. CASE v.descr \in {"OffsetPointValidity", "OffsetRangeValidity"}
  <2>1. v = ValidityOf(v.descr, v.offsetType, v.value, v.name, v.featureId)
    BY Changed DEF IsConsistent
  <2>2. Cloned(v) = v
    BY <1>3, <2>1, ClonedOffsets
  <2> QED
    BY <2>2
<1> QED
  BY <1>1, <1>2, <1>3 DEF IsConsistent, IsConsistentValue

\* A clone loses the names, and nothing else.
LEMMA ClonedIsNameless ==
  ASSUME NEW v, IsConsistent(v)
  PROVE  ComputeGeometry(Cloned(v)) = ComputeGeometry(Nameless(v))
<1>1. PICK w : w = [v EXCEPT !.name = NoName]
  OBVIOUS
<1>2. IsConsistent(w) /\ w = ValidityOf(v.descr, v.offsetType, v.value, NoName, v.featureId)
  BY <1>1, NamedIsConsistent, Changed DEF IsConsistent
<1>3. Nameless(v) = [w EXCEPT !.featureId = NoId]
  BY <1>1 DEF Nameless
<1>4. /\ IsConsistent(Nameless(v))
      /\ Nameless(v) = ValidityOf(w.descr, w.offsetType, w.value, w.name, NoId)
  <2>1. IsRecord(w)
    BY <1>2 DEF IsConsistent
  <2>2. [w EXCEPT !.featureId = NoId] = ValidityOf(w.descr, w.offsetType, w.value, w.name, NoId)
    BY <2>1, Changed
  <2>3. IsConsistent([w EXCEPT !.featureId = NoId])
    BY <1>2, NamedIsConsistent
  <2> QED
    BY <1>3, <2>2, <2>3
<1>5. PICK u : u = Nameless(v)
  OBVIOUS
<1>6. /\ u.descr = v.descr /\ u.offsetType = v.offsetType /\ u.value = v.value
      /\ u.name = NoName /\ u.featureId = NoId
  BY <1>2, <1>4, <1>5 DEF ValidityOf
<1>7. ComputeGeometry(Cloned(u)) = ComputeGeometry(u)
  BY <1>4, <1>5, <1>6, ClonedMeansTheSame
<1>8. Cloned(u) = Cloned(v)
  BY <1>6 DEF Cloned
<1> QED
  BY <1>5, <1>7, <1>8

\* A validity that is written and read still describes the same points, and a clone those
\* that the validity without its names does, for any geometries and any calls of the setters.
THEOREM CopiesKeepTheirMeaning == ValiditySpec => []CopiesMeanTheSame
<1>1. ValidityInv => CopiesMeanTheSame
  BY RestoredMeansTheSame, ClonedIsNameless DEF ValidityInv, CopiesMeanTheSame
<1> QED
  BY <1>1, ValidityInvHolds, PTL

(***************************************************************************)
(* Only for nested polygons does intersects depend on the side its operands *)
(* are on. The stack of a query holds at most two geometries or null.      *)
(***************************************************************************)

Kinds == {"point", "bbox", "linestring", "polygon"}

IsOperand(v) == v.kind \in Kinds \/ v = Null

QueryInv ==
  \/ stack = <<>>
  \/ \E a : IsOperand(a) /\ stack = <<a>>
  \/ \E a, b : IsOperand(a) /\ IsOperand(b) /\ stack = <<a, b>>

\* The geo functions give geometries, ...
LEMMA ValuesAreOperands ==
  ASSUME NEW k \in Kinds, NEW points
  PROVE  IsOperand(Value(k, points))
BY DEF Kinds, IsOperand, Value

\* ... also polygons, ...
LEMMA PolygonsAreOperands ==
  ASSUME NEW rings
  PROVE  IsOperand(PolygonOf(rings))
<1>1. PolygonOf(rings).kind = "polygon"
  BY DEF PolygonOf, Value
<1> QED
  BY <1>1 DEF IsOperand, Kinds

\* ... for each type of a geometry, ...
LEMMA GeoValuesAreOperands ==
  ASSUME NEW g, g.type \in GeometryTypes \cup {"GeometryCollection"}, NEW v \in GeoValues(g)
  PROVE  IsOperand(v)
<1>1. CASE g.type \in {"Point", "MultiPoint"}
  <2>1. \E points : v = Value("point", points)
    BY <1>1 DEF GeoValues
  <2> QED
    BY <2>1, ValuesAreOperands DEF Kinds
<1>2. CASE g.type \in {"LineString", "MultiLineString"}
  <2>1. \E points : v = Value("linestring", points)
    BY <1>2 DEF GeoValues
  <2> QED
    BY <2>1, ValuesAreOperands DEF Kinds
<1>3. CASE g.type \in {"Polygon", "MultiPolygon"}
  <2>1. \E rings : v = PolygonOf(rings)
    BY <1>3 DEF GeoValues
  <2> QED
    BY <2>1, PolygonsAreOperands
<1>4. CASE g.type = "GeometryCollection"
  BY <1>4 DEF GeoValues, IsOperand
<1> QED
  BY <1>1, <1>2, <1>3, <1>4 DEF GeometryTypes

\* ... or one of a collection of them.
LEMMA GeoFnGivesOperands ==
  ASSUME NEW g \in Geometries, NEW v \in GeoFn(g)
  PROVE  IsOperand(v)
<1>1. CASE g.type # "GeometryCollection"
  BY <1>1, SimfilAssumption, GeoValuesAreOperands DEF GeoFn
<1>2. CASE g.type = "GeometryCollection"
  <2>1. PICK sub \in ToSet(g.coordinates) : v \in GeoValues(sub)
    BY <1>2 DEF GeoFn
  <2>2. sub.type \in GeometryTypes \cup {"GeometryCollection"}
    BY <1>2, <2>1, SimfilAssumption DEF GeometryTypes
  <2> QED
    BY <2>1, <2>2, GeoValuesAreOperands
<1> QED
  BY <1>1, <1>2
\* What is pushed lies on top.
LEMMA PushKeepsOperands ==
  ASSUME QueryInv, NEW v, IsOperand(v), Push(v)
  PROVE  QueryInv'
<1>1. CASE stack = <<>>
  <2>1. Append(<<>>, v) = <<v>>
    OBVIOUS
  <2> QED
    BY <1>1, <2>1 DEF QueryInv, Push
<1>2. ASSUME NEW a, IsOperand(a), stack = <<a>>
      PROVE  QueryInv'
  <2>a. PICK S : a \in S /\ v \in S
    <3>1. a \in {a, v} /\ v \in {a, v}
      OBVIOUS
    <3> QED
      BY <3>1
  <2>b. <<a>> \in Seq(S)
    BY <2>a
  <2>c. PICK t : t = Append(<<a>>, v)
    OBVIOUS
  <2>d. t \in Seq(S) /\ Len(t) = 2 /\ t[1] = a /\ t[2] = v
    BY <2>a, <2>b, <2>c, Len(<<a>>) = 1
  <2>e. PICK u : u = <<a, v>>
    OBVIOUS
  <2>f. u \in Seq(S) /\ Len(u) = 2 /\ u[1] = a /\ u[2] = v
    BY <2>a, <2>e
  <2>g. \A i \in 1 .. 2 : t[i] = u[i]
    BY <2>d, <2>f
  <2>1. Append(<<a>>, v) = <<a, v>>
    BY <2>c, <2>d, <2>e, <2>f, <2>g, SeqEqual
  <2> QED
    BY <1>2, <2>1 DEF QueryInv, Push
<1>3. ASSUME NEW a, NEW b, stack = <<a, b>>
      PROVE  FALSE
  <2>1. Len(<<a, b>>) = 2
    OBVIOUS
  <2> QED
    BY <1>3, <2>1 DEF Push
<1> QED
  BY <1>1, <1>2, <1>3 DEF QueryInv

\* A bounding box is a geometry.
LEMMA BoxesAreOperands ==
  ASSUME NEW v, IsOperand(v), v.kind # "null"
  PROVE  IsOperand(BoxOfValue(v))
<1>1. BoxOfValue(v) = v \/ \E points : BoxOfValue(v) = Value("bbox", points)
  BY DEF BoxOfValue
<1> QED
  BY <1>1, ValuesAreOperands DEF Kinds

\* It takes the place of what it is the box of.
LEMMA CallBBoxOfKeepsOperands ==
  ASSUME QueryInv, CallBBoxOf
  PROVE  QueryInv'
<1>1. ASSUME NEW a, IsOperand(a), stack = <<a>>
      PROVE  QueryInv'
  <2>1. Len(stack) = 1 /\ Last(stack) = a
    BY <1>1 DEF Last
  <2>2. stack' = <<BoxOfValue(a)>>
    BY <1>1, <2>1 DEF CallBBoxOf
  <2> QED
    BY <1>1, <2>1, <2>2, BoxesAreOperands DEF QueryInv, CallBBoxOf
<1>2. ASSUME NEW a, NEW b, IsOperand(a), IsOperand(b), stack = <<a, b>>
      PROVE  QueryInv'
  <2>1. Len(stack) = 2 /\ Last(stack) = b
    BY <1>2 DEF Last
  <2>2. stack' = <<a, BoxOfValue(b)>>
    BY <1>2, <2>1 DEF CallBBoxOf
  <2> QED
    BY <1>2, <2>1, <2>2, BoxesAreOperands DEF QueryInv, CallBBoxOf
<1> QED
  BY <1>1, <1>2 DEF QueryInv, CallBBoxOf

\* The stack of a query holds at most two values.
LEMMA QueryInvHolds == QuerySpec => []QueryInv
<1>1. QueryInit => QueryInv
  BY DEF QueryInit, QueryInv
<1>2. QueryInv /\ [QueryNext]_query => QueryInv'
  <2> SUFFICES ASSUME QueryInv, [QueryNext]_query
               PROVE  QueryInv'
    OBVIOUS
  <2>1. ASSUME NEW g \in Geometries, CallGeo(g)
        PROVE  QueryInv'
    BY <2>1, GeoFnGivesOperands, PushKeepsOperands DEF CallGeo
  <2>2. ASSUME NEW p, CallPoint(p) \/ CallBBox(p)
        PROVE  QueryInv'
    BY <2>2, ValuesAreOperands, PushKeepsOperands DEF CallPoint, CallBBox, Kinds
  <2>3. ASSUME NEW l, CallLineString(l)
        PROVE  QueryInv'
    <3>1. IsOperand(LineStringFn(l))
      BY ValuesAreOperands DEF LineStringFn, Kinds
    <3> QED
      BY <2>3, <3>1, PushKeepsOperands DEF CallLineString
  <2>4. CASE CallBBoxOf
    BY <2>4, CallBBoxOfKeepsOperands
  <2>5. CASE MissingField
    BY <2>5, PushKeepsOperands DEF MissingField, IsOperand
  <2>6. CASE (\E op : Operator(op)) \/ UNCHANGED query
    BY <2>6 DEF Operator, query, QueryInv
  <2> QED
    BY <2>1, <2>2, <2>3, <2>4, <2>5, <2>6 DEF QueryNext
<1> QED
  BY <1>1, <1>2, PTL DEF QuerySpec

(***************************************************************************)
(* Symmetry                                                                *)
(***************************************************************************)
\* The tests of two segments swap their places with the segments.
LEMMA SegmentsAreSymmetric ==
  ASSUME NEW a, NEW b, NEW c, NEW d
  PROVE  LineIntersects(a, b, c, d) <=> LineIntersects(c, d, a, b)
BY DEF LineIntersects

\* Lines intersect where two of their segments do.
LEMMA LinesAreSymmetric ==
  ASSUME NEW k, NEW l
  PROVE  LinesIntersect(k, l) <=> LinesIntersect(l, k)
BY SegmentsAreSymmetric DEF LinesIntersect

\* Boxes intersect when they overlap both ways.
LEMMA BoxesAreSymmetric ==
  ASSUME NEW b, NEW o
  PROVE  BoxesIntersect(b, o) <=> BoxesIntersect(o, b)
BY DEF BoxesIntersect

\* Only the kinds of the operands decide who asks whom.
LEMMA AnswerOfIntersects ==
  ASSUME NEW l, NEW r, l.kind \in Kinds, r.kind \in Kinds
  PROVE  AnswerTo("intersects", l, r) = Said(Intersects(l, r))
<1>1. l # Null /\ r # Null
  BY DEF Kinds, Null, Value
<1> QED
  BY <1>1 DEF AnswerTo

\* Each pair of kinds is asked both ways with the same answer.
LEMMA IntersectsEitherWay ==
  ASSUME NEW l, NEW r, l.kind \in Kinds, r.kind \in Kinds, {l.kind, r.kind} # {"polygon"}
  PROVE  Said(Intersects(l, r)) = Said(Intersects(r, l))
<1>1. CASE l.kind = "point"
  BY <1>1 DEF Kinds, Intersects
<1>2. CASE l.kind = "bbox"
  <2>1. CASE r.kind = "bbox"
    BY <1>2, <2>1, BoxesAreSymmetric DEF Intersects, Said
  <2>2. CASE r.kind # "bbox"
    BY <1>2, <2>2 DEF Kinds, Intersects
  <2> QED
    BY <2>1, <2>2
<1>3. CASE l.kind = "linestring"
  <2>1. CASE r.kind = "linestring"
    BY <1>3, <2>1, LinesAreSymmetric DEF Intersects, Said
  <2>2. CASE r.kind # "linestring"
    BY <1>3, <2>2 DEF Kinds, Intersects
  <2> QED
    BY <2>1, <2>2
<1>4. CASE l.kind = "polygon"
  BY <1>4 DEF Kinds, Intersects
<1> QED
  BY <1>1, <1>2, <1>3, <1>4 DEF Kinds

\* Two polygons whose outlines meet intersect either way, and so do two that have a
\* corner of each other.
LEMMA PolygonsEitherWay ==
  ASSUME NEW l, NEW r, l.kind = "polygon", r.kind = "polygon", ~Nested(l, r)
  PROVE  Said(Intersects(l, r)) = Said(Intersects(r, l))
<1>1. Intersects(l, r) <=> HasCornerOf(r, l) \/ LinesIntersect(r.points, l.points)
  BY DEF Intersects, PolygonIntersectsLine, HasCornerOf
<1>2. Intersects(r, l) <=> HasCornerOf(l, r) \/ LinesIntersect(l.points, r.points)
  BY DEF Intersects, PolygonIntersectsLine, HasCornerOf
<1>3. LinesIntersect(l.points, r.points) \/ (HasCornerOf(l, r) <=> HasCornerOf(r, l))
  BY DEF Nested, HasCornerOf
<1> QED
  BY <1>1, <1>2, <1>3, LinesAreSymmetric DEF Said

\* "intersects" of the query language answers the same for both orders of its operands,
\* whatever their kinds, unless they are two polygons one of which lies in the other.
THEOREM SidesMatterForNestedPolygonsOnly == QuerySpec => []IntersectsIsSymmetric
<1>1. QueryInv => IntersectsIsSymmetric
  <2> SUFFICES ASSUME QueryInv, Operands, ~Nested(stack[1], stack[2])
               PROVE  AnswerTo("intersects", stack[1], stack[2]) = AnswerTo("intersects", stack[2], stack[1])
    BY DEF IntersectsIsSymmetric
  <2>1. PICK a, b : IsOperand(a) /\ IsOperand(b) /\ stack = <<a, b>>
    BY DEF QueryInv, Operands
  <2>2. a # Null /\ b # Null
    BY <2>1 DEF Operands, ToSet
  <2>3. a.kind \in Kinds /\ b.kind \in Kinds
    BY <2>1, <2>2 DEF IsOperand
  <2>4. stack[1] = a /\ stack[2] = b
    BY <2>1
  <2>5. Said(Intersects(a, b)) = Said(Intersects(b, a))
    BY <2>3, <2>4, IntersectsEitherWay, PolygonsEitherWay
  <2> QED
    BY <2>3, <2>4, <2>5, AnswerOfIntersects
<1> QED
  BY <1>1, QueryInvHolds, PTL

(***************************************************************************)
(* Segments intersect, as the code sees it, where they have a point in common. *)
(*                                                                         *)
(* Coordinates are taken from one end of a segment; u and v are the directions *)
(* of the two, and w leads from the one to the other.                      *)
(***************************************************************************)

\* w lies between zero and u.
Spans(u, w) == (0 <= w /\ w <= u) \/ (u <= w /\ w <= 0)

\* Scaling up by a positive factor keeps what is spanned.
LEMMA ScaledUp ==
  ASSUME NEW u \in Int, NEW w \in Int, NEW x \in Int, NEW y \in Int,
         0 < u, 0 <= w, w <= u, 0 <= y, x * u = w * y
  PROVE  0 <= x /\ x <= y
<1>1. w * y >= 0 /\ w * y <= u * y
  OBVIOUS
<1>2. x >= 0
  <2>1. ASSUME x <= -1
        PROVE  FALSE
    <3>1. x * u < 0
      BY <2>1
    <3> QED
      BY <1>1, <3>1
  <2> QED
    BY <2>1
<1>3. x <= y
  <2>1. ASSUME x >= y + 1
        PROVE  FALSE
    <3>1. x * u >= (y + 1) * u
      BY <2>1
    <3>2. (y + 1) * u = u * y + u
      OBVIOUS
    <3>3. x * u \in Int /\ u * y \in Int /\ w * y \in Int
      OBVIOUS
    <3> QED
      BY <1>1, <3>1, <3>2, <3>3
  <2> QED
    BY <2>1
<1> QED
  BY <1>2, <1>3

\* What is proportional lies in proportion.
LEMMA Scaled ==
  ASSUME NEW u \in Int, NEW w \in Int, NEW x \in Int, NEW y \in Int,
         u # 0, Spans(u, w), x * u = w * y
  PROVE  Spans(y, x)
<1>1. CASE u > 0
  <2>1. 0 <= w /\ w <= u
    BY <1>1 DEF Spans
  <2>2. CASE y >= 0
    BY <1>1, <2>1, <2>2, ScaledUp DEF Spans
  <2>3. CASE y < 0
    <3>1. (-x) * u = w * (-y)
      OBVIOUS
    <3>2. 0 <= -x /\ -x <= -y
      BY <1>1, <2>1, <2>3, <3>1, ScaledUp
    <3> QED
      BY <3>2 DEF Spans
  <2> QED
    BY <2>2, <2>3
<1>2. CASE u < 0
  <2>1. 0 <= -w /\ -w <= -u /\ 0 < -u
    BY <1>2 DEF Spans
  <2>2. CASE y >= 0
    <3>1. x * (-u) = (-w) * y
      OBVIOUS
    <3>2. 0 <= x /\ x <= y
      BY <2>1, <2>2, <3>1, ScaledUp
    <3> QED
      BY <3>2 DEF Spans
  <2>3. CASE y < 0
    <3>1. (-x) * (-u) = (-w) * (-y)
      OBVIOUS
    <3>2. 0 <= -x /\ -x <= -y
      BY <2>1, <2>3, <3>1, ScaledUp
    <3> QED
      BY <3>2 DEF Spans
  <2> QED
    BY <2>2, <2>3
<1> QED
  BY <1>1, <1>2

\* u and v are two segments, w leads from the start of the first to the start of the
\* second. If the second starts on the first, then the first is cut in proportion.
LEMMA StartsOnIt ==
  ASSUME NEW u1 \in Int, NEW u2 \in Int, NEW v1 \in Int, NEW v2 \in Int,
         NEW w1 \in Int, NEW w2 \in Int,
         w1 * u2 - w2 * u1 = 0, Spans(u1, w1), Spans(u2, w2)
  PROVE  Spans(u1 * v2 - u2 * v1, w1 * v2 - w2 * v1)
<1> DEFINE D == u1 * v2 - u2 * v1
           S == w1 * v2 - w2 * v1
<1>1. D \in Int /\ S \in Int
  OBVIOUS
<1>2. S * u1 = w1 * D
  <2>1. S * u1 - w1 * D = v1 * (w1 * u2 - w2 * u1)
    OBVIOUS
  <2>2. v1 * (w1 * u2 - w2 * u1) = 0
    OBVIOUS
  <2>3. S * u1 \in Int /\ w1 * D \in Int
    OBVIOUS
  <2> QED
    BY <2>1, <2>2, <2>3
<1>3. S * u2 = w2 * D
  <2>1. S * u2 - w2 * D = v2 * (w1 * u2 - w2 * u1)
    OBVIOUS
  <2>2. v2 * (w1 * u2 - w2 * u1) = 0
    OBVIOUS
  <2>3. S * u2 \in Int /\ w2 * D \in Int
    OBVIOUS
  <2> QED
    BY <2>1, <2>2, <2>3
<1>4. CASE u1 # 0
  <2> HIDE DEF D, S
  <2> QED
    BY <1>1, <1>2, <1>4, Scaled DEF D, S
<1>5. CASE u2 # 0
  BY <1>1, <1>3, <1>5, Scaled
<1>6. CASE u1 = 0 /\ u2 = 0
  <2>1. w1 = 0 /\ w2 = 0
    BY <1>6 DEF Spans
  <2> QED
    BY <1>6, <2>1 DEF Spans
<1> QED
  BY <1>4, <1>5, <1>6

\* All is on one line.
Aligned(u1, u2, v1, v2, w1, w2) ==
  w1 * u2 - w2 * u1 = 0 /\ w1 * v2 - w2 * v1 = 0 /\ u1 * v2 - u2 * v1 = 0

\* Then one coordinate that varies is enough.
LEMMA OneCoordinateDecides ==
  ASSUME NEW u1 \in Int, NEW u2 \in Int, NEW v1 \in Int, NEW v2 \in Int,
         NEW w1 \in Int, NEW w2 \in Int,
         Aligned(u1, u2, v1, v2, w1, w2),
         u1 # 0 \/ v1 # 0, Spans(u1, w1)
  PROVE  Spans(u2, w2)
<1>1. CASE u1 # 0
  <2>1. w2 * u1 = w1 * u2
    BY DEF Aligned
  <2> QED
    BY <1>1, <2>1, Scaled
<1>2. CASE u1 = 0
  <2>1. w1 = 0
    BY <1>2 DEF Spans
  <2>2. v1 # 0
    BY <1>2
  <2>3. u2 * v1 = 0 /\ w2 * v1 = 0
    BY <1>2, <2>1 DEF Aligned
  <2>4. u2 = 0 /\ w2 = 0
    BY <2>2, <2>3
  <2> QED
    BY <2>4 DEF Spans
<1> QED
  BY <1>1, <1>2

\* The four tests for an end of one segment on the other.
Touching(u1, u2, v1, v2, w1, w2) ==
  \/ w1 * u2 - w2 * u1 = 0 /\ Spans(u1, w1) /\ Spans(u2, w2)
  \/ (w1 * u2 - w2 * u1) - (u1 * v2 - u2 * v1) = 0 /\ Spans(u1, w1 + v1) /\ Spans(u2, w2 + v2)
  \/ -(w1 * v2 - w2 * v1) = 0 /\ Spans(v1, -w1) /\ Spans(v2, -w2)
  \/ (u1 * v2 - u2 * v1) - (w1 * v2 - w2 * v1) = 0 /\ Spans(v1, u1 - w1) /\ Spans(v2, u2 - w2)

\* Of segments that touch, each cuts or touches the line of the other.
LEMMA TouchingCutsBoth ==
  ASSUME NEW u1 \in Int, NEW u2 \in Int, NEW v1 \in Int, NEW v2 \in Int,
         NEW w1 \in Int, NEW w2 \in Int, Touching(u1, u2, v1, v2, w1, w2)
  PROVE  /\ Spans(u1 * v2 - u2 * v1, w1 * v2 - w2 * v1)
         /\ Spans(u1 * v2 - u2 * v1, w1 * u2 - w2 * u1)
<1>1. PICK D, S, T : D = u1 * v2 - u2 * v1 /\ S = w1 * v2 - w2 * v1 /\ T = w1 * u2 - w2 * u1
  OBVIOUS
<1>2. D \in Int /\ S \in Int /\ T \in Int
  BY <1>1
<1>3. CASE T = 0 /\ Spans(u1, w1) /\ Spans(u2, w2)
  <2>1. Spans(D, S)
    BY <1>1, <1>3, StartsOnIt
  <2> QED
    BY <1>1, <1>2, <1>3, <2>1 DEF Spans
<1>4. CASE T - D = 0 /\ Spans(u1, w1 + v1) /\ Spans(u2, w2 + v2)
  <2>1. PICK x1, x2, y1, y2 : x1 = -v1 /\ x2 = -v2 /\ y1 = w1 + v1 /\ y2 = w2 + v2
    OBVIOUS
  <2>2. x1 \in Int /\ x2 \in Int /\ y1 \in Int /\ y2 \in Int
    BY <2>1
  <2>3. /\ y1 * u2 - y2 * u1 = T - D
        /\ u1 * x2 - u2 * x1 = -D
        /\ y1 * x2 - y2 * x1 = -S
    BY <1>1, <2>1
  <2>4. Spans(u1 * x2 - u2 * x1, y1 * x2 - y2 * x1)
    BY <1>4, <2>1, <2>2, <2>3, StartsOnIt
  <2>5. Spans(-D, -S)
    BY <2>3, <2>4
  <2>6. Spans(D, S) /\ Spans(D, T)
    BY <1>2, <1>4, <2>5 DEF Spans
  <2> QED
    BY <1>1, <2>6
<1>5. CASE -S = 0 /\ Spans(v1, -w1) /\ Spans(v2, -w2)
  <2>1. PICK y1, y2 : y1 = -w1 /\ y2 = -w2
    OBVIOUS
  <2>2. y1 \in Int /\ y2 \in Int
    BY <2>1
  <2>3. /\ y1 * v2 - y2 * v1 = -S
        /\ v1 * u2 - v2 * u1 = -D
        /\ y1 * u2 - y2 * u1 = -T
    BY <1>1, <2>1
  <2>4. Spans(v1 * u2 - v2 * u1, y1 * u2 - y2 * u1)
    BY <1>5, <2>1, <2>2, <2>3, StartsOnIt
  <2>5. Spans(-D, -T)
    BY <2>3, <2>4
  <2>6. Spans(D, S) /\ Spans(D, T)
    BY <1>2, <1>5, <2>5 DEF Spans
  <2> QED
    BY <1>1, <2>6
<1>6. CASE D - S = 0 /\ Spans(v1, u1 - w1) /\ Spans(v2, u2 - w2)
  <2>1. PICK x1, x2, y1, y2 : x1 = -u1 /\ x2 = -u2 /\ y1 = u1 - w1 /\ y2 = u2 - w2
    OBVIOUS
  <2>2. x1 \in Int /\ x2 \in Int /\ y1 \in Int /\ y2 \in Int
    BY <2>1
  <2>3. /\ y1 * v2 - y2 * v1 = D - S
        /\ v1 * x2 - v2 * x1 = D
        /\ y1 * x2 - y2 * x1 = T
    BY <1>1, <2>1
  <2>4. Spans(v1 * x2 - v2 * x1, y1 * x2 - y2 * x1)
    BY <1>6, <2>1, <2>2, <2>3, StartsOnIt
  <2>5. Spans(D, T)
    BY <2>3, <2>4
  <2>6. Spans(D, S) /\ Spans(D, T)
    BY <1>2, <1>6, <2>5 DEF Spans
  <2> QED
    BY <1>1, <2>6
<1> QED
  BY <1>1, <1>3, <1>4, <1>5, <1>6 DEF Touching

\* On one coordinate: two intervals overlap if and only if one has an end of the other.
Overlapping(u, v, w) == Spans(u, w) \/ Spans(u, w + v) \/ Spans(v, -w) \/ Spans(v, u - w)

\* Parallel segments that overlap have a point in common.
LEMMA OverlapTouches ==
  ASSUME NEW u1 \in Int, NEW u2 \in Int, NEW v1 \in Int, NEW v2 \in Int,
         NEW w1 \in Int, NEW w2 \in Int, Aligned(u1, u2, v1, v2, w1, w2),
         u1 # 0 \/ v1 # 0, Overlapping(u1, v1, w1)
  PROVE  Touching(u1, u2, v1, v2, w1, w2)
<1>1. CASE Spans(u1, w1)
  <2>1. Spans(u2, w2)
    BY <1>1, OneCoordinateDecides
  <2> QED
    BY <1>1, <2>1 DEF Touching, Aligned
<1>2. CASE Spans(u1, w1 + v1)
  <2>1. PICK y1, y2 : y1 = w1 + v1 /\ y2 = w2 + v2
    OBVIOUS
  <2>2. y1 \in Int /\ y2 \in Int
    BY <2>1
  <2>3. Aligned(u1, u2, v1, v2, y1, y2)
    BY <2>1 DEF Aligned
  <2>4. Spans(u2, y2)
    BY <1>2, <2>1, <2>2, <2>3, OneCoordinateDecides
  <2> QED
    BY <1>2, <2>1, <2>4 DEF Touching, Aligned
<1>3. CASE Spans(v1, -w1)
  <2>1. PICK y1, y2 : y1 = -w1 /\ y2 = -w2
    OBVIOUS
  <2>2. y1 \in Int /\ y2 \in Int
    BY <2>1
  <2>3. Aligned(v1, v2, u1, u2, y1, y2)
    BY <2>1 DEF Aligned
  <2>4. Spans(v2, y2)
    BY <1>3, <2>1, <2>2, <2>3, OneCoordinateDecides
  <2> QED
    BY <1>3, <2>1, <2>4 DEF Touching, Aligned
<1>4. CASE Spans(v1, u1 - w1)
  <2>1. PICK y1, y2 : y1 = u1 - w1 /\ y2 = u2 - w2
    OBVIOUS
  <2>2. y1 \in Int /\ y2 \in Int
    BY <2>1
  <2>3. Aligned(v1, v2, u1, u2, y1, y2)
    BY <2>1 DEF Aligned
  <2>4. Spans(v2, y2)
    BY <1>4, <2>1, <2>2, <2>3, OneCoordinateDecides
  <2> QED
    BY <1>4, <2>1, <2>4 DEF Touching, Aligned
<1> QED
  BY <1>1, <1>2, <1>3, <1>4 DEF Overlapping

\* The two coordinates have the same part.
LEMMA OverlapTouchesAcross ==
  ASSUME NEW u1 \in Int, NEW u2 \in Int, NEW v1 \in Int, NEW v2 \in Int,
         NEW w1 \in Int, NEW w2 \in Int, Aligned(u1, u2, v1, v2, w1, w2),
         u2 # 0 \/ v2 # 0, Overlapping(u2, v2, w2)
  PROVE  Touching(u1, u2, v1, v2, w1, w2)
<1>1. Aligned(u2, u1, v2, v1, w2, w1)
  BY DEF Aligned
<1>2. Touching(u2, u1, v2, v1, w2, w1)
  BY <1>1, OverlapTouches
<1>3. /\ w1 * u2 - w2 * u1 = 0
      /\ (w1 * u2 - w2 * u1) - (u1 * v2 - u2 * v1) = 0
      /\ -(w1 * v2 - w2 * v1) = 0
      /\ (u1 * v2 - u2 * v1) - (w1 * v2 - w2 * v1) = 0
  BY DEF Aligned
<1> QED
  BY <1>2, <1>3 DEF Touching

\* A segment without length is a point.
LEMMA PointsTouch ==
  ASSUME NEW w1 \in Int, NEW w2 \in Int, Overlapping(0, 0, w1), Overlapping(0, 0, w2)
  PROVE  Touching(0, 0, 0, 0, w1, w2)
BY DEF Overlapping, Touching, Spans

\* So parallel segments on one line meet where they overlap.
LEMMA ParallelSegments ==
  ASSUME NEW u1 \in Int, NEW u2 \in Int, NEW v1 \in Int, NEW v2 \in Int,
         NEW w1 \in Int, NEW w2 \in Int, u1 * v2 - u2 * v1 = 0
  PROVE  Touching(u1, u2, v1, v2, w1, w2) <=>
           /\ w1 * u2 - w2 * u1 = 0 /\ w1 * v2 - w2 * v1 = 0
           /\ Overlapping(u1, v1, w1) /\ Overlapping(u2, v2, w2)
<1>1. ASSUME Touching(u1, u2, v1, v2, w1, w2)
      PROVE  /\ w1 * u2 - w2 * u1 = 0 /\ w1 * v2 - w2 * v1 = 0
             /\ Overlapping(u1, v1, w1) /\ Overlapping(u2, v2, w2)
  <2>1. Spans(0, w1 * v2 - w2 * v1) /\ Spans(0, w1 * u2 - w2 * u1)
    BY <1>1, TouchingCutsBoth
  <2>2. w1 * u2 - w2 * u1 = 0 /\ w1 * v2 - w2 * v1 = 0
    BY <2>1 DEF Spans
  <2>3. Overlapping(u1, v1, w1) /\ Overlapping(u2, v2, w2)
    BY <1>1 DEF Touching, Overlapping
  <2> QED
    BY <2>2, <2>3
<1>2. ASSUME w1 * u2 - w2 * u1 = 0, w1 * v2 - w2 * v1 = 0,
             Overlapping(u1, v1, w1), Overlapping(u2, v2, w2)
      PROVE  Touching(u1, u2, v1, v2, w1, w2)
  <2>1. CASE u1 # 0 \/ v1 # 0
    BY <1>2, <2>1, OverlapTouches DEF Aligned
  <2>2. CASE u2 # 0 \/ v2 # 0
    BY <1>2, <2>2, OverlapTouchesAcross DEF Aligned
  <2>3. CASE u1 = 0 /\ u2 = 0 /\ v1 = 0 /\ v2 = 0
    BY <1>2, <2>3, PointsTouch
  <2> QED
    BY <2>1, <2>2, <2>3
<1> QED
  BY <1>1, <1>2

(***************************************************************************)
(* Segments between points                                                 *)
(***************************************************************************)
Turn(x) == IF x = 0 THEN "collinear" ELSE IF x > 0 THEN "clockwise" ELSE "counterclockwise"

\* A point is in the box of two when each coordinate is between theirs.
LEMMA Bounds ==
  ASSUME NEW x \in Int, NEW y \in Int
  PROVE  /\ Low(x, y) = IF x <= y THEN x ELSE y
         /\ High(x, y) = IF x <= y THEN y ELSE x
<1>1. PICK m : m = IF x <= y THEN x ELSE y
  OBVIOUS
<1>2. m \in {x, y} /\ \A z \in {x, y} : m <= z
  BY <1>1
<1>3. \A n \in {x, y} : (\A z \in {x, y} : n <= z) => n = m
  BY <1>1
<1>4. Low(x, y) = m
  BY <1>2, <1>3 DEF Low, Min
<1>5. PICK h : h = IF x <= y THEN y ELSE x
  OBVIOUS
<1>6. h \in {x, y} /\ \A z \in {x, y} : h >= z
  BY <1>5
<1>7. \A n \in {x, y} : (\A z \in {x, y} : n >= z) => n = h
  BY <1>5
<1>8. High(x, y) = h
  BY <1>6, <1>7 DEF High, Max
<1> QED
  BY <1>1, <1>4, <1>5, <1>8

\* pointOnSegment, from the first end on.
LEMMA SegmentHasPoint ==
  ASSUME NEW a \in Int \X Int, NEW b \in Int \X Int, NEW q \in Int \X Int
  PROVE  PointOnSegment(a, q, b) <=>
           Spans(b[1] - a[1], q[1] - a[1]) /\ Spans(b[2] - a[2], q[2] - a[2])
<1>1. \A k \in 1 .. 2 : a[k] \in Int /\ b[k] \in Int /\ q[k] \in Int
  OBVIOUS
<1>2. ASSUME NEW k \in 1 .. 2
      PROVE  Low(a[k], b[k]) <= q[k] /\ q[k] <= High(a[k], b[k]) <=> Spans(b[k] - a[k], q[k] - a[k])
  BY <1>1, Bounds DEF Spans
<1> QED
  BY <1>2 DEF PointOnSegment

\* The three outcomes of orientation.
LEMMA TurnOf ==
  ASSUME NEW a, NEW q, NEW b
  PROVE  Orientation(a, q, b) = Turn((q[2] - a[2]) * (b[1] - q[1]) - (q[1] - a[1]) * (b[2] - q[2]))
BY DEF Orientation, Turn

\* Two segments by the ways between their ends.
Ways(a, b, c, d, u1, u2, v1, v2, w1, w2) ==
  /\ a \in Int \X Int /\ b \in Int \X Int /\ c \in Int \X Int /\ d \in Int \X Int
  /\ u1 = b[1] - a[1] /\ u2 = b[2] - a[2]
  /\ v1 = d[1] - c[1] /\ v2 = d[2] - c[2]
  /\ w1 = c[1] - a[1] /\ w2 = c[2] - a[2]

\* The five tests of the code, from the first point of the first segment on.
LEMMA IntersectsByWays ==
  ASSUME NEW a, NEW b, NEW c, NEW d, NEW u1, NEW u2, NEW v1, NEW v2, NEW w1, NEW w2,
         Ways(a, b, c, d, u1, u2, v1, v2, w1, w2),
         NEW D, D = u1 * v2 - u2 * v1, NEW S, S = w1 * v2 - w2 * v1, NEW T, T = w1 * u2 - w2 * u1
  PROVE  LineIntersects(a, b, c, d) <=>
           \/ Turn(T) # Turn(T - D) /\ Turn(-S) # Turn(D - S)
           \/ Touching(u1, u2, v1, v2, w1, w2)
<1>1. PICK a1, a2, b1, b2, c1, c2, d1, d2 :
        /\ a1 = a[1] /\ a2 = a[2] /\ b1 = b[1] /\ b2 = b[2]
        /\ c1 = c[1] /\ c2 = c[2] /\ d1 = d[1] /\ d2 = d[2]
  OBVIOUS
<1>2. /\ a1 \in Int /\ a2 \in Int /\ b1 \in Int /\ b2 \in Int
      /\ c1 \in Int /\ c2 \in Int /\ d1 \in Int /\ d2 \in Int
  BY <1>1 DEF Ways
<1>3. /\ u1 = b1 - a1 /\ u2 = b2 - a2 /\ v1 = d1 - c1 /\ v2 = d2 - c2
      /\ w1 = c1 - a1 /\ w2 = c2 - a2
  BY <1>1 DEF Ways
<1>4. /\ (b2 - a2) * (c1 - b1) - (b1 - a1) * (c2 - b2) = T
      /\ (b2 - a2) * (d1 - b1) - (b1 - a1) * (d2 - b2) = T - D
      /\ (d2 - c2) * (a1 - d1) - (d1 - c1) * (a2 - d2) = -S
      /\ (d2 - c2) * (b1 - d1) - (d1 - c1) * (b2 - d2) = D - S
  BY <1>2, <1>3
<1>5. Orientation(a, b, c) = Turn(T)
  <2>1. Orientation(a, b, c) = Turn((b[2] - a[2]) * (c[1] - b[1]) - (b[1] - a[1]) * (c[2] - b[2]))
    BY TurnOf, Zenon
  <2>2. (b[2] - a[2]) * (c[1] - b[1]) - (b[1] - a[1]) * (c[2] - b[2]) = (b2 - a2) * (c1 - b1) - (b1 - a1) * (c2 - b2)
    BY <1>1, Zenon
  <2> QED
    BY <1>4, <2>1, <2>2, Zenon
<1>6. Orientation(a, b, d) = Turn(T - D)
  <2>1. Orientation(a, b, d) = Turn((b[2] - a[2]) * (d[1] - b[1]) - (b[1] - a[1]) * (d[2] - b[2]))
    BY TurnOf, Zenon
  <2>2. (b[2] - a[2]) * (d[1] - b[1]) - (b[1] - a[1]) * (d[2] - b[2]) = (b2 - a2) * (d1 - b1) - (b1 - a1) * (d2 - b2)
    BY <1>1, Zenon
  <2> QED
    BY <1>4, <2>1, <2>2, Zenon
<1>7. Orientation(c, d, a) = Turn(-S)
  <2>1. Orientation(c, d, a) = Turn((d[2] - c[2]) * (a[1] - d[1]) - (d[1] - c[1]) * (a[2] - d[2]))
    BY TurnOf, Zenon
  <2>2. (d[2] - c[2]) * (a[1] - d[1]) - (d[1] - c[1]) * (a[2] - d[2]) = (d2 - c2) * (a1 - d1) - (d1 - c1) * (a2 - d2)
    BY <1>1, Zenon
  <2> QED
    BY <1>4, <2>1, <2>2, Zenon
<1>8. Orientation(c, d, b) = Turn(D - S)
  <2>1. Orientation(c, d, b) = Turn((d[2] - c[2]) * (b[1] - d[1]) - (d[1] - c[1]) * (b[2] - d[2]))
    BY TurnOf, Zenon
  <2>2. (d[2] - c[2]) * (b[1] - d[1]) - (d[1] - c[1]) * (b[2] - d[2]) = (d2 - c2) * (b1 - d1) - (d1 - c1) * (b2 - d2)
    BY <1>1, Zenon
  <2> QED
    BY <1>4, <2>1, <2>2, Zenon
<1>9. D \in Int /\ S \in Int /\ T \in Int
  BY <1>2, <1>3
<1>10. \A x \in Int : Turn(x) = "collinear" <=> x = 0
  BY DEF Turn
<1>11. PointOnSegment(a, c, b) <=> Spans(u1, w1) /\ Spans(u2, w2)
  BY SegmentHasPoint DEF Ways
<1>12. PointOnSegment(a, d, b) <=> Spans(u1, w1 + v1) /\ Spans(u2, w2 + v2)
  <2>1. d1 - a1 = w1 + v1 /\ d2 - a2 = w2 + v2
    BY <1>2, <1>3
  <2> QED
    BY <1>1, <2>1, SegmentHasPoint DEF Ways
<1>13. PointOnSegment(c, a, d) <=> Spans(v1, -w1) /\ Spans(v2, -w2)
  <2>1. a1 - c1 = -w1 /\ a2 - c2 = -w2
    BY <1>2, <1>3
  <2> QED
    BY <1>1, <2>1, SegmentHasPoint DEF Ways
<1>14. PointOnSegment(c, b, d) <=> Spans(v1, u1 - w1) /\ Spans(v2, u2 - w2)
  <2>1. b1 - c1 = u1 - w1 /\ b2 - c2 = u2 - w2
    BY <1>2, <1>3
  <2> QED
    BY <1>1, <2>1, SegmentHasPoint DEF Ways
<1>15. /\ Turn(T) = "collinear" <=> T = 0
       /\ Turn(T - D) = "collinear" <=> T - D = 0
       /\ Turn(-S) = "collinear" <=> -S = 0
       /\ Turn(D - S) = "collinear" <=> D - S = 0
  <2>1. T - D \in Int /\ -S \in Int /\ D - S \in Int
    BY <1>9
  <2> QED
    BY <1>9, <1>10, <2>1
<1>16. Touching(u1, u2, v1, v2, w1, w2) <=>
         \/ T = 0 /\ PointOnSegment(a, c, b)
         \/ T - D = 0 /\ PointOnSegment(a, d, b)
         \/ -S = 0 /\ PointOnSegment(c, a, d)
         \/ D - S = 0 /\ PointOnSegment(c, b, d)
  BY <1>11, <1>12, <1>13, <1>14, Zenon DEF Touching
<1> QED
  BY <1>5, <1>6, <1>7, <1>8, <1>15, <1>16, Zenon DEF LineIntersects

\* Opposite turns have opposite signs.
LEMMA Crossing ==
  ASSUME NEW D \in Int, NEW S \in Int, NEW T \in Int
  PROVE  /\ D # 0 => (Turn(T) # Turn(T - D) /\ Turn(-S) # Turn(D - S) <=> Spans(D, S) /\ Spans(D, T))
         /\ D = 0 => Turn(T) = Turn(T - D)
<1>1. D # 0 => (Turn(T) # Turn(T - D) <=> Spans(D, T))
  BY DEF Turn, Spans
<1>2. D # 0 => (Turn(-S) # Turn(D - S) <=> Spans(D, S))
  BY DEF Turn, Spans
<1> QED
  BY <1>1, <1>2

\* And the common point, from there on.
LEMMA MeetByWays ==
  ASSUME NEW a, NEW b, NEW c, NEW d, NEW u1, NEW u2, NEW v1, NEW v2, NEW w1, NEW w2,
         Ways(a, b, c, d, u1, u2, v1, v2, w1, w2),
         NEW D, D = u1 * v2 - u2 * v1, NEW S, S = w1 * v2 - w2 * v1, NEW T, T = w1 * u2 - w2 * u1
  PROVE  Meet(a, b, c, d) <=>
           \/ D # 0 /\ Spans(D, S) /\ Spans(D, T)
           \/ D = 0 /\ S = 0 /\ T = 0 /\ Overlapping(u1, v1, w1) /\ Overlapping(u2, v2, w2)
<1>1. /\ u1 \in Int /\ u2 \in Int /\ v1 \in Int /\ v2 \in Int /\ w1 \in Int /\ w2 \in Int
  BY DEF Ways
<1>2. Minus(b, a) = <<u1, u2>> /\ Minus(d, c) = <<v1, v2>> /\ Minus(c, a) = <<w1, w2>>
  BY DEF Ways, Minus
<1>3. Minus(a, a) = <<0, 0>> /\ Minus(d, a) = <<w1 + v1, w2 + v2>>
  BY DEF Ways, Minus
<1>4. \A x1, x2, y1, y2 : Times(<<x1, x2>>, <<y1, y2>>) = x1 * y2 - x2 * y1
  BY DEF Times
<1>5. /\ Times(Minus(b, a), Minus(d, c)) = D
      /\ Times(Minus(c, a), Minus(d, c)) = S
      /\ Times(Minus(c, a), Minus(b, a)) = T
  <2>1. Times(Minus(b, a), Minus(d, c)) = D
    BY <1>2, <1>4
  <2>2. Times(Minus(c, a), Minus(d, c)) = S
    BY <1>2, <1>4
  <2>3. Times(Minus(c, a), Minus(b, a)) = T
    BY <1>2, <1>4
  <2> QED
    BY <2>1, <2>2, <2>3
<1>6. D \in Int /\ S \in Int /\ T \in Int
  BY <1>1
<1>7. CASE D # 0
  <2>1. Meet(a, b, c, d) <=>
          {(IF D < 0 THEN -1 ELSE 1) * S, (IF D < 0 THEN -1 ELSE 1) * T} \subseteq 0 .. (IF D < 0 THEN -1 ELSE 1) * D
    BY <1>5, <1>7, Zenon DEF Meet
  <2>2. CASE D < 0
    BY <1>6, <2>1, <2>2 DEF Spans
  <2>3. CASE D > 0
    BY <1>6, <2>1, <2>3 DEF Spans
  <2> QED
    BY <1>6, <1>7, <2>2, <2>3
<1>8. CASE D = 0
  <2>1. Meet(a, b, c, d) <=>
          /\ \A u, v \in {a, b, c, d} : Times(Minus(u, a), Minus(v, a)) = 0
          /\ \A k \in 1 .. 2 : /\ Low(a[k], b[k]) <= High(c[k], d[k])
                               /\ Low(c[k], d[k]) <= High(a[k], b[k])
    BY <1>5, <1>8, Zenon DEF Meet
  <2>2. (\A u, v \in {a, b, c, d} : Times(Minus(u, a), Minus(v, a)) = 0) => S = 0 /\ T = 0
    <3>1. Times(Minus(c, a), Minus(d, a)) = w1 * (w2 + v2) - w2 * (w1 + v1)
      BY <1>2, <1>3, <1>4
    <3>2. w1 * (w2 + v2) - w2 * (w1 + v1) = S
      BY <1>1
    <3> QED
      BY <1>5, <3>1, <3>2, Zenon
  <2>3. ASSUME S = 0, T = 0, NEW u \in {a, b, c, d}, NEW v \in {a, b, c, d}
        PROVE  Times(Minus(u, a), Minus(v, a)) = 0
    <3>1. PICK x1, x2, y1, y2 : Minus(u, a) = <<x1, x2>> /\ Minus(v, a) = <<y1, y2>>
                                /\ \/ x1 = 0 /\ x2 = 0
                                   \/ x1 = u1 /\ x2 = u2
                                   \/ x1 = w1 /\ x2 = w2
                                   \/ x1 = w1 + v1 /\ x2 = w2 + v2
                                /\ \/ y1 = 0 /\ y2 = 0
                                   \/ y1 = u1 /\ y2 = u2
                                   \/ y1 = w1 /\ y2 = w2
                                   \/ y1 = w1 + v1 /\ y2 = w2 + v2
      BY <1>2, <1>3, <2>3
    <3>2. u1 * v2 - u2 * v1 = 0 /\ w1 * v2 - w2 * v1 = 0 /\ w1 * u2 - w2 * u1 = 0
      BY <1>8, <2>3
    <3>3. x1 * y2 - x2 * y1 = 0
      BY <1>1, <3>1, <3>2
    <3>4. Times(Minus(u, a), Minus(v, a)) = Times(<<x1, x2>>, <<y1, y2>>)
      BY <3>1
    <3>5. Times(<<x1, x2>>, <<y1, y2>>) = x1 * y2 - x2 * y1
      BY <1>4, Zenon
    <3> QED
      BY <3>3, <3>4, <3>5, Zenon
  <2>4. ASSUME NEW k \in 1 .. 2, NEW u \in Int, NEW v \in Int, NEW w \in Int,
               u = b[k] - a[k], v = d[k] - c[k], w = c[k] - a[k]
        PROVE  Low(a[k], b[k]) <= High(c[k], d[k]) /\ Low(c[k], d[k]) <= High(a[k], b[k])
                 <=> Overlapping(u, v, w)
    <3>1. a[k] \in Int /\ b[k] \in Int /\ c[k] \in Int /\ d[k] \in Int
      BY DEF Ways
    <3> QED
      BY <2>4, <3>1, Bounds DEF Overlapping, Spans
  <2>5. (\A k \in 1 .. 2 : /\ Low(a[k], b[k]) <= High(c[k], d[k])
                           /\ Low(c[k], d[k]) <= High(a[k], b[k]))
          <=> Overlapping(u1, v1, w1) /\ Overlapping(u2, v2, w2)
    <3>1. Low(a[1], b[1]) <= High(c[1], d[1]) /\ Low(c[1], d[1]) <= High(a[1], b[1])
            <=> Overlapping(u1, v1, w1)
      <4>1. 1 \in 1 .. 2 /\ u1 = b[1] - a[1] /\ v1 = d[1] - c[1] /\ w1 = c[1] - a[1]
        BY DEF Ways
      <4> QED
        BY <1>1, <2>4, <4>1
    <3>2. Low(a[2], b[2]) <= High(c[2], d[2]) /\ Low(c[2], d[2]) <= High(a[2], b[2])
            <=> Overlapping(u2, v2, w2)
      <4>1. 2 \in 1 .. 2 /\ u2 = b[2] - a[2] /\ v2 = d[2] - c[2] /\ w2 = c[2] - a[2]
        BY DEF Ways
      <4> QED
        BY <1>1, <2>4, <4>1
    <3> QED
      BY <3>1, <3>2
  <2> QED
    BY <1>8, <2>1, <2>2, <2>3, <2>5
<1> QED
  BY <1>7, <1>8

\* LineIntersects tests four turns and four ends; what it decides is whether the two
\* segments have a point in common, for all segments, also parallel ones, points and
\* those that overlap or touch with an end.
THEOREM SegmentsIntersectWhereTheyMeet ==
  ASSUME NEW a \in Int \X Int, NEW b \in Int \X Int, NEW c \in Int \X Int, NEW d \in Int \X Int
  PROVE  LineIntersects(a, b, c, d) <=> Meet(a, b, c, d)
<1>1. PICK u1, u2, v1, v2, w1, w2 : Ways(a, b, c, d, u1, u2, v1, v2, w1, w2)
  BY DEF Ways
<1>2. PICK D, S, T : D = u1 * v2 - u2 * v1 /\ S = w1 * v2 - w2 * v1 /\ T = w1 * u2 - w2 * u1
  OBVIOUS
<1>3. /\ u1 \in Int /\ u2 \in Int /\ v1 \in Int /\ v2 \in Int /\ w1 \in Int /\ w2 \in Int
  BY <1>1 DEF Ways
<1>4. D \in Int /\ S \in Int /\ T \in Int
  BY <1>2, <1>3
<1>5. LineIntersects(a, b, c, d) <=>
        \/ Turn(T) # Turn(T - D) /\ Turn(-S) # Turn(D - S)
        \/ Touching(u1, u2, v1, v2, w1, w2)
  BY <1>1, <1>2, IntersectsByWays
<1>6. Meet(a, b, c, d) <=>
        \/ D # 0 /\ Spans(D, S) /\ Spans(D, T)
        \/ D = 0 /\ S = 0 /\ T = 0 /\ Overlapping(u1, v1, w1) /\ Overlapping(u2, v2, w2)
  BY <1>1, <1>2, MeetByWays
<1>7. Touching(u1, u2, v1, v2, w1, w2) => Spans(D, S) /\ Spans(D, T)
  BY <1>2, <1>3, TouchingCutsBoth
<1>8. D = 0 => (Touching(u1, u2, v1, v2, w1, w2) <=>
        T = 0 /\ S = 0 /\ Overlapping(u1, v1, w1) /\ Overlapping(u2, v2, w2))
  <2> SUFFICES ASSUME D = 0
               PROVE  Touching(u1, u2, v1, v2, w1, w2) <=>
                        T = 0 /\ S = 0 /\ Overlapping(u1, v1, w1) /\ Overlapping(u2, v2, w2)
    OBVIOUS
  <2>1. u1 * v2 - u2 * v1 = 0
    BY <1>2
  <2>2. Touching(u1, u2, v1, v2, w1, w2) <=>
          /\ w1 * u2 - w2 * u1 = 0 /\ w1 * v2 - w2 * v1 = 0
          /\ Overlapping(u1, v1, w1) /\ Overlapping(u2, v2, w2)
    BY <1>3, <2>1, ParallelSegments
  <2> QED
    BY <1>2, <2>2, Zenon
<1>9. /\ D # 0 => (Turn(T) # Turn(T - D) /\ Turn(-S) # Turn(D - S) <=> Spans(D, S) /\ Spans(D, T))
      /\ D = 0 => Turn(T) = Turn(T - D)
  BY <1>4, Crossing
<1> QED
  BY <1>5, <1>6, <1>7, <1>8, <1>9
=============================================================================
