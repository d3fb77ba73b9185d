------------------------------- MODULE Validity -------------------------------
(***************************************************************************)
(* The validity of an attribute: which part of which line the attribute    *)
(* holds for, as a geometry of its own or as a point or range on a line of *)
(* its feature. Setters edit it, a layer is written and read with it, an   *)
(* add-on tile hands it to another layer as a clone, and computeGeometry   *)
(* resolves it into points.                                                *)
(*                                                                         *)
(* The segments of a line are parallel to an axis, on integers: so lengths, *)
(* projections and the points between two others are integers too. The     *)
(* distance on the globe is replaced by the one in the plane. A relative   *)
(* offset is a multiple of 1/RelativeSteps. The direction is left out.     *)
(***************************************************************************)
EXTENDS Integers, Sequences, SequencesExt, FiniteSetsExt

CONSTANTS
  Collections,    \* the geometry collections a feature may have
  Feature,        \* the features of the layer that a validity may reference, with their collections
  FeatureIds,     \* the ids that setFeatureId() is called with, also of features not in the layer
  Names,          \* the names of geometries; NoName is none
  NoName, NoId,
  Positions,      \* the points of GeoPosOffset
  Offsets,        \* the numbers of BufferOffset, MetricLengthOffset and RelativeLengthOffset
  RelativeSteps

ASSUME ValidityAssumption ==
  /\ Offsets \subseteq Nat /\ RelativeSteps \in Nat \ {0}
  /\ NoName \notin Names /\ NoId \notin FeatureIds
  /\ \A c \in Collections : \A g \in ToSet(c) :
       g = [name |-> g.name, type |-> g.type, points |-> g.points] /\ g.points # <<>>

VARIABLES
  collection,   \* the geometries of the feature the attribute belongs to
  validity

restriction == <<collection, validity>>

\* What reading uninitialized memory or dividing zero by zero gives.
Undetermined == <<>>

(***************************************************************************)
(* Lines                                                                   *)
(***************************************************************************)
Distance(a, b) == Max({a[1] - b[1], b[1] - a[1]}) + Max({a[2] - b[2], b[2] - a[2]})

\* The point between a and b that is d away from a.
Between(a, b, d) ==
  IF a = b THEN Undetermined
  ELSE [k \in 1 .. 2 |-> a[k] + ((b[k] - a[k]) * d) \div Distance(a, b)]

Segments(line) == 1 .. Len(line) - 1

\* The length of the first i segments.
Covered(line, i) == MapThenSumSet(LAMBDA k : Distance(line[k], line[k + 1]), 1 .. i)

\* Geometry::length
Length(line) == Covered(line, Len(line) - 1)

\* A range is a sequence of one or two offsets; the smaller one comes first.
Ordered(range) == IF Len(range) = 2 /\ range[2] < range[1] THEN Reverse(range) ELSE range

\* Mutation of Reached: an offset at the end of a segment is not reached there.
ReachedInside(line, i, offset) ==
  LET ends == {k \in Segments(line) : k >= i /\ offset < Covered(line, k)}
  IN  IF ends = {} THEN 0 ELSE Min(ends)

\* The first segment from i on at whose end the offset is covered, 0 if none is.
Reached(line, i, offset) ==
  LET ends == {k \in Segments(line) : k >= i /\ offset <= Covered(line, k)}
  IN  IF ends = {} THEN 0 ELSE Min(ends)

\* The point at the offset in the segment i; without a segment the first point.
PointAt(line, i, offset) ==
  IF i = 0 THEN line[1] ELSE Between(line[i], line[i + 1], offset - Covered(line, i - 1))

\* The points between the two ends of a range are those behind the segments from
\* the first one to the one before the last one.
Assembled(line, first, last, from, to) ==
  <<from>> \o SubSeq(line, first + 1, last) \o <<to>>

PointsFromLengthBound(line, range) ==
  LET r     == Ordered(range)
      first == Reached(line, 1, r[1])
      last  == IF first = 0 THEN 0 ELSE Reached(line, first, Last(r))
      from  == PointAt(line, first, r[1])
  IN  IF Len(r) = 1 THEN <<from>>
      ELSE Assembled(line, Max({first, 1}), last, from, PointAt(line, last, r[2]))

\* The dot product of the segment i with the way from its start to p.
Along(line, i, p) ==
  (p[1] - line[i][1]) * (line[i + 1][1] - line[i][1]) + (p[2] - line[i][2]) * (line[i + 1][2] - line[i][2])

ProjectsOn(line, i, p) ==
  /\ line[i] # line[i + 1]
  /\ 0 <= Along(line, i, p)
  /\ Along(line, i, p) <= Along(line, i, line[i + 1])

\* Of the segments p projects on, the one whose first point is the closest.
ClosestIndex(line, p) ==
  LET on      == {i \in Segments(line) : ProjectsOn(line, i, p)}
      away(i) == (line[i][1] - p[1])^2 + (line[i][2] - p[2])^2
  IN  IF on = {} THEN 0
      ELSE Min({i \in on : \A k \in on : away(i) <= away(k)})

\* Without a segment to project on, the offset from the first point is not initialized.
Projected(line, i, p) ==
  IF i = 0 THEN Undetermined
  ELSE Between(line[i], line[i + 1], Along(line, i, p) \div Distance(line[i], line[i + 1]))

PointsFromPositionBound(line, range) ==
  LET closest == [k \in DOMAIN range |-> ClosestIndex(line, range[k])]
      index   == [k \in DOMAIN range |-> Max({1, closest[k]})]
      at      == [k \in DOMAIN range |-> Projected(line, closest[k], range[k])]
  IN  IF Len(range) = 1 THEN at
      ELSE IF index[2] < index[1] THEN Assembled(line, index[2], index[1], at[2], at[1])
      ELSE Assembled(line, index[1], index[2], at[1], at[2])

\* Offsets are counted from zero; an index behind the line is an error.
PointsFromBufferBound(line, range) ==
  IF \E k \in DOMAIN range : range[k] >= Len(line) THEN <<>>
  ELSE SubSeq(line, Head(Ordered(range)) + 1, Last(Ordered(range)) + 1)

(***************************************************************************)
(* Validities                                                              *)
(***************************************************************************)
Fresh ==
  [descr |-> "NoGeometry", offsetType |-> "InvalidOffsetType", value |-> <<>>,
   name |-> NoName, featureId |-> NoId]

\* The offsets are points; those with one dimension use the first coordinate.
WithOffsets(v, type, points) ==
  [v EXCEPT !.descr = IF Len(points) = 1 THEN "OffsetPointValidity" ELSE "OffsetRangeValidity",
            !.offsetType = type, !.value = points]

WithGeometry(v, g) ==
  [v EXCEPT !.descr = "SimpleGeometry", !.offsetType = "InvalidOffsetType", !.value = g]

Nothing == [type |-> "Points", points |-> <<>>]

Resolve(line, v) ==
  LET numbers == [k \in DOMAIN v.value |-> v.value[k][1]]
      points  ==
        CASE v.offsetType = "GeoPosOffset" -> PointsFromPositionBound(line, v.value)
          [] v.offsetType = "BufferOffset" -> PointsFromBufferBound(line, numbers)
          [] v.offsetType = "MetricLengthOffset" -> PointsFromLengthBound(line, numbers)
          [] v.offsetType = "RelativeLengthOffset" ->
               PointsFromLengthBound(line,
                 [k \in DOMAIN numbers |-> (numbers[k] * Length(line)) \div RelativeSteps])
  IN  [type |-> IF Len(points) > 1 THEN "Line" ELSE "Points", points |-> points]

\* A feature that is referenced but not found leaves the collection as it is.
Collection(v) == IF v.featureId \in DOMAIN Feature THEN Feature[v.featureId] ELSE collection

\* The lines among the geometries that have the name.
LinesNamed(geometries, name) ==
  SelectSeq(geometries, LAMBDA g : g.name = name /\ g.type = "Line")

ComputeGeometry(v) ==
  LET lines == LinesNamed(Collection(v), v.name)
  IN  CASE v.descr = "SimpleGeometry" -> [type |-> v.value.type, points |-> v.value.points]
        [] v.descr # "SimpleGeometry" /\ lines = <<>> -> Nothing
        [] v.descr = "NoGeometry" /\ lines # <<>> -> [type |-> "Line", points |-> Head(lines).points]
        [] OTHER -> Resolve(Head(lines).points, v)

\* Mutation of Restored: positions are read as numbers too.
RestoredNumbers(v) ==
  IF v.descr \in {"SimpleGeometry", "NoGeometry"} THEN v
  ELSE [v EXCEPT !.value = [k \in DOMAIN v.value |-> <<v.value[k][1], 0>>]]

\* Written with Data::serialize and read into a fresh validity.
Restored(v) ==
  IF v.descr = "SimpleGeometry" THEN WithGeometry(Fresh, v.value)
  ELSE IF v.descr = "NoGeometry" \/ v.offsetType = "GeoPosOffset" THEN v
  ELSE [v EXCEPT !.value = [k \in DOMAIN v.value |-> <<v.value[k][1], 0>>]]

\* The name of a geometry does not come along with its clone.
ClonedGeometry(g) == [g EXCEPT !.name = NoName]

\* Neither the geometry name nor the feature id is copied.
Cloned(v) ==
  CASE v.descr = "NoGeometry" -> Fresh
    [] v.descr = "SimpleGeometry" -> WithGeometry(Fresh, ClonedGeometry(v.value))
    [] OTHER -> WithOffsets(Fresh, v.offsetType, v.value)

(***************************************************************************)
(* Actions                                                                 *)
(***************************************************************************)
OneOrTwo(S) == {<<s>> : s \in S} \cup S \X S

\* The calls of setOffsetPoint and setOffsetRange.
OffsetCalls ==
  {"GeoPosOffset"} \X OneOrTwo(Positions)
  \cup {"BufferOffset", "MetricLengthOffset", "RelativeLengthOffset"} \X OneOrTwo({<<n, 0>> : n \in Offsets})

SetOffsets(call) ==
  /\ validity' = WithOffsets(validity, call[1], call[2])
  /\ UNCHANGED collection

\* MultiValidity::newPoint and newRange
NewOffsets(call, name) ==
  /\ validity' = [WithOffsets(Fresh, call[1], call[2]) EXCEPT !.name = name]
  /\ UNCHANGED collection

SetSimpleGeometry(g) == validity' = WithGeometry(validity, g) /\ UNCHANGED collection

\* MultiValidity::newGeometry
NewSimpleGeometry(g) == validity' = WithGeometry(Fresh, g) /\ UNCHANGED collection

\* MultiValidity::newDirection
NewDirection == validity' = Fresh /\ UNCHANGED collection

SetGeometryName(name) == validity' = [validity EXCEPT !.name = name] /\ UNCHANGED collection

SetFeatureId(id) == validity' = [validity EXCEPT !.featureId = id] /\ UNCHANGED collection

WriteAndRead == validity' = Restored(validity) /\ UNCHANGED collection

CloneValidity == validity' = Cloned(validity) /\ UNCHANGED collection

ValidityInit == collection \in Collections /\ validity = Fresh

ValidityNext ==
  \/ \E call \in OffsetCalls :
       \/ SetOffsets(call)
       \/ \E n \in Names \cup {NoName} : NewOffsets(call, n)
  \/ \E k \in DOMAIN collection :
       SetSimpleGeometry(collection[k]) \/ NewSimpleGeometry(collection[k])
  \/ NewDirection
  \/ \E n \in Names \cup {NoName} : SetGeometryName(n)
  \/ \E id \in FeatureIds \cup {NoId} : SetFeatureId(id)
  \/ WriteAndRead
  \/ CloneValidity

ValiditySpec == ValidityInit /\ [][ValidityNext]_restriction
=============================================================================
