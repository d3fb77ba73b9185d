---------------------------- MODULE SimfilGeometry ----------------------------
(***************************************************************************)
(* The geometric values of a query and their operators: geo(), point(),    *)
(* bbox() and linestring() put values on a stack, and within, contains,    *)
(* intersects and == are answered for the two on it.                       *)
(*                                                                         *)
(* Coordinates are integers. One is the smallest positive number a double  *)
(* can have, so that all other coordinates are at least two; Far is the    *)
(* largest. Comparing values of different classes raises an error.         *)
(***************************************************************************)
EXTENDS Integers, Sequences, SequencesExt, FiniteSetsExt

CONSTANTS
  Geometries,   \* the GeoJSON geometries that geo() reads: records [type, coordinates]
  PointArgs,    \* the points that point() is called with
  BoxArgs,      \* the pairs of points that bbox() is called with
  LineArgs,     \* the sequences of points and numbers that linestring() is called with
  Far           \* std::numeric_limits<double>::max()

GeometryTypes == {"Point", "MultiPoint", "LineString", "MultiLineString", "Polygon", "MultiPolygon"}

ASSUME SimfilAssumption ==
  /\ Far \in Nat
  /\ \A g \in Geometries :
       \/ g.type \in GeometryTypes
       \/ g.type = "GeometryCollection" /\ \A sub \in ToSet(g.coordinates) :
            sub.type \in GeometryTypes \cup {"GeometryCollection"}
  /\ BoxArgs \subseteq PointArgs \X PointArgs

VARIABLES
  stack,    \* the operands: at most two values
  answer    \* of the last operator: yes, no, error, or none yet

query == <<stack, answer>>

LeastPositive == 1

\* A polygon is its outer ring and its holes.
Value(kind, points) == [kind |-> kind, points |-> points, holes |-> <<>>]
Null == Value("null", <<>>)
PolygonOf(rings) == [Value("polygon", Head(rings)) EXCEPT !.holes = Tail(rings)]

(***************************************************************************)
(* Points and segments                                                     *)
(***************************************************************************)
Low(a, b)  == Min({a, b})
High(a, b) == Max({a, b})

PointOnSegment(a, q, b) ==
  \A k \in 1 .. 2 : Low(a[k], b[k]) <= q[k] /\ q[k] <= High(a[k], b[k])

\* Without its two ends.
PointOnLine(a, q, b) ==
  /\ (a[1] - q[1]) * (q[2] - b[2]) = (a[2] - q[2]) * (q[1] - b[1])
  /\ (a[1] - q[1]) * (q[1] - b[1]) + (a[2] - q[2]) * (q[2] - b[2]) > 0

Orientation(a, q, b) ==
  LET val == (q[2] - a[2]) * (b[1] - q[1]) - (q[1] - a[1]) * (b[2] - q[2])
  IN  IF val = 0 THEN "collinear" ELSE IF val > 0 THEN "clockwise" ELSE "counterclockwise"

\* Mutation of LineIntersects: without the segments that only touch.
LineIntersectsAcross(a, b, c, d) ==
  Orientation(a, b, c) # Orientation(a, b, d) /\ Orientation(c, d, a) # Orientation(c, d, b)

LineIntersects(a, b, c, d) ==
  \/ Orientation(a, b, c) # Orientation(a, b, d) /\ Orientation(c, d, a) # Orientation(c, d, b)
  \/ Orientation(a, b, c) = "collinear" /\ PointOnSegment(a, c, b)
  \/ Orientation(a, b, d) = "collinear" /\ PointOnSegment(a, d, b)
  \/ Orientation(c, d, a) = "collinear" /\ PointOnSegment(c, a, d)
  \/ Orientation(c, d, b) = "collinear" /\ PointOnSegment(c, b, d)

(***************************************************************************)
(* Lines and boxes, as sequences of points                                 *)
(***************************************************************************)
Pieces(line) == 1 .. Len(line) - 1

LineHasPoint(line, p) == \E i \in Pieces(line) : PointOnLine(line[i], p, line[i + 1])

\* Mutation of LinesIntersect: the first segment of the first line is skipped.
LinesIntersectLater(k, l) ==
  \E i \in Pieces(k) \ {1}, j \in Pieces(l) : LineIntersects(k[i], k[i + 1], l[j], l[j + 1])

LinesIntersect(k, l) ==
  \E i \in Pieces(k), j \in Pieces(l) : LineIntersects(k[i], k[i + 1], l[j], l[j + 1])

Normalized(box) ==
  <<[k \in 1 .. 2 |-> Low(box[1][k], box[2][k])], [k \in 1 .. 2 |-> High(box[1][k], box[2][k])]>>

Edges(box) ==
  <<box[1], <<box[2][1], box[1][2]>>, box[2], <<box[1][1], box[2][2]>>, box[1]>>

\* The largest coordinate is sought from the least positive number on, not from
\* the least number.
BoxOf(line) ==
  IF line = <<>> THEN <<<<0, 0>>, <<0, 0>>>>
  ELSE <<[k \in 1 .. 2 |-> Min({p[k] : p \in ToSet(line)})],
         [k \in 1 .. 2 |-> Max({p[k] : p \in ToSet(line)} \cup {LeastPositive})]>>

BoxHasPoint(box, p) == PointOnSegment(box[1], p, box[2])
BoxHasLine(box, line) == line # <<>> /\ \A p \in ToSet(line) : BoxHasPoint(box, p)
BoxHasBox(box, other) == BoxHasLine(box, other)

BoxesIntersect(b, o) ==
  \A k \in 1 .. 2 : /\ Normalized(o)[2][k] >= Normalized(b)[1][k]
                    /\ Normalized(o)[1][k] <= Normalized(b)[2][k]

BoxIntersectsLine(box, line) ==
  /\ BoxesIntersect(box, BoxOf(line))
  /\ BoxHasBox(box, BoxOf(line)) \/ LinesIntersect(Edges(box), line)

(***************************************************************************)
(* Polygons                                                                *)
(***************************************************************************)
\* The ray from p to the right crosses the edges of the ring an odd number of times.
PointInPoly(ring, p) ==
  LET crossed == {i \in DOMAIN ring :
                   LineIntersects(ring[i], ring[(i % Len(ring)) + 1], p, <<Far, p[2]>>)}
  IN  /\ Len(ring) > 2
      /\ BoxHasPoint(BoxOf(ring), p)
      /\ p \in ToSet(ring) \/ Cardinality(crossed) % 2 = 1

PolygonHasPoint(polygon, p) ==
  /\ PointInPoly(polygon.points, p)
  /\ \A h \in ToSet(polygon.holes) : ~PointInPoly(h, p)

PolygonHasLine(polygon, line) ==
  line # <<>> /\ \A p \in ToSet(line) : PolygonHasPoint(polygon, p)

PolygonIntersectsBox(polygon, box) ==
  /\ BoxIntersectsLine(box, polygon.points)
  /\ \A h \in ToSet(polygon.holes) : \E p \in ToSet(Edges(box)) : ~PointInPoly(h, p)

PolygonIntersectsLine(polygon, line) ==
  \/ \E p \in ToSet(line) : PolygonHasPoint(polygon, p)
  \/ LinesIntersect(polygon.points, line)

(***************************************************************************)
(* The operators of the classes of values                                  *)
(***************************************************************************)
\* left within right
Within(l, r) ==
  CASE r.kind = "bbox" -> BoxHasLine(r.points, l.points)
    [] r.kind = "polygon" /\ l.kind = "bbox" -> PolygonHasLine(r, Edges(l.points))
    [] r.kind = "polygon" -> PolygonHasLine(r, l.points)

WithinKinds ==
  {"point", "bbox", "linestring"} \X {"bbox", "polygon"} \cup {<<"polygon", "bbox">>}

ContainsKinds ==
  {"bbox"} \X {"bbox", "point", "linestring", "polygon"}
    \cup {"polygon"} \X {"bbox", "point", "linestring"}

\* With every pair of classes the one that knows the other is asked.
Intersects(l, r) ==
  LET kinds == <<l.kind, r.kind>>
  IN  CASE kinds = <<"point", "point">> -> l = r
        [] kinds = <<"point", "bbox">> -> BoxHasPoint(r.points, l.points[1])
        [] kinds = <<"bbox", "point">> -> BoxHasPoint(l.points, r.points[1])
        [] kinds = <<"point", "linestring">> -> LineHasPoint(r.points, l.points[1])
        [] kinds = <<"linestring", "point">> -> LineHasPoint(l.points, r.points[1])
        [] kinds = <<"point", "polygon">> -> PolygonHasPoint(r, l.points[1])
        [] kinds = <<"polygon", "point">> -> PolygonHasPoint(l, r.points[1])
        [] kinds = <<"bbox", "bbox">> -> BoxesIntersect(l.points, r.points)
        [] kinds = <<"bbox", "linestring">> -> BoxIntersectsLine(l.points, r.points)
        [] kinds = <<"linestring", "bbox">> -> BoxIntersectsLine(r.points, l.points)
        [] kinds = <<"bbox", "polygon">> -> PolygonIntersectsBox(r, l.points)
        [] kinds = <<"polygon", "bbox">> -> PolygonIntersectsBox(l, r.points)
        [] kinds = <<"linestring", "linestring">> -> LinesIntersect(l.points, r.points)
        [] kinds = <<"linestring", "polygon">> -> PolygonIntersectsLine(r, l.points)
        [] kinds = <<"polygon", "linestring">> -> PolygonIntersectsLine(l, r.points)
        [] kinds = <<"polygon", "polygon">> -> PolygonIntersectsLine(r, l.points)

Said(b) == IF b THEN "yes" ELSE "no"

\* A class refuses an operator and a class on the right that it does not know. If
\* only the value on the right is geometric, it is asked what is symmetric.
AnswerTo(op, l, r) ==
  LET kinds == <<l.kind, r.kind>>
  IN  CASE l = Null -> IF op \in {"==", "intersects"} THEN "no" ELSE "error"
        [] l # Null /\ r = Null ->
             IF op = "contains" /\ l.kind \in {"point", "linestring"} THEN "error" ELSE "no"
        [] OTHER ->
             CASE op = "==" -> IF l.kind = r.kind THEN Said(l = r) ELSE "error"
               [] op = "within" -> IF kinds \in WithinKinds THEN Said(Within(l, r)) ELSE "error"
               [] op = "contains" -> IF kinds \in ContainsKinds THEN Said(Within(r, l)) ELSE "error"
               [] op = "intersects" -> Said(Intersects(l, r))

(***************************************************************************)
(* The functions that make values                                          *)
(***************************************************************************)
\* Of a MultiPoint only the first point is returned.
GeoValues(g) ==
  LET c == g.coordinates
  IN  CASE g.type = "Point" -> {Value("point", <<c>>)}
        [] g.type = "MultiPoint" -> IF c = <<>> THEN {} ELSE {Value("point", <<Head(c)>>)}
        [] g.type = "LineString" -> {Value("linestring", c)}
        [] g.type = "MultiLineString" -> {Value("linestring", line) : line \in ToSet(c)}
        [] g.type = "Polygon" -> {PolygonOf(c)}
        [] g.type = "MultiPolygon" -> {PolygonOf(rings) : rings \in ToSet(c)}
        [] g.type = "GeometryCollection" -> {Null}

GeoFn(g) ==
  IF g.type = "GeometryCollection" THEN UNION {GeoValues(sub) : sub \in ToSet(g.coordinates)}
  ELSE GeoValues(g)

\* Points and numbers in one call: a number after a point is taken for a coordinate.
Coordinates(args) ==
  FoldLeft(LAMBDA floats, a : IF a.kind = "point" THEN floats \o a.points[1] ELSE Append(floats, a.number),
           <<>>, args)

LineStringRaises(args) ==
  /\ Head(args).kind # "point"
  /\ (\E a \in ToSet(args) : a.kind = "point") \/ Len(args) % 2 = 1

LineStringFn(args) ==
  Value("linestring",
    [i \in 1 .. Len(Coordinates(args)) \div 2 |->
      <<Coordinates(args)[2 * i - 1], Coordinates(args)[2 * i]>>])

\* bbox(v) of a value
BoxOfValue(v) ==
  CASE v.kind = "bbox" -> v
    [] v.kind = "point" -> Value("bbox", <<v.points[1], v.points[1]>>)
    [] OTHER -> Value("bbox", BoxOf(v.points))

Push(v) ==
  /\ Len(stack) < 2
  /\ stack' = Append(stack, v)
  /\ UNCHANGED answer

\* The rest of the query is evaluated for each of the values.
CallGeo(g) == \E v \in GeoFn(g) : Push(v)

CallPoint(p) == Push(Value("point", <<p>>))

CallBBox(corners) == Push(Value("bbox", corners))

\* bbox() around the value on the top of the stack
CallBBoxOf ==
  /\ answer = "none" /\ stack # <<>> /\ Last(stack).kind # "null"
  /\ stack' = [stack EXCEPT ![Len(stack)] = BoxOfValue(@)]
  /\ UNCHANGED answer

CallLineString(args) == ~LineStringRaises(args) /\ Push(LineStringFn(args))

MissingField == Push(Null)

Operator(op) ==
  /\ Len(stack) = 2 /\ answer = "none" /\ stack # <<Null, Null>>
  /\ answer' = AnswerTo(op, stack[1], stack[2])
  /\ UNCHANGED stack

QueryInit == stack = <<>> /\ answer = "none"

QueryNext ==
  \/ \E g \in Geometries : CallGeo(g)
  \/ \E p \in PointArgs : CallPoint(p)
  \/ \E c \in BoxArgs : CallBBox(c)
  \/ \E l \in LineArgs : CallLineString(l)
  \/ CallBBoxOf
  \/ MissingField
  \/ \E op \in {"==", "within", "contains", "intersects"} : Operator(op)

QuerySpec == QueryInit /\ [][QueryNext]_query
=============================================================================
