-------------------------- MODULE SimfilGeometryProps --------------------------
(* What the geometric operators of a query promise.                        *)
EXTENDS SimfilGeometry

Operands == Len(stack) = 2 /\ Null \notin ToSet(stack)

HasCornerOf(polygon, other) == \E p \in ToSet(other.points) : PolygonHasPoint(polygon, p)

\* Of two polygons one lies in the other: their outlines do not cross, and only one
\* has a corner of the other.
Nested(l, r) ==
  /\ {l.kind, r.kind} = {"polygon"}
  /\ ~LinesIntersect(l.points, r.points)
  /\ HasCornerOf(l, r) # HasCornerOf(r, l)

\* "left intersects right" does not depend on the side, although each class has a
\* dispatch of its own. Only the answer for nested polygons may: whether a corner of
\* the left one is in the right one is asked, and not the other way round.
IntersectsIsSymmetric ==
  Operands =>
    \/ AnswerTo("intersects", stack[1], stack[2]) = AnswerTo("intersects", stack[2], stack[1])
    \/ Nested(stack[1], stack[2])

Minus(u, v) == <<u[1] - v[1], u[2] - v[2]>>
Times(u, v) == u[1] * v[2] - u[2] * v[1]

\* The two segments have a point in common, from the solution of the linear equations.
Meet(a, b, c, d) ==
  LET det == Times(Minus(b, a), Minus(d, c))
      sign == IF det < 0 THEN -1 ELSE 1
      s == sign * Times(Minus(c, a), Minus(d, c))
      t == sign * Times(Minus(c, a), Minus(b, a))
  IN  IF det # 0 THEN {s, t} \subseteq 0 .. sign * det
      ELSE /\ \A u, v \in {a, b, c, d} : Times(Minus(u, a), Minus(v, a)) = 0
           /\ \A k \in 1 .. 2 : /\ Low(a[k], b[k]) <= High(c[k], d[k])
                                /\ Low(c[k], d[k]) <= High(a[k], b[k])

\* Lines intersect if and only if two of their segments meet, and a line intersects
\* a box if and only if it meets an edge or begins inside: no filter loses one. For
\* the box it takes a positive coordinate in each direction: without one, the box
\* around the line is taken to reach beyond zero, and a line inside is missed.
LinesIntersectWhereTheyMeet ==
  Operands /\ stack[1].kind = "linestring" =>
    LET line == stack[1].points
        MeetsLine(other) ==
          \E i \in Pieces(line), j \in Pieces(other) :
            Meet(line[i], line[i + 1], other[j], other[j + 1])
        right == stack[2]
    IN  /\ right.kind = "linestring" =>
             (LinesIntersect(line, right.points) <=> MeetsLine(right.points))
        /\ right.kind = "bbox" /\ (\A k \in 1 .. 2 : \E p \in ToSet(line) : p[k] > 0) =>
             (AnswerTo("intersects", stack[1], right) = "yes" <=>
                MeetsLine(Edges(right.points)) \/ PointOnSegment(right.points[1], line[1], right.points[2]))

\* The even-odd rule, counting an edge with its lower end and without its upper end.
Inside(ring, p) ==
  LET n == Len(ring)
      Next(i) == ring[(i % n) + 1]
      RightOf(a, b) ==
        (a[2] > p[2]) # (b[2] > p[2])
        /\ IF b[2] > a[2] THEN (p[1] - a[1]) * (b[2] - a[2]) < (b[1] - a[1]) * (p[2] - a[2])
                          ELSE (p[1] - a[1]) * (b[2] - a[2]) > (b[1] - a[1]) * (p[2] - a[2])
  IN  Cardinality({i \in 1 .. n : RightOf(ring[i], Next(i))}) % 2 = 1

OnBoundary(ring, p) ==
  \E i \in DOMAIN ring : Meet(ring[i], ring[(i % Len(ring)) + 1], p, p)

\* A point is within a polygon if and only if it is inside of the outer ring and
\* outside of the holes. This leaves out the points on an edge and those with a
\* corner of a ring on their right: a ray through a corner hits two edges at once,
\* so that the center of a diamond is not within it.
PointsAreWithin ==
  Operands /\ stack[1].kind = "point" /\ stack[2].kind = "polygon" =>
    LET p == stack[1].points[1]
        rings == {stack[2].points} \cup ToSet(stack[2].holes)
        Clear(ring) == ~OnBoundary(ring, p) /\ \A q \in ToSet(ring) : q[2] = p[2] => q[1] < p[1]
    IN  (\A ring \in rings : Clear(ring)) =>
          (AnswerTo("within", stack[1], stack[2]) = "yes" <=>
             /\ Inside(stack[2].points, p)
             /\ \A h \in ToSet(stack[2].holes) : ~Inside(h, p))

\* The filters in front of the exact tests, with boxes and with rays, lose nothing:
\* "intersects" of lines and "within" of points answer what the geometry says.
OperatorsAnswerGeometry == LinesIntersectWhereTheyMeet /\ PointsAreWithin
=============================================================================
