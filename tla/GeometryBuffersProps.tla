-------------------------- MODULE GeometryBuffersProps --------------------------
(* What the geometries of a layer promise to who reads their points.       *)
EXTENDS GeometryBuffers

Bases == {g \in DOMAIN geom_ : ~geom_[g].isView}

\* The vertex arrays are not mixed up: a step appends to one geometry at most,
\* and what every other one holds stays as it is. The handle of an array that is
\* not allocated yet, the capacity, must never pass for the handle of another one.
AppendsAreOwn ==
  [][/\ \A g \in Bases : Held(g)' = Held(g) \/ \E p \in Points : Held(g)' = Append(Held(g), p)
     /\ Cardinality({g \in Bases : Held(g)' # Held(g)}) <= 1]_buffers

\* The span [offset, offset + size) of a view is one of its base, also if the base
\* is a view and if points are appended later.
ViewsShowTheirBase ==
  \A g \in DOMAIN geom_ \ Bases :
    LET base == geom_[g].base
    IN  ~OutOfBounds(base) /\ geom_[g].offset + geom_[g].size <= Len(PointsOf(base))
        => /\ ~OutOfBounds(g)
           /\ PointsOf(g) = SubSeq(PointsOf(base), geom_[g].offset + 1,
                                   geom_[g].offset + geom_[g].size)

\* Twice the area that a closed ring encloses, positive if it runs counterclockwise.
Enclosed(ring) ==
  MapThenSumSet(LAMBDA i : Cross(ring[i], ring[i + 1]), 1 .. Len(ring) - 1)

IsRingOf(ring, corners) ==
  /\ ring # <<>> /\ Head(ring) = Last(ring)
  /\ ToSet(ring) = ToSet(corners)
  /\ Len(ring) = Len(corners) + (IF Head(corners) = Last(corners) THEN 0 ELSE 1)

\* The ring of a polygon is closed and counterclockwise and has all of its corners,
\* "GeoJSON rings must be closed", and the rings of a mesh are closed triangles.
\* A clockwise polygon that is closed already is not among them: read backwards
\* from its first point it is no longer closed. For the triangles of a mesh nothing
\* is said of the direction: from the second on it is taken from a wrong point.
RingsAreClosed ==
  \A g \in DOMAIN geom_ :
    LET points == PointsOf(g)
        n      == Len(points)
    IN  ~OutOfBounds(g) /\ n >= 3 =>
          /\ (Closed(points, 0, n) => Enclosed(points) >= 0) =>
               LET ring == RingOf(points, 0, n)
               IN  IsRingOf(ring, points) /\ Enclosed(ring) >= 0
          /\ n % 3 = 0 =>
               \A t \in 0 .. n \div 3 - 1 :
                 LET corners == SubSeq(points, 3 * t + 1, 3 * t + 3)
                 IN  Head(corners) # Last(corners) => IsRingOf(RingOf(points, 3 * t, 3), corners)
=============================================================================
