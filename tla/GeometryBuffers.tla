---------------------------- MODULE GeometryBuffers ----------------------------
(***************************************************************************)
(* The geometries of a TileFeatureLayer and the vertex arrays behind them. *)
(* A geometry keeps its first point itself; the others are in an array of  *)
(* the layer's storage, which is allocated with the first point. Until then *)
(* a negative handle holds the wanted capacity. A view shows a span of the *)
(* points of another geometry, which may be a view itself.                 *)
(*                                                                         *)
(* A point is a pair of integers. The 32-bit offsets from the first point  *)
(* that the arrays hold and the elevation are left out.                    *)
(***************************************************************************)
EXTENDS Integers, Sequences, SequencesExt, FiniteSetsExt

CONSTANTS
  Points,         \* the points append() is called with
  Capacities,     \* the initial capacities newGeometry() is called with
  Outlines,          \* the vectors of points addLine() and the like are called with
  Spans,          \* the offsets and sizes newGeometryView() is called with
  IndexBits,      \* the width of an array handle, 32 in the program
  MaxGeometries,  \* a bound on the geometries of the layer
  MaxPoints       \* a bound on the points of a geometry

ASSUME BuffersAssumption ==
  /\ IndexBits \in Nat \ {0}
  /\ {MaxGeometries, MaxPoints} \subseteq Nat
  /\ Capacities \subseteq 0 .. 2^IndexBits - 1
  /\ \A l \in Outlines : l \in Seq(ToSet(l))
  /\ Spans \subseteq Nat \X Nat

VARIABLES
  geom_,    \* the geometries, in the order they were made
  storage   \* the vertex arrays: array h is storage[h + 1]

buffers == <<geom_, storage>>

Origin == <<0, 0>>

\* -(ArrayIndex)capacity, in the width of a handle.
Handle(capacity) ==
  LET half == 2^(IndexBits - 1)
  IN  IF capacity < half THEN -capacity ELSE 2 * half - capacity

\* Mutation of Data: a capacity of zero is kept, and is the handle of an array.
DataAsAsked(capacity) ==
  [isView |-> FALSE, vertexArray |-> Handle(capacity), first |-> Origin]

Data(capacity) ==
  [isView |-> FALSE, vertexArray |-> Handle(Max({1, capacity})), first |-> Origin]

View(base, offset, size) ==
  [isView |-> TRUE, base |-> base, offset |-> offset, size |-> size]

\* The layer [geom, store] after append(p) to its geometry g.
Appended(layer, g, p) ==
  LET handle == layer.geom[g].vertexArray
  IN  IF handle < 0
      THEN [geom  |-> [layer.geom EXCEPT ![g].vertexArray = Len(layer.store), ![g].first = p],
            store |-> Append(layer.store, <<>>)]
      ELSE [layer EXCEPT !.store[handle + 1] = Append(@, p)]

\* A new geometry with the given capacity and points.
Built(layer, capacity, points) ==
  LET new == Len(layer.geom) + 1
  IN  FoldLeft(LAMBDA l, p : Appended(l, new, p),
               [layer EXCEPT !.geom = Append(@, Data(capacity))], points)

Layer == [geom |-> geom_, store |-> storage]

(***************************************************************************)
(* Reading                                                                 *)
(***************************************************************************)
\* Mutation of AllResolved: the offset of the last view only.
AllResolvedOnce ==
  LET at[g \in DOMAIN geom_] ==
        IF geom_[g].isView
        THEN [at[geom_[g].base] EXCEPT !.offset = geom_[g].offset]
        ELSE [root |-> g, offset |-> 0]
  IN  at

\* The geometry that holds the points of g, and where in it they begin.
AllResolved ==
  LET at[g \in DOMAIN geom_] ==
        IF geom_[g].isView
        THEN [at[geom_[g].base] EXCEPT !.offset = @ + geom_[g].offset]
        ELSE [root |-> g, offset |-> 0]
  IN  at

\* All points of a geometry that is no view. Only a handle that addLine() has
\* wrapped can name an array that is not there.
Held(g) ==
  IF geom_[g].vertexArray < 0 THEN <<>>
  ELSE <<geom_[g].first>> \o
       (IF geom_[g].vertexArray < Len(storage) THEN storage[geom_[g].vertexArray + 1] ELSE <<>>)

OutOfBounds(g) ==
  /\ geom_[g].isView
  /\ AllResolved[g].offset + geom_[g].size > Len(Held(AllResolved[g].root))

PointsOf(g) ==
  IF geom_[g].isView
  THEN SubSeq(Held(AllResolved[g].root), AllResolved[g].offset + 1, AllResolved[g].offset + geom_[g].size)
  ELSE Held(g)

(***************************************************************************)
(* The ring of a polygon or of a triangle of a mesh                        *)
(***************************************************************************)
Cross(a, b) == a[1] * b[2] - b[1] * a[2]

Closed(points, offset, size) ==
  size >= 3 /\ points[offset + 1] = points[offset + size]

\* The second operand wraps at the size, not at the end of the span.
Following(i, offset, size) == (i + 1 + offset) % size

SignedArea(points, offset, size) ==
  MapThenSumSet(
    LAMBDA i : Cross(points[i + offset + 1], points[Following(i, offset, size) + 1]),
    0 .. size - 1)

\* Mutation of RingIndex: backwards from the last point on.
RingIndexFromEnd(clockwise, size, i) == IF clockwise THEN size - 1 - i ELSE i

\* A clockwise ring is read backwards, from its first point on.
RingIndex(clockwise, size, i) == IF clockwise THEN (size - i) % size ELSE i

RingOf(points, offset, size) ==
  LET closed    == Closed(points, offset, size)
      clockwise == SignedArea(points, offset, size) < 0
      length    == IF closed THEN size ELSE size + 1
  IN  [i \in 1 .. length |->
        IF ~closed /\ i = length THEN points[offset + 1]
        ELSE points[offset + RingIndex(clockwise, size, i - 1) + 1]]

(***************************************************************************)
(* Actions                                                                 *)
(***************************************************************************)
Become(layer) == geom_' = layer.geom /\ storage' = layer.store

Room == Len(geom_) < MaxGeometries

NewGeometry(capacity) ==
  /\ Room
  /\ geom_' = Append(geom_, Data(capacity))
  /\ UNCHANGED storage

\* Appending to a view throws.
AppendPoint(g, p) ==
  /\ ~geom_[g].isView
  /\ Len(Held(g)) < MaxPoints
  /\ Become(Appended(Layer, g, p))

\* addPoints, addLine, addPoly and addMesh: the capacity is points.size()-1.
AddLine(points) ==
  /\ Room
  /\ Become(Built(Layer, (Len(points) - 1) % 2^IndexBits, points))

\* The span is not compared with the base. Views of geometries that have no
\* point yet are not made.
NewGeometryView(span, base) ==
  /\ Room
  /\ Held(AllResolved[base].root) # <<>>
  /\ geom_' = Append(geom_, View(base, span[1], span[2]))
  /\ UNCHANGED storage

\* A view that is out of bounds throws when it is read.
CloneGeometry(g) ==
  /\ Room
  /\ ~OutOfBounds(g)
  /\ Become(Built(Layer, Len(PointsOf(g)), PointsOf(g)))

BuffersInit == geom_ = <<>> /\ storage = <<>>

BuffersNext ==
  \/ \E c \in Capacities : NewGeometry(c)
  \/ \E l \in Outlines : AddLine(l)
  \/ \E g \in DOMAIN geom_ :
       \/ \E p \in Points : AppendPoint(g, p)
       \/ \E s \in Spans : NewGeometryView(s, g)
       \/ CloneGeometry(g)

BuffersSpec == BuffersInit /\ [][BuffersNext]_buffers
=============================================================================
