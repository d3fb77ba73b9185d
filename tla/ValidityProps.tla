----------------------------- MODULE ValidityProps -----------------------------
(* What a validity promises about the part of the line it resolves to.     *)
EXTENDS Validity

\* The line in steps of length one.
Walk(line) ==
  FoldLeft(LAMBDA walk, p :
             walk \o [k \in 1 .. Distance(Last(walk), p) |-> Between(Last(walk), p, k)],
           <<Head(line)>>, Tail(line))

ResolvableLines ==
  UNION {{c[k].points : k \in {k \in DOMAIN c : c[k].type = "Line"}} :
           c \in {collection} \cup {Feature[f] : f \in DOMAIN Feature}}

\* The lengths along the line that the offsets of the validity stand for.
Lengths(line) ==
  [k \in DOMAIN validity.value |->
    LET n == validity.value[k][1]
    IN  CASE validity.offsetType = "MetricLengthOffset" -> n
          [] validity.offsetType = "RelativeLengthOffset" -> (n * Length(line)) \div RelativeSteps
          [] validity.offsetType = "BufferOffset" ->
               IF n < Len(line) THEN Covered(line, n) ELSE Length(line) + 1]

HasOffsets == validity.descr \in {"OffsetPointValidity", "OffsetRangeValidity"}

\* Lengths and indices within the line resolve to the part of the line between them, in the
\* direction of the line, with all of its corners, whichever offset is given first.
\* A length behind the end of the line gives its first point, and on a line that
\* begins with the same point twice, a length of zero divides zero by zero.
RangesArePartsOfTheLine ==
  HasOffsets /\ validity.offsetType # "GeoPosOffset" =>
    \A line \in ResolvableLines :
      LET at == Ordered(Lengths(line))
      IN  Last(at) <= Length(line) /\ Covered(line, Min({1, Len(line) - 1})) > 0 =>
            Walk(Resolve(line, validity).points) = SubSeq(Walk(line), at[1] + 1, Last(at) + 1)

Straight(line) ==
  \A i \in Segments(line), k \in 1 .. Len(line) :
    k > i => line[k][1] >= line[i + 1][1] /\ line[i + 1][1] > line[i][1] /\ line[k][2] = line[i][2]

\* Positions that project on a line resolve to a part of it, which runs backwards
\* only within a single segment; on a straight line, to the part between them.
PositionsArePartsOfTheLine ==
  HasOffsets /\ validity.offsetType = "GeoPosOffset" =>
    \A line \in ResolvableLines :
      (\A k \in DOMAIN validity.value : ClosestIndex(line, validity.value[k]) # 0) =>
        LET points == Resolve(line, validity).points
            part   == Walk(points)
            all    == Walk(line)
            Within(w) == \E i \in 0 .. Len(all) - Len(w) : SubSeq(all, i + 1, i + Len(w)) = w
        IN  /\ Within(part) \/ (Len(points) = 2 /\ Within(Reverse(part)))
            /\ (Straight(line) /\ ToSet(validity.value) \subseteq ToSet(all)) =>
                 {Head(part), Last(part)} = ToSet(validity.value)

\* Offsets of all types resolve to a part of the line.
OffsetsArePartsOfTheLine == RangesArePartsOfTheLine /\ PositionsArePartsOfTheLine

Nameless(v) == [v EXCEPT !.name = NoName, !.featureId = NoId]

\* A validity means the same after its layer was written and read. So does the clone
\* that an add-on tile hands over, or it means what the validity would without the
\* names of a geometry and a feature: nothing else is lost when the setters are
\* called anew.
CopiesMeanTheSame ==
  /\ ComputeGeometry(Restored(validity)) = ComputeGeometry(validity)
  /\ ComputeGeometry(Cloned(validity)) \in
       {ComputeGeometry(validity), ComputeGeometry(Nameless(validity))}
=============================================================================
