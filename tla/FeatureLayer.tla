------------------------------ MODULE FeatureLayer ------------------------------
(***************************************************************************)
(* The features of one tile and their ids (featurelayer.cpp, featureid.cpp, *)
(* info.cpp): a data source sets the id prefix and adds features, the tile *)
(* may be shipped to the service, and the service appends the features of  *)
(* add-on tiles to those they name (loadAddOnTiles of service.cpp).        *)
(*                                                                         *)
(* An id is a sequence of parts <<label, value>>. A value is an integer or *)
(* a string, and v is what both look like as text.                         *)
(***************************************************************************)
EXTENDS Naturals, SequencesExt

CONSTANTS
  Types,          \* the names of the feature types of the layer
  Compositions,   \* Compositions[t]: sequences of [label, optional, integer]
  Numerals,       \* the texts that are integers
  Hash(_, _),     \* hashFeatureId
  TilePrefixes,   \* what a data source gives to setIdPrefix
  NewIds,         \* what it gives to newFeature: pairs of a type and parts
  AddOns,         \* the features of add-on tiles, ...
  AddOnId,        \* ... their ids, pairs of a type and all parts, ...
  Located,        \* ... and the ids locate() finds in this tile for an indirect one
  MaxFeatures     \* bound: the features a data source adds

\* All sequences of parts that come from outside, and the parts in them.
GivenParts ==
  TilePrefixes \cup {id[2] : id \in NewIds \cup {AddOnId[a] : a \in AddOns}}
    \cup UNION {{id[2] : id \in ToSet(Located[a])} : a \in AddOns}

AllParts == UNION {ToSet(parts) : parts \in GivenParts}

ASSUME FeatureLayerAssumption ==
  /\ \A t \in Types : Compositions[t] # <<>> /\ Compositions[t][1] \in Seq(ToSet(Compositions[t][1]))
  /\ \A parts \in GivenParts : parts \in Seq(AllParts)
  /\ \A part \in AllParts : part = <<part[1], [kind |-> part[2].kind, v |-> part[2].v]>>
  /\ \A a \in AddOns : Located[a] \in Seq(ToSet(Located[a]))
  /\ \A id \in NewIds \cup {AddOnId[a] : a \in AddOns} \cup UNION {ToSet(Located[a]) : a \in AddOns} :
       id = <<id[1], id[2]>> /\ id[1] \in Types
  /\ MaxFeatures \in Nat

VARIABLES
  tile,    \* the tile: its id prefix, features, featureHashIndex_ and whether that
           \* needs sorting, and how the last call went
  phase,   \* "filling", then "merging", then "written"
  merged   \* the features of add-on tiles that were merged

vars == <<tile, phase, merged>>

Primary(t) == Compositions[t][1]

----------------------------------------------------------------------------
(* Ids and compositions                                                    *)

Admits(part, value) ==
  IF part.integer THEN value.v \in Numerals ELSE value.kind = "string"

\* Mutation of RequireEnd: parts may be missing at the end.
EndIsOptional == FALSE

RequireEnd == TRUE

\* idPartsMatchComposition. An optional part that is left over at the end is
\* looked at for ever.
Match(composition, start, parts, toEnd) ==
  LET n == Len(composition)
      AtEnd(i) == IF ~toEnd \/ i > n THEN "yes"
                  ELSE IF composition[i].optional THEN "endless" ELSE "no"
      From[at \in (1 .. n + 1) \X (1 .. Len(parts) + 1)] ==
        LET i == at[1]
            k == at[2]
        IN  IF k > Len(parts) THEN AtEnd(i)
            ELSE IF i > n THEN "no"
            ELSE IF composition[i].label # parts[k][1]
                 THEN IF composition[i].optional THEN From[<<i + 1, k>>] ELSE "no"
            ELSE IF Admits(composition[i], parts[k][2]) THEN From[<<i + 1, k + 1>>]
            ELSE "no"
  IN  From[<<start + 1, 1>>]

\* validFeatureId for a new feature, which must use the primary composition.
ValidNew(t, parts, start) == Match(Primary(t), start, parts, RequireEnd)

\* stripOptionalIdParts: one walk over the composition, which a part that it
\* does not find uses up.
Strip(parts, composition) ==
  LET Find(label, from) ==
        SelectInSubSeq(composition, from, Len(composition), LAMBDA p : p.label = label)
      Step(s, part) ==
        LET i == Find(part[1], s.at)
        IN  IF i = 0 THEN [s EXCEPT !.at = Len(composition) + 1]
            ELSE [at |-> i + 1,
                  out |-> IF composition[i].optional THEN s.out ELSE Append(s.out, part)]
  IN  FoldLeft(Step, [at |-> 1, out |-> <<>>], parts).out

\* keyValuePairs() of the i-th feature: the prefix of the tile comes first.
IdOf(s, i) == s.prefix \o s.features[i].parts

Key(s, i) == Strip(IdOf(s, i), Primary(s.features[i].type))

----------------------------------------------------------------------------
(* find                                                                    *)

\* operator< of an entry
Precedes(x, y) == x.hash < y.hash \/ (x.hash = y.hash /\ x.at < y.at)

\* Each entry comes behind those that precede it.
SortedIndex(index) ==
  LET Before(e) == {f \in ToSet(index) : Precedes(f, e)}
  IN  [k \in DOMAIN index |-> CHOOSE e \in ToSet(index) : Cardinality(Before(e)) = k - 1]

\* sortFeatureHashIndex
IndexOf(s) == IF s.unsorted THEN SortedIndex(s.index) ELSE s.index

\* The parts <<first, count>> of a sequence of length n.
Ranges(n) == {r \in (1 .. n + 1) \X (0 .. n) : r[1] + r[2] <= n + 1}

\* std::lower_bound: halves the range until it is empty.
LowerBound(index, hash) ==
  LET Half[r \in Ranges(Len(index))] ==
        LET step == r[2] \div 2
        IN  IF r[2] = 0 THEN r[1]
            ELSE IF index[r[1] + step].hash < hash
                 THEN Half[<<r[1] + step + 1, r[2] - step - 1>>]
            ELSE Half[<<r[1], step>>]
  IN  Half[<<1, Len(index)>>]

\* find(type, parts): among the entries with the hash, the first whose feature has
\* the type and the same mandatory parts; 0 if there is none.
Find(s, t, parts) ==
  LET index == IndexOf(s)
      key == Strip(parts, Primary(t))
      hash == Hash(t, key)
      first == LowerBound(index, hash)
      last == SelectInSubSeq(index, first, Len(index), LAMBDA e : e.hash # hash)
      hit == SelectInSubSeq(index, first, IF last = 0 THEN Len(index) ELSE last - 1,
                            LAMBDA e : s.features[e.at].type = t /\ Key(s, e.at) = key)
  IN  IF hit = 0 THEN 0 ELSE index[hit].at

\* The parts of the composition that are not optional.
Mandatory(t) ==
  FoldLeft(LAMBDA found, p : IF p.optional THEN found ELSE Append(found, p), <<>>, Primary(t))

\* find("type.part.part"): of its two passes, with the optional parts and without
\* them, the second one always decides.
FindText(s, t, texts) ==
  LET parts == Mandatory(t)
      Value(i) == [kind |-> IF parts[i].integer THEN "integer" ELSE "string",
                   v |-> texts[i]]
  IN  IF /\ Len(texts) = Len(parts)
         /\ \A i \in DOMAIN parts : parts[i].integer => texts[i] \in Numerals
      THEN Find(s, t, [i \in DOMAIN parts |-> <<parts[i].label, Value(i)>>])
      ELSE 0

\* toString() of the i-th feature, without its type.
TextOf(s, i) == [k \in DOMAIN IdOf(s, i) |-> IdOf(s, i)[k][2].v]

----------------------------------------------------------------------------
(* Adding and merging features                                             *)

\* Mutation of MarkUnsorted: the flag is forgotten once it was reset.
MarkNothing(s) == s.unsorted

MarkUnsorted(s) == TRUE

\* newFeature
WithFeature(s, t, parts, adopted) ==
  LET at == Len(s.features) + 1
      added == [s EXCEPT !.features = Append(@, [type |-> t, parts |-> parts,
                                                 adopted |-> adopted])]
  IN  [added EXCEPT !.index = Append(@, [hash |-> Hash(t, Key(added, at)), at |-> at]),
                    !.unsorted = MarkUnsorted(s)]

AddTo(s, t, parts, adopted) ==
  LET match == IF parts = <<>> THEN "no" ELSE ValidNew(t, parts, Len(s.prefix))
  IN  IF match = "yes" THEN WithFeature(s, t, parts, adopted)
      ELSE [s EXCEPT !.last = match]

Sorted(s) == [s EXCEPT !.index = IndexOf(s), !.unsorted = FALSE]

\* The parts a new feature gets when it is cloned, without the prefix.
OwnParts(s, parts) ==
  IF Len(parts) >= Len(s.prefix) THEN SubSeq(parts, Len(s.prefix) + 1, Len(parts))
  ELSE parts

\* Mutation of Target: the feature is looked up as a new one.
NoTarget(s, id) == 0

Target(s, id) == Find(s, id[1], id[2])

\* clone: the data of a is appended to the feature id names, or to a new one.
Clone(s, id, a) ==
  LET at == Target(s, id)
  IN  IF s.last # "yes" THEN s
      ELSE IF at # 0
      THEN [Sorted(s) EXCEPT !.features[at].adopted = @ \cup {a}]
      ELSE AddTo(Sorted(s), id[1], OwnParts(s, id[2]), {a})

\* An id that is not a primary one is indirect: locate() tells what it stands for.
Resolved(a) ==
  IF ValidNew(AddOnId[a][1], AddOnId[a][2], 0) = "yes" THEN <<AddOnId[a]>> ELSE Located[a]

----------------------------------------------------------------------------
NoTile == [prefix |-> <<>>, features |-> <<>>, index |-> <<>>, unsorted |-> FALSE,
           last |-> "yes"]

Init == tile = NoTile /\ phase = "filling" /\ merged = {}

\* A call that raised ("no") may be followed by others while the tile is filled.
CanFill == phase = "filling" /\ tile.last # "endless"

SetIdPrefix(prefix) ==
  /\ CanFill /\ tile.features = <<>>
  /\ \A t \in Types : Match(Primary(t), 0, prefix, FALSE) = "yes"
  /\ tile' = [tile EXCEPT !.prefix = prefix, !.last = "yes"]
  /\ UNCHANGED <<phase, merged>>

NewFeature(id) ==
  /\ CanFill /\ Len(tile.features) < MaxFeatures
  /\ tile' = AddTo([tile EXCEPT !.last = "yes"], id[1], id[2], {})
  /\ UNCHANGED <<phase, merged>>

\* find() sorts the index, whatever it finds.
FindFeature ==
  /\ CanFill /\ tile.unsorted
  /\ tile' = Sorted(tile)
  /\ UNCHANGED <<phase, merged>>

\* Filled by the data source: written for the service, which sorts the index, or
\* handed over as it is.
FillTile ==
  /\ CanFill
  /\ tile' \in {Sorted([tile EXCEPT !.last = "yes"]), [tile EXCEPT !.last = "yes"]}
  /\ phase' = "merging"
  /\ UNCHANGED merged

\* The body of the loop of loadAddOnTiles over the features of an add-on tile. An
\* exception ends it and the tile is not stored; validFeatureId may not return.
MergeAddOn(a) ==
  /\ phase = "merging" /\ tile.last = "yes" /\ a \notin merged
  /\ tile' = IF ValidNew(AddOnId[a][1], AddOnId[a][2], 0) = "endless"
             THEN [tile EXCEPT !.last = "endless"]
             ELSE FoldLeft(LAMBDA s, id : Clone(s, id, a), tile, Resolved(a))
  /\ merged' = merged \cup {a}
  /\ UNCHANGED phase

\* putTileLayer writes the tile.
StoreTile ==
  /\ phase = "merging" /\ tile.last = "yes"
  /\ phase' = "written"
  /\ tile' = Sorted(tile)
  /\ UNCHANGED merged

Next ==
  \/ \E p \in TilePrefixes : SetIdPrefix(p)
  \/ \E id \in NewIds : NewFeature(id)
  \/ FindFeature \/ FillTile \/ StoreTile
  \/ \E a \in AddOns : MergeAddOn(a)

Spec == Init /\ [][Next]_vars
=============================================================================
