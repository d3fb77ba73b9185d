--------------------------- MODULE FeatureLayerProps ---------------------------
(* What a tile promises about the ids of its features.                     *)
EXTENDS FeatureLayer

Features == DOMAIN tile.features
Type(i)  == tile.features[i].type

\* The binary search of find() over hashes, which may collide and are sorted
\* only when needed, is a search through all features: the first with the type
\* and the mandatory parts asked for, whatever was added, found or merged before.
FindIsSearch ==
  \A id \in {<<Type(i), IdOf(tile, i)>> : i \in Features} \cup {AddOnId[a] : a \in AddOns} :
    Find(tile, id[1], id[2]) =
      SelectInSeq(tile.features,
        LAMBDA f : /\ f.type = id[1]
                   /\ Strip(tile.prefix \o f.parts, Primary(id[1])) =
                        Strip(id[2], Primary(id[1])))

\* A feature is found by what toString() prints, if its type has no optional
\* parts and its integers were given as integers.
TextIsFound ==
  \A i \in Features :
    /\ \A k \in DOMAIN Primary(Type(i)) : ~Primary(Type(i))[k].optional
    /\ \A k \in DOMAIN IdOf(tile, i) :
         IdOf(tile, i)[k][2].v \in Numerals => IdOf(tile, i)[k][2].kind = "integer"
    => FindText(tile, Type(i), TextOf(tile, i)) = Find(tile, Type(i), IdOf(tile, i))

\* A feature is found by its id and by the text of its id.
FeaturesAreFound == FindIsSearch /\ TextIsFound

\* The prefix is the beginning of the primary composition of t.
Leads(t) ==
  /\ Len(tile.prefix) <= Len(Primary(t))
  /\ \A k \in DOMAIN tile.prefix : Primary(t)[k].label = tile.prefix[k][1]

\* A feature "must always use the first (primary)" composition: with the prefix,
\* its id is a whole id of it, also if it came with an add-on tile. This takes a
\* prefix without gaps, which setIdPrefix does not demand.
IdsAreWhole ==
  \A i \in Features :
    Leads(Type(i)) => Match(Primary(Type(i)), 0, IdOf(tile, i), TRUE) = "yes"

\* The ids of a begin with the prefix of this tile.
SamePrefix(a) ==
  \A k \in DOMAIN Resolved(a) : IsPrefix(tile.prefix, Resolved(a)[k][2])

\* "If a feature with that ID already exists in this layer, the attributes from
\* otherFeature will simply be appended to the existing feature", and otherwise to
\* a new one: after the merge, each id of the add-on feature leads to its data.
MergedIsFound ==
  \A a \in merged : tile.last = "yes" /\ SamePrefix(a) =>
    \A k \in DOMAIN Resolved(a) :
      LET at == Find(tile, Resolved(a)[k][1], Resolved(a)[k][2])
      IN  at # 0 /\ a \in tile.features[at].adopted

\* And to one feature only: a merge never adds a second feature of an id, and never
\* appends to one that find() does not return.
MergeMakesNoTwins ==
  \A i, j \in Features :
    /\ tile.features[j].adopted # {}
    /\ \A a \in tile.features[j].adopted : SamePrefix(a)
    /\ Type(i) = Type(j) /\ Key(tile, i) = Key(tile, j)
    => j <= i

\* newFeature: the id "must conform to an existing UniqueIdComposition ... or a
\* runtime error will be raised". The code does not keep this.
CallsReturn == tile.last # "endless"
=============================================================================
