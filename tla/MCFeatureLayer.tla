----------------------------- MODULE MCFeatureLayer -----------------------------
(***************************************************************************)
(* A small instance of FeatureLayer. A way may have a country, a lane may  *)
(* end with a side, and a sign may begin with a country, so that the prefix *)
(* <<area>> leads for ways and lanes only. The texts 1 and 2 are numerals, *)
(* 3 and 4 are not.                                                        *)
(***************************************************************************)
EXTENDS FeatureLayerProps

Num(v)  == [kind |-> "integer", v |-> v]
Word(v) == [kind |-> "string", v |-> v]

Part(label, optional, integer) ==
  [label |-> label, optional |-> optional, integer |-> integer]

AreaPart == Part("area", FALSE, FALSE)
Country == Part("country", TRUE, FALSE)

AllCompositions ==
  [Way  |-> << <<AreaPart, Country, Part("way", FALSE, TRUE)>>, <<Part("code", FALSE, TRUE)>> >>,
   Lane |-> << <<AreaPart, Part("lane", FALSE, TRUE), Part("side", TRUE, FALSE)>> >>,
   Sign |-> << <<Country, AreaPart, Part("sign", FALSE, TRUE)>> >>,
   Road |-> << <<AreaPart, Part("road", FALSE, TRUE)>> >>]
SomeCompositions == [t \in Types |-> AllCompositions[t]]

LastText(t, key) == IF key = <<>> THEN 0 ELSE Last(key)[2].v % 2

A3 == <<"area", Word(3)>>
A4 == <<"area", Word(4)>>
W(v) == <<"way", v>>

SomePrefixes == {<<A3>>, <<A3, <<"country", Word(4)>>>>}
SomeIds ==
  {<<"Way", parts>> : parts \in
     {<<W(Num(1))>>, <<W(Num(2))>>, <<W(Word(1))>>, <<A3, W(Num(1))>>, <<A4, W(Num(1))>>,
      <<<<"country", Word(4)>>, W(Num(1))>>, <<A3>>}}
  \cup {<<"Road", <<<<"road", Num(1)>>>>>>, <<"Road", <<A4, <<"road", Num(1)>>>>>>,
        <<"Sign", <<<<"sign", Num(1)>>>>>>, <<"Sign", <<A4, <<"sign", Num(1)>>>>>>}
LaneIds == {<<"Lane", <<A3, <<"lane", Num(1)>>, <<"side", Word(4)>>>>>>,
            <<"Lane", <<A3, <<"lane", Num(1)>>>>>>}

SomeAddOnIds ==
  [a \in AddOns |->
     CASE a = "direct"   -> <<"Way", <<A3, W(Num(1))>>>>
       [] a = "again"    -> <<"Way", <<A3, <<"country", Word(4)>>, W(Num(1))>>>>
       [] a = "far"      -> <<"Way", <<A4, W(Num(1))>>>>
       [] a = "indirect" -> <<"Way", <<<<"code", Num(1)>>>>>>
       [] OTHER          -> <<"Lane", <<A3, <<"lane", Num(2)>>>>>>]
SomeLocated ==
  [a \in AddOns |->
     IF a = "indirect" THEN <<<<"Way", <<A3, W(Num(2))>>>>, <<"Way", <<A3, W(Num(1))>>>>>>
     ELSE <<>>]
=============================================================================
