----------------------------- MODULE MCCodecs -----------------------------
(* Small sets of readings, floats, displays and spellings for Codecs.      *)
EXTENDS Codecs

Reading(value, decimals, sign, unit, stable) ==
  [is |-> "reading", value |-> value, decimals |-> decimals, sign |-> sign, unit |-> unit,
   stable |-> stable]

MCShown ==
  {Reading(<<66, 246, 204, 205>>, 1, "positive", "g", TRUE),
   Reading(<<194, 246, 204, 205>>, 3, "negative", "kg", FALSE),
   Reading(<<0, 0, 0, 0>>, 4, "zero", "mg", TRUE),
   Reading(NoValue, 0, "positive", "N", FALSE)}

MCFloats    == {<<68, 150, 0, 0>>, <<65, 211, 51, 51>>, <<0, 0, 0, 0>>}
MCArgValues == {0, 1, 255, 256}
MCNoise     == 1..255

MCDisplays ==
  [sign : {"+", "-", " "}, number : {<<"7", "0", ".", "7">>, <<"0", ".", "0">>, <<".", "7">>},
   unit : {"g", "kg"}, stable : BOOLEAN, wide : BOOLEAN]
MCSpellings ==
  [display_unit  |-> <<"lb">> :> "LB" @@ <<"KG">> :> "KG" @@ <<"N">> :> "NEWTON"
                       @@ <<"tl", ".", "hk">> :> "TAEL_HK" @@ <<"troy", " ", "ounces">> :> "OZT"
                       @@ <<" ", "metric", "-", " ", "ton">> :> "T" @@ <<"ptplb">> :> "PARTS_PER_POUND"
                       @@ <<"micro", "g">> :> "UG" @@ <<"g", "!">> :> "G" @@ <<"stone">> :> NoMember
                       @@ <<"ct", "au">> :> NoMember,
   filter_mode   |-> <<"Very", " ", "STABLE">> :> "VERY_STABLE" @@ <<"STABLE", " ">> :> "STABLE"
                       @@ <<"vu">> :> "VERY_UNSTABLE" @@ <<"Very", "STABLE">> :> NoMember,
   auto_zero     |-> <<"true">> :> "ON" @@ <<"disabled">> :> "OFF" @@ <<"note">> :> NoMember,
   tare_behavior |-> <<"wo", " ", "stab">> :> "WITHOUT_STABILITY" @@ <<"at", ".", "stability">> :> "AT_STABILITY",
   isocal_mode   |-> <<"enabled">> :> "ON" @@ <<"note">> :> "NOTE",
   menu_access   |-> <<"locked">> :> "READ_ONLY" @@ <<" ">> :> NoMember]

===========================================================================
