------------------------------ MODULE Settings ------------------------------
(***************************************************************************)
(* The six typed parameters of Balance (get_filter_mode, set_display_unit, *)
(* ...): from what a caller gives - a member of the enumeration, a wire    *)
(* code or a word - to the byte of a write, and from the byte of a reply   *)
(* back to a member. A word is a sequence of symbols: words and single     *)
(* characters. What it means comes of tables built at import, where a      *)
(* later entry replaces an earlier one of the same key.                    *)
(***************************************************************************)
EXTENDS Integers, Sequences, FiniteSetsExt, Functions, TLC

Member(m) == [form |-> "member", member |-> m]
Code(n)   == [form |-> "code", code |-> n]
Text(t)   == [form |-> "text", text |-> t]

Unknown  == "UNKNOWN"
NoMember == "raised"
NoCode   == -1

Index ==
  [filter_mode |-> 1, tare_behavior |-> 5, auto_zero |-> 6, display_unit |-> 7,
   isocal_mode |-> 15, menu_access |-> 40]

-----------------------------------------------------------------------------
(* Members and wire codes: the n-th member of a setting has code n.        *)

UnitMembers ==
  <<"USERDEF", "G", "KG", "CT", "LB", "OZ", "OZT", "TAEL_HK", "TAEL_SG", "TAEL_TW", "GR", "DWT",
    "MG", "PARTS_PER_POUND", "TAEL_CN", "MOMME", "CT_AU", "TOLA", "BAHT", "MESGAL", "T", "LB_OZ",
    "NEWTON", "UG">>

FilterMode     == <<"VERY_STABLE", "STABLE", "UNSTABLE", "VERY_UNSTABLE">>
TareBehavior   == <<"WITHOUT_STABILITY", "WITH_STABILITY", "AT_STABILITY">>
AutoZeroMode   == <<"ON", "OFF">>
IsoCalMode     == <<"OFF", "NOTE", "ON">>
MenuAccessMode == <<"CAN_EDIT", "READ_ONLY">>

Modes ==
  [filter_mode |-> FilterMode, tare_behavior |-> TareBehavior, auto_zero |-> AutoZeroMode,
   isocal_mode |-> IsoCalMode, menu_access |-> MenuAccessMode]

Members(s) == IF s = "display_unit" THEN UnitMembers ELSE Modes[s]

\* ParameterSpec.decode: a code without a member reads as UNKNOWN.
MemberOf(s, code) == IF code \in DOMAIN Members(s) THEN Members(s)[code] ELSE Unknown

\* ParameterSpec.encode of a member: UNKNOWN is not written.
CodeOf(s, m) ==
  IF m \in Range(Members(s)) THEN CHOOSE n \in DOMAIN Members(s) : Members(s)[n] = m ELSE NoCode

-----------------------------------------------------------------------------
(* Words.                                                                  *)

Separators  == {" ", "-", "."}
Punctuation == {"/", "!"}
Capitals    == [Very |-> "very", STABLE |-> "stable", KG |-> "kg", N |-> "n", ON |-> "on"]
Lower(c)    == IF c \in DOMAIN Capitals THEN Capitals[c] ELSE c

\* The blanks around it go, a run of separators becomes one underscore, and of what is
\* left the punctuation goes.
Normalise(word) ==
  LET solid == {i \in DOMAIN word : word[i] # " "}
      text  == IF solid = {} THEN <<>> ELSE SubSeq(word, Min(solid), Max(solid))
      kept(i) == /\ text[i] \notin Punctuation
                 /\ (text[i] \in Separators /\ i > 1) => text[i - 1] \notin Separators
      at == SelectSeq([i \in DOMAIN text |-> i], kept)
  IN  [k \in DOMAIN at |-> IF text[at[k]] \in Separators THEN "_" ELSE Lower(text[at[k]])]

\* The values of the enumeration Unit, in its order.
UnitSymbols ==
  <<<<"userdef">>, <<"g">>, <<"kg">>, <<"ct">>, <<"lb">>, <<"oz">>, <<"ozt">>, <<"tl", ".", "hk">>,
    <<"tl", ".", "sg">>, <<"tl", ".", "tw">>, <<"gr">>, <<"dwt">>, <<"mg">>, <<"/", "lb">>,
    <<"tl", ".", "cn">>, <<"momme">>, <<"ct", "_", "au">>, <<"tola">>, <<"baht">>, <<"mesgal">>,
    <<"t">>, <<"lb", "_", "oz">>, <<"N">>, <<"micro", "g">>>>

ModeNames ==
  [VERY_STABLE |-> <<"very", "_", "stable">>, STABLE |-> <<"stable">>, UNSTABLE |-> <<"unstable">>,
   VERY_UNSTABLE |-> <<"very", "_", "unstable">>, WITHOUT_STABILITY |-> <<"without", "_", "stability">>,
   WITH_STABILITY |-> <<"with", "_", "stability">>, AT_STABILITY |-> <<"at", "_", "stability">>,
   ON |-> <<"on">>, OFF |-> <<"off">>, NOTE |-> <<"note">>, CAN_EDIT |-> <<"can", "_", "edit">>,
   READ_ONLY |-> <<"read", "_", "only">>]

AmbiguousShorts == {"PARTS_PER_POUND"}

\* The table of the keys that members of S have of their own: the last one with it.
OwnKeys(S, keys, members) ==
  [key \in {keys[n] : n \in S} |-> members[Max({n \in S : keys[n] = key})]]

Table(words, members) ==
  OwnKeys(DOMAIN members, [n \in DOMAIN members |-> words[members[n]]], members)

LongForms ==
  LET tael(where) == <<where, "_", "tael">>
      named == [PARTS_PER_POUND |-> {<<"parts", "_", "per", "_", "pound">>, <<"ptplb">>},
                G |-> {<<"gram">>, <<"grams">>, <<"gramme">>}, KG |-> {<<"kilogram">>, <<"kilograms">>},
                MG |-> {<<"milligram">>, <<"milligrams">>},
                UG |-> {<<"microgram">>, <<"micrograms">>, <<"ug">>},
                CT |-> {<<"carat">>, <<"carats">>}, LB |-> {<<"pound">>, <<"pounds">>},
                OZ |-> {<<"ounce">>, <<"ounces">>},
                OZT |-> {<<"troy", "_", "ounce">>, <<"troy", "_", "ounces">>},
                GR |-> {<<"grain">>, <<"grains">>}, DWT |-> {<<"pennyweight">>},
                NEWTON |-> {<<"newton">>, <<"newtons">>},
                T |-> {<<"ton">>, <<"tons">>, <<"tonne">>, <<"tonnes">>, <<"metric", "_", "ton">>},
                USERDEF |-> {<<"user", "_", "defined">>, <<"user", "_", "def">>},
                TAEL_HK |-> {tael("hongkong"), tael("hk")}, TAEL_SG |-> {tael("singapore"), tael("sg")},
                TAEL_TW |-> {tael("taiwan"), tael("tw")}, TAEL_CN |-> {tael("chinese"), tael("cn")}]
  IN  [w \in UNION Range(named) |-> CHOOSE m \in DOMAIN named : w \in named[m]]

UnitKeys == [n \in DOMAIN UnitSymbols |-> Normalise(UnitSymbols[n])]

\* Mutant: the symbol of parts per pound is taken in with the others.
UnitAliasesShadowed == LongForms @@ OwnKeys(DOMAIN UnitMembers, UnitKeys, UnitMembers)

\* _UNIT_ALIASES: "/lb" has the key of "lb" and is left out.
UnitAliases ==
  LongForms @@ OwnKeys({n \in DOMAIN UnitMembers : UnitMembers[n] \notin AmbiguousShorts},
                       UnitKeys, UnitMembers)

FilterWords == [w \in {<<"v", "_", "stable">>, <<"vs">>} |-> "VERY_STABLE"]
                 @@ [w \in {<<"v", "_", "unstable">>, <<"vu">>} |-> "VERY_UNSTABLE"]
AutoZeroWords == [w \in {<<"enabled">>, <<"true">>} |-> "ON"]
                   @@ [w \in {<<"disabled">>, <<"false">>} |-> "OFF"]
TareWords   == <<"wo", "_", "stab">> :> "WITHOUT_STABILITY" @@ <<"w", "_", "stab">> :> "WITH_STABILITY"
                 @@ <<"at", "_", "stab">> :> "AT_STABILITY"
IsoCalWords == <<"enabled">> :> "ON" @@ <<"disabled">> :> "OFF"
MenuWords   == <<"editable">> :> "CAN_EDIT"
                 @@ [w \in {<<"readonly">>, <<"rd", "_", "only">>, <<"locked">>} |-> "READ_ONLY"]

Synonyms ==
  [filter_mode |-> FilterWords, auto_zero |-> AutoZeroWords, tare_behavior |-> TareWords,
   isocal_mode |-> IsoCalWords, menu_access |-> MenuWords]

\* _build_mode_aliases: the names of the members, replaced by the synonyms.
Aliases(s) ==
  IF s = "display_unit" THEN UnitAliases ELSE Synonyms[s] @@ Table(ModeNames, Modes[s])

\* The resolver of s.
Resolve(s, word) ==
  LET key == Normalise(word)
  IN  IF key \in DOMAIN Aliases(s) THEN Aliases(s)[key] ELSE NoMember

\* What a setter writes for what the caller gave: resolve_*, then encode. A code must
\* be that of a member; 0 and whatever does not resolve raises.
WireOf(s, given) ==
  CASE given.form = "member" -> CodeOf(s, given.member)
    [] given.form = "text"   -> CodeOf(s, Resolve(s, given.text))
    [] given.form = "code"   -> IF given.code \in DOMAIN Members(s) THEN given.code ELSE NoCode
=============================================================================
