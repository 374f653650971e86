------------------------------ MODULE SbiCodec ------------------------------
(***************************************************************************)
(* SBI on the wire: one line of text, what parse_line makes of it, what    *)
(* is_autoprint_line makes of it, and how the commands read their reply.   *)
(* A line is a sequence of symbols without its terminator: digits, sign,   *)
(* point, blank, "?", and words and units, each word one symbol. Two       *)
(* patterns must stay in step: the parser's and the framing's, each with   *)
(* its own set of prefix characters.                                       *)
(***************************************************************************)
EXTENDS Integers, Sequences, SequencesExt, FiniteSetsExt

Digits  == {"0", "7"}
Units   == {"g", "kg", "N"}
Words   == {"Stat", "HIGH", "OVERLOAD", "LOW", "UNDER", "ERR", "REJECT", "Cal.", "Ext.",
            "SerNo.", "Model"}
Bad     == "mu"        \* a byte that is not ASCII
Symbols == Digits \cup Units \cup Words \cup {" ", "?", "+", "-", ".", Bad}

\* Columns a symbol takes.
Width(s) ==
  CASE s \in {"Stat", "HIGH", "Cal.", "Ext."} -> 4
    [] s \in {"UNDER", "Model"} -> 5
    [] s \in {"REJECT", "SerNo."} -> 6
    [] s = "OVERLOAD" -> 8
    [] s \in {"LOW", "ERR"} -> 3
    [] s = "kg" -> 2
    [] OTHER -> 1

Columns(line) == FoldLeft(LAMBDA n, s : n + Width(s), 0, line)

-----------------------------------------------------------------------------
(* The pattern of a weight line:  ? id sign number unit, blanks between.   *)

\* How many symbols from the start are in S.
Span(line, S) ==
  Max({n \in 0..Len(line) : \A i \in 1..n : line[i] \in S})

Rest(line, n)  == SubSeq(line, n + 1, Len(line))
SkipBlank(line) == Rest(line, Span(line, {" "}))
Strip(line)    == Reverse(SkipBlank(Reverse(SkipBlank(line))))
Dotted(w)      == w \in {"Cal.", "Ext.", "SerNo."}

\* The prefix characters after the first, which is a letter: no period.
WeightPrefix    == Units \cup Words \cup Digits \cup {" "}
AutoprintPrefix == Units \cup Words \cup Digits \cup {" "}

\* What follows prefix, sign and blanks: a number with a digit in it, then a unit.
NumberLength(line) ==
  LET whole == Span(line, Digits)
      point == whole < Len(line) /\ line[whole + 1] = "."
      part  == IF point THEN Span(Rest(line, whole + 1), Digits) ELSE 0
  IN  IF whole > 0 THEN whole + (IF point THEN 1 + part ELSE 0)
      ELSE IF part > 0 THEN 1 + part ELSE 0

UnitField(line) == SkipBlank(Rest(line, NumberLength(line)))

\* The prefix field has one to six columns and a blank behind it.
PrefixLengths(line, chars) ==
  {0} \cup {n \in 1..Len(line) :
              /\ line[1] \in Units \cup Words
              /\ \A i \in 1..n : line[i] \in chars /\ ~Dotted(line[i])
              /\ Columns(SubSeq(line, 1, n)) <= 6
              /\ n < Len(line) /\ line[n + 1] = " "}

AfterSign(line) ==
  IF line # <<>> /\ line[1] \in {"+", "-"} THEN SkipBlank(Tail(line)) ELSE line

AfterMark(line) ==
  IF line # <<>> /\ line[1] = "?" THEN SkipBlank(Tail(line)) ELSE line

Numbered(line) ==
  /\ NumberLength(line) > 0
  /\ \A i \in DOMAIN UnitField(line) : UnitField(line)[i] \in Units \cup Words \cup {"."}

\* The lengths of prefix with which the whole line matches; a match has the longest.
MatchesWith(line, chars) ==
  LET body == AfterMark(Strip(line))
  IN  {n \in PrefixLengths(body, chars) : Numbered(AfterSign(SkipBlank(Rest(body, n))))}

\* is_autoprint_line's test of a number alone, glued to its terminator or shorter
\* than the fixed width.
BareNumber(line) ==
  LET text == Strip(line)
  IN  /\ NumberLength(text) > 0 /\ NumberLength(text) = Len(text)
      /\ text = line \/ Columns(line) < 14

\* The parser's test of the same, on the fields of its match: no mark, no prefix, no
\* sign and no unit.
IsFragment(line) ==
  LET text == Strip(line)
  IN  /\ text[1] \notin {"?", "+", "-"}
      /\ Max(MatchesWith(line, WeightPrefix)) = 0
      /\ UnitField(text) = <<>>
      /\ text = line \/ Columns(line) < 14

-----------------------------------------------------------------------------
(* Markers and kinds of line.                                              *)

\* Upper case, single blanks, without the prefix of a status line.
Marker(line) ==
  LET words == SelectSeq(line, LAMBDA s : s # " ")
  IN  IF Len(words) > 1 /\ words[1] = "Stat" THEN Tail(words) ELSE words

Overloads  == {<<"HIGH">>, <<"OVERLOAD">>}
Underloads == {<<"LOW">>, <<"UNDER">>}
Refusals   == {<<"ERR">>, <<"REJECT">>}
Specials   == {<<"Cal.", "Ext.">>}
AutoprintSpecials == {<<"HIGH">>, <<"LOW">>} \cup Specials

IsRefusal(line) ==
  LET m == Marker(line) IN m \in Refusals \/ (Len(m) > 1 /\ m[1] = "ERR")

LooksLikeWeight(line) ==
  \/ Marker(line) \in Overloads \cup Underloads
  \/ MatchesWith(line, WeightPrefix) # {} /\ ~IsFragment(line)

KindOf(line) ==
  IF \E i \in DOMAIN line : line[i] = Bad THEN "raises"
  ELSE IF Strip(line) = <<>> THEN "EMPTY"
  ELSE IF IsRefusal(line) THEN "REFUSAL"
  ELSE IF Marker(line) \in Specials THEN "UNKNOWN"
  ELSE IF LooksLikeWeight(line) THEN "WEIGHT"
  ELSE "IDENTITY"

\* Mutant: the test of the first fragment is the parser's business only.
IsAutoprintBare(line) ==
  Strip(line) # <<>> /\ (MatchesWith(line, AutoprintPrefix) # {} \/ Marker(line) \in AutoprintSpecials)

\* framing.is_autoprint_line; a byte that is not ASCII matches nothing.
IsAutoprint(line) ==
  /\ Strip(line) # <<>>
  /\ ~BareNumber(line)
  /\ MatchesWith(line, AutoprintPrefix) # {} \/ Marker(line) \in AutoprintSpecials

-----------------------------------------------------------------------------
(* The reading of a weight line and the answers of the commands.           *)

NumberOf(digits) == FoldLeft(LAMBDA n, d : 10 * n + (IF d = "7" THEN 7 ELSE 0), 0, digits)

UnitOfLine(field) == IF Len(field) = 1 /\ field[1] \in Units THEN field[1] ELSE "unknown"

OffScaleLine(m) ==
  [is |-> "line", value |-> <<>>, unit |-> "unknown", sign |-> "unknown",
   stable |-> FALSE, overload |-> m \in Overloads, underload |-> m \in Underloads]

\* A stable line is one with a unit and without the mark of an unstable one. The
\* value is the number's digits and how many follow the point.
ReadingOf(line) ==
  LET m      == Marker(line)
      body   == AfterMark(Strip(line))
      after  == SkipBlank(Rest(body, Max(MatchesWith(line, WeightPrefix))))
      number == AfterSign(after)
      text   == SubSeq(number, 1, NumberLength(number))
      point  == {i \in DOMAIN text : text[i] = "."}
      value  == NumberOf(SelectSeq(text, LAMBDA s : s # "."))
      minus  == after[1] = "-"
      unit   == UnitField(number)
  IN  IF m \in Overloads \cup Underloads THEN OffScaleLine(m)
      ELSE [is |-> "line",
            value     |-> <<IF minus THEN -value ELSE value,
                            IF point = {} THEN 0 ELSE Len(text) - Max(point)>>,
            unit      |-> UnitOfLine(unit),
            sign      |-> IF value = 0 THEN "zero" ELSE IF minus THEN "negative" ELSE "positive",
            stable    |-> Strip(line)[1] # "?" /\ unit # <<>>,
            overload  |-> FALSE, underload |-> FALSE]

StatusOfLine(r) ==
  [is |-> "linestatus", stable |-> r.stable,
   state |-> CASE r.overload -> "OVERLOAD" [] r.underload -> "UNDERLOAD"
               [] r.stable -> "STABLE" [] OTHER -> "UNSTABLE"]

\* What a caller gets of one reply line: require_reading for the print command and
\* for a line nobody asked for, require_identity_text for the others, of which the
\* model takes no line that could be a weight.
SbiAnswer(c, line) ==
  LET kind == KindOf(line)
  IN  CASE kind = "raises"  -> [is |-> "failed"]
        [] kind = "REFUSAL" -> [is |-> "refusal", code |-> 0]
        [] kind = "WEIGHT" /\ c = "status" -> StatusOfLine(ReadingOf(line))
        [] kind = "WEIGHT" /\ c \in {"net", "listen"} -> ReadingOf(line)
        [] kind = "WEIGHT" /\ c \in {"software", "factory"} -> [is |-> "text", value |-> Strip(line)]
        [] kind = "IDENTITY" /\ c \in {"model", "software", "factory"} ->
             [is |-> "text", value |-> Strip(line)]
        [] OTHER -> [is |-> "failed"]
=============================================================================
