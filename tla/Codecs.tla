------------------------------- MODULE Codecs -------------------------------
(***************************************************************************)
(* One exchange after another through the codecs, in the protocol the port *)
(* speaks: a command is encoded, the balance reads the request and         *)
(* answers, the client frames, parses and decodes what has arrived. In     *)
(* xBPI a byte of the answer may change on the way, or the answer may be   *)
(* late: the call times out and the next one finds it. The typed getters   *)
(* and setters of Balance are reads and writes of parameters, with a       *)
(* member of an enumeration for the byte. In SBI the host may also listen  *)
(* to the lines a balance prints on its own, and then begin in the middle  *)
(* of one.                                                                 *)
(*                                                                         *)
(* What the balance sends is external: docs/protocol.md gives the bodies   *)
(* of xBPI, and the SBI lines have the fixed columns the parser counts on. *)
(***************************************************************************)
EXTENDS XbpiCodec, SbiCodec, Settings

CONSTANTS
  Shown,      \* readings an xBPI balance answers with
  Floats,     \* float32 values that are numbers, four bytes each
  ArgValues,  \* what callers put in the arguments of a request
  Noise,      \* what is added to a byte that changes on the way, modulo 256
  Displays,   \* what an SBI balance shows
  Spellings   \* of each typed parameter: words callers give, and the member they mean

\* What a balance can put in the eight bytes of a weight; the first bytes of an off-scale
\* one are no number.
Readings ==
  [is : {"reading"}, value : [1..4 -> 0..255] \cup {NoValue}, decimals : 0..15,
   sign : {"zero", "positive", "negative"}, unit : {"g", "kg", "mg", "N"}, stable : BOOLEAN]

ASSUME CodecsAssumption ==
  /\ \A r \in Shown : r \in Readings /\ r.value # NoSensor
  /\ \A f \in Floats : f \in [1..4 -> 0..255] /\ f # NoSensor
  /\ Noise \subseteq 1..255
  /\ ArgValues \subseteq Nat
  /\ DOMAIN Spellings \subseteq DOMAIN Index
  /\ \A d \in Displays : /\ d.sign \in {"+", "-", " "} /\ d.unit \in Units
                        /\ d.number \in Seq(Digits \cup {"."}) /\ Len(d.number) <= 8
                        /\ d.stable \in BOOLEAN /\ d.wide \in BOOLEAN

Nobody  == [cmd |-> "nobody"]
Garbage == [cmd |-> "garbage", body |-> <<>>]

None            == [is |-> "none"]
Delayed         == [is |-> "late"]
Changed(i, n)   == [is |-> "changed", at |-> i, by |-> n]
MissedColumns(n) == [is |-> "missed", columns |-> n]
NoSetting == "none"
NoCall == [cmd |-> "none", setting |-> NoSetting]

VARIABLES
  protocol, \* what the port speaks
  stage,       \* "idle", "asked", "answered", "done"
  call,     \* the exchange under way: command, arguments, request
  answer,   \* what the balance answers and what it means by that
  input,     \* bytes or symbols on the port that nobody has read
  fault,    \* what happens to the answer on its way
  late,     \* the earlier answer that is on the port before the call's own, or garbage
  raw,      \* the frame the client took, as it took it
  result    \* what the caller gets

codecVars == <<protocol, stage, call, answer, input, fault, late, raw, result>>

Pending == [is |-> "pending"]

CodecInit ==
  /\ protocol \in {"xbpi", "sbi"}
  /\ stage = "idle"
  /\ call = NoCall /\ answer = NoCall
  /\ input = <<>> /\ raw = <<>>
  /\ fault = None
  /\ late = Nobody
  /\ result = Pending

-----------------------------------------------------------------------------
(* The balance.                                                            *)

SignBits(s) == CASE s = "zero" -> 0 [] s = "positive" -> 64 [] s = "negative" -> 128
UnitId(u)   == CASE u = "g" -> 2 [] u = "kg" -> 3 [] u = "mg" -> 13 [] u = "N" -> 23

MeasurementOf(r) ==
  (IF r.value = NoValue THEN OffScale ELSE Append(r.value, Last(r.value)))
    \o <<16 * r.decimals, SignBits(r.sign) + UnitId(r.unit), IF r.stable THEN 64 ELSE 0>>

\* State and status bytes of a Cubis and of the others, and their meaning.
StatusTable ==
  {<<136, 24, "STABLE", {TRUE}, {TRUE}>>, <<128, 8, "UNSTABLE", {TRUE}, {FALSE}>>,
   <<130, 8, "OVERLOAD", {TRUE}, {FALSE}>>, <<132, 0, "UNDERLOAD", {FALSE}, {FALSE}>>,
   <<8, 32, "STABLE", {}, {}>>, <<0, 0, "UNSTABLE", {}, {}>>}

Says(subtype, body, means) == [subtype |-> subtype, body |-> body, means |-> means]

\* A version whose first byte is the checksum of a frame cut before it.
SoftwareBytes == [i \in 1..10 |-> IF i = 1 THEN 142 ELSE i]

\* What the balance answers to a request of c, apart from a refusal.
ProperAnswers(c) ==
  CASE c \in Weights -> {Says(72, MeasurementOf(r), r) : r \in Shown}
    [] c = "status" ->
         {Says(72, <<0, 0, 129, t[1], t[2], 16, 0, 5>>,
               [is |-> "status", stable |-> t[3] = "STABLE", state |-> t[3],
                adc_trusted |-> t[4], isocal_due |-> t[5], sequence |-> 5]) : t \in StatusTable}
    [] c \in Metrology -> {Says(53, Append(f, 3), [is |-> "quantity", value |-> f]) : f \in Floats}
    [] c = "temperature" ->
         {Says(53, Append(f, 0), [is |-> "temperature", value |-> f]) : f \in Floats}
           \cup {Says(53, Append(NoSensor, 0), [is |-> "temperature", value |-> NoValue])}
    [] c = "parameter" ->
         {Says(33, <<v, 33, 4>>, [is |-> "entry", current |-> v, max |-> 4]) : v \in {0, 4}}
    [] c = "counter" -> {Says(33, <<v>>, [is |-> "counter", value |-> v]) : v \in {0, 255}}
    [] c = "sbn" -> {Says(33, <<9>>, [is |-> "sbn", value |-> 9])}
    [] c = "calrecord" ->
         {Says(81, f \o <<1, 9, 0, 4, 2, 6, 0, 7, 1>> \o <<1, 2, 3, 0>>,
               [is |-> "calrecord", value |-> IF f = <<0, 0, 0, 0>> THEN NoValue ELSE f,
                signature |-> <<1, 9, 0, 4, 2, 6, 0, 7, 1>>, counters |-> <<1, 2, 3>>]) : f \in Floats}
    [] c \in Texts -> {Says(80, <<77, 83, 69>> \o [i \in 1..13 |-> 0], [is |-> "text", value |-> <<77, 83, 69>>])}
    [] c = "factory" -> {Says(69, <<0, 49, 128, 17, 101>>, [is |-> "bytes", value |-> <<0, 49, 128, 17, 101>>])}
    [] c = "software" -> {Says(74, SoftwareBytes, [is |-> "bytes", value |-> SoftwareBytes])}
    [] c \in Acks -> {Says(0, <<>>, Done)}

\* The parameters of docs/protocol.md 10.1 with a typed accessor: what each code sets.
Documented ==
  [filter_mode   |-> <<"VERY_STABLE", "STABLE", "UNSTABLE", "VERY_UNSTABLE">>,
   tare_behavior |-> <<"WITHOUT_STABILITY", "WITH_STABILITY", "AT_STABILITY">>,
   auto_zero     |-> <<"ON", "OFF">>,
   display_unit  |-> <<"USERDEF", "G", "KG", "CT", "LB", "OZ", "OZT", "TAEL_HK", "TAEL_SG", "TAEL_TW",
                       "GR", "DWT", "MG", "PARTS_PER_POUND", "TAEL_CN", "MOMME", "CT_AU", "TOLA",
                       "BAHT", "MESGAL", "T", "LB_OZ", "NEWTON", "UG">>,
   isocal_mode   |-> <<"OFF", "NOTE", "ON">>,
   menu_access   |-> <<"CAN_EDIT", "READ_ONLY">>]

\* Codes a balance may hold: the documented ones, the reserved one behind them and 0.
HeldCodes(s) == 0..(Len(Documented[s]) + 1)

Setting(s, code) ==
  [is |-> "setting", value |-> IF code \in DOMAIN Documented[s] THEN Documented[s][code] ELSE Unknown]

SettingAnswers(s) ==
  {Says(33, <<code, 33, Len(Documented[s])>>, Setting(s, code)) : code \in HeldCodes(s)}

\* What a caller of the setter of s may give, with what it means by that.
Givens(s) ==
  {<<Member(m), m>> : m \in Range(Documented[s])} \cup {<<Member(Unknown), NoMember>>}
    \cup {<<Code(n), IF n \in DOMAIN Documented[s] THEN Documented[s][n] ELSE NoMember>> :
             n \in HeldCodes(s)}
    \cup {<<Text(w), Spellings[s][w]>> : w \in DOMAIN Spellings[s]}

Refuses == {Says(1, <<code>>, [is |-> "refusal", code |-> code]) : code \in {4, 16}}

SumOf(bytes) ==
  LET total[n \in 0..Len(bytes)] == IF n = 0 THEN 0 ELSE total[n - 1] + bytes[n]
  IN  total[Len(bytes)] % 256

FrameOf(a) ==
  LET pre == <<Len(a.body) + 3, 65, a.subtype>> \o a.body
  IN  Append(pre, SumOf(pre))

\* What a balance makes of a request: its opcode and the values of its records.
ReadRequest(bytes) ==
  IF /\ Len(bytes) >= 5
     /\ bytes[1] = Len(bytes) - 1
     /\ Last(bytes) = SumOf(Front(bytes))
  THEN LET tlvs == ParseTlvs(SubSeq(bytes, 5, Len(bytes) - 1))
       IN  IF tlvs = Failed THEN Failed
           ELSE [opcode |-> bytes[4], to |-> bytes[3],
                 args |-> [i \in DOMAIN tlvs.list |-> tlvs.list[i].value[1]]]
  ELSE Failed

Blanks(n) == [i \in 1..n |-> " "]

\* A line of fourteen columns, or of twenty with the prefix field.
Printed(d) ==
  (IF d.wide THEN <<"N">> \o Blanks(5) ELSE <<>>) \o <<d.sign, " ">>
    \o Blanks(8 - Len(d.number)) \o d.number \o <<" ">>
    \o (IF d.stable THEN <<d.unit>> \o Blanks(3 - Width(d.unit)) ELSE Blanks(3))

MeansOf(d) ==
  LET point == {i \in DOMAIN d.number : d.number[i] = "."}
      value == NumberOf(SelectSeq(d.number, LAMBDA s : s # "."))
  IN  [is |-> "line",
       value |-> <<IF d.sign = "-" THEN -value ELSE value,
                   IF point = {} THEN 0 ELSE Len(d.number) - Max(point)>>,
       unit |-> IF d.stable THEN d.unit ELSE "unknown",
       sign |-> IF value = 0 THEN "zero" ELSE IF d.sign = "-" THEN "negative" ELSE "positive",
       stable |-> d.stable, overload |-> FALSE, underload |-> FALSE]

Weighs == {[body |-> Printed(d), means |-> MeansOf(d)] : d \in Displays}
Limits == {[body |-> m, means |-> OffScaleLine(IF m[1] = "Stat" THEN SubSeq(m, 3, 3) ELSE m)] :
             m \in {<<"HIGH">>, <<"LOW">>, <<"OVERLOAD">>, <<"UNDER">>, <<"Stat", " ", "HIGH">>}}

TextLine(text) == [body |-> text, means |-> [is |-> "text", value |-> text]]
OtherLines ==
  {[body |-> l, means |-> [is |-> "other"]] :
     l \in {<<>>, <<"Stat", " ">> , <<"Cal.", " ", "Ext.">>, <<"ERR", " ", "7", "0">>, <<"REJECT">>,
            <<"7", Bad, "g">>, <<"SerNo.", " ", " ", "7", "0", "7">>}}

\* The lines the balance prints in answer to c, or of its own.
Lines(c) ==
  CASE c = "net"      -> Weighs \cup Limits
    [] c = "status"   -> {[l EXCEPT !.means = StatusOfLine(l.means)] : l \in Weighs \cup Limits}
    [] c = "model"    -> {TextLine(<<"Model">>)}
    [] c = "software" -> {TextLine(<<"7", "0", ".", "7">>)}
    [] c = "factory"  -> {TextLine(<<"SerNo.", " ", " ", "7", "0", "7">>), TextLine(<<"7", "0", "7">>)}
    [] c = "listen"   -> Weighs \cup Limits \cup OtherLines

-----------------------------------------------------------------------------
(* The exchange.                                                           *)

\* The command encodes its request; one whose argument does not fit raises before
\* anything is written. Bound: no call begins with a cut frame on the port; XbpiLink
\* follows the bytes there.
Ask(c, arguments) ==
  /\ protocol = "xbpi" /\ stage = "idle"
  /\ late # Garbage
  /\ LET request == Request(c, arguments)
     IN  /\ call' = [cmd |-> c, args |-> arguments, request |-> request, setting |-> NoSetting]
         /\ stage' = IF request = Raised THEN "done" ELSE "asked"
         /\ result' = IF request = Raised THEN Failed ELSE Pending
  /\ UNCHANGED <<protocol, answer, input, fault, late, raw>>

\* A typed setter: what does not resolve to a code raises before anything is written.
Set(s, given, means) ==
  /\ protocol = "xbpi" /\ stage = "idle"
  /\ late # Garbage
  /\ LET code    == WireOf(s, given)
         request == IF code = NoCode THEN Raised ELSE Request("write_parameter", <<Index[s], code>>)
     IN  /\ call' = [cmd |-> "write_parameter", args |-> <<Index[s], code>>, request |-> request,
                     setting |-> s, means |-> means]
         /\ stage' = IF request = Raised THEN "done" ELSE "asked"
         /\ result' = IF request = Raised THEN Failed ELSE Pending
  /\ UNCHANGED <<protocol, answer, input, fault, late, raw>>

\* A typed getter: a read of the parameter of s.
Get(s) ==
  /\ protocol = "xbpi" /\ stage = "idle"
  /\ late # Garbage
  /\ call' = [cmd |-> "parameter", args |-> <<Index[s]>>, setting |-> s,
              request |-> Request("parameter", <<Index[s]>>)]
  /\ stage' = "asked"
  /\ UNCHANGED <<protocol, answer, input, fault, late, raw, result>>

\* The balance answers; a byte may change on the way, or the answer come late.
Reply(a, f) ==
  /\ protocol = "xbpi" /\ stage = "asked"
  /\ answer' = a /\ fault' = f
  /\ input' = input \o (IF f.is # "changed" THEN FrameOf(a)
                      ELSE [FrameOf(a) EXCEPT ![f.at] = (@ + f.by) % 256])
  /\ stage' = "answered"
  /\ UNCHANGED <<protocol, call, late, raw, result>>

\* What the accessor makes of the entry it read.
Typed(s, got) ==
  IF s = NoSetting \/ got.is # "entry" THEN got
  ELSE [is |-> "setting", value |-> MemberOf(s, got.current)]

\* _execute_locked and the command's decode. The late answer is not there yet.
Finish ==
  /\ protocol = "xbpi" /\ stage = "answered"
  /\ LET got == Receive(input)
     IN  IF fault = Delayed
         THEN result' = Failed /\ UNCHANGED <<input, raw>>
         ELSE /\ result' = Typed(call.setting, Outcome(call.cmd, got.frame))
              /\ raw' = got.raw
              /\ input' = got.left
  /\ stage' = "done"
  /\ UNCHANGED <<protocol, call, answer, fault, late>>

\* An SBI command, or read_line.
AskLine(c) ==
  /\ protocol = "sbi" /\ stage = "idle"
  /\ call' = [cmd |-> c, args |-> <<>>, request |-> <<>>, setting |-> NoSetting]
  /\ stage' = "asked"
  /\ UNCHANGED <<protocol, answer, input, fault, late, raw, result>>

\* The line arrives, without the columns that went by before the host listened.
ReplyLine(l, missed) ==
  /\ protocol = "sbi" /\ stage = "asked"
  /\ missed > 0 => call.cmd = "listen"
  /\ answer' = l /\ fault' = MissedColumns(missed)
  /\ input' = Rest(l.body, missed)
  /\ stage' = "answered"
  /\ UNCHANGED <<protocol, call, late, raw, result>>

FinishLine ==
  /\ protocol = "sbi" /\ stage = "answered"
  /\ raw' = input /\ input' = <<>>
  /\ result' = SbiAnswer(call.cmd, input)
  /\ stage' = "done"
  /\ UNCHANGED <<protocol, call, answer, fault, late>>

\* The caller has its result; what is on the port stays there.
Return ==
  /\ stage = "done"
  /\ stage' = "idle"
  /\ late' = IF answer = NoCall THEN late
             ELSE IF input = <<>> THEN Nobody
             ELSE IF input = FrameOf(answer) THEN [cmd |-> call.cmd, body |-> answer.body]
             ELSE Garbage
  /\ call' = NoCall /\ answer' = NoCall /\ raw' = <<>> /\ fault' = None /\ result' = Pending
  /\ UNCHANGED <<protocol, input>>

\* One fault at a time: an answer is only damaged or late on an empty port.
Faults(a) ==
  IF input # <<>> THEN {None}
  ELSE {None, Delayed} \cup {Changed(i, n) : i \in DOMAIN FrameOf(a), n \in Noise}

Answers ==
  IF call.cmd = "parameter" /\ call.setting # NoSetting THEN SettingAnswers(call.setting)
  ELSE ProperAnswers(call.cmd)

Arguments(c) ==
  CASE c = "write_parameter" -> ArgValues \X ArgValues
    [] c \in Parameterised   -> {<<v>> : v \in ArgValues}
    [] OTHER                 -> {<<>>}

SbiCommands == {"net", "status", "model", "software", "factory", "listen"}

CodecNext ==
  \/ \E c \in Commands : \E arguments \in Arguments(c) : Ask(c, arguments)
  \/ \E s \in DOMAIN Index : Get(s) \/ \E g \in Givens(s) : Set(s, g[1], g[2])
  \/ /\ stage = "asked" /\ protocol = "xbpi"
     /\ \E a \in Answers \cup Refuses : \E f \in Faults(a) : Reply(a, f)
  \/ Finish
  \/ \E c \in SbiCommands : AskLine(c)
  \/ /\ stage = "asked" /\ protocol = "sbi"
     /\ \E l \in Lines(call.cmd) : \E missed \in 0..Len(l.body) : ReplyLine(l, missed)
  \/ FinishLine
  \/ Return

CodecSpec == CodecInit /\ [][CodecNext]_codecVars

-----------------------------------------------------------------------------
(* Properties.                                                             *)

\* A request is bytes, SBI leaves nothing on the port of an exchange that ended, and
\* a result is there exactly when the exchange is over (build_command, execute).
CodecTypeOK ==
  /\ protocol \in {"xbpi", "sbi"} /\ stage \in {"idle", "asked", "answered", "done"}
  /\ \A i \in DOMAIN input : IF protocol = "xbpi" THEN input[i] \in 0..255 ELSE input[i] \in Symbols
  /\ protocol = "xbpi" /\ stage = "asked" => \A i \in DOMAIN call.request : call.request[i] \in 0..255
  /\ (stage = "done") = (result # Pending)
  /\ protocol = "sbi" => (stage # "answered" => input = <<>>) /\ late = Nobody

Accepted == stage = "done" /\ protocol = "xbpi" /\ result.is \notin {"failed", "refusal"}

\* Every request that is written reads back at the balance as the opcode and the
\* arguments the caller gave (encode, encode_tlv, build_command).
RequestReadBack ==
  /\ CodecTypeOK
  /\ (protocol = "xbpi" /\ stage = "asked") =>
       ReadRequest(call.request) = [opcode |-> Opcode[call.cmd], to |-> 9, args |-> call.args]

Sets == call.cmd = "write_parameter" /\ call.setting # NoSetting

\* A typed setter sets what the caller means by the member, code or word it gave,
\* whatever other words have the same letters, and raises on the others (resolve_unit,
\* ParameterSpec.encode).
SettingsResolve ==
  /\ (Sets /\ stage = "asked") => Setting(call.setting, call.args[2]).value = call.means
  /\ (stage = "done" /\ Sets) => (call.request = Raised) = (call.means = NoMember)

Undisturbed ==
  /\ stage = "done" /\ answer # NoCall /\ late = Nobody
  /\ fault \in {None, MissedColumns(0)}

\* An xBPI answer that nothing disturbed gives the caller what the balance meant by it:
\* the reading shown, the state, the record, the setting, or the reason of a refusal
\* (parse_frame, the commands' decode).
AnswersRead == (protocol = "xbpi" /\ Undisturbed) => result = answer.means

Unread == Acks \cup Texts \cup Blobs \cup {"sbn"}
Alike  == {Weights \cup {"status"}, Metrology \cup {"temperature", "factory"}, {"counter", "sbn"},
           {"parameter"}, {"calrecord"}}

\* One changed byte never passes for an answer or a refusal; only a smaller length
\* byte may, if the frame cut there happens to end in its own checksum. Requests
\* carry no number and decoders see no subtype: the late answer of another command is
\* taken for the call's own only by a command that checks nothing of it, by one of
\* the same shape, or as a missing sensor when it is an off-scale weight.
WrongFramesSeen ==
  /\ (protocol = "xbpi" /\ stage = "done" /\ answer # NoCall /\ fault.is = "changed")
       => \/ result.is = "failed"
          \/ fault.at = 1 /\ Len(raw) < Len(FrameOf(answer))
  /\ (Accepted /\ late # Nobody) =>
       \/ call.cmd \in Unread
       \/ \E family \in Alike : {call.cmd, late.cmd} \subseteq family
       \/ call.cmd = "temperature" /\ late.cmd \in Weights /\ IsPrefix(OffScale, late.body)

Listened == protocol = "sbi" /\ stage = "done" /\ answer # NoCall

ErrorCode == <<"ERR", " ", "7", "0">>
LongLimits == {<<"OVERLOAD">>, <<"UNDER">>}

\* A line heard from its start gives the caller what the balance meant by it. The two
\* patterns agree on every line: what is_autoprint_line takes for autoprint parse_line
\* takes for a weight or a status, and the other way round. An error line with a number
\* passes for autoprint, and a limit in a long word does not. A host that starts to
\* listen in the middle of an unstable line, which has no unit, reads its value or
\* nothing. The tail of a stable line may pass for a smaller reading.
LinesReadTrue ==
  Listened =>
    /\ (Undisturbed /\ answer.means # [is |-> "other"]) => result = answer.means
    /\ \/ IsAutoprint(raw) = (KindOf(raw) \in {"WEIGHT", "UNKNOWN"})
       \/ IsAutoprint(raw) /\ KindOf(raw) = "REFUSAL" /\ \E k \in 0..3 : raw = Rest(ErrorCode, k)
       \/ ~IsAutoprint(raw) /\ Marker(raw) \in LongLimits
    /\ \/ answer.means.is # "line" \/ result.is # "line" \/ call.cmd # "listen"
       \/ result.value = answer.means.value
       \/ answer.means.unit # "unknown"

\* What is text is read as it is meant: the words a caller gives a typed setter, and the
\* lines of a balance (resolve_unit and its like; parse_line and is_autoprint_line).
TextReadTrue == SettingsResolve /\ LinesReadTrue
=============================================================================
