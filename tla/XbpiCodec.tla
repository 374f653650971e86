----------------------------- MODULE XbpiCodec -----------------------------
(***************************************************************************)
(* xBPI on the wire: frames, argument records, reply bodies, and what each *)
(* command of sartoriuslib.commands sends and makes of its reply. Bytes    *)
(* are 0..255, a float32 is its four bytes, a failure is Raised or Failed. *)
(* Wording, the exception class of a failed parse and dataclass plumbing   *)
(* are left out.                                                           *)
(***************************************************************************)
EXTENDS Integers, Sequences, SequencesExt

Raised == <<>>             \* an encoder that raises puts nothing on the wire
Failed == [is |-> "failed"]

Field(b, low, size) == (b \div low) % size
Bit(b, mask)        == Field(b, mask, 2) = 1

-----------------------------------------------------------------------------
(* Frames.                                                                 *)

Checksum(data) ==
  LET sum[n \in 0..Len(data)] == IF n = 0 THEN 0 ELSE (sum[n - 1] + data[n]) % 256
  IN  sum[Len(data)]

HostSbn    == 1
BalanceSbn == 9

\* Mutant: the length byte counts the payload only.
BuildUncounted(opcode, args) ==
  LET payload == <<HostSbn, BalanceSbn, opcode>> \o args
      pre     == <<Len(payload)>> \o payload
  IN  IF Len(payload) + 1 > 255 THEN Raised ELSE Append(pre, Checksum(pre))

\* The length byte counts every byte after it, the checksum included.
BuildCommand(opcode, args) ==
  LET payload == <<HostSbn, BalanceSbn, opcode>> \o args
      pre     == <<Len(payload) + 1>> \o payload
  IN  IF Len(payload) + 1 > 255 THEN Raised ELSE Append(pre, Checksum(pre))

\* Mutant: the checksum is computed and not compared.
ParseUnsummed(raw) ==
  IF Len(raw) >= 4 /\ Len(raw) = raw[1] + 1 /\ raw[2] = 65
  THEN [is |-> "frame", subtype |-> raw[3], body |-> SubSeq(raw, 4, Len(raw) - 1)]
  ELSE Failed

\* Length, marker 0x41 and checksum, in that order.
ParseFrame(raw) ==
  IF /\ Len(raw) >= 4
     /\ Len(raw) = raw[1] + 1
     /\ raw[2] = 65
     /\ Last(raw) = Checksum(Front(raw))
  THEN [is |-> "frame", subtype |-> raw[3], body |-> SubSeq(raw, 4, Len(raw) - 1)]
  ELSE Failed

\* What one call finds on the port: a whole frame, or too few bytes. The bytes
\* not read stay for the next call; a frame that does not parse drains them all.
Receive(port) ==
  LET size == Head(port) + 1
  IN  IF port = <<>> \/ Len(port) < size
      THEN [frame |-> Failed, raw |-> <<>>, left |-> IF port = <<>> THEN <<>> ELSE Tail(port)]
      ELSE LET raw   == SubSeq(port, 1, size)
               frame == ParseFrame(raw)
           IN  [frame |-> frame, raw |-> raw,
                left  |-> IF frame = Failed THEN <<>> ELSE SubSeq(port, size + 1, Len(port))]

-----------------------------------------------------------------------------
(* Argument records.                                                       *)

\* The low half of a tag is the size of its value.
TlvSizes == [t \in {17, 18, 20, 33, 34, 36} |-> t % 16]

\* What the k-th byte from the end counts.
Place == <<1, 256, 256 * 256, 256 * 256 * 256>>

BigEndian(n, size) == [i \in 1..size |-> Field(n, Place[size - i + 1], 256)]

EncodeTlv(tag, n) ==
  IF n \div Place[TlvSizes[tag]] < 256 THEN <<tag>> \o BigEndian(n, TlvSizes[tag]) ELSE Raised

\* The records of a body, in order; Failed for an unknown tag or a cut value.
ParseTlvs(body) ==
  LET walk[o \in 1..(Len(body) + 1)] ==
        IF o = Len(body) + 1 THEN [is |-> "tlvs", list |-> <<>>]
        ELSE IF body[o] \notin DOMAIN TlvSizes \/ o + TlvSizes[body[o]] > Len(body)
        THEN Failed
        ELSE LET next == o + TlvSizes[body[o]] + 1
                 rest == walk[next]
             IN  IF rest = Failed THEN Failed
                 ELSE [is |-> "tlvs", list |->
                         <<[tag |-> body[o], value |-> SubSeq(body, o + 1, next - 1)]>> \o rest.list]
  IN  walk[1]

-----------------------------------------------------------------------------
(* Reply bodies.                                                           *)

UnitOf(id) ==
  CASE id = 2 -> "g" [] id = 3 -> "kg" [] id = 13 -> "mg" [] id = 23 -> "N" [] OTHER -> "unknown"

SignOf(bits) ==
  CASE bits = 0 -> "zero" [] bits = 1 -> "positive" [] bits = 2 -> "negative" [] OTHER -> "unknown"

OffScale == <<127, 255, 255, 255, 255>>
NoValue  == <<>>

\* decode_measurement_body, as every weight command puts it in a Reading.
Measurement(body) ==
  IF Len(body) # 8 THEN Failed
  ELSE [is       |-> "reading",
        value    |-> IF IsPrefix(OffScale, body) THEN NoValue ELSE SubSeq(body, 1, 4),
        decimals |-> body[6] \div 16,
        sign     |-> SignOf(body[7] \div 64),
        unit     |-> UnitOf(body[7] % 64),
        stable   |-> Bit(body[8], 64)]

\* What a status byte says only when the state byte has the Cubis base bit.
StatusBlock(body) ==
  IF Len(body) # 8 THEN Failed
  ELSE LET cubis == Bit(body[4], 128)
       IN  [is          |-> "block",
            stable      |-> Bit(body[4], 8),
            overload    |-> body[4] = 130,
            underload   |-> body[4] = 132,
            adc_trusted |-> IF cubis THEN {Bit(body[5], 8)} ELSE {},
            isocal_due  |-> IF cubis THEN {Bit(body[5], 16)} ELSE {},
            sequence    |-> body[8]]

StateOf(block) ==
  CASE block.overload  -> "OVERLOAD"
    [] block.underload -> "UNDERLOAD"
    [] block.stable    -> "STABLE"
    [] OTHER           -> "UNSTABLE"

Status(body) ==
  LET block == StatusBlock(body)
  IN  IF block = Failed THEN Failed
      ELSE [is |-> "status", stable |-> block.stable, state |-> StateOf(block),
            isocal_due |-> block.isocal_due, adc_trusted |-> block.adc_trusted,
            sequence |-> block.sequence]

TypedFloat(body) ==
  IF Len(body) # 5 THEN Failed ELSE [is |-> "quantity", value |-> SubSeq(body, 1, 4)]

NoSensor == <<127, 255, 255, 255>>

\* The sensor that is not there is looked for before the body is checked.
Temperature(body) ==
  IF IsPrefix(NoSensor, body) THEN [is |-> "temperature", value |-> NoValue]
  ELSE LET float == TypedFloat(body)
       IN  IF float = Failed THEN Failed ELSE [is |-> "temperature", value |-> float.value]

\* Mutant: the subtype is taken for a subtype only.
ParameterOfBody(subtype, body) ==
  LET tlvs == ParseTlvs(body)
  IN  IF tlvs = Failed THEN Failed
      ELSE IF Len(tlvs.list) # 2 \/ \E i \in 1..2 : tlvs.list[i].tag # 33 THEN Failed
      ELSE [is |-> "entry", current |-> tlvs.list[1].value[1], max |-> tlvs.list[2].value[1]]

\* The subtype doubles as the tag of the first of two one-byte records.
Parameter(subtype, body) ==
  LET tlvs == ParseTlvs(<<subtype>> \o body)
  IN  IF tlvs = Failed THEN Failed
      ELSE IF Len(tlvs.list) # 2 THEN Failed
      ELSE IF \E i \in 1..2 : tlvs.list[i].tag # 33 THEN Failed
      ELSE [is |-> "entry", current |-> tlvs.list[1].value[1], max |-> tlvs.list[2].value[1]]

Counter(body) == IF Len(body) # 1 THEN Failed ELSE [is |-> "counter", value |-> body[1]]

Sbn(body) == [is |-> "sbn", value |-> IF body = <<>> THEN 0 ELSE body[1]]

CalRecord(body) ==
  IF Len(body) # 17 THEN Failed
  ELSE [is        |-> "calrecord",
        value     |-> IF IsPrefix(<<0, 0, 0, 0>>, body) THEN NoValue ELSE SubSeq(body, 1, 4),
        signature |-> SubSeq(body, 5, 13),
        counters  |-> SubSeq(body, 14, 16)]

\* An ASCII field without its padding of NULs and blanks. A byte that is not
\* ASCII becomes one replacement character.
Blob(body) ==
  LET blank(b) == b \in {0, 32}
      ends     == {i \in 1..Len(body) : \A j \in i..Len(body) : blank(body[j])}
      last     == IF ends = {} THEN Len(body) ELSE (CHOOSE i \in ends : i - 1 \notin ends) - 1
      starts   == {i \in 1..last : body[i] # 32}
      first    == CHOOSE i \in starts : \A j \in starts : i <= j
      char(b)  == IF b < 128 THEN b ELSE 65533
  IN  [is |-> "text", value |-> IF starts = {} THEN <<>>
                                ELSE [i \in 1..(last - first + 1) |-> char(body[first + i - 1])]]

RawBlob(body) == [is |-> "bytes", value |-> body]

Done == [is |-> "done"]

-----------------------------------------------------------------------------
(* Commands.                                                               *)

Weights     == {"net", "gross", "tare_value", "net_hires", "gross_hires"}
Metrology   == {"capacity", "increment"}
Texts       == {"model", "manufacturer", "oem"}
Blobs       == {"software", "factory"}
Acks        == {"tare", "zero", "adjust", "write_parameter", "save", "reload"}
Commands    == Weights \cup Metrology \cup Texts \cup Blobs \cup Acks
                 \cup {"status", "temperature", "parameter", "counter", "sbn", "calrecord"}
Parameterised == {"net_hires", "gross_hires", "capacity", "increment", "temperature",
                  "parameter", "adjust"}

Opcode ==
  [net |-> 30, gross |-> 32, tare_value |-> 34, net_hires |-> 31, gross_hires |-> 33,
   status |-> 48, capacity |-> 12, increment |-> 13, temperature |-> 118, parameter |-> 85,
   write_parameter |-> 86, counter |-> 186, calrecord |-> 185, adjust |-> 40, tare |-> 20,
   zero |-> 24, save |-> 71, reload |-> 70, model |-> 2, manufacturer |-> 7, oem |-> 5,
   software |-> 0, factory |-> 1, sbn |-> 113]

\* encode: one one-byte record for each argument of the request.
Request(c, arguments) ==
  LET tlvs == [i \in DOMAIN arguments |-> EncodeTlv(33, arguments[i])]
  IN  IF \E i \in DOMAIN tlvs : tlvs[i] = Raised THEN Raised
      ELSE BuildCommand(Opcode[c], FlattenSeq(tlvs))

\* decode: none looks at the subtype except read_parameter, which needs it.
Decode(c, frame) ==
  CASE c \in Weights       -> Measurement(frame.body)
    [] c = "status"        -> Status(frame.body)
    [] c \in Metrology     -> TypedFloat(frame.body)
    [] c = "temperature"   -> Temperature(frame.body)
    [] c = "parameter"     -> Parameter(frame.subtype, frame.body)
    [] c = "counter"       -> Counter(frame.body)
    [] c = "sbn"           -> Sbn(frame.body)
    [] c = "calrecord"     -> CalRecord(frame.body)
    [] c \in Texts         -> Blob(frame.body)
    [] c \in Blobs         -> RawBlob(frame.body)
    [] c \in Acks          -> Done

\* An error reply carries one byte, the reason of the refusal.
RefusalOf(frame) ==
  IF Len(frame.body) # 1 THEN Failed ELSE [is |-> "refusal", code |-> frame.body[1]]

\* Session.execute: the client's refusal, or what the command makes of the frame.
Outcome(c, frame) ==
  IF frame = Failed THEN Failed
  ELSE IF frame.subtype = 1 THEN RefusalOf(frame)
  ELSE Decode(c, frame)
=============================================================================
