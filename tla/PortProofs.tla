----------------------------- MODULE PortProofs -----------------------------
(***************************************************************************)
(* What the runs of OpenDevice and of Codecs check, for every value of     *)
(* their constants: which protocol is on the port, and what goes over it   *)
(* then.                                                                   *)
(*                                                                         *)
(* Detection is right because of what can be on the wire at all; the first *)
(* sample is kept because what a sniff has not read is still there in the  *)
(* order it was sent.                                                      *)
(*                                                                         *)
(* A frame is read because it is written with the length and the sum it is *)
(* checked by; that a changed byte is seen follows from sums of rows that  *)
(* differ in one place. Each command's decoder is followed over each body  *)
(* a balance can answer it with, and over those of the other commands.     *)
(***************************************************************************)
EXTENDS OpenDevice, Codecs, SequenceTheorems, WellFoundedInduction, TLAPS

Locations == {"closed", "sniff", "sniffOn", "probe", "await", "listen", "listenOn",
              "identify", "backoff", "open", "failed", "next", "swept"}
Requests  == {"xbpi", "type", "print"}
RowType   == [ok : BOOLEAN, baud : 1..MaxBaud, error : Errors, protocol : Protocols \cup {"none"}]

AskedOK ==
  /\ asked \in [protocol : Protocols \cup {"auto"}, identify : BOOLEAN, sweep : BOOLEAN]
  /\ asked.sweep => asked.protocol = "auto" /\ ~asked.identify

Types ==
  /\ AskedOK
  /\ speaks \in Protocols \cup {"none"}
  /\ rate \in 1..MaxBaud /\ baud \in 1..MaxBaud /\ (~asked.sweep => rate = baud)
  /\ printing \in BOOLEAN /\ (printing => speaks = "sbi")
  /\ pc \in Locations
  /\ found \in Protocols \cup {"none"}
  /\ pending \in Seq(Items) /\ wire \in Seq(Items)
  /\ sent \in 0..MaxItems
  /\ owes \in Seq(Requests)
  /\ probes \in 0..3 /\ count \in Nat
  /\ error \in Errors
  /\ active \in BOOLEAN /\ port \in BOOLEAN /\ lost \in BOOLEAN
  /\ rows \in Seq(RowType)

\* Where open_device is fits what it has found and what it was asked; the port is open
\* while it is under way; and transients are counted.
PhaseInv ==
  /\ port <=> pc \notin {"closed", "failed", "next", "swept"}
  /\ pc \in {"closed", "next", "sniff", "sniffOn", "probe", "await"} => found = "none" /\ ~active
  /\ pc \in {"sniff", "sniffOn", "probe", "await"} => asked.protocol = "auto"
  /\ pc \in {"listen", "listenOn"} => asked.protocol = "sbi"
  /\ pc \in {"identify", "backoff"} => asked.identify
  /\ active /\ asked.protocol = "auto" => pc \in {"open", "failed", "swept"}
  /\ pc \in {"next", "swept"} => asked.sweep
  /\ count <= MaxRetries + 1
  /\ count = MaxRetries + 1 => pc = "failed" /\ error = "connection"

\* A whole line or frame is on the wire only if the balance speaks so at this rate.
WireInv ==
  \A i \in DOMAIN wire :
    /\ wire[i].kind \in {"weight", "text"} => speaks = "sbi" /\ rate = baud
    /\ wire[i].kind = "frame" => speaks = "xbpi" /\ rate = baud

\* One row for every rate that is done; none of them but the last ends the sweep.
Ending(r) == r.ok \/ r.error = "connection"
RowsInv ==
  /\ \A i \in DOMAIN rows : rows[i].baud = i
  /\ \A i \in DOMAIN rows : Ending(rows[i]) => i = Len(rows) /\ pc = "swept"
  /\ \A i \in DOMAIN rows : rows[i].ok => rows[i].protocol = speaks /\ i = rate
  /\ pc \notin {"next", "swept", "failed"} => Len(rows) = baud - 1
  /\ pc = "next" => Len(rows) = baud /\ baud < MaxBaud
  /\ pc = "swept" => Len(rows) = baud /\ (baud = MaxBaud \/ Ending(rows[Len(rows)]))

\* What is on the wire is everything that was sent since some moment.
Unbroken ==
  /\ Len(wire) <= sent
  /\ \A i \in DOMAIN wire : wire[i].seq = sent - Len(wire) + i

\* Until the first line of autoprint is found nothing was asked and nothing but lines
\* came; afterwards the wire goes on where that line ended.
FirstInv ==
  (asked.protocol = "auto" /\ ~asked.sweep) =>
    /\ pc \in {"closed", "sniff", "sniffOn"} =>
         /\ ~lost /\ probes = 0 /\ owes = <<>> /\ Unbroken
         /\ \A i \in DOMAIN wire : wire[i].kind \in {"weight", "text"}
    /\ active =>
         /\ ~lost /\ probes = 0 /\ Unbroken
         /\ Len(pending) = 1 /\ pending[1].kind = "weight" /\ pending[1].seq = sent - Len(wire)

IInv == Types /\ PhaseInv /\ WireInv /\ DetectedIsSpoken /\ RowsInv /\ FirstInv

USE OpenAssumption

LEMMA InitHolds == Init => IInv
<1> SUFFICES ASSUME Init PROVE IInv
  OBVIOUS
<1>0. AskedOK
  BY DEF Init, AskedOK
<1>a. /\ printing \in BOOLEAN /\ (printing => speaks = "sbi") /\ active \in BOOLEAN
      /\ port \in BOOLEAN /\ lost \in BOOLEAN
  BY Zenon DEF Init
<1>b. /\ rate \in 1..MaxBaud /\ baud \in 1..MaxBaud /\ (~asked.sweep => rate = baud)
  BY DEF Init
<1>c. /\ speaks \in Protocols \cup {"none"} /\ pc \in Locations /\ found \in Protocols \cup {"none"}
      /\ sent \in 0..MaxItems /\ probes \in 0..3 /\ count \in Nat /\ error \in Errors
  BY DEF Init, Locations, Errors
<1>d. pending \in Seq(Items) /\ wire \in Seq(Items) /\ owes \in Seq(Requests) /\ rows \in Seq(RowType)
  BY DEF Init
<1>1. Types
  BY <1>0, <1>a, <1>b, <1>c, <1>d DEF Types
<1>2. PhaseInv /\ WireInv /\ DetectedIsSpoken
  BY <1>1 DEF Init, Types, PhaseInv, WireInv, DetectedIsSpoken, Locations
<1>3. RowsInv
  BY DEF Init, RowsInv, Ending
<1>4. FirstInv
  BY DEF Init, FirstInv, Unbroken
<1> QED
  BY <1>1, <1>2, <1>3, <1>4 DEF IInv

-----------------------------------------------------------------------------
(* The wire.                                                               *)

Lined(kind) == kind \in {"weight", "text"}

\* The types of a step that leaves the caller's arguments and the balance alone.
LEMMA TypesStay ==
  ASSUME Types, UNCHANGED <<asked, speaks, rate, printing>>,
         baud' \in 1..MaxBaud, asked.sweep \/ baud' = baud, pc' \in Locations,
         found' \in Protocols \cup {"none"}, pending' \in Seq(Items), wire' \in Seq(Items),
         sent' \in 0..MaxItems, owes' \in Seq(Requests), probes' \in 0..3, count' \in Nat,
         error' \in Errors, active' \in BOOLEAN, port' \in BOOLEAN, lost' \in BOOLEAN,
         rows' \in Seq(RowType)
  PROVE  Types'
<1>1. AskedOK'
  BY Zenon DEF Types, AskedOK
<1>2. (printing \in BOOLEAN /\ (printing => speaks = "sbi"))'
  BY Zenon DEF Types
<1>3. (speaks \in Protocols \cup {"none"} /\ rate \in 1..MaxBaud /\ (~asked.sweep => rate = baud))'
  BY Zenon DEF Types
<1> QED
  BY <1>1, <1>2, <1>3 DEF Types

LEMMA EmitKeeps ==
  ASSUME IInv, NEW kind \in Kinds, Emit(kind), owes' \in Seq(Requests),
         Lined(kind) => speaks = "sbi",
         kind = "frame" => speaks = "xbpi",
         owes # <<>> \/ (owes' = owes /\ Lined(kind))
  PROVE  IInv'
<1>0. /\ UNCHANGED <<asked, speaks, rate, printing, found, active, pending, probes, count, lost, pc,
                     error, port, baud, rows>>
      /\ sent' \in 1..MaxItems /\ sent \in Nat
      /\ sent' = sent + 1 \/ (sent' = 1 /\ wire = <<>> /\ ~active)
  BY DEF Emit, LastNumber, device, opener, IInv, Types
<1>a. \/ wire' = wire /\ pc = "next"
      \/ \E k \in Kinds : /\ wire' = Append(wire, [kind |-> k, seq |-> sent'])
                          /\ k = (IF rate = baud THEN kind ELSE "scrap")
                          /\ pc # "next"
  BY DEF Emit, Kinds
<1>b. \A k \in Kinds : [kind |-> k, seq |-> sent'] \in Items
  BY <1>0 DEF Items
<1>c. wire \in Seq(Items)
  BY DEF IInv, Types
<1>d. \A k \in Kinds : \A n \in 1..MaxItems : Append(wire, [kind |-> k, seq |-> n]) \in Seq(Items)
  BY <1>c DEF Items
<1>1. wire' \in Seq(Items)
  BY <1>0, <1>a, <1>c, <1>d, Zenon
<1>2. Types'
  BY <1>0, <1>1, TypesStay DEF IInv, Types
<1>3. PhaseInv' /\ DetectedIsSpoken'
  BY <1>0 DEF IInv, PhaseInv, DetectedIsSpoken
<1>4. RowsInv'
  BY <1>0 DEF IInv, RowsInv, Ending
<1>5. WireInv'
  <2>1. CASE wire' = wire
    BY <2>1, <1>0 DEF IInv, WireInv
  <2>2. ASSUME NEW k \in Kinds, wire' = Append(wire, [kind |-> k, seq |-> sent']),
               k = (IF rate = baud THEN kind ELSE "scrap")
        PROVE  WireInv'
    BY <2>2, <1>0 DEF IInv, Types, WireInv, Lined
  <2> QED
    BY <1>a, <2>1, <2>2
<1>6. FirstInv'
  <2> SUFFICES ASSUME asked.protocol = "auto", ~asked.sweep PROVE FirstInv'
    BY <1>0 DEF FirstInv
  <2>1. rate = baud /\ pc # "next"
    BY DEF IInv, Types, PhaseInv
  <2>2. wire' = Append(wire, [kind |-> kind, seq |-> sent'])
    BY <2>1 DEF Emit
  <2>3. /\ Unbroken => Unbroken'
        /\ active => sent' - Len(wire') = sent - Len(wire)
    <3>1. Len(wire') = Len(wire) + 1 /\ Len(wire) \in Nat
      BY <2>2, <1>c
    <3>2. ASSUME Unbroken PROVE Unbroken'
      BY <2>2, <3>2, <1>0, <1>c DEF Unbroken
    <3>3. ASSUME active PROVE sent' - Len(wire') = sent - Len(wire)
      <4>1. sent' = sent + 1
        BY <1>0, <3>3, Zenon
      <4> QED
        BY <4>1, <3>1, <1>0
    <3> QED
      BY <3>2, <3>3
  <2>4. pc \in {"closed", "sniff", "sniffOn"} =>
          /\ ~lost /\ probes = 0 /\ owes = <<>> /\ Unbroken
          /\ \A i \in DOMAIN wire : wire[i].kind \in {"weight", "text"}
    BY DEF IInv, FirstInv
  <2>5. (pc \in {"closed", "sniff", "sniffOn"} =>
          /\ ~lost /\ probes = 0 /\ owes = <<>> /\ Unbroken
          /\ \A i \in DOMAIN wire : wire[i].kind \in {"weight", "text"})'
    <3> SUFFICES ASSUME pc' \in {"closed", "sniff", "sniffOn"}
                 PROVE  /\ ~lost' /\ probes' = 0 /\ owes' = <<>> /\ Unbroken'
                        /\ \A i \in DOMAIN wire' : wire'[i].kind \in {"weight", "text"}
      OBVIOUS
    <3>1. /\ ~lost /\ probes = 0 /\ owes = <<>> /\ Unbroken
          /\ \A i \in DOMAIN wire : wire[i].kind \in {"weight", "text"}
      BY <2>4, <1>0
    <3>2. owes' = <<>> /\ kind \in {"weight", "text"}
      BY <3>1 DEF Lined
    <3> DEFINE x == [kind |-> kind, seq |-> sent']
    <3>3. x \in Items /\ x.kind = kind /\ wire' = Append(wire, x)
      BY <1>b, <2>2
    <3> HIDE DEF x
    <3>4. \A i \in DOMAIN wire' : (i \in DOMAIN wire /\ wire'[i] = wire[i]) \/ wire'[i] = x
      BY <3>3, <1>c
    <3>5. \A i \in DOMAIN wire' : wire'[i].kind \in {"weight", "text"}
      BY <3>1, <3>2, <3>3, <3>4
    <3> QED
      BY <3>1, <3>2, <3>5, <2>3, <1>0
  <2>6. active => /\ ~lost /\ probes = 0 /\ Unbroken
                  /\ Len(pending) = 1 /\ pending[1].kind = "weight" /\ pending[1].seq = sent - Len(wire)
    BY DEF IInv, FirstInv
  <2>7. (active => /\ ~lost /\ probes = 0 /\ Unbroken
                  /\ Len(pending) = 1 /\ pending[1].kind = "weight" /\ pending[1].seq = sent - Len(wire))'
    BY <2>6, <2>3, <1>0
  <2> QED
    BY <2>5, <2>7 DEF FirstInv
<1> QED
  BY <1>2, <1>3, <1>4, <1>5, <1>6 DEF IInv

LEMMA UnaskedKeeps == IInv /\ Unasked => IInv'
<1> SUFFICES ASSUME IInv, Unasked PROVE IInv'
  OBVIOUS
<1>1. speaks = "sbi" /\ owes' = owes /\ owes \in Seq(Requests)
  BY DEF Unasked, IInv, Types
<1>2. PICK kind \in {"weight", "text"} : Emit(kind)
  BY DEF Unasked
<1> QED
  BY <1>1, <1>2, EmitKeeps DEF Kinds, Lined

LEMMA AnswerKeeps == IInv /\ Answer => IInv'
<1> SUFFICES ASSUME IInv, Answer PROVE IInv'
  OBVIOUS
<1>1. owes # <<>> /\ owes' \in Seq(Requests)
  BY DEF Answer, IInv, Types
<1>2. PICK kind \in Kinds :
        /\ Emit(kind)
        /\ Lined(kind) => speaks = "sbi"
        /\ kind = "frame" => speaks = "xbpi"
  BY DEF Answer, Kinds, Lined
<1> QED
  BY <1>1, <1>2, EmitKeeps

LEMMA IgnoreKeeps == IInv /\ Ignore => IInv'
<1> SUFFICES ASSUME IInv, Ignore PROVE IInv'
  OBVIOUS
<1>0. /\ UNCHANGED <<asked, speaks, rate, printing, found, active, pending, probes, count, lost, pc,
                     wire, sent, error, port, baud, rows>>
      /\ owes # <<>> /\ owes' \in Seq(Requests)
  BY DEF Ignore, device, opener, IInv, Types
<1>1. Types'
  BY <1>0, TypesStay DEF IInv, Types
<1>2. PhaseInv' /\ DetectedIsSpoken'
  BY <1>0 DEF IInv, PhaseInv, DetectedIsSpoken
<1>3. WireInv' /\ RowsInv'
  BY <1>0 DEF IInv, WireInv, RowsInv, Ending
<1>4. FirstInv'
  BY <1>0 DEF IInv, FirstInv, Unbroken
<1> QED
  BY <1>1, <1>2, <1>3, <1>4 DEF IInv

LEMMA SuffixWire ==
  ASSUME Types, WireInv, UNCHANGED <<asked, speaks, rate, printing, baud>>,
         NEW n \in 0..Len(wire), wire' = SubSeq(wire, n + 1, Len(wire))
  PROVE  /\ wire' \in Seq(Items) /\ WireInv'
         /\ Len(wire') = Len(wire) - n
         /\ \A i \in DOMAIN wire' : i + n \in DOMAIN wire /\ wire'[i] = wire[i + n]
<1>1. wire \in Seq(Items)
  BY DEF Types
<1>2. /\ wire' \in Seq(Items) /\ Len(wire') = Len(wire) - n
      /\ \A i \in DOMAIN wire' : i + n \in DOMAIN wire /\ wire'[i] = wire[i + n]
  BY <1>1
<1> QED
  BY <1>2 DEF WireInv

LEMMA SuffixUnbroken ==
  ASSUME Types, Unbroken, sent' = sent, NEW n \in 0..Len(wire),
         Len(wire') = Len(wire) - n, wire' \in Seq(Items),
         \A i \in DOMAIN wire' : i + n \in DOMAIN wire /\ wire'[i] = wire[i + n]
  PROVE  Unbroken'
BY DEF Types, Unbroken

-----------------------------------------------------------------------------
(* The rows of a sweep.                                                    *)

Running == pc \notin {"open", "failed", "next", "swept"}
Fixed   == UNCHANGED <<asked, speaks, rate, printing, baud>>

LEMMA RowRows ==
  ASSUME Types, RowsInv, Running, Fixed,
         NEW ok \in BOOLEAN, NEW e \in Errors, NEW p \in Protocols \cup {"none"},
         Row(ok, e, p), ok => p = speaks /\ rate = baud
  PROVE  /\ RowsInv' /\ rows' \in Seq(RowType)
         /\ pc' \in {"next", "swept"} /\ (ok => pc' = "swept")
         /\ port' = FALSE /\ error' = error
<1> DEFINE r == [ok |-> ok, baud |-> baud, error |-> e, protocol |-> p]
<1>1. /\ rows \in Seq(RowType) /\ r \in RowType /\ baud \in Nat /\ Len(rows) = baud - 1
      /\ speaks' = speaks /\ rate' = rate /\ baud' = baud
  BY DEF Types, RowsInv, Running, Fixed, RowType
<1>2. /\ rows' = Append(rows, r) /\ port' = FALSE /\ error' = error
      /\ pc' = IF ok \/ e = "connection" \/ baud = MaxBaud THEN "swept" ELSE "next"
  BY DEF Row
<1> HIDE DEF r
<1>3. /\ rows' \in Seq(RowType) /\ Len(rows') = baud /\ rows'[baud] = r
      /\ \A i \in DOMAIN rows' : i # baud => i \in DOMAIN rows /\ rows'[i] = rows[i]
      /\ \A i \in DOMAIN rows' : i = baud \/ i \in DOMAIN rows
  BY <1>1, <1>2
<1>4. /\ r.baud = baud /\ (r.ok <=> ok) /\ r.error = e /\ r.protocol = p
  BY DEF r
<1>5. Ending(r) => pc' = "swept"
  BY <1>2, <1>4 DEF Ending
<1>6. \A i \in DOMAIN rows : ~Ending(rows[i])
  BY DEF RowsInv, Running
<1>7. \A i \in DOMAIN rows' : Ending(rows'[i]) => i = Len(rows') /\ pc' = "swept"
  BY <1>3, <1>5, <1>6
<1>8. \A i \in DOMAIN rows' : rows'[i].baud = i
  BY <1>3, <1>4 DEF RowsInv
<1>9. \A i \in DOMAIN rows' : rows'[i].ok => rows'[i].protocol = speaks /\ i = rate
  BY <1>3, <1>4, <1>6 DEF Ending
<1>10. pc' = "next" => baud # MaxBaud
  BY <1>2
<1>11. baud \in 1..MaxBaud
  BY DEF Types
<1>12. pc' = "swept" => baud = MaxBaud \/ Ending(rows'[Len(rows')])
  BY <1>2, <1>3, <1>4 DEF Ending
<1>13. pc' \in {"next", "swept"} /\ (ok => pc' = "swept")
  BY <1>2
<1>14. RowsInv'
  BY <1>1, <1>3, <1>7, <1>8, <1>9, <1>10, <1>11, <1>12, <1>13 DEF RowsInv, Ending
<1> QED
  BY <1>2, <1>3, <1>13, <1>14

LEMMA RaiseRows ==
  ASSUME Types, RowsInv, Running, Fixed, NEW e \in Errors, Raise(e)
  PROVE  /\ RowsInv' /\ rows' \in Seq(RowType) /\ error' \in Errors /\ port' = FALSE
         /\ \/ pc' = "failed" /\ error' = e
            \/ pc' \in {"next", "swept"} /\ asked.sweep
<1>1. CASE asked.sweep /\ e # "cancelled"
  <2>1. Row(FALSE, e, "none")
    BY <1>1 DEF Raise
  <2>2. error \in Errors
    BY DEF Types
  <2> QED
    BY <1>1, <2>1, <2>2, RowRows
<1>2. CASE ~(asked.sweep /\ e # "cancelled")
  <2>1. pc' = "failed" /\ error' = e /\ port' = FALSE /\ rows' = rows
    BY <1>2 DEF Raise
  <2>2. RowsInv'
    BY <2>1 DEF RowsInv, Running, Fixed, Ending
  <2> QED
    BY <2>1, <2>2 DEF Types
<1> QED
  BY <1>1, <1>2

LEMMA GotoRows ==
  ASSUME Types, RowsInv, Running, Fixed, NEW l, Goto(l), l \notin {"failed", "next", "swept"}
  PROVE  RowsInv' /\ rows' \in Seq(RowType) /\ pc' = l /\ port' = port /\ error' = error
<1>1. pc' = l /\ port' = port /\ error' = error /\ rows' = rows
  BY DEF Goto
<1>2. RowsInv'
  BY <1>1 DEF RowsInv, Running, Fixed, Ending
<1> QED
  BY <1>1, <1>2 DEF Types

LEMMA ProceedRows ==
  ASSUME Types, RowsInv, Running, Fixed, NEW b \in BOOLEAN, Proceed(b),
         found' \in Protocols \cup {"none"}, asked.sweep => found' = speaks /\ rate = baud
  PROVE  /\ RowsInv' /\ rows' \in Seq(RowType) /\ error' \in Errors
         /\ \/ asked.sweep /\ pc' = "swept" /\ port' = FALSE
            \/ ~asked.sweep /\ b /\ pc' = "failed" /\ port' = FALSE
            \/ ~asked.sweep /\ ~b /\ pc' = "identify" /\ asked.identify /\ port' = port
            \/ ~asked.sweep /\ pc' = "open" /\ port' = port
<1>1. CASE asked.sweep
  <2>1. Row(TRUE, "none", found')
    BY <1>1 DEF Proceed
  <2>2. "none" \in Errors /\ error \in Errors
    BY DEF Types, Errors
  <2> QED
    BY <1>1, <2>1, <2>2, RowRows
<1>2. CASE ~asked.sweep /\ asked.identify /\ b
  <2>1. Raise("autoprint") /\ "autoprint" \in Errors
    BY <1>2 DEF Proceed, Errors
  <2> QED
    BY <1>2, <2>1, RaiseRows
<1>3. CASE ~asked.sweep /\ ~(asked.identify /\ b)
  <2>1. Goto(IF asked.identify THEN "identify" ELSE "open")
    BY <1>3 DEF Proceed
  <2>2. error \in Errors
    BY DEF Types
  <2>3. CASE asked.identify
    BY <1>3, <2>1, <2>2, <2>3, GotoRows
  <2>4. CASE ~asked.identify
    BY <1>3, <2>1, <2>2, <2>4, GotoRows
  <2> QED
    BY <2>3, <2>4
<1> QED
  BY <1>1, <1>2, <1>3

-----------------------------------------------------------------------------
(* The steps of open_device.                                               *)

\* FirstInv of a step that neither sends, asks nor reads while the first line is looked
\* for, and that does not touch what was found of autoprint.
LEMMA FirstStays ==
  ASSUME IInv, Fixed, UNCHANGED <<active, pending, sent, wire, lost, probes, owes>>,
         pc' \in {"closed", "sniff", "sniffOn"} => pc \in {"closed", "sniff", "sniffOn"}
  PROVE  FirstInv'
<1>1. Unbroken => Unbroken'
  BY DEF Unbroken
<1> QED
  BY <1>1 DEF IInv, FirstInv, Fixed

LEMMA WireStays ==
  ASSUME IInv, Fixed, wire' = wire
  PROVE  WireInv' /\ wire' \in Seq(Items)
BY DEF IInv, Types, WireInv, Fixed

LEMMA OpenKeeps == IInv /\ Open => IInv'
<1> SUFFICES ASSUME IInv, Open PROVE IInv'
  OBVIOUS
<1>1. /\ pc = "closed" /\ Running /\ Fixed /\ Types /\ RowsInv
      /\ UNCHANGED <<active, pending, sent, wire, lost, probes, owes, count>>
  BY DEF Open, device, Running, Fixed, IInv
<1>2. found' = (IF asked.protocol = "auto" THEN "none" ELSE asked.protocol)
  BY DEF Open
<1>a. asked.protocol \in Protocols \cup {"auto"}
  BY DEF Types, AskedOK, IInv
<1>3. found' \in Protocols \cup {"none"} /\ (asked.protocol = "auto" => found' = "none") /\ active = FALSE
  BY <1>1, <1>2, <1>a DEF IInv, Types, PhaseInv
<1>4. CASE port' = TRUE /\ UNCHANGED <<error, rows>>
           /\ pc' = CASE asked.protocol = "auto" -> "sniff"
                      [] asked.protocol = "sbi"  -> "listen"
                      [] OTHER -> IF asked.identify THEN "identify" ELSE "open"
  <2>1. \/ pc' = "sniff" /\ asked.protocol = "auto"
        \/ pc' = "listen" /\ asked.protocol = "sbi"
        \/ pc' = "identify" /\ asked.identify /\ asked.protocol # "auto"
        \/ pc' = "open"
    BY <1>4
  <2>2. Types'
    BY <1>1, <1>3, <1>4, <2>1, TypesStay DEF Types, Fixed, Locations
  <2>3. PhaseInv'
    BY <1>1, <1>3, <1>4, <2>1 DEF IInv, PhaseInv, Fixed
  <2>4. RowsInv'
    BY <1>1, <1>4, <2>1 DEF RowsInv, Fixed, Running, Ending
  <2>5. DetectedIsSpoken' /\ WireInv' /\ FirstInv'
    BY <1>1, <1>3, <2>1, FirstStays, WireStays DEF DetectedIsSpoken, Fixed
  <2> QED
    BY <2>2, <2>3, <2>4, <2>5 DEF IInv
<1>5. CASE Raise("connection")
  <2>1. /\ RowsInv' /\ rows' \in Seq(RowType) /\ error' \in Errors /\ port' = FALSE
        /\ \/ pc' = "failed" /\ error' = "connection"
           \/ pc' \in {"next", "swept"} /\ asked.sweep
    BY <1>1, <1>5, RaiseRows DEF Errors
  <2>2. Types'
    BY <1>1, <1>3, <2>1, TypesStay DEF Types, Fixed, Locations
  <2>b. asked.sweep => asked.protocol = "auto"
    BY <1>1 DEF Types, AskedOK
  <2>3. PhaseInv'
    BY <1>1, <1>3, <2>1, <2>b DEF IInv, PhaseInv, Fixed
  <2>5. DetectedIsSpoken' /\ WireInv' /\ FirstInv'
    BY <1>1, <1>3, <2>1, FirstStays, WireStays DEF DetectedIsSpoken, Fixed
  <2> QED
    BY <2>1, <2>2, <2>3, <2>5 DEF IInv
<1> QED
  BY <1>4, <1>5 DEF Open

LEMMA NextBaudKeeps == IInv /\ NextBaud => IInv'
<1> SUFFICES ASSUME IInv, NextBaud PROVE IInv'
  OBVIOUS
<1>1. /\ pc = "next" /\ pc' = "closed" /\ baud' = baud + 1 /\ wire' = <<>> /\ probes' = 0
      /\ UNCHANGED <<asked, speaks, rate, printing, found, active, pending, count, lost, sent, owes,
                     error, port, rows>>
  BY DEF NextBaud, device
<1>2. /\ asked.sweep /\ found = "none" /\ active = FALSE /\ port = FALSE
      /\ baud < MaxBaud /\ Len(rows) = baud /\ baud \in 1..MaxBaud
  BY <1>1 DEF IInv, Types, PhaseInv, RowsInv
<1>3. Types'
  BY <1>1, <1>2, TypesStay DEF IInv, Types, Locations
<1>4. PhaseInv' /\ DetectedIsSpoken' /\ WireInv' /\ FirstInv'
  BY <1>1, <1>2 DEF IInv, PhaseInv, DetectedIsSpoken, WireInv, FirstInv
<1>5. RowsInv'
  BY <1>1, <1>2 DEF IInv, RowsInv, Ending
<1> QED
  BY <1>3, <1>4, <1>5 DEF IInv

\* The counter of transients and the arguments, while open_device is under way.
LEMMA UnderWay ==
  ASSUME IInv, Running, pc # "closed"
  PROVE  port = TRUE /\ count < MaxRetries + 1 /\ Types /\ RowsInv /\ count \in Nat
         /\ (asked.sweep => asked.protocol = "auto" /\ ~asked.identify)
         /\ asked.protocol \in Protocols \cup {"auto"}
BY DEF IInv, Types, AskedOK, PhaseInv, Running

\* Whether a window is over is nothing the invariant speaks of.
LEMMA SameKeeps ==
  ASSUME IInv,
         UNCHANGED <<asked, speaks, rate, printing, found, active, pending, probes, count, lost, pc,
                     wire, sent, owes, error, port, baud, rows>>
  PROVE  IInv'
<1>2. Types'
  BY Zenon DEF IInv, Types, AskedOK
<1>3. PhaseInv' /\ DetectedIsSpoken'
  BY DEF IInv, PhaseInv, DetectedIsSpoken
<1>4. WireInv' /\ RowsInv'
  BY DEF IInv, WireInv, RowsInv, Ending
<1>5. FirstInv'
  BY DEF IInv, FirstInv, Unbroken
<1> QED
  BY <1>2, <1>3, <1>4, <1>5 DEF IInv

LEMMA DeadlineKeeps == IInv /\ Deadline => IInv'
<1> SUFFICES ASSUME IInv, Deadline PROVE IInv'
  OBVIOUS
<1>1. UNCHANGED <<asked, speaks, rate, printing, found, active, pending, probes, count, lost, pc,
                  wire, sent, owes, error, port, baud, rows>>
  BY DEF Deadline, device
<1> QED
  BY <1>1, SameKeeps

LEMMA SniffKeeps == IInv /\ Sniff => IInv'
<1> SUFFICES ASSUME IInv, Sniff PROVE IInv'
  OBVIOUS
<1>1. /\ pc \in {"sniff", "sniffOn"} /\ Running /\ pc # "closed" /\ Fixed
      /\ UNCHANGED <<probes, count, sent, owes>>
  BY DEF Sniff, SniffLine, device, Running, Fixed
<1>2. /\ port = TRUE /\ count < MaxRetries + 1 /\ Types /\ RowsInv /\ WireInv
      /\ asked.protocol = "auto" /\ found = "none" /\ active = FALSE
      /\ (asked.sweep => ~asked.identify)
  BY <1>1, UnderWay DEF IInv, PhaseInv, Types
<1>3. PICK i \in DOMAIN wire :
        /\ LineEnds(i)
        /\ TakeLine(i)
        /\ IF i = 1 /\ wire[1].kind = "weight"
           THEN /\ found' = "sbi" /\ active' = TRUE /\ pending' = <<wire[1]>>
                /\ Proceed(TRUE)
                /\ UNCHANGED lost
           ELSE /\ Goto("sniffOn")
                /\ lost' = (lost \/ wire[i].kind = "weight")
                /\ UNCHANGED <<found, active, pending>>
  BY DEF Sniff, SniffLine
<1>4. i \in 0..Len(wire) /\ wire' = SubSeq(wire, i + 1, Len(wire))
  BY <1>2, <1>3 DEF TakeLine, Types
<1>5. /\ wire' \in Seq(Items) /\ WireInv' /\ Len(wire') = Len(wire) - i
      /\ \A k \in DOMAIN wire' : k + i \in DOMAIN wire /\ wire'[k] = wire[k + i]
  BY <1>1, <1>2, <1>4, SuffixWire DEF Fixed
<1>6. Unbroken => Unbroken'
  BY <1>1, <1>2, <1>4, <1>5, SuffixUnbroken
<1>7. wire[i] \in Items /\ wire[i].kind \in {"weight", "text"}
  BY <1>2, <1>3 DEF Types, LineEnds
<1>8. CASE i = 1 /\ wire[1].kind = "weight"
  <2>1. found' = "sbi" /\ active' = TRUE /\ pending' = <<wire[1]>> /\ Proceed(TRUE) /\ lost' = lost
    BY <1>3, <1>8
  <2>2. speaks = "sbi" /\ rate = baud
    BY <1>2, <1>3, <1>8 DEF WireInv
  <2>3. /\ RowsInv' /\ rows' \in Seq(RowType) /\ error' \in Errors
        /\ \/ asked.sweep /\ pc' = "swept" /\ port' = FALSE
           \/ ~asked.sweep /\ pc' = "failed" /\ port' = FALSE
           \/ ~asked.sweep /\ pc' = "open" /\ port' = port
    BY <1>1, <1>2, <2>1, <2>2, ProceedRows DEF Protocols
  <2>4. pending' \in Seq(Items) /\ Len(pending') = 1 /\ pending'[1] = wire[1]
    BY <1>7, <1>8, <2>1
  <2>5. Types'
    BY <1>1, <1>2, <1>5, <2>1, <2>3, <2>4, TypesStay DEF Types, Fixed, Locations, Protocols
  <2>6. PhaseInv'
    BY <1>1, <1>2, <2>1, <2>3 DEF IInv, PhaseInv, Fixed
  <2>7. DetectedIsSpoken'
    BY <1>1, <2>1, <2>2 DEF DetectedIsSpoken, Fixed
  <2>8. FirstInv'
    <3> SUFFICES ASSUME ~asked.sweep PROVE FirstInv'
      BY <1>1 DEF FirstInv, Fixed
    <3>1. ~lost /\ probes = 0 /\ Unbroken
      BY <1>1, <1>2 DEF IInv, FirstInv
    <3>2. wire[1].seq = sent - Len(wire) + 1 /\ sent \in Nat /\ Len(wire) \in Nat
      BY <1>2, <1>8, <3>1 DEF Unbroken, Types
    <3>3. pending'[1].seq = sent' - Len(wire') /\ pending'[1].kind = "weight"
      BY <1>1, <1>5, <1>8, <2>4, <3>2
    <3> QED
      BY <1>1, <1>6, <2>1, <2>3, <2>4, <3>1, <3>3 DEF FirstInv
  <2> QED
    BY <1>5, <2>3, <2>5, <2>6, <2>7, <2>8 DEF IInv
<1>9. CASE ~(i = 1 /\ wire[1].kind = "weight")
  <2>1. Goto("sniffOn") /\ lost' = (lost \/ wire[i].kind = "weight") /\ UNCHANGED <<found, active, pending>>
    BY <1>3, <1>9
  <2>2. RowsInv' /\ rows' \in Seq(RowType) /\ pc' = "sniffOn" /\ port' = port /\ error' = error
    BY <1>1, <1>2, <2>1, GotoRows
  <2>3. lost' \in BOOLEAN
    BY <2>1
  <2>5. Types'
    BY <1>1, <1>2, <1>5, <2>1, <2>2, <2>3, TypesStay DEF Types, Fixed, Locations
  <2>6. PhaseInv' /\ DetectedIsSpoken'
    BY <1>1, <1>2, <2>1, <2>2 DEF IInv, PhaseInv, DetectedIsSpoken, Fixed
  <2>8. FirstInv'
    <3> SUFFICES ASSUME ~asked.sweep PROVE FirstInv'
      BY <1>1 DEF FirstInv, Fixed
    <3>1. /\ ~lost /\ probes = 0 /\ owes = <<>> /\ Unbroken
          /\ \A k \in DOMAIN wire : wire[k].kind \in {"weight", "text"}
      BY <1>1, <1>2 DEF IInv, FirstInv
    <3>2. i = 1
      <4>1. i # 1 => 1 \in 1..(i - 1) /\ 1 \in DOMAIN wire
        BY <1>2, <1>4, <1>3 DEF Types
      <4> QED
        BY <1>3, <3>1, <4>1 DEF LineEnds
    <3>3. ~lost'
      BY <1>9, <2>1, <3>1, <3>2
    <3> QED
      BY <1>1, <1>2, <1>5, <1>6, <2>1, <3>1, <3>3 DEF FirstInv
  <2> QED
    BY <1>5, <2>2, <2>5, <2>6, <2>8 DEF IInv
<1> QED
  BY <1>8, <1>9

LEMMA SniffEndsKeeps == IInv /\ SniffEnds => IInv'
<1> SUFFICES ASSUME IInv, SniffEnds PROVE IInv'
  OBVIOUS
<1>1. /\ pc \in {"sniff", "sniffOn"} /\ Running /\ pc # "closed" /\ Fixed /\ Goto("probe")
      /\ UNCHANGED <<found, active, pending, probes, count, lost, wire, sent, owes>>
  BY DEF SniffEnds, device, opener, Running, Fixed
<1>2. Types /\ RowsInv
  BY DEF IInv
<1>3. RowsInv' /\ rows' \in Seq(RowType) /\ pc' = "probe" /\ port' = port /\ error' = error
  BY <1>1, <1>2, GotoRows
<1>4. Types'
  BY <1>1, <1>2, <1>3, TypesStay DEF Types, Fixed, Locations
<1>5. PhaseInv' /\ DetectedIsSpoken'
  BY <1>1, <1>3 DEF IInv, PhaseInv, DetectedIsSpoken, Fixed
<1>6. WireInv' /\ FirstInv'
  BY <1>1, <1>3, FirstStays, WireStays
<1> QED
  BY <1>3, <1>4, <1>5, <1>6 DEF IInv

LEMMA ProbeKeeps == IInv /\ Probe => IInv'
<1> SUFFICES ASSUME IInv, Probe PROVE IInv'
  OBVIOUS
<1>1. /\ pc = "probe" /\ Running /\ pc # "closed" /\ Fixed
      /\ probes < Len(Probes) /\ probes' = probes + 1
      /\ UNCHANGED <<found, active, pending, count, sent>>
  BY DEF Probe, device, Running, Fixed
<1>2. Types /\ RowsInv /\ WireInv /\ found = "none" /\ active = FALSE /\ asked.protocol = "auto"
  BY <1>1 DEF IInv, PhaseInv, Types
<1>3. PICK n \in 0..Len(wire) :
        /\ wire' = SubSeq(wire, n + 1, Len(wire))
        /\ lost' = (lost \/ Weight(SubSeq(wire, 1, n)))
  BY DEF Probe, Drain
<1>4. wire' \in Seq(Items) /\ WireInv'
  BY <1>1, <1>2, <1>3, SuffixWire DEF Fixed
<1>5. lost' \in BOOLEAN
  BY <1>3
<1>6. Probes[probes + 1] \in Requests /\ probes' \in 0..3
  BY <1>1, <1>2 DEF Types, Probes, Requests
<1>7. owes' \in Seq(Requests) /\ \E l \in {"await", "probe"} : Goto(l)
  <2>1. owes \in Seq(Requests)
    BY <1>2 DEF Types
  <2>2. Append(owes, Probes[probes + 1]) \in Seq(Requests)
    BY <1>6, <2>1
  <2>3. \/ Goto("await") /\ owes' = Append(owes, Probes[probes + 1])
        \/ Goto("probe") /\ owes' \in {owes, Append(owes, Probes[probes + 1])}
    BY DEF Probe
  <2>4. owes' \in {owes, Append(owes, Probes[probes + 1])}
    BY <2>3, Zenon
  <2>5. \E l \in {"await", "probe"} : Goto(l)
    BY <2>3, Zenon
  <2> QED
    BY <2>1, <2>2, <2>4, <2>5
<1>8. RowsInv' /\ rows' \in Seq(RowType) /\ pc' \in {"await", "probe"} /\ port' = port /\ error' = error
  BY <1>1, <1>2, <1>7, GotoRows
<1>9. Types'
  BY <1>1, <1>2, <1>4, <1>5, <1>6, <1>7, <1>8, TypesStay DEF Types, Fixed, Locations
<1>10. PhaseInv' /\ DetectedIsSpoken'
  BY <1>1, <1>2, <1>8 DEF IInv, PhaseInv, DetectedIsSpoken, Fixed
<1>11. FirstInv'
  BY <1>1, <1>2, <1>8 DEF FirstInv
<1> QED
  BY <1>4, <1>8, <1>9, <1>10, <1>11 DEF IInv

\* An error that changes nothing else, but for a transient that is counted.
LEMMA RaiseKeeps ==
  ASSUME IInv, Running, pc # "closed", Fixed, NEW e \in Errors, Raise(e),
         UNCHANGED <<found, active, pending, probes, lost, wire, sent, owes>>,
         count' = count \/ (pc = "identify" /\ count' = count + 1 /\ e = "connection")
  PROVE  IInv'
<1>1. /\ port = TRUE /\ count < MaxRetries + 1 /\ Types /\ RowsInv /\ count \in Nat
      /\ (asked.sweep => asked.protocol = "auto" /\ ~asked.identify)
  BY UnderWay
<1>2. /\ RowsInv' /\ rows' \in Seq(RowType) /\ error' \in Errors /\ port' = FALSE
      /\ \/ pc' = "failed" /\ error' = e
         \/ pc' \in {"next", "swept"} /\ asked.sweep
  BY <1>1, RaiseRows
<1>3. count' \in Nat
  BY <1>1
<1>a. pc' \in Locations
  BY <1>2 DEF Locations
<1>b. /\ found' \in Protocols \cup {"none"} /\ pending' \in Seq(Items) /\ wire' \in Seq(Items)
      /\ sent' \in 0..MaxItems /\ owes' \in Seq(Requests) /\ probes' \in 0..3
      /\ active' \in BOOLEAN /\ lost' \in BOOLEAN /\ baud' \in 1..MaxBaud
  BY <1>1, Zenon DEF Types, Fixed
<1>c. Types'
  BY <1>1, <1>2, <1>3, <1>a, <1>b, TypesStay DEF Fixed
<1>4. asked.sweep => found = "none" /\ ~active /\ count' = count
  BY <1>1 DEF IInv, Types, PhaseInv, Running, Locations
<1>5. PhaseInv'
  BY <1>1, <1>2, <1>4 DEF IInv, PhaseInv, Fixed
<1>6. DetectedIsSpoken' /\ WireInv'
  BY <1>2, WireStays DEF IInv, DetectedIsSpoken, Fixed
<1>7. FirstInv'
  BY <1>2, FirstStays
<1> QED
  BY <1>2, <1>c, <1>5, <1>6, <1>7 DEF IInv

LEMMA NoDeviceKeeps == IInv /\ NoDevice => IInv'
BY RaiseKeeps DEF NoDevice, Running, Fixed, device, opener, Errors

LEMMA FailsKeeps ==
  ASSUME IInv, NEW e \in {"device", "connection", "cancelled"}, Fails(e)
  PROVE  IInv'
BY RaiseKeeps DEF Fails, Running, Fixed, device, opener, Errors

LEMMA XbpiProbedKeeps == IInv /\ XbpiProbed => IInv'
<1> SUFFICES ASSUME IInv, XbpiProbed PROVE IInv'
  OBVIOUS
<1>1. /\ pc = "await" /\ Running /\ pc # "closed" /\ Fixed
      /\ UNCHANGED <<active, pending, probes, count, lost, sent, owes>>
  BY DEF XbpiProbed, device, Running, Fixed
<1>2. /\ port = TRUE /\ count < MaxRetries + 1 /\ Types /\ RowsInv /\ WireInv
      /\ asked.protocol = "auto" /\ found = "none" /\ active = FALSE
      /\ (asked.sweep => ~asked.identify)
  BY <1>1, UnderWay DEF IInv, PhaseInv, Types
<1>3. CASE /\ wire # <<>> /\ Head(wire).kind = "frame"
           /\ found' = "xbpi"
           /\ wire' = Tail(wire)
           /\ Proceed(FALSE)
  <2>1. wire \in Seq(Items) /\ 1 \in 0..Len(wire) /\ wire' = SubSeq(wire, 1 + 1, Len(wire))
    BY <1>2, <1>3 DEF Types
  <2>2. wire' \in Seq(Items) /\ WireInv'
    BY <1>1, <1>2, <2>1, SuffixWire DEF Fixed
  <2>3. speaks = "xbpi" /\ rate = baud
    BY <1>2, <1>3, <2>1 DEF WireInv
  <2>4. /\ RowsInv' /\ rows' \in Seq(RowType) /\ error' \in Errors
        /\ \/ asked.sweep /\ pc' = "swept" /\ port' = FALSE
           \/ ~asked.sweep /\ pc' = "identify" /\ asked.identify /\ port' = port
           \/ ~asked.sweep /\ pc' = "open" /\ port' = port
    BY <1>1, <1>2, <1>3, <2>3, ProceedRows DEF Protocols
  <2>5. Types'
    BY <1>1, <1>2, <1>3, <2>2, <2>4, TypesStay DEF Types, Fixed, Locations, Protocols
  <2>6. PhaseInv' /\ FirstInv'
    BY <1>1, <1>2, <2>4 DEF IInv, PhaseInv, FirstInv, Fixed
  <2>7. DetectedIsSpoken'
    BY <1>1, <1>3, <2>3 DEF DetectedIsSpoken, Fixed
  <2> QED
    BY <2>2, <2>4, <2>5, <2>6, <2>7 DEF IInv
<1>4. CASE Goto("probe") /\ UNCHANGED <<found, wire>>
  <2>1. RowsInv' /\ rows' \in Seq(RowType) /\ pc' = "probe" /\ port' = port /\ error' = error
    BY <1>1, <1>2, <1>4, GotoRows
  <2>2. Types'
    BY <1>1, <1>2, <1>4, <2>1, TypesStay DEF Types, Fixed, Locations
  <2>3. PhaseInv' /\ DetectedIsSpoken' /\ FirstInv'
    BY <1>1, <1>2, <1>4, <2>1 DEF IInv, PhaseInv, DetectedIsSpoken, FirstInv, Fixed
  <2>4. WireInv'
    BY <1>1, <1>4, WireStays
  <2> QED
    BY <2>1, <2>2, <2>3, <2>4 DEF IInv
<1>5. CASE Raise("transient") /\ UNCHANGED <<found, wire>>
  BY <1>1, <1>5, RaiseKeeps DEF Errors
<1> QED
  BY <1>3, <1>4, <1>5 DEF XbpiProbed

LEMMA SbiProbedKeeps == IInv /\ SbiProbed => IInv'
<1> SUFFICES ASSUME IInv, SbiProbed PROVE IInv'
  OBVIOUS
<1>1. /\ pc = "await" /\ Running /\ pc # "closed" /\ Fixed
      /\ UNCHANGED <<active, pending, probes, count, sent, owes>>
  BY DEF SbiProbed, device, Running, Fixed
<1>2. /\ port = TRUE /\ count < MaxRetries + 1 /\ Types /\ RowsInv /\ WireInv
      /\ asked.protocol = "auto" /\ found = "none" /\ active = FALSE
      /\ (asked.sweep => ~asked.identify)
  BY <1>1, UnderWay DEF IInv, PhaseInv, Types
<1>3. ASSUME NEW i \in DOMAIN wire, LineEnds(i), TakeLine(i), found' = "sbi",
             lost' = (lost \/ wire[i].kind = "weight"), Proceed(FALSE)
      PROVE  IInv'
  <2>1. i \in 0..Len(wire) /\ wire' = SubSeq(wire, i + 1, Len(wire)) /\ lost' \in BOOLEAN
    BY <1>2, <1>3 DEF Types, TakeLine
  <2>2. wire' \in Seq(Items) /\ WireInv'
    BY <1>1, <1>2, <2>1, SuffixWire DEF Fixed
  <2>3. speaks = "sbi" /\ rate = baud
    BY <1>2, <1>3 DEF WireInv, LineEnds
  <2>4. /\ RowsInv' /\ rows' \in Seq(RowType) /\ error' \in Errors
        /\ \/ asked.sweep /\ pc' = "swept" /\ port' = FALSE
           \/ ~asked.sweep /\ pc' = "identify" /\ asked.identify /\ port' = port
           \/ ~asked.sweep /\ pc' = "open" /\ port' = port
    BY <1>1, <1>2, <1>3, <2>3, ProceedRows DEF Protocols
  <2>5. Types'
    BY <1>1, <1>2, <1>3, <2>1, <2>2, <2>4, TypesStay DEF Types, Fixed, Locations, Protocols
  <2>6. PhaseInv' /\ FirstInv'
    BY <1>1, <1>2, <2>4 DEF IInv, PhaseInv, FirstInv, Fixed
  <2>7. DetectedIsSpoken'
    BY <1>1, <1>3, <2>3 DEF DetectedIsSpoken, Fixed
  <2> QED
    BY <2>2, <2>4, <2>5, <2>6, <2>7 DEF IInv
<1>4. CASE Goto("probe") /\ UNCHANGED <<found, lost, wire>>
  <2>1. RowsInv' /\ rows' \in Seq(RowType) /\ pc' = "probe" /\ port' = port /\ error' = error
    BY <1>1, <1>2, <1>4, GotoRows
  <2>2. Types'
    BY <1>1, <1>2, <1>4, <2>1, TypesStay DEF Types, Fixed, Locations
  <2>3. PhaseInv' /\ DetectedIsSpoken' /\ FirstInv'
    BY <1>1, <1>2, <1>4, <2>1 DEF IInv, PhaseInv, DetectedIsSpoken, FirstInv, Fixed
  <2>4. WireInv'
    BY <1>1, <1>4, WireStays
  <2> QED
    BY <2>1, <2>2, <2>3, <2>4 DEF IInv
<1> QED
  BY <1>3, <1>4 DEF SbiProbed


LEMMA ListenKeeps == IInv /\ Listen => IInv'
<1> SUFFICES ASSUME IInv, Listen PROVE IInv'
  OBVIOUS
<1>1. /\ pc \in {"listen", "listenOn"} /\ Running /\ pc # "closed" /\ Fixed
      /\ UNCHANGED <<found, probes, count, lost, sent, owes>>
  BY DEF Listen, device, Running, Fixed
<1>2. /\ port = TRUE /\ count < MaxRetries + 1 /\ Types /\ RowsInv /\ WireInv
      /\ asked.protocol = "sbi" /\ ~asked.sweep
  BY <1>1, UnderWay DEF IInv, PhaseInv
<1>3. PICK i \in DOMAIN wire :
        /\ TakeLine(i)
        /\ pending' = Append(pending, [wire[i] EXCEPT !.kind = IF i = 1 THEN @ ELSE "text"])
        /\ active' = (i = 1 /\ wire[1].kind = "weight")
        /\ IF active' \/ Len(pending') = MaxPending THEN Proceed(active') ELSE Goto("listenOn")
  BY DEF Listen
<1>4. i \in 0..Len(wire) /\ wire' = SubSeq(wire, i + 1, Len(wire))
  BY <1>2, <1>3 DEF Types, TakeLine
<1>5. wire' \in Seq(Items) /\ WireInv'
  BY <1>1, <1>2, <1>4, SuffixWire DEF Fixed
<1>6. active' \in BOOLEAN
  BY <1>3
<1>7. pending' \in Seq(Items)
  <2>1. wire[i] \in Items /\ pending \in Seq(Items)
    BY <1>2 DEF Types
  <2>2. [wire[i] EXCEPT !.kind = IF i = 1 THEN @ ELSE "text"] \in Items
    BY <2>1 DEF Items, Kinds
  <2> QED
    BY <1>3, <2>1, <2>2
<1>8. found' \in Protocols \cup {"none"} /\ found' = found
  BY <1>1, <1>2 DEF Types
<1>9. /\ RowsInv' /\ rows' \in Seq(RowType) /\ error' \in Errors
      /\ \/ pc' = "failed" /\ port' = FALSE
         \/ pc' = "identify" /\ asked.identify /\ port' = port
         \/ pc' \in {"open", "listenOn"} /\ port' = port
  <2>1. CASE Proceed(active')
    BY <1>1, <1>2, <1>6, <1>8, <2>1, ProceedRows
  <2>2. CASE Goto("listenOn")
    <3>1. error \in Errors
      BY <1>2 DEF Types
    <3> QED
      BY <1>1, <1>2, <2>2, <3>1, GotoRows
  <2> QED
    BY <1>3, <2>1, <2>2
<1>10. pc' \in Locations /\ port' \in BOOLEAN
  BY <1>2, <1>9 DEF Locations
<1>11. Types'
  <2>1. /\ sent' \in 0..MaxItems /\ owes' \in Seq(Requests) /\ probes' \in 0..3 /\ count' \in Nat
        /\ lost' \in BOOLEAN /\ baud' \in 1..MaxBaud
    BY <1>1, <1>2, Zenon DEF Types, Fixed
  <2> QED
    BY <1>1, <1>2, <1>5, <1>6, <1>7, <1>8, <1>9, <1>10, <2>1, TypesStay DEF Fixed
<1>12. PhaseInv' /\ DetectedIsSpoken' /\ FirstInv'
  BY <1>1, <1>2, <1>9 DEF IInv, PhaseInv, DetectedIsSpoken, FirstInv, Fixed
<1> QED
  BY <1>5, <1>9, <1>11, <1>12 DEF IInv

LEMMA ListenEndsKeeps == IInv /\ ListenEnds => IInv'
<1> SUFFICES ASSUME IInv, ListenEnds PROVE IInv'
  OBVIOUS
<1>1. /\ pc \in {"listen", "listenOn"} /\ Running /\ pc # "closed" /\ Fixed /\ Proceed(FALSE)
      /\ UNCHANGED <<found, active, pending, probes, count, lost, wire, sent, owes>>
  BY DEF ListenEnds, device, opener, Running, Fixed
<1>2. /\ port = TRUE /\ count < MaxRetries + 1 /\ Types /\ RowsInv
      /\ asked.protocol = "sbi" /\ ~asked.sweep /\ found \in Protocols \cup {"none"}
  BY <1>1, UnderWay DEF IInv, PhaseInv, Types
<1>3. /\ RowsInv' /\ rows' \in Seq(RowType) /\ error' \in Errors
      /\ \/ pc' = "identify" /\ asked.identify /\ port' = port
         \/ pc' = "open" /\ port' = port
  BY <1>1, <1>2, ProceedRows
<1>4. Types'
  <2>1. /\ found' \in Protocols \cup {"none"} /\ pending' \in Seq(Items) /\ wire' \in Seq(Items)
        /\ sent' \in 0..MaxItems /\ owes' \in Seq(Requests) /\ probes' \in 0..3 /\ count' \in Nat
        /\ active' \in BOOLEAN /\ lost' \in BOOLEAN /\ baud' \in 1..MaxBaud
    BY <1>1, <1>2, Zenon DEF Types, Fixed
  <2>2. pc' \in Locations /\ port' \in BOOLEAN
    BY <1>2, <1>3 DEF Locations
  <2> QED
    BY <1>1, <1>2, <1>3, <2>1, <2>2, TypesStay DEF Fixed
<1>5. PhaseInv' /\ DetectedIsSpoken' /\ FirstInv'
  BY <1>1, <1>2, <1>3 DEF IInv, PhaseInv, DetectedIsSpoken, FirstInv, Fixed
<1>6. WireInv'
  BY <1>1, WireStays
<1> QED
  BY <1>3, <1>4, <1>5, <1>6 DEF IInv

\* A step of identification that goes on; a transient is counted.
LEMMA GoesOnKeeps ==
  ASSUME IInv, Fixed, pc \in {"identify", "backoff"},
         NEW l \in {"identify", "backoff", "open"}, Goto(l),
         UNCHANGED <<found, active, pending, probes, lost, wire, sent, owes>>,
         count' = count \/ (count' = count + 1 /\ count < MaxRetries)
  PROVE  IInv'
<1>1. Running /\ pc # "closed"
  BY DEF Running
<1>2. /\ port = TRUE /\ count < MaxRetries + 1 /\ Types /\ RowsInv /\ count \in Nat
      /\ asked.identify /\ ~asked.sweep
  BY <1>1, UnderWay DEF IInv, PhaseInv
<1>3. RowsInv' /\ rows' \in Seq(RowType) /\ pc' = l /\ port' = port /\ error' = error
  BY <1>1, <1>2, GotoRows
<1>4. count' \in Nat /\ count' < MaxRetries + 1
  BY <1>2
<1>5. Types'
  <2>1. /\ found' \in Protocols \cup {"none"} /\ pending' \in Seq(Items) /\ wire' \in Seq(Items)
        /\ sent' \in 0..MaxItems /\ owes' \in Seq(Requests) /\ probes' \in 0..3
        /\ error' \in Errors
        /\ active' \in BOOLEAN /\ lost' \in BOOLEAN /\ baud' \in 1..MaxBaud
    BY <1>2, <1>3, Zenon DEF Types, Fixed
  <2>2. pc' \in Locations /\ port' \in BOOLEAN
    BY <1>2, <1>3 DEF Locations
  <2> QED
    BY <1>2, <1>3, <1>4, <2>1, <2>2, TypesStay DEF Fixed
<1>6. active /\ asked.protocol = "auto" => FALSE
  BY DEF IInv, PhaseInv
<1>7. PhaseInv'
  BY <1>2, <1>3, <1>4, <1>6 DEF PhaseInv, Fixed
<1>8. DetectedIsSpoken'
  BY DEF IInv, DetectedIsSpoken, Fixed
<1>9. WireInv' /\ FirstInv'
  BY <1>3, WireStays, FirstStays
<1> QED
  BY <1>3, <1>5, <1>7, <1>8, <1>9 DEF IInv

LEMMA IdentifiedKeeps == IInv /\ Identified => IInv'
BY GoesOnKeeps DEF Identified, Fixed, device, opener

LEMMA TransientKeeps == IInv /\ Transient => IInv'
<1> SUFFICES ASSUME IInv, Transient PROVE IInv'
  OBVIOUS
<1>1. /\ pc = "identify" /\ Running /\ pc # "closed" /\ Fixed /\ count' = count + 1
      /\ UNCHANGED <<found, active, pending, probes, lost, wire, sent, owes>>
  BY DEF Transient, device, Running, Fixed
<1>2. CASE count < MaxRetries /\ Goto("backoff")
  BY <1>1, <1>2, GoesOnKeeps
<1>3. CASE Raise("connection")
  BY <1>1, <1>3, RaiseKeeps DEF Errors
<1> QED
  BY <1>2, <1>3 DEF Transient

LEMMA RetryKeeps == IInv /\ Retry => IInv'
BY GoesOnKeeps DEF Retry, Fixed, device, opener

-----------------------------------------------------------------------------
LEMMA StutterKeeps == IInv /\ UNCHANGED vars => IInv'
BY SameKeeps, Zenon DEF vars, device, opener

LEMMA NextKeeps == IInv /\ [Next]_vars => IInv'
<1> SUFFICES ASSUME IInv, [Next]_vars PROVE IInv'
  OBVIOUS
<1>1. CASE Advance
  BY <1>1, SniffKeeps, SniffEndsKeeps, ProbeKeeps, NoDeviceKeeps, XbpiProbedKeeps, SbiProbedKeeps,
     ListenKeeps, ListenEndsKeeps, IdentifiedKeeps, TransientKeeps, RetryKeeps, FailsKeeps
  DEF Advance
<1> QED
  BY <1>1, OpenKeeps, NextBaudKeeps, DeadlineKeeps, UnaskedKeeps, AnswerKeeps, IgnoreKeeps,
     StutterKeeps
  DEF Next

LEMMA Invariance == Spec => []IInv
BY InitHolds, NextKeeps, PTL DEF Spec

WindowOK == over \in BOOLEAN

LEMMA WindowType == Spec => []WindowOK
<1>1. Init => WindowOK
  BY DEF Init, WindowOK
<1>2. WindowOK /\ [Next]_vars => WindowOK'
  <2> SUFFICES ASSUME over \in BOOLEAN, [Next]_vars PROVE over' \in BOOLEAN
    BY DEF WindowOK
  <2>1. CASE Open \/ NextBaud \/ Deadline
    BY <2>1, Zenon DEF Open, NextBaud, Deadline
  <2>2. CASE Unasked \/ Answer \/ Ignore \/ UNCHANGED vars
    BY <2>2, Zenon DEF Unasked, Answer, Ignore, Emit, vars, opener
  <2>3. CASE Sniff
    BY <2>3, Zenon DEF Sniff, SniffLine
  <2>4. CASE SniffEnds \/ Probe
    BY <2>4, Zenon DEF SniffEnds, Probe, opener
  <2>5. CASE NoDevice
    BY <2>5, Zenon DEF NoDevice, opener
  <2>6. CASE XbpiProbed
    BY <2>6, Zenon DEF XbpiProbed
  <2>7. CASE SbiProbed
    BY <2>7, Zenon DEF SbiProbed
  <2>8. CASE \/ Listen \/ ListenEnds \/ Identified \/ Transient \/ Retry
             \/ \E e \in {"device", "connection", "cancelled"} : Fails(e)
    BY <2>8, Zenon DEF Listen, ListenEnds, Identified, Transient, Retry, Fails, opener
  <2>9. CASE Advance
    BY <2>3, <2>8, <2>5, <2>4, <2>6, <2>7, <2>9, Zenon DEF Advance
  <2> QED
    BY <2>1, <2>2, <2>9, Zenon DEF Next
<1> QED
  BY <1>1, <1>2, PTL DEF Spec

\* "except BaseException: await transport.close()" (open_device): whatever happens on the
\* way, a balance is returned with an open port and an error leaves the port closed; and
\* no more transients are forgiven than _COLD_OPEN_MAX_RETRIES.
THEOREM PortSafe == Spec => []PortFollowsOutcome
<1>1. IInv /\ WindowOK => PortFollowsOutcome
  <2> SUFFICES ASSUME IInv, over \in BOOLEAN PROVE PortFollowsOutcome
    BY DEF WindowOK
  <2>1. TypeOK
    <3>1. {active, port, lost, over} \subseteq BOOLEAN
      BY Zenon DEF IInv, Types
    <3>2. rows \in Seq([ok : BOOLEAN, baud : 1..MaxBaud, error : Errors, protocol : Protocols \cup {"none"}])
      BY DEF IInv, Types, RowType
    <3>3. /\ rate \in 1..MaxBaud /\ baud \in 1..MaxBaud /\ pending \in Seq(Items) /\ wire \in Seq(Items)
          /\ sent \in 0..MaxItems /\ error \in Errors /\ found \in Protocols \cup {"none"}
          /\ probes \in 0..3 /\ count \in Nat
      BY Zenon DEF IInv, Types
    <3>4. owes \in Seq({"xbpi", "type", "print"})
      BY DEF IInv, Types, Requests
    <3>5. pc \in Locations /\ PhaseInv
      BY Zenon DEF IInv, Types
    <3> QED
      BY <3>1, <3>2, <3>3, <3>4, <3>5 DEF TypeOK, PhaseInv, Locations
  <2>2. (pc = "open" => port) /\ (pc \in {"failed", "next", "swept"} => ~port)
    BY DEF IInv, PhaseInv
  <2> QED
    BY <2>1, <2>2 DEF PortFollowsOutcome
<1> QED
  BY <1>1, Invariance, WindowType, PTL

\* detect_protocol reports only the protocol that is on the line: AUTO never takes an old
\* line, an answer to an earlier probe or a scrap for the wrong protocol.
THEOREM DetectionSound == Spec => []DetectedIsSpoken
<1>1. IInv => DetectedIsSpoken
  BY DEF IInv
<1> QED
  BY <1>1, Invariance, PTL

\* find_devices (discovery.py) leaves out no baud rate, tries none twice, and stops at a
\* hit or at a connection error, with the balance that is there in the row of the hit.
THEOREM SweepSound == Spec => []SweepAccounted
<1>1. IInv => SweepAccounted
  <2> SUFFICES ASSUME IInv PROVE SweepAccounted
    OBVIOUS
  <2>1. /\ \A i \in DOMAIN rows : rows[i].baud = i
        /\ \A i \in DOMAIN rows : rows[i].ok \/ rows[i].error = "connection" => i = Len(rows)
        /\ \A i \in DOMAIN rows : rows[i].ok => rows[i].protocol = speaks /\ i = rate
    BY DEF IInv, RowsInv, Ending
  <2>2. pc = "swept" => \/ Len(rows) = MaxBaud
                        \/ rows[Len(rows)].ok
                        \/ rows[Len(rows)].error = "connection"
    BY DEF IInv, RowsInv, Ending
  <2> QED
    BY <2>1, <2>2 DEF SweepAccounted
<1> QED
  BY <1>1, Invariance, PTL

\* "The design promises we will not drop the first sample" (detect.py): when AUTO finds
\* autoprint, the first weight line is queued and all that was sent after it is still on
\* the wire, however much the balance prints and however late the sniff reads.
THEOREM FirstSampleSafe == Spec => []FirstSampleKept
<1>1. IInv => FirstSampleKept
  <2> SUFFICES ASSUME IInv, asked.protocol = "auto", ~asked.sweep, active
               PROVE  /\ ~lost /\ probes = 0
                      /\ Len(pending) = 1 /\ pending[1].kind = "weight"
                      /\ \A n \in (pending[1].seq + 1)..sent : \E i \in DOMAIN wire : wire[i].seq = n
    BY DEF FirstSampleKept
  <2>1. /\ ~lost /\ probes = 0 /\ Unbroken
        /\ Len(pending) = 1 /\ pending[1].kind = "weight" /\ pending[1].seq = sent - Len(wire)
    BY DEF IInv, FirstInv
  <2>2. wire \in Seq(Items) /\ sent \in Nat
    BY DEF IInv, Types
  <2>3. ASSUME NEW n \in (pending[1].seq + 1)..sent
        PROVE  \E i \in DOMAIN wire : wire[i].seq = n
    <3> DEFINE i == n - sent + Len(wire)
    <3>1. i \in DOMAIN wire /\ sent - Len(wire) + i = n
      BY <2>1, <2>2, <2>3
    <3>2. wire[i].seq = n
      BY <2>1, <3>1 DEF Unbroken
    <3> QED
      BY <3>1, <3>2
  <2> QED
    BY <2>1, <2>3
<1> QED
  BY <1>1, Invariance, PTL

-----------------------------------------------------------------------------
(* The exchange of a command through the codecs: rows of bytes and sums.   *)

\* Induction over the numbers, for the set T of those that have the property.
Less == {p \in Nat \X Nat : p[1] < p[2]}

LEMMA LessWF == IsWellFoundedOn(Less, Nat)
<1>1. OpToRel(<, Nat) = Less
  BY DEF OpToRel, Less
<1> QED
  BY <1>1, NatLessThanWellFounded

LEMMA Least ==
  ASSUME NEW T, T \subseteq Nat, T # {}
  PROVE  \E n \in T : \A m \in T : n <= m
<1>1. PICK n \in T : \A m \in T : <<m, n>> \notin Less
  BY LessWF, WFMin
<1>2. ASSUME NEW m \in T, ~(n <= m) PROVE FALSE
  <2>1. m \in Nat /\ n \in Nat /\ m < n
    BY <1>2
  <2>2. <<m, n>> \in Less
    BY <2>1 DEF Less
  <2> QED
    BY <1>1, <2>2
<1> QED
  BY <1>2

LEMMA Induct ==
  ASSUME NEW T, 0 \in T, \A n \in Nat : n \in T => n + 1 \in T
  PROVE  \A n \in Nat : n \in T
<1> SUFFICES ASSUME NEW n0 \in Nat, n0 \notin T PROVE FALSE
  OBVIOUS
<1> DEFINE U == {n \in Nat : n \notin T}
<1>1. PICK n \in U : \A m \in U : n <= m
  <2>1. U \subseteq Nat /\ U # {}
    OBVIOUS
  <2> HIDE DEF U
  <2> QED
    BY <2>1, Least
<1>2. n \in Nat /\ n # 0
  OBVIOUS
<1>3. n - 1 \in Nat /\ n - 1 \notin U
  BY <1>1, <1>2
<1> QED
  BY <1>2, <1>3

-----------------------------------------------------------------------------
(* A function defined by recursion is there, and there is one of it.       *)

\* f goes from 0 to k in S, begins with x, and F makes each later value of the one before.
Grows(F, x, k, S, f) ==
  /\ f \in [0..k -> S]
  /\ f[0] = x
  /\ \A n \in 1..k : f[n] = F[n][f[n - 1]]

LEMMA GrowsExists ==
  ASSUME NEW S, NEW x \in S, NEW L \in Nat, NEW F \in [1..L -> [S -> S]]
  PROVE  \E f : Grows(F, x, L, S, f)
<1> DEFINE T == {k \in Nat : k <= L => \E f : Grows(F, x, k, S, f)}
<1>1. 0 \in T
  <2>1. Grows(F, x, 0, S, [n \in 0..0 |-> x])
    BY DEF Grows
  <2> QED
    BY <2>1
<1>2. ASSUME NEW k \in Nat, k \in T PROVE k + 1 \in T
  <2> SUFFICES ASSUME k + 1 <= L PROVE \E f : Grows(F, x, k + 1, S, f)
    OBVIOUS
  <2>1. PICK f : Grows(F, x, k, S, f)
    BY <1>2
  <2>2. /\ f \in [0..k -> S] /\ f[0] = x
        /\ \A n \in 1..k : f[n] = F[n][f[n - 1]]
    BY <2>1 DEF Grows
  <2> DEFINE g == [n \in 0..(k + 1) |-> IF n = k + 1 THEN F[n][f[k]] ELSE f[n]]
  <2>3. F[k + 1][f[k]] \in S
    BY <2>2
  <2>4. g \in [0..(k + 1) -> S]
    <3>1. \A n \in 0..(k + 1) : n # k + 1 => n \in 0..k
      OBVIOUS
    <3> QED
      BY <2>2, <2>3, <3>1
  <2>5. g[0] = x
    BY <2>2
  <2>6. ASSUME NEW n \in 1..(k + 1) PROVE g[n] = F[n][g[n - 1]]
    <3>1. n - 1 \in 0..k /\ n - 1 # k + 1 /\ n - 1 \in 0..(k + 1) /\ n \in 0..(k + 1)
      OBVIOUS
    <3>2. g[n - 1] = f[n - 1]
      BY <3>1
    <3>3. CASE n = k + 1
      <4>1. g[n] = F[n][f[k]] /\ n - 1 = k
        BY <3>3
      <4> QED
        BY <3>2, <4>1
    <3>4. CASE n # k + 1
      <4>1. g[n] = f[n] /\ n \in 1..k
        BY <3>4
      <4> QED
        BY <2>2, <3>2, <4>1
    <3> QED
      BY <3>3, <3>4
  <2> HIDE DEF g
  <2>7. Grows(F, x, k + 1, S, g)
    BY <2>4, <2>5, <2>6 DEF Grows
  <2> QED
    BY <2>7
<1> HIDE DEF T
<1>3. L \in T
  BY <1>1, <1>2, Induct
<1> QED
  BY <1>3 DEF T

-----------------------------------------------------------------------------
(* Sums.                                                                   *)

Bytes == 0..255

\* The sums of the beginnings of data.
Totals(data, f) ==
  /\ f \in [0..Len(data) -> Nat]
  /\ f[0] = 0
  /\ \A n \in 1..Len(data) : f[n] = f[n - 1] + data[n]

\* The checksums of the beginnings of data.
Sums(data, f) ==
  /\ f[0] = 0
  /\ \A n \in 1..Len(data) : f[n] = (f[n - 1] + data[n]) % 256

LEMMA BytesOf ==
  ASSUME NEW data \in Seq(Bytes)
  PROVE  Len(data) \in Nat /\ \A n \in 1..Len(data) : data[n] \in 0..255 /\ data[n] \in Nat
<1>1. Len(data) \in Nat /\ \A n \in 1..Len(data) : data[n] \in Bytes
  OBVIOUS
<1>2. \A b \in Bytes : b \in 0..255 /\ b \in Nat
  BY DEF Bytes
<1> QED
  BY <1>1, <1>2

LEMMA TotalsExist ==
  ASSUME NEW data \in Seq(Bytes)
  PROVE  \E f : Totals(data, f)
<1> DEFINE L == Len(data)
<1>1. L \in Nat /\ \A n \in 1..L : data[n] \in Nat
  BY BytesOf
<1> HIDE DEF L
<1> DEFINE F == [n \in 1..L |-> [s \in Nat |-> s + data[n]]]
<1>3. F \in [1..L -> [Nat -> Nat]]
  BY <1>1
<1>4. \A n \in 1..L : \A s \in Nat : F[n][s] = s + data[n]
  OBVIOUS
<1> HIDE DEF F
<1>6. PICK f : Grows(F, 0, L, Nat, f)
  BY <1>1, <1>3, GrowsExists
<1>7. f \in [0..L -> Nat] /\ f[0] = 0 /\ \A n \in 1..L : f[n] = F[n][f[n - 1]]
  BY <1>6 DEF Grows
<1>8. ASSUME NEW n \in 1..L PROVE f[n] = f[n - 1] + data[n]
  <2>1. n - 1 \in 0..L
    BY <1>1
  <2>2. f[n - 1] \in Nat
    BY <1>7, <2>1
  <2> QED
    BY <1>4, <1>7, <2>2
<1>9. Totals(data, f)
  BY <1>7, <1>8 DEF Totals, L
<1> QED
  BY <1>9

LEMMA ChecksumIs ==
  ASSUME NEW data \in Seq(Bytes), NEW g, g = [n \in 0..Len(data) |-> g[n]], Sums(data, g)
  PROVE  Checksum(data) = g[Len(data)]
<1> DEFINE L == Len(data)
           Body(f) == [n \in 0..L |-> IF n = 0 THEN 0 ELSE (f[n - 1] + data[n]) % 256]
           c == CHOOSE f : f = Body(f)
<1>1. L \in Nat
  OBVIOUS
<1>2. g = Body(g)
  <2> DEFINE H(n) == IF n = 0 THEN 0 ELSE (g[n - 1] + data[n]) % 256
  <2>1. \A n \in 0..L : g[n] = H(n)
    <3> SUFFICES ASSUME NEW n \in 0..L PROVE g[n] = H(n)
      OBVIOUS
    <3>1. CASE n = 0
      BY <3>1 DEF Sums
    <3>2. CASE n # 0
      <4>1. n \in 1..L
        BY <1>1, <3>2
      <4> QED
        BY <3>2, <4>1 DEF Sums
    <3> QED
      BY <3>1, <3>2
  <2>2. Body(g) = [n \in 0..L |-> H(n)]
    OBVIOUS
  <2> HIDE DEF H, Body
  <2>3. [n \in 0..L |-> g[n]] = [n \in 0..L |-> H(n)]
    BY <2>1
  <2> QED
    BY <2>2, <2>3
<1>3. c = Body(c)
  <2> HIDE DEF Body
  <2> QED
    BY <1>2
<1>4. Checksum(data) = c[L]
  BY DEF Checksum
<1>5. c[0] = 0 /\ \A n \in 1..L : c[n] = (c[n - 1] + data[n]) % 256
  <2> DEFINE b == Body(c)
  <2>1. b[0] = 0 /\ \A n \in 1..L : b[n] = (c[n - 1] + data[n]) % 256
    BY <1>1
  <2> HIDE DEF b, c
  <2>2. c = b
    BY <1>3 DEF b
  <2> QED
    BY <2>1, <2>2
<1> HIDE DEF c
<1> DEFINE T == {n \in Nat : n <= L => c[n] = g[n]}
<1>6. 0 \in T
  BY <1>5 DEF Sums
<1>7. ASSUME NEW n \in Nat, n \in T PROVE n + 1 \in T
  <2> SUFFICES ASSUME n + 1 <= L PROVE c[n + 1] = g[n + 1]
    OBVIOUS
  <2>1. n + 1 \in 1..L /\ (n + 1) - 1 = n /\ c[n] = g[n]
    BY <1>7
  <2>2. c[n + 1] = (c[n] + data[n + 1]) % 256
    BY <1>5, <2>1
  <2>3. g[n + 1] = (g[n] + data[n + 1]) % 256
    BY <2>1, ZenonT(40) DEF Sums
  <2> QED
    BY <2>1, <2>2, <2>3
<1> HIDE DEF T
<1>8. L \in T
  BY <1>1, <1>6, <1>7, Induct
<1> QED
  BY <1>4, <1>8 DEF T

LEMMA SumOfIs ==
  ASSUME NEW data \in Seq(Bytes), NEW g, Totals(data, g)
  PROVE  SumOf(data) = g[Len(data)] % 256
<1> DEFINE L == Len(data)
           Body(f) == [n \in 0..L |-> IF n = 0 THEN 0 ELSE f[n - 1] + data[n]]
           c == CHOOSE f : f = Body(f)
<1>1. L \in Nat
  OBVIOUS
<1>2. g = Body(g)
  <2> DEFINE H(n) == IF n = 0 THEN 0 ELSE g[n - 1] + data[n]
  <2>1. \A n \in 0..L : g[n] = H(n)
    <3> SUFFICES ASSUME NEW n \in 0..L PROVE g[n] = H(n)
      OBVIOUS
    <3>1. CASE n = 0
      BY <3>1 DEF Totals
    <3>2. CASE n # 0
      <4>1. n \in 1..L
        BY <1>1, <3>2
      <4> QED
        BY <3>2, <4>1 DEF Totals
    <3> QED
      BY <3>1, <3>2
  <2>2. Body(g) = [n \in 0..L |-> H(n)]
    OBVIOUS
  <2>3. g = [n \in 0..L |-> g[n]]
    BY DEF Totals
  <2> HIDE DEF H, Body
  <2>4. [n \in 0..L |-> g[n]] = [n \in 0..L |-> H(n)]
    BY <2>1
  <2> QED
    BY <2>2, <2>3, <2>4
<1>3. c = Body(c)
  <2> HIDE DEF Body
  <2> QED
    BY <1>2
<1>4. SumOf(data) = c[L] % 256
  BY DEF SumOf
<1>5. c[0] = 0 /\ \A n \in 1..L : c[n] = c[n - 1] + data[n]
  <2> DEFINE b == Body(c)
  <2>1. b[0] = 0 /\ \A n \in 1..L : b[n] = c[n - 1] + data[n]
    BY <1>1
  <2> HIDE DEF b, c
  <2>2. c = b
    BY <1>3 DEF b
  <2> QED
    BY <2>1, <2>2
<1> HIDE DEF c
<1> DEFINE T == {n \in Nat : n <= L => c[n] = g[n]}
<1>6. 0 \in T
  BY <1>5 DEF Totals
<1>7. ASSUME NEW n \in Nat, n \in T PROVE n + 1 \in T
  <2> SUFFICES ASSUME n + 1 <= L PROVE c[n + 1] = g[n + 1]
    OBVIOUS
  <2>1. n + 1 \in 1..L /\ (n + 1) - 1 = n /\ c[n] = g[n]
    BY <1>7
  <2> QED
    BY <1>5, <2>1 DEF Totals
<1> HIDE DEF T
<1>8. L \in T
  BY <1>1, <1>6, <1>7, Induct
<1> QED
  BY <1>4, <1>8 DEF T

\* The host's checksum is the sum modulo 256, however it is taken.
LEMMA ChecksumIsSum ==
  ASSUME NEW data \in Seq(Bytes)
  PROVE  Checksum(data) = SumOf(data) /\ SumOf(data) \in Bytes
<1> DEFINE L == Len(data)
<1>1. L \in Nat /\ \A n \in 1..L : data[n] \in Nat
  BY BytesOf
<1>2. PICK f : Totals(data, f)
  BY TotalsExist
<1>3. f \in [0..L -> Nat] /\ f[0] = 0 /\ \A n \in 1..L : f[n] = f[n - 1] + data[n]
  BY <1>2 DEF Totals
<1> HIDE DEF L
<1> DEFINE s == [n \in 0..L |-> f[n] % 256]
<1>4. ASSUME NEW n \in 1..L PROVE s[n] = (s[n - 1] + data[n]) % 256
  <2>1. n - 1 \in 0..L /\ n \in 0..L
    BY <1>1
  <2>2. s[n] = f[n] % 256 /\ s[n - 1] = f[n - 1] % 256
    BY <2>1
  <2>3. f[n - 1] \in Nat /\ data[n] \in Nat /\ f[n] = f[n - 1] + data[n]
    BY <1>1, <1>3, <2>1
  <2> HIDE DEF s
  <2>4. \A a, b \in Nat : (a + b) % 256 = ((a % 256) + b) % 256
    OBVIOUS
  <2> QED
    BY <2>2, <2>3, <2>4
<1>5. s[0] = 0
  BY <1>1, <1>3
<1>6. s = [n \in 0..L |-> s[n]]
  OBVIOUS
<1>7. s[L] = f[L] % 256 /\ f[L] \in Nat
  BY <1>1, <1>3
<1> HIDE DEF s
<1>8. Sums(data, s)
  BY <1>4, <1>5 DEF Sums, L
<1>9. Checksum(data) = s[L]
  BY <1>6, <1>8, ChecksumIs DEF L
<1>10. SumOf(data) = f[L] % 256
  BY <1>2, SumOfIs DEF L
<1>11. \A a \in Nat : a % 256 \in Bytes
  BY DEF Bytes
<1> QED
  BY <1>7, <1>9, <1>10, <1>11

LEMMA ModDiffers ==
  ASSUME NEW a \in Nat, NEW b \in Nat, NEW d \in Int, d # 0, -255 <= d, d <= 255, b = a + d
  PROVE  b % 256 # a % 256
<1> SUFFICES ASSUME b % 256 = a % 256 PROVE FALSE
  OBVIOUS
<1>1. a = (256 * (a \div 256)) + (a % 256) /\ b = (256 * (b \div 256)) + (b % 256)
  OBVIOUS
<1>2. a \div 256 \in Int /\ b \div 256 \in Int /\ a % 256 \in Int
  OBVIOUS
<1> DEFINE p == a \div 256
           q == b \div 256
           r == a % 256
<1>3. p \in Int /\ q \in Int /\ r \in Int /\ a = 256 * p + r /\ b = 256 * q + r
  BY <1>1, <1>2
<1> HIDE DEF p, q, r
<1> QED
  BY <1>3

LEMMA ByteDiffers ==
  ASSUME NEW a \in 0..255, NEW b \in 0..255, a # b
  PROVE  b - a \in Int /\ b - a # 0 /\ -255 <= b - a /\ b - a <= 255
OBVIOUS

\* Two rows of bytes that differ in one place, and not by a multiple of 256, have two sums.
LEMMA SumsDiffer ==
  ASSUME NEW data \in Seq(Bytes), NEW other \in Seq(Bytes), Len(other) = Len(data),
         NEW i \in 1..Len(data), data[i] # other[i],
         \A n \in 1..Len(data) : n # i => other[n] = data[n]
  PROVE  SumOf(other) # SumOf(data)
<1> DEFINE L == Len(data)
<1>1. /\ L \in Nat
      /\ \A n \in 1..L : data[n] \in 0..255
  BY BytesOf
<1>1a. \A n \in 1..L : other[n] \in 0..255
  BY BytesOf
<1>2. PICK f : Totals(data, f)
  BY TotalsExist
<1>3. f \in [0..L -> Nat] /\ f[0] = 0 /\ \A n \in 1..L : f[n] = f[n - 1] + data[n]
  BY <1>2 DEF Totals
<1>4. PICK g : Totals(other, g)
  BY TotalsExist
<1>5. g \in [0..L -> Nat] /\ g[0] = 0 /\ \A n \in 1..L : g[n] = g[n - 1] + other[n]
  BY <1>4 DEF Totals
<1>6. SumOf(data) = f[L] % 256
  BY <1>2, SumOfIs
<1>7. SumOf(other) = g[L] % 256
  BY <1>4, SumOfIs
<1>8. i \in 1..L /\ data[i] # other[i]
  OBVIOUS
<1> HIDE DEF L
<1> DEFINE d == other[i] - data[i]
<1>9. d \in Int /\ d # 0 /\ -255 <= d /\ d <= 255
  <2>1. data[i] \in 0..255 /\ other[i] \in 0..255
    BY <1>1, <1>1a, <1>8
  <2> QED
    BY <1>8, <2>1, ByteDiffers
<1> HIDE DEF d
<1>d. d = other[i] - data[i] /\ i \in Nat /\ 1 <= i
  BY <1>8 DEF d
<1> DEFINE T == {n \in Nat : n <= L => (n < i => g[n] = f[n]) /\ (~(n < i) => g[n] = f[n] + d)}
<1>10. 0 \in T
  BY <1>d, <1>3, <1>5
<1>11. ASSUME NEW n \in Nat, n \in T PROVE n + 1 \in T
  <2> SUFFICES ASSUME n + 1 <= L
               PROVE  /\ n + 1 < i => g[n + 1] = f[n + 1]
                      /\ ~(n + 1 < i) => g[n + 1] = f[n + 1] + d
    OBVIOUS
  <2>1. /\ n + 1 \in 1..L /\ n \in 0..L /\ (n + 1) - 1 = n
    BY <1>1
  <2>a. (n < i => g[n] = f[n]) /\ (~(n < i) => g[n] = f[n] + d)
    <3>1. n \in T /\ n <= L
      BY <1>1, <1>11
    <3> QED
      BY <3>1
  <2> HIDE DEF T
  <2>2. /\ g[n + 1] = g[n] + other[n + 1] /\ f[n + 1] = f[n] + data[n + 1]
        /\ f[n] \in Nat /\ other[n + 1] \in 0..255 /\ data[n + 1] \in 0..255
    BY <1>1, <1>1a, <1>3, <1>5, <2>1
  <2> DEFINE x == f[n]
             y == g[n]
             a == data[n + 1]
             b == other[n + 1]
             u == f[n + 1]
             v == g[n + 1]
  <2>b. v = y + b /\ u = x + a /\ x \in Nat /\ a \in 0..255 /\ b \in 0..255
    BY <2>2
  <2>3. CASE n + 1 < i
    <3>1. other[n + 1] = data[n + 1] /\ n < i
      BY <1>d, <2>1, <2>3 DEF L
    <3> QED
      BY <2>a, <2>2, <2>3, <3>1
  <2>4. CASE n + 1 = i
    <3>1. ~(n + 1 < i) /\ n < i
      BY <1>d, <2>4
    <3>2. d = other[n + 1] - data[n + 1]
      BY <1>d, <2>4
    <3>3. v = u + d
      <4>1. y = x /\ d = b - a
        BY <2>a, <3>1, <3>2
      <4> HIDE DEF x, y, a, b, u, v
      <4> QED
        BY <1>9, <2>b, <4>1
    <3> QED
      BY <3>1, <3>3
  <2>5. CASE ~(n < i)
    <3>1. other[n + 1] = data[n + 1] /\ ~(n + 1 < i)
      BY <1>d, <2>1, <2>5 DEF L
    <3>3. v = u + d
      <4>1. y = x + d /\ b = a
        BY <2>a, <2>5, <3>1
      <4> HIDE DEF x, y, a, b, u, v
      <4> QED
        BY <1>9, <2>b, <4>1
    <3> QED
      BY <3>1, <3>3
  <2> QED
    BY <1>d, <2>3, <2>4, <2>5
<1> HIDE DEF T
<1>12. L \in T
  BY <1>1, <1>10, <1>11, Induct
<1>13. g[L] = f[L] + d /\ f[L] \in Nat /\ g[L] \in Nat
  BY <1>1, <1>3, <1>5, <1>8, <1>d, <1>12 DEF T
<1>14. g[L] % 256 # f[L] % 256
  BY <1>9, <1>13, ModDiffers, ZenonT(40)
<1> QED
  BY <1>6, <1>7, <1>14

-----------------------------------------------------------------------------
(* Frames.                                                                 *)

\* An answer that fits in a frame.
Fitting(a) == a.subtype \in Bytes /\ a.body \in Seq(Bytes) /\ Len(a.body) <= 252

\* What FrameOf puts in front of the checksum.
Unsummed(a) == <<Len(a.body) + 3, 65, a.subtype>> \o a.body

LEMMA HeadedBy ==
  ASSUME NEW S, NEW h \in Seq(S), Len(h) = 3, NEW b \in Seq(S)
  PROVE  /\ h \o b \in Seq(S) /\ Len(h \o b) = 3 + Len(b)
         /\ \A k \in 1..(3 + Len(b)) : (h \o b)[k] = IF k <= 3 THEN h[k] ELSE b[k - 3]
<1>1. /\ h \o b \in Seq(S) /\ Len(h \o b) = Len(h) + Len(b)
      /\ \A k \in 1..(Len(h) + Len(b)) : (h \o b)[k] = IF k <= Len(h) THEN h[k] ELSE b[k - Len(h)]
  BY ConcatProperties
<1> QED
  BY <1>1

LEMMA UnsummedShape ==
  ASSUME NEW a, Fitting(a)
  PROVE  /\ Unsummed(a) \in Seq(Bytes)
         /\ Len(Unsummed(a)) = Len(a.body) + 3
         /\ Len(a.body) \in Nat
         /\ Unsummed(a)[1] = Len(a.body) + 3
         /\ Unsummed(a)[2] = 65
         /\ Unsummed(a)[3] = a.subtype
         /\ \A k \in 4..(Len(a.body) + 3) : Unsummed(a)[k] = a.body[k - 3]
<1> DEFINE h == <<Len(a.body) + 3, 65, a.subtype>>
           b == a.body
<1>1. b \in Seq(Bytes) /\ Len(b) \in Nat /\ Len(b) <= 252
  BY DEF Fitting
<1>2. Len(b) + 3 \in Bytes /\ 65 \in Bytes /\ a.subtype \in Bytes
  <2>1. a.subtype \in Bytes
    BY DEF Fitting
  <2> HIDE DEF b, h
  <2>3. Len(b) + 3 \in 0..255
    <3> DEFINE n == Len(b)
    <3>1. n \in Nat /\ n <= 252
      BY <1>1
    <3> HIDE DEF n
    <3>2. n + 3 \in 0..255
      BY <3>1
    <3> QED
      BY <3>2 DEF n
  <2>4. 65 \in 0..255
    OBVIOUS
  <2> QED
    BY <2>1, <2>3, <2>4 DEF Bytes
<1>3. h \in Seq(Bytes) /\ Len(h) = 3 /\ h[1] = Len(b) + 3 /\ h[2] = 65 /\ h[3] = a.subtype
  BY <1>2
<1>4. Unsummed(a) = h \o b
  BY DEF Unsummed
<1> HIDE DEF h, b
<1>5. /\ h \o b \in Seq(Bytes) /\ Len(h \o b) = 3 + Len(b)
      /\ \A k \in 1..(3 + Len(b)) : (h \o b)[k] = IF k <= 3 THEN h[k] ELSE b[k - 3]
  BY <1>1, <1>3, HeadedBy
<1>6. 3 + Len(b) = Len(b) + 3
  BY <1>1
<1>7. /\ (h \o b)[1] = h[1] /\ (h \o b)[2] = h[2] /\ (h \o b)[3] = h[3]
      /\ \A k \in 4..(Len(b) + 3) : (h \o b)[k] = b[k - 3]
  <2>1. 1 \in 1..(3 + Len(b)) /\ 2 \in 1..(3 + Len(b)) /\ 3 \in 1..(3 + Len(b))
    BY <1>1
  <2>2. \A k \in 4..(Len(b) + 3) : k \in 1..(3 + Len(b)) /\ ~(k <= 3)
    BY <1>1
  <2> QED
    BY <1>5, <2>1, <2>2
<1> QED
  BY <1>1, <1>3, <1>4, <1>5, <1>6, <1>7 DEF b

LEMMA FrameShape ==
  ASSUME NEW a, Fitting(a)
  PROVE  /\ FrameOf(a) = Append(Unsummed(a), SumOf(Unsummed(a)))
         /\ FrameOf(a) \in Seq(Bytes)
         /\ Len(FrameOf(a)) = Len(a.body) + 4
         /\ FrameOf(a)[1] = Len(a.body) + 3 /\ FrameOf(a)[2] = 65 /\ FrameOf(a)[3] = a.subtype
         /\ FrameOf(a)[Len(a.body) + 4] = SumOf(Unsummed(a))
         /\ \A k \in 1..(Len(a.body) + 3) : FrameOf(a)[k] = Unsummed(a)[k]
<1> DEFINE p == Unsummed(a)
           c == SumOf(Unsummed(a))
           n == Len(a.body)
<1>1. FrameOf(a) = Append(p, c)
  BY DEF FrameOf, Unsummed
<1>2. /\ p \in Seq(Bytes) /\ Len(p) = n + 3 /\ n \in Nat
      /\ p[1] = n + 3 /\ p[2] = 65 /\ p[3] = a.subtype
  BY UnsummedShape
<1>3. c \in Bytes
  BY <1>2, ChecksumIsSum
<1> HIDE DEF p, c, n
<1>4. /\ Append(p, c) \in Seq(Bytes) /\ Len(Append(p, c)) = n + 4
      /\ Append(p, c)[n + 4] = c
      /\ \A k \in 1..(n + 3) : Append(p, c)[k] = p[k]
  BY <1>2, <1>3
<1>5. Append(p, c)[1] = p[1] /\ Append(p, c)[2] = p[2] /\ Append(p, c)[3] = p[3]
  BY <1>2, <1>4
<1> QED
  BY <1>1, <1>2, <1>4, <1>5 DEF p, c, n

LEMMA FrontOf ==
  ASSUME NEW S, NEW s \in Seq(S), NEW e \in S
  PROVE  Front(Append(s, e)) = s /\ Last(Append(s, e)) = e
BY DEF Front, Last

\* A frame that came whole is taken as it was sent (parse_frame).
LEMMA FrameParses ==
  ASSUME NEW a, Fitting(a)
  PROVE  ParseFrame(FrameOf(a)) = [is |-> "frame", subtype |-> a.subtype, body |-> a.body]
<1> DEFINE f == FrameOf(a)
           n == Len(a.body)
<1>1. /\ f = Append(Unsummed(a), SumOf(Unsummed(a))) /\ f \in Seq(Bytes) /\ Len(f) = n + 4
      /\ f[1] = n + 3 /\ f[2] = 65 /\ f[3] = a.subtype
      /\ \A k \in 1..(n + 3) : f[k] = Unsummed(a)[k]
  BY FrameShape
<1>2. /\ Unsummed(a) \in Seq(Bytes) /\ n \in Nat
      /\ \A k \in 4..(n + 3) : Unsummed(a)[k] = a.body[k - 3]
  BY UnsummedShape
<1>3. Checksum(Unsummed(a)) = SumOf(Unsummed(a)) /\ SumOf(Unsummed(a)) \in Bytes
  BY <1>2, ChecksumIsSum
<1>4. Front(f) = Unsummed(a) /\ Last(f) = SumOf(Unsummed(a))
  BY <1>1, <1>2, <1>3, FrontOf
<1>5. SubSeq(f, 4, Len(f) - 1) = a.body
  <2>1. a.body \in Seq(Bytes)
    BY DEF Fitting
  <2> DEFINE g == SubSeq(f, 4, Len(f) - 1)
             b == a.body
  <2> HIDE DEF f
  <2>2. g \in Seq(Bytes) /\ Len(g) = n /\ \A k \in 1..n : g[k] = f[k + 3]
    BY <1>1, <1>2
  <2>3. \A k \in 1..n : f[k + 3] = b[k]
    BY <1>1, <1>2
  <2> HIDE DEF g, b
  <2>4. b \in Seq(Bytes) /\ Len(b) = n
    BY <2>1 DEF b
  <2>5. \A k \in 1..n : g[k] = b[k]
    BY <2>2, <2>3
  <2>6. g = b
    BY <2>2, <2>4, <2>5, SeqEqual
  <2> QED
    BY <2>6 DEF g, b
<1> HIDE DEF f
<1>6. ParseFrame(f) = [is |-> "frame", subtype |-> f[3], body |-> SubSeq(f, 4, Len(f) - 1)]
  BY <1>1, <1>2, <1>3, <1>4 DEF ParseFrame
<1> QED
  BY <1>1, <1>5, <1>6 DEF f

LEMMA SplitOff ==
  ASSUME NEW S, NEW s \in Seq(S), NEW t \in Seq(S)
  PROVE  SubSeq(s \o t, 1, Len(s)) = s /\ SubSeq(s \o t, Len(s) + 1, Len(s \o t)) = t
<1> DEFINE x == s \o t
           m == Len(s)
           n == Len(t)
           u == SubSeq(x, 1, m)
           v == SubSeq(x, m + 1, Len(x))
<1>1. /\ x \in Seq(S) /\ Len(x) = m + n /\ m \in Nat /\ n \in Nat
      /\ \A i \in 1..(m + n) : x[i] = IF i <= m THEN s[i] ELSE t[i - m]
  BY ConcatProperties
<1> HIDE DEF x
<1>2. u \in Seq(S) /\ Len(u) = m /\ \A i \in 1..m : u[i] = x[i]
  BY <1>1
<1>3. v \in Seq(S) /\ Len(v) = n /\ \A i \in 1..n : v[i] = x[m + i]
  BY <1>1
<1>4. \A i \in 1..m : u[i] = s[i]
  BY <1>1, <1>2
<1>5. \A i \in 1..n : v[i] = t[i]
  <2> SUFFICES ASSUME NEW i \in 1..n PROVE v[i] = t[i]
    OBVIOUS
  <2>1. m + i \in 1..(m + n) /\ ~(m + i <= m) /\ (m + i) - m = i
    BY <1>1
  <2> QED
    BY <1>1, <1>3, <2>1
<1> HIDE DEF u, v
<1>6. u = s
  BY <1>2, <1>4, SeqEqual
<1>7. v = t
  BY <1>3, <1>5, SeqEqual
<1> QED
  BY <1>6, <1>7 DEF u, v, x

\* A frame that came whole is taken as it was sent, whatever follows it, and that stays on
\* the port for the next call (XbpiProtocolClient._execute_locked).
THEOREM FrameReceived ==
  ASSUME NEW a, Fitting(a), NEW rest \in Seq(Bytes)
  PROVE  Receive(FrameOf(a) \o rest) =
           [frame |-> [is |-> "frame", subtype |-> a.subtype, body |-> a.body],
            raw |-> FrameOf(a), left |-> rest]
<1> DEFINE f == FrameOf(a)
           x == f \o rest
           n == Len(a.body)
<1>1. f \in Seq(Bytes) /\ Len(f) = n + 4 /\ f[1] = n + 3 /\ n \in Nat
  BY FrameShape, UnsummedShape
<1>2. ParseFrame(f) = [is |-> "frame", subtype |-> a.subtype, body |-> a.body]
  BY FrameParses
<1> HIDE DEF f
<1>3. x \in Seq(Bytes) /\ Len(x) = n + 4 + Len(rest) /\ x # <<>> /\ Head(x) = n + 3
  BY <1>1
<1>4. SubSeq(x, 1, n + 4) = f /\ SubSeq(x, n + 5, Len(x)) = rest
  <2>1. Len(f) + 1 = n + 5
    BY <1>1
  <2> QED
    BY <1>1, <2>1, SplitOff
<1>5. Head(x) + 1 = n + 4 /\ ~(Len(x) < n + 4) /\ (n + 4) + 1 = n + 5
  BY <1>1, <1>3
<1>6. ParseFrame(f) # Failed
  BY <1>2 DEF Failed
<1> HIDE DEF x
<1> QED
  BY <1>2, <1>3, <1>4, <1>5, <1>6 DEF Receive, f, x

LEMMA ByteMoves ==
  ASSUME NEW b \in 0..255, NEW n \in 1..255
  PROVE  (b + n) % 256 \in 0..255 /\ (b + n) % 256 # b
<1>1. b + n \in Nat /\ b \in Nat /\ n # 0 /\ -255 <= n /\ n <= 255
  OBVIOUS
<1>2. b % 256 = b
  OBVIOUS
<1>3. (b + n) % 256 # b
  BY <1>1, <1>2, ModDiffers
<1>4. \A k \in Nat : k % 256 \in 0..255
  OBVIOUS
<1> QED
  BY <1>1, <1>3, <1>4

\* Receive, when the size it reads first is all there is, or more, or less.
LEMMA ReceiveWhole ==
  ASSUME NEW g \in Seq(Bytes), g # <<>>, Head(g) + 1 = Len(g)
  PROVE  Receive(g).frame = ParseFrame(g)
<1>1. SubSeq(g, 1, Len(g)) = g
  BY SubSeqFull
<1>2. ~(Len(g) < Head(g) + 1)
  BY LenProperties
<1> QED
  BY <1>1, <1>2 DEF Receive

LEMMA ReceiveShort ==
  ASSUME NEW g \in Seq(Bytes), g # <<>>, Len(g) < Head(g) + 1
  PROVE  Receive(g).frame = Failed
BY DEF Receive

LEMMA ReceivePart ==
  ASSUME NEW g \in Seq(Bytes), g # <<>>, Head(g) + 1 < Len(g)
  PROVE  Len(Receive(g).raw) < Len(g)
<1> DEFINE size == Head(g) + 1
           s == SubSeq(g, 1, size)
<1>1. size \in Nat /\ size < Len(g) /\ Len(g) \in Nat /\ size >= 1
  <2>1. Head(g) \in Nat /\ Len(g) \in Nat
    <3>1. Head(g) \in Bytes /\ Len(g) \in Nat
      BY HeadTailProperties
    <3>2. \A b \in Bytes : b \in Nat
      BY DEF Bytes
    <3> QED
      BY <3>1, <3>2
  <2> QED
    BY <2>1
<1>2. Len(s) = size
  BY <1>1
<1>3. ~(Len(g) < size)
  BY <1>1
<1>4. Receive(g).raw = s
  BY <1>3 DEF Receive
<1> QED
  BY <1>1, <1>2, <1>4

\* The frame of a with n added to byte i, and the frame taken of it that is too short.
Damaged(a, i, n) == [FrameOf(a) EXCEPT ![i] = (@ + n) % 256]
CutShort(a, i, got) == i = 1 /\ Len(got.raw) < Len(FrameOf(a))

\* One changed byte never passes, unless it is the length byte and the frame is cut
\* there (parse_frame, _execute_locked).
THEOREM DamageSeen ==
  ASSUME NEW a, Fitting(a), NEW i \in 1..Len(FrameOf(a)), NEW n \in 1..255
  PROVE  /\ Damaged(a, i, n) \in Seq(Bytes)
         /\ \/ Receive(Damaged(a, i, n)).frame = Failed
            \/ CutShort(a, i, Receive(Damaged(a, i, n)))
<1> DEFINE g == Damaged(a, i, n)
<1>0. g = [FrameOf(a) EXCEPT ![i] = (@ + n) % 256]
  BY DEF Damaged
<1> SUFFICES /\ g \in Seq(Bytes)
             /\ Receive(g).frame = Failed \/ (i = 1 /\ Len(Receive(g).raw) < Len(FrameOf(a)))
  BY DEF CutShort
<1> HIDE DEF g
<1> DEFINE f == FrameOf(a)
           p == Unsummed(a)
           m == Len(a.body) + 4
<1>1. /\ f \in Seq(Bytes) /\ Len(f) = m /\ f[1] = Len(a.body) + 3 /\ f[2] = 65
      /\ f[m] = SumOf(p) /\ \A k \in 1..(Len(a.body) + 3) : f[k] = p[k]
  BY FrameShape
<1>2. p \in Seq(Bytes) /\ Len(p) = Len(a.body) + 3 /\ Len(a.body) \in Nat
  BY UnsummedShape
<1>3. m \in Nat /\ m >= 4 /\ Len(a.body) + 3 = m - 1 /\ i \in 1..m
  BY <1>1, <1>2
<1> HIDE DEF f, p, m
<1>4. f[1] = m - 1 /\ Len(p) = m - 1 /\ \A k \in 1..(m - 1) : f[k] = p[k]
  BY <1>1, <1>2, <1>3
<1>5. f[i] \in 0..255
  BY <1>1, <1>3, BytesOf, ZenonT(40)
<1>6. (f[i] + n) % 256 \in 0..255 /\ (f[i] + n) % 256 # f[i]
  BY <1>5, ByteMoves, ZenonT(40)
<1>7. /\ g \in Seq(Bytes) /\ Len(g) = m /\ g[i] # f[i]
      /\ \A j \in 1..m : j # i => g[j] = f[j]
  <2> DEFINE e == (f[i] + n) % 256
  <2>1. e \in Bytes /\ e # f[i]
    BY <1>6 DEF Bytes
  <2>2. g = [f EXCEPT ![i] = e]
    BY <1>0 DEF f
  <2> HIDE DEF e
  <2>3. /\ [f EXCEPT ![i] = e] \in Seq(Bytes)
        /\ Len([f EXCEPT ![i] = e]) = Len(f)
        /\ \A j \in 1..Len(f) : [f EXCEPT ![i] = e][j] = IF j = i THEN e ELSE f[j]
    BY <1>1, <1>3, <2>1, ExceptSeq
  <2> QED
    BY <1>1, <1>3, <2>1, <2>2, <2>3
<1>8. g # <<>> /\ Head(g) = g[1] /\ g[1] \in Nat
  <2>1. g # <<>> /\ Head(g) = g[1]
    BY <1>3, <1>7
  <2>2. 1 \in 1..Len(g)
    BY <1>3, <1>7
  <2> QED
    BY <1>7, <2>1, <2>2, BytesOf
<1>9. CASE i = 1
  <2>1. g[1] # m - 1
    BY <1>4, <1>7, <1>9
  <2>2. CASE m < g[1] + 1
    BY <1>7, <1>8, <2>2, ReceiveShort
  <2>3. CASE ~(m < g[1] + 1)
    <3>1. g[1] + 1 < m
      BY <1>3, <1>8, <2>1, <2>3
    <3>2. Len(Receive(g).raw) < Len(g)
      BY <1>7, <1>8, <3>1, ReceivePart
    <3> QED
      BY <1>1, <1>7, <1>9, <3>2 DEF f
  <2> QED
    BY <1>7, <2>2, <2>3
<1>10. CASE i # 1
  <2>1. g[1] = m - 1
    BY <1>3, <1>4, <1>7, <1>10
  <2>2. Receive(g).frame = ParseFrame(g)
    <3>1. Head(g) + 1 = Len(g)
      BY <1>3, <1>7, <1>8, <2>1
    <3> QED
      BY <1>7, <1>8, <3>1, ReceiveWhole
  <2>3. CASE i = 2
    <3>1. g[2] # 65
      BY <1>1, <1>7, <2>3
    <3> QED
      BY <1>7, <2>2, <3>1 DEF ParseFrame
  <2> DEFINE q == Front(g)
  <2>4. q \in Seq(Bytes) /\ Len(q) = m - 1 /\ \A k \in 1..(m - 1) : q[k] = g[k]
    BY <1>3, <1>7 DEF Front
  <2>5. Checksum(q) = SumOf(q)
    BY <2>4, ChecksumIsSum
  <2>6. Last(g) = g[m]
    BY <1>7 DEF Last
  <2> HIDE DEF q
  <2>7. CASE i = m
    <3>1. \A k \in 1..(m - 1) : q[k] = p[k]
      <4> SUFFICES ASSUME NEW k \in 1..(m - 1) PROVE q[k] = p[k]
        OBVIOUS
      <4>1. k \in 1..m /\ k # i
        BY <1>3, <2>7
      <4> QED
        BY <1>4, <1>7, <2>4, <4>1
    <3>2. q = p
      BY <1>2, <1>4, <2>4, <3>1, SeqEqual
    <3>3. Last(g) # Checksum(q)
      BY <1>1, <1>7, <2>5, <2>6, <2>7, <3>2
    <3> QED
      BY <1>7, <2>2, <3>3 DEF ParseFrame, q
  <2>8. CASE i # 2 /\ i # m
    <3>1. i \in 1..(m - 1)
      BY <1>3, <2>8
    <3>2. p[i] # q[i]
      BY <1>4, <1>7, <2>4, <3>1
    <3>3. \A k \in 1..(m - 1) : k # i => q[k] = p[k]
      <4> SUFFICES ASSUME NEW k \in 1..(m - 1), k # i PROVE q[k] = p[k]
        OBVIOUS
      <4>1. k \in 1..m
        BY <1>3
      <4> QED
        BY <1>4, <1>7, <2>4, <4>1
    <3>4. SumOf(q) # SumOf(p)
      BY <1>2, <1>4, <2>4, <3>1, <3>2, <3>3, SumsDiffer
    <3>5. m \in 1..m /\ m # i
      BY <1>3, <2>8
    <3>6. Last(g) # Checksum(q)
      BY <1>1, <1>7, <2>5, <2>6, <3>4, <3>5
    <3> QED
      BY <1>7, <2>2, <3>6 DEF ParseFrame, q
  <2> QED
    BY <2>3, <2>7, <2>8
<1> QED
  BY <1>9, <1>10

-----------------------------------------------------------------------------
(* Argument records.                                                       *)

LEMMA SizesAre ==
  /\ DOMAIN TlvSizes = {17, 18, 20, 33, 34, 36}
  /\ TlvSizes[33] = 1
  /\ \A t \in DOMAIN TlvSizes : TlvSizes[t] \in {1, 2, 4}
<1> DEFINE D == {17, 18, 20, 33, 34, 36}
<1>1. \A t \in D : t % 16 \in {1, 2, 4}
  OBVIOUS
<1>2. DOMAIN TlvSizes = D /\ \A t \in D : TlvSizes[t] = t % 16
  BY DEF TlvSizes
<1>3. 33 \in D /\ 33 % 16 = 1
  OBVIOUS
<1> QED
  BY <1>1, <1>2, <1>3

\* What ParseTlvs makes of the bytes from o on, w of those behind its record.
Walked(body, w, o) ==
  IF o = Len(body) + 1 THEN [is |-> "tlvs", list |-> <<>>]
  ELSE IF body[o] \notin DOMAIN TlvSizes \/ o + TlvSizes[body[o]] > Len(body)
  THEN Failed
  ELSE LET next == o + TlvSizes[body[o]] + 1
           rest == w[next]
       IN  IF rest = Failed THEN Failed
           ELSE [is |-> "tlvs", list |->
                   <<[tag |-> body[o], value |-> SubSeq(body, o + 1, next - 1)]>> \o rest.list]

\* It looks only at what is behind o.
LEMMA WalkedLater ==
  ASSUME NEW body \in Seq(Bytes), NEW o \in 1..(Len(body) + 1), NEW v, NEW w,
         \A k \in (o + 1)..(Len(body) + 1) : v[k] = w[k]
  PROVE  Walked(body, v, o) = Walked(body, w, o)
<1> DEFINE L == Len(body)
           next == o + TlvSizes[body[o]] + 1
<1>1. L \in Nat
  OBVIOUS
<1>2. CASE o = L + 1
  BY <1>2 DEF Walked
<1>3. CASE o # L + 1 /\ (body[o] \notin DOMAIN TlvSizes \/ o + TlvSizes[body[o]] > L)
  BY <1>3 DEF Walked
<1>4. CASE o # L + 1 /\ ~(body[o] \notin DOMAIN TlvSizes \/ o + TlvSizes[body[o]] > L)
  <2>1. next \in (o + 1)..(L + 1)
    <3>1. TlvSizes[body[o]] \in {1, 2, 4}
      BY <1>4, SizesAre
    <3> DEFINE z == TlvSizes[body[o]]
    <3>2. z \in Nat /\ z >= 1 /\ ~(o + z > L)
      BY <1>4, <3>1
    <3> HIDE DEF z
    <3>3. o + z + 1 \in (o + 1)..(L + 1)
      BY <1>1, <3>2
    <3> QED
      BY <3>3 DEF z
  <2>2. v[next] = w[next]
    BY <2>1
  <2> QED
    BY <1>4, <2>2 DEF Walked
<1> QED
  BY <1>2, <1>3, <1>4

\* The walk of ParseTlvs ends at every byte.
LEMMA WalkExists ==
  ASSUME NEW body \in Seq(Bytes)
  PROVE  \E w : w = [o \in 1..(Len(body) + 1) |-> Walked(body, w, o)]
<1> DEFINE L == Len(body)
           D == 1..(L + 1)
           T == {k \in Nat : k <= L + 1 => \E w : /\ w = [o \in D |-> w[o]]
                                                  /\ \A o \in D : o > L + 1 - k => w[o] = Walked(body, w, o)}
<1>1. L \in Nat
  OBVIOUS
<1>2. 0 \in T
  <2> DEFINE w == [o \in D |-> 0]
  <2>1. w = [o \in D |-> w[o]]
    OBVIOUS
  <2>2. \A o \in D : ~(o > L + 1 - 0)
    BY <1>1
  <2> HIDE DEF w
  <2> QED
    BY <2>1, <2>2
<1>3. ASSUME NEW k \in Nat, k \in T PROVE k + 1 \in T
  <2> SUFFICES ASSUME k + 1 <= L + 1
               PROVE  \E w : /\ w = [o \in D |-> w[o]]
                             /\ \A o \in D : o > L + 1 - (k + 1) => w[o] = Walked(body, w, o)
    OBVIOUS
  <2>1. PICK w : w = [o \in D |-> w[o]] /\ \A o \in D : o > L + 1 - k => w[o] = Walked(body, w, o)
    BY <1>1, <1>3
  <2> DEFINE p == L + 1 - k
             x == Walked(body, w, p)
             v == [o \in D |-> IF o = p THEN x ELSE w[o]]
  <2>2. p \in D /\ L + 1 - (k + 1) = p - 1
    BY <1>1
  <2> HIDE DEF T, p, x
  <2>3. v = [o \in D |-> v[o]] /\ v[p] = x /\ \A o \in D : o # p => v[o] = w[o]
    BY <2>2
  <2> HIDE DEF v
  <2>4. ASSUME NEW o \in D, o > p - 1 PROVE v[o] = Walked(body, v, o)
    <3>1. \A j \in (o + 1)..(L + 1) : j \in D /\ j # p
      BY <1>1, <2>2, <2>4
    <3>2. \A j \in (o + 1)..(L + 1) : v[j] = w[j]
      BY <2>3, <3>1
    <3>3. Walked(body, v, o) = Walked(body, w, o)
      BY <3>2, WalkedLater
    <3>4. CASE o = p
      BY <2>3, <3>3, <3>4 DEF x
    <3>5. CASE o # p
      <4>1. o > p
        BY <1>1, <2>2, <2>4, <3>5
      <4>2. w[o] = Walked(body, w, o)
        BY <2>1, <4>1 DEF p
      <4> QED
        BY <2>3, <3>3, <3>5, <4>2
    <3> QED
      BY <3>4, <3>5
  <2> QED
    BY <2>2, <2>3, <2>4
<1> HIDE DEF T
<1>4. L + 1 \in T
  BY <1>1, <1>2, <1>3, Induct
<1>5. PICK w : w = [o \in D |-> w[o]] /\ \A o \in D : o > L + 1 - (L + 1) => w[o] = Walked(body, w, o)
  BY <1>1, <1>4 DEF T
<1>6. \A o \in D : w[o] = Walked(body, w, o)
  BY <1>1, <1>5
<1>7. w = [o \in D |-> Walked(body, w, o)]
  BY <1>5, <1>6
<1> QED
  BY <1>7

LEMMA ParseTlvsIs ==
  ASSUME NEW body \in Seq(Bytes)
  PROVE  \E w : ParseTlvs(body) = w[1] /\ \A o \in 1..(Len(body) + 1) : w[o] = Walked(body, w, o)
<1> DEFINE D == 1..(Len(body) + 1)
           c == CHOOSE w : w = [o \in D |-> Walked(body, w, o)]
<1>1. c = [o \in D |-> Walked(body, c, o)]
  BY WalkExists
<1>2. ParseTlvs(body) = c[1]
  BY DEF ParseTlvs, Walked
<1> HIDE DEF c
<1>3. \A o \in D : c[o] = Walked(body, c, o)
  BY <1>1
<1> QED
  BY <1>2, <1>3

LEMMA Single ==
  ASSUME NEW S, NEW s \in Seq(S), NEW i \in 1..Len(s)
  PROVE  SubSeq(s, i, i) = <<s[i]>>
<1> DEFINE u == SubSeq(s, i, i)
           v == <<s[i]>>
<1>1. s[i] \in S /\ Len(s) \in Nat /\ i \in Nat
  OBVIOUS
<1>2. u \in Seq(S) /\ Len(u) = 1 /\ u[1] = s[i]
  <2>1. i - i + 1 = 1 /\ i + 1 - 1 = i
    BY <1>1
  <2> QED
    BY <1>1, <2>1
<1>3. v \in Seq(S) /\ Len(v) = 1 /\ v[1] = s[i]
  BY <1>1
<1> HIDE DEF u, v
<1>4. \A k \in 1..1 : k = 1
  OBVIOUS
<1>5. u = v
  BY <1>2, <1>3, <1>4, SeqEqual
<1> QED
  BY <1>5 DEF u, v

LEMMA Joined ==
  ASSUME NEW x, NEW y
  PROVE  <<x>> \o <<y>> = <<x, y>>
<1> DEFINE S == {x, y}
           p == <<x>>
           r == <<y>>
           u == p \o r
           v == <<x, y>>
<1>1. p \in Seq(S) /\ Len(p) = 1 /\ r \in Seq(S) /\ Len(r) = 1 /\ p[1] = x /\ r[1] = y
  OBVIOUS
<1>2. v \in Seq(S) /\ Len(v) = 2 /\ v[1] = x /\ v[2] = y
  OBVIOUS
<1> HIDE DEF S, p, r, v
<1>3. /\ u \in Seq(S) /\ Len(u) = Len(p) + Len(r)
      /\ \A k \in 1..(Len(p) + Len(r)) : u[k] = IF k <= Len(p) THEN p[k] ELSE r[k - Len(p)]
  BY <1>1, ConcatProperties
<1>4. Len(u) = 2 /\ u[1] = x /\ u[2] = y
  BY <1>1, <1>3
<1> HIDE DEF u
<1>5. \A k \in 1..2 : u[k] = v[k]
  <2>1. \A k \in 1..2 : k = 1 \/ k = 2
    OBVIOUS
  <2> QED
    BY <1>2, <1>4, <2>1
<1>6. u = v
  BY <1>2, <1>3, <1>4, <1>5, SeqEqual
<1> QED
  BY <1>6 DEF u, v, p, r

LEMMA ParseNone == ParseTlvs(<<>>) = [is |-> "tlvs", list |-> <<>>]
<1>1. <<>> \in Seq(Bytes) /\ Len(<<>>) = 0
  OBVIOUS
<1>2. PICK w : ParseTlvs(<<>>) = w[1] /\ \A o \in 1..(Len(<<>>) + 1) : w[o] = Walked(<<>>, w, o)
  BY <1>1, ParseTlvsIs
<1>3. w[1] = Walked(<<>>, w, 1)
  BY <1>1, <1>2
<1> QED
  BY <1>1, <1>2, <1>3 DEF Walked

LEMMA ParseUnknown ==
  ASSUME NEW body \in Seq(Bytes), body # <<>>, body[1] \notin DOMAIN TlvSizes
  PROVE  ParseTlvs(body) = Failed
<1>1. PICK w : ParseTlvs(body) = w[1] /\ \A o \in 1..(Len(body) + 1) : w[o] = Walked(body, w, o)
  BY ParseTlvsIs
<1>2. 1 \in 1..(Len(body) + 1) /\ 1 # Len(body) + 1
  OBVIOUS
<1>3. w[1] = Walked(body, w, 1)
  BY <1>1, <1>2
<1> QED
  BY <1>1, <1>2, <1>3 DEF Walked

Record(v) == [tag |-> 33, value |-> <<v>>]

\* The walk over a one-byte record with more behind it that parses.
LEMMA WalkedRecord ==
  ASSUME NEW body \in Seq(Bytes), NEW o \in 1..Len(body), body[o] = 33, o + 1 <= Len(body),
         NEW w, NEW list, w[o + 2] = [is |-> "tlvs", list |-> list]
  PROVE  Walked(body, w, o) = [is |-> "tlvs", list |-> <<Record(body[o + 1])>> \o list]
<1> DEFINE L == Len(body)
<1>1. L \in Nat /\ o # L + 1
  OBVIOUS
<1>2. body[o] \in DOMAIN TlvSizes /\ TlvSizes[body[o]] = 1 /\ ~(o + 1 > L)
  BY SizesAre
<1>3. o + 1 + 1 = o + 2 /\ (o + 2) - 1 = o + 1
  OBVIOUS
<1>4. SubSeq(body, o + 1, o + 1) = <<body[o + 1]>>
  <2>1. o + 1 \in 1..Len(body)
    OBVIOUS
  <2> QED
    BY <2>1, Single
<1>5. w[o + 2] # Failed /\ w[o + 2].list = list
  BY DEF Failed
<1>6. Walked(body, w, o) =
        [is |-> "tlvs", list |-> <<[tag |-> body[o], value |-> SubSeq(body, o + 1, o + 1)]>> \o list]
  BY <1>1, <1>2, <1>3, <1>5 DEF Walked
<1> QED
  BY <1>4, <1>6 DEF Record

LEMMA ParseOne ==
  ASSUME NEW v \in Bytes
  PROVE  ParseTlvs(<<33, v>>) = [is |-> "tlvs", list |-> <<Record(v)>>]
<1> DEFINE b == <<33, v>>
<1>1. b \in Seq(Bytes) /\ Len(b) = 2 /\ b[1] = 33 /\ b[2] = v
  BY DEF Bytes
<1> HIDE DEF b
<1>2. PICK w : ParseTlvs(b) = w[1] /\ \A o \in 1..(Len(b) + 1) : w[o] = Walked(b, w, o)
  BY <1>1, ParseTlvsIs
<1>3. w[3] = [is |-> "tlvs", list |-> <<>>]
  BY <1>1, <1>2 DEF Walked
<1>4. w[1] = Walked(b, w, 1)
  BY <1>1, <1>2
<1>5. Walked(b, w, 1) = [is |-> "tlvs", list |-> <<Record(b[1 + 1])>> \o <<>>]
  <2>1. w[1 + 2] = [is |-> "tlvs", list |-> <<>>] /\ 1 \in 1..Len(b) /\ 1 + 1 <= Len(b)
    BY <1>1, <1>3
  <2> QED
    BY <1>1, <2>1, WalkedRecord, ZenonT(40)
<1>6. <<Record(v)>> \o <<>> = <<Record(v)>>
  OBVIOUS
<1> QED
  BY <1>1, <1>2, <1>4, <1>5, <1>6 DEF b

LEMMA ParseTwo ==
  ASSUME NEW v \in Bytes, NEW m \in Bytes
  PROVE  ParseTlvs(<<33, v, 33, m>>) = [is |-> "tlvs", list |-> <<Record(v), Record(m)>>]
<1> DEFINE b == <<33, v, 33, m>>
<1>1. b \in Seq(Bytes) /\ Len(b) = 4 /\ b[1] = 33 /\ b[2] = v /\ b[3] = 33 /\ b[4] = m
  BY DEF Bytes
<1> HIDE DEF b
<1>2. PICK w : ParseTlvs(b) = w[1] /\ \A o \in 1..(Len(b) + 1) : w[o] = Walked(b, w, o)
  BY <1>1, ParseTlvsIs
<1>3. w[5] = [is |-> "tlvs", list |-> <<>>]
  BY <1>1, <1>2 DEF Walked
<1>4. w[1] = Walked(b, w, 1) /\ w[3] = Walked(b, w, 3)
  BY <1>1, <1>2
<1>5. Walked(b, w, 3) = [is |-> "tlvs", list |-> <<Record(b[3 + 1])>> \o <<>>]
  <2>1. w[3 + 2] = [is |-> "tlvs", list |-> <<>>] /\ 3 \in 1..Len(b) /\ 3 + 1 <= Len(b)
    BY <1>1, <1>3
  <2> QED
    BY <1>1, <2>1, WalkedRecord, ZenonT(40)
<1>6. <<Record(m)>> \o <<>> = <<Record(m)>> /\ 3 + 1 = 4
  OBVIOUS
<1>7. Walked(b, w, 1) = [is |-> "tlvs", list |-> <<Record(b[1 + 1])>> \o <<Record(m)>>]
  <2>1. w[1 + 2] = [is |-> "tlvs", list |-> <<Record(m)>>] /\ 1 \in 1..Len(b) /\ 1 + 1 <= Len(b)
    BY <1>1, <1>4, <1>5, <1>6
  <2> QED
    BY <1>1, <2>1, WalkedRecord, ZenonT(40)
<1>8. <<Record(v)>> \o <<Record(m)>> = <<Record(v), Record(m)>>
  BY Joined
<1> QED
  BY <1>1, <1>2, <1>4, <1>7, <1>8 DEF b

-----------------------------------------------------------------------------
(* Requests.                                                               *)

LEMMA OneByteRecord ==
  ASSUME NEW n \in Nat
  PROVE  /\ n < 256 => EncodeTlv(33, n) = <<33, n>>
         /\ ~(n < 256) => EncodeTlv(33, n) = Raised
<1>1. TlvSizes[33] = 1 /\ Place[1] = 1
  BY SizesAre DEF Place
<1>2. n \div 1 = n
  OBVIOUS
<1>3. ASSUME n < 256 PROVE EncodeTlv(33, n) = <<33, n>>
  <2>1. n % 256 = n
    BY <1>3
  <2>2. Field(n, Place[1], 256) = n
    BY <1>1, <1>2, <2>1 DEF Field
  <2>3. BigEndian(n, 1) = [i \in 1..1 |-> Field(n, Place[1 - i + 1], 256)]
    BY DEF BigEndian
  <2>4. BigEndian(n, 1) = <<n>>
    <3>1. \A i \in 1..1 : i = 1 /\ 1 - i + 1 = 1
      OBVIOUS
    <3>2. [i \in 1..1 |-> Field(n, Place[1 - i + 1], 256)] = [i \in 1..1 |-> n]
      BY <2>2, <3>1
    <3>3. [i \in 1..1 |-> n] = <<n>>
      OBVIOUS
    <3> QED
      BY <2>3, <3>2, <3>3
  <2>5. <<33>> \o <<n>> = <<33, n>>
    BY Joined
  <2> QED
    BY <1>1, <1>2, <1>3, <2>4, <2>5 DEF EncodeTlv
<1>4. ASSUME ~(n < 256) PROVE EncodeTlv(33, n) = Raised
  BY <1>1, <1>2, <1>4 DEF EncodeTlv
<1> QED
  BY <1>3, <1>4

LEMMA FlattenNone == FlattenSeq(<<>>) = <<>>
<1>1. Len(<<>>) = 0
  OBVIOUS
<1> QED
  BY <1>1 DEF FlattenSeq

LEMMA FlattenOne ==
  ASSUME NEW s
  PROVE  FlattenSeq(<<s>>) = s
<1> DEFINE q == <<s>>
           Step(g) == [i \in 1..Len(q) |-> IF i = 1 THEN q[i] ELSE g[i - 1] \o q[i]]
           c == CHOOSE g : g = Step(g)
           g1 == [i \in 1..1 |-> s]
<1>1. Len(q) = 1 /\ q[1] = s
  OBVIOUS
<1>2. FlattenSeq(q) = c[Len(q)]
  BY <1>1 DEF FlattenSeq
<1>3. g1 = Step(g1)
  BY <1>1
<1>4. c = Step(c)
  BY <1>3
<1>5. c[1] = s
  <2> HIDE DEF c
  <2> QED
    BY <1>1, <1>4
<1> QED
  BY <1>1, <1>2, <1>5

LEMMA FlattenTwo ==
  ASSUME NEW s, NEW t
  PROVE  FlattenSeq(<<s, t>>) = s \o t
<1> DEFINE q == <<s, t>>
           Step(g) == [i \in 1..Len(q) |-> IF i = 1 THEN q[i] ELSE g[i - 1] \o q[i]]
           c == CHOOSE g : g = Step(g)
           g2 == [i \in 1..2 |-> IF i = 1 THEN s ELSE s \o t]
<1>1. Len(q) = 2 /\ q[1] = s /\ q[2] = t
  OBVIOUS
<1>2. FlattenSeq(q) = c[Len(q)]
  BY <1>1 DEF FlattenSeq
<1> HIDE DEF q
<1>3. g2 = Step(g2)
  <2>1. g2[1] = s /\ g2[2] = s \o t
    OBVIOUS
  <2>2. \A i \in 1..2 : i = 1 \/ (i = 2 /\ i - 1 = 1)
    OBVIOUS
  <2>3. \A i \in 1..2 : g2[i] = IF i = 1 THEN q[i] ELSE g2[i - 1] \o q[i]
    BY <1>1, <2>1, <2>2
  <2> QED
    BY <1>1, <2>3
<1>4. c = Step(c)
  BY <1>3, ZenonT(40)
<1>5. c[1] = s /\ c[2] = c[1] \o t
  <2> HIDE DEF c
  <2> QED
    BY <1>1, <1>4
<1> QED
  BY <1>1, <1>2, <1>5 DEF q

\* What a balance makes of the records of a request.
Records(opcode, args) ==
  LET tlvs == ParseTlvs(args)
  IN  IF tlvs = Failed THEN Failed
      ELSE [opcode |-> opcode, to |-> 9, args |-> [i \in DOMAIN tlvs.list |-> tlvs.list[i].value[1]]]

\* A frame of the host reads back at the balance (build_command).
LEMMA BuildReads ==
  ASSUME NEW opcode \in Bytes, NEW args \in Seq(Bytes), Len(args) <= 4
  PROVE  /\ BuildCommand(opcode, args) \in Seq(Bytes)
         /\ BuildCommand(opcode, args) # Raised
         /\ ReadRequest(BuildCommand(opcode, args)) = Records(opcode, args)
<1> DEFINE n == Len(args)
           h == <<HostSbn, BalanceSbn, opcode>>
           p == h \o args
           q == <<Len(p) + 1>>
           u == q \o p
           b == Append(u, Checksum(u))
<1>1. n \in Nat /\ n <= 4
  OBVIOUS
<1>2. h \in Seq(Bytes) /\ Len(h) = 3 /\ h[1] = 1 /\ h[2] = 9 /\ h[3] = opcode
  <2>1. 1 \in Bytes /\ 9 \in Bytes
    BY DEF Bytes
  <2> QED
    BY <2>1 DEF HostSbn, BalanceSbn
<1> HIDE DEF h
<1>3. /\ p \in Seq(Bytes) /\ Len(p) = 3 + n
      /\ \A k \in 1..(3 + n) : p[k] = IF k <= 3 THEN h[k] ELSE args[k - 3]
  BY <1>2, HeadedBy
<1> HIDE DEF p
<1>4. q \in Seq(Bytes) /\ Len(q) = 1 /\ q[1] = n + 4
  <2>1. Len(p) + 1 = n + 4
    BY <1>1, <1>3
  <2>2. n + 4 \in Bytes
    <3> HIDE DEF n
    <3> QED
      BY <1>1 DEF Bytes
  <2> QED
    BY <2>1, <2>2
<1> HIDE DEF q
<1>5. /\ u \in Seq(Bytes) /\ Len(u) = Len(q) + Len(p)
      /\ \A k \in 1..(Len(q) + Len(p)) : u[k] = IF k <= Len(q) THEN q[k] ELSE p[k - Len(q)]
  BY <1>3, <1>4, ConcatProperties, ZenonT(40)
<1>6. Len(q) + Len(p) = n + 4
  BY <1>1, <1>3, <1>4
<1> HIDE DEF u, n
<1>7. u[1] = n + 4 /\ \A k \in 2..(n + 4) : u[k] = p[k - 1]
  <2>1. \A k \in 2..(n + 4) : k \in 1..(n + 4) /\ ~(k <= 1)
    BY <1>1
  <2>2. 1 \in 1..(n + 4)
    BY <1>1
  <2> QED
    BY <1>4, <1>5, <1>6, <2>1, <2>2
<1>8. p[2] = 9 /\ p[3] = opcode /\ \A k \in 4..(n + 3) : p[k] = args[k - 3]
  <2>1. 2 \in 1..(3 + n) /\ 3 \in 1..(3 + n)
    BY <1>1
  <2>2. \A k \in 4..(n + 3) : k \in 1..(3 + n) /\ ~(k <= 3)
    BY <1>1
  <2> QED
    BY <1>2, <1>3, <2>1, <2>2
<1>9. u[3] = 9 /\ u[4] = opcode /\ \A k \in 5..(n + 4) : u[k] = args[k - 4]
  <2>1. 3 \in 2..(n + 4) /\ 4 \in 2..(n + 4)
    BY <1>1
  <2>2. \A k \in 5..(n + 4) : k \in 2..(n + 4) /\ k - 1 \in 4..(n + 3) /\ (k - 1) - 3 = k - 4
    BY <1>1
  <2> QED
    BY <1>7, <1>8, <2>1, <2>2
<1>10. Checksum(u) = SumOf(u) /\ SumOf(u) \in Bytes
  BY <1>5, ChecksumIsSum
<1>11. /\ b \in Seq(Bytes) /\ Len(b) = n + 5
       /\ \A k \in 1..(n + 4) : b[k] = u[k]
       /\ Front(b) = u /\ Last(b) = SumOf(u)
  BY <1>1, <1>5, <1>6, <1>10, FrontOf
<1>12. ~(Len(p) + 1 > 255)
  BY <1>1, <1>3 DEF n
<1>13. BuildCommand(opcode, args) = b
  BY <1>12 DEF BuildCommand, b, u, q, p, h
<1> HIDE DEF b
<1>14. b[1] = n + 4 /\ b[3] = 9 /\ b[4] = opcode
  <2>1. 1 \in 1..(n + 4) /\ 3 \in 1..(n + 4) /\ 4 \in 1..(n + 4)
    BY <1>1
  <2> QED
    BY <1>7, <1>9, <1>11, <2>1
<1>15. SubSeq(b, 5, Len(b) - 1) = args
  <2> DEFINE s == SubSeq(b, 5, Len(b) - 1)
  <2>1. s \in Seq(Bytes) /\ Len(s) = n /\ \A k \in 1..n : s[k] = b[k + 4]
    BY <1>1, <1>11
  <2> HIDE DEF s
  <2>2. \A k \in 1..n : s[k] = args[k]
    <3> SUFFICES ASSUME NEW k \in 1..n PROVE s[k] = args[k]
      OBVIOUS
    <3>1. k + 4 \in 5..(n + 4) /\ k + 4 \in 1..(n + 4) /\ (k + 4) - 4 = k
      BY <1>1
    <3> QED
      BY <1>9, <1>11, <2>1, <3>1
  <2>3. s = args
    BY <2>1, <2>2, SeqEqual DEF n
  <2> QED
    BY <2>3 DEF s
<1>16. Len(b) >= 5 /\ b[1] = Len(b) - 1 /\ b # <<>>
  BY <1>1, <1>11, <1>14
<1>17. ReadRequest(b) = Records(opcode, args)
  BY <1>11, <1>14, <1>15, <1>16 DEF ReadRequest, Records
<1> QED
  BY <1>11, <1>13, <1>16, <1>17 DEF Raised

LEMMA OpcodesAre == \A c \in Commands : Opcode[c] \in Bytes
BY DEF Commands, Weights, Metrology, Texts, Blobs, Acks, Opcode, Bytes

LEMMA NoneRequested ==
  ASSUME NEW c \in Commands
  PROVE  /\ Request(c, <<>>) # Raised
         /\ Request(c, <<>>) \in Seq(Bytes)
         /\ ReadRequest(Request(c, <<>>)) = [opcode |-> Opcode[c], to |-> 9, args |-> <<>>]
<1> DEFINE t == [i \in DOMAIN <<>> |-> EncodeTlv(33, <<>>[i])]
<1>1. t = <<>>
  OBVIOUS
<1>2. ~\E i \in DOMAIN t : t[i] = Raised
  BY <1>1
<1>3. Request(c, <<>>) = BuildCommand(Opcode[c], FlattenSeq(t))
  BY <1>2 DEF Request
<1>4. FlattenSeq(t) = <<>>
  BY <1>1, FlattenNone
<1>5. <<>> \in Seq(Bytes) /\ Len(<<>>) <= 4
  OBVIOUS
<1>6. Records(Opcode[c], <<>>) = [opcode |-> Opcode[c], to |-> 9, args |-> <<>>]
  <2> DEFINE v == [is |-> "tlvs", list |-> <<>>]
  <2>1. ParseTlvs(<<>>) = v /\ v # Failed /\ v.list = <<>>
    BY ParseNone DEF Failed
  <2> HIDE DEF v
  <2>2. [i \in DOMAIN v.list |-> v.list[i].value[1]] = <<>>
    BY <2>1
  <2> QED
    BY <2>1, <2>2 DEF Records
<1> QED
  BY <1>3, <1>4, <1>5, <1>6, OpcodesAre, BuildReads

LEMMA OneRequested ==
  ASSUME NEW c \in Commands, NEW v \in Nat
  PROVE  /\ (Request(c, <<v>>) # Raised) = (v < 256)
         /\ v < 256 => /\ Request(c, <<v>>) \in Seq(Bytes)
                       /\ ReadRequest(Request(c, <<v>>)) = [opcode |-> Opcode[c], to |-> 9, args |-> <<v>>]
<1> DEFINE a == <<v>>
           t == [i \in DOMAIN a |-> EncodeTlv(33, a[i])]
<1>1. DOMAIN a = {1} /\ a[1] = v
  OBVIOUS
<1>2. DOMAIN t = {1} /\ t[1] = EncodeTlv(33, v)
  BY <1>1
<1>3. CASE v < 256
  <2>1. EncodeTlv(33, v) = <<33, v>> /\ <<33, v>> # Raised
    BY <1>3, OneByteRecord DEF Raised
  <2>2. t = <<<<33, v>>>>
    <3>1. t = [i \in {1} |-> <<33, v>>]
      BY <1>1, <2>1
    <3>2. {1} = 1..1
      OBVIOUS
    <3> QED
      BY <3>1, <3>2
  <2>3. ~\E i \in DOMAIN t : t[i] = Raised
    BY <1>2, <2>1
  <2>4. Request(c, a) = BuildCommand(Opcode[c], FlattenSeq(t))
    BY <2>3 DEF Request
  <2>5. FlattenSeq(t) = <<33, v>>
    BY <2>2, FlattenOne
  <2>6. <<33, v>> \in Seq(Bytes) /\ Len(<<33, v>>) <= 4 /\ v \in Bytes
    BY <1>3 DEF Bytes
  <2>7. Records(Opcode[c], <<33, v>>) = [opcode |-> Opcode[c], to |-> 9, args |-> a]
    <3> DEFINE r == [is |-> "tlvs", list |-> <<Record(v)>>]
    <3>1. ParseTlvs(<<33, v>>) = r /\ r # Failed /\ r.list = <<Record(v)>>
      BY <2>6, ParseOne DEF Failed
    <3> HIDE DEF r
    <3>2. [i \in DOMAIN r.list |-> r.list[i].value[1]] = a
      <4>1. Record(v).value[1] = v
        BY DEF Record
      <4>2. DOMAIN r.list = 1..1 /\ r.list[1] = Record(v)
        BY <3>1
      <4>3. [i \in DOMAIN r.list |-> r.list[i].value[1]] = [i \in 1..1 |-> v]
        BY <4>1, <4>2
      <4> QED
        BY <4>3
    <3> QED
      BY <3>1, <3>2 DEF Records
  <2> QED
    BY <1>3, <2>4, <2>5, <2>6, <2>7, OpcodesAre, BuildReads
<1>4. CASE ~(v < 256)
  <2>1. \E i \in DOMAIN t : t[i] = Raised
    BY <1>2, <1>4, OneByteRecord
  <2>2. Request(c, a) = Raised
    BY <2>1 DEF Request
  <2> QED
    BY <1>4, <2>2
<1> QED
  BY <1>3, <1>4

LEMMA JoinedPairs ==
  ASSUME NEW v \in Bytes, NEW m \in Bytes
  PROVE  <<33, v>> \o <<33, m>> = <<33, v, 33, m>>
<1> DEFINE p == <<33, v>>
           r == <<33, m>>
           u == p \o r
           x == <<33, v, 33, m>>
<1>1. p \in Seq(Bytes) /\ Len(p) = 2 /\ p[1] = 33 /\ p[2] = v
  BY DEF Bytes
<1>2. r \in Seq(Bytes) /\ Len(r) = 2 /\ r[1] = 33 /\ r[2] = m
  BY DEF Bytes
<1>3. x \in Seq(Bytes) /\ Len(x) = 4 /\ x[1] = 33 /\ x[2] = v /\ x[3] = 33 /\ x[4] = m
  BY DEF Bytes
<1> HIDE DEF p, r, x
<1>4. /\ u \in Seq(Bytes) /\ Len(u) = Len(p) + Len(r)
      /\ \A k \in 1..(Len(p) + Len(r)) : u[k] = IF k <= Len(p) THEN p[k] ELSE r[k - Len(p)]
  BY <1>1, <1>2, ConcatProperties, ZenonT(40)
<1>5. Len(u) = 4 /\ u[1] = 33 /\ u[2] = v /\ u[3] = 33 /\ u[4] = m
  BY <1>1, <1>2, <1>4
<1> HIDE DEF u
<1>6. \A k \in 1..4 : u[k] = x[k]
  <2>1. \A k \in 1..4 : k = 1 \/ k = 2 \/ k = 3 \/ k = 4
    OBVIOUS
  <2> QED
    BY <1>3, <1>5, <2>1
<1>7. u = x
  BY <1>3, <1>4, <1>5, <1>6, SeqEqual
<1> QED
  BY <1>7 DEF u, x, p, r

LEMMA TwoRequested ==
  ASSUME NEW c \in Commands, NEW v \in Nat, NEW m \in Nat
  PROVE  /\ (Request(c, <<v, m>>) # Raised) = (v < 256 /\ m < 256)
         /\ v < 256 /\ m < 256 =>
              /\ Request(c, <<v, m>>) \in Seq(Bytes)
              /\ ReadRequest(Request(c, <<v, m>>)) = [opcode |-> Opcode[c], to |-> 9, args |-> <<v, m>>]
<1> DEFINE a == <<v, m>>
           t == [i \in DOMAIN a |-> EncodeTlv(33, a[i])]
<1>1. DOMAIN a = {1, 2} /\ a[1] = v /\ a[2] = m
  OBVIOUS
<1>2. DOMAIN t = {1, 2} /\ t[1] = EncodeTlv(33, v) /\ t[2] = EncodeTlv(33, m)
  BY <1>1
<1>3. CASE v < 256 /\ m < 256
  <2>1. /\ EncodeTlv(33, v) = <<33, v>> /\ <<33, v>> # Raised
        /\ EncodeTlv(33, m) = <<33, m>> /\ <<33, m>> # Raised
    BY <1>3, OneByteRecord DEF Raised
  <2>2. t = <<<<33, v>>, <<33, m>>>>
    <3>1. DOMAIN t = {1, 2} /\ t[1] = <<33, v>> /\ t[2] = <<33, m>>
      BY <1>2, <2>1
    <3>2. DOMAIN <<<<33, v>>, <<33, m>>>> = {1, 2}
      OBVIOUS
    <3>3. t = [i \in {1, 2} |-> t[i]]
      BY <1>1
    <3>4. \A i \in {1, 2} : t[i] = <<<<33, v>>, <<33, m>>>>[i]
      BY <3>1
    <3> HIDE DEF t
    <3> QED
      BY <3>2, <3>3, <3>4
  <2>3. ~\E i \in DOMAIN t : t[i] = Raised
    BY <1>2, <2>1
  <2>4. Request(c, a) = BuildCommand(Opcode[c], FlattenSeq(t))
    BY <2>3 DEF Request
  <2>6. /\ <<33, v, 33, m>> \in Seq(Bytes) /\ Len(<<33, v, 33, m>>) <= 4
        /\ v \in Bytes /\ m \in Bytes
    BY <1>3 DEF Bytes
  <2>5. FlattenSeq(t) = <<33, v, 33, m>>
    <3>1. FlattenSeq(t) = <<33, v>> \o <<33, m>>
      BY <2>2, FlattenTwo
    <3>2. <<33, v>> \o <<33, m>> = <<33, v, 33, m>>
      BY <2>6, JoinedPairs
    <3> QED
      BY <3>1, <3>2
  <2>7. Records(Opcode[c], <<33, v, 33, m>>) = [opcode |-> Opcode[c], to |-> 9, args |-> a]
    <3> DEFINE l == <<Record(v), Record(m)>>
               r == [is |-> "tlvs", list |-> l]
    <3>1. ParseTlvs(<<33, v, 33, m>>) = r /\ r # Failed /\ r.list = l
      BY <2>6, ParseTwo DEF Failed
    <3>2. DOMAIN l = {1, 2} /\ l[1].value[1] = v /\ l[2].value[1] = m
      BY DEF Record
    <3> HIDE DEF r, l
    <3>3. [i \in DOMAIN r.list |-> r.list[i].value[1]] = a
      <4> DEFINE s == [i \in {1, 2} |-> l[i].value[1]]
      <4>1. [i \in DOMAIN r.list |-> r.list[i].value[1]] = s
        BY <3>1, <3>2
      <4>2. s = [i \in {1, 2} |-> s[i]] /\ \A i \in {1, 2} : s[i] = a[i]
        BY <1>1, <3>2
      <4>3. a = [i \in {1, 2} |-> a[i]]
        BY <1>1
      <4> HIDE DEF s, a
      <4>4. s = a
        BY <4>2, <4>3
      <4> QED
        BY <4>1, <4>4
    <3> QED
      BY <3>1, <3>3 DEF Records
  <2> QED
    BY <1>3, <2>4, <2>5, <2>6, <2>7, OpcodesAre, BuildReads
<1>4. CASE ~(v < 256 /\ m < 256)
  <2>1. \E i \in DOMAIN t : t[i] = Raised
    BY <1>2, <1>4, OneByteRecord
  <2>2. Request(c, a) = Raised
    BY <2>1 DEF Request
  <2> QED
    BY <1>4, <2>2
<1> QED
  BY <1>3, <1>4

-----------------------------------------------------------------------------
(* Answers, and what the client makes of them.                             *)

\* Four bytes are a row of bytes.
LEMMA FourBytes ==
  ASSUME NEW f \in [1..4 -> 0..255]
  PROVE  f \in Seq(Bytes) /\ Len(f) = 4 /\ \A k \in 1..4 : f[k] \in 0..255
<1>1. f \in [1..4 -> Bytes]
  BY DEF Bytes
<1>2. f \in Seq(Bytes)
  <2>1. [1..4 -> Bytes] \in {[1..n -> Bytes] : n \in Nat}
    OBVIOUS
  <2> QED
    BY <1>1, <2>1, SeqDef
<1>3. Len(f) = 4
  BY <1>1, <1>2
<1> QED
  BY <1>2, <1>3

LEMMA FourEqual ==
  ASSUME NEW f \in Seq(Bytes), Len(f) = 4, NEW g \in Seq(Bytes), Len(g) = 4,
         f[1] = g[1], f[2] = g[2], f[3] = g[3], f[4] = g[4]
  PROVE  f = g
<1>1. \A k \in 1..4 : k = 1 \/ k = 2 \/ k = 3 \/ k = 4
  OBVIOUS
<1>2. \A k \in 1..4 : f[k] = g[k]
  BY <1>1
<1> QED
  BY <1>2, SeqEqual

LEMMA PrefixIs ==
  ASSUME NEW s \in Seq(Bytes), NEW t \in Seq(Bytes), IsPrefix(s, t)
  PROVE  Len(s) <= Len(t) /\ \A k \in 1..Len(s) : s[k] = t[k]
<1> DEFINE n == Len(s)
           u == SubSeq(s, 1, n)
           v == SubSeq(t, 1, n)
<1>1. n \in Nat /\ Len(t) \in Nat /\ n <= Len(t) /\ u = v
  BY DEF IsPrefix
<1>2. \A k \in 1..n : u[k] = s[k]
  BY <1>1
<1>3. \A k \in 1..n : v[k] = t[k]
  BY <1>1
<1> QED
  BY <1>1, <1>2, <1>3

LEMMA IsPrefixOf ==
  ASSUME NEW s \in Seq(Bytes), NEW t \in Seq(Bytes)
  PROVE  IsPrefix(s, s \o t) /\ SubSeq(s \o t, 1, Len(s)) = s
<1>1. SubSeq(s \o t, 1, Len(s)) = s
  BY SplitOff
<1>2. SubSeq(s, 1, Len(s)) = s
  BY SubSeqFull
<1>3. Len(s) <= Len(s \o t)
  BY ConcatProperties, LenProperties
<1> QED
  BY <1>1, <1>2, <1>3 DEF IsPrefix

\* The rows of bytes that stand for no number.
LEMMA NoSensorIs == NoSensor \in Seq(Bytes) /\ Len(NoSensor) = 4
                      /\ NoSensor[1] = 127 /\ NoSensor[2] = 255 /\ NoSensor[3] = 255 /\ NoSensor[4] = 255
BY DEF NoSensor, Bytes

LEMMA OffScaleIs == OffScale \in Seq(Bytes) /\ Len(OffScale) = 5
                      /\ OffScale[1] = 127 /\ OffScale[2] = 255 /\ OffScale[3] = 255 /\ OffScale[4] = 255
                      /\ OffScale[5] = 255
BY DEF OffScale, Bytes

\* A body that begins with four bytes that are a number begins with neither.
LEMMA NumberSeen ==
  ASSUME NEW f \in [1..4 -> 0..255], f # NoSensor, NEW t \in Seq(Bytes)
  PROVE  /\ f \o t \in Seq(Bytes) /\ Len(f \o t) = 4 + Len(t)
         /\ \A k \in 1..Len(t) : (f \o t)[k + 4] = t[k]
         /\ SubSeq(f \o t, 1, 4) = f
         /\ ~IsPrefix(NoSensor, f \o t) /\ ~IsPrefix(OffScale, f \o t)
<1> DEFINE b == f \o t
           n == Len(t)
<1>1. f \in Seq(Bytes) /\ Len(f) = 4
  BY FourBytes
<1>2. /\ b \in Seq(Bytes) /\ Len(b) = 4 + n /\ n \in Nat
      /\ \A k \in 1..(4 + n) : b[k] = IF k <= 4 THEN f[k] ELSE t[k - 4]
  <2>1. /\ f \o t \in Seq(Bytes) /\ Len(f \o t) = Len(f) + Len(t)
        /\ \A k \in 1..(Len(f) + Len(t)) : (f \o t)[k] = IF k <= Len(f) THEN f[k] ELSE t[k - Len(f)]
    BY <1>1, ConcatProperties, ZenonT(40)
  <2> QED
    BY <1>1, <2>1
<1>3. SubSeq(b, 1, 4) = f
  BY <1>1, SplitOff
<1> HIDE DEF b, n
<1>4. \A k \in 1..n : b[k + 4] = t[k]
  <2> SUFFICES ASSUME NEW k \in 1..n PROVE b[k + 4] = t[k]
    OBVIOUS
  <2>1. k + 4 \in 1..(4 + n) /\ ~(k + 4 <= 4) /\ (k + 4) - 4 = k
    BY <1>2
  <2> QED
    BY <1>2, <2>1
<1>5. b[1] = f[1] /\ b[2] = f[2] /\ b[3] = f[3] /\ b[4] = f[4]
  BY <1>2
<1>6. ASSUME b[1] = 127, b[2] = 255, b[3] = 255, b[4] = 255 PROVE FALSE
  <2>1. f = NoSensor
    <3> DEFINE s == NoSensor
    <3>1. s \in Seq(Bytes) /\ Len(s) = 4 /\ s[1] = 127 /\ s[2] = 255 /\ s[3] = 255 /\ s[4] = 255
      BY NoSensorIs
    <3> HIDE DEF s
    <3>2. f[1] = s[1] /\ f[2] = s[2] /\ f[3] = s[3] /\ f[4] = s[4]
      BY <1>5, <1>6, <3>1
    <3>3. f = s
      BY <1>1, <3>1, <3>2, FourEqual
    <3> QED
      BY <3>3 DEF s
  <2> QED
    BY <2>1
<1>7. ~IsPrefix(NoSensor, b)
  <2> SUFFICES ASSUME IsPrefix(NoSensor, b) PROVE FALSE
    OBVIOUS
  <2>1. \A k \in 1..4 : NoSensor[k] = b[k]
    <3> DEFINE s == NoSensor
    <3>1. s \in Seq(Bytes) /\ Len(s) = 4 /\ IsPrefix(s, b)
      BY NoSensorIs
    <3> HIDE DEF s
    <3>2. \A k \in 1..Len(s) : s[k] = b[k]
      BY <1>2, <3>1, PrefixIs
    <3> QED
      BY <3>1, <3>2 DEF s
  <2> QED
    BY <1>6, <2>1, NoSensorIs
<1>8. ~IsPrefix(OffScale, b)
  <2> SUFFICES ASSUME IsPrefix(OffScale, b) PROVE FALSE
    OBVIOUS
  <2>1. \A k \in 1..5 : OffScale[k] = b[k]
    <3> DEFINE s == OffScale
    <3>1. s \in Seq(Bytes) /\ Len(s) = 5 /\ IsPrefix(s, b)
      BY OffScaleIs
    <3> HIDE DEF s
    <3>2. \A k \in 1..Len(s) : s[k] = b[k]
      BY <1>2, <3>1, PrefixIs
    <3> QED
      BY <3>1, <3>2 DEF s
  <2> QED
    BY <1>6, <2>1, OffScaleIs
<1> QED
  BY <1>2, <1>3, <1>4, <1>7, <1>8 DEF b, n

LEMMA OneMore ==
  ASSUME NEW f \in [1..4 -> 0..255], NEW e \in Bytes
  PROVE  Append(f, e) = f \o <<e>> /\ <<e>> \in Seq(Bytes) /\ Len(<<e>>) = 1
<1>1. f \in Seq(Bytes)
  BY FourBytes
<1> QED
  BY <1>1, AppendIsConcat

\* What the last three bytes of a weight say of r.
Tail3(r) == <<16 * r.decimals, SignBits(r.sign) + UnitId(r.unit), IF r.stable THEN 64 ELSE 0>>

LEMMA TailSays ==
  ASSUME NEW r \in Readings
  PROVE  /\ Tail3(r) \in Seq(Bytes) /\ Len(Tail3(r)) = 3
         /\ Tail3(r)[1] \div 16 = r.decimals
         /\ SignOf(Tail3(r)[2] \div 64) = r.sign
         /\ UnitOf(Tail3(r)[2] % 64) = r.unit
         /\ Bit(Tail3(r)[3], 64) = r.stable
<1> DEFINE d == r.decimals
           s == SignBits(r.sign)
           u == UnitId(r.unit)
           z == IF r.stable THEN 64 ELSE 0
<1>1. /\ d \in 0..15 /\ r.sign \in {"zero", "positive", "negative"} /\ r.unit \in {"g", "kg", "mg", "N"}
      /\ r.stable \in BOOLEAN
  BY DEF Readings
<1>2. /\ s \in {0, 64, 128} /\ SignOf(s \div 64) = r.sign
      /\ u \in {2, 3, 13, 23} /\ UnitOf(u) = r.unit
      /\ z \in {0, 64}
  <2>1. s \in {0, 64, 128} /\ SignOf(s \div 64) = r.sign
    <3>1. CASE r.sign = "zero"
      <4>1. s = 0 /\ 0 \div 64 = 0
        BY <3>1 DEF SignBits
      <4> QED
        BY <3>1, <4>1 DEF SignOf
    <3>2. CASE r.sign = "positive"
      <4>1. s = 64 /\ 64 \div 64 = 1
        BY <3>2 DEF SignBits
      <4> QED
        BY <3>2, <4>1 DEF SignOf
    <3>3. CASE r.sign = "negative"
      <4>1. s = 128 /\ 128 \div 64 = 2
        BY <3>3 DEF SignBits
      <4> QED
        BY <3>3, <4>1 DEF SignOf
    <3> QED
      BY <1>1, <3>1, <3>2, <3>3
  <2>2. u \in {2, 3, 13, 23} /\ UnitOf(u) = r.unit
    BY <1>1 DEF UnitId, UnitOf
  <2> QED
    BY <2>1, <2>2
<1>3. (s + u) \div 64 = s \div 64 /\ (s + u) % 64 = u /\ s + u \in 0..255
  <2> HIDE DEF s, u
  <2> QED
    BY <1>2
<1>4. 16 * d \in 0..255 /\ (16 * d) \div 16 = d /\ z \in 0..255
  <2> HIDE DEF d, z
  <2> QED
    BY <1>1, <1>2
<1>5. Bit(z, 64) = r.stable
  <2>1. 64 \div 64 = 1 /\ 0 \div 64 = 0 /\ 1 % 2 = 1 /\ 0 % 2 = 0
    OBVIOUS
  <2>2. CASE r.stable
    <3>1. Bit(z, 64)
      BY <2>1, <2>2 DEF Bit, Field
    <3> QED
      BY <2>2, <3>1
  <2>3. CASE ~r.stable
    <3>1. ~Bit(z, 64)
      BY <2>1, <2>3 DEF Bit, Field
    <3>2. Bit(z, 64) \in BOOLEAN
      BY DEF Bit
    <3> QED
      BY <1>1, <2>3, <3>1, <3>2
  <2> QED
    BY <2>2, <2>3
<1>6. 16 * d \in Bytes /\ s + u \in Bytes /\ z \in Bytes
  BY <1>3, <1>4 DEF Bytes
<1>7. Tail3(r) = <<16 * d, s + u, z>>
  BY DEF Tail3
<1> HIDE DEF d, s, u, z
<1>8. /\ Tail3(r) \in Seq(Bytes) /\ Len(Tail3(r)) = 3
      /\ Tail3(r)[1] = 16 * d /\ Tail3(r)[2] = s + u /\ Tail3(r)[3] = z
  BY <1>6, <1>7
<1> QED
  BY <1>2, <1>3, <1>4, <1>5, <1>8 DEF d

LEMMA EightBytes ==
  ASSUME NEW h \in Seq(Bytes), Len(h) = 5, NEW t \in Seq(Bytes), Len(t) = 3
  PROVE  /\ h \o t \in Seq(Bytes) /\ Len(h \o t) = 8
         /\ (h \o t)[6] = t[1] /\ (h \o t)[7] = t[2] /\ (h \o t)[8] = t[3]
<1> DEFINE b == h \o t
<1>1. /\ h \o t \in Seq(Bytes) /\ Len(h \o t) = Len(h) + Len(t)
      /\ \A k \in 1..(Len(h) + Len(t)) : (h \o t)[k] = IF k <= Len(h) THEN h[k] ELSE t[k - Len(h)]
  BY ConcatProperties
<1>2. b \in Seq(Bytes) /\ Len(b) = 8 /\ \A k \in 1..8 : b[k] = IF k <= 5 THEN h[k] ELSE t[k - 5]
  BY <1>1
<1> HIDE DEF b
<1>3. b[6] = t[1] /\ b[7] = t[2] /\ b[8] = t[3]
  <2>1. 6 \in 1..8 /\ 7 \in 1..8 /\ 8 \in 1..8 /\ 6 - 5 = 1 /\ 7 - 5 = 2 /\ 8 - 5 = 3
    OBVIOUS
  <2> QED
    BY <1>2, <2>1
<1> QED
  BY <1>2, <1>3 DEF b

LEMMA ReadingIs ==
  ASSUME NEW r \in Readings
  PROVE  r = [is |-> "reading", value |-> r.value, decimals |-> r.decimals, sign |-> r.sign,
              unit |-> r.unit, stable |-> r.stable]
BY DEF Readings

\* decode_measurement_body gives back the reading a balance put in its eight bytes.
LEMMA MeasurementReads ==
  ASSUME NEW r \in Readings, r.value # NoSensor
  PROVE  /\ MeasurementOf(r) \in Seq(Bytes) /\ Len(MeasurementOf(r)) = 8
         /\ Measurement(MeasurementOf(r)) = r
         /\ IsPrefix(NoSensor, MeasurementOf(r)) => IsPrefix(OffScale, MeasurementOf(r))
<1> DEFINE v == r.value
           t == Tail3(r)
           h == IF v = NoValue THEN OffScale ELSE Append(v, Last(v))
           b == h \o t
<1>1. /\ t \in Seq(Bytes) /\ Len(t) = 3 /\ t[1] \div 16 = r.decimals
      /\ SignOf(t[2] \div 64) = r.sign /\ UnitOf(t[2] % 64) = r.unit /\ Bit(t[3], 64) = r.stable
  BY TailSays
<1>2. MeasurementOf(r) = b
  BY DEF MeasurementOf, Tail3
<1>3. v \in [1..4 -> 0..255] \/ v = NoValue
  BY DEF Readings
<1> HIDE DEF t
<1>4. /\ h \in Seq(Bytes) /\ Len(h) = 5
      /\ (IsPrefix(OffScale, b) /\ v = NoValue)
           \/ (~IsPrefix(NoSensor, b) /\ ~IsPrefix(OffScale, b) /\ SubSeq(b, 1, 4) = v /\ v # NoValue)
  <2>1. CASE v = NoValue
    <3>1. h = OffScale /\ b = OffScale \o t
      BY <2>1
    <3>2. IsPrefix(OffScale, OffScale \o t)
      BY <1>1, OffScaleIs, IsPrefixOf
    <3> HIDE DEF b
    <3> QED
      BY <2>1, <3>1, <3>2, OffScaleIs
  <2>2. CASE v # NoValue
    <3> DEFINE e == Last(v)
               x == <<e>> \o t
    <3>1. v \in [1..4 -> 0..255] /\ v # NoSensor
      BY <1>3, <2>2
    <3> HIDE DEF v
    <3>2. v \in Seq(Bytes) /\ Len(v) = 4 /\ e \in Bytes
      <4>1. v \in Seq(Bytes) /\ Len(v) = 4 /\ \A k \in 1..4 : v[k] \in 0..255
        BY <3>1, FourBytes
      <4> QED
        BY <4>1 DEF Last, Bytes
    <3> HIDE DEF e
    <3>3. h = v \o <<e>> /\ <<e>> \in Seq(Bytes) /\ Len(<<e>>) = 1
      BY <2>2, <3>1, <3>2, OneMore DEF e
    <3>4. h \in Seq(Bytes) /\ Len(h) = 5
      <4>1. Len(v \o <<e>>) = Len(v) + Len(<<e>>) /\ v \o <<e>> \in Seq(Bytes)
        BY <3>2, <3>3, ConcatProperties
      <4>2. Len(v \o <<e>>) = 5
        BY <3>2, <3>3, <4>1
      <4> HIDE DEF h
      <4> QED
        BY <3>3, <4>1, <4>2
    <3>5. b = v \o x
      <4>1. (v \o <<e>>) \o t = v \o (<<e>> \o t)
        BY <1>1, <3>2, <3>3, ConcatAssociative
      <4> QED
        BY <3>3, <4>1
    <3>6. x \in Seq(Bytes)
      BY <1>1, <3>3, ConcatProperties
    <3> HIDE DEF x
    <3>7. SubSeq(v \o x, 1, 4) = v /\ ~IsPrefix(NoSensor, v \o x) /\ ~IsPrefix(OffScale, v \o x)
      BY <3>1, <3>6, NumberSeen
    <3> QED
      BY <2>2, <3>4, <3>5, <3>7
  <2> QED
    BY <2>1, <2>2
<1> HIDE DEF h
<1>5. b \in Seq(Bytes) /\ Len(b) = 8 /\ b[6] = t[1] /\ b[7] = t[2] /\ b[8] = t[3]
  BY <1>1, <1>4, EightBytes
<1> HIDE DEF b
<1>6. (IF IsPrefix(OffScale, b) THEN NoValue ELSE SubSeq(b, 1, 4)) = v
  BY <1>4
<1> HIDE DEF v
<1>7. Measurement(b) = [is |-> "reading", value |-> v, decimals |-> r.decimals, sign |-> r.sign,
                        unit |-> r.unit, stable |-> r.stable]
  BY <1>1, <1>5, <1>6 DEF Measurement
<1>8. Measurement(b) = r
  BY <1>7, ReadingIs DEF v
<1> QED
  BY <1>2, <1>4, <1>5, <1>8

StatusBody(t) == <<0, 0, 129, t[1], t[2], 16, 0, 5>>
StatusMeant(t) ==
  [is |-> "status", stable |-> t[3] = "STABLE", state |-> t[3],
   adc_trusted |-> t[4], isocal_due |-> t[5], sequence |-> 5]

\* The bits of the state and status bytes that a balance sends.
LEMMA StatusBits ==
  /\ Bit(136, 128) = TRUE /\ Bit(136, 8) = TRUE /\ Bit(24, 8) = TRUE /\ Bit(24, 16) = TRUE
  /\ Bit(128, 128) = TRUE /\ Bit(128, 8) = FALSE /\ Bit(8, 8) = TRUE /\ Bit(8, 16) = FALSE
  /\ Bit(130, 128) = TRUE /\ Bit(130, 8) = FALSE
  /\ Bit(132, 128) = TRUE /\ Bit(132, 8) = FALSE /\ Bit(0, 8) = FALSE /\ Bit(0, 16) = FALSE
  /\ Bit(8, 128) = FALSE /\ Bit(0, 128) = FALSE
BY DEF Bit, Field

LEMMA StatusReads ==
  ASSUME NEW t \in StatusTable
  PROVE  /\ StatusBody(t) \in Seq(Bytes) /\ Len(StatusBody(t)) = 8 /\ StatusBody(t)[1] = 0
         /\ Status(StatusBody(t)) = StatusMeant(t)
<1> DEFINE b == StatusBody(t)
<1>1. /\ t[1] \in Bytes /\ t[2] \in Bytes
      /\ 0 \in Bytes /\ 129 \in Bytes /\ 16 \in Bytes /\ 5 \in Bytes
  <2>1. t[1] \in {136, 128, 130, 132, 8, 0} /\ t[2] \in {24, 8, 0, 32}
    <3>1. t = <<136, 24, "STABLE", {TRUE}, {TRUE}>> => t[1] = 136 /\ t[2] = 24
      OBVIOUS
    <3>2. t = <<128, 8, "UNSTABLE", {TRUE}, {FALSE}>> => t[1] = 128 /\ t[2] = 8
      OBVIOUS
    <3>3. t = <<130, 8, "OVERLOAD", {TRUE}, {FALSE}>> => t[1] = 130 /\ t[2] = 8
      OBVIOUS
    <3>4. t = <<132, 0, "UNDERLOAD", {FALSE}, {FALSE}>> => t[1] = 132 /\ t[2] = 0
      OBVIOUS
    <3>5. t = <<8, 32, "STABLE", {}, {}>> => t[1] = 8 /\ t[2] = 32
      OBVIOUS
    <3>6. t = <<0, 0, "UNSTABLE", {}, {}>> => t[1] = 0 /\ t[2] = 0
      OBVIOUS
    <3> QED
      BY <3>1, <3>2, <3>3, <3>4, <3>5, <3>6 DEF StatusTable
  <2> QED
    BY <2>1 DEF Bytes
<1>2. /\ b \in Seq(Bytes) /\ Len(b) = 8 /\ b[1] = 0 /\ b[4] = t[1] /\ b[5] = t[2] /\ b[8] = 5
  BY <1>1 DEF StatusBody
<1> DEFINE B == [is |-> "block", stable |-> Bit(b[4], 8), overload |-> b[4] = 130,
                 underload |-> b[4] = 132,
                 adc_trusted |-> IF Bit(b[4], 128) THEN {Bit(b[5], 8)} ELSE {},
                 isocal_due |-> IF Bit(b[4], 128) THEN {Bit(b[5], 16)} ELSE {},
                 sequence |-> b[8]]
           Only(n, m) == {Bit(n, m)}
           yes == {TRUE}
           no == {FALSE}
<1> HIDE DEF b
<1>3. StatusBlock(b) = B
  BY <1>2 DEF StatusBlock
<1>4. B # Failed
  BY DEF Failed
<1>5. Status(b) = [is |-> "status", stable |-> B.stable, state |-> StateOf(B),
                   isocal_due |-> B.isocal_due, adc_trusted |-> B.adc_trusted,
                   sequence |-> B.sequence]
  BY <1>3, <1>4 DEF Status
<1>6. /\ B.stable = Bit(t[1], 8) /\ B.overload = (t[1] = 130) /\ B.underload = (t[1] = 132)
      /\ B.adc_trusted = IF Bit(t[1], 128) THEN Only(t[2], 8) ELSE {}
      /\ B.isocal_due = IF Bit(t[1], 128) THEN Only(t[2], 16) ELSE {}
      /\ B.sequence = 5
  BY <1>2
<1>7a. /\ Only(24, 8) = yes /\ Only(24, 16) = yes /\ Only(8, 8) = yes /\ Only(8, 16) = no
       /\ Only(0, 8) = no /\ Only(0, 16) = no
  BY StatusBits
<1> HIDE DEF B, Only, yes, no
<1>7. \A n, m \in Nat : Bit(n, m) \in BOOLEAN
  BY DEF Bit
<1>8. /\ B.stable = (t[3] = "STABLE") /\ StateOf(B) = t[3]
      /\ B.adc_trusted = t[4] /\ B.isocal_due = t[5]
  <2>1. CASE t = <<136, 24, "STABLE", {TRUE}, {TRUE}>>
    <3>1. t[1] = 136 /\ t[2] = 24 /\ t[3] = "STABLE" /\ t[4] = yes /\ t[5] = yes
      BY <2>1 DEF yes, no
    <3>2. B.adc_trusted = Only(24, 8) /\ B.isocal_due = Only(24, 16)
      BY <1>6, <3>1, StatusBits
    <3>3. B.stable = (t[3] = "STABLE") /\ StateOf(B) = t[3]
      BY <1>6, <1>7, <3>1, StatusBits DEF StateOf
    <3>4. B.adc_trusted = t[4] /\ B.isocal_due = t[5]
      BY <1>7a, <3>1, <3>2
    <3> QED
      BY <3>3, <3>4
  <2>2. CASE t = <<128, 8, "UNSTABLE", {TRUE}, {FALSE}>>
    <3>1. t[1] = 128 /\ t[2] = 8 /\ t[3] = "UNSTABLE" /\ t[4] = yes /\ t[5] = no
      BY <2>2 DEF yes, no
    <3>2. B.adc_trusted = Only(8, 8) /\ B.isocal_due = Only(8, 16)
      BY <1>6, <3>1, StatusBits
    <3>3. B.stable = (t[3] = "STABLE") /\ StateOf(B) = t[3]
      BY <1>6, <1>7, <3>1, StatusBits DEF StateOf
    <3>4. B.adc_trusted = t[4] /\ B.isocal_due = t[5]
      BY <1>7a, <3>1, <3>2
    <3> QED
      BY <3>3, <3>4
  <2>3. CASE t = <<130, 8, "OVERLOAD", {TRUE}, {FALSE}>>
    <3>1. t[1] = 130 /\ t[2] = 8 /\ t[3] = "OVERLOAD" /\ t[4] = yes /\ t[5] = no
      BY <2>3 DEF yes, no
    <3>2. B.adc_trusted = Only(8, 8) /\ B.isocal_due = Only(8, 16)
      BY <1>6, <3>1, StatusBits
    <3>3. B.stable = (t[3] = "STABLE") /\ StateOf(B) = t[3]
      BY <1>6, <1>7, <3>1, StatusBits DEF StateOf
    <3>4. B.adc_trusted = t[4] /\ B.isocal_due = t[5]
      BY <1>7a, <3>1, <3>2
    <3> QED
      BY <3>3, <3>4
  <2>4. CASE t = <<132, 0, "UNDERLOAD", {FALSE}, {FALSE}>>
    <3>1. t[1] = 132 /\ t[2] = 0 /\ t[3] = "UNDERLOAD" /\ t[4] = no /\ t[5] = no
      BY <2>4 DEF yes, no
    <3>2. B.adc_trusted = Only(0, 8) /\ B.isocal_due = Only(0, 16)
      BY <1>6, <3>1, StatusBits
    <3>3. B.stable = (t[3] = "STABLE") /\ StateOf(B) = t[3]
      BY <1>6, <1>7, <3>1, StatusBits DEF StateOf
    <3>4. B.adc_trusted = t[4] /\ B.isocal_due = t[5]
      BY <1>7a, <3>1, <3>2
    <3> QED
      BY <3>3, <3>4
  <2>5. CASE t = <<8, 32, "STABLE", {}, {}>>
    <3>1. t[1] = 8 /\ t[2] = 32 /\ t[3] = "STABLE" /\ t[4] = {} /\ t[5] = {}
      BY <2>5
    <3> QED
      BY <1>6, <1>7, <3>1, StatusBits DEF StateOf
  <2>6. CASE t = <<0, 0, "UNSTABLE", {}, {}>>
    <3>1. t[1] = 0 /\ t[2] = 0 /\ t[3] = "UNSTABLE" /\ t[4] = {} /\ t[5] = {}
      BY <2>6
    <3> QED
      BY <1>6, <1>7, <3>1, StatusBits DEF StateOf
  <2> QED
    BY <2>1, <2>2, <2>3, <2>4, <2>5, <2>6 DEF StatusTable
<1>9. Status(b) = StatusMeant(t)
  BY <1>5, <1>6, <1>8 DEF StatusMeant
<1> QED
  BY <1>2, <1>9 DEF b

\* decode of a typed float, and of a temperature, of which one value means no sensor.
LEMMA FloatReads ==
  ASSUME NEW f \in [1..4 -> 0..255], f # NoSensor, NEW e \in Bytes
  PROVE  /\ Append(f, e) \in Seq(Bytes) /\ Len(Append(f, e)) = 5
         /\ TypedFloat(Append(f, e)) = [is |-> "quantity", value |-> f]
         /\ Temperature(Append(f, e)) = [is |-> "temperature", value |-> f]
         /\ ~IsPrefix(NoSensor, Append(f, e))
<1> DEFINE b == Append(f, e)
<1>1. b = f \o <<e>> /\ <<e>> \in Seq(Bytes) /\ Len(<<e>>) = 1
  BY OneMore
<1>2. /\ b \in Seq(Bytes) /\ Len(b) = 4 + Len(<<e>>) /\ SubSeq(b, 1, 4) = f
      /\ ~IsPrefix(NoSensor, b)
  <2> HIDE DEF b
  <2> QED
    BY <1>1, NumberSeen
<1> HIDE DEF b
<1>3. Len(b) = 5
  BY <1>1, <1>2
<1>4. TypedFloat(b) = [is |-> "quantity", value |-> f]
  BY <1>2, <1>3 DEF TypedFloat
<1>5. Temperature(b) = [is |-> "temperature", value |-> f]
  BY <1>2, <1>4 DEF Temperature, Failed
<1> QED
  BY <1>2, <1>3, <1>4, <1>5 DEF b

LEMMA NoSensorReads ==
  /\ Append(NoSensor, 0) \in Seq(Bytes) /\ Len(Append(NoSensor, 0)) = 5
  /\ Temperature(Append(NoSensor, 0)) = [is |-> "temperature", value |-> NoValue]
<1>1. 0 \in Bytes
  BY DEF Bytes
<1>2. Append(NoSensor, 0) = NoSensor \o <<0>> /\ <<0>> \in Seq(Bytes) /\ NoSensor \in Seq(Bytes)
  BY <1>1, NoSensorIs, AppendIsConcat
<1>3. IsPrefix(NoSensor, Append(NoSensor, 0))
  BY <1>2, IsPrefixOf
<1>4. Append(NoSensor, 0) \in Seq(Bytes) /\ Len(Append(NoSensor, 0)) = 5
  <2> DEFINE s == NoSensor
  <2>1. s \in Seq(Bytes) /\ Len(s) = 4
    BY NoSensorIs
  <2> HIDE DEF s
  <2>2. Append(s, 0) \in Seq(Bytes) /\ Len(Append(s, 0)) = 5
    <3>1. Append(s, 0) \in Seq(Bytes) /\ Len(Append(s, 0)) = Len(s) + 1
      BY <1>1, <2>1, AppendProperties, ZenonT(40)
    <3> QED
      BY <2>1, <3>1
  <2> QED
    BY <2>2 DEF s
<1> QED
  BY <1>3, <1>4 DEF Temperature

\* read_parameter: the subtype is the tag of the first record.
LEMMA ParameterReads ==
  ASSUME NEW v \in Bytes, NEW m \in Bytes
  PROVE  /\ <<v, 33, m>> \in Seq(Bytes) /\ Len(<<v, 33, m>>) = 3
         /\ Parameter(33, <<v, 33, m>>) = [is |-> "entry", current |-> v, max |-> m]
<1>0. 33 \in Bytes
  BY DEF Bytes
<1>1. <<v, 33, m>> \in Seq(Bytes) /\ Len(<<v, 33, m>>) = 3
  BY <1>0
<1>2. <<33>> \o <<v, 33, m>> = <<33, v, 33, m>>
  <2> DEFINE p == <<33>>
             r == <<v, 33, m>>
             u == p \o r
             x == <<33, v, 33, m>>
  <2>1. p \in Seq(Bytes) /\ Len(p) = 1 /\ p[1] = 33
    BY <1>0
  <2>2. r \in Seq(Bytes) /\ Len(r) = 3 /\ r[1] = v /\ r[2] = 33 /\ r[3] = m
    BY <1>0
  <2>3. x \in Seq(Bytes) /\ Len(x) = 4 /\ x[1] = 33 /\ x[2] = v /\ x[3] = 33 /\ x[4] = m
    BY <1>0
  <2> HIDE DEF p, r, x
  <2>4. /\ u \in Seq(Bytes) /\ Len(u) = Len(p) + Len(r)
        /\ \A k \in 1..(Len(p) + Len(r)) : u[k] = IF k <= Len(p) THEN p[k] ELSE r[k - Len(p)]
    BY <2>1, <2>2, ConcatProperties, ZenonT(40)
  <2>5. Len(u) = 4 /\ u[1] = 33 /\ u[2] = v /\ u[3] = 33 /\ u[4] = m
    BY <2>1, <2>2, <2>4
  <2> HIDE DEF u
  <2>6. u = x
    BY <2>3, <2>4, <2>5, FourEqual
  <2> QED
    BY <2>6 DEF u, x, p, r
<1>3. ParseTlvs(<<33, v, 33, m>>) = [is |-> "tlvs", list |-> <<Record(v), Record(m)>>]
  BY ParseTwo
<1> DEFINE l == <<Record(v), Record(m)>>
           t == [is |-> "tlvs", list |-> l]
<1>4. ParseTlvs(<<33>> \o <<v, 33, m>>) = t
  BY <1>2, <1>3
<1>5. t # Failed /\ t.list = l
  BY DEF Failed
<1>6. Len(l) = 2 /\ \A i \in 1..2 : l[i].tag = 33
  <2>1. l[1].tag = 33 /\ l[2].tag = 33 /\ Len(l) = 2
    BY DEF Record
  <2>2. \A i \in 1..2 : i = 1 \/ i = 2
    OBVIOUS
  <2> HIDE DEF l
  <2> QED
    BY <2>1, <2>2
<1>7. l[1].value[1] = v /\ l[2].value[1] = m
  BY DEF Record
<1> HIDE DEF l, t
<1>8. Parameter(33, <<v, 33, m>>) = [is |-> "entry", current |-> v, max |-> m]
  BY <1>4, <1>5, <1>6, <1>7 DEF Parameter
<1> QED
  BY <1>1, <1>8

\* A counter and an address are one byte.
LEMMA OneByteReads ==
  ASSUME NEW v \in Bytes
  PROVE  /\ <<v>> \in Seq(Bytes) /\ Len(<<v>>) = 1
         /\ Counter(<<v>>) = [is |-> "counter", value |-> v]
         /\ Sbn(<<v>>) = [is |-> "sbn", value |-> v]
BY DEF Counter, Sbn

Signature == <<1, 9, 0, 4, 2, 6, 0, 7, 1>>
Counters4 == <<1, 2, 3, 0>>
CalBody(f) == f \o Signature \o Counters4

LEMMA CalPartsAre ==
  /\ Signature \in Seq(Bytes) /\ Len(Signature) = 9
  /\ Counters4 \in Seq(Bytes) /\ Len(Counters4) = 4
  /\ Counters4[1] = 1 /\ Counters4[2] = 2 /\ Counters4[3] = 3
<1>1. {0, 1, 2, 3, 4, 6, 7, 9} \subseteq Bytes
  BY DEF Bytes
<1> QED
  BY <1>1 DEF Signature, Counters4

LEMMA ZeroIs == <<0, 0, 0, 0>> \in Seq(Bytes) /\ Len(<<0, 0, 0, 0>>) = 4
                  /\ \A k \in 1..4 : <<0, 0, 0, 0>>[k] = 0
BY DEF Bytes

LEMMA RunIs ==
  ASSUME NEW b \in Seq(Bytes), Len(b) = 17
  PROVE  /\ SubSeq(b, 5, 13) \in Seq(Bytes) /\ Len(SubSeq(b, 5, 13)) = 9
         /\ \A k \in 1..9 : SubSeq(b, 5, 13)[k] = b[k + 4]
         /\ SubSeq(b, 14, 16) \in Seq(Bytes) /\ Len(SubSeq(b, 14, 16)) = 3
         /\ \A k \in 1..3 : SubSeq(b, 14, 16)[k] = b[k + 13]
<1> DEFINE L == Len(b)
<1>1. L = 17
  OBVIOUS
<1>2. 13 - 5 + 1 = 9 /\ 16 - 14 + 1 = 3 /\ 5 <= 13 + 1 /\ 14 <= 16 + 1
  OBVIOUS
<1>3. SubSeq(b, 5, 13) \in Seq(Bytes) /\ SubSeq(b, 14, 16) \in Seq(Bytes)
  <2>a. \A k \in 1..L : b[k] \in Bytes
    BY ElementOfSeq
  <2> HIDE DEF L
  <2>0. \A k \in 1..17 : b[k] \in Bytes
    BY <1>1, <2>a
  <2>1. \A k \in 5..13 : b[k] \in Bytes
    BY <2>0
  <2>2. \A k \in 14..16 : b[k] \in Bytes
    BY <2>0
  <2> QED
    BY <2>1, <2>2, SubSeqProperties
<1>4. Len(SubSeq(b, 5, 13)) = 9 /\ Len(SubSeq(b, 14, 16)) = 3
  BY <1>2
<1>5. \A k \in 1..9 : SubSeq(b, 5, 13)[k] = b[5 + k - 1] /\ 5 + k - 1 = k + 4
  BY <1>2
<1>6. \A k \in 1..3 : SubSeq(b, 14, 16)[k] = b[14 + k - 1] /\ 14 + k - 1 = k + 13
  BY <1>2
<1> QED
  BY <1>3, <1>4, <1>5, <1>6

\* read_cal_record: three runs of bytes, the first of which may be no value.
LEMMA CalRecordReads ==
  ASSUME NEW f \in [1..4 -> 0..255], f # NoSensor
  PROVE  /\ CalBody(f) \in Seq(Bytes) /\ Len(CalBody(f)) = 17
         /\ ~IsPrefix(NoSensor, CalBody(f))
         /\ CalRecord(CalBody(f)) =
              [is |-> "calrecord", value |-> IF f = <<0, 0, 0, 0>> THEN NoValue ELSE f,
               signature |-> Signature, counters |-> <<1, 2, 3>>]
<1> DEFINE s == Signature
           c == Counters4
           t == s \o c
           b == f \o t
           z == <<0, 0, 0, 0>>
<1>1. /\ s \in Seq(Bytes) /\ Len(s) = 9 /\ c \in Seq(Bytes) /\ Len(c) = 4
      /\ c[1] = 1 /\ c[2] = 2 /\ c[3] = 3
  BY CalPartsAre
<1>2. f \in Seq(Bytes) /\ Len(f) = 4
  BY FourBytes
<1>3. z \in Seq(Bytes) /\ Len(z) = 4
  BY ZeroIs
<1>3a. \A k \in 1..4 : z[k] = 0
  BY ZeroIs
<1> HIDE DEF z
<1> HIDE DEF s, c
<1>4. CalBody(f) = b
  <2>1. (f \o s) \o c = f \o (s \o c)
    <3>1. \A x, y, w \in Seq(Bytes) : (x \o y) \o w = x \o (y \o w)
      BY ConcatAssociative
    <3>2. s \in Seq(Bytes) /\ c \in Seq(Bytes)
      BY <1>1
    <3> QED
      BY <3>1, <3>2, <1>2
  <2>2. CalBody(f) = (f \o s) \o c
    BY DEF CalBody, s, c
  <2> QED
    BY <2>1, <2>2
<1>5. /\ t \in Seq(Bytes) /\ Len(t) = 13
      /\ \A k \in 1..13 : t[k] = IF k <= 9 THEN s[k] ELSE c[k - 9]
  <2>1. /\ s \o c \in Seq(Bytes) /\ Len(s \o c) = Len(s) + Len(c)
        /\ \A k \in 1..(Len(s) + Len(c)) : (s \o c)[k] = IF k <= Len(s) THEN s[k] ELSE c[k - Len(s)]
    BY <1>1, ConcatProperties, ZenonT(40)
  <2>2. Len(s) + Len(c) = 13
    BY <1>1
  <2> QED
    BY <1>1, <2>1, <2>2
<1> HIDE DEF t
<1>6. /\ f \o t \in Seq(Bytes) /\ Len(f \o t) = 4 + Len(t)
      /\ \A k \in 1..Len(t) : (f \o t)[k + 4] = t[k]
      /\ SubSeq(f \o t, 1, 4) = f
      /\ ~IsPrefix(NoSensor, f \o t)
  BY <1>5, NumberSeen
<1>7. /\ b \in Seq(Bytes) /\ Len(b) = 17 /\ \A k \in 1..13 : b[k + 4] = t[k]
      /\ SubSeq(b, 1, 4) = f /\ ~IsPrefix(NoSensor, b)
  <2>1. 4 + Len(t) = 17 /\ Len(t) = 13
    BY <1>5
  <2> QED
    BY <1>6, <2>1
<1>8. IsPrefix(z, b) = (f = z)
  <2>1. ASSUME f = z PROVE IsPrefix(z, b)
    BY <1>2, <1>5, <2>1, IsPrefixOf
  <2>2. ASSUME IsPrefix(z, b) PROVE f = z
    <3>1. SubSeq(z, 1, 4) = SubSeq(b, 1, 4)
      BY <1>3, <2>2 DEF IsPrefix
    <3>2. SubSeq(z, 1, 4) = z
      BY <1>3, SubSeqFull
    <3> HIDE DEF b
    <3> QED
      BY <1>7, <3>1, <3>2
  <2>3. IsPrefix(z, b) \in BOOLEAN
    BY DEF IsPrefix
  <2> QED
    BY <2>1, <2>2, <2>3
<1> HIDE DEF b
<1>9. SubSeq(b, 5, 13) = s
  <2> DEFINE u == SubSeq(b, 5, 13)
  <2>1. u \in Seq(Bytes) /\ Len(u) = 9 /\ \A k \in 1..9 : u[k] = b[k + 4]
    BY <1>7, RunIs
  <2> HIDE DEF u
  <2>2. \A k \in 1..9 : u[k] = s[k]
    <3> SUFFICES ASSUME NEW k \in 1..9 PROVE u[k] = s[k]
      OBVIOUS
    <3>1. k \in 1..13 /\ k <= 9
      OBVIOUS
    <3> QED
      BY <1>5, <1>7, <2>1, <3>1, SMTT(40)
  <2>3. u = s
    BY <1>1, <2>1, <2>2, SeqEqual
  <2> QED
    BY <2>3 DEF u
<1>10. SubSeq(b, 14, 16) = <<1, 2, 3>>
  <2> DEFINE u == SubSeq(b, 14, 16)
             v == <<1, 2, 3>>
  <2>1. u \in Seq(Bytes) /\ Len(u) = 3 /\ \A k \in 1..3 : u[k] = b[k + 13]
    BY <1>7, RunIs
  <2>2. v \in Seq(Bytes) /\ Len(v) = 3 /\ v[1] = 1 /\ v[2] = 2 /\ v[3] = 3
    BY DEF Bytes
  <2> HIDE DEF u, v
  <2>3. u[1] = 1 /\ u[2] = 2 /\ u[3] = 3
    <3>1. u[1] = b[14] /\ u[2] = b[15] /\ u[3] = b[16]
      BY <2>1
    <3>2. b[14] = t[10] /\ b[15] = t[11] /\ b[16] = t[12]
      <4>1. /\ 10 \in 1..13 /\ 11 \in 1..13 /\ 12 \in 1..13
            /\ 10 + 4 = 14 /\ 11 + 4 = 15 /\ 12 + 4 = 16
        OBVIOUS
      <4> QED
        BY <1>7, <4>1
    <3>3. t[10] = c[1] /\ t[11] = c[2] /\ t[12] = c[3]
      <4>1. /\ 10 \in 1..13 /\ 11 \in 1..13 /\ 12 \in 1..13
            /\ 10 - 9 = 1 /\ 11 - 9 = 2 /\ 12 - 9 = 3
        OBVIOUS
      <4> QED
        BY <1>5, <4>1
    <3> QED
      BY <1>1, <3>1, <3>2, <3>3
  <2>4. \A k \in 1..3 : u[k] = v[k]
    <3>1. \A k \in 1..3 : k = 1 \/ k = 2 \/ k = 3
      OBVIOUS
    <3> QED
      BY <2>2, <2>3, <3>1
  <2>5. u = v
    BY <2>1, <2>2, <2>4, SeqEqual
  <2> QED
    BY <2>5 DEF u, v
<1>11. CalRecord(b) = [is |-> "calrecord", value |-> IF f = z THEN NoValue ELSE f,
                       signature |-> s, counters |-> <<1, 2, 3>>]
  BY <1>7, <1>8, <1>9, <1>10 DEF CalRecord, z
<1> QED
  BY <1>4, <1>7, <1>11 DEF b, s, z

-----------------------------------------------------------------------------
TextBody == <<77, 83, 69>> \o [i \in 1..13 |-> 0]

LEMMA TextBodyIs ==
  /\ TextBody \in Seq(Bytes) /\ Len(TextBody) = 16
  /\ TextBody[1] = 77 /\ TextBody[2] = 83 /\ TextBody[3] = 69
  /\ \A k \in 4..16 : TextBody[k] = 0
<1> DEFINE h == <<77, 83, 69>>
           z == [i \in 1..13 |-> 0]
<1>1. h \in Seq(Bytes) /\ Len(h) = 3 /\ h[1] = 77 /\ h[2] = 83 /\ h[3] = 69
  BY DEF Bytes
<1>2. z \in Seq(Bytes) /\ Len(z) = 13 /\ \A k \in 1..13 : z[k] = 0
  <2>1. 0 \in Bytes
    BY DEF Bytes
  <2>2. z \in [1..13 -> Bytes]
    BY <2>1
  <2>3. z \in Seq(Bytes)
    <3>1. [1..13 -> Bytes] \in {[1..n -> Bytes] : n \in Nat}
      OBVIOUS
    <3> QED
      BY <2>2, <3>1, SeqDef
  <2> QED
    BY <2>2, <2>3
<1>3. TextBody = h \o z
  BY DEF TextBody
<1> HIDE DEF h, z
<1>4. /\ h \o z \in Seq(Bytes) /\ Len(h \o z) = 3 + Len(z)
      /\ \A k \in 1..(3 + Len(z)) : (h \o z)[k] = IF k <= 3 THEN h[k] ELSE z[k - 3]
  <2>1. h \in Seq(Bytes) /\ Len(h) = 3 /\ z \in Seq(Bytes)
    BY <1>1, <1>2
  <2> QED
    BY <2>1, HeadedBy
<1>5. /\ TextBody \in Seq(Bytes) /\ Len(TextBody) = 16
      /\ \A k \in 1..16 : TextBody[k] = IF k <= 3 THEN h[k] ELSE z[k - 3]
  <2>1. 3 + Len(z) = 16
    BY <1>2
  <2> QED
    BY <1>3, <1>4, <2>1
<1>6. \A k \in 4..16 : TextBody[k] = 0
  <2> SUFFICES ASSUME NEW k \in 4..16 PROVE TextBody[k] = 0
    OBVIOUS
  <2>1. k \in 1..16 /\ ~(k <= 3) /\ k - 3 \in 1..13
    OBVIOUS
  <2> QED
    BY <1>2, <1>5, <2>1
<1> QED
  BY <1>1, <1>5, <1>6

\* A field of sixteen bytes gives the text without its padding.
LEMMA TextReads == Blob(TextBody) = [is |-> "text", value |-> <<77, 83, 69>>]
<1> DEFINE b == TextBody
           blank(x) == x \in {0, 32}
           char(x) == IF x < 128 THEN x ELSE 65533
           ends == {i \in 1..Len(b) : \A j \in i..Len(b) : blank(b[j])}
           last == IF ends = {} THEN Len(b) ELSE (CHOOSE i \in ends : i - 1 \notin ends) - 1
           starts == {i \in 1..last : b[i] # 32}
           first == CHOOSE i \in starts : \A j \in starts : i <= j
           value == IF starts = {} THEN <<>>
                    ELSE [i \in 1..(last - first + 1) |-> char(b[first + i - 1])]
<1>1. Len(b) = 16 /\ b[1] = 77 /\ b[2] = 83 /\ b[3] = 69 /\ \A k \in 4..16 : b[k] = 0
  BY TextBodyIs
<1>2. Blob(b) = [is |-> "text", value |-> value]
  BY DEF Blob
<1> HIDE DEF b
<1>3. ends = 4..16
  <2>1. \A i \in 4..16 : i \in ends
    BY <1>1
  <2>2. ASSUME NEW i \in ends, i \notin 4..16 PROVE FALSE
    <3>1. i \in 1..16 /\ blank(b[3]) /\ i <= 3
      BY <1>1, <2>2
    <3> QED
      BY <1>1, <3>1
  <2>3. \A i \in 4..16 : i \in 1..16
    OBVIOUS
  <2> QED
    BY <2>1, <2>2, <2>3
<1> HIDE DEF ends
<1>4. last = 3
  <2> DEFINE m == CHOOSE i \in ends : i - 1 \notin ends
  <2>1. 4 \in ends /\ 4 - 1 \notin ends
    BY <1>3
  <2>2. m \in ends /\ m - 1 \notin ends
    BY <2>1
  <2> HIDE DEF m
  <2>3. m = 4
    BY <1>3, <2>2
  <2>4. last = m - 1
    BY <2>1 DEF m
  <2> QED
    BY <2>3, <2>4
<1> HIDE DEF last
<1>5. starts = 1..3
  <2>1. \A i \in 1..3 : i = 1 \/ i = 2 \/ i = 3
    OBVIOUS
  <2>2. b[1] # 32 /\ b[2] # 32 /\ b[3] # 32
    BY <1>1
  <2> QED
    BY <1>4, <2>1, <2>2
<1> HIDE DEF starts
<1>6. first = 1
  <2>1. 1 \in starts /\ \A j \in starts : 1 <= j
    BY <1>5
  <2>2. first \in starts /\ \A j \in starts : first <= j
    BY <2>1
  <2> HIDE DEF first
  <2> QED
    BY <1>5, <2>1, <2>2
<1> HIDE DEF first
<1> DEFINE v == [i \in 1..3 |-> char(b[1 + i - 1])]
<1>7. value = v
  <2>1. last - first + 1 = 3 /\ starts # {}
    BY <1>4, <1>5, <1>6
  <2> QED
    BY <1>6, <2>1
<1> HIDE DEF value
<1> DEFINE w == <<77, 83, 69>>
<1>8. v[1] = 77 /\ v[2] = 83 /\ v[3] = 69
  <2>1. 1 + 1 - 1 = 1 /\ 1 + 2 - 1 = 2 /\ 1 + 3 - 1 = 3
    OBVIOUS
  <2> QED
    BY <1>1, <2>1
<1>9. w = [i \in 1..3 |-> w[i]] /\ w[1] = 77 /\ w[2] = 83 /\ w[3] = 69
  OBVIOUS
<1>10. v = [i \in 1..3 |-> v[i]]
  OBVIOUS
<1> HIDE DEF v, w
<1>11. \A i \in 1..3 : v[i] = w[i]
  <2>1. \A i \in 1..3 : i = 1 \/ i = 2 \/ i = 3
    OBVIOUS
  <2> QED
    BY <1>8, <1>9, <2>1
<1>12. v = w
  BY <1>9, <1>10, <1>11
<1>13. Blob(b) = [is |-> "text", value |-> w]
  <2>1. value = w
    BY <1>7, <1>12
  <2> QED
    BY <1>2, <2>1
<1> QED
  BY <1>13 DEF b, w

FactoryBytes == <<0, 49, 128, 17, 101>>

LEMMA BlobsAre ==
  /\ FactoryBytes \in Seq(Bytes) /\ Len(FactoryBytes) = 5 /\ FactoryBytes[1] = 0
  /\ SoftwareBytes \in Seq(Bytes) /\ Len(SoftwareBytes) = 10 /\ SoftwareBytes[1] = 142
<1>1. FactoryBytes \in Seq(Bytes) /\ Len(FactoryBytes) = 5 /\ FactoryBytes[1] = 0
  BY DEF FactoryBytes, Bytes
<1>2. SoftwareBytes \in [1..10 -> Bytes] /\ SoftwareBytes[1] = 142
  <2>1. \A i \in 1..10 : (IF i = 1 THEN 142 ELSE i) \in Bytes
    BY DEF Bytes
  <2> QED
    BY <2>1 DEF SoftwareBytes
<1>3. SoftwareBytes \in Seq(Bytes)
  <2>1. [1..10 -> Bytes] \in {[1..n -> Bytes] : n \in Nat}
    OBVIOUS
  <2> QED
    BY <1>2, <2>1, SeqDef
<1>4. Len(SoftwareBytes) = 10
  BY <1>2, <1>3
<1> QED
  BY <1>1, <1>2, <1>3, <1>4

-----------------------------------------------------------------------------
(* Every command understands every answer it may get.                      *)

Frame(a) == [is |-> "frame", subtype |-> a.subtype, body |-> a.body]

BodySize(c) ==
  CASE c \in Weights \cup {"status"} -> 8
    [] c \in Metrology \cup {"temperature", "factory"} -> 5
    [] c = "parameter" -> 3
    [] c \in {"counter", "sbn"} -> 1
    [] c = "calrecord" -> 17
    [] c \in Texts -> 16
    [] c = "software" -> 10
    [] c \in Acks -> 0

\* What the answers to c, refusals apart, have in common.
Shaped(c, a) ==
  /\ a.subtype \in Bytes /\ a.subtype # 1
  /\ a.body \in Seq(Bytes) /\ Len(a.body) = BodySize(c)
  /\ IsPrefix(NoSensor, a.body) =>
       c \in Metrology \cup {"temperature"} \/ (c \in Weights /\ IsPrefix(OffScale, a.body))
  /\ a.subtype \notin DOMAIN TlvSizes \/ c = "parameter" \/ (c \in {"counter", "sbn"} /\ a.subtype = 33)

\* The client understands a.
Understood(c, a) == Shaped(c, a) /\ Decode(c, Frame(a)) = a.means

LEMMA NotSensor ==
  ASSUME NEW b \in Seq(Bytes), Len(b) < 4 \/ b[1] # 127
  PROVE  ~IsPrefix(NoSensor, b)
<1> SUFFICES ASSUME IsPrefix(NoSensor, b) PROVE FALSE
  OBVIOUS
<1> DEFINE s == NoSensor
<1>1. s \in Seq(Bytes) /\ Len(s) = 4 /\ s[1] = 127
  BY NoSensorIs
<1> HIDE DEF s
<1>2. Len(s) <= Len(b) /\ \A k \in 1..Len(s) : s[k] = b[k]
  BY <1>1, PrefixIs DEF s
<1>3. 1 \in 1..Len(s)
  BY <1>1
<1> QED
  BY <1>1, <1>2, <1>3

LEMMA TagsApart ==
  /\ 33 \in DOMAIN TlvSizes
  /\ \A t \in {72, 53, 81, 80, 69, 74, 0} : t \in Bytes /\ t # 1 /\ t \notin DOMAIN TlvSizes
  /\ 33 \in Bytes
BY SizesAre DEF Bytes

LEMMA SaysIs ==
  ASSUME NEW u, NEW b, NEW m
  PROVE  /\ Says(u, b, m).subtype = u /\ Says(u, b, m).body = b /\ Says(u, b, m).means = m
         /\ Frame(Says(u, b, m)).subtype = u /\ Frame(Says(u, b, m)).body = b
BY DEF Says, Frame

\* decode and BodySize, command by command.
LEMMA DecodeIs ==
  ASSUME NEW f
  PROVE  /\ \A c \in Weights : Decode(c, f) = Measurement(f.body) /\ BodySize(c) = 8
         /\ Decode("status", f) = Status(f.body) /\ BodySize("status") = 8
         /\ \A c \in Metrology : Decode(c, f) = TypedFloat(f.body) /\ BodySize(c) = 5
         /\ Decode("temperature", f) = Temperature(f.body) /\ BodySize("temperature") = 5
         /\ Decode("parameter", f) = Parameter(f.subtype, f.body) /\ BodySize("parameter") = 3
         /\ Decode("counter", f) = Counter(f.body) /\ BodySize("counter") = 1
         /\ Decode("sbn", f) = Sbn(f.body) /\ BodySize("sbn") = 1
         /\ Decode("calrecord", f) = CalRecord(f.body) /\ BodySize("calrecord") = 17
         /\ \A c \in Texts : Decode(c, f) = Blob(f.body) /\ BodySize(c) = 16
         /\ \A c \in Blobs : Decode(c, f) = RawBlob(f.body)
         /\ BodySize("factory") = 5 /\ BodySize("software") = 10
         /\ \A c \in Acks : Decode(c, f) = Done /\ BodySize(c) = 0
BY DEF Decode, BodySize, Weights, Metrology, Texts, Blobs, Acks

\* The answers of a balance, command by command.
LEMMA ProperIs ==
  /\ \A c \in Weights : \A a \in ProperAnswers(c) : \E r \in Shown : a = Says(72, MeasurementOf(r), r)
  /\ \A a \in ProperAnswers("status") : \E t \in StatusTable : a = Says(72, StatusBody(t), StatusMeant(t))
  /\ \A c \in Metrology : \A a \in ProperAnswers(c) :
       \E f \in Floats : a = Says(53, Append(f, 3), [is |-> "quantity", value |-> f])
  /\ \A a \in ProperAnswers("temperature") :
       \/ \E f \in Floats : a = Says(53, Append(f, 0), [is |-> "temperature", value |-> f])
       \/ a = Says(53, Append(NoSensor, 0), [is |-> "temperature", value |-> NoValue])
  /\ \A a \in ProperAnswers("parameter") :
       \E v \in {0, 4} : a = Says(33, <<v, 33, 4>>, [is |-> "entry", current |-> v, max |-> 4])
  /\ \A a \in ProperAnswers("counter") :
       \E v \in {0, 255} : a = Says(33, <<v>>, [is |-> "counter", value |-> v])
  /\ \A a \in ProperAnswers("sbn") : a = Says(33, <<9>>, [is |-> "sbn", value |-> 9])
  /\ \A a \in ProperAnswers("calrecord") :
       \E f \in Floats : a = Says(81, CalBody(f),
         [is |-> "calrecord", value |-> IF f = <<0, 0, 0, 0>> THEN NoValue ELSE f,
          signature |-> Signature, counters |-> <<1, 2, 3>>])
  /\ \A c \in Texts : \A a \in ProperAnswers(c) :
       a = Says(80, TextBody, [is |-> "text", value |-> <<77, 83, 69>>])
  /\ \A a \in ProperAnswers("factory") : a = Says(69, FactoryBytes, [is |-> "bytes", value |-> FactoryBytes])
  /\ \A a \in ProperAnswers("software") : a = Says(74, SoftwareBytes, [is |-> "bytes", value |-> SoftwareBytes])
  /\ \A c \in Acks : \A a \in ProperAnswers(c) : a = Says(0, <<>>, Done)
<1>1. \A c \in Weights : \A a \in ProperAnswers(c) : \E r \in Shown : a = Says(72, MeasurementOf(r), r)
  <2>1. \A c \in Weights : ProperAnswers(c) = {Says(72, MeasurementOf(r), r) : r \in Shown}
    BY ZenonT(40) DEF ProperAnswers, Weights, Metrology, Texts, Blobs, Acks
  <2> QED
    BY <2>1
<1>2. \A a \in ProperAnswers("status") : \E t \in StatusTable : a = Says(72, StatusBody(t), StatusMeant(t))
  <2>1. ProperAnswers("status") = {Says(72, StatusBody(t), StatusMeant(t)) : t \in StatusTable}
    BY DEF ProperAnswers, Weights, Metrology, Texts, Blobs, Acks, StatusBody, StatusMeant
  <2> QED
    BY <2>1
<1>3. \A c \in Metrology : \A a \in ProperAnswers(c) :
       \E f \in Floats : a = Says(53, Append(f, 3), [is |-> "quantity", value |-> f])
  <2>1. \A c \in Metrology : ProperAnswers(c) =
        {Says(53, Append(f, 3), [is |-> "quantity", value |-> f]) : f \in Floats}
    BY ZenonT(40) DEF ProperAnswers, Weights, Metrology, Texts, Blobs, Acks
  <2> QED
    BY <2>1
<1>4. \A a \in ProperAnswers("temperature") :
       \/ \E f \in Floats : a = Says(53, Append(f, 0), [is |-> "temperature", value |-> f])
       \/ a = Says(53, Append(NoSensor, 0), [is |-> "temperature", value |-> NoValue])
  <2>1. ProperAnswers("temperature") =
        {Says(53, Append(f, 0), [is |-> "temperature", value |-> f]) : f \in Floats}
          \cup {Says(53, Append(NoSensor, 0), [is |-> "temperature", value |-> NoValue])}
    BY DEF ProperAnswers, Weights, Metrology, Texts, Blobs, Acks
  <2> QED
    BY <2>1
<1>5. \A a \in ProperAnswers("parameter") :
       \E v \in {0, 4} : a = Says(33, <<v, 33, 4>>, [is |-> "entry", current |-> v, max |-> 4])
  <2>1. ProperAnswers("parameter") =
        {Says(33, <<v, 33, 4>>, [is |-> "entry", current |-> v, max |-> 4]) : v \in {0, 4}}
    BY DEF ProperAnswers, Weights, Metrology, Texts, Blobs, Acks
  <2> QED
    BY <2>1
<1>6. \A a \in ProperAnswers("counter") :
       \E v \in {0, 255} : a = Says(33, <<v>>, [is |-> "counter", value |-> v])
  <2>1. ProperAnswers("counter") = {Says(33, <<v>>, [is |-> "counter", value |-> v]) : v \in {0, 255}}
    BY DEF ProperAnswers, Weights, Metrology, Texts, Blobs, Acks
  <2> QED
    BY <2>1
<1>7. \A a \in ProperAnswers("sbn") : a = Says(33, <<9>>, [is |-> "sbn", value |-> 9])
  <2>1. ProperAnswers("sbn") = {Says(33, <<9>>, [is |-> "sbn", value |-> 9])}
    BY DEF ProperAnswers, Weights, Metrology, Texts, Blobs, Acks
  <2> QED
    BY <2>1
<1>8. \A a \in ProperAnswers("calrecord") :
       \E f \in Floats : a = Says(81, CalBody(f),
         [is |-> "calrecord", value |-> IF f = <<0, 0, 0, 0>> THEN NoValue ELSE f,
          signature |-> Signature, counters |-> <<1, 2, 3>>])
  <2>1. ProperAnswers("calrecord") =
        {Says(81, CalBody(f),
              [is |-> "calrecord", value |-> IF f = <<0, 0, 0, 0>> THEN NoValue ELSE f,
               signature |-> Signature, counters |-> <<1, 2, 3>>]) : f \in Floats}
    BY DEF ProperAnswers, Weights, Metrology, Texts, Blobs, Acks, CalBody, Signature, Counters4
  <2> QED
    BY <2>1
<1>9. \A c \in Texts : \A a \in ProperAnswers(c) :
       a = Says(80, TextBody, [is |-> "text", value |-> <<77, 83, 69>>])
  <2>1. \A c \in Texts : ProperAnswers(c) = {Says(80, TextBody, [is |-> "text", value |-> <<77, 83, 69>>])}
    BY SMTT(40) DEF ProperAnswers, Weights, Metrology, Texts, Blobs, Acks, TextBody
  <2> QED
    BY <2>1
<1>10. \A a \in ProperAnswers("factory") : a = Says(69, FactoryBytes, [is |-> "bytes", value |-> FactoryBytes])
  <2>1. ProperAnswers("factory") = {Says(69, FactoryBytes, [is |-> "bytes", value |-> FactoryBytes])}
    BY DEF ProperAnswers, Weights, Metrology, Texts, Blobs, Acks, FactoryBytes
  <2> QED
    BY <2>1
<1>11. \A a \in ProperAnswers("software") : a = Says(74, SoftwareBytes, [is |-> "bytes", value |-> SoftwareBytes])
  <2>1. ProperAnswers("software") = {Says(74, SoftwareBytes, [is |-> "bytes", value |-> SoftwareBytes])}
    BY DEF ProperAnswers, Weights, Metrology, Texts, Blobs, Acks
  <2> QED
    BY <2>1
<1>12. \A c \in Acks : \A a \in ProperAnswers(c) : a = Says(0, <<>>, Done)
  <2>1. \A c \in Acks : ProperAnswers(c) = {Says(0, <<>>, Done)}
    BY DEF ProperAnswers, Weights, Metrology, Texts, Blobs, Acks
  <2> QED
    BY <2>1
<1> QED
  BY <1>1, <1>2, <1>3, <1>4, <1>5, <1>6, <1>7, <1>8, <1>9, <1>10, <1>11, <1>12

LEMMA WeightUnderstood ==
  ASSUME NEW c \in Weights, NEW a \in ProperAnswers(c)
  PROVE  Understood(c, a)
<1>1. PICK r \in Shown : a = Says(72, MeasurementOf(r), r)
  BY ProperIs
<1>2. r \in Readings /\ r.value # NoSensor
  BY CodecsAssumption
<1>3. a.subtype = 72 /\ a.body = MeasurementOf(r) /\ a.means = r /\ Frame(a).body = MeasurementOf(r)
  BY <1>1, SaysIs
<1>4. Decode(c, Frame(a)) = r /\ BodySize(c) = 8
  BY <1>2, <1>3, DecodeIs, MeasurementReads
<1> QED
  BY <1>2, <1>3, <1>4, MeasurementReads, TagsApart DEF Understood, Shaped

LEMMA StatusUnderstood ==
  ASSUME NEW a \in ProperAnswers("status")
  PROVE  Understood("status", a)
<1>1. PICK t \in StatusTable : a = Says(72, StatusBody(t), StatusMeant(t))
  BY ProperIs
<1> DEFINE b == StatusBody(t)
           m == StatusMeant(t)
<1>2. b \in Seq(Bytes) /\ Len(b) = 8 /\ b[1] = 0 /\ Status(b) = m
  BY StatusReads
<1> HIDE DEF b, m
<1>3. a.subtype = 72 /\ a.body = b /\ a.means = m /\ Frame(a).body = b
  BY <1>1, SaysIs DEF b, m
<1>4. Decode("status", Frame(a)) = m /\ BodySize("status") = 8
  BY <1>2, <1>3, DecodeIs
<1>5. ~IsPrefix(NoSensor, b)
  <2>1. Len(b) < 4 \/ b[1] # 127
    BY <1>2
  <2> QED
    BY <1>2, <2>1, NotSensor
<1> QED
  BY <1>2, <1>3, <1>4, <1>5, TagsApart DEF Understood, Shaped

LEMMA NumbersAre ==
  /\ \A f \in Floats : f \in [1..4 -> 0..255] /\ f # NoSensor
  /\ 0 \in Bytes /\ 3 \in Bytes /\ 4 \in Bytes /\ 9 \in Bytes /\ 255 \in Bytes
<1>1. \A f \in Floats : f \in [1..4 -> 0..255] /\ f # NoSensor
  BY CodecsAssumption
<1>2. 0 \in Bytes /\ 3 \in Bytes /\ 4 \in Bytes /\ 9 \in Bytes /\ 255 \in Bytes
  BY DEF Bytes
<1> QED
  BY <1>1, <1>2

LEMMA MetrologyUnderstood ==
  ASSUME NEW c \in Metrology, NEW a \in ProperAnswers(c)
  PROVE  Understood(c, a)
<1>1. PICK f \in Floats : a = Says(53, Append(f, 3), [is |-> "quantity", value |-> f])
  BY ProperIs
<1> DEFINE b == Append(f, 3)
           m == [is |-> "quantity", value |-> f]
<1>2. b \in Seq(Bytes) /\ Len(b) = 5 /\ TypedFloat(b) = m
  BY NumbersAre, FloatReads
<1>a. a = Says(53, b, m)
  BY <1>1
<1> HIDE DEF b, m
<1>3. a.subtype = 53 /\ a.body = b /\ Frame(a).body = b /\ a.means = m
  BY <1>a, SaysIs
<1>4. Decode(c, Frame(a)) = a.means /\ BodySize(c) = 5
  BY <1>2, <1>3, DecodeIs
<1> QED
  BY <1>2, <1>3, <1>4, TagsApart DEF Understood, Shaped

LEMMA TemperatureUnderstood ==
  ASSUME NEW a \in ProperAnswers("temperature")
  PROVE  Understood("temperature", a)
<1>1. PICK b, m : /\ a = Says(53, b, m) /\ b \in Seq(Bytes) /\ Len(b) = 5
                  /\ Temperature(b) = m
  <2>1. CASE \E f \in Floats : a = Says(53, Append(f, 0), [is |-> "temperature", value |-> f])
    <3>1. PICK f \in Floats : a = Says(53, Append(f, 0), [is |-> "temperature", value |-> f])
      BY <2>1
    <3> DEFINE b == Append(f, 0)
    <3>2. b \in Seq(Bytes) /\ Len(b) = 5 /\ Temperature(b) = [is |-> "temperature", value |-> f]
      BY NumbersAre, FloatReads
    <3> QED
      BY <3>1, <3>2
  <2>2. CASE a = Says(53, Append(NoSensor, 0), [is |-> "temperature", value |-> NoValue])
    BY <2>2, NoSensorReads
  <2> QED
    BY <2>1, <2>2, ProperIs, ZenonT(40)
<1>2. a.subtype = 53 /\ a.body = b /\ Frame(a).body = b /\ a.means = m
  BY <1>1, SaysIs
<1>3. Decode("temperature", Frame(a)) = a.means /\ BodySize("temperature") = 5
  BY <1>1, <1>2, DecodeIs
<1>4. 53 \in Bytes /\ 53 # 1 /\ 53 \notin DOMAIN TlvSizes
  BY TagsApart
<1>5. a.subtype \in Bytes /\ a.subtype # 1 /\ a.subtype \notin DOMAIN TlvSizes
  BY <1>2, <1>4
<1>6. a.body \in Seq(Bytes) /\ Len(a.body) = BodySize("temperature")
  BY <1>1, <1>2, <1>3
<1>7. Shaped("temperature", a)
  BY <1>5, <1>6 DEF Shaped
<1> QED
  BY <1>3, <1>7 DEF Understood

\* An entry of the parameter table.
LEMMA EntryUnderstood ==
  ASSUME NEW a, NEW v \in Bytes, NEW m \in Bytes, a.subtype = 33, a.body = <<v, 33, m>>
  PROVE  /\ Shaped("parameter", a)
         /\ Decode("parameter", Frame(a)) = [is |-> "entry", current |-> v, max |-> m]
<1> DEFINE b == <<v, 33, m>>
<1>1. b \in Seq(Bytes) /\ Len(b) = 3 /\ Parameter(33, b) = [is |-> "entry", current |-> v, max |-> m]
  BY ParameterReads
<1> HIDE DEF b
<1>2. a.body = b /\ Frame(a).body = b /\ Frame(a).subtype = 33
  BY DEF b, Frame
<1>3. Decode("parameter", Frame(a)) = Parameter(33, b) /\ BodySize("parameter") = 3
  BY <1>2, DecodeIs
<1>4. ~IsPrefix(NoSensor, b)
  <2>1. Len(b) < 4 \/ b[1] # 127
    BY <1>1
  <2> QED
    BY <1>1, <2>1, NotSensor
<1> QED
  BY <1>1, <1>2, <1>3, <1>4, TagsApart, SMTT(40) DEF Shaped

LEMMA ParameterUnderstood ==
  ASSUME NEW a \in ProperAnswers("parameter")
  PROVE  Understood("parameter", a)
<1>1. PICK v \in {0, 4} : a = Says(33, <<v, 33, 4>>, [is |-> "entry", current |-> v, max |-> 4])
  BY ProperIs
<1>2. v \in Bytes /\ 4 \in Bytes
  BY NumbersAre
<1>3. a.subtype = 33 /\ a.body = <<v, 33, 4>> /\ a.means = [is |-> "entry", current |-> v, max |-> 4]
  BY <1>1, SaysIs
<1> QED
  BY <1>2, <1>3, EntryUnderstood DEF Understood

LEMMA ByteUnderstood ==
  ASSUME NEW c \in {"counter", "sbn"}, NEW a \in ProperAnswers(c)
  PROVE  Understood(c, a)
<1>1. PICK v, m : /\ v \in Bytes /\ a = Says(33, <<v>>, m)
                  /\ c = "counter" => m = [is |-> "counter", value |-> v]
                  /\ c = "sbn" => m = [is |-> "sbn", value |-> v]
  <2>1. CASE c = "counter"
    <3>1. PICK v \in {0, 255} : a = Says(33, <<v>>, [is |-> "counter", value |-> v])
      BY <2>1, ProperIs
    <3>2. v \in Bytes
      BY NumbersAre
    <3> QED
      BY <2>1, <3>1, <3>2
  <2>2. CASE c = "sbn"
    <3>1. a = Says(33, <<9>>, [is |-> "sbn", value |-> 9])
      BY <2>2, ProperIs
    <3> QED
      BY <2>2, <3>1, NumbersAre
  <2> QED
    BY <2>1, <2>2
<1> DEFINE b == <<v>>
<1>2. /\ b \in Seq(Bytes) /\ Len(b) = 1
      /\ Counter(b) = [is |-> "counter", value |-> v] /\ Sbn(b) = [is |-> "sbn", value |-> v]
  BY <1>1, OneByteReads
<1> HIDE DEF b
<1>3. a.subtype = 33 /\ a.body = b /\ Frame(a).body = b /\ a.means = m
  BY <1>1, SaysIs DEF b
<1>4. Decode(c, Frame(a)) = a.means /\ BodySize(c) = 1
  BY <1>1, <1>2, <1>3, DecodeIs
<1>5. ~IsPrefix(NoSensor, b)
  <2>1. Len(b) < 4 \/ b[1] # 127
    BY <1>2
  <2> QED
    BY <1>2, <2>1, NotSensor
<1> QED
  BY <1>2, <1>3, <1>4, <1>5, TagsApart DEF Understood, Shaped

LEMMA CalRecordUnderstood ==
  ASSUME NEW a \in ProperAnswers("calrecord")
  PROVE  Understood("calrecord", a)
<1>1. PICK f \in Floats : a = Says(81, CalBody(f),
        [is |-> "calrecord", value |-> IF f = <<0, 0, 0, 0>> THEN NoValue ELSE f,
         signature |-> Signature, counters |-> <<1, 2, 3>>])
  BY ProperIs
<1> DEFINE b == CalBody(f)
           m == [is |-> "calrecord", value |-> IF f = <<0, 0, 0, 0>> THEN NoValue ELSE f,
                 signature |-> Signature, counters |-> <<1, 2, 3>>]
<1>2. b \in Seq(Bytes) /\ Len(b) = 17 /\ ~IsPrefix(NoSensor, b) /\ CalRecord(b) = m
  BY NumbersAre, CalRecordReads
<1> HIDE DEF b, m
<1>3. a.subtype = 81 /\ a.body = b /\ Frame(a).body = b /\ a.means = m
  BY <1>1, SaysIs DEF b, m
<1>4. Decode("calrecord", Frame(a)) = a.means /\ BodySize("calrecord") = 17
  BY <1>2, <1>3, DecodeIs
<1>5. 81 \in Bytes /\ 81 # 1 /\ 81 \notin DOMAIN TlvSizes
  BY TagsApart
<1>6. a.subtype \in Bytes /\ a.subtype # 1 /\ a.subtype \notin DOMAIN TlvSizes
  BY <1>3, <1>5
<1>7. a.body \in Seq(Bytes) /\ Len(a.body) = BodySize("calrecord") /\ ~IsPrefix(NoSensor, a.body)
  BY <1>2, <1>3, <1>4
<1>8. Shaped("calrecord", a)
  BY <1>6, <1>7 DEF Shaped
<1> QED
  BY <1>4, <1>8 DEF Understood

LEMMA TextUnderstood ==
  ASSUME NEW c \in Texts, NEW a \in ProperAnswers(c)
  PROVE  Understood(c, a)
<1> DEFINE m == [is |-> "text", value |-> <<77, 83, 69>>]
<1>1. a = Says(80, TextBody, m)
  BY ProperIs
<1>2. TextBody \in Seq(Bytes) /\ Len(TextBody) = 16 /\ TextBody[1] = 77 /\ Blob(TextBody) = m
  BY TextBodyIs, TextReads
<1> HIDE DEF m
<1>3. a.subtype = 80 /\ a.body = TextBody /\ Frame(a).body = TextBody /\ a.means = m
  BY <1>1, SaysIs
<1>4. Decode(c, Frame(a)) = a.means /\ BodySize(c) = 16
  BY <1>2, <1>3, DecodeIs
<1>5. ~IsPrefix(NoSensor, TextBody)
  BY <1>2, NotSensor
<1> QED
  BY <1>2, <1>3, <1>4, <1>5, TagsApart DEF Understood, Shaped

LEMMA BlobUnderstood ==
  ASSUME NEW c \in Blobs, NEW a \in ProperAnswers(c)
  PROVE  Understood(c, a)
<1>1. PICK u \in {69, 74}, b \in Seq(Bytes) :
        /\ a = Says(u, b, [is |-> "bytes", value |-> b]) /\ Len(b) = BodySize(c) /\ b[1] # 127
  <2>1. CASE c = "factory"
    <3> DEFINE b == FactoryBytes
    <3>1. a = Says(69, b, [is |-> "bytes", value |-> b])
      BY <2>1, ProperIs
    <3>2. b \in Seq(Bytes) /\ Len(b) = BodySize(c) /\ b[1] # 127
      BY <2>1, BlobsAre, DecodeIs
    <3> HIDE DEF b
    <3> QED
      BY <3>1, <3>2
  <2>2. CASE c = "software"
    <3> DEFINE b == SoftwareBytes
    <3>1. a = Says(74, b, [is |-> "bytes", value |-> b])
      BY <2>2, ProperIs
    <3>2. b \in Seq(Bytes) /\ Len(b) = BodySize(c) /\ b[1] # 127
      BY <2>2, BlobsAre, DecodeIs
    <3> HIDE DEF b
    <3> QED
      BY <3>1, <3>2
  <2> QED
    BY <2>1, <2>2 DEF Blobs
<1>3. a.subtype = u /\ a.body = b /\ Frame(a).body = b /\ a.means = [is |-> "bytes", value |-> b]
  BY <1>1, SaysIs
<1>4. Decode(c, Frame(a)) = a.means
  BY <1>3, DecodeIs DEF RawBlob
<1>5. ~IsPrefix(NoSensor, b)
  <2>1. Len(b) < 4 \/ b[1] # 127
    BY <1>1
  <2> QED
    BY <1>1, <2>1, NotSensor
<1> QED
  BY <1>1, <1>3, <1>4, <1>5, TagsApart DEF Understood, Shaped

LEMMA AckUnderstood ==
  ASSUME NEW c \in Acks, NEW a \in ProperAnswers(c)
  PROVE  Understood(c, a)
<1> DEFINE b == <<>>
<1>1. a = Says(0, b, Done) /\ b \in Seq(Bytes) /\ Len(b) = 0
  BY ProperIs
<1> HIDE DEF b
<1>3. a.subtype = 0 /\ a.body = b /\ a.means = Done
  BY <1>1, SaysIs
<1>4. Decode(c, Frame(a)) = a.means /\ BodySize(c) = 0
  BY <1>3, DecodeIs
<1>5. ~IsPrefix(NoSensor, b)
  <2>1. Len(b) < 4 \/ b[1] # 127
    BY <1>1
  <2> QED
    BY <1>1, <2>1, NotSensor
<1> QED
  BY <1>1, <1>3, <1>4, <1>5, TagsApart, ZenonT(40) DEF Understood, Shaped

\* Every command understands every answer to it (the commands' decode).
LEMMA ProperUnderstood ==
  ASSUME NEW c \in Commands, NEW a \in ProperAnswers(c)
  PROVE  Understood(c, a)
BY WeightUnderstood, StatusUnderstood, MetrologyUnderstood, TemperatureUnderstood,
   ParameterUnderstood, ByteUnderstood, CalRecordUnderstood, TextUnderstood, BlobUnderstood,
   AckUnderstood DEF Commands

\* The six settings as the document names them and as the code does.
LEMMA SettingsAre ==
  ASSUME NEW s \in DOMAIN Index
  PROVE  /\ Members(s) = Documented[s] /\ s # NoSetting
         /\ Len(Documented[s]) \in 2..24 /\ DOMAIN Documented[s] = 1..Len(Documented[s])
         /\ Index[s] \in 1..40
<1>1. DOMAIN Index = {"filter_mode", "tare_behavior", "auto_zero", "display_unit", "isocal_mode", "menu_access"}
  BY DEF Index
<1>2. s # NoSetting /\ Index[s] \in 1..40
  BY <1>1 DEF Index, NoSetting
<1>3. CASE s = "filter_mode"
  <2>1. Documented[s] = FilterMode /\ Members(s) = FilterMode
    BY <1>3 DEF Documented, Members, Modes, FilterMode
  <2>2. Len(FilterMode) = 4 /\ DOMAIN FilterMode = 1..4
    BY DEF FilterMode
  <2> QED
    BY <1>2, <2>1, <2>2
<1>4. CASE s = "tare_behavior"
  <2>1. Documented[s] = TareBehavior /\ Members(s) = TareBehavior
    BY <1>4 DEF Documented, Members, Modes, TareBehavior
  <2>2. Len(TareBehavior) = 3 /\ DOMAIN TareBehavior = 1..3
    BY DEF TareBehavior
  <2> QED
    BY <1>2, <2>1, <2>2
<1>5. CASE s = "auto_zero"
  <2>1. Documented[s] = AutoZeroMode /\ Members(s) = AutoZeroMode
    BY <1>5 DEF Documented, Members, Modes, AutoZeroMode
  <2>2. Len(AutoZeroMode) = 2 /\ DOMAIN AutoZeroMode = 1..2
    BY DEF AutoZeroMode
  <2> QED
    BY <1>2, <2>1, <2>2
<1>6. CASE s = "isocal_mode"
  <2>1. Documented[s] = IsoCalMode /\ Members(s) = IsoCalMode
    BY <1>6 DEF Documented, Members, Modes, IsoCalMode
  <2>2. Len(IsoCalMode) = 3 /\ DOMAIN IsoCalMode = 1..3
    BY DEF IsoCalMode
  <2> QED
    BY <1>2, <2>1, <2>2
<1>7. CASE s = "menu_access"
  <2>1. Documented[s] = MenuAccessMode /\ Members(s) = MenuAccessMode
    BY <1>7 DEF Documented, Members, Modes, MenuAccessMode
  <2>2. Len(MenuAccessMode) = 2 /\ DOMAIN MenuAccessMode = 1..2
    BY DEF MenuAccessMode
  <2> QED
    BY <1>2, <2>1, <2>2
<1>8. CASE s = "display_unit"
  <2>1. Documented[s] = UnitMembers /\ Members(s) = UnitMembers
    BY <1>8 DEF Documented, Members, UnitMembers
  <2>2. Len(UnitMembers) = 24 /\ DOMAIN UnitMembers = 1..24
    BY DEF UnitMembers
  <2> QED
    BY <1>2, <2>1, <2>2
<1> QED
  BY <1>1, <1>3, <1>4, <1>5, <1>6, <1>7, <1>8

\* A typed getter gives the member the document has for the code (ParameterSpec.decode).
LEMMA SettingUnderstood ==
  ASSUME NEW s \in DOMAIN Index, NEW a \in SettingAnswers(s)
  PROVE  Shaped("parameter", a) /\ Typed(s, Decode("parameter", Frame(a))) = a.means
<1> DEFINE L == Len(Documented[s])
<1>1. PICK code \in 0..(L + 1) : a = Says(33, <<code, 33, L>>, Setting(s, code))
  BY DEF SettingAnswers, HeldCodes
<1>2. Members(s) = Documented[s] /\ s # NoSetting /\ L \in 2..24
  BY SettingsAre
<1> HIDE DEF L
<1>3. code \in Bytes /\ L \in Bytes
  BY <1>2 DEF Bytes
<1>4. a.subtype = 33 /\ a.body = <<code, 33, L>> /\ a.means = Setting(s, code)
  BY <1>1, SaysIs
<1>5. /\ Shaped("parameter", a)
      /\ Decode("parameter", Frame(a)) = [is |-> "entry", current |-> code, max |-> L]
  BY <1>3, <1>4, EntryUnderstood
<1> DEFINE e == [is |-> "entry", current |-> code, max |-> L]
<1>6. e.is = "entry" /\ e.current = code
  OBVIOUS
<1> HIDE DEF e
<1>7. Typed(s, e) = [is |-> "setting", value |-> MemberOf(s, code)]
  BY <1>2, <1>6 DEF Typed
<1>8. Setting(s, code) = [is |-> "setting", value |-> MemberOf(s, code)]
  BY <1>2 DEF Setting, MemberOf
<1> QED
  BY <1>4, <1>5, <1>7, <1>8 DEF e

LEMMA FrameIsRead ==
  ASSUME NEW c, NEW a
  PROVE  /\ Frame(a) # Failed /\ Frame(a).subtype = a.subtype /\ Frame(a).body = a.body
         /\ a.subtype # 1 => Outcome(c, Frame(a)) = Decode(c, Frame(a))
         /\ a.subtype = 1 => Outcome(c, Frame(a)) = RefusalOf(Frame(a))
<1>1. Frame(a) # Failed /\ Frame(a).subtype = a.subtype /\ Frame(a).body = a.body
  BY DEF Frame, Failed
<1> QED
  BY <1>1 DEF Outcome

\* A refusal reaches the caller as such, whatever it asked.
LEMMA RefusalUnderstood ==
  ASSUME NEW c, NEW s, NEW a \in Refuses
  PROVE  /\ a.subtype = 1 /\ a.body \in Seq(Bytes) /\ Len(a.body) = 1
         /\ Typed(s, Outcome(c, Frame(a))) = a.means
<1>1. PICK code \in {4, 16} : a = Says(1, <<code>>, [is |-> "refusal", code |-> code])
  BY DEF Refuses
<1> DEFINE b == <<code>>
           m == [is |-> "refusal", code |-> code]
<1>2. a = Says(1, b, m)
  BY <1>1
<1>3. b \in Seq(Bytes) /\ Len(b) = 1 /\ b[1] = code
  BY DEF Bytes
<1>4. m.is # "entry"
  OBVIOUS
<1>5. \A f : f.body = b => RefusalOf(f) = m
  BY DEF RefusalOf
<1> HIDE DEF b, m
<1>6. a.subtype = 1 /\ a.body = b /\ a.means = m
  BY <1>2, SaysIs
<1>7. Outcome(c, Frame(a)) = m
  BY <1>5, <1>6, FrameIsRead
<1>8. Typed(s, m) = m
  BY <1>4 DEF Typed
<1> QED
  BY <1>3, <1>6, <1>7, <1>8

\* A command without a setting gives the caller what it decodes.
LEMMA ProperOutcome ==
  ASSUME NEW c \in Commands, NEW s, NEW a \in ProperAnswers(c), s = NoSetting \/ c = "write_parameter"
  PROVE  Typed(s, Outcome(c, Frame(a))) = a.means
<1>1. a.subtype # 1 /\ Decode(c, Frame(a)) = a.means
  BY ProperUnderstood DEF Understood, Shaped
<1>2. Outcome(c, Frame(a)) = a.means
  BY <1>1, FrameIsRead
<1>3. CASE s = NoSetting
  BY <1>2, <1>3 DEF Typed
<1>4. CASE c = "write_parameter"
  <2>1. Outcome(c, Frame(a)) = Done /\ Done.is # "entry"
    BY <1>2, <1>4, <1>1, DecodeIs DEF Acks, Done
  <2> QED
    BY <1>2, <2>1 DEF Typed
<1> QED
  BY <1>3, <1>4

\* What a balance may have answered to c before.
AnswersOf(c) ==
  ProperAnswers(c) \cup Refuses
    \cup (IF c = "parameter" THEN UNION {SettingAnswers(s) : s \in DOMAIN Index} ELSE {})

LEMMA SizesSmall == \A c \in Commands : BodySize(c) \in 0..17
BY DecodeIs DEF Commands, Blobs

LEMMA AnswersShaped ==
  ASSUME NEW c \in Commands, NEW a \in AnswersOf(c)
  PROVE  Fitting(a) /\ (Shaped(c, a) \/ a \in Refuses)
<1>1. Shaped(c, a) \/ a \in Refuses
  <2>1. CASE a \in ProperAnswers(c)
    BY <2>1, ProperUnderstood DEF Understood
  <2>2. CASE c = "parameter" /\ \E s \in DOMAIN Index : a \in SettingAnswers(s)
    BY <2>2, SettingUnderstood
  <2> QED
    BY <2>1, <2>2 DEF AnswersOf
<1>2. CASE Shaped(c, a)
  <2>1. Len(a.body) <= 252
    BY <1>2, SizesSmall DEF Shaped
  <2> QED
    BY <1>1, <1>2, <2>1 DEF Fitting, Shaped
<1>3. CASE a \in Refuses
  <2>1. a.subtype = 1 /\ a.body \in Seq(Bytes) /\ Len(a.body) = 1
    BY <1>3, RefusalUnderstood
  <2>2. 1 \in Bytes
    BY DEF Bytes
  <2> QED
    BY <1>3, <2>1, <2>2 DEF Fitting
<1> QED
  BY <1>1, <1>2, <1>3

-----------------------------------------------------------------------------
(* The answer of another command.                                          *)

LEMMA SizesTell ==
  ASSUME NEW l \in Commands
  PROVE  /\ BodySize(l) = 8 => l \in Weights \cup {"status"}
         /\ BodySize(l) = 5 => l \in Metrology \cup {"temperature", "factory"}
         /\ BodySize(l) = 1 => l \in {"counter", "sbn"}
         /\ BodySize(l) = 17 => l = "calrecord"
<1>1. CASE l \in Weights \cup {"status"}
  BY <1>1, DecodeIs
<1>2. CASE l \in Metrology \cup {"temperature", "factory"}
  BY <1>2, DecodeIs
<1>3. CASE l \in {"parameter", "counter", "sbn", "calrecord", "software"}
  BY <1>3, DecodeIs
<1>4. CASE l \in Texts \cup Acks
  BY <1>4, DecodeIs
<1> QED
  BY <1>1, <1>2, <1>3, <1>4 DEF Commands, Blobs

\* A body that is not the rest of two records is no entry.
LEMMA NoEntry ==
  ASSUME NEW a, NEW l, l # "parameter", Shaped(l, a), l \in {"counter", "sbn"} => BodySize(l) = 1
  PROVE  Parameter(a.subtype, a.body) = Failed
<1> DEFINE u == a.subtype
           b == a.body
           x == <<u>> \o b
<1>1. u \in Bytes /\ b \in Seq(Bytes) /\ Len(b) = BodySize(l)
  BY DEF Shaped
<1>2. u \notin DOMAIN TlvSizes \/ (l \in {"counter", "sbn"} /\ u = 33)
  BY DEF Shaped
<1> HIDE DEF u, b
<1>3. <<u>> \in Seq(Bytes) /\ Len(<<u>>) = 1 /\ <<u>>[1] = u
  BY <1>1
<1>4. CASE u \notin DOMAIN TlvSizes
  <2>1. x \in Seq(Bytes) /\ x # <<>> /\ x[1] = u
    <3> DEFINE h == <<u>>
    <3>1. h \in Seq(Bytes) /\ Len(h) = 1 /\ h[1] = u
      BY <1>3
    <3> HIDE DEF h
    <3>2. /\ h \o b \in Seq(Bytes) /\ Len(h \o b) = Len(h) + Len(b)
          /\ \A k \in 1..(Len(h) + Len(b)) : (h \o b)[k] = IF k <= Len(h) THEN h[k] ELSE b[k - Len(h)]
      BY <1>1, <3>1, ConcatProperties
    <3>3. Len(b) \in Nat
      BY <1>1
    <3>4. Len(h \o b) >= 1 /\ 1 \in 1..(Len(h) + Len(b)) /\ 1 <= Len(h)
      BY <3>1, <3>2, <3>3
    <3>5. (h \o b)[1] = u /\ h \o b # <<>>
      BY <3>1, <3>2, <3>4
    <3> QED
      BY <3>2, <3>5 DEF h
  <2>2. ParseTlvs(x) = Failed
    <3> HIDE DEF x
    <3> QED
      BY <1>4, <2>1, ParseUnknown
  <2> QED
    BY <2>2 DEF Parameter, u, b
<1>5. CASE l \in {"counter", "sbn"} /\ u = 33
  <2>1. Len(b) = 1
    BY <1>1, <1>5
  <2> DEFINE v == b[1]
             w == <<v>>
  <2>2. v \in Bytes
    BY <1>1, <2>1
  <2>3. b = <<v>>
    <3>1. w \in Seq(Bytes) /\ Len(w) = 1 /\ w[1] = b[1]
      BY <2>2
    <3> HIDE DEF w
    <3>2. \A k \in 1..1 : k = 1
      OBVIOUS
    <3>3. \A k \in 1..1 : b[k] = w[k]
      BY <3>1, <3>2
    <3>4. b = w
      BY <1>1, <2>1, <3>1, <3>3, SeqEqual
    <3> QED
      BY <3>4 DEF w
  <2> HIDE DEF v
  <2>4. x = <<33, v>>
    BY <1>5, <2>3, Joined
  <2> DEFINE list == <<Record(v)>>
             t == [is |-> "tlvs", list |-> list]
  <2>5. ParseTlvs(x) = t
    BY <2>2, <2>4, ParseOne
  <2>6. t # Failed /\ Len(t.list) # 2
    BY DEF Failed
  <2> HIDE DEF t, x
  <2>7. Parameter(u, b) = Failed
    BY <2>5, <2>6 DEF Parameter, x
  <2> QED
    BY <2>7 DEF u, b
<1> QED
  BY <1>2, <1>4, <1>5

\* A late answer to another command that passes for an answer (the commands' decode,
\* none of which looks at the subtype).
LEMMA LateSeen ==
  ASSUME NEW c \in Commands, NEW l \in Commands, NEW a \in AnswersOf(l),
         Outcome(c, Frame(a)).is \notin {"failed", "refusal"}
  PROVE  \/ c \in Unread
         \/ \E family \in Alike : {c, l} \subseteq family
         \/ c = "temperature" /\ l \in Weights /\ IsPrefix(OffScale, a.body)
<1>1. Failed.is = "failed"
  BY DEF Failed
<1>2. Outcome(c, Frame(a)) # Failed
  BY <1>1
<1>3. Shaped(l, a)
  <2> SUFFICES ASSUME a \in Refuses PROVE FALSE
    BY AnswersShaped
  <2>1. a.subtype = 1 /\ Len(a.body) = 1
    BY RefusalUnderstood
  <2>2. Outcome(c, Frame(a)) = [is |-> "refusal", code |-> a.body[1]]
    BY <2>1, FrameIsRead DEF RefusalOf
  <2> QED
    BY <2>2
<1>4. Frame(a).body = a.body /\ Frame(a).subtype = a.subtype /\ Outcome(c, Frame(a)) = Decode(c, Frame(a))
  BY <1>3, FrameIsRead DEF Shaped
<1>5. Decode(c, Frame(a)) # Failed /\ Len(a.body) = BodySize(l)
  BY <1>2, <1>3, <1>4 DEF Shaped
<1>6. CASE c \in Weights \cup {"status"}
  <2>1. Len(a.body) = 8
    <3>1. Decode(c, Frame(a)) = Measurement(a.body) \/ Decode(c, Frame(a)) = Status(a.body)
      BY <1>4, <1>6, DecodeIs
    <3>2. ASSUME Len(a.body) # 8 PROVE Measurement(a.body) = Failed /\ Status(a.body) = Failed
      <4>1. StatusBlock(a.body) = Failed
        BY <3>2 DEF StatusBlock
      <4> QED
        BY <3>2, <4>1 DEF Measurement, Status
    <3> QED
      BY <1>5, <3>1, <3>2
  <2>2. l \in Weights \cup {"status"}
    BY <1>5, <2>1, SizesTell
  <2> QED
    BY <1>6, <2>2 DEF Alike
<1>7. CASE c \in Metrology
  <2>1. Len(a.body) = 5
    BY <1>4, <1>5, <1>7, DecodeIs DEF TypedFloat
  <2>2. l \in Metrology \cup {"temperature", "factory"}
    BY <1>5, <2>1, SizesTell
  <2> QED
    BY <1>7, <2>2 DEF Alike
<1>8. CASE c = "temperature"
  <2>1. CASE IsPrefix(NoSensor, a.body)
    <3>1. l \in Metrology \cup {"temperature"} \/ (l \in Weights /\ IsPrefix(OffScale, a.body))
      BY <1>3, <2>1 DEF Shaped
    <3> QED
      BY <1>8, <3>1 DEF Alike
  <2>2. CASE ~IsPrefix(NoSensor, a.body)
    <3>1. Len(a.body) = 5
      BY <1>4, <1>5, <1>8, <2>2, DecodeIs DEF Temperature, TypedFloat
    <3>2. l \in Metrology \cup {"temperature", "factory"}
      BY <1>5, <3>1, SizesTell
    <3> QED
      BY <1>8, <3>2 DEF Alike
  <2> QED
    BY <2>1, <2>2
<1>9. CASE c = "parameter"
  <2>1. l = "parameter"
    <3> SUFFICES ASSUME l # "parameter" PROVE FALSE
      OBVIOUS
    <3>1. l \in {"counter", "sbn"} => BodySize(l) = 1
      BY DecodeIs
    <3>2. Parameter(a.subtype, a.body) = Failed
      BY <1>3, <3>1, NoEntry
    <3> QED
      BY <1>4, <1>5, <1>9, <3>2, DecodeIs
  <2> QED
    BY <1>9, <2>1 DEF Alike
<1>10. CASE c = "counter"
  <2>1. Len(a.body) = 1
    BY <1>4, <1>5, <1>10, DecodeIs DEF Counter
  <2>2. l \in {"counter", "sbn"}
    BY <1>5, <2>1, SizesTell
  <2> QED
    BY <1>10, <2>2 DEF Alike
<1>11. CASE c = "calrecord"
  <2>1. Len(a.body) = 17
    BY <1>4, <1>5, <1>11, DecodeIs DEF CalRecord
  <2>2. l = "calrecord"
    BY <1>5, <2>1, SizesTell
  <2> QED
    BY <1>11, <2>2 DEF Alike
<1>12. CASE c \in Unread
  BY <1>12
<1> QED
  BY <1>6, <1>7, <1>8, <1>9, <1>10, <1>11, <1>12 DEF Commands, Unread

LEMMA ReceiveLeft ==
  ASSUME NEW g \in Seq(Bytes)
  PROVE  Receive(g).left \in Seq(Bytes)
<1>1. <<>> \in Seq(Bytes)
  OBVIOUS
<1>2. CASE g = <<>>
  BY <1>1, <1>2 DEF Receive
<1>3. CASE g # <<>> /\ Len(g) < Head(g) + 1
  <2>1. Tail(g) \in Seq(Bytes)
    BY <1>3
  <2> QED
    BY <1>3, <2>1 DEF Receive
<1>4. CASE g # <<>> /\ ~(Len(g) < Head(g) + 1)
  <2> DEFINE size == Head(g) + 1
             s == SubSeq(g, size + 1, Len(g))
  <2>1. size \in Nat /\ Len(g) \in Nat
    <3>1. Head(g) \in Bytes
      BY <1>4, HeadTailProperties
    <3>2. \A b \in Bytes : b + 1 \in Nat
      BY DEF Bytes
    <3> QED
      BY <3>1, <3>2
  <2> HIDE DEF size
  <2>2. s \in Seq(Bytes)
    <3>1. \A i \in 1..Len(g) : g[i] \in Bytes
      BY ElementOfSeq
    <3>2. \A i \in (size + 1)..Len(g) : i \in 1..Len(g)
      BY <2>1
    <3>3. \A i \in (size + 1)..Len(g) : g[i] \in Bytes
      BY <3>1, <3>2
    <3>4. size + 1 \in Int /\ Len(g) \in Int
      BY <2>1
    <3> QED
      BY <3>3, <3>4, SubSeqProperties
  <2> HIDE DEF s
  <2>3. Receive(g).left = <<>> \/ Receive(g).left = s
    BY <1>4 DEF Receive, size, s
  <2> QED
    BY <1>1, <2>2, <2>3
<1> QED
  BY <1>2, <1>3, <1>4

\* A call ends with a result.
LEMMA OutcomeEnds ==
  ASSUME NEW c \in Commands, NEW s, NEW f
  PROVE  Typed(s, Outcome(c, f)).is # "pending"
<1>1. RefusalOf(f).is # "pending" /\ Failed.is # "pending"
  BY DEF RefusalOf, Failed
<1>2. Decode(c, f).is # "pending"
  <2>1. CASE c \in Weights
    <3>1. Measurement(f.body).is # "pending"
      BY DEF Measurement, Failed
    <3> QED
      BY <2>1, <3>1, DecodeIs
  <2>2. CASE c = "status"
    <3>1. Status(f.body).is # "pending"
      BY DEF Status, Failed
    <3> QED
      BY <2>2, <3>1, DecodeIs
  <2>3. CASE c \in Metrology
    <3>1. TypedFloat(f.body).is # "pending"
      BY DEF TypedFloat, Failed
    <3> QED
      BY <2>3, <3>1, DecodeIs
  <2>4. CASE c = "temperature"
    <3>1. Temperature(f.body).is # "pending"
      BY DEF Temperature, Failed
    <3> QED
      BY <2>4, <3>1, DecodeIs
  <2>5. CASE c = "parameter"
    <3>1. Parameter(f.subtype, f.body).is # "pending"
      BY DEF Parameter, Failed
    <3> QED
      BY <2>5, <3>1, DecodeIs
  <2>6. CASE c \in {"counter", "sbn"}
    <3>1. Counter(f.body).is # "pending" /\ Sbn(f.body).is # "pending"
      BY DEF Counter, Sbn, Failed
    <3> QED
      BY <2>6, <3>1, DecodeIs
  <2>7. CASE c = "calrecord"
    <3>1. CalRecord(f.body).is # "pending"
      BY DEF CalRecord, Failed
    <3> QED
      BY <2>7, <3>1, DecodeIs
  <2>8. CASE c \in Texts
    <3>1. Blob(f.body).is # "pending"
      BY DEF Blob
    <3> QED
      BY <2>8, <3>1, DecodeIs
  <2>9. CASE c \in Blobs
    <3>1. RawBlob(f.body).is # "pending"
      BY DEF RawBlob
    <3> QED
      BY <2>9, <3>1, DecodeIs
  <2>10. CASE c \in Acks
    BY <2>10, DecodeIs DEF Done
  <2> QED
    BY <2>1, <2>2, <2>3, <2>4, <2>5, <2>6, <2>7, <2>8, <2>9, <2>10 DEF Commands
<1>3. Outcome(c, f).is # "pending"
  BY <1>1, <1>2 DEF Outcome
<1> QED
  BY <1>3 DEF Typed

\* The commands of a call, and what a balance answers to it.
Callable(k) ==
  /\ k.cmd \in Commands
  /\ k.setting = NoSetting \/ (k.setting \in DOMAIN Index /\ k.cmd \in {"parameter", "write_parameter"})

Expected(k) ==
  (IF k.cmd = "parameter" /\ k.setting # NoSetting THEN SettingAnswers(k.setting)
   ELSE ProperAnswers(k.cmd)) \cup Refuses

LEMMA ExpectedIs ==
  ASSUME NEW k, Callable(k), NEW a \in Expected(k)
  PROVE  /\ a \in AnswersOf(k.cmd)
         /\ Typed(k.setting, Outcome(k.cmd, Frame(a))) = a.means
<1>1. CASE a \in Refuses
  BY <1>1, RefusalUnderstood DEF AnswersOf
<1>2. CASE k.cmd = "parameter" /\ k.setting # NoSetting /\ a \in SettingAnswers(k.setting)
  <2>1. k.setting \in DOMAIN Index
    BY <1>2 DEF Callable
  <2>2. a \in AnswersOf(k.cmd)
    BY <1>2, <2>1 DEF AnswersOf
  <2>3. Shaped("parameter", a) /\ Typed(k.setting, Decode("parameter", Frame(a))) = a.means
    BY <1>2, <2>1, SettingUnderstood
  <2>4. Outcome(k.cmd, Frame(a)) = Decode(k.cmd, Frame(a))
    BY <2>3, FrameIsRead DEF Shaped
  <2> QED
    BY <1>2, <2>2, <2>3, <2>4
<1>3. CASE ~(k.cmd = "parameter" /\ k.setting # NoSetting) /\ a \in ProperAnswers(k.cmd)
  <2>1. k.cmd \in Commands /\ (k.setting = NoSetting \/ k.cmd = "write_parameter")
    BY <1>3 DEF Callable
  <2> QED
    BY <1>3, <2>1, ProperOutcome DEF AnswersOf
<1> QED
  BY <1>1, <1>2, <1>3 DEF Expected

\* An answer is no placeholder.
LEMMA AnswerIsRecord ==
  ASSUME NEW c \in Commands, NEW a \in AnswersOf(c)
  PROVE  a # NoCall
<1>1. \A u, b, m : Says(u, b, m) # NoCall
  BY DEF Says, NoCall
<1>2. CASE a \in Refuses
  BY <1>1, <1>2 DEF Refuses
<1>3. CASE \E s \in DOMAIN Index : a \in SettingAnswers(s)
  BY <1>1, <1>3 DEF SettingAnswers
<1>4. CASE a \in ProperAnswers(c)
  <2>1. CASE c \in Weights
    BY <1>1, <1>4, <2>1, ProperIs
  <2>2. CASE c = "status"
    BY <1>1, <1>4, <2>2, ProperIs
  <2>3. CASE c \in Metrology
    <3>1. PICK f \in Floats : a = Says(53, Append(f, 3), [is |-> "quantity", value |-> f])
      BY <1>4, <2>3, ProperIs
    <3> QED
      BY <1>1, <3>1
  <2>4. CASE c = "temperature"
    <3>1. \/ \E f \in Floats : a = Says(53, Append(f, 0), [is |-> "temperature", value |-> f])
          \/ a = Says(53, Append(NoSensor, 0), [is |-> "temperature", value |-> NoValue])
      BY <1>4, <2>4, ProperIs
    <3> QED
      BY <1>1, <3>1
  <2>5. CASE c = "parameter"
    BY <1>1, <1>4, <2>5, ProperIs
  <2>6. CASE c = "counter"
    BY <1>1, <1>4, <2>6, ProperIs
  <2>7. CASE c = "sbn"
    BY <1>1, <1>4, <2>7, ProperIs
  <2>8. CASE c = "calrecord"
    <3>1. PICK f \in Floats : a = Says(81, CalBody(f),
            [is |-> "calrecord", value |-> IF f = <<0, 0, 0, 0>> THEN NoValue ELSE f,
             signature |-> Signature, counters |-> <<1, 2, 3>>])
      BY <1>4, <2>8, ProperIs
    <3> QED
      BY <1>1, <3>1
  <2>9. CASE c \in Texts
    BY <1>1, <1>4, <2>9, ProperIs
  <2>10. CASE c = "factory"
    BY <1>1, <1>4, <2>10, ProperIs
  <2>11. CASE c = "software"
    BY <1>1, <1>4, <2>11, ProperIs
  <2>12. CASE c \in Acks
    BY <1>1, <1>4, <2>12, ProperIs
  <2> QED
    BY <2>1, <2>2, <2>3, <2>4, <2>5, <2>6, <2>7, <2>8, <2>9, <2>10, <2>11, <2>12 DEF Commands, Blobs
<1> QED
  BY <1>2, <1>3, <1>4 DEF AnswersOf

-----------------------------------------------------------------------------
(* The exchange.                                                           *)

\* The request of call k reads back at the balance.
ReadBack(k) ==
  /\ k.request \in Seq(Bytes)
  /\ ReadRequest(k.request) = [opcode |-> Opcode[k.cmd], to |-> 9, args |-> k.args]

\* What can happen to answer a on its way, and what arrives of it then.
Faulty(a, f) ==
  \/ f = None
  \/ f = Delayed
  \/ \E i \in 1..Len(FrameOf(a)), n \in 1..255 : f = Changed(i, n)

Arrived(a, f) ==
  IF f.is # "changed" THEN FrameOf(a) ELSE [FrameOf(a) EXCEPT ![f.at] = (@ + f.by) % 256]

Belated == late \notin {Nobody, Garbage}

\* Before an answer is on the port, there is the late one or nothing.
LateInv ==
  /\ Belated => late.cmd \in Commands
  /\ stage # "idle" => late # Garbage
  /\ answer = NoCall /\ late = Nobody => input = <<>>
  /\ answer = NoCall /\ Belated =>
       \E a \in AnswersOf(late.cmd) : a.body = late.body /\ input = FrameOf(a)

CallInv ==
  /\ stage \in {"idle", "asked"} => answer = NoCall /\ fault = None
  /\ stage = "answered" => answer # NoCall
  /\ stage # "idle" => Callable(call)
  /\ stage = "asked" => ReadBack(call)
  /\ answer # NoCall => answer \in Expected(call)

WayInv ==
  stage = "answered" =>
    /\ Faulty(answer, fault)
    /\ \/ late = Nobody /\ input = Arrived(answer, fault)
       \/ /\ Belated /\ fault = None
          /\ \E a \in AnswersOf(late.cmd) :
               a.body = late.body /\ input = FrameOf(a) \o FrameOf(answer)

DoneInv ==
  /\ stage = "done" /\ answer = NoCall => result = Failed
  /\ AnswersRead
  /\ WrongFramesSeen

XbpiInv == input \in Seq(Bytes) /\ LateInv /\ CallInv /\ WayInv /\ DoneInv

SbiInv ==
  /\ late = Nobody
  /\ input \in Seq(Symbols)
  /\ stage # "answered" => input = <<>>
  /\ stage # "idle" => call.cmd \in SbiCommands

CodecInv ==
  /\ protocol \in {"xbpi", "sbi"} /\ stage \in {"idle", "asked", "answered", "done"}
  /\ (stage = "done") = (result # Pending)
  /\ protocol = "xbpi" => XbpiInv
  /\ protocol = "sbi" => SbiInv

LEMMA FailedIs == Failed.is = "failed" /\ Failed # Pending
BY DEF Failed, Pending

LEMMA CodecInitHolds == CodecInit => CodecInv
<1> SUFFICES ASSUME CodecInit PROVE CodecInv
  OBVIOUS
<1>1. input = <<>> /\ input \in Seq(Bytes) /\ input \in Seq(Symbols)
  BY DEF CodecInit
<1>2. stage = "idle" /\ answer = NoCall /\ fault = None /\ late = Nobody /\ result = Pending
      /\ protocol \in {"xbpi", "sbi"}
  BY DEF CodecInit
<1>3. AnswersRead /\ WrongFramesSeen
  BY <1>2 DEF AnswersRead, WrongFramesSeen, Undisturbed, Accepted
<1>4. LateInv /\ CallInv /\ WayInv /\ DoneInv /\ SbiInv
  BY <1>1, <1>2, <1>3 DEF LateInv, CallInv, WayInv, DoneInv, SbiInv, Belated
<1> QED
  BY <1>1, <1>2, <1>4 DEF CodecInv, XbpiInv

\* What Ask, Set and Get have in common.
Called ==
  /\ protocol = "xbpi" /\ stage = "idle" /\ late # Garbage
  /\ Callable(call')
  /\ \/ stage' = "done" /\ result' = Failed
     \/ stage' = "asked" /\ result' = Pending /\ ReadBack(call)'
  /\ UNCHANGED <<protocol, answer, input, fault, late, raw>>

LEMMA CalledKeeps ==
  ASSUME CodecInv, Called
  PROVE  CodecInv'
<1>1. /\ XbpiInv /\ protocol' = "xbpi" /\ stage' \in {"asked", "done"}
      /\ answer = NoCall /\ fault = None
      /\ answer' = answer /\ input' = input /\ fault' = fault /\ late' = late
  BY DEF CodecInv, XbpiInv, CallInv, Called
<1>2. (stage' = "done") = (result' # Pending)
  BY FailedIs DEF Called
<1>3. LateInv'
  BY <1>1 DEF XbpiInv, LateInv, Belated, Called
<1>4. CallInv'
  BY <1>1 DEF CallInv, Called
<1>5. WayInv'
  BY <1>1 DEF WayInv
<1>6. DoneInv'
  <2>1. stage' # "done" \/ (answer' = NoCall /\ result' = Failed)
    BY <1>1 DEF Called
  <2>2. AnswersRead' /\ WrongFramesSeen'
    BY <2>1, FailedIs DEF AnswersRead, WrongFramesSeen, Undisturbed, Accepted
  <2> QED
    BY <2>1, <2>2 DEF DoneInv
<1>7. input' \in Seq(Bytes)
  BY <1>1 DEF XbpiInv
<1> QED
  BY <1>1, <1>2, <1>3, <1>4, <1>5, <1>6, <1>7 DEF CodecInv, XbpiInv

LEMMA AskCalls ==
  ASSUME CodecInv, NEW c \in Commands, NEW arguments \in Arguments(c), Ask(c, arguments)
  PROVE  Called
<1> DEFINE request == Request(c, arguments)
<1>1. /\ protocol = "xbpi" /\ stage = "idle" /\ late # Garbage
      /\ call' = [cmd |-> c, args |-> arguments, request |-> request, setting |-> NoSetting]
      /\ stage' = IF request = Raised THEN "done" ELSE "asked"
      /\ result' = IF request = Raised THEN Failed ELSE Pending
      /\ UNCHANGED <<protocol, answer, input, fault, late, raw>>
  BY DEF Ask
<1>2. request = Raised \/ (request \in Seq(Bytes) /\
        ReadRequest(request) = [opcode |-> Opcode[c], to |-> 9, args |-> arguments])
  <2>0. ArgValues \subseteq Nat
    BY CodecsAssumption
  <2>1. CASE c = "write_parameter"
    <3>1. PICK v \in ArgValues, m \in ArgValues : arguments = <<v, m>>
      BY <2>1 DEF Arguments, Parameterised
    <3>2. v \in Nat /\ m \in Nat
      BY <2>0
    <3> QED
      BY <3>1, <3>2, TwoRequested
  <2>2. CASE c \in Parameterised
    <3>1. PICK v \in ArgValues : arguments = <<v>>
      BY <2>2 DEF Arguments, Parameterised
    <3>2. v \in Nat
      BY <2>0
    <3> QED
      BY <3>1, <3>2, OneRequested
  <2>3. CASE c # "write_parameter" /\ c \notin Parameterised
    <3>1. arguments = <<>>
      BY <2>3 DEF Arguments
    <3> QED
      BY <3>1, NoneRequested
  <2> QED
    BY <2>1, <2>2, <2>3
<1> HIDE DEF request
<1>3. /\ call'.cmd = c /\ call'.setting = NoSetting /\ call'.args = arguments
      /\ call'.request = request
  BY <1>1
<1>4. Callable(call')
  BY <1>3 DEF Callable
<1>5. request # Raised => ReadBack(call)'
  BY <1>2, <1>3 DEF ReadBack
<1> QED
  BY <1>1, <1>4, <1>5 DEF Called

LEMMA GetCalls ==
  ASSUME CodecInv, NEW s \in DOMAIN Index, Get(s)
  PROVE  Called
<1> DEFINE request == Request("parameter", <<Index[s]>>)
<1>1. /\ protocol = "xbpi" /\ stage = "idle" /\ late # Garbage /\ result = Pending
      /\ call' = [cmd |-> "parameter", args |-> <<Index[s]>>, setting |-> s, request |-> request]
      /\ stage' = "asked"
      /\ UNCHANGED <<protocol, answer, input, fault, late, raw, result>>
  BY DEF Get, CodecInv
<1>2. request \in Seq(Bytes) /\
        ReadRequest(request) = [opcode |-> Opcode["parameter"], to |-> 9, args |-> <<Index[s]>>]
  <2>1. Index[s] \in 1..40
    BY SettingsAre
  <2>2. Index[s] \in Nat /\ Index[s] < 256
    BY <2>1
  <2>3. "parameter" \in Commands
    BY DEF Commands
  <2> QED
    BY <2>2, <2>3, OneRequested
<1> HIDE DEF request
<1>3. /\ call'.cmd = "parameter" /\ call'.setting = s /\ call'.args = <<Index[s]>>
      /\ call'.request = request
  BY <1>1
<1>4. Callable(call')
  BY <1>3 DEF Callable, Commands
<1>5. ReadBack(call)'
  BY <1>2, <1>3 DEF ReadBack
<1> QED
  BY <1>1, <1>4, <1>5 DEF Called

LEMMA WireIs ==
  ASSUME NEW s \in DOMAIN Index, NEW given, given.form \in {"member", "text", "code"}
  PROVE  WireOf(s, given) = NoCode \/ WireOf(s, given) \in 1..24
<1> DEFINE L == Len(Documented[s])
<1>1. DOMAIN Members(s) = 1..L /\ L \in 2..24
  BY SettingsAre
<1> HIDE DEF L
<1>2. \A n \in DOMAIN Members(s) : n \in 1..24
  BY <1>1, SMTT(40)
<1>3. \A m : CodeOf(s, m) = NoCode \/ CodeOf(s, m) \in DOMAIN Members(s)
  BY DEF CodeOf, Range
<1>4. WireOf(s, given) = NoCode \/ WireOf(s, given) \in DOMAIN Members(s)
  <2>1. CASE given.form = "member"
    BY <1>3, <2>1 DEF WireOf
  <2>2. CASE given.form = "text"
    BY <1>3, <2>2 DEF WireOf
  <2>3. CASE given.form = "code"
    BY <2>3 DEF WireOf
  <2> QED
    BY <2>1, <2>2, <2>3
<1> QED
  BY <1>2, <1>4

LEMMA SetCalls ==
  ASSUME CodecInv, NEW s \in DOMAIN Index, NEW g \in Givens(s), Set(s, g[1], g[2])
  PROVE  Called
<1> DEFINE code == WireOf(s, g[1])
           request == IF code = NoCode THEN Raised ELSE Request("write_parameter", <<Index[s], code>>)
<1>1. /\ protocol = "xbpi" /\ stage = "idle" /\ late # Garbage
      /\ call' = [cmd |-> "write_parameter", args |-> <<Index[s], code>>, request |-> request,
                  setting |-> s, means |-> g[2]]
      /\ stage' = IF request = Raised THEN "done" ELSE "asked"
      /\ result' = IF request = Raised THEN Failed ELSE Pending
      /\ UNCHANGED <<protocol, answer, input, fault, late, raw>>
  BY DEF Set
<1>2. g[1].form \in {"member", "text", "code"}
  BY DEF Givens, Member, Text, Code
<1>3. code = NoCode \/ code \in 1..24
  BY <1>2, WireIs
<1>4. Index[s] \in Nat /\ Index[s] < 256
  <2>1. Index[s] \in 1..40
    BY SettingsAre
  <2> QED
    BY <2>1
<1> HIDE DEF code
<1>5. request = Raised \/ (request \in Seq(Bytes) /\
        ReadRequest(request) = [opcode |-> Opcode["write_parameter"], to |-> 9, args |-> <<Index[s], code>>])
  <2>1. CASE code = NoCode
    BY <2>1
  <2>2. CASE code # NoCode
    <3>1. code \in Nat /\ code < 256
      BY <1>3, <2>2
    <3>2. "write_parameter" \in Commands
      BY DEF Commands, Acks
    <3>3. request = Request("write_parameter", <<Index[s], code>>)
      BY <2>2
    <3> QED
      BY <1>4, <3>1, <3>2, <3>3, TwoRequested
  <2> QED
    BY <2>1, <2>2
<1> HIDE DEF request
<1>6. /\ call'.cmd = "write_parameter" /\ call'.setting = s /\ call'.args = <<Index[s], code>>
      /\ call'.request = request
  BY <1>1
<1>7. Callable(call')
  BY <1>6 DEF Callable, Commands, Acks
<1>8. request # Raised => ReadBack(call)'
  BY <1>5, <1>6 DEF ReadBack
<1> QED
  BY <1>1, <1>7, <1>8 DEF Called

\* A byte that changes leaves a row of bytes.
LEMMA ArrivesBytes ==
  ASSUME NEW a, Fitting(a), NEW f, Faulty(a, f)
  PROVE  Arrived(a, f) \in Seq(Bytes)
<1>1. CASE f = None \/ f = Delayed
  <2>1. f.is # "changed"
    BY <1>1 DEF None, Delayed
  <2> QED
    BY <2>1, FrameShape DEF Arrived
<1>2. CASE \E i \in 1..Len(FrameOf(a)), n \in 1..255 : f = Changed(i, n)
  <2>1. PICK i \in 1..Len(FrameOf(a)), n \in 1..255 : f = Changed(i, n)
    BY <1>2
  <2>2. f.is = "changed" /\ f.at = i /\ f.by = n
    BY <2>1 DEF Changed
  <2>3. Arrived(a, f) = [FrameOf(a) EXCEPT ![i] = (@ + n) % 256]
    BY <2>2 DEF Arrived
  <2>4. Damaged(a, i, n) \in Seq(Bytes)
    BY DamageSeen
  <2> QED
    BY <2>3, <2>4 DEF Damaged
<1> QED
  BY <1>1, <1>2 DEF Faulty

LEMMA ReplyKeeps ==
  ASSUME CodecInv, protocol = "xbpi", stage = "asked",
         NEW a \in Answers \cup Refuses, NEW f \in Faults(a), Reply(a, f)
  PROVE  CodecInv'
<1>1. /\ XbpiInv /\ answer = NoCall /\ Callable(call) /\ late # Garbage
      /\ answer' = a /\ fault' = f /\ input' = input \o Arrived(a, f)
      /\ stage' = "answered" /\ UNCHANGED <<protocol, call, late, raw, result>>
  BY DEF CodecInv, XbpiInv, CallInv, LateInv, Reply, Arrived
<1>2. a \in Expected(call) /\ a \in AnswersOf(call.cmd) /\ a # NoCall /\ Fitting(a)
  <2>1. a \in Expected(call)
    BY DEF Answers, Expected
  <2>2. call.cmd \in Commands
    BY <1>1 DEF Callable
  <2> QED
    BY <1>1, <2>1, <2>2, ExpectedIs, AnswerIsRecord, AnswersShaped
<1>3. input = <<>> \/ f = None
  BY DEF Faults
<1>4. Faulty(a, f)
  <2>1. CASE input # <<>>
    BY <1>3, <2>1 DEF Faulty
  <2>2. CASE input = <<>>
    <3>1. DOMAIN FrameOf(a) = 1..Len(FrameOf(a)) /\ Noise \subseteq 1..255
      <4>1. FrameOf(a) \in Seq(Bytes)
        BY <1>2, FrameShape
      <4>2. DOMAIN FrameOf(a) = 1..Len(FrameOf(a))
        BY <4>1
      <4>3. Noise \subseteq 1..255
        BY CodecsAssumption
      <4> QED
        BY <4>2, <4>3
    <3>2. f \in {None, Delayed} \/ \E i \in 1..Len(FrameOf(a)), n \in Noise : f = Changed(i, n)
      BY <2>2, <3>1 DEF Faults
    <3> QED
      BY <3>1, <3>2 DEF Faulty
  <2> QED
    BY <2>1, <2>2
<1>5. Arrived(a, f) \in Seq(Bytes)
  BY <1>2, <1>4, ArrivesBytes
<1>6. input' \in Seq(Bytes)
  BY <1>1, <1>5, ConcatProperties DEF XbpiInv
<1>7. \/ late = Nobody /\ input' = Arrived(a, f)
      \/ /\ Belated /\ f = None
         /\ \E b \in AnswersOf(late.cmd) : b.body = late.body /\ input' = FrameOf(b) \o FrameOf(a)
  <2>1. CASE late = Nobody
    <3>1. input = <<>>
      BY <1>1, <2>1 DEF XbpiInv, LateInv
    <3>2. <<>> \o Arrived(a, f) = Arrived(a, f)
      BY <1>5, ConcatEmptySeq
    <3> QED
      BY <1>1, <2>1, <3>1, <3>2
  <2>2. CASE late # Nobody
    <3>1. Belated
      BY <1>1, <2>2 DEF Belated
    <3>2. PICK b \in AnswersOf(late.cmd) : b.body = late.body /\ input = FrameOf(b)
      BY <1>1, <3>1 DEF XbpiInv, LateInv
    <3>3. late.cmd \in Commands
      BY <1>1, <3>1 DEF XbpiInv, LateInv
    <3>4. input # <<>>
      <4>1. Fitting(b)
        BY <3>2, <3>3, AnswersShaped
      <4>2. Len(FrameOf(b)) = Len(b.body) + 4 /\ Len(b.body) \in Nat
        BY <4>1, FrameShape, UnsummedShape
      <4>3. Len(input) # 0
        BY <3>2, <4>2
      <4> QED
        BY <4>3
    <3>5. f = None /\ f.is # "changed"
      BY <1>3, <3>4 DEF None
    <3>6. Arrived(a, f) = FrameOf(a)
      BY <3>5 DEF Arrived
    <3> QED
      BY <1>1, <3>1, <3>2, <3>5, <3>6
  <2> QED
    BY <2>1, <2>2
<1>8. LateInv'
  BY <1>1, <1>2 DEF LateInv, Belated, XbpiInv
<1>9. CallInv'
  BY <1>1, <1>2 DEF CallInv, Callable, Expected
<1>10. WayInv'
  BY <1>1, <1>4, <1>7 DEF WayInv, Belated
<1>11. DoneInv'
  BY <1>1 DEF DoneInv, AnswersRead, WrongFramesSeen, Undisturbed, Accepted
<1>12. protocol' = "xbpi" /\ stage' = "answered" /\ result' = Pending
  BY <1>1 DEF CodecInv
<1> QED
  BY <1>6, <1>8, <1>9, <1>10, <1>11, <1>12 DEF CodecInv, XbpiInv

\* The client takes the first frame on the port.
LEMMA FinishKeeps ==
  ASSUME CodecInv, Finish
  PROVE  CodecInv'
<1> DEFINE got == Receive(input)
<1>1. /\ XbpiInv /\ protocol = "xbpi" /\ protocol' = "xbpi" /\ stage = "answered" /\ stage' = "done"
      /\ UNCHANGED <<protocol, call, answer, fault, late>>
      /\ answer # NoCall /\ answer \in Expected(call) /\ Callable(call)
      /\ Faulty(answer, fault)
      /\ input \in Seq(Bytes)
  BY DEF CodecInv, XbpiInv, CallInv, WayInv, Finish
<1>2. call.cmd \in Commands /\ answer \in AnswersOf(call.cmd) /\ Fitting(answer)
  BY <1>1, ExpectedIs, AnswersShaped DEF Callable
<1>3. LateInv'
  BY <1>1 DEF LateInv, Belated, XbpiInv
<1>4. CallInv'
  BY <1>1 DEF CallInv, Callable, Expected
<1>5. WayInv'
  BY <1>1 DEF WayInv
<1>6. CASE fault = Delayed
  <2>1. result' = Failed /\ input' = input
    BY <1>6 DEF Finish
  <2>2. AnswersRead' /\ WrongFramesSeen'
    <3>1. Delayed \notin {None, MissedColumns(0)} /\ Delayed.is # "changed"
      BY DEF Delayed, None, MissedColumns
    <3> QED
      BY <1>1, <1>6, <2>1, <3>1, FailedIs
      DEF AnswersRead, WrongFramesSeen, Undisturbed, Accepted
  <2> QED
    BY <1>1, <1>3, <1>4, <1>5, <2>1, <2>2, FailedIs DEF CodecInv, XbpiInv, DoneInv
<1>7. CASE fault # Delayed
  <2>1. /\ result' = Typed(call.setting, Outcome(call.cmd, got.frame))
        /\ raw' = got.raw /\ input' = got.left
    BY <1>7 DEF Finish
  <2>2. input' \in Seq(Bytes)
    BY <1>1, <2>1, ReceiveLeft
  <2>3. result'.is # "pending" /\ result' # Pending
    <3>1. result'.is # "pending"
      BY <1>2, <2>1, OutcomeEnds
    <3> QED
      BY <3>1 DEF Pending
  <2>4. AnswersRead' /\ WrongFramesSeen'
    <3>1. CASE late = Nobody /\ fault = None
      <4>1. input = FrameOf(answer)
        BY <1>1, <3>1 DEF XbpiInv, WayInv, Arrived, None, Belated
      <4>2. FrameOf(answer) \o <<>> = FrameOf(answer) /\ <<>> \in Seq(Bytes)
        BY <1>2, FrameShape, ConcatEmptySeq
      <4>3. got.frame = Frame(answer)
        <5> DEFINE rest == <<>>
        <5>1. rest \in Seq(Bytes) /\ input = FrameOf(answer) \o rest
          BY <4>1, <4>2
        <5> HIDE DEF rest
        <5>2. Receive(FrameOf(answer) \o rest).frame =
                [is |-> "frame", subtype |-> answer.subtype, body |-> answer.body]
          BY <1>2, <5>1, FrameReceived
        <5> QED
          BY <5>1, <5>2 DEF Frame
      <4>4. result' = answer'.means
        BY <1>1, <2>1, <4>3, ExpectedIs
      <4>5. None.is # "changed"
        BY DEF None
      <4> QED
        BY <1>1, <3>1, <4>4, <4>5 DEF AnswersRead, WrongFramesSeen
    <3>2. CASE late = Nobody /\ \E i \in 1..Len(FrameOf(answer)), n \in 1..255 : fault = Changed(i, n)
      <4>1. PICK i \in 1..Len(FrameOf(answer)), n \in 1..255 : fault = Changed(i, n)
        BY <3>2
      <4>2. fault.is = "changed" /\ fault.at = i /\ fault.by = n /\ fault \notin {None, MissedColumns(0)}
        BY <4>1 DEF Changed, None, MissedColumns
      <4>3. input = [FrameOf(answer) EXCEPT ![i] = (@ + n) % 256]
        BY <1>1, <3>2, <4>2 DEF XbpiInv, WayInv, Arrived, Belated
      <4>4. got.frame = Failed \/ (i = 1 /\ Len(got.raw) < Len(FrameOf(answer)))
        <5>1. input = Damaged(answer, i, n)
          BY <4>3 DEF Damaged
        <5> QED
          BY <1>2, <5>1, DamageSeen DEF CutShort
      <4>5. got.frame = Failed => result'.is = "failed"
        <5>1. Outcome(call.cmd, Failed) = Failed
          BY DEF Outcome
        <5>2. Typed(call.setting, Failed) = Failed
          BY FailedIs DEF Typed
        <5> QED
          BY <2>1, <5>1, <5>2, FailedIs
      <4> QED
        BY <1>1, <2>1, <3>2, <4>2, <4>4, <4>5 DEF AnswersRead, WrongFramesSeen, Undisturbed
    <3>3. CASE Belated /\ fault = None
      <4>1. PICK a \in AnswersOf(late.cmd) : a.body = late.body /\ input = FrameOf(a) \o FrameOf(answer)
        BY <1>1, <3>3 DEF XbpiInv, WayInv, Belated
      <4>2. late.cmd \in Commands /\ Fitting(a) /\ FrameOf(answer) \in Seq(Bytes)
        BY <1>1, <1>2, <3>3, <4>1, AnswersShaped, FrameShape DEF XbpiInv, LateInv
      <4>3. got.frame = Frame(a)
        BY <4>1, <4>2, FrameReceived DEF Frame
      <4> DEFINE o == Outcome(call.cmd, Frame(a))
      <4>4. result'.is \notin {"failed", "refusal"} => o.is \notin {"failed", "refusal"}
        BY <2>1, <4>3 DEF Typed
      <4>5. Accepted' => \/ call.cmd \in Unread
                         \/ \E family \in Alike : {call.cmd, late.cmd} \subseteq family
                         \/ call.cmd = "temperature" /\ late.cmd \in Weights /\ IsPrefix(OffScale, late.body)
        BY <1>2, <4>1, <4>2, <4>4, LateSeen DEF Accepted
      <4>6. late # Nobody /\ None.is # "changed"
        BY <3>3 DEF Belated, None
      <4> QED
        BY <1>1, <3>3, <4>5, <4>6 DEF AnswersRead, WrongFramesSeen, Undisturbed
    <3> QED
      BY <1>1, <1>7, <3>1, <3>2, <3>3 DEF XbpiInv, WayInv, Faulty
  <2> QED
    BY <1>1, <1>3, <1>4, <1>5, <2>2, <2>3, <2>4 DEF CodecInv, XbpiInv, DoneInv
<1> QED
  BY <1>6, <1>7

LEMMA ReturnKeeps ==
  ASSUME CodecInv, Return
  PROVE  CodecInv'
<1>1. /\ stage = "done" /\ stage' = "idle" /\ answer' = NoCall /\ fault' = None /\ result' = Pending
      /\ UNCHANGED <<protocol, input>>
      /\ late' = IF answer = NoCall THEN late
                 ELSE IF input = <<>> THEN Nobody
                 ELSE IF input = FrameOf(answer) THEN [cmd |-> call.cmd, body |-> answer.body]
                 ELSE Garbage
  BY DEF Return
<1>2. CASE protocol = "xbpi"
  <2>1. XbpiInv /\ protocol' = "xbpi"
    BY <1>1, <1>2 DEF CodecInv
  <2>2. CallInv' /\ WayInv' /\ DoneInv'
    BY <1>1 DEF CallInv, WayInv, DoneInv, AnswersRead, WrongFramesSeen, Undisturbed, Accepted
  <2>3. LateInv'
    <3>1. CASE answer = NoCall
      BY <1>1, <2>1, <3>1 DEF LateInv, Belated, XbpiInv
    <3>2. CASE answer # NoCall
      <4>1. Callable(call) /\ answer \in Expected(call)
        BY <1>1, <2>1, <3>2 DEF XbpiInv, CallInv
      <4>2. call.cmd \in Commands /\ answer \in AnswersOf(call.cmd)
        BY <4>1, ExpectedIs DEF Callable
      <4> DEFINE r == [cmd |-> call.cmd, body |-> answer.body]
      <4>3. r.cmd = call.cmd /\ r.body = answer.body
        OBVIOUS
      <4>4. Nobody.cmd \notin Commands /\ Garbage # Nobody
        BY DEF Nobody, Garbage, Commands, Weights, Metrology, Texts, Blobs, Acks
      <4> HIDE DEF r
      <4>5. r # Nobody
        BY <4>2, <4>3, <4>4
      <4>6. CASE input = <<>>
        <5>1. late' = Nobody /\ input' = <<>>
          BY <1>1, <3>2, <4>6
        <5> QED
          BY <1>1, <5>1 DEF LateInv, Belated
      <4>7. CASE input # <<>> /\ input = FrameOf(answer)
        <5>1. late' = r /\ input' = FrameOf(answer)
          BY <1>1, <3>2, <4>7 DEF r
        <5> QED
          BY <1>1, <4>2, <4>3, <4>5, <5>1 DEF LateInv, Belated
      <4>8. CASE input # <<>> /\ input # FrameOf(answer)
        <5>1. late' = Garbage
          BY <1>1, <3>2, <4>8
        <5> QED
          BY <1>1, <4>4, <5>1 DEF LateInv, Belated
      <4> QED
        BY <4>6, <4>7, <4>8
    <3> QED
      BY <3>1, <3>2
  <2> QED
    BY <1>1, <2>1, <2>2, <2>3 DEF CodecInv, XbpiInv
<1>3. CASE protocol = "sbi"
  <2>1. SbiInv /\ protocol' = "sbi"
    BY <1>1, <1>3 DEF CodecInv
  <2>2. late' = Nobody /\ input' = <<>> /\ input' \in Seq(Symbols)
    BY <1>1, <2>1 DEF SbiInv
  <2> QED
    BY <1>1, <2>1, <2>2 DEF CodecInv, SbiInv
<1> QED
  BY <1>2, <1>3 DEF CodecInv

-----------------------------------------------------------------------------
(* Lines.                                                                  *)

LEMMA SymbolsAre ==
  /\ Digits \cup Units \cup Words \subseteq Symbols
  /\ {" ", "?", "+", "-", ".", Bad} \subseteq Symbols
BY DEF Symbols

LEMMA SymbolIs ==
  /\ "Stat" \in Symbols /\ "HIGH" \in Symbols /\ "OVERLOAD" \in Symbols /\ "LOW" \in Symbols
  /\ "UNDER" \in Symbols /\ "ERR" \in Symbols /\ "REJECT" \in Symbols /\ "Cal." \in Symbols
  /\ "Ext." \in Symbols /\ "SerNo." \in Symbols /\ "Model" \in Symbols
  /\ "0" \in Symbols /\ "7" \in Symbols /\ "g" \in Symbols /\ "N" \in Symbols
  /\ " " \in Symbols /\ "+" \in Symbols /\ "-" \in Symbols /\ "." \in Symbols /\ Bad \in Symbols
BY DEF Symbols, Digits, Units, Words

LEMMA RowsAre ==
  ASSUME NEW S
  PROVE  /\ <<>> \in Seq(S)
         /\ \A a \in S : <<a>> \in Seq(S)
         /\ \A a, b \in S : <<a, b>> \in Seq(S)
         /\ \A a, b, c \in S : <<a, b, c>> \in Seq(S)
         /\ \A a, b, c, d \in S : <<a, b, c, d>> \in Seq(S)
         /\ \A a, b, c, d, e, f \in S : <<a, b, c, d, e, f>> \in Seq(S)
OBVIOUS

LEMMA BlanksAre ==
  ASSUME NEW n \in Nat
  PROVE  Blanks(n) \in Seq(Symbols)
<1>1. Blanks(n) \in [1..n -> Symbols]
  BY SymbolsAre DEF Blanks
<1>2. [1..n -> Symbols] \in {[1..m -> Symbols] : m \in Nat}
  OBVIOUS
<1> QED
  BY <1>1, <1>2, SeqDef

LEMMA PrintedIs ==
  ASSUME NEW d \in Displays
  PROVE  Printed(d) \in Seq(Symbols)
<1>1. /\ d.sign \in {"+", "-", " "} /\ d.unit \in Units
      /\ d.number \in Seq(Digits \cup {"."}) /\ Len(d.number) <= 8
  BY CodecsAssumption
<1> DEFINE p == IF d.wide THEN <<"N">> \o Blanks(5) ELSE <<>>
           s == <<d.sign, " ">>
           b == Blanks(8 - Len(d.number))
           n == d.number
           w == <<" ">>
           u == IF d.stable THEN <<d.unit>> \o Blanks(3 - Width(d.unit)) ELSE Blanks(3)
<1>2. p \in Seq(Symbols)
  <2>1. <<"N">> \in Seq(Symbols)
    BY SymbolIs, RowsAre
  <2>2. Blanks(5) \in Seq(Symbols)
    BY BlanksAre
  <2>3. <<>> \in Seq(Symbols)
    OBVIOUS
  <2> QED
    BY <2>1, <2>2, <2>3, ConcatProperties
<1>3. s \in Seq(Symbols) /\ w \in Seq(Symbols)
  <2>1. d.sign \in Symbols
    BY <1>1, SymbolIs
  <2> QED
    BY <2>1, SymbolIs, RowsAre
<1>4. b \in Seq(Symbols)
  <2> DEFINE m == Len(d.number)
  <2>1. m \in Nat /\ m <= 8
    BY <1>1, LenProperties
  <2> HIDE DEF m
  <2>2. 8 - m \in Nat
    BY <2>1
  <2>3. Blanks(8 - m) \in Seq(Symbols)
    BY <2>2, BlanksAre
  <2> QED
    BY <2>3 DEF m
<1>5. n \in Seq(Symbols)
  <2>1. Digits \cup {"."} \subseteq Symbols
    BY SymbolsAre
  <2> QED
    BY <1>1, <2>1, SeqMonotonic
<1>6. u \in Seq(Symbols)
  <2>1. Width(d.unit) \in {1, 2}
    BY <1>1 DEF Units, Width
  <2>2. Blanks(3 - Width(d.unit)) \in Seq(Symbols)
    <3>1. 3 - Width(d.unit) \in Nat
      BY <2>1
    <3> QED
      BY <3>1, BlanksAre
  <2>3. <<d.unit>> \in Seq(Symbols)
    <3>1. d.unit \in Symbols
      BY <1>1, SymbolsAre
    <3> QED
      BY <3>1, RowsAre
  <2>4. Blanks(3) \in Seq(Symbols)
    BY BlanksAre
  <2> QED
    BY <2>2, <2>3, <2>4, ConcatProperties
<1>7. Printed(d) = ((((p \o s) \o b) \o n) \o w) \o u
  BY DEF Printed
<1> HIDE DEF p, s, b, n, w, u
<1>8. p \o s \in Seq(Symbols)
  BY <1>2, <1>3, ConcatProperties
<1>9. (p \o s) \o b \in Seq(Symbols)
  BY <1>4, <1>8, ConcatProperties
<1>10. ((p \o s) \o b) \o n \in Seq(Symbols)
  BY <1>5, <1>9, ConcatProperties
<1>11. (((p \o s) \o b) \o n) \o w \in Seq(Symbols)
  BY <1>3, <1>10, ConcatProperties
<1> QED
  BY <1>6, <1>7, <1>11, ConcatProperties

LEMMA LinesAre ==
  ASSUME NEW c \in SbiCommands, NEW l \in Lines(c)
  PROVE  l.body \in Seq(Symbols)
<1>1. \A x \in Weighs : x.body \in Seq(Symbols)
  BY PrintedIs DEF Weighs
<1>2. \A x \in Limits : x.body \in Seq(Symbols)
  <2>1. /\ <<"HIGH">> \in Seq(Symbols) /\ <<"LOW">> \in Seq(Symbols) /\ <<"OVERLOAD">> \in Seq(Symbols)
        /\ <<"UNDER">> \in Seq(Symbols)
    BY SymbolIs, RowsAre
  <2>2. <<"Stat", " ", "HIGH">> \in Seq(Symbols)
    BY SymbolIs, RowsAre
  <2>3. SUFFICES ASSUME NEW x \in Limits PROVE x.body \in Seq(Symbols)
    OBVIOUS
  <2>4. PICK m \in {<<"HIGH">>, <<"LOW">>, <<"OVERLOAD">>, <<"UNDER">>, <<"Stat", " ", "HIGH">>} :
          x = [body |-> m, means |-> OffScaleLine(IF m[1] = "Stat" THEN SubSeq(m, 3, 3) ELSE m)]
    BY DEF Limits
  <2>5. x.body = m
    BY <2>4
  <2>6. \/ m = <<"HIGH">> \/ m = <<"LOW">> \/ m = <<"OVERLOAD">> \/ m = <<"UNDER">>
        \/ m = <<"Stat", " ", "HIGH">>
    BY <2>4
  <2> QED
    BY <2>1, <2>2, <2>5, <2>6
<1>3. \A x \in OtherLines : x.body \in Seq(Symbols)
  <2>1. <<>> \in Seq(Symbols) /\ <<"REJECT">> \in Seq(Symbols)
    BY SymbolIs, RowsAre
  <2>2. <<"Stat", " ">> \in Seq(Symbols)
    BY SymbolIs, RowsAre
  <2>3. <<"Cal.", " ", "Ext.">> \in Seq(Symbols) /\ <<"7", Bad, "g">> \in Seq(Symbols)
    BY SymbolIs, RowsAre
  <2>4. <<"ERR", " ", "7", "0">> \in Seq(Symbols)
    BY SymbolIs, RowsAre
  <2>5. <<"SerNo.", " ", " ", "7", "0", "7">> \in Seq(Symbols)
    BY SymbolIs, RowsAre
  <2>6. SUFFICES ASSUME NEW x \in OtherLines PROVE x.body \in Seq(Symbols)
    OBVIOUS
  <2>7. PICK m \in {<<>>, <<"Stat", " ">> , <<"Cal.", " ", "Ext.">>, <<"ERR", " ", "7", "0">>, <<"REJECT">>,
                    <<"7", Bad, "g">>, <<"SerNo.", " ", " ", "7", "0", "7">>} :
          x = [body |-> m, means |-> [is |-> "other"]]
    BY DEF OtherLines
  <2>8. x.body = m
    BY <2>7
  <2>9. \/ m = <<>> \/ m = <<"Stat", " ">> \/ m = <<"Cal.", " ", "Ext.">> \/ m = <<"ERR", " ", "7", "0">>
        \/ m = <<"REJECT">> \/ m = <<"7", Bad, "g">> \/ m = <<"SerNo.", " ", " ", "7", "0", "7">>
    BY <2>7
  <2> QED
    BY <2>1, <2>2, <2>3, <2>4, <2>5, <2>8, <2>9
<1>4. \A t : TextLine(t).body = t
  BY DEF TextLine
<1>5. /\ <<"Model">> \in Seq(Symbols) /\ <<"7", "0", ".", "7">> \in Seq(Symbols)
      /\ <<"SerNo.", " ", " ", "7", "0", "7">> \in Seq(Symbols) /\ <<"7", "0", "7">> \in Seq(Symbols)
  <2>1. <<"Model">> \in Seq(Symbols)
    BY SymbolIs, RowsAre
  <2>2. <<"7", "0", ".", "7">> \in Seq(Symbols)
    BY SymbolIs, RowsAre
  <2>3. <<"7", "0", "7">> \in Seq(Symbols)
    BY SymbolIs, RowsAre
  <2>4. <<"SerNo.", " ", " ", "7", "0", "7">> \in Seq(Symbols)
    BY SymbolIs, RowsAre
  <2> QED
    BY <2>1, <2>2, <2>3, <2>4
<1>6. CASE c = "net"
  BY <1>1, <1>2, <1>6 DEF Lines
<1>7. CASE c = "listen"
  BY <1>1, <1>2, <1>3, <1>7 DEF Lines
<1>8. CASE c = "status"
  <2>1. PICK k \in Weighs \cup Limits : l = [k EXCEPT !.means = StatusOfLine(k.means)]
    BY <1>8 DEF Lines
  <2>2. k = [body |-> k.body, means |-> k.means]
    <3>1. CASE k \in Weighs
      <4>1. PICK d \in Displays : k = [body |-> Printed(d), means |-> MeansOf(d)]
        BY <3>1 DEF Weighs
      <4> QED
        BY <4>1
    <3>2. CASE k \in Limits
      <4>1. PICK m : k = [body |-> m, means |-> OffScaleLine(IF m[1] = "Stat" THEN SubSeq(m, 3, 3) ELSE m)]
        BY <3>2 DEF Limits
      <4> QED
        BY <4>1
    <3> QED
      BY <2>1, <3>1, <3>2
  <2>3. l.body = k.body
    BY <2>1, <2>2
  <2> QED
    BY <1>1, <1>2, <2>3
<1>9. CASE c = "model"
  BY <1>4, <1>5, <1>9 DEF Lines
<1>10. CASE c = "software"
  BY <1>4, <1>5, <1>10 DEF Lines
<1>11. CASE c = "factory"
  BY <1>4, <1>5, <1>11 DEF Lines
<1> QED
  BY <1>6, <1>7, <1>8, <1>9, <1>10, <1>11 DEF SbiCommands

LEMMA AskLineKeeps ==
  ASSUME CodecInv, NEW c \in SbiCommands, AskLine(c)
  PROVE  CodecInv'
<1>1. /\ protocol = "sbi" /\ protocol' = "sbi" /\ stage = "idle" /\ stage' = "asked" /\ call'.cmd = c
      /\ UNCHANGED <<input, late, result>>
  BY DEF AskLine
<1> QED
  BY <1>1 DEF CodecInv, SbiInv

LEMMA ReplyLineKeeps ==
  ASSUME CodecInv, protocol = "sbi", stage = "asked",
         NEW l \in Lines(call.cmd), NEW missed \in 0..Len(l.body), ReplyLine(l, missed)
  PROVE  CodecInv'
<1>1. /\ SbiInv /\ protocol' = "sbi" /\ stage' = "answered" /\ input' = Rest(l.body, missed)
      /\ UNCHANGED <<call, late, result>>
  BY DEF CodecInv, ReplyLine
<1>2. l.body \in Seq(Symbols)
  BY <1>1, LinesAre DEF SbiInv
<1>3. input' \in Seq(Symbols)
  <2> DEFINE b == l.body
  <2>1. b \in Seq(Symbols) /\ missed \in 0..Len(b)
    BY <1>2
  <2> HIDE DEF b
  <2>2. \A i \in 1..Len(b) : b[i] \in Symbols
    BY <2>1, ElementOfSeq
  <2>3. Len(b) \in Int /\ missed + 1 \in Int /\ \A i \in (missed + 1)..Len(b) : i \in 1..Len(b)
    BY <2>1
  <2>4. \A i \in (missed + 1)..Len(b) : b[i] \in Symbols
    BY <2>2, <2>3
  <2>5. SubSeq(b, missed + 1, Len(b)) \in Seq(Symbols)
    BY <2>3, <2>4, SubSeqProperties
  <2> QED
    BY <1>1, <2>5 DEF Rest, b
<1> QED
  BY <1>1, <1>3 DEF CodecInv, SbiInv

LEMMA FinishLineKeeps ==
  ASSUME CodecInv, FinishLine
  PROVE  CodecInv'
<1>1. /\ protocol = "sbi" /\ protocol' = "sbi" /\ stage = "answered" /\ stage' = "done" /\ input' = <<>>
      /\ result' = SbiAnswer(call.cmd, input) /\ UNCHANGED <<call, late>>
  BY DEF FinishLine
<1>2. input' \in Seq(Symbols)
  BY <1>1
<1>3. \A c, x : SbiAnswer(c, x).is # "pending"
  <2> SUFFICES ASSUME NEW c, NEW x PROVE SbiAnswer(c, x).is # "pending"
    OBVIOUS
  <2>1. \A r : StatusOfLine(r).is = "linestatus"
    BY DEF StatusOfLine
  <2>2. ReadingOf(x).is = "line"
    BY DEF ReadingOf, OffScaleLine
  <2> QED
    BY <2>1, <2>2 DEF SbiAnswer
<1>4. result' # Pending
  BY <1>1, <1>3 DEF Pending
<1> QED
  BY <1>1, <1>2, <1>4 DEF CodecInv, SbiInv

-----------------------------------------------------------------------------
(* Every step keeps the invariant.                                         *)

LEMMA CodecStutterKeeps ==
  ASSUME CodecInv, UNCHANGED codecVars
  PROVE  CodecInv'
<1>1. /\ protocol' = protocol /\ stage' = stage /\ call' = call /\ answer' = answer /\ input' = input
      /\ fault' = fault /\ late' = late /\ raw' = raw /\ result' = result
  BY DEF codecVars
<1>2. LateInv' = LateInv /\ CallInv' = CallInv /\ WayInv' = WayInv
  BY <1>1 DEF LateInv, CallInv, WayInv, Belated, ReadBack
<1>3. DoneInv' = DoneInv
  BY <1>1 DEF DoneInv, AnswersRead, WrongFramesSeen, Undisturbed, Accepted
<1> QED
  BY <1>1, <1>2, <1>3 DEF CodecInv, XbpiInv, SbiInv

LEMMA CodecStep ==
  ASSUME CodecInv, [CodecNext]_codecVars
  PROVE  CodecInv'
<1>1. CASE \E c \in Commands : \E arguments \in Arguments(c) : Ask(c, arguments)
  BY <1>1, AskCalls, CalledKeeps
<1>2. CASE \E s \in DOMAIN Index : Get(s)
  BY <1>2, GetCalls, CalledKeeps
<1>3. CASE \E s \in DOMAIN Index : \E g \in Givens(s) : Set(s, g[1], g[2])
  BY <1>3, SetCalls, CalledKeeps
<1>4. CASE /\ stage = "asked" /\ protocol = "xbpi"
           /\ \E a \in Answers \cup Refuses : \E f \in Faults(a) : Reply(a, f)
  BY <1>4, ReplyKeeps
<1>5. CASE Finish
  BY <1>5, FinishKeeps
<1>6. CASE \E c \in SbiCommands : AskLine(c)
  BY <1>6, AskLineKeeps
<1>7. CASE /\ stage = "asked" /\ protocol = "sbi"
           /\ \E l \in Lines(call.cmd) : \E missed \in 0..Len(l.body) : ReplyLine(l, missed)
  BY <1>7, ReplyLineKeeps
<1>8. CASE FinishLine
  BY <1>8, FinishLineKeeps
<1>9. CASE Return
  BY <1>9, ReturnKeeps
<1>10. CASE UNCHANGED codecVars
  BY <1>10, CodecStutterKeeps
<1> QED
  BY <1>1, <1>2, <1>3, <1>4, <1>5, <1>6, <1>7, <1>8, <1>9, <1>10 DEF CodecNext

LEMMA CodecAlways == CodecSpec => []CodecInv
<1>1. CodecInit => CodecInv
  BY CodecInitHolds
<1>2. CodecInv /\ [CodecNext]_codecVars => CodecInv'
  BY CodecStep
<1> QED
  BY <1>1, <1>2, PTL DEF CodecSpec

LEMMA TypesFollow == CodecInv => CodecTypeOK
<1> SUFFICES ASSUME CodecInv PROVE CodecTypeOK
  OBVIOUS
<1>1. /\ protocol \in {"xbpi", "sbi"} /\ stage \in {"idle", "asked", "answered", "done"}
      /\ (stage = "done") = (result # Pending)
  BY DEF CodecInv
<1>2. ASSUME protocol = "xbpi" PROVE input \in Seq(Bytes) /\ (stage = "asked" => call.request \in Seq(Bytes))
  BY <1>2 DEF CodecInv, XbpiInv, CallInv, ReadBack
<1>3. ASSUME protocol = "sbi" PROVE SbiInv
  BY <1>3 DEF CodecInv
<1>4. \A s \in Seq(Bytes) : \A i \in DOMAIN s : s[i] \in 0..255
  <2>1. \A s \in Seq(Bytes) : \A i \in DOMAIN s : s[i] \in Bytes
    BY ElementOfSeq
  <2> QED
    BY <2>1 DEF Bytes
<1>5. \A i \in DOMAIN input : IF protocol = "xbpi" THEN input[i] \in 0..255 ELSE input[i] \in Symbols
  <2>1. CASE protocol = "xbpi"
    BY <1>2, <1>4, <2>1
  <2>2. CASE protocol = "sbi"
    <3>1. \A i \in DOMAIN input : input[i] \in Symbols
      BY <1>3, <2>2, ElementOfSeq DEF SbiInv
    <3> QED
      BY <2>2, <3>1
  <2> QED
    BY <1>1, <2>1, <2>2
<1>6. protocol = "xbpi" /\ stage = "asked" => \A i \in DOMAIN call.request : call.request[i] \in 0..255
  BY <1>2, <1>4
<1>7. protocol = "sbi" => (stage # "answered" => input = <<>>) /\ late = Nobody
  BY <1>3 DEF SbiInv
<1> QED
  BY <1>1, <1>5, <1>6, <1>7 DEF CodecTypeOK

\* Every request that is written reads back at the balance as the opcode, the address
\* and the arguments of the call, whatever arguments callers give: build_command and
\* encode_tlv lose nothing, and raise on what does not fit.
THEOREM RequestReadBackAlways == CodecSpec => []RequestReadBack
<1>1. CodecInv => RequestReadBack
  BY TypesFollow DEF RequestReadBack, CodecInv, XbpiInv, CallInv, ReadBack
<1> QED
  BY <1>1, CodecAlways, PTL

\* An xBPI answer that nothing disturbed gives the caller what the balance meant by it,
\* for every weight a balance can put in its eight bytes and every float
\* (read_frame, parse_frame, parse_tlvs and the decode of every command).
THEOREM AnswersReadAlways == CodecSpec => []AnswersRead
<1>1. CodecInv => AnswersRead
  BY DEF CodecInv, XbpiInv, DoneInv, AnswersRead
<1> QED
  BY <1>1, CodecAlways, PTL

\* One changed byte of an answer, whatever is added to it, makes the call fail unless
\* it cut the frame at a byte that is its checksum; and a late answer of another command
\* passes only for one of the same shape, to a command that checks nothing of it, or as
\* a missing sensor (parse_frame's checksum, the commands' decode).
THEOREM WrongFramesSeenAlways == CodecSpec => []WrongFramesSeen
<1>1. CodecInv => WrongFramesSeen
  BY DEF CodecInv, XbpiInv, DoneInv, WrongFramesSeen, Accepted
<1> QED
  BY <1>1, CodecAlways, PTL
=============================================================================
