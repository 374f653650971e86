---------------------------- MODULE OpenDevice ----------------------------
(***************************************************************************)
(* open_device: open the port, find out which protocol the balance speaks  *)
(* when the caller asks for AUTO (listen for autoprint, then one xBPI      *)
(* probe, then two SBI probes), build the client, seed its autoprint       *)
(* state, and identify the balance, again after a cold-open transient.     *)
(* Any failure closes the port. discover_port detects only, and closes the *)
(* port whatever comes of it; find_devices repeats it at one baud rate     *)
(* after the other, one row of results each.                               *)
(*                                                                         *)
(* The wire carries whole items: lines, frames, and scraps (bytes that are *)
(* neither, such as a reply that lost its first bytes). Identification is  *)
(* one step per attempt: XbpiLink and SbiAutoprint look inside exchanges.  *)
(***************************************************************************)
EXTENDS Naturals, Sequences

CONSTANTS
  MaxRetries,  \* _COLD_OPEN_MAX_RETRIES
  MaxPending,  \* lines a forced SBI open queues while it listens
  MaxItems,    \* bound: items that the balance sends before their numbers start over
  MaxBaud      \* baud rates of a sweep, in the order tried

ASSUME OpenAssumption ==
  /\ MaxRetries \in Nat
  /\ MaxPending \in Nat \ {0}
  /\ MaxItems \in Nat
  /\ MaxBaud \in Nat \ {0}

VARIABLES
  asked,    \* the caller's protocol and identify arguments, or a sweep
  speaks,   \* what the balance speaks
  rate,     \* at which of the baud rates
  printing, \* autoprint is on
  pc,       \* what open_device awaits
  over,     \* the deadline of its listening window has passed
  found,    \* the protocol resolved so far
  active,   \* the SBI client's autoprint flag
  pending,  \* its queued lines
  wire,     \* items sent by the balance and not read
  sent,     \* the number of the last item it sent
  owes,     \* requests that it has not answered
  probes,   \* how many probes were written
  count,    \* Session.recoverable_error_count
  error,    \* what open_device raised
  port,     \* the port is open
  lost,     \* a weight line was read or drained and not kept
  baud,     \* the baud rate of the port
  rows      \* what find_devices has to show

device == <<asked, speaks, rate, printing>>
opener == <<found, active, pending, probes, count, lost, over>>
vars == <<device, opener, pc, wire, sent, owes, error, port, baud, rows>>

Protocols == {"xbpi", "sbi"}
Probes    == <<"xbpi", "type", "print">>
\* A weight line is one that is_autoprint_line accepts, a status line among them.
Kinds     == {"weight", "text", "frame", "scrap"}
Items     == [kind : Kinds, seq : 1..MaxItems]

Init ==
  /\ asked \in [protocol : Protocols \cup {"auto"}, identify : BOOLEAN, sweep : BOOLEAN]
  /\ asked.sweep => asked.protocol = "auto" /\ ~asked.identify
  /\ speaks \in Protocols \cup {"none"}
  /\ rate \in 1..MaxBaud /\ (~asked.sweep => rate = 1)
  /\ baud = 1 /\ rows = <<>>
  /\ printing \in BOOLEAN /\ (printing => speaks = "sbi")
  /\ pc = "closed" /\ over = FALSE /\ port = FALSE /\ error = "none"
  /\ found = "none" /\ active = FALSE /\ pending = <<>>
  /\ wire = <<>> /\ sent = 0 /\ owes = <<>>
  /\ probes = 0 /\ count = 0 /\ lost = FALSE

-----------------------------------------------------------------------------
(* The balance and the line.                                               *)

\* The items are numbered, and the numbers start over once all of them were read and
\* none is kept: a balance that prints never falls silent.
LastNumber == IF sent = MaxItems /\ wire = <<>> /\ ~active THEN 0 ELSE sent

\* At another baud rate whatever it sends is a scrap, and a closed port reads nothing.
Emit(kind) ==
  /\ LastNumber < MaxItems
  /\ sent' = LastNumber + 1
  /\ wire' = IF pc = "next" THEN wire
             ELSE Append(wire, [kind |-> IF rate = baud THEN kind ELSE "scrap", seq |-> sent'])
  /\ UNCHANGED <<device, opener, pc, error, port, baud, rows>>

\* Lines that nobody asked for, also before the port is opened.
Unasked == printing /\ (Emit("weight") \/ Emit("text")) /\ UNCHANGED owes

\* A request in the balance's own protocol is answered, perhaps without its first
\* bytes; one in the other protocol gives a scrap, or nothing.
Answer ==
  /\ owes # <<>>
  /\ owes' = Tail(owes)
  /\ \/ speaks # "none"                          /\ Emit("scrap")
     \/ Head(owes) = "xbpi"  /\ speaks = "xbpi" /\ Emit("frame")
     \/ Head(owes) = "type"  /\ speaks = "sbi"  /\ Emit("text")
     \/ Head(owes) = "print" /\ speaks = "sbi"  /\ Emit("weight")

Ignore ==
  /\ owes # <<>>
  /\ owes' = Tail(owes)
  /\ UNCHANGED <<device, opener, pc, wire, sent, error, port, baud, rows>>

-----------------------------------------------------------------------------
(* What the steps of open_device do.                                       *)

Goto(l) == pc' = l /\ UNCHANGED <<error, port, rows>>

\* Mutant: the sweep goes on after a hit.
RowOnAndOn(ok, e, protocol) ==
  /\ rows' = Append(rows, [ok |-> ok, baud |-> baud, error |-> e, protocol |-> protocol])
  /\ port' = FALSE
  /\ pc' = IF baud = MaxBaud THEN "swept" ELSE "next"
  /\ UNCHANGED error

\* discover_port's finally closes the port, its row joins the results, and
\* find_devices goes on to the next baud rate: not after a hit, and not after a
\* connection error, whether the port failed to open or failed in detection.
Row(ok, e, protocol) ==
  /\ rows' = Append(rows, [ok |-> ok, baud |-> baud, error |-> e, protocol |-> protocol])
  /\ port' = FALSE
  /\ pc' = IF ok \/ e = "connection" \/ baud = MaxBaud THEN "swept" ELSE "next"
  /\ UNCHANGED error

\* Mutant: the error path does not close the port.
RaiseOpen(e) == pc' = "failed" /\ error' = e /\ UNCHANGED <<port, rows>>

\* except BaseException: close the port, raise. A sweep makes a row of any error of
\* the library.
Raise(e) ==
  IF asked.sweep /\ e # "cancelled" THEN Row(FALSE, e, "none")
  ELSE pc' = "failed" /\ error' = e /\ port' = FALSE /\ UNCHANGED rows

\* The session is built. With autoprint active it is not identified.
Proceed(autoprint) ==
  IF asked.sweep THEN Row(TRUE, "none", found')
  ELSE IF asked.identify /\ autoprint THEN Raise("autoprint")
  ELSE Goto(IF asked.identify THEN "identify" ELSE "open")

\* read_until returns what arrived up to the end of the first line: a line with
\* something in front of it reads as no autoprint line.
LineEnds(i) == wire[i].kind \in {"weight", "text"}
                 /\ \A j \in 1..(i - 1) : wire[j].kind \in {"frame", "scrap"}
HasLine     == \E i \in DOMAIN wire : LineEnds(i)
TakeLine(i) == wire' = SubSeq(wire, i + 1, Len(wire))
Weight(s)   == \E i \in DOMAIN s : s[i].kind = "weight"

\* drain_input discards what has arrived by then.
Drain ==
  \E n \in 0..Len(wire) :
    /\ wire' = SubSeq(wire, n + 1, Len(wire))
    /\ lost' = (lost \/ Weight(SubSeq(wire, 1, n)))

\* Mutant: the line is drained before it is listened to.
OpenDrained ==
  /\ pc = "closed"
  /\ asked.protocol = "auto"
  /\ port' = TRUE
  /\ pc' = "sniff" /\ over' = FALSE
  /\ Drain
  /\ UNCHANGED <<device, found, active, pending, probes, count, sent, owes, error, baud, rows>>

\* A listening window begins, if there is one.
Open ==
  /\ pc = "closed"
  /\ over' = FALSE
  /\ found' = IF asked.protocol = "auto" THEN "none" ELSE asked.protocol
  /\ \/ /\ port' = TRUE
        /\ pc' = CASE asked.protocol = "auto" -> "sniff"
                   [] asked.protocol = "sbi"  -> "listen"
                   [] OTHER -> IF asked.identify THEN "identify" ELSE "open"
        /\ UNCHANGED <<error, rows>>
     \/ Raise("connection")
  /\ UNCHANGED <<device, active, pending, probes, count, lost, wire, sent, owes, baud>>

\* The next probe of the sweep has a transport and a port of its own; what the closed
\* port had received is gone, what the balance still owes is not.
NextBaud ==
  /\ pc = "next"
  /\ baud' = baud + 1
  /\ pc' = "closed"
  /\ wire' = <<>> /\ probes' = 0
  /\ UNCHANGED <<device, found, active, pending, count, lost, over, sent, owes, error, port, rows>>

-----------------------------------------------------------------------------
(* detect_protocol.                                                        *)

\* The window of the sniff, or of a forced SBI open, is over. The first read returns a
\* line that is there; a later one may find no time left for it.
Deadline ==
  /\ pc \in {"sniff", "sniffOn", "listen", "listenOn"}
  /\ pc \in {"sniff", "listen"} => ~HasLine
  /\ over' = TRUE
  /\ UNCHANGED <<device, found, active, pending, probes, count, lost, pc, wire, sent, owes, error,
                 port, baud, rows>>

\* The line that is read. Mutant: it is read whether the window is over or not.
SniffLine ==
  /\ pc \in {"sniff", "sniffOn"}
  /\ \E i \in DOMAIN wire :
       /\ LineEnds(i)
       /\ TakeLine(i)
       /\ IF i = 1 /\ wire[1].kind = "weight"
          THEN /\ found' = "sbi" /\ active' = TRUE /\ pending' = <<wire[1]>>
               /\ Proceed(TRUE)
               /\ UNCHANGED lost
          ELSE /\ Goto("sniffOn")
               /\ lost' = (lost \/ wire[i].kind = "weight")
               /\ UNCHANGED <<found, active, pending>>
  /\ UNCHANGED <<device, probes, count, over, sent, owes, baud>>

\* "while anyio.current_time() < deadline": the sniff ends at an autoprint line, which
\* is kept for the client; other lines are dropped.
Sniff == ~over /\ SniffLine

\* No line came in time, or the last one that did was no autoprint line.
SniffEnds ==
  /\ pc \in {"sniff", "sniffOn"}
  /\ over
  /\ Goto("probe")
  /\ UNCHANGED <<device, opener, wire, sent, owes, baud>>

\* Drain and write the next probe; a write that times out counts as no answer.
Probe ==
  /\ pc = "probe"
  /\ probes < Len(Probes)
  /\ probes' = probes + 1
  /\ Drain
  /\ \/ Goto("await") /\ owes' = Append(owes, Probes[probes + 1])
     \/ Goto("probe") /\ owes' \in {owes, Append(owes, Probes[probes + 1])}
  /\ UNCHANGED <<device, found, active, pending, count, over, sent, baud>>

NoDevice ==
  /\ pc = "probe"
  /\ probes = Len(Probes)
  /\ Raise("no device")
  /\ UNCHANGED <<device, opener, wire, sent, owes, baud>>

\* Mutant: bytes of any kind prove xBPI.
XbpiProbedByAnything ==
  /\ pc = "await" /\ probes = 1
  /\ wire # <<>>
  /\ found' = "xbpi"
  /\ wire' = Tail(wire)
  /\ Proceed(FALSE)
  /\ UNCHANGED <<device, active, pending, probes, count, lost, over, sent, owes, baud>>

\* A whole frame means xBPI. Anything else times out or does not parse and is no
\* answer. But a read that returns no byte at all, the length byte or what should
\* follow it, raises a transient (read_exact), and so does a frame of less than four
\* bytes (parse_frame), which a scrap may look like; the probe does not catch it.
XbpiProbed ==
  /\ pc = "await" /\ probes = 1
  /\ \/ /\ wire # <<>> /\ Head(wire).kind = "frame"
        /\ found' = "xbpi"
        /\ wire' = Tail(wire)
        /\ Proceed(FALSE)
     \/ /\ wire # <<>> /\ Head(wire).kind # "frame"
        /\ Goto("probe")
        /\ UNCHANGED <<found, wire>>
     \/ /\ wire # <<>> => Head(wire).kind = "scrap"
        /\ Raise("transient")
        /\ UNCHANGED <<found, wire>>
  /\ UNCHANGED <<device, active, pending, probes, count, lost, over, sent, owes, baud>>

\* Any line means SBI; it is evidence only, and dropped. No line is no answer.
SbiProbed ==
  /\ pc = "await" /\ probes > 1
  /\ \/ \E i \in DOMAIN wire :
          /\ LineEnds(i)
          /\ TakeLine(i)
          /\ found' = "sbi"
          /\ lost' = (lost \/ wire[i].kind = "weight")
          /\ Proceed(FALSE)
     \/ ~HasLine /\ Goto("probe") /\ UNCHANGED <<found, lost, wire>>
  /\ UNCHANGED <<device, active, pending, probes, count, over, sent, owes, baud>>

-----------------------------------------------------------------------------
(* A forced SBI open, identification, and what may always happen.          *)

\* The client listens and queues every line, up to an autoprint line.
Listen ==
  /\ pc \in {"listen", "listenOn"}
  /\ ~over
  /\ \E i \in DOMAIN wire :
       /\ LineEnds(i)
       /\ TakeLine(i)
       /\ pending' = Append(pending, [wire[i] EXCEPT !.kind = IF i = 1 THEN @ ELSE "text"])
       /\ active' = (i = 1 /\ wire[1].kind = "weight")
       /\ IF active' \/ Len(pending') = MaxPending THEN Proceed(active') ELSE Goto("listenOn")
  /\ UNCHANGED <<device, found, probes, count, lost, over, sent, owes, baud>>

ListenEnds ==
  /\ pc \in {"listen", "listenOn"}
  /\ over
  /\ Proceed(FALSE)
  /\ UNCHANGED <<device, opener, wire, sent, owes, baud>>

Identified ==
  /\ pc = "identify"
  /\ speaks = found /\ rate = baud
  /\ Goto("open")
  /\ UNCHANGED <<device, opener, wire, sent, owes, baud>>

\* Mutant: a retry is not counted.
TransientForEver ==
  /\ pc = "identify"
  /\ found = "xbpi"
  /\ Goto("backoff")
  /\ UNCHANGED <<device, opener, wire, sent, owes, baud>>

\* An xBPI read that got no byte: after a pause the whole identification is tried
\* again, MaxRetries times.
Transient ==
  /\ pc = "identify"
  /\ found = "xbpi"
  /\ count' = count + 1
  /\ IF count < MaxRetries THEN Goto("backoff") ELSE Raise("connection")
  /\ UNCHANGED <<device, found, active, pending, probes, lost, over, wire, sent, owes, baud>>

Retry ==
  /\ pc = "backoff"
  /\ Goto("identify")
  /\ UNCHANGED <<device, opener, wire, sent, owes, baud>>

\* Any other failure of an exchange, a port that fails, a cancelled caller.
Fails(e) ==
  /\ pc \notin {"closed", "next", "open", "failed", "swept"}
  /\ e = "device" => pc = "identify"
  /\ Raise(e)
  /\ UNCHANGED <<device, opener, wire, sent, owes, baud>>

-----------------------------------------------------------------------------
Advance ==
  \/ Sniff \/ SniffEnds \/ Probe \/ NoDevice \/ XbpiProbed \/ SbiProbed
  \/ Listen \/ ListenEnds \/ Identified \/ Transient \/ Retry
  \/ \E e \in {"device", "connection", "cancelled"} : Fails(e)

Next == Open \/ NextBaud \/ Deadline \/ Advance \/ Unasked \/ Answer \/ Ignore

\* Every await of open_device is bounded by a timeout, and time passes, whatever the
\* balance sends meanwhile.
Spec ==
  /\ Init /\ [][Next]_vars
  /\ WF_vars(Advance) /\ WF_vars(Deadline)
  /\ WF_vars(NextBaud) /\ WF_vars(asked.sweep /\ rows # <<>> /\ Open)

-----------------------------------------------------------------------------
Errors == {"none", "connection", "transient", "no device", "autoprint", "device", "cancelled"}

TypeOK ==
  /\ pc \in {"closed", "sniff", "sniffOn", "probe", "await", "listen", "listenOn",
             "identify", "backoff", "open", "failed", "next", "swept"}
  /\ found \in Protocols \cup {"none"}
  /\ pending \in Seq(Items) /\ wire \in Seq(Items)
  /\ sent \in 0..MaxItems
  /\ owes \in Seq({"xbpi", "type", "print"})
  /\ probes \in 0..3 /\ count \in Nat
  /\ error \in Errors
  /\ {active, port, lost, over} \subseteq BOOLEAN
  /\ rate \in 1..MaxBaud /\ baud \in 1..MaxBaud
  /\ rows \in Seq([ok : BOOLEAN, baud : 1..MaxBaud, error : Errors, protocol : Protocols \cup {"none"}])
  \* Transients are counted once each, and MaxRetries + 1 of them are an error.
  /\ count <= MaxRetries + 1
  /\ count = MaxRetries + 1 => pc = "failed" /\ error = "connection"

\* "except BaseException: await transport.close()" (open_device): a balance comes with
\* an open port, and an error of whatever step leaves it closed.
PortFollowsOutcome ==
  /\ TypeOK
  /\ pc = "open" => port
  /\ pc \in {"failed", "next", "swept"} => ~port

\* Whatever was left on the line, AUTO resolves to the protocol the balance speaks,
\* and only at its own baud rate.
DetectedIsSpoken ==
  asked.protocol = "auto" /\ found # "none" => found = speaks /\ rate = baud

\* "until a probe reports ok=True, a probe's port-open failure short-circuits the port,
\* or every baud has been tried" (find_devices): no baud rate is left out or tried
\* twice, a hit or a connection error is the last row, and the balance that was hit is
\* the one that is there.
SweepAccounted ==
  /\ \A i \in DOMAIN rows : rows[i].baud = i
  /\ \A i \in DOMAIN rows : rows[i].ok \/ rows[i].error = "connection" => i = Len(rows)
  /\ \A i \in DOMAIN rows : rows[i].ok => rows[i].protocol = speaks /\ i = rate
  /\ pc = "swept" => \/ Len(rows) = MaxBaud
                     \/ rows[Len(rows)].ok
                     \/ rows[Len(rows)].error = "connection"

\* "The design promises we will not drop the first sample" (detect.py): when AUTO finds
\* autoprint, the first weight line is queued, everything after it is still to be
\* read, and no probe has disturbed the balance.
FirstSampleKept ==
  asked.protocol = "auto" /\ ~asked.sweep /\ active =>
    /\ ~lost /\ probes = 0
    /\ Len(pending) = 1 /\ pending[1].kind = "weight"
    /\ \A n \in (pending[1].seq + 1)..sent : \E i \in DOMAIN wire : wire[i].seq = n

\* open_device returns or raises, also on a line that never stops talking: lines that
\* are none of autoprint keep a sniff awake only until its deadline, and transients are
\* retried MaxRetries times.
OpenEnds == pc # "closed" ~> pc \in {"open", "failed", "swept"}

\* "No xBPI or SBI device responded: neither the passive sniff nor either probe produced
\* a recognisable reply" (detect_protocol): unless the port fails or the caller is
\* cancelled, detection gives up only after all the probes.
AllProbesTried ==
  pc = "failed" /\ found = "none" /\ error \notin {"connection", "cancelled"}
    => probes = Len(Probes)
=============================================================================
