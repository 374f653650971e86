------------------------------- MODULE Upkeep -------------------------------
(***************************************************************************)
(* Looking after one balance: the calls that find out what it is           *)
(* (identify, discover_temperature_sensors) and those that change how it   *)
(* is reached (set_baud_rate, write_sbn_address, configure_protocol, raw   *)
(* commands), on a Balance or through the one-shot helpers of              *)
(* maintenance.py. One task, the keeper, makes these calls, each a series  *)
(* of requests with the lock free in between; another, the reader, runs    *)
(* typed and raw commands at any time and learns availability.             *)
(*                                                                         *)
(* A request and its reply are one step: what happens inside is XbpiLink   *)
(* and SessionSwitch. So every reply is here its own request's; a refusal  *)
(* that comes late, and is taken for another command's, is XbpiLink's      *)
(* DenialJustified. The line may lose a request or a reply, a reopen may   *)
(* fail, the keeper may be cancelled, and the user may flip the protocol   *)
(* on the front panel.                                                     *)
(***************************************************************************)
EXTENDS Naturals, Sequences, FiniteSets

CONSTANTS
  Setups,     \* balances and links: see AllSetups
  Rates,      \* line rates, and the wire codes of 0x5C, named by their rate
  Addresses,  \* SBN addresses
  ReaderCommands, \* typed commands that the reader uses
  ReaderRaws, \* raw requests that it uses, by protocol
  MaxIndex,   \* max_index of discover_temperature_sensors
  MaxCalls,   \* bound: the keeper's calls
  MaxFaults,  \* bound: lost requests or replies, failed reopens, cancellations
  MaxPanel    \* bound: protocol changes on the front panel

VARIABLES
  setup,    \* what does not change: the balance's make and slots, the link, strict
  bal,      \* the balance's protocol, rate, address and menu
  host,     \* the session and its port
  denied,   \* the commands that Session._availability has as UNSUPPORTED
  refused,  \* those the balance refused the session's present client, by 0x04
  info,     \* Balance._info: what its identification and discovery found
  task,     \* the keeper's call: the step it is at and its arguments
  found,    \* what the last discovery that returned had found
  excuse,   \* the rate may have parted from the balance's, by a named accident
  unasked,  \* what callers had said of confirm, short of yes, whose requests
            \* changed what the balance keeps
  bounds    \* calls, faults and panel changes so far

vars == <<setup, bal, host, denied, refused, info, task, found, excuse, unasked, bounds>>

Protocols == {"xbpi", "sbi"}
Sensors   == 0..MaxIndex
Makes     == {"mse", "wz", "bce"}
Says      == {"yes", "no", "nothing"}

\* What a make's firmware answers to an index that it does not have: 0x10, 0x04 in
\* its place, or a WZ8202's 0x03 for every absent sensor.
Endings(make) ==
  CASE make = "mse" -> {"err10", "err04"}
    [] make = "wz"  -> {"err03", "err04"}
    [] make = "bce" -> {"err04"}

\* The makes, with the sensors they have among the first slots that they list, and
\* with a counter or not; whether addresses matter on the line; the session's strict.
AllSetups ==
  {s \in [make : Makes, sensors : SUBSET Sensors, listed : 0..MaxIndex + 1,
          ends : {"err03", "err04", "err10"}, counter : BOOLEAN,
          multidrop : BOOLEAN, strict : BOOLEAN] :
     /\ s.ends \in Endings(s.make)
     /\ s.counter => s.make # "wz"
     /\ IF s.ends = "err03" THEN s.listed = 0 ELSE \A i \in s.sensors : i < s.listed}

ASSUME UpkeepAssumption ==
  /\ Setups \subseteq AllSetups
  /\ ReaderCommands \subseteq STRING
  /\ IsFiniteSet(Rates) /\ Rates # {}
  /\ IsFiniteSet(Addresses) /\ Addresses # {}
  /\ {MaxIndex, MaxCalls, MaxFaults, MaxPanel} \subseteq Nat

\* Reads of the identification, in its order; the last three may fail.
IdentityReads == [
  xbpi |-> <<"read_model", "read_manufacturer", "read_sw_version",
             "read_factory_number", "read_sbn", "config_counter",
             "read_capacity", "read_increment">>,
  sbi  |-> <<"read_model", "read_factory_number", "read_sw_version">>]
Optional == {"config_counter", "read_capacity", "read_increment"}

\* The Command objects, by what the gates look at.
Cmd(tier, variants, caps, parameterized) ==
  [tier |-> tier, variants |-> variants, caps |-> caps, parameterized |-> parameterized]
Read(variants) == Cmd("READ_ONLY", variants, {}, FALSE)

Command == [
  read_model          |-> Read(Protocols),
  read_manufacturer   |-> Read({"xbpi"}),
  read_sw_version     |-> Read(Protocols),
  read_factory_number |-> Read(Protocols),
  read_sbn            |-> Read({"xbpi"}),
  config_counter      |-> Cmd("READ_ONLY", {"xbpi"}, {"CONFIG_COUNTER"}, FALSE),
  read_capacity       |-> Cmd("READ_ONLY", {"xbpi"}, {}, TRUE),
  read_increment      |-> Cmd("READ_ONLY", {"xbpi"}, {}, TRUE),
  read_temperature    |-> Cmd("READ_ONLY", {"xbpi"}, {"TEMPERATURE_SENSORS"}, TRUE),
  read_net_hires      |-> Cmd("READ_ONLY", {"xbpi"}, {"HIRES_WEIGHT"}, FALSE),
  tare                |-> Cmd("STATEFUL", Protocols, {}, FALSE),
  write_parameter     |-> Cmd("PERSISTENT", {"xbpi"}, {"PARAMETER_TABLE"}, TRUE),
  save_menu           |-> Cmd("PERSISTENT", {"xbpi"}, {}, FALSE),
  internal_adjust     |-> Cmd("DANGEROUS", {"xbpi"}, {"INTERNAL_CAL"}, FALSE)]
Commands == DOMAIN Command

\* Those that take an argument without being parameterized: the resolution of a
\* high-resolution read, the kind of an adjustment.
Unflagged == {"read_net_hires", "internal_adjust"}

\* _FAMILY_DEFAULT_CAPABILITIES, as far as a modelled command hints at it.
FamilyCapabilities(make) ==
  CASE make = "mse" -> {"TEMPERATURE_SENSORS", "PARAMETER_TABLE", "INTERNAL_CAL", "HIRES_WEIGHT"}
    [] make = "wz"  -> {"TEMPERATURE_SENSORS", "PARAMETER_TABLE", "HIRES_WEIGHT"}
    [] make = "bce" -> {"PARAMETER_TABLE"}

\* Opcodes and SBI tokens that raw calls may send without confirm.
SafeReadOnlyOpcodes ==
  {0, 1, 2, 3, 5, 7, 10, 15} \union 11..14 \union {28} \union 30..35
    \union {38, 87, 46, 47, 48, 50, 53, 54, 118, 84, 85, 113, 185, 186, 188}
SbiReadOnlyTokens == {"P", "p_", "x1_", "x2_", "x3_", "m0_", "w0_"}

\* What a raw request changes for good, by docs/protocol.md section 13 and
\* docs/sbi_commands.md: the modelled ones stand for the others.
SetBaud == 92
WriteSbn == 114
MenuOpcodes == {4, 40, 64, 71, 86, 121}
MenuTokens  == {"K", "Z", "f1_"}
-----------------------------------------------------------------------------
(* The balance.                                                            *)

\* What sensor index i answers. The slots that are listed without a sensor answer
\* a sentinel, those between sensors and those behind the last one.
Slot(i) ==
  IF i \in setup.sensors THEN "reading"
  ELSE IF i < setup.listed THEN "sentinel" ELSE setup.ends

\* An argument out of range is refused by its code, and by 0x04 on firmware that
\* uses it for a wrong index, too.
BadArgument == MaxIndex + 1
Refusal == IF setup.ends = "err04" THEN "err04" ELSE "err03"

Answer(c, i) ==
  CASE c = "config_counter"   -> IF setup.counter THEN "ack" ELSE "err04"
    [] c = "read_temperature" -> Slot(i)
    [] c = "read_capacity"    -> IF setup.make = "bce" THEN "err04" ELSE "ack"
    [] c = "read_net_hires"   -> IF i = BadArgument THEN Refusal ELSE "ack"
    [] c = "internal_adjust"  -> IF setup.make = "wz" THEN "err06"
                                 ELSE IF i = BadArgument THEN Refusal ELSE "ack"
    [] OTHER -> "ack"

Accepted(answer) == answer \in {"ack", "reading", "sentinel"}

Changed(b) == [b EXCEPT !.menu = 1 - @]

\* The balance after a typed command that it has accepted.
AfterCommand(c, i) ==
  IF c \in {"write_parameter", "save_menu", "internal_adjust"} /\ Accepted(Answer(c, i))
  THEN Changed(bal) ELSE bal

Arguments(p, request) ==
  CASE p = "sbi" -> {0}
    [] request = SetBaud  -> Rates
    [] request = WriteSbn -> Addresses
    [] OTHER -> {0}

\* The balance after a raw request; arg is its rate or address.
AfterRaw(p, request, arg) ==
  IF p = "sbi" THEN IF request \in MenuTokens THEN Changed(bal) ELSE bal
  ELSE CASE request = SetBaud  -> [bal EXCEPT !.rate = arg]
         [] request = WriteSbn -> [bal EXCEPT !.sbn = arg]
         [] request \in MenuOpcodes -> Changed(bal)
         [] OTHER -> bal

\* Whether requests of a host h arrive. Point to point, the address does not matter.
ReachesAs(h) ==
  /\ h.open
  /\ h.rate = bal.rate
  /\ h.proto = bal.proto
  /\ h.proto = "sbi" \/ ~setup.multidrop \/ h.dst = bal.sbn
Reaches == ReachesAs(host)

-----------------------------------------------------------------------------
(* One request.                                                            *)

\* What becomes of a request: answered, applied without an answer, or lost.
\* Anything but an answer raises at the host.
Sends(outcome) ==
  /\ \/ Reaches /\ outcome = "answered" /\ UNCHANGED bounds
     \/ /\ Reaches /\ outcome \in {"applied", "lost"}
        /\ bounds.faults < MaxFaults
        /\ bounds' = [bounds EXCEPT !.faults = @ + 1]
     \/ ~Reaches /\ outcome = "lost" /\ UNCHANGED bounds

Arrives(outcome) == outcome \in {"answered", "applied"}
Outcomes == {"answered", "applied", "lost"}

\* What the balance keeps, and what a caller had said who changed it unconfirmed.
Kept(b) == <<b.rate, b.sbn, b.menu>>
Notes(said) ==
  unasked' = IF Kept(bal') # Kept(bal) /\ said # "yes" THEN unasked \union {said} ELSE unasked

\* Mutant: only DANGEROUS commands ask for confirm.
GateSafetyDangerous(c, confirm) == Command[c].tier # "DANGEROUS" \/ confirm

\* The gates of Session.execute; a call that one of them refuses sends nothing.
GateSafety(c, confirm) == Command[c].tier \in {"READ_ONLY", "STATEFUL"} \/ confirm
GateProtocol(c)    == host.proto \in Command[c].variants
GateKnownDenied(c) == c \notin denied
GatePriors(c)      == ~setup.strict \/ Command[c].caps \subseteq host.caps
Gates(c, confirm) ==
  /\ host.state = "operational"
  /\ GateSafety(c, confirm)
  /\ GateProtocol(c)
  /\ GateKnownDenied(c)
  /\ GatePriors(c)

\* Mutant: the argument of a parameterized command is never to blame.
LearnedAlways(c, answer) == IF answer = "err04" THEN denied \union {c} ELSE denied

\* _execute_xbpi: 0x04 denies the command, unless it may have meant the argument.
Learned(c, answer) ==
  IF answer = "err04" /\ ~Command[c].parameterized THEN denied \union {c} ELSE denied

\* Session.execute past its gates.
Executes(c, i, outcome) ==
  /\ Sends(outcome)
  /\ bal' = IF Arrives(outcome) THEN AfterCommand(c, i) ELSE bal
  /\ denied' = IF outcome = "answered" THEN Learned(c, Answer(c, i)) ELSE denied
  /\ refused' = IF outcome = "answered" /\ Answer(c, i) = "err04" /\ ~Command[c].parameterized
                THEN refused \union {c} ELSE refused

\* Whether the caller of Executes gets a value; otherwise it gets an exception.
Succeeds(c, i, outcome) == outcome = "answered" /\ Accepted(Answer(c, i))

\* execute_raw_xbpi and execute_raw_sbi.
SafeListed(p, request) ==
  request \in (IF p = "xbpi" THEN SafeReadOnlyOpcodes ELSE SbiReadOnlyTokens)
ExecutesRaw(request, arg, confirm, outcome) ==
  /\ host.state = "operational"
  /\ SafeListed(host.proto, request) \/ confirm
  /\ Sends(outcome)
  /\ bal' = IF Arrives(outcome) THEN AfterRaw(host.proto, request, arg) ELSE bal

-----------------------------------------------------------------------------
(* The keeper's calls.                                                     *)

Idle == [step |-> "idle", target |-> "xbpi", code |-> 0, rate |-> 0, sbn |-> 0,
         update |-> FALSE, todo |-> <<>>, next |-> 0, heard |-> {}, oneshot |-> FALSE,
         said |-> "no"]

NoInfo == [known |-> FALSE, counted |-> FALSE, sensors |-> {}]

\* The end of a call that leaves the host as h; maintenance.py closes in its
\* finally clause.
Closed(h) == [h EXCEPT !.state = "closed", !.open = FALSE]
EndsWith(h) ==
  /\ task' = Idle
  /\ host' = IF task.oneshot THEN Closed(h) ELSE h
Ends == EndsWith(host)

\* Whether confirm is true at the gates of the composite calls: a one-shot helper
\* takes it for granted when its caller says nothing, a Balance does not ("no").
Confirmed == task.said = "yes" \/ (task.said = "nothing" /\ task.oneshot)

\* A call of the keeper. A one-shot call opens its own Balance first, without
\* identifying it; open_device sends nothing when it is told the protocol.
Call(t) ==
  /\ task = Idle
  /\ bounds.calls < MaxCalls
  /\ bounds' = [bounds EXCEPT !.calls = @ + 1]
  /\ host.state = "operational"
  /\ task' = t
  /\ found' = [found EXCEPT !.done = FALSE]
  /\ UNCHANGED <<setup, bal, host, denied, refused, info, excuse, unasked>>

OneShot(t) ==
  /\ task = Idle
  /\ bounds.calls < MaxCalls
  /\ bounds' = [bounds EXCEPT !.calls = @ + 1]
  /\ host.state = "closed"
  /\ \E p \in Protocols, r \in Rates, a \in Addresses :
       /\ t.step \in {"rate", "sbn"} => p = "xbpi"
       /\ host' = [proto |-> p, rate |-> r, settings |-> r, dst |-> a,
                   state |-> "operational", open |-> TRUE, caps |-> {}]
       /\ excuse' = (r # bal.rate)
  /\ denied' = {} /\ refused' = {}
  /\ info' = NoInfo
  /\ task' = [t EXCEPT !.oneshot = TRUE]
  /\ found' = [found EXCEPT !.done = FALSE]
  /\ UNCHANGED <<setup, bal, unasked>>

IdentifyCall == Call([Idle EXCEPT !.step = "identify", !.todo = IdentityReads[host.proto]])
DiscoverCall == Call([Idle EXCEPT !.step = "discover"])

\* configure_protocol at the protocol and framing that it has reopens nothing;
\* that case, which returns info, is left out.
SwitchCall ==
  \E p \in Protocols, r \in Rates, said \in Says :
    LET t == [Idle EXCEPT !.step = "reopen", !.target = p, !.rate = r, !.said = said] IN
    \/ Call(t) /\ (p # host.proto \/ r # host.rate) /\ said # "nothing"
    \/ OneShot(t)

SetBaudRateCall ==
  \E c \in Rates, r \in Rates, said \in Says :
    LET t == [Idle EXCEPT !.step = "rate", !.code = c, !.rate = r, !.said = said] IN
    (Call(t) /\ host.proto = "xbpi" /\ said # "nothing") \/ OneShot(t)

WriteSbnCall ==
  \E a \in Addresses, u \in BOOLEAN, said \in Says :
    LET t == [Idle EXCEPT !.step = "sbn", !.sbn = a, !.update = u, !.said = said] IN
    (Call(t) /\ host.proto = "xbpi" /\ said # "nothing") \/ (OneShot(t) /\ ~u)

\* Session.execute(READ_*) of identify; the optional ones may raise.
AfterProbe(counted) ==
  [host EXCEPT !.caps = FamilyCapabilities(setup.make)
                          \union (IF counted THEN {"CONFIG_COUNTER"} ELSE {})]

IdentifyEnds(h) ==
  /\ EndsWith(h)
  /\ info' = [known |-> TRUE, counted |-> "CONFIG_COUNTER" \in h.caps, sensors |-> {}]

IdentifyStep ==
  LET c == Head(task.todo) rest == Tail(task.todo) IN
  /\ task.step = "identify"
  /\ \E outcome \in Outcomes :
       LET ok == Gates(c, FALSE) /\ Succeeds(c, 0, outcome)
           h  == IF c = "config_counter" THEN AfterProbe(ok)
                 ELSE IF host.proto = "sbi" /\ rest = <<>> THEN AfterProbe(FALSE)
                 ELSE host
       IN
       /\ IF Gates(c, FALSE) THEN Executes(c, 0, outcome) /\ Notes("no")
          ELSE outcome = "lost" /\ UNCHANGED <<bal, denied, refused, unasked, bounds>>
       /\ IF ~ok /\ c \notin Optional THEN Ends /\ UNCHANGED info
          ELSE IF rest = <<>> THEN IdentifyEnds(h)
          ELSE /\ task' = [task EXCEPT !.todo = rest]
               /\ host' = h
               /\ UNCHANGED info
  /\ UNCHANGED <<setup, found, excuse>>

\* discover_temperature_sensors. The list ends at 0x10 and at 0x04; 0x03 is a gap.
DiscoverReturns(sensors) ==
  /\ Ends
  /\ found' = [done |-> TRUE, sensors |-> sensors]
  /\ info' = IF info.known THEN [info EXCEPT !.sensors = sensors] ELSE info

DiscoverSkips(sensors) ==
  IF task.next = MaxIndex THEN DiscoverReturns(sensors)
  ELSE /\ task' = [task EXCEPT !.next = @ + 1, !.heard = sensors]
       /\ UNCHANGED <<host, info, found>>

DiscoverRefused ==
  /\ ~Gates("read_temperature", FALSE)
  /\ IF host.state = "operational" /\ GateProtocol("read_temperature")
          /\ ~GateKnownDenied("read_temperature")
     THEN DiscoverReturns(task.heard)
     ELSE Ends /\ UNCHANGED <<found, info>>
  /\ UNCHANGED <<bal, denied, refused, unasked, bounds>>

DiscoverHears(answer) ==
  CASE Accepted(answer) -> DiscoverSkips(task.heard \union {task.next})
    [] answer = "err03" -> DiscoverSkips(task.heard)
    [] OTHER            -> DiscoverReturns(task.heard)

DiscoverAsks ==
  /\ Gates("read_temperature", FALSE)
  /\ \E outcome \in Outcomes :
       /\ Executes("read_temperature", task.next, outcome) /\ Notes("no")
       /\ IF outcome = "answered" THEN DiscoverHears(Slot(task.next))
          ELSE Ends /\ UNCHANGED <<found, info>>

DiscoverStep ==
  /\ task.step = "discover"
  /\ DiscoverRefused \/ DiscoverAsks
  /\ UNCHANGED <<setup, excuse>>

\* A composite call that is not confirmed raises before it sends anything.
Unconfirmed == ~Confirmed /\ Ends /\ UNCHANGED <<bal, unasked, excuse, bounds>>

\* Mutant: a lost acknowledgement of 0x5C ends the call.
SendsRateStrict ==
  \E outcome \in Outcomes :
    /\ ExecutesRaw(SetBaud, task.code, TRUE, outcome) /\ Notes(task.said)
    /\ excuse' = (excuse \/ (Arrives(outcome) /\ task.code # task.rate))
    /\ IF outcome = "answered"
       THEN task' = [task EXCEPT !.step = "reopen", !.target = "xbpi"] /\ UNCHANGED host
       ELSE Ends

\* set_baud_rate sends 0x5C at the old rate and ignores how that ends; the
\* configure_protocol that follows is given confirm.
SendsRate ==
  /\ \E outcome \in Outcomes :
       /\ ExecutesRaw(SetBaud, task.code, TRUE, outcome) /\ Notes(task.said)
       /\ excuse' = (excuse \/ (Arrives(outcome) /\ task.code # task.rate))
  /\ task' = [task EXCEPT !.step = "reopen", !.target = "xbpi"]
  /\ UNCHANGED host

\* Mutant: set_baud_rate leaves the question of confirm to configure_protocol.
RateStepLate ==
  /\ task.step = "rate"
  /\ SendsRate
  /\ UNCHANGED <<setup, denied, refused, info, found>>

RateStep ==
  /\ task.step = "rate"
  /\ Unconfirmed \/ (Confirmed /\ SendsRate)
  /\ UNCHANGED <<setup, denied, refused, info, found>>

\* configure_protocol under the lock: reopen, verify by READ_MODEL and install a new
\* client that knows of no refusal, ...
Reopened == [host EXCEPT !.rate = task.rate, !.proto = task.target, !.open = TRUE]

InstallsPort ==
  /\ ReachesAs(Reopened)
  /\ host' = [Reopened EXCEPT !.settings = task.rate]
  /\ task' = [Idle EXCEPT !.step = "identify", !.todo = IdentityReads[task.target],
                          !.oneshot = task.oneshot]
  /\ excuse' = FALSE
  /\ refused' = {}
  /\ UNCHANGED bounds

\* Mutant: replace_clients keeps what it knows of the old client's commands.
InstallsOver == InstallsPort /\ UNCHANGED denied

Installs == InstallsPort /\ denied' = {}

\* ... or go back to the settings of the session, though the balance may have
\* taken the new rate.
RollsBack ==
  /\ IF ReachesAs(Reopened)
     THEN bounds.faults < MaxFaults /\ bounds' = [bounds EXCEPT !.faults = @ + 1]
     ELSE UNCHANGED bounds
  /\ EndsWith([host EXCEPT !.rate = host.settings, !.open = TRUE])
  /\ excuse' = (excuse \/ (bal.rate = task.rate /\ task.rate # host.settings))
  /\ UNCHANGED <<denied, refused>>

\* The rollback fails too.
Breaks ==
  /\ bounds.faults < MaxFaults
  /\ bounds' = [bounds EXCEPT !.faults = @ + 1]
  /\ EndsWith([host EXCEPT !.state = "broken", !.open = FALSE])
  /\ UNCHANGED <<denied, refused, excuse>>

ReopenStep ==
  /\ task.step = "reopen"
  /\ \/ Unconfirmed /\ UNCHANGED <<denied, refused>>
     \/ Confirmed /\ (Installs \/ RollsBack \/ Breaks)
  /\ UNCHANGED <<setup, bal, info, found, unasked>>

\* write_sbn_address: 0x72, then 0x71, still to the old destination.
SendsSbn ==
  /\ \E outcome \in Outcomes :
       /\ ExecutesRaw(WriteSbn, task.sbn, TRUE, outcome) /\ Notes(task.said)
       /\ IF outcome = "answered" THEN task' = [task EXCEPT !.step = "readback"] /\ UNCHANGED host
          ELSE Ends
  /\ UNCHANGED excuse

SbnStep ==
  /\ task.step = "sbn"
  /\ Unconfirmed \/ (Confirmed /\ SendsSbn)
  /\ UNCHANGED <<setup, denied, refused, info, found>>

ReadbackStep ==
  /\ task.step = "readback"
  /\ IF Gates("read_sbn", FALSE)
     THEN \E outcome \in Outcomes :
            /\ Executes("read_sbn", 0, outcome) /\ Notes("no")
            /\ EndsWith(IF outcome = "answered" /\ task.update
                        THEN [host EXCEPT !.dst = task.sbn] ELSE host)
     ELSE Ends /\ UNCHANGED <<bal, denied, refused, unasked, bounds>>
  /\ UNCHANGED <<setup, info, found, excuse>>

\* The keeper is cancelled. configure_protocol catches Exception only: a reopen under
\* way leaves the port at the new rate, or closed, and the session as it was. An
\* unconfirmed call ends before it awaits anything.
Cancel ==
  /\ task.step # "idle"
  /\ task.step \in {"rate", "reopen", "sbn"} => Confirmed
  /\ bounds.faults < MaxFaults
  /\ bounds' = [bounds EXCEPT !.faults = @ + 1]
  /\ \/ Ends
     \/ /\ task.step = "reopen"
        /\ \/ EndsWith([host EXCEPT !.rate = task.rate])
           \/ EndsWith([host EXCEPT !.open = FALSE])
  /\ excuse' = (excuse \/ task.step = "reopen")
  /\ UNCHANGED <<setup, bal, denied, refused, info, found, unasked>>

-----------------------------------------------------------------------------
(* Everybody else.                                                         *)

\* What a caller of one of the plain methods says of confirm: their default is no.
Said(confirm) == IF confirm THEN "yes" ELSE "no"

\* A typed command of the reader with a good argument or a bad one, confirmed or not
\* where its method has a confirm.
ReaderCommand ==
  /\ \E c \in ReaderCommands, i \in 0..BadArgument, confirm \in BOOLEAN, outcome \in Outcomes :
       /\ c \notin Unflagged \union {"read_temperature"} => i = 0
       /\ c \in Unflagged => i \in {0, BadArgument}
       /\ confirm => Command[c].tier \in {"PERSISTENT", "DANGEROUS"}
       /\ Gates(c, confirm)
       /\ Executes(c, i, outcome) /\ Notes(Said(confirm))
  /\ UNCHANGED <<setup, host, info, task, found, excuse>>

\* A raw request of the reader; those that change the rate are its own accident.
ReaderRaw ==
  /\ \E request \in ReaderRaws[host.proto], confirm \in BOOLEAN, outcome \in Outcomes :
     \E arg \in Arguments(host.proto, request) :
       /\ ExecutesRaw(request, arg, confirm, outcome) /\ Notes(Said(confirm))
       /\ excuse' = (excuse \/ bal'.rate # bal.rate)
  /\ UNCHANGED <<setup, host, denied, refused, info, task, found>>

FrontPanel ==
  /\ bounds.panel < MaxPanel
  /\ bounds' = [bounds EXCEPT !.panel = @ + 1]
  /\ bal' = [bal EXCEPT !.proto = CHOOSE p \in Protocols : p # @]
  /\ UNCHANGED <<setup, host, denied, refused, info, task, found, excuse, unasked>>

Close ==
  /\ task = Idle
  /\ host.state # "closed"
  /\ host' = Closed(host)
  /\ UNCHANGED <<setup, bal, denied, refused, info, task, found, excuse, unasked, bounds>>

Init ==
  /\ setup \in Setups
  /\ \E p \in Protocols, r \in Rates, a \in Addresses :
       /\ bal = [proto |-> p, rate |-> r, sbn |-> a, menu |-> 0]
       /\ host = [proto |-> p, rate |-> r, settings |-> r, dst |-> a,
                  state |-> "operational", open |-> TRUE, caps |-> {}]
  /\ denied = {} /\ refused = {}
  /\ info = NoInfo
  /\ task = Idle
  /\ found = [done |-> FALSE, sensors |-> {}]
  /\ excuse = FALSE
  /\ unasked = {}
  /\ bounds = [calls |-> 0, faults |-> 0, panel |-> 0]

Next ==
  \/ IdentifyCall \/ DiscoverCall \/ SwitchCall \/ SetBaudRateCall \/ WriteSbnCall
  \/ IdentifyStep \/ DiscoverStep \/ RateStep \/ ReopenStep \/ SbnStep \/ ReadbackStep
  \/ Cancel \/ ReaderCommand \/ ReaderRaw \/ FrontPanel \/ Close

Spec == Init /\ [][Next]_vars

-----------------------------------------------------------------------------
(* Correctness.                                                            *)

TypeOK ==
  /\ bal \in [proto : Protocols, rate : Rates, sbn : Addresses, menu : {0, 1}]
  /\ host \in [proto : Protocols, rate : Rates, settings : Rates, dst : Addresses,
               state : {"operational", "broken", "closed"}, open : BOOLEAN,
               caps : SUBSET {"CONFIG_COUNTER", "TEMPERATURE_SENSORS", "PARAMETER_TABLE",
                              "INTERNAL_CAL", "HIRES_WEIGHT"}]
  /\ denied \subseteq Commands
  /\ task.step \in {"idle", "identify", "discover", "rate", "reopen", "sbn", "readback"}
  /\ task.said \in Says /\ unasked \subseteq Says
  /\ info.sensors \subseteq Sensors

\* Between the keeper's calls, a usable session's port is open at the rate that
\* its settings name, and that is the balance's rate, unless one of these
\* happened since the last successful switch: the caller paired a wire code with
\* the wrong rate, a verification failed after the balance had taken another
\* rate than the settings', the call was cancelled on its way to the reopen, or
\* 0x5C was sent raw. A lost acknowledgement of 0x5C is not among them
\* (balance.py:1281).
RateKept ==
  (task = Idle /\ host.state = "operational" /\ ~excuse)
    => host.open /\ host.rate = host.settings /\ host.rate = bal.rate

\* The balance does not know command c, whatever its argument.
Unknown(c) == \A i \in 0..BadArgument : Answer(c, i) = "err04"

\* What the library has found out about the balance is so: a discovery returns
\* exactly the slots that answer, whatever convention the firmware follows and
\* whatever others asked before; the session and its DeviceInfo claim the
\* counter only of a balance that has one; and a command is denied only if the
\* balance refused it to the client that the session has now (session.py:393),
\* and does not know it. Exception: firmware that answers 0x04 for a bad argument,
\* and a command with an argument that is not marked parameterized (base.py:121).
KnowledgeTrue ==
  /\ TypeOK
  /\ found.done => found.sensors = {i \in Sensors : Accepted(Slot(i))}
  /\ info.counted \/ "CONFIG_COUNTER" \in host.caps => setup.counter
  /\ \A c \in denied :
       /\ c \in refused
       /\ Unknown(c) \/ (c \in Unflagged /\ setup.ends = "err04")

\* What the balance keeps (rate, address, menu, adjustment) changes only by
\* requests that were sent with confirm, by any of the typed, raw and composite
\* paths (session.py:535, 753, 798, balance.py:1077, 1251, 1319), however they
\* interleave. Exception: a one-shot helper whose caller says nothing of confirm.
ChangesAreConfirmed == unasked \subseteq {"nothing"}

\* "every function here mutates persistent device state and refuses without
\* confirm=True" (maintenance.py:7): so no exception for the one-shot helpers.
HelpersRefuse == unasked = {}
=============================================================================
