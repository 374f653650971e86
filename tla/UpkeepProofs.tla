---------------------------- MODULE UpkeepProofs ----------------------------
(***************************************************************************)
(* What Upkeep's runs check of one keeper and one reader, for all rates,   *)
(* addresses, commands, raw requests and sensor lists, and any number of   *)
(* calls and faults. The rate agrees between two calls because of what is  *)
(* known between the request that changes it and the reopen; what was      *)
(* discovered is so because of what was heard so far.                      *)
(***************************************************************************)
EXTENDS Upkeep, TLAPS

Steps == {"idle", "identify", "discover", "rate", "reopen", "sbn", "readback"}
Reads == {"read_model", "read_manufacturer", "read_sw_version", "read_factory_number",
          "read_sbn", "config_counter", "read_capacity", "read_increment"}
Caps  == {"CONFIG_COUNTER", "TEMPERATURE_SENSORS", "PARAMETER_TABLE", "INTERNAL_CAL",
          "HIRES_WEIGHT"}

BalanceType == [proto : Protocols, rate : Rates, sbn : Addresses, menu : {0, 1}]
HostType ==
  [proto : Protocols, rate : Rates, settings : Rates, dst : Addresses,
   state : {"operational", "broken", "closed"}, open : BOOLEAN, caps : SUBSET Caps]
TaskType ==
  [step : Steps, target : Protocols, code : Rates \cup {0}, rate : Rates \cup {0},
   sbn : Addresses \cup {0}, update : BOOLEAN, todo : Seq(Reads), next : Sensors,
   heard : SUBSET Sensors, oneshot : BOOLEAN, said : Says]

\* What the arguments of a call are at the steps that use them.
ArgumentsFit ==
  /\ task.step \in {"rate", "reopen"} => task.rate \in Rates
  /\ task.step = "rate" => task.code \in Rates
  /\ task.step \in {"sbn", "readback"} => task.sbn \in Addresses
  /\ task.step = "identify" => task.todo # <<>>
  /\ task.step \in {"rate", "sbn"} => host.proto = "xbpi"

Types ==
  /\ setup \in AllSetups
  /\ bal \in BalanceType
  /\ host \in HostType
  /\ task \in TaskType
  /\ info \in [known : BOOLEAN, counted : BOOLEAN, sensors : SUBSET Sensors]
  /\ found \in [done : BOOLEAN, sensors : SUBSET Sensors]
  /\ excuse \in BOOLEAN
  /\ ArgumentsFit

\* The session's own rate; the balance's may be the one that a confirmed call asks for.
RateInv ==
  (host.state = "operational" /\ ~excuse) =>
     /\ host.open /\ host.rate = host.settings
     /\ bal.rate = host.rate \/ (task.step = "reopen" /\ Confirmed /\ bal.rate = task.rate)

\* What denies a command for good.
Justified(c) ==
  /\ c \in Commands
  /\ ~Command[c].parameterized
  /\ Unknown(c) \/ (c \in Unflagged /\ setup.ends = "err04")

\* What is denied was refused with reason; what was heard are the slots below that
\* answer.
KnownInv ==
  /\ \A c \in denied : c \in refused /\ Justified(c)
  /\ info.counted \/ "CONFIG_COUNTER" \in host.caps => setup.counter
  /\ task.step = "discover" => task.heard = {i \in Sensors : i < task.next /\ Accepted(Slot(i))}
  /\ found.done => found.sensors = {i \in Sensors : Accepted(Slot(i))}

IInv == Types /\ RateInv /\ KnownInv /\ ChangesAreConfirmed

USE UpkeepAssumption

\* What is said of the balance alone does not change.
LEMMA SameSetup ==
  ASSUME setup' = setup
  PROVE  /\ \A i \in Sensors : Accepted(Slot(i))' <=> Accepted(Slot(i))
         /\ \A c : Justified(c)' <=> Justified(c)
BY DEF Accepted, Slot, Justified, Unknown, Answer, Refusal

-----------------------------------------------------------------------------
(* One request.                                                            *)

\* A typed command leaves the rate and address alone, and the menu too when it is
\* not confirmed.
LEMMA ExecutesKeeps ==
  ASSUME Types, NEW c, NEW i, NEW confirm \in BOOLEAN, NEW said, NEW outcome,
         confirm => said # "no", said \in Says,
         GateSafety(c, confirm), Executes(c, i, outcome), Notes(said), ChangesAreConfirmed
  PROVE  bal' \in BalanceType /\ bal'.rate = bal.rate /\ unasked' \subseteq {"nothing"}
<1>1. bal' = bal \/ (bal' = Changed(bal) /\ c \in {"write_parameter", "save_menu", "internal_adjust"})
  BY DEF Executes, AfterCommand
<1>2. bal \in BalanceType
  BY DEF Types
<1>3. Changed(bal) \in BalanceType /\ Changed(bal).rate = bal.rate
  BY <1>2 DEF Changed, BalanceType
<1>4. c \in {"write_parameter", "save_menu", "internal_adjust"} => confirm
  BY DEF GateSafety, Command, Cmd, Read
<1>5. Kept(bal') # Kept(bal) => said # "no"
  BY <1>1, <1>4
<1>6. unasked' \subseteq {"nothing"}
  BY <1>5 DEF Notes, ChangesAreConfirmed, Says
<1> QED
  BY <1>1, <1>2, <1>3, <1>6

\* 0x04 to a command that is not parameterized means that the balance does not know
\* it, or that its argument was not marked as one.
LEMMA RefusalMeans ==
  ASSUME NEW c, NEW i, Answer(c, i) = "err04", ~Command[c].parameterized
  PROVE  Justified(c)
<1>1. c \in {"config_counter", "read_temperature", "read_capacity", "read_net_hires", "internal_adjust"}
  BY DEF Answer
<1>2. c \in Commands
  BY <1>1 DEF Commands, Command
<1>3. Command["read_temperature"].parameterized /\ Command["read_capacity"].parameterized
  BY DEF Command, Cmd, Read
<1>4. CASE c = "config_counter"
  BY <1>2, <1>4 DEF Answer, Unknown, Justified
<1>5. CASE c \in {"read_net_hires", "internal_adjust"}
  <2>1. setup.ends = "err04"
    BY <1>5 DEF Answer, Refusal
  <2> QED
    BY <1>2, <1>5, <2>1 DEF Justified, Unflagged
<1> QED
  BY <1>1, <1>3, <1>4, <1>5

\* So it denies nothing without reason.
LEMMA ExecutesLearns ==
  ASSUME KnownInv, NEW c, NEW i, NEW outcome, Executes(c, i, outcome)
  PROVE  \A d \in denied' : d \in refused' /\ Justified(d)
<1>1. \/ denied' = denied /\ denied \subseteq denied'
      \/ denied' = denied \cup {c} /\ c \in refused' /\ Answer(c, i) = "err04"
           /\ ~Command[c].parameterized
  BY DEF Executes, Learned
<1>2. refused \subseteq refused'
  BY DEF Executes
<1>3. \A d \in denied : d \in refused /\ Justified(d)
  BY DEF KnownInv
<1>4. CASE denied' = denied
  BY <1>2, <1>3, <1>4
<1>5. CASE denied' = denied \cup {c} /\ c \in refused' /\ Answer(c, i) = "err04"
             /\ ~Command[c].parameterized
  <2>1. Justified(c)
    BY <1>5, RefusalMeans
  <2> QED
    BY <1>2, <1>3, <1>5, <2>1
<1> QED
  BY <1>1, <1>4, <1>5

\* A raw request changes the rate only by 0x5C, and nothing without confirm.
LEMMA RawKeeps ==
  ASSUME Types, NEW request, NEW arg, NEW confirm \in BOOLEAN, NEW said, NEW outcome,
         confirm => said # "no", said \in Says,
         arg \in Arguments(host.proto, request),
         ExecutesRaw(request, arg, confirm, outcome), Notes(said), ChangesAreConfirmed
  PROVE  /\ bal' \in BalanceType /\ unasked' \subseteq {"nothing"}
         /\ bal'.rate # bal.rate =>
              host.proto = "xbpi" /\ request = SetBaud /\ bal'.rate = arg /\ Arrives(outcome)
<1>1. bal \in BalanceType /\ host.proto \in {"xbpi", "sbi"}
  BY DEF Types, HostType, Protocols
<1>2. bal' = bal \/ (Arrives(outcome) /\ bal' = AfterRaw(host.proto, request, arg))
  BY DEF ExecutesRaw
<1>3. Changed(bal) \in BalanceType /\ Changed(bal).rate = bal.rate
  BY <1>1 DEF Changed, BalanceType
<1>4. (bal' = bal \/ confirm) => unasked' \subseteq {"nothing"}
  BY DEF Notes, ChangesAreConfirmed, Says
<1>5. SafeListed(host.proto, request) \/ confirm
  BY DEF ExecutesRaw
<1>6. CASE host.proto = "sbi"
  <2>1. AfterRaw(host.proto, request, arg) = IF request \in MenuTokens THEN Changed(bal) ELSE bal
    BY <1>6 DEF AfterRaw
  <2>2. request \in MenuTokens => ~SafeListed(host.proto, request)
    BY <1>6 DEF SafeListed, MenuTokens, SbiReadOnlyTokens
  <2> QED
    BY <1>1, <1>2, <1>3, <1>4, <1>5, <2>1, <2>2
<1>7. CASE host.proto = "xbpi"
  <2>1. CASE request = SetBaud
    <3>1. AfterRaw(host.proto, request, arg) = [bal EXCEPT !.rate = arg] /\ arg \in Rates
      BY <1>7, <2>1 DEF AfterRaw, Arguments, SetBaud, WriteSbn, MenuOpcodes
    <3>2. [bal EXCEPT !.rate = arg] \in BalanceType /\ [bal EXCEPT !.rate = arg].rate = arg
      BY <1>1, <3>1 DEF BalanceType
    <3>3. ~SafeListed(host.proto, request)
      BY <1>7, <2>1 DEF SafeListed, SafeReadOnlyOpcodes, SetBaud
    <3> QED
      BY <1>1, <1>2, <1>4, <1>5, <1>7, <2>1, <3>1, <3>2, <3>3
  <2>2. CASE request = WriteSbn
    <3>1. AfterRaw(host.proto, request, arg) = [bal EXCEPT !.sbn = arg] /\ arg \in Addresses
      BY <1>7, <2>2 DEF AfterRaw, Arguments, SetBaud, WriteSbn, MenuOpcodes
    <3>2. [bal EXCEPT !.sbn = arg] \in BalanceType /\ [bal EXCEPT !.sbn = arg].rate = bal.rate
      BY <1>1, <3>1 DEF BalanceType
    <3>3. ~SafeListed(host.proto, request)
      BY <1>7, <2>2 DEF SafeListed, SafeReadOnlyOpcodes, WriteSbn
    <3> QED
      BY <1>1, <1>2, <1>4, <1>5, <3>1, <3>2, <3>3
  <2>3. CASE request # SetBaud /\ request # WriteSbn
    <3>1. AfterRaw(host.proto, request, arg) = IF request \in MenuOpcodes THEN Changed(bal) ELSE bal
      BY <1>7, <2>3 DEF AfterRaw
    <3>2. request \in MenuOpcodes => ~SafeListed(host.proto, request)
      BY <1>7 DEF SafeListed, MenuOpcodes, SafeReadOnlyOpcodes
    <3> QED
      BY <1>1, <1>2, <1>3, <1>4, <1>5, <3>1, <3>2
  <2> QED
    BY <2>1, <2>2, <2>3
<1> QED
  BY <1>1, <1>6, <1>7

-----------------------------------------------------------------------------
(* The parts of a call.                                                    *)

LEMMA IdleTyped == Idle \in TaskType /\ NoInfo.sensors = {}
<1>1. <<>> \in Seq(Reads) /\ 0 \in Sensors
  BY DEF Sensors
<1> QED
  BY <1>1 DEF Idle, TaskType, Steps, Protocols, Says, NoInfo

LEMMA ReadsTyped == \A p \in Protocols : IdentityReads[p] \in Seq(Reads) /\ IdentityReads[p] # <<>>
<1>1. <<"read_model", "read_manufacturer", "read_sw_version", "read_factory_number", "read_sbn",
        "config_counter", "read_capacity", "read_increment">> \in Seq(Reads) \ {<<>>}
  BY DEF Reads
<1>2. <<"read_model", "read_factory_number", "read_sw_version">> \in Seq(Reads) \ {<<>>}
  BY DEF Reads
<1>3. IdentityReads["xbpi"] \in Seq(Reads) \ {<<>>}
  BY <1>1 DEF IdentityReads
<1>4. IdentityReads["sbi"] \in Seq(Reads) \ {<<>>}
  BY <1>2 DEF IdentityReads
<1> QED
  BY <1>3, <1>4 DEF Protocols

\* A host that has the same port and settings, or is closed.
Same(h) ==
  /\ h \in HostType
  /\ \/ h.state = "closed"
     \/ h.state = host.state /\ h.open = host.open /\ h.rate = host.rate /\ h.settings = host.settings

LEMMA EndsKeeps ==
  ASSUME Types, NEW h \in HostType, EndsWith(h)
  PROVE  /\ task' = Idle /\ task' \in TaskType
         /\ host' \in HostType /\ host'.caps = h.caps
         /\ host' = h \/ host'.state = "closed"
<1>1. Closed(h) \in HostType /\ Closed(h).caps = h.caps /\ Closed(h).state = "closed"
  BY DEF Closed, HostType
<1> QED
  BY <1>1, IdleTyped DEF EndsWith

\* Away from the reopen, the rates stay in agreement.
LEMMA RateStays ==
  ASSUME Types, RateInv, task.step # "reopen" \/ task' = task,
         bal'.rate = bal.rate, excuse' = excuse, Same(host')
  PROVE  RateInv'
BY DEF RateInv, Same, Confirmed

LEMMA IdleFits == task' = Idle => ArgumentsFit'
BY DEF ArgumentsFit, Idle

-----------------------------------------------------------------------------
(* Calls begin.                                                            *)

LEMMA CallKeeps ==
  ASSUME IInv, NEW t \in TaskType, Call(t), t.step # "idle",
         t.step \in {"rate", "reopen"} => t.rate \in Rates,
         t.step = "rate" => t.code \in Rates,
         t.step \in {"sbn", "readback"} => t.sbn \in Addresses,
         t.step \in {"rate", "sbn"} => host.proto = "xbpi",
         t.step = "identify" => t.todo # <<>>,
         t.step = "discover" => t.heard = {} /\ t.next = 0
  PROVE  IInv'
<1>1. /\ task = Idle /\ task' = t /\ found' = [found EXCEPT !.done = FALSE]
      /\ UNCHANGED <<setup, bal, host, denied, refused, info, excuse, unasked>>
  BY DEF Call
<1>2. Types'
  <2>1. found' \in [done : BOOLEAN, sensors : SUBSET Sensors] /\ found'.done = FALSE
    BY <1>1 DEF IInv, Types
  <2> QED
    BY <1>1, <2>1 DEF IInv, Types, ArgumentsFit
<1>3. RateInv'
  <2>1. task.step = "idle"
    BY <1>1 DEF Idle
  <2>2. Same(host')
    BY <1>1 DEF Same, IInv, Types
  <2> QED
    BY <1>1, <2>1, <2>2, RateStays DEF IInv
<1>4. KnownInv'
  <2>1. found'.done = FALSE
    BY <1>1 DEF IInv, Types
  <2>2. t.step = "discover" => t.heard = {i \in Sensors : i < t.next /\ Accepted(Slot(i))}
    BY DEF Sensors
  <2> QED
    BY <1>1, <2>1, <2>2, SameSetup DEF IInv, KnownInv
<1> QED
  BY <1>1, <1>2, <1>3, <1>4 DEF IInv, ChangesAreConfirmed

LEMMA OneShotKeeps ==
  ASSUME IInv, NEW t \in TaskType, OneShot(t), t.step \notin {"idle", "discover", "identify"},
         t.step \in {"rate", "reopen"} => t.rate \in Rates,
         t.step = "rate" => t.code \in Rates,
         t.step \in {"sbn", "readback"} => t.sbn \in Addresses
  PROVE  IInv'
<1>1. PICK p \in Protocols, r \in Rates, a \in Addresses :
        /\ host' = [proto |-> p, rate |-> r, settings |-> r, dst |-> a,
                    state |-> "operational", open |-> TRUE, caps |-> {}]
        /\ excuse' = (r # bal.rate)
        /\ t.step \in {"rate", "sbn"} => p = "xbpi"
  BY DEF OneShot
<1>2. /\ task' = [t EXCEPT !.oneshot = TRUE] /\ found' = [found EXCEPT !.done = FALSE]
      /\ denied' = {} /\ info' = NoInfo
      /\ UNCHANGED <<setup, bal, unasked>>
  BY DEF OneShot
<1>3. /\ task' \in TaskType /\ task'.step = t.step /\ task'.rate = t.rate /\ task'.code = t.code
      /\ task'.sbn = t.sbn /\ task'.todo = t.todo
  BY <1>2 DEF TaskType
<1>4. found' \in [done : BOOLEAN, sensors : SUBSET Sensors] /\ found'.done = FALSE
  BY <1>2 DEF IInv, Types
<1>5. host' \in HostType /\ host'.caps = {} /\ host'.open /\ host'.rate = host'.settings
      /\ host'.rate = r /\ host'.proto = p
  BY <1>1 DEF HostType
<1>6. info' \in [known : BOOLEAN, counted : BOOLEAN, sensors : SUBSET Sensors] /\ ~info'.counted
  BY <1>2 DEF NoInfo
<1>7. Types'
  BY <1>1, <1>2, <1>3, <1>4, <1>5, <1>6 DEF IInv, Types, ArgumentsFit
<1>8. RateInv'
  BY <1>1, <1>2, <1>5 DEF RateInv
<1>9. KnownInv'
  BY <1>2, <1>3, <1>4, <1>5, <1>6 DEF KnownInv
<1> QED
  BY <1>2, <1>7, <1>8, <1>9 DEF IInv, ChangesAreConfirmed

LEMMA IdentifyCallKeeps == IInv /\ IdentifyCall => IInv'
<1> SUFFICES ASSUME IInv, IdentifyCall PROVE IInv'
  OBVIOUS
<1> DEFINE t == [Idle EXCEPT !.step = "identify", !.todo = IdentityReads[host.proto]]
<1>1. host.proto \in Protocols
  BY DEF IInv, Types, HostType
<1>2. IdentityReads[host.proto] \in Seq(Reads) /\ IdentityReads[host.proto] # <<>>
  BY <1>1, ReadsTyped
<1>3. t \in TaskType /\ t.step = "identify" /\ t.todo # <<>>
  BY <1>2, IdleTyped DEF TaskType, Steps, Idle
<1>4. Call(t)
  BY DEF IdentifyCall
<1> QED
  BY <1>3, <1>4, CallKeeps

LEMMA DiscoverCallKeeps == IInv /\ DiscoverCall => IInv'
<1> SUFFICES ASSUME IInv, DiscoverCall PROVE IInv'
  OBVIOUS
<1> DEFINE t == [Idle EXCEPT !.step = "discover"]
<1>1. t \in TaskType /\ t.step = "discover" /\ t.heard = {} /\ t.next = 0
  BY IdleTyped DEF TaskType, Steps, Says, Idle
<1>2. Call(t)
  BY DEF DiscoverCall
<1> QED
  BY <1>1, <1>2, CallKeeps

LEMMA SwitchCallKeeps == IInv /\ SwitchCall => IInv'
<1> SUFFICES ASSUME IInv, NEW p \in Protocols, NEW r \in Rates, NEW said \in Says,
               Call([Idle EXCEPT !.step = "reopen", !.target = p, !.rate = r, !.said = said])
                 \/ OneShot([Idle EXCEPT !.step = "reopen", !.target = p, !.rate = r, !.said = said])
             PROVE  IInv'
  BY DEF SwitchCall
<1> DEFINE t == [Idle EXCEPT !.step = "reopen", !.target = p, !.rate = r, !.said = said]
<1>1. t \in TaskType /\ t.step = "reopen" /\ t.rate = r
  BY IdleTyped DEF TaskType, Steps, Says, Idle
<1>2. Call(t) \/ OneShot(t)
  OBVIOUS
<1> HIDE DEF t
<1> QED
  BY <1>1, <1>2, CallKeeps, OneShotKeeps

LEMMA SetBaudRateCallKeeps == IInv /\ SetBaudRateCall => IInv'
<1> SUFFICES ASSUME IInv, NEW c \in Rates, NEW r \in Rates, NEW said \in Says,
               (Call([Idle EXCEPT !.step = "rate", !.code = c, !.rate = r, !.said = said])
                    /\ host.proto = "xbpi")
                 \/ OneShot([Idle EXCEPT !.step = "rate", !.code = c, !.rate = r, !.said = said])
             PROVE  IInv'
  BY DEF SetBaudRateCall
<1> DEFINE t == [Idle EXCEPT !.step = "rate", !.code = c, !.rate = r, !.said = said]
<1>1. t \in TaskType /\ t.step = "rate" /\ t.rate = r /\ t.code = c
  BY IdleTyped DEF TaskType, Steps, Says, Idle
<1>2. (Call(t) /\ host.proto = "xbpi") \/ OneShot(t)
  OBVIOUS
<1> HIDE DEF t
<1> QED
  BY <1>1, <1>2, CallKeeps, OneShotKeeps

LEMMA WriteSbnCallKeeps == IInv /\ WriteSbnCall => IInv'
<1> SUFFICES ASSUME IInv, NEW a \in Addresses, NEW u \in BOOLEAN, NEW said \in Says,
               (Call([Idle EXCEPT !.step = "sbn", !.sbn = a, !.update = u, !.said = said])
                    /\ host.proto = "xbpi")
                 \/ OneShot([Idle EXCEPT !.step = "sbn", !.sbn = a, !.update = u, !.said = said])
             PROVE  IInv'
  BY DEF WriteSbnCall
<1> DEFINE t == [Idle EXCEPT !.step = "sbn", !.sbn = a, !.update = u, !.said = said]
<1>1. t \in TaskType /\ t.step = "sbn" /\ t.sbn = a
  BY IdleTyped DEF TaskType, Steps, Says, Idle
<1>2. (Call(t) /\ host.proto = "xbpi") \/ OneShot(t)
  OBVIOUS
<1> HIDE DEF t
<1> QED
  BY <1>1, <1>2, CallKeeps, OneShotKeeps

-----------------------------------------------------------------------------
(* The steps of a call.                                                    *)

\* What an identification writes down of the counter is what the counter answered.
LEMMA ProbeTells ==
  ASSUME Types, NEW counted \in BOOLEAN
  PROVE  /\ AfterProbe(counted) \in HostType /\ Same(AfterProbe(counted))
         /\ "CONFIG_COUNTER" \in AfterProbe(counted).caps <=> counted
<1>1. host \in HostType /\ setup.make \in Makes
  BY DEF Types, AllSetups
<1>2. FamilyCapabilities(setup.make) \subseteq Caps \ {"CONFIG_COUNTER"}
  BY <1>1 DEF FamilyCapabilities, Makes, Caps
<1> DEFINE caps == FamilyCapabilities(setup.make) \union (IF counted THEN {"CONFIG_COUNTER"} ELSE {})
<1>3. caps \subseteq Caps /\ ("CONFIG_COUNTER" \in caps <=> counted)
  BY <1>2 DEF Caps
<1>4. AfterProbe(counted) = [host EXCEPT !.caps = caps]
  BY DEF AfterProbe
<1> HIDE DEF caps
<1> QED
  BY <1>1, <1>3, <1>4 DEF HostType, Same

\* The request of a step was ExecutesKeeps' or less.
Asked ==
  /\ bal' \in BalanceType /\ bal'.rate = bal.rate /\ unasked' \subseteq {"nothing"}
  /\ \A c \in denied' : c \in refused' /\ Justified(c)

LEMMA NothingAsked ==
  ASSUME IInv, UNCHANGED <<bal, denied, refused, unasked>>
  PROVE  Asked
BY DEF Asked, IInv, Types, KnownInv, ChangesAreConfirmed

LEMMA ExecutesAsked ==
  ASSUME IInv, NEW c, NEW i, NEW confirm \in BOOLEAN, NEW said, NEW outcome,
         confirm => said # "no", said \in Says,
         GateSafety(c, confirm), Executes(c, i, outcome), Notes(said)
  PROVE  Asked
BY ExecutesKeeps, ExecutesLearns DEF Asked, IInv

\* A read asks without confirm.
LEMMA ReadAsked ==
  ASSUME IInv, NEW c, NEW i, NEW outcome, Gates(c, FALSE), Executes(c, i, outcome), Notes("no")
  PROVE  Asked
BY ExecutesAsked DEF Gates, Says

LEMMA IdentifyStepKeeps == IInv /\ IdentifyStep => IInv'
<1> SUFFICES ASSUME IInv, IdentifyStep PROVE IInv'
  OBVIOUS
<1> DEFINE c == Head(task.todo)
           rest == Tail(task.todo)
<1>1. task.step = "identify" /\ UNCHANGED <<setup, found, excuse>>
  BY DEF IdentifyStep
<1>2. PICK outcome \in Outcomes :
        LET ok == Gates(c, FALSE) /\ Succeeds(c, 0, outcome)
            h  == IF c = "config_counter" THEN AfterProbe(ok)
                  ELSE IF host.proto = "sbi" /\ rest = <<>> THEN AfterProbe(FALSE)
                  ELSE host
        IN
        /\ IF Gates(c, FALSE) THEN Executes(c, 0, outcome) /\ Notes("no")
           ELSE outcome = "lost" /\ UNCHANGED <<bal, denied, refused, unasked, bounds>>
        /\ IF ~ok /\ c \notin Optional THEN Ends /\ UNCHANGED info
           ELSE IF rest = <<>> THEN IdentifyEnds(h)
           ELSE /\ task' = [task EXCEPT !.todo = rest]
                /\ host' = h
                /\ UNCHANGED info
  BY DEF IdentifyStep
<1> DEFINE ok == Gates(c, FALSE) /\ Succeeds(c, 0, outcome)
           h  == IF c = "config_counter" THEN AfterProbe(ok)
                 ELSE IF host.proto = "sbi" /\ rest = <<>> THEN AfterProbe(FALSE)
                 ELSE host
<1>3. ok \in BOOLEAN /\ (ok /\ c = "config_counter" => setup.counter)
  BY DEF Succeeds, Accepted, Answer
<1>4. h \in HostType /\ Same(h) /\ ("CONFIG_COUNTER" \in h.caps => setup.counter)
  <2>1. host \in HostType /\ Same(host)
    BY DEF IInv, Types, Same
  <2>2. "CONFIG_COUNTER" \in host.caps => setup.counter
    BY DEF IInv, KnownInv
  <2>3. /\ AfterProbe(ok) \in HostType /\ Same(AfterProbe(ok))
        /\ "CONFIG_COUNTER" \in AfterProbe(ok).caps <=> ok
    BY <1>3, ProbeTells DEF IInv
  <2>4. /\ AfterProbe(FALSE) \in HostType /\ Same(AfterProbe(FALSE))
        /\ "CONFIG_COUNTER" \notin AfterProbe(FALSE).caps
    BY ProbeTells DEF IInv
  <2> HIDE DEF ok
  <2> QED
    BY <1>3, <2>1, <2>2, <2>3, <2>4
<1>5. Asked
  <2>1. CASE Gates(c, FALSE)
    BY <1>2, <2>1, ReadAsked
  <2>2. CASE ~Gates(c, FALSE)
    BY <1>2, <2>2, NothingAsked
  <2> QED
    BY <2>1, <2>2
<1>6. \/ Ends /\ info' = info
      \/ EndsWith(h) /\ info' = [known |-> TRUE, counted |-> "CONFIG_COUNTER" \in h.caps, sensors |-> {}]
      \/ rest # <<>> /\ task' = [task EXCEPT !.todo = rest] /\ host' = h /\ info' = info
  BY <1>2 DEF IdentifyEnds
<1> HIDE DEF h, ok
<1>7. /\ host' \in HostType /\ Same(host') /\ task' \in TaskType
      /\ "CONFIG_COUNTER" \in host'.caps => setup.counter
      /\ task' = Idle \/ (task'.step = "identify" /\ task'.todo # <<>>)
  <2>1. host \in HostType /\ task \in TaskType /\ task.todo # <<>>
    BY <1>1 DEF IInv, Types, ArgumentsFit
  <2>2. CASE Ends
    <3>1. EndsWith(host)
      BY <2>2 DEF Ends
    <3>2. /\ task' = Idle /\ task' \in TaskType /\ host' \in HostType /\ host'.caps = host.caps
          /\ host' = host \/ host'.state = "closed"
      BY <2>1, <3>1, EndsKeeps DEF IInv
    <3> QED
      BY <3>2 DEF Same, IInv, KnownInv
  <2>3. CASE EndsWith(h)
    <3>1. /\ task' = Idle /\ task' \in TaskType /\ host' \in HostType /\ host'.caps = h.caps
          /\ host' = h \/ host'.state = "closed"
      BY <1>4, <2>3, EndsKeeps DEF IInv
    <3> QED
      BY <1>4, <3>1 DEF Same
  <2>4. CASE rest # <<>> /\ task' = [task EXCEPT !.todo = rest] /\ host' = h
    <3>1. rest \in Seq(Reads)
      BY <2>1 DEF TaskType
    <3>2. task' \in TaskType /\ task'.step = "identify" /\ task'.todo # <<>>
      BY <1>1, <2>1, <2>4, <3>1 DEF TaskType
    <3> QED
      BY <1>4, <2>4, <3>2
  <2> QED
    BY <1>6, <2>2, <2>3, <2>4
<1>8. /\ info' \in [known : BOOLEAN, counted : BOOLEAN, sensors : SUBSET Sensors]
      /\ info'.counted => setup.counter
  <2>1. CASE info' = info
    BY <2>1 DEF IInv, Types, KnownInv
  <2>2. CASE info' = [known |-> TRUE, counted |-> "CONFIG_COUNTER" \in h.caps, sensors |-> {}]
    <3>1. CASE "CONFIG_COUNTER" \in h.caps
      <4>1. info' = [known |-> TRUE, counted |-> TRUE, sensors |-> {}]
        BY <2>2, <3>1, Zenon
      <4> QED
        BY <1>4, <3>1, <4>1
    <3>2. CASE "CONFIG_COUNTER" \notin h.caps
      <4>1. ("CONFIG_COUNTER" \in h.caps) = FALSE
        BY <3>2
      <4>2. info' = [known |-> TRUE, counted |-> FALSE, sensors |-> {}]
        BY <2>2, <4>1, Zenon
      <4> QED
        BY <4>2
    <3> QED
      BY <3>1, <3>2
  <2> QED
    BY <1>6, <2>1, <2>2
<1>9. Types'
  <2>1. ArgumentsFit'
    BY <1>7 DEF ArgumentsFit, Idle
  <2> QED
    BY <1>1, <1>5, <1>7, <1>8, <2>1 DEF IInv, Types, Asked
<1>10. RateInv'
  BY <1>1, <1>5, <1>7, RateStays DEF IInv, Asked
<1>11. KnownInv'
  <2>1. task'.step # "discover"
    BY <1>7 DEF Idle
  <2> QED
    BY <1>1, <1>5, <1>7, <1>8, <2>1, SameSetup DEF IInv, KnownInv, Asked
<1> QED
  BY <1>5, <1>9, <1>10, <1>11 DEF IInv, Asked, ChangesAreConfirmed

\* A step that leaves the port and its settings as they are.
LEMMA Steady ==
  ASSUME IInv, Asked, setup' = setup, excuse' = excuse, Same(host'), host'.caps = host.caps,
         task' \in TaskType, ArgumentsFit', task.step # "reopen" \/ task' = task,
         info' \in [known : BOOLEAN, counted : BOOLEAN, sensors : SUBSET Sensors],
         info'.counted = info.counted,
         found' \in [done : BOOLEAN, sensors : SUBSET Sensors],
         found' = found \/ found'.sensors = {i \in Sensors : Accepted(Slot(i))},
         task' = task \/ task'.step # "discover"
           \/ task'.heard = {i \in Sensors : i < task'.next /\ Accepted(Slot(i))}
  PROVE  IInv'
<1>1. Types'
  BY DEF IInv, Types, Asked, Same
<1>2. RateInv'
  BY RateStays DEF IInv, Asked
<1>3. KnownInv'
  BY SameSetup DEF IInv, KnownInv, Asked
<1> QED
  BY <1>1, <1>2, <1>3 DEF IInv, Asked, ChangesAreConfirmed

\* So does the end of a call, but for a reopen.
LEMMA SteadyEnd ==
  ASSUME IInv, Asked, setup' = setup, excuse' = excuse, task.step # "reopen", Ends,
         info' \in [known : BOOLEAN, counted : BOOLEAN, sensors : SUBSET Sensors],
         info'.counted = info.counted,
         found' \in [done : BOOLEAN, sensors : SUBSET Sensors],
         found' = found \/ found'.sensors = {i \in Sensors : Accepted(Slot(i))}
  PROVE  IInv'
<1>1. EndsWith(host) /\ host \in HostType
  BY DEF Ends, IInv, Types
<1>2. /\ task' = Idle /\ task' \in TaskType /\ host' \in HostType /\ host'.caps = host.caps
      /\ host' = host \/ host'.state = "closed"
  BY <1>1, EndsKeeps DEF IInv
<1>3. Same(host') /\ ArgumentsFit' /\ task'.step # "discover"
  BY <1>2, IdleFits DEF Same, Idle
<1> QED
  BY <1>2, <1>3, Steady

\* An answer that ends the list: no later slot answers.
LEMMA ListEnds ==
  ASSUME IInv, task.step = "discover", ~Accepted(Slot(task.next)), Slot(task.next) # "err03"
  PROVE  task.heard = {i \in Sensors : Accepted(Slot(i))}
<1>1. task.next \notin setup.sensors /\ ~(task.next < setup.listed) /\ setup.ends # "err03"
  BY DEF Slot, Accepted
<1>2. /\ task.next \in Nat /\ Sensors \subseteq Nat /\ setup.sensors \subseteq Sensors
      /\ setup.listed \in Nat /\ setup.ends \in {"err03", "err04", "err10"}
      /\ \A i \in setup.sensors : i < setup.listed
  BY <1>1 DEF IInv, Types, TaskType, Sensors, AllSetups
<1>3. \A i \in Sensors : i >= task.next => ~Accepted(Slot(i))
  <2> SUFFICES ASSUME NEW i \in Sensors, i >= task.next PROVE ~Accepted(Slot(i))
    OBVIOUS
  <2>1. ~(i < setup.listed)
    BY <1>1, <1>2
  <2>2. i \notin setup.sensors
    BY <1>2, <2>1
  <2>3. Slot(i) = setup.ends
    BY <2>1, <2>2 DEF Slot
  <2> QED
    BY <1>2, <2>3 DEF Accepted
<1>4. task.heard = {i \in Sensors : i < task.next /\ Accepted(Slot(i))}
  BY DEF IInv, KnownInv
<1>5. \A i \in Sensors : i < task.next \/ i >= task.next
  BY <1>2
<1> QED
  BY <1>3, <1>4, <1>5

LEMMA DiscoverReturnsKeeps ==
  ASSUME IInv, Asked, task.step = "discover", UNCHANGED <<setup, excuse>>,
         NEW sensors, sensors = {i \in Sensors : Accepted(Slot(i))}, DiscoverReturns(sensors)
  PROVE  IInv'
<1>1. /\ Ends /\ found' = [done |-> TRUE, sensors |-> sensors]
      /\ info' = IF info.known THEN [info EXCEPT !.sensors = sensors] ELSE info
  BY DEF DiscoverReturns
<1>2. sensors \in SUBSET Sensors
  OBVIOUS
<1>3. info' \in [known : BOOLEAN, counted : BOOLEAN, sensors : SUBSET Sensors] /\ info'.counted = info.counted
  BY <1>1, <1>2 DEF IInv, Types
<1> QED
  BY <1>1, <1>2, <1>3, SteadyEnd

LEMMA DiscoverSkipsKeeps ==
  ASSUME IInv, Asked, task.step = "discover", UNCHANGED <<setup, excuse>>, NEW sensors,
         sensors = {i \in Sensors : i <= task.next /\ Accepted(Slot(i))}, DiscoverSkips(sensors)
  PROVE  IInv'
<1>1. task.next \in Sensors /\ task \in TaskType /\ MaxIndex \in Nat
  BY DEF IInv, Types, TaskType
<1>2. CASE task.next = MaxIndex
  <2>1. sensors = {i \in Sensors : Accepted(Slot(i))}
    BY <1>1, <1>2 DEF Sensors
  <2> QED
    BY <1>2, <2>1, DiscoverReturnsKeeps DEF DiscoverSkips
<1>3. CASE task.next # MaxIndex
  <2>1. /\ task' = [task EXCEPT !.next = @ + 1, !.heard = sensors]
        /\ UNCHANGED <<host, info, found>>
    BY <1>3 DEF DiscoverSkips
  <2>2. task.next + 1 \in Sensors /\ sensors \in SUBSET Sensors
    BY <1>1, <1>3 DEF Sensors
  <2>3. /\ task' \in TaskType /\ task'.step = "discover" /\ task'.next = task.next + 1
        /\ task'.heard = sensors
    BY <1>1, <2>1, <2>2 DEF TaskType
  <2>4. sensors = {i \in Sensors : i < task'.next /\ Accepted(Slot(i))}
    BY <1>1, <2>3 DEF Sensors
  <2>5. ArgumentsFit' /\ Same(host') /\ host'.caps = host.caps
    BY <2>1, <2>3 DEF ArgumentsFit, Same, IInv, Types
  <2>6. /\ info' \in [known : BOOLEAN, counted : BOOLEAN, sensors : SUBSET Sensors]
        /\ info'.counted = info.counted /\ found' = found
        /\ found' \in [done : BOOLEAN, sensors : SUBSET Sensors]
    BY <2>1 DEF IInv, Types
  <2> QED
    BY <2>3, <2>4, <2>5, <2>6, Steady
<1> QED
  BY <1>2, <1>3

LEMMA DiscoverStepKeeps == IInv /\ DiscoverStep => IInv'
<1> SUFFICES ASSUME IInv, DiscoverStep PROVE IInv'
  OBVIOUS
<1>1. task.step = "discover" /\ UNCHANGED <<setup, excuse>> /\ (DiscoverRefused \/ DiscoverAsks)
  BY DEF DiscoverStep
<1>2. /\ info \in [known : BOOLEAN, counted : BOOLEAN, sensors : SUBSET Sensors]
      /\ found \in [done : BOOLEAN, sensors : SUBSET Sensors]
  BY DEF IInv, Types
<1>3. CASE DiscoverRefused
  <2>1. Asked
    BY <1>3, NothingAsked DEF DiscoverRefused
  <2>2. GateKnownDenied("read_temperature")
    <3>1. Command["read_temperature"].parameterized
      BY DEF Command, Cmd
    <3> QED
      BY <3>1 DEF GateKnownDenied, IInv, KnownInv, Justified
  <2>3. Ends /\ UNCHANGED <<found, info>>
    BY <1>3, <2>2 DEF DiscoverRefused
  <2> QED
    BY <1>1, <1>2, <2>1, <2>3, SteadyEnd
<1>4. CASE DiscoverAsks
  <2>1. PICK outcome \in Outcomes :
          /\ Executes("read_temperature", task.next, outcome) /\ Notes("no")
          /\ IF outcome = "answered" THEN DiscoverHears(Slot(task.next))
             ELSE Ends /\ UNCHANGED <<found, info>>
    BY <1>4 DEF DiscoverAsks
  <2>2. Asked
    BY <1>4, <2>1, ReadAsked DEF DiscoverAsks
  <2>3. CASE outcome # "answered"
    BY <1>1, <1>2, <2>1, <2>2, <2>3, SteadyEnd
  <2>4. CASE outcome = "answered"
    <3>1. DiscoverHears(Slot(task.next))
      BY <2>1, <2>4
    <3>2. task.heard = {i \in Sensors : i < task.next /\ Accepted(Slot(i))} /\ task.next \in Sensors
      BY <1>1 DEF IInv, KnownInv, Types, TaskType
    <3>3. CASE Accepted(Slot(task.next))
      <4>1. DiscoverSkips(task.heard \union {task.next})
        BY <3>1, <3>3 DEF DiscoverHears, Accepted
      <4>2. task.heard \union {task.next} = {i \in Sensors : i <= task.next /\ Accepted(Slot(i))}
        BY <3>2, <3>3 DEF Sensors
      <4> QED
        BY <1>1, <2>2, <4>1, <4>2, DiscoverSkipsKeeps
    <3>4. CASE Slot(task.next) = "err03"
      <4>1. ~Accepted(Slot(task.next))
        BY <3>4 DEF Accepted
      <4>2. DiscoverSkips(task.heard)
        BY <3>1, <3>4, <4>1 DEF DiscoverHears
      <4>3. task.heard = {i \in Sensors : i <= task.next /\ Accepted(Slot(i))}
        BY <3>2, <4>1 DEF Sensors
      <4> QED
        BY <1>1, <2>2, <4>2, <4>3, DiscoverSkipsKeeps
    <3>5. CASE ~Accepted(Slot(task.next)) /\ Slot(task.next) # "err03"
      <4>1. DiscoverReturns(task.heard)
        BY <3>1, <3>5 DEF DiscoverHears
      <4>2. task.heard = {i \in Sensors : Accepted(Slot(i))}
        BY <1>1, <3>5, ListEnds
      <4> QED
        BY <1>1, <2>2, <4>1, <4>2, DiscoverReturnsKeeps
    <3> QED
      BY <3>3, <3>4, <3>5
  <2> QED
    BY <2>3, <2>4
<1> QED
  BY <1>1, <1>3, <1>4

\* A composite call's confirm was not refused by word.
LEMMA ConfirmedSaid ==
  ASSUME Types, Confirmed
  PROVE  task.said # "no" /\ task.said \in Says
BY DEF Confirmed, Types, TaskType

\* One that is not confirmed leaves everything as it is.
LEMMA UnconfirmedKeeps ==
  ASSUME IInv, Unconfirmed, UNCHANGED <<setup, denied, refused, info, found>>
  PROVE  IInv'
<1>1. Ends /\ UNCHANGED <<bal, unasked, excuse>>
  BY DEF Unconfirmed
<1>2. EndsWith(host) /\ host \in HostType
  BY <1>1 DEF Ends, IInv, Types
<1>3. /\ task' = Idle /\ task' \in TaskType /\ host' \in HostType /\ host'.caps = host.caps
      /\ host' = host \/ host'.state = "closed"
  BY <1>2, EndsKeeps DEF IInv
<1>4. ArgumentsFit' /\ task'.step = "idle"
  BY <1>3, IdleFits DEF Idle
<1>5. Types'
  BY <1>1, <1>3, <1>4 DEF IInv, Types
<1>6. RateInv'
  BY <1>1, <1>3 DEF IInv, RateInv, Unconfirmed
<1>7. KnownInv'
  BY <1>3, <1>4, SameSetup DEF IInv, KnownInv
<1> QED
  BY <1>1, <1>5, <1>6, <1>7 DEF IInv, ChangesAreConfirmed

LEMMA RateStepKeeps == IInv /\ RateStep => IInv'
<1> SUFFICES ASSUME IInv, RateStep PROVE IInv'
  OBVIOUS
<1>1. task.step = "rate" /\ UNCHANGED <<setup, denied, refused, info, found>>
  BY DEF RateStep
<1>2. CASE Unconfirmed
  BY <1>1, <1>2, UnconfirmedKeeps
<1>3. CASE Confirmed /\ SendsRate
  <2>1. task' = [task EXCEPT !.step = "reopen", !.target = "xbpi"] /\ UNCHANGED host
    BY <1>3 DEF SendsRate
  <2>2. PICK outcome \in Outcomes :
          /\ ExecutesRaw(SetBaud, task.code, TRUE, outcome) /\ Notes(task.said)
          /\ excuse' = (excuse \/ (Arrives(outcome) /\ task.code # task.rate))
    BY <1>3 DEF SendsRate
  <2>3. /\ task \in TaskType /\ task.code \in Rates /\ task.rate \in Rates /\ host.proto = "xbpi"
        /\ host \in HostType /\ task.said # "no" /\ task.said \in Says
    BY <1>1, <1>3, ConfirmedSaid DEF IInv, Types, ArgumentsFit
  <2>4. task.code \in Arguments(host.proto, SetBaud)
    BY <2>3 DEF Arguments, SetBaud, WriteSbn
  <2>5. /\ bal' \in BalanceType /\ unasked' \subseteq {"nothing"}
        /\ bal'.rate # bal.rate => bal'.rate = task.code /\ Arrives(outcome)
    BY <2>2, <2>3, <2>4, RawKeeps DEF IInv
  <2>6. /\ task' \in TaskType /\ task'.step = "reopen" /\ task'.rate = task.rate
    BY <2>1, <2>3 DEF TaskType, Steps, Protocols
  <2>7. Types'
    BY <1>1, <2>1, <2>2, <2>3, <2>5, <2>6 DEF IInv, Types, ArgumentsFit
  <2>8. RateInv'
    <3>1. Confirmed'
      BY <1>3, <2>1, <2>3 DEF Confirmed, TaskType
    <3> QED
      BY <1>1, <2>1, <2>2, <2>5, <2>6, <3>1 DEF IInv, RateInv
  <2>9. KnownInv'
    BY <1>1, <2>1, <2>6, SameSetup DEF IInv, KnownInv
  <2> QED
    BY <2>5, <2>7, <2>8, <2>9 DEF IInv, ChangesAreConfirmed
<1> QED
  BY <1>2, <1>3 DEF RateStep

\* A reopen that ends: the host is h, and its agreement is to be shown.
LEMMA ReopenEnds ==
  ASSUME IInv, UNCHANGED <<setup, bal, denied, refused, info, found, unasked>>, excuse' \in BOOLEAN,
         NEW h \in HostType, EndsWith(h), h.caps = host.caps,
         (h.state = "operational" /\ ~excuse') =>
            h.open /\ h.rate = h.settings /\ bal.rate = h.rate
  PROVE  IInv'
<1>1. /\ task' = Idle /\ task' \in TaskType /\ host' \in HostType /\ host'.caps = host.caps
      /\ host' = h \/ host'.state = "closed"
  BY EndsKeeps DEF IInv
<1>2. ArgumentsFit' /\ task'.step = "idle"
  BY <1>1, IdleFits DEF Idle
<1>3. Types'
  BY <1>1, <1>2 DEF IInv, Types
<1>4. RateInv'
  BY <1>1 DEF RateInv
<1>5. KnownInv'
  BY <1>1, <1>2, SameSetup DEF IInv, KnownInv
<1> QED
  BY <1>3, <1>4, <1>5 DEF IInv, ChangesAreConfirmed

LEMMA ReopenStepKeeps == IInv /\ ReopenStep => IInv'
<1> SUFFICES ASSUME IInv, ReopenStep PROVE IInv'
  OBVIOUS
<1>1. task.step = "reopen" /\ UNCHANGED <<setup, bal, info, found, unasked>>
  BY DEF ReopenStep
<1>2. /\ host \in HostType /\ task \in TaskType /\ task.rate \in Rates /\ task.target \in Protocols
      /\ excuse \in BOOLEAN
  BY <1>1 DEF IInv, Types, ArgumentsFit, TaskType
<1>3. CASE Installs
  <2>1. /\ ReachesAs(Reopened) /\ host' = [Reopened EXCEPT !.settings = task.rate]
        /\ task' = [Idle EXCEPT !.step = "identify", !.todo = IdentityReads[task.target],
                                !.oneshot = task.oneshot]
        /\ excuse' = FALSE /\ denied' = {}
    BY <1>3 DEF Installs, InstallsPort
  <2>2. /\ Reopened \in HostType /\ Reopened.rate = task.rate /\ Reopened.open
        /\ Reopened.caps = host.caps
    BY <1>2 DEF Reopened, HostType
  <2>3. /\ host' \in HostType /\ host'.rate = task.rate /\ host'.settings = task.rate
        /\ host'.open /\ host'.caps = host.caps
    BY <1>2, <2>1, <2>2 DEF HostType
  <2>4. bal.rate = task.rate
    BY <2>1, <2>2 DEF ReachesAs
  <2>5. IdentityReads[task.target] \in Seq(Reads) /\ IdentityReads[task.target] # <<>>
    BY <1>2, ReadsTyped
  <2>6. task' \in TaskType /\ task'.step = "identify" /\ task'.todo # <<>>
    <3>1. task.oneshot \in BOOLEAN
      BY <1>2 DEF TaskType
    <3>2. Idle \in TaskType
      BY IdleTyped
    <3> QED
      BY <2>1, <2>5, <3>1, <3>2 DEF TaskType, Steps
  <2>7. Types'
    BY <1>1, <2>1, <2>3, <2>6 DEF IInv, Types, ArgumentsFit
  <2>8. RateInv'
    BY <1>1, <2>3, <2>4 DEF RateInv
  <2>9. KnownInv'
    BY <1>1, <2>1, <2>3, <2>6, SameSetup DEF IInv, KnownInv
  <2> QED
    BY <1>1, <2>7, <2>8, <2>9 DEF IInv, ChangesAreConfirmed
<1>4. CASE RollsBack
  <2> DEFINE h == [host EXCEPT !.rate = host.settings, !.open = TRUE]
  <2>1. /\ EndsWith(h) /\ UNCHANGED <<denied, refused>>
        /\ excuse' = (excuse \/ (bal.rate = task.rate /\ task.rate # host.settings))
    BY <1>4 DEF RollsBack
  <2>2. /\ h \in HostType /\ h.caps = host.caps /\ h.open /\ h.rate = host.settings
        /\ h.settings = host.settings /\ h.state = host.state
    BY <1>2 DEF HostType
  <2>3. (h.state = "operational" /\ ~excuse') => bal.rate = h.rate
    BY <2>1, <2>2 DEF IInv, RateInv
  <2>4. excuse' \in BOOLEAN
    BY <2>1
  <2> HIDE DEF h
  <2> QED
    BY <1>1, <2>1, <2>2, <2>3, <2>4, ReopenEnds
<1>5. CASE Breaks
  <2> DEFINE h == [host EXCEPT !.state = "broken", !.open = FALSE]
  <2>1. EndsWith(h) /\ UNCHANGED <<denied, refused, excuse>>
    BY <1>5 DEF Breaks
  <2>2. h \in HostType /\ h.caps = host.caps /\ h.state = "broken"
    BY <1>2 DEF HostType
  <2> HIDE DEF h
  <2> QED
    BY <1>1, <1>2, <2>1, <2>2, ReopenEnds
<1>6. CASE Unconfirmed /\ UNCHANGED <<denied, refused>>
  BY <1>1, <1>6, UnconfirmedKeeps
<1> QED
  BY <1>3, <1>4, <1>5, <1>6 DEF ReopenStep

LEMMA SbnStepKeeps == IInv /\ SbnStep => IInv'
<1> SUFFICES ASSUME IInv, SbnStep PROVE IInv'
  OBVIOUS
<1>1. task.step = "sbn" /\ UNCHANGED <<setup, denied, refused, info, found>>
  BY DEF SbnStep
<1>2. CASE Unconfirmed
  BY <1>1, <1>2, UnconfirmedKeeps
<1>3. CASE Confirmed /\ SendsSbn
  <2>1. PICK outcome \in Outcomes :
          /\ ExecutesRaw(WriteSbn, task.sbn, TRUE, outcome) /\ Notes(task.said)
          /\ IF outcome = "answered" THEN task' = [task EXCEPT !.step = "readback"] /\ UNCHANGED host
             ELSE Ends
    BY <1>3 DEF SendsSbn
  <2>2. /\ task \in TaskType /\ task.sbn \in Addresses /\ host.proto = "xbpi" /\ host \in HostType
        /\ task.said # "no" /\ task.said \in Says /\ excuse' = excuse
        /\ info \in [known : BOOLEAN, counted : BOOLEAN, sensors : SUBSET Sensors]
        /\ found \in [done : BOOLEAN, sensors : SUBSET Sensors]
    BY <1>1, <1>3, ConfirmedSaid DEF IInv, Types, ArgumentsFit, SendsSbn
  <2>3. task.sbn \in Arguments(host.proto, WriteSbn)
    BY <2>2 DEF Arguments, SetBaud, WriteSbn
  <2>4. Asked
    <3>1. ~(WriteSbn = SetBaud)
      BY DEF SetBaud, WriteSbn
    <3>2. /\ bal' \in BalanceType /\ unasked' \subseteq {"nothing"}
          /\ bal'.rate # bal.rate => WriteSbn = SetBaud
      BY <2>1, <2>2, <2>3, RawKeeps DEF IInv
    <3> QED
      BY <1>1, <3>1, <3>2 DEF Asked, IInv, KnownInv
  <2>5. CASE outcome = "answered"
    <3>1. task' \in TaskType /\ task'.step = "readback" /\ task'.sbn = task.sbn
      BY <2>1, <2>2, <2>5 DEF TaskType, Steps
    <3>2. ArgumentsFit' /\ Same(host') /\ host'.caps = host.caps
      BY <2>1, <2>2, <2>5, <3>1 DEF ArgumentsFit, Same
    <3> QED
      BY <1>1, <2>2, <2>4, <3>1, <3>2, Steady
  <2>6. CASE outcome # "answered"
    BY <1>1, <2>1, <2>2, <2>4, <2>6, SteadyEnd
  <2> QED
    BY <2>5, <2>6
<1> QED
  BY <1>2, <1>3 DEF SbnStep

LEMMA ReadbackStepKeeps == IInv /\ ReadbackStep => IInv'
<1> SUFFICES ASSUME IInv, ReadbackStep PROVE IInv'
  OBVIOUS
<1>1. task.step = "readback" /\ UNCHANGED <<setup, info, found, excuse>>
  BY DEF ReadbackStep
<1>2. /\ task.sbn \in Addresses /\ host \in HostType
      /\ info \in [known : BOOLEAN, counted : BOOLEAN, sensors : SUBSET Sensors]
      /\ found \in [done : BOOLEAN, sensors : SUBSET Sensors]
  BY <1>1 DEF IInv, Types, ArgumentsFit
<1>3. CASE Gates("read_sbn", FALSE)
  <2>1. PICK outcome \in Outcomes :
          /\ Executes("read_sbn", 0, outcome) /\ Notes("no")
          /\ EndsWith(IF outcome = "answered" /\ task.update
                      THEN [host EXCEPT !.dst = task.sbn] ELSE host)
    BY <1>3 DEF ReadbackStep
  <2>2. Asked
    BY <1>3, <2>1, ReadAsked
  <2> DEFINE h == IF outcome = "answered" /\ task.update
                  THEN [host EXCEPT !.dst = task.sbn] ELSE host
  <2>3. h \in HostType /\ h.caps = host.caps /\ Same(h)
    BY <1>2 DEF HostType, Same
  <2>4. EndsWith(h)
    BY <2>1
  <2> HIDE DEF h
  <2>5. /\ task' = Idle /\ task' \in TaskType /\ host' \in HostType /\ host'.caps = h.caps
        /\ host' = h \/ host'.state = "closed"
    BY <2>3, <2>4, EndsKeeps DEF IInv
  <2>6. Same(host') /\ ArgumentsFit' /\ task'.step = "idle"
    BY <2>3, <2>5, IdleFits DEF Same, Idle
  <2> QED
    BY <1>1, <1>2, <2>2, <2>3, <2>5, <2>6, Steady
<1>4. CASE ~Gates("read_sbn", FALSE)
  <2>1. Ends /\ UNCHANGED <<bal, denied, refused, unasked>>
    BY <1>4 DEF ReadbackStep
  <2>2. Asked
    BY <2>1, NothingAsked
  <2> QED
    BY <1>1, <1>2, <2>1, <2>2, SteadyEnd
<1> QED
  BY <1>3, <1>4

LEMMA CancelKeeps == IInv /\ Cancel => IInv'
<1> SUFFICES ASSUME IInv, Cancel PROVE IInv'
  OBVIOUS
<1>1. /\ excuse' = (excuse \/ task.step = "reopen")
      /\ UNCHANGED <<setup, bal, denied, refused, info, found, unasked>>
  BY DEF Cancel
<1>2. /\ host \in HostType /\ excuse \in BOOLEAN
      /\ info \in [known : BOOLEAN, counted : BOOLEAN, sensors : SUBSET Sensors]
      /\ found \in [done : BOOLEAN, sensors : SUBSET Sensors]
  BY DEF IInv, Types
<1>3. CASE task.step = "reopen"
  <2>1. task.rate \in Rates
    BY <1>3 DEF IInv, Types, ArgumentsFit
  <2>2. \E h \in HostType : EndsWith(h) /\ h.caps = host.caps
    <3>1. [host EXCEPT !.rate = task.rate] \in HostType /\ [host EXCEPT !.open = FALSE] \in HostType
      BY <1>2, <2>1 DEF HostType
    <3>2. /\ [host EXCEPT !.rate = task.rate].caps = host.caps
          /\ [host EXCEPT !.open = FALSE].caps = host.caps
      BY <1>2 DEF HostType
    <3>3. \/ EndsWith(host) \/ EndsWith([host EXCEPT !.rate = task.rate])
          \/ EndsWith([host EXCEPT !.open = FALSE])
      BY DEF Cancel, Ends
    <3> QED
      BY <1>2, <3>1, <3>2, <3>3
  <2>3. excuse' = TRUE
    BY <1>1, <1>3
  <2> QED
    BY <1>1, <2>2, <2>3, ReopenEnds
<1>4. CASE task.step # "reopen"
  <2>1. Ends /\ excuse' = excuse
    BY <1>1, <1>2, <1>4 DEF Cancel
  <2>2. Asked
    BY <1>1, NothingAsked
  <2> QED
    BY <1>1, <1>2, <1>4, <2>1, <2>2, SteadyEnd
<1> QED
  BY <1>3, <1>4

-----------------------------------------------------------------------------
(* Everybody else, and the theorems.                                       *)

LEMMA ReaderCommandKeeps == IInv /\ ReaderCommand => IInv'
<1> SUFFICES ASSUME IInv, ReaderCommand PROVE IInv'
  OBVIOUS
<1>1. UNCHANGED <<setup, host, info, task, found, excuse>>
  BY DEF ReaderCommand
<1>2. PICK c \in ReaderCommands, i \in 0..BadArgument, confirm \in BOOLEAN, outcome \in Outcomes :
        Gates(c, confirm) /\ Executes(c, i, outcome) /\ Notes(Said(confirm))
  BY DEF ReaderCommand
<1>3. Asked
  <2>1. Said(confirm) \in Says /\ (confirm => Said(confirm) # "no")
    BY DEF Said, Says
  <2> QED
    BY <1>2, <2>1, ExecutesAsked DEF Gates
<1>4. /\ host \in HostType /\ task \in TaskType /\ ArgumentsFit
      /\ info \in [known : BOOLEAN, counted : BOOLEAN, sensors : SUBSET Sensors]
      /\ found \in [done : BOOLEAN, sensors : SUBSET Sensors]
  BY DEF IInv, Types
<1>5. Same(host') /\ ArgumentsFit'
  BY <1>1, <1>4 DEF Same, ArgumentsFit
<1> QED
  BY <1>1, <1>3, <1>4, <1>5, Steady

LEMMA ReaderRawKeeps == IInv /\ ReaderRaw => IInv'
<1> SUFFICES ASSUME IInv, ReaderRaw PROVE IInv'
  OBVIOUS
<1>1. UNCHANGED <<setup, host, denied, refused, info, task, found>>
  BY DEF ReaderRaw
<1>2. PICK request \in ReaderRaws[host.proto], confirm \in BOOLEAN, outcome \in Outcomes :
        \E arg \in Arguments(host.proto, request) :
          /\ ExecutesRaw(request, arg, confirm, outcome) /\ Notes(Said(confirm))
          /\ excuse' = (excuse \/ bal'.rate # bal.rate)
  BY DEF ReaderRaw
<1>3. PICK arg \in Arguments(host.proto, request) :
        /\ ExecutesRaw(request, arg, confirm, outcome) /\ Notes(Said(confirm))
        /\ excuse' = (excuse \/ bal'.rate # bal.rate)
  BY <1>2
<1>4. bal' \in BalanceType /\ unasked' \subseteq {"nothing"}
  <2>1. Said(confirm) \in Says /\ (confirm => Said(confirm) # "no")
    BY DEF Said, Says
  <2> QED
    BY <1>3, <2>1, RawKeeps DEF IInv
<1>5. Types'
  BY <1>1, <1>3, <1>4 DEF IInv, Types, ArgumentsFit
<1>6. RateInv'
  BY <1>1, <1>3 DEF IInv, RateInv, Confirmed
<1>7. KnownInv'
  BY <1>1, SameSetup DEF IInv, KnownInv
<1> QED
  BY <1>4, <1>5, <1>6, <1>7 DEF IInv, ChangesAreConfirmed

LEMMA FrontPanelKeeps == IInv /\ FrontPanel => IInv'
<1> SUFFICES ASSUME IInv, FrontPanel PROVE IInv'
  OBVIOUS
<1>1. /\ bal' = [bal EXCEPT !.proto = CHOOSE p \in Protocols : p # @]
      /\ UNCHANGED <<setup, host, denied, refused, info, task, found, excuse, unasked>>
  BY DEF FrontPanel
<1>2. bal \in BalanceType
  BY DEF IInv, Types
<1>3. (CHOOSE p \in Protocols : p # bal.proto) \in Protocols
  <2>1. \E p \in Protocols : p # bal.proto
    BY DEF Protocols
  <2> QED
    BY <2>1
<1>4. bal' \in BalanceType /\ bal'.rate = bal.rate
  BY <1>1, <1>2, <1>3 DEF BalanceType
<1>5. Types'
  BY <1>1, <1>4 DEF IInv, Types, ArgumentsFit
<1>6. RateInv'
  BY <1>1, <1>4 DEF IInv, RateInv, Confirmed
<1>7. KnownInv'
  BY <1>1, SameSetup DEF IInv, KnownInv
<1> QED
  BY <1>1, <1>5, <1>6, <1>7 DEF IInv, ChangesAreConfirmed

LEMMA CloseKeeps == IInv /\ Close => IInv'
<1> SUFFICES ASSUME IInv, Close PROVE IInv'
  OBVIOUS
<1>1. /\ task.step = "idle" /\ host' = Closed(host)
      /\ UNCHANGED <<setup, bal, denied, refused, info, task, found, excuse, unasked>>
  BY DEF Close, Idle
<1>2. host' \in HostType /\ host'.state = "closed" /\ host'.caps = host.caps
  BY <1>1 DEF Closed, HostType, IInv, Types
<1>3. Types'
  BY <1>1, <1>2 DEF IInv, Types, ArgumentsFit
<1>4. RateInv'
  BY <1>2 DEF RateInv
<1>5. KnownInv'
  BY <1>1, <1>2, SameSetup DEF IInv, KnownInv
<1> QED
  BY <1>1, <1>3, <1>4, <1>5 DEF IInv, ChangesAreConfirmed

LEMMA InitHolds == Init => IInv
<1> SUFFICES ASSUME Init PROVE IInv
  OBVIOUS
<1>1. PICK p \in Protocols, r \in Rates, a \in Addresses :
        /\ bal = [proto |-> p, rate |-> r, sbn |-> a, menu |-> 0]
        /\ host = [proto |-> p, rate |-> r, settings |-> r, dst |-> a,
                   state |-> "operational", open |-> TRUE, caps |-> {}]
  BY DEF Init
<1>2. bal \in BalanceType /\ bal.rate = r
  BY <1>1 DEF BalanceType
<1>3. host \in HostType /\ host.open /\ host.rate = r /\ host.settings = r /\ host.caps = {}
  BY <1>1 DEF HostType
<1>4. /\ task = Idle /\ task \in TaskType /\ task.step = "idle"
  BY IdleTyped DEF Init, Idle
<1>5. /\ info \in [known : BOOLEAN, counted : BOOLEAN, sensors : SUBSET Sensors] /\ ~info.counted
      /\ found \in [done : BOOLEAN, sensors : SUBSET Sensors] /\ ~found.done
  BY DEF Init, NoInfo
<1>6. setup \in AllSetups /\ denied = {} /\ excuse = FALSE /\ unasked = {}
  BY DEF Init
<1>7. Types
  BY <1>2, <1>3, <1>4, <1>5, <1>6 DEF Types, ArgumentsFit
<1>8. RateInv
  BY <1>2, <1>3 DEF RateInv
<1>9. KnownInv
  BY <1>3, <1>4, <1>5, <1>6 DEF KnownInv
<1> QED
  BY <1>6, <1>7, <1>8, <1>9 DEF IInv, ChangesAreConfirmed

LEMMA StutterKeeps == IInv /\ UNCHANGED vars => IInv'
<1> SUFFICES ASSUME IInv, UNCHANGED vars PROVE IInv'
  OBVIOUS
<1>1. Types' /\ RateInv' /\ ChangesAreConfirmed'
  BY DEF vars, IInv, Types, ArgumentsFit, RateInv, Confirmed, ChangesAreConfirmed
<1>2. KnownInv'
  BY SameSetup DEF vars, IInv, KnownInv
<1> QED
  BY <1>1, <1>2 DEF IInv

LEMMA Invariance == Spec => []IInv
<1>1. Init => IInv
  BY InitHolds
<1>2. IInv /\ [Next]_vars => IInv'
  BY IdentifyCallKeeps, DiscoverCallKeeps, SwitchCallKeeps, SetBaudRateCallKeeps, WriteSbnCallKeeps,
     IdentifyStepKeeps, DiscoverStepKeeps, RateStepKeeps, ReopenStepKeeps, SbnStepKeeps,
     ReadbackStepKeeps, CancelKeeps, ReaderCommandKeeps, ReaderRawKeeps, FrontPanelKeeps,
     CloseKeeps, StutterKeeps
     DEF Next
<1> QED
  BY <1>1, <1>2, PTL DEF Spec

\* Whatever rates, lost acknowledgements and failed reopens there are, between two calls
\* the port of a usable session is open at the balance's rate, but for the named
\* accidents (set_baud_rate, configure_protocol).
THEOREM RatesAgree == Spec => []RateKept
<1>1. IInv => RateKept
  BY DEF IInv, RateInv, RateKept, Idle
<1> QED
  BY <1>1, Invariance, PTL

\* A balance with any number of sensor slots is discovered as it answers, by any
\* firmware's convention, and what the session has denied was refused to the client it
\* has, and is unknown to the balance but for the arguments that are not marked
\* (discover_temperature_sensors, _execute_xbpi, identify, replace_clients).
THEOREM KnowledgeIsTrue == Spec => []KnowledgeTrue
<1>1. IInv => KnowledgeTrue
  <2> SUFFICES ASSUME IInv PROVE KnowledgeTrue
    OBVIOUS
  <2>1. TypeOK
    <3>1. denied \subseteq Commands
      BY DEF IInv, KnownInv, Justified
    <3>2. /\ bal \in BalanceType /\ host \in HostType /\ task.step \in Steps
          /\ task.said \in Says /\ info.sensors \subseteq Sensors
      BY DEF IInv, Types, TaskType
    <3>3. unasked \subseteq Says
      BY DEF IInv, ChangesAreConfirmed, Says
    <3> QED
      BY <3>1, <3>2, <3>3 DEF TypeOK, BalanceType, HostType, Caps, Steps
  <2>2. \A c \in denied : c \in refused /\ Justified(c)
    BY DEF IInv, KnownInv
  <2> QED
    BY <2>1, <2>2 DEF KnowledgeTrue, IInv, KnownInv, Justified
<1> QED
  BY <1>1, Invariance, PTL

\* No typed, raw or composite call whatever changes what the balance keeps unless its
\* caller confirmed it, or left that to a one-shot helper (_gate_safety,
\* execute_raw_xbpi, execute_raw_sbi, configure_protocol, set_baud_rate,
\* write_sbn_address).
THEOREM ChangesConfirmed == Spec => []ChangesAreConfirmed
<1>1. IInv => ChangesAreConfirmed
  BY DEF IInv
<1> QED
  BY <1>1, Invariance, PTL
=============================================================================
