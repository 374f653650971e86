------------------------- MODULE ResultCacheProofs -------------------------
(***************************************************************************)
(* ResultCache keeps its cache sound for every number of tasks, parameters *)
(* and cache keys, every modulus of the counter and any number of changes. *)
(* Soundness is not inductive: an entry is stored from a reply that        *)
(* arrived earlier, under a counter that was read before that. The         *)
(* invariant adds that no pin is ahead of the counter, and that a reply    *)
(* which would be stored under the counter as it is now has the value.     *)
(***************************************************************************)
EXTENDS ResultCache, FiniteSetTheorems, TLAPS

\* What a call's argument is at each exchange, and that the wire belongs to one.
CallInv ==
  /\ \A t \in Tasks : pc[t] \in {"counter", "value"} => call[t] \in Entries
  /\ \A t \in Tasks : pc[t] = "write" => call[t] \in [key : Parameters, value : Values]
  /\ IF wire = None THEN reply = None ELSE pc[wire] \in Exchanges

\* No pin was read from a counter that is still to come.
PinInv ==
  /\ \A t \in Tasks : pinned[t] <= bumps
  /\ \A e \in Entries : cache[e] # None => cache[e].pin <= bumps

\* A reply that has arrived is of its exchange's kind; a value that would be stored under
\* the counter as it is now is the device's.
ReplyInv ==
  (wire # None /\ reply # None) =>
     /\ pc[wire] = "counter" => reply \in Nat /\ reply <= bumps
     /\ pc[wire] = "value" =>
          /\ reply \in Values
          /\ (pinned[wire] = bumps /\ Source[call[wire]] \notin behind) => reply = Value(call[wire])

IInv == TypeOK /\ CallInv /\ PinInv /\ ReplyInv /\ Sound

USE CacheAssumption

-----------------------------------------------------------------------------
(* What the device may do under the cache.                                 *)

\* The counter does not go back, and while it stands only parameters change that are
\* then behind.
Aged ==
  /\ bumps' \in Nat /\ bumps' >= bumps
  /\ reg' \in [Parameters -> Values] /\ changes' \in Nat
  /\ behind' \subseteq Silent /\ behind \subseteq behind'
  /\ seen' \in [Tasks -> SUBSET [Parameters -> Values]]
  /\ bumps' = bumps => \A p \in Parameters \ behind' : reg'[p] = reg[p]

\* The number of parameters in a set of them.
LEMMA ParametersCounted ==
  ASSUME NEW S \in SUBSET Parameters
  PROVE  Cardinality(S) \in Nat /\ (Cardinality(S) = 0 <=> S = {})
<1>1. IsFiniteSet(S)
  BY FS_Subset
<1> QED
  BY <1>1, FS_CardinalityType, FS_EmptySet

LEMMA BecomeTypes ==
  ASSUME TypeOK, NEW r \in [Parameters -> Values], NEW n \in Nat, Become(r, n)
  PROVE  /\ reg' \in [Parameters -> Values] /\ changes' \in Nat
         /\ behind' \subseteq Silent /\ behind \subseteq behind'
         /\ seen' \in [Tasks -> SUBSET [Parameters -> Values]]
         /\ reg' = r
         /\ \A p \in Silent \ behind' : reg'[p] = reg[p]
<1>1. /\ reg' = r /\ changes' = changes + n
      /\ behind' = behind \cup (Changed(r) \cap Silent)
      /\ seen' = [t \in Tasks |-> IF pc[t] \in {"counter", "value"} THEN seen[t] \cup {r} ELSE seen[t]]
  BY DEF Become
<1>2. seen' \in [Tasks -> SUBSET [Parameters -> Values]]
  BY <1>1 DEF TypeOK
<1>3. \A p \in Silent \ behind' : reg'[p] = reg[p]
  BY <1>1 DEF Changed
<1> QED
  BY <1>1, <1>2, <1>3 DEF TypeOK

LEMMA ChangeAges ==
  ASSUME TypeOK, NEW r \in [Parameters -> Values], Change(r)
  PROVE  Aged
<1>1. /\ Changed(r) \in SUBSET Parameters /\ Changed(r) \ Silent \in SUBSET Parameters
  BY DEF Changed
<1>2. /\ Cardinality(Changed(r)) \in Nat
      /\ Cardinality(Changed(r) \ Silent) \in Nat
      /\ Cardinality(Changed(r) \ Silent) = 0 <=> Changed(r) \ Silent = {}
  BY <1>1, ParametersCounted
<1>3. Become(r, Cardinality(Changed(r))) /\ bumps' = bumps + Cardinality(Changed(r) \ Silent)
  BY DEF Change
<1>4. /\ reg' \in [Parameters -> Values] /\ changes' \in Nat
      /\ behind' \subseteq Silent /\ behind \subseteq behind'
      /\ seen' \in [Tasks -> SUBSET [Parameters -> Values]]
      /\ reg' = r
      /\ \A p \in Silent \ behind' : reg'[p] = reg[p]
  BY <1>2, <1>3, BecomeTypes
<1>5. bumps' \in Nat /\ bumps' >= bumps
  BY <1>2, <1>3 DEF TypeOK
<1>6. ASSUME bumps' = bumps, NEW p \in Parameters \ behind' PROVE reg'[p] = reg[p]
  <2>1. Changed(r) \ Silent = {}
    BY <1>2, <1>3, <1>6 DEF TypeOK
  <2>2. CASE p \in Silent
    BY <1>4, <1>6, <2>2
  <2>3. CASE p \notin Silent
    BY <1>4, <1>6, <2>1, <2>3 DEF Changed
  <2> QED
    BY <2>2, <2>3
<1> QED
  BY <1>4, <1>5, <1>6 DEF Aged

\* A cold boot comes back with a counter that is ahead of every pin.
LEMMA ColdBootAges ==
  ASSUME TypeOK, ColdBoot
  PROVE  Aged
<1>1. Changed(saved) \in SUBSET Parameters
  BY DEF Changed
<1>2. Cardinality(Changed(saved)) + 1 \in Nat
  BY <1>1, ParametersCounted
<1>3. /\ Become(saved, Cardinality(Changed(saved)) + 1)
      /\ bumps' = Modulus * ((bumps \div Modulus) + 1) + 1
      /\ saved \in [Parameters -> Values]
  BY DEF ColdBoot, TypeOK
<1>4. /\ reg' \in [Parameters -> Values] /\ changes' \in Nat
      /\ behind' \subseteq Silent /\ behind \subseteq behind'
      /\ seen' \in [Tasks -> SUBSET [Parameters -> Values]]
  BY <1>2, <1>3, BecomeTypes
<1>5. bumps' \in Nat /\ bumps' > bumps
  <2>1. bumps \in Nat /\ Modulus \in Nat /\ Modulus > 0
    BY DEF TypeOK
  <2> DEFINE q == bumps \div Modulus
  <2>2. q \in Nat /\ bumps = Modulus * q + (bumps % Modulus) /\ bumps % Modulus \in 0..(Modulus - 1)
    BY <2>1
  <2> HIDE DEF q
  <2>3. Modulus * (q + 1) = Modulus * q + Modulus /\ Modulus * q \in Nat
    BY <2>1, <2>2
  <2>4. bumps' = Modulus * (q + 1) + 1
    BY <1>3 DEF q
  <2> QED
    BY <2>1, <2>2, <2>3, <2>4
<1> QED
  BY <1>4, <1>5 DEF Aged, TypeOK

\* A step of the device alone, which ages it, keeps the invariant.
LEMMA AgingKeeps ==
  ASSUME IInv, Aged, saved' \in [Parameters -> Values], got' = None,
         UNCHANGED <<pc, call, wire, pinned, cache, held, excused>>,
         \/ reply' = reply
         \/ reply' = Ack /\ wire # None /\ pc[wire] \in {"write", "save", "reload"}
  PROVE  IInv'
<1>1. TypeOK'
  BY DEF IInv, TypeOK, Aged
<1>2. CallInv'
  BY DEF IInv, CallInv
<1>3. PinInv'
  <2>1. bumps \in Nat /\ bumps' \in Nat /\ bumps' >= bumps
    BY DEF Aged, IInv, TypeOK
  <2>2. \A t \in Tasks : pinned'[t] \in Nat /\ pinned'[t] <= bumps'
    BY <2>1 DEF IInv, TypeOK, PinInv
  <2>3. \A e \in Entries : cache'[e] # None => cache'[e].pin <= bumps'
    BY <2>1 DEF IInv, TypeOK, PinInv, Entry
  <2> QED
    BY <2>2, <2>3 DEF PinInv
<1>4. ReplyInv'
  <2>1. SUFFICES ASSUME wire' # None, reply' # None
                 PROVE  /\ pc'[wire'] = "counter" => reply' \in Nat /\ reply' <= bumps'
                        /\ pc'[wire'] = "value" =>
                             /\ reply' \in Values
                             /\ (pinned'[wire'] = bumps' /\ Source[call'[wire']] \notin behind')
                                   => reply' = Value(call[wire])'
    BY DEF ReplyInv
  <2>2. CASE reply' = Ack /\ wire # None /\ pc[wire] \in {"write", "save", "reload"}
    BY <2>2
  <2>3. CASE reply' = reply
    <3>1. /\ wire \in Tasks /\ pinned[wire] \in Nat /\ pinned[wire] <= bumps
          /\ bumps \in Nat /\ bumps' \in Nat /\ bumps' >= bumps
      BY <2>1 DEF Aged, IInv, TypeOK, PinInv
    <3>2. pc[wire] = "counter" => reply \in Nat /\ reply <= bumps
      BY <2>1, <2>3 DEF IInv, ReplyInv
    <3>3. ASSUME pc[wire] = "value", pinned[wire] = bumps', Source[call[wire]] \notin behind'
          PROVE  reply = Value(call[wire])'
      <4>1. bumps' = bumps /\ Source[call[wire]] \in Parameters \ behind'
        BY <3>1, <3>3 DEF IInv, CallInv
      <4>2. reg'[Source[call[wire]]] = reg[Source[call[wire]]] /\ Source[call[wire]] \notin behind
        BY <3>3, <4>1 DEF Aged
      <4>3. reply = Value(call[wire])
        BY <2>1, <2>3, <3>3, <4>1, <4>2 DEF IInv, ReplyInv
      <4> QED
        BY <4>2, <4>3 DEF Value
    <3>4. pc[wire] = "value" => reply \in Values
      BY <2>1, <2>3 DEF IInv, ReplyInv
    <3> QED
      BY <2>3, <3>1, <3>2, <3>3, <3>4
  <2> QED
    BY <2>2, <2>3
<1>5. Sound'
  <2>1. SUFFICES ASSUME NEW e \in Entries, cache'[e] # None, cache'[e].pin = bumps',
                        Source[e] \notin behind'
                 PROVE  cache'[e].value = reg'[Source[e]]
    BY DEF Sound, Value
  <2>2. cache[e].pin <= bumps /\ cache[e].pin \in Nat
    BY <2>1 DEF IInv, PinInv, TypeOK, Entry
  <2>3. bumps' = bumps /\ Source[e] \in Parameters \ behind'
    BY <2>1, <2>2 DEF Aged, IInv, TypeOK
  <2>4. reg'[Source[e]] = reg[Source[e]] /\ Source[e] \notin behind
    BY <2>1, <2>3 DEF Aged
  <2> QED
    BY <2>1, <2>3, <2>4 DEF IInv, Sound, Value
<1> QED
  BY <1>1, <1>2, <1>3, <1>4, <1>5 DEF IInv

-----------------------------------------------------------------------------
(* One lemma per action.                                                   *)

LEMMA InitInv == Init => IInv
<1> SUFFICES ASSUME Init PROVE IInv
  OBVIOUS
<1>1. PICK v \in Values : reg = [p \in Parameters |-> v]
  BY DEF Init
<1>2. reg \in [Parameters -> Values] /\ saved \in [Parameters -> Values]
  BY <1>1 DEF Init
<1>3. TypeOK
  BY <1>2 DEF Init, TypeOK, Exchanges
<1>4. CallInv /\ PinInv /\ ReplyInv /\ Sound
  BY DEF Init, CallInv, PinInv, ReplyInv, Sound
<1> QED
  BY <1>3, <1>4 DEF IInv

LEMMA ServeKeeps == IInv /\ Serve => IInv'
<1> SUFFICES ASSUME IInv, Serve PROVE IInv'
  OBVIOUS
<1>1. /\ wire # None /\ wire \in Tasks /\ reply = None /\ got' = None
      /\ pc[wire] \in Exchanges
      /\ UNCHANGED <<pc, call, wire, pinned, cache, held, excused>>
      /\ reg \in [Parameters -> Values] /\ saved \in [Parameters -> Values]
  BY DEF Serve, IInv, TypeOK, CallInv
<1>2. CASE pc[wire] = "counter"
  <2>1. reply' = bumps /\ UNCHANGED <<reg, changes, bumps, seen, behind, saved>>
    BY <1>2 DEF Serve, Unchanging
  <2>2. TypeOK'
    BY <1>1, <2>1 DEF IInv, TypeOK
  <2>3. CallInv' /\ PinInv' /\ Sound'
    BY <1>1, <2>1 DEF IInv, CallInv, PinInv, Sound, Value
  <2>4. ReplyInv'
    BY <1>1, <1>2, <2>1 DEF IInv, TypeOK, ReplyInv
  <2> QED
    BY <2>2, <2>3, <2>4 DEF IInv
<1>3. CASE pc[wire] = "value"
  <2>1. reply' = Value(call[wire]) /\ UNCHANGED <<reg, changes, bumps, seen, behind, saved>>
    BY <1>3 DEF Serve, Unchanging
  <2>2. Value(call[wire]) \in Values
    BY <1>1, <1>3 DEF IInv, CallInv, Value
  <2>3. TypeOK'
    BY <1>1, <2>1, <2>2 DEF IInv, TypeOK
  <2>4. CallInv' /\ PinInv' /\ Sound'
    BY <1>1, <2>1 DEF IInv, CallInv, PinInv, Sound, Value
  <2>5. ReplyInv'
    BY <1>1, <1>3, <2>1, <2>2 DEF ReplyInv, Value
  <2> QED
    BY <2>3, <2>4, <2>5 DEF IInv
<1>4. CASE pc[wire] = "write"
  <2> DEFINE r == [reg EXCEPT ![call[wire].key] = call[wire].value]
  <2>1. reply' = Ack /\ Change(r) /\ saved' = saved
    BY <1>4 DEF Serve
  <2>2. r \in [Parameters -> Values]
    BY <1>1, <1>4 DEF IInv, CallInv
  <2> HIDE DEF r
  <2>3. Aged
    BY <2>1, <2>2, ChangeAges DEF IInv
  <2> QED
    BY <1>1, <1>4, <2>1, <2>3, AgingKeeps
<1>5. CASE pc[wire] = "save"
  <2>1. reply' = Ack /\ saved' = reg /\ Become(reg, Cardinality(Changed(saved))) /\ bumps' = bumps
    BY <1>5 DEF Serve
  <2>2. Changed(saved) \in SUBSET Parameters
    BY DEF Changed
  <2>3. Cardinality(Changed(saved)) \in Nat
    BY <2>2, ParametersCounted
  <2>4. /\ reg' = reg /\ changes' \in Nat
        /\ behind' \subseteq Silent /\ behind \subseteq behind'
        /\ seen' \in [Tasks -> SUBSET [Parameters -> Values]]
    BY <1>1, <2>1, <2>3, BecomeTypes DEF IInv
  <2>5. Aged
    BY <1>1, <2>1, <2>4 DEF Aged, IInv, TypeOK
  <2> QED
    BY <1>1, <1>5, <2>1, <2>5, AgingKeeps
<1>6. CASE pc[wire] = "reload"
  <2>1. reply' = Ack /\ Change(saved) /\ saved' = saved
    BY <1>6 DEF Serve
  <2>2. Aged
    BY <1>1, <2>1, ChangeAges DEF IInv
  <2> QED
    BY <1>1, <1>6, <2>1, <2>2, AgingKeeps
<1> QED
  BY <1>1, <1>2, <1>3, <1>4, <1>5, <1>6 DEF Exchanges

LEMMA FrontPanelKeeps == IInv /\ FrontPanel => IInv'
<1> SUFFICES ASSUME IInv, FrontPanel PROVE IInv'
  OBVIOUS
<1>1. PICK p \in Panel, v \in Values : Change([reg EXCEPT ![p] = v])
  BY DEF FrontPanel
<1>2. [reg EXCEPT ![p] = v] \in [Parameters -> Values]
  BY <1>1 DEF IInv, TypeOK
<1>3. Aged
  BY <1>1, <1>2, ChangeAges DEF IInv
<1>4. got' = None /\ UNCHANGED <<pc, call, wire, reply, pinned, cache, saved, held, excused>>
  BY DEF FrontPanel
<1>5. saved' \in [Parameters -> Values]
  BY <1>4 DEF IInv, TypeOK
<1> QED
  BY <1>3, <1>4, <1>5, AgingKeeps

LEMMA ColdBootKeeps == IInv /\ ColdBoot => IInv'
<1> SUFFICES ASSUME IInv, ColdBoot PROVE IInv'
  OBVIOUS
<1>1. Aged
  BY ColdBootAges DEF IInv
<1>2. got' = None /\ UNCHANGED <<pc, call, wire, reply, pinned, cache, saved, held, excused>>
  BY DEF ColdBoot
<1>3. saved' \in [Parameters -> Values]
  BY <1>2 DEF IInv, TypeOK
<1> QED
  BY <1>1, <1>2, <1>3, AgingKeeps

\* A call takes the free wire for an exchange and changes nothing else.
LEMMA CallKeeps ==
  ASSUME IInv, NEW t \in Tasks, NEW kind \in Exchanges, NEW c, Call(t, kind, c),
         seen' \in [Tasks -> SUBSET [Parameters -> Values]],
         kind \in {"counter", "value"} => c \in Entries,
         kind = "write" => c \in [key : Parameters, value : Values],
         c \in Entries \cup [key : Parameters, value : Values] \cup {None}
  PROVE  IInv'
<1>1. /\ wire = None /\ reply = None /\ wire' = t /\ reply' = None
      /\ pc' = [pc EXCEPT ![t] = kind] /\ call' = [call EXCEPT ![t] = c] /\ got' = None
      /\ UNCHANGED <<pinned, cache, reg, saved, bumps, changes, behind, held, excused>>
  BY DEF Call, IInv, CallInv
<1>2. TypeOK'
  BY <1>1 DEF IInv, TypeOK
<1>3. CallInv'
  BY <1>1 DEF IInv, TypeOK, CallInv
<1>4. PinInv' /\ ReplyInv' /\ Sound'
  BY <1>1 DEF IInv, PinInv, ReplyInv, Sound, Value
<1> QED
  BY <1>2, <1>3, <1>4 DEF IInv

LEMMA BeginKeeps ==
  ASSUME IInv, NEW t \in Tasks,
         \/ \E e \in Entries : Read(t, e)
         \/ \E p \in Parameters, v \in Values : Write(t, p, v)
         \/ \E kind \in {"save", "reload"} : Menu(t, kind)
  PROVE  IInv'
<1>0. seen \in [Tasks -> SUBSET [Parameters -> Values]] /\ reg \in [Parameters -> Values]
  BY DEF IInv, TypeOK
<1>1. ASSUME NEW e \in Entries, Read(t, e) PROVE IInv'
  <2>1. Call(t, "counter", e) /\ seen' = [seen EXCEPT ![t] = {reg}]
    BY <1>1 DEF Read
  <2> QED
    BY <1>0, <2>1, CallKeeps DEF Exchanges
<1>2. ASSUME NEW p \in Parameters, NEW v \in Values, Write(t, p, v) PROVE IInv'
  <2>1. Call(t, "write", [key |-> p, value |-> v]) /\ seen' = seen
    BY <1>2 DEF Write
  <2>2. [key |-> p, value |-> v] \in [key : Parameters, value : Values]
    OBVIOUS
  <2> QED
    BY <1>0, <2>1, <2>2, CallKeeps DEF Exchanges
<1>3. ASSUME NEW kind \in {"save", "reload"}, Menu(t, kind) PROVE IInv'
  <2>1. Call(t, kind, None) /\ seen' = seen
    BY <1>3 DEF Menu
  <2> QED
    BY <1>0, <1>3, <2>1, CallKeeps DEF Exchanges
<1> QED
  BY <1>1, <1>2, <1>3

LEMMA AcquireKeeps ==
  ASSUME IInv, NEW t \in Tasks, Acquire(t)
  PROVE  IInv'
<1>1. /\ wire = None /\ reply = None /\ wire' = t /\ reply' = None /\ pc[t] \in Exchanges /\ got' = None
      /\ UNCHANGED <<pc, call, pinned, cache, reg, saved, bumps, changes, behind, held, seen, excused>>
  BY DEF Acquire, IInv, CallInv, TypeOK, Exchanges
<1>2. TypeOK'
  BY <1>1 DEF IInv, TypeOK
<1>3. CallInv'
  BY <1>1 DEF IInv, CallInv
<1>4. PinInv' /\ ReplyInv' /\ Sound'
  BY <1>1 DEF IInv, PinInv, ReplyInv, Sound, Value
<1> QED
  BY <1>2, <1>3, <1>4 DEF IInv
-----------------------------------------------------------------------------
(* The replies and the ends of the calls.                                  *)

\* The locals of the calls and what has no part in the cache.
LocalsOK ==
  /\ pc \in [Tasks -> Exchanges \cup {"idle"}]
  /\ call \in [Tasks -> Entries \cup [key : Parameters, value : Values] \cup {None}]
  /\ pinned \in [Tasks -> Nat]
  /\ held \in [Tasks -> Values \cup {None}]
  /\ got \in Values \cup Quantities \cup {None}
  /\ seen \in [Tasks -> SUBSET [Parameters -> Values]]
  /\ excused \subseteq Tasks
  /\ \A t \in Tasks : pc[t] \in {"counter", "value"} => call[t] \in Entries
  /\ \A t \in Tasks : pc[t] = "write" => call[t] \in [key : Parameters, value : Values]
  /\ \A t \in Tasks : pinned[t] <= bumps

LEMMA EndsLocals ==
  ASSUME IInv, NEW t \in Tasks, NEW v \in Values \cup Quantities \cup {None}, Ends(t, v),
         bumps' = bumps
  PROVE  LocalsOK'
<1>1. /\ pc' = [pc EXCEPT ![t] = "idle"] /\ call' = [call EXCEPT ![t] = None]
      /\ pinned' = [pinned EXCEPT ![t] = 0] /\ held' = [held EXCEPT ![t] = None]
      /\ seen' = [seen EXCEPT ![t] = {}] /\ excused' = excused \ {t} /\ got' = v
  BY DEF Ends
<1>2. /\ pc' \in [Tasks -> Exchanges \cup {"idle"}]
      /\ call' \in [Tasks -> Entries \cup [key : Parameters, value : Values] \cup {None}]
      /\ pinned' \in [Tasks -> Nat] /\ held' \in [Tasks -> Values \cup {None}]
      /\ got' \in Values \cup Quantities \cup {None}
      /\ seen' \in [Tasks -> SUBSET [Parameters -> Values]] /\ excused' \subseteq Tasks
  BY <1>1 DEF IInv, TypeOK
<1>3. /\ \A u \in Tasks : pc'[u] \in {"counter", "value"} => call'[u] \in Entries
      /\ \A u \in Tasks : pc'[u] = "write" => call'[u] \in [key : Parameters, value : Values]
  BY <1>1 DEF IInv, TypeOK, CallInv
<1>4. \A u \in Tasks : pinned'[u] <= bumps'
  BY <1>1 DEF IInv, TypeOK, PinInv
<1> QED
  BY <1>2, <1>3, <1>4 DEF LocalsOK

\* A read that has its value ends, or goes on to the unit.
LEMMA GetsLocals ==
  ASSUME IInv, NEW t \in Tasks, NEW v \in Values, Gets(t, v), bumps' = bumps,
         call[t] \in Entries, FoldsUnit(t) => excused' \subseteq Tasks
  PROVE  LocalsOK'
<1>1. CASE FoldsUnit(t)
  <2>1. /\ pc' = [pc EXCEPT ![t] = "counter"] /\ call' = [call EXCEPT ![t] = Unit]
        /\ pinned' = [pinned EXCEPT ![t] = 0] /\ held' = [held EXCEPT ![t] = v]
        /\ got' = None /\ seen' = seen /\ excused' \subseteq Tasks
    BY <1>1 DEF Gets
  <2>2. Unit \in Entries
    OBVIOUS
  <2>3. /\ pc' \in [Tasks -> Exchanges \cup {"idle"}]
        /\ call' \in [Tasks -> Entries \cup [key : Parameters, value : Values] \cup {None}]
        /\ pinned' \in [Tasks -> Nat] /\ held' \in [Tasks -> Values \cup {None}]
        /\ got' \in Values \cup Quantities \cup {None}
        /\ seen' \in [Tasks -> SUBSET [Parameters -> Values]] /\ excused' \subseteq Tasks
    BY <2>1, <2>2 DEF IInv, TypeOK, Exchanges
  <2>4. /\ \A u \in Tasks : pc'[u] \in {"counter", "value"} => call'[u] \in Entries
        /\ \A u \in Tasks : pc'[u] = "write" => call'[u] \in [key : Parameters, value : Values]
    BY <2>1, <2>2 DEF IInv, TypeOK, CallInv
  <2>5. \A u \in Tasks : pinned'[u] <= bumps'
    BY <2>1 DEF IInv, TypeOK, PinInv
  <2> QED
    BY <2>3, <2>4, <2>5 DEF LocalsOK
<1>2. CASE ~FoldsUnit(t)
  <2> DEFINE w == IF held[t] = None THEN v ELSE Quantity(held[t], v)
  <2>1. Ends(t, w)
    BY <1>2 DEF Gets
  <2>2. w \in Values \cup Quantities \cup {None}
    BY DEF IInv, TypeOK, Quantity, Quantities
  <2> HIDE DEF w
  <2> QED
    BY <2>1, <2>2, EndsLocals
<1> QED
  BY <1>1, <1>2

\* The wire is free again and the rest is as the locals and the cache are.
LEMMA AnswerKeeps ==
  ASSUME IInv, NEW t \in Tasks, Answered(t), LocalsOK', UNCHANGED <<reg, saved, bumps, changes>>,
         cache' \in [Entries -> Entry \cup {None}], behind' \subseteq Silent,
         \A e \in Entries : cache'[e] # None => cache'[e].pin <= bumps,
         Sound'
  PROVE  IInv'
<1>1. wire' = None /\ reply' = None
  BY DEF Answered
<1>2. TypeOK'
  BY <1>1 DEF IInv, TypeOK, LocalsOK
<1>3. CallInv' /\ PinInv' /\ ReplyInv'
  BY <1>1 DEF LocalsOK, CallInv, PinInv, ReplyInv
<1> QED
  BY <1>2, <1>3 DEF IInv

LEMMA CounterReadKeeps ==
  ASSUME IInv, NEW t \in Tasks, CounterRead(t)
  PROVE  IInv'
<1>1. /\ pc[t] = "counter" /\ Answered(t) /\ call[t] \in Entries /\ wire = t /\ reply # None
      /\ UNCHANGED <<cache, reg, saved, bumps, changes, behind>>
  BY DEF CounterRead, IInv, CallInv, Answered
<1>2. reply \in Nat /\ reply <= bumps
  BY <1>1 DEF IInv, CallInv, ReplyInv
<1>3. LocalsOK'
  <2>1. CASE Hit(t)
    <3>1. /\ Gets(t, cache[call[t]].value)
          /\ FoldsUnit(t) => excused' = IF Unnoticed(t) THEN excused \cup {t} ELSE excused
      BY <2>1 DEF CounterRead
    <3>2. cache[call[t]].value \in Values
      BY <1>1, <2>1 DEF Hit, IInv, TypeOK, Entry
    <3>3. FoldsUnit(t) => excused' \subseteq Tasks
      BY <3>1 DEF IInv, TypeOK
    <3> QED
      BY <1>1, <3>1, <3>2, <3>3, GetsLocals
  <2>2. CASE ~Hit(t)
    <3>1. /\ pc' = [pc EXCEPT ![t] = "value"] /\ pinned' = [pinned EXCEPT ![t] = reply]
          /\ got' = None /\ UNCHANGED <<call, held, seen, excused>>
      BY <2>2 DEF CounterRead
    <3>2. \A u \in Tasks : pinned'[u] <= bumps'
      BY <1>1, <1>2, <3>1 DEF IInv, TypeOK, PinInv
    <3>3. /\ pc' \in [Tasks -> Exchanges \cup {"idle"}] /\ pinned' \in [Tasks -> Nat]
          /\ \A u \in Tasks : pc'[u] \in {"counter", "value"} => call'[u] \in Entries
          /\ \A u \in Tasks : pc'[u] = "write" => call'[u] \in [key : Parameters, value : Values]
      BY <1>1, <1>2, <3>1 DEF IInv, TypeOK, CallInv, Exchanges
    <3> QED
      BY <3>1, <3>2, <3>3 DEF LocalsOK, IInv, TypeOK
  <2> QED
    BY <2>1, <2>2
<1>4. /\ cache' \in [Entries -> Entry \cup {None}] /\ behind' \subseteq Silent
      /\ \A e \in Entries : cache'[e] # None => cache'[e].pin <= bumps
      /\ Sound'
  BY <1>1 DEF IInv, TypeOK, PinInv, Sound, Value
<1> QED
  BY <1>1, <1>3, <1>4, AnswerKeeps

\* Only the entry of a silent parameter itself depends on it.
LEMMA SilentOwn ==
  ASSUME NEW e \in Entries, Source[e] \in Silent
  PROVE  Source[e] = e
OBVIOUS

LEMMA ValueReadKeeps ==
  ASSUME IInv, NEW t \in Tasks, ValueRead(t)
  PROVE  IInv'
<1>1. /\ pc[t] = "value" /\ Answered(t) /\ call[t] \in Entries /\ wire = t /\ reply # None
      /\ cache' = [cache EXCEPT ![call[t]] = [pin |-> pinned[t], value |-> reply]]
      /\ behind' = IF reply = Value(call[t]) THEN behind \ {call[t]} ELSE behind
      /\ Gets(t, reply)
      /\ FoldsUnit(t) => excused' = excused
      /\ UNCHANGED <<reg, saved, bumps, changes>>
  BY DEF ValueRead, IInv, CallInv, Answered
<1>2. /\ reply \in Values
      /\ (pinned[t] = bumps /\ Source[call[t]] \notin behind) => reply = Value(call[t])
  BY <1>1 DEF IInv, CallInv, ReplyInv
<1>3. LocalsOK'
  <2>1. FoldsUnit(t) => excused' \subseteq Tasks
    BY <1>1 DEF IInv, TypeOK
  <2> QED
    BY <1>1, <1>2, <2>1, GetsLocals
<1>4. [pin |-> pinned[t], value |-> reply] \in Entry /\ pinned[t] <= bumps
  BY <1>2 DEF Entry, IInv, TypeOK, PinInv
<1>5. cache' \in [Entries -> Entry \cup {None}] /\ behind' \subseteq Silent
  BY <1>1, <1>4 DEF IInv, TypeOK
<1>6. \A e \in Entries : cache'[e] # None => cache'[e].pin <= bumps
  BY <1>1, <1>4 DEF IInv, TypeOK, PinInv
<1>7. Sound'
  <2>1. SUFFICES ASSUME NEW e \in Entries, cache'[e] # None, cache'[e].pin = bumps, Source[e] \notin behind'
                 PROVE  cache'[e].value = Value(e)
    BY <1>1 DEF Sound, Value
  <2>2. CASE e = call[t]
    <3>1. cache'[e].pin = pinned[t] /\ cache'[e].value = reply
      BY <1>1, <2>2 DEF IInv, TypeOK
    <3>2. CASE reply = Value(call[t])
      BY <2>2, <3>1, <3>2
    <3>3. CASE reply # Value(call[t])
      BY <1>1, <1>2, <2>1, <2>2, <3>1, <3>3
    <3> QED
      BY <3>2, <3>3
  <2>3. CASE e # call[t]
    <3>1. cache'[e] = cache[e]
      BY <1>1, <2>3 DEF IInv, TypeOK
    <3>2. Source[e] \notin behind
      BY <1>1, <2>1, <2>3, SilentOwn DEF IInv, TypeOK
    <3> QED
      BY <2>1, <3>1, <3>2 DEF IInv, Sound
  <2> QED
    BY <2>2, <2>3
<1> QED
  BY <1>1, <1>3, <1>5, <1>6, <1>7, AnswerKeeps

LEMMA WrittenKeepsInv ==
  ASSUME IInv, NEW t \in Tasks, Written(t)
  PROVE  IInv'
<1>1. /\ pc[t] = "write" /\ Answered(t) /\ call[t] \in [key : Parameters, value : Values]
      /\ cache' = [cache EXCEPT ![call[t].key] = None] /\ behind' = behind \ {call[t].key}
      /\ Ends(t, None) /\ UNCHANGED <<reg, saved, bumps, changes>>
  BY DEF Written, IInv, CallInv
<1>2. LocalsOK'
  BY <1>1, EndsLocals
<1>3. /\ cache' \in [Entries -> Entry \cup {None}] /\ behind' \subseteq Silent
      /\ \A e \in Entries : cache'[e] # None => cache'[e].pin <= bumps
  BY <1>1 DEF IInv, TypeOK, PinInv
<1>4. Sound'
  <2>1. SUFFICES ASSUME NEW e \in Entries, cache'[e] # None, cache'[e].pin = bumps, Source[e] \notin behind'
                 PROVE  cache'[e].value = Value(e)
    BY <1>1 DEF Sound, Value
  <2>2. e # call[t].key /\ cache'[e] = cache[e]
    BY <1>1, <2>1 DEF IInv, TypeOK
  <2>3. Source[e] \notin behind
    BY <1>1, <2>1, <2>2, SilentOwn DEF IInv, TypeOK
  <2> QED
    BY <2>1, <2>2, <2>3 DEF IInv, Sound
<1> QED
  BY <1>1, <1>2, <1>3, <1>4, AnswerKeeps

LEMMA MenuDoneKeeps ==
  ASSUME IInv, NEW t \in Tasks, MenuDone(t)
  PROVE  IInv'
<1>1. /\ Answered(t) /\ cache' = [e \in Entries |-> None] /\ behind' = {}
      /\ Ends(t, None) /\ UNCHANGED <<reg, saved, bumps, changes>>
  BY DEF MenuDone
<1>2. LocalsOK'
  BY <1>1, EndsLocals
<1>3. /\ cache' \in [Entries -> Entry \cup {None}] /\ behind' \subseteq Silent
      /\ \A e \in Entries : cache'[e] # None => cache'[e].pin <= bumps
      /\ Sound'
  BY <1>1 DEF Sound
<1> QED
  BY <1>1, <1>2, <1>3, AnswerKeeps

LEMMA RaisesKeeps ==
  ASSUME IInv, NEW t \in Tasks, Raises(t)
  PROVE  IInv'
<1>1. /\ LeavesWire(t) /\ UNCHANGED <<cache, reg, saved, bumps, changes, behind>>
      /\ Ends(t, None) \/ (held[t] # None /\ Ends(t, Quantity(held[t], None)))
  BY DEF Raises
<1>2. held[t] # None => Quantity(held[t], None) \in Quantities
  BY DEF IInv, TypeOK, Quantity, Quantities
<1>3. LocalsOK'
  BY <1>1, <1>2, EndsLocals
<1>4. /\ wire' = IF wire = t THEN None ELSE wire
      /\ reply' = IF wire = t THEN None ELSE reply
      /\ pc' = [pc EXCEPT ![t] = "idle"] /\ call' = [call EXCEPT ![t] = None]
      /\ pinned' = [pinned EXCEPT ![t] = 0]
  BY <1>1 DEF LeavesWire, Ends
<1>5. TypeOK'
  BY <1>1, <1>3, <1>4 DEF IInv, TypeOK, LocalsOK
<1>6. wire # None /\ wire # t => pc'[wire] = pc[wire] /\ call'[wire] = call[wire] /\ pinned'[wire] = pinned[wire]
  BY <1>4 DEF IInv, TypeOK
<1>7. CallInv'
  BY <1>3, <1>4, <1>6 DEF IInv, CallInv, LocalsOK
<1>8. PinInv' /\ Sound'
  BY <1>1, <1>3 DEF IInv, PinInv, LocalsOK, Sound, Value
<1>9. ReplyInv'
  BY <1>1, <1>4, <1>6 DEF IInv, ReplyInv, Value
<1> QED
  BY <1>5, <1>7, <1>8, <1>9 DEF IInv

-----------------------------------------------------------------------------
LEMMA NextKeeps == IInv /\ [Next]_vars => IInv'
<1> SUFFICES ASSUME IInv, [Next]_vars PROVE IInv'
  OBVIOUS
<1>1. ASSUME NEW t \in Tasks,
             \/ \E e \in Entries : Read(t, e)
             \/ \E p \in Parameters, v \in Values : Write(t, p, v)
             \/ \E kind \in {"save", "reload"} : Menu(t, kind)
      PROVE  IInv'
  BY <1>1, BeginKeeps
<1>2. ASSUME NEW t \in Tasks, Acquire(t) \/ Raises(t) PROVE IInv'
  BY <1>2, AcquireKeeps, RaisesKeeps
<1>3. ASSUME NEW t \in Tasks, CounterRead(t) \/ ValueRead(t) PROVE IInv'
  BY <1>3, CounterReadKeeps, ValueReadKeeps
<1>4. ASSUME NEW t \in Tasks, Written(t) \/ MenuDone(t) PROVE IInv'
  BY <1>4, WrittenKeepsInv, MenuDoneKeeps
<1>5. CASE Serve \/ FrontPanel \/ ColdBoot
  BY <1>5, ServeKeeps, FrontPanelKeeps, ColdBootKeeps
<1>6. CASE UNCHANGED vars
  <2>1. UNCHANGED <<pc, call, wire, reply, pinned, cache, reg, saved, bumps, changes, behind,
                    held, got, seen, excused>>
    BY <1>6 DEF vars
  <2>2. TypeOK'
    BY <2>1 DEF IInv, TypeOK
  <2>3. CallInv' /\ PinInv' /\ ReplyInv' /\ Sound'
    BY <2>1 DEF IInv, CallInv, PinInv, ReplyInv, Sound, Value
  <2> QED
    BY <2>2, <2>3 DEF IInv
<1> QED
  BY <1>1, <1>2, <1>3, <1>4, <1>5, <1>6 DEF Next

\* Whatever the tasks, the front panel and a cold boot do between the exchanges of a
\* cached read, an entry pinned to the counter as it is now has the device's value,
\* unless its parameter changed silently behind the cache (cached_execute,
\* write_parameter, save_menu, reload_menu).
THEOREM CacheIsSound == Spec => []CacheSound
<1>1. IInv => CacheSound
  BY DEF IInv, CacheSound
<1> QED
  BY InitInv, NextKeeps, <1>1, PTL DEF Spec
-----------------------------------------------------------------------------
(* Freshness: what a read returns was there during the call.               *)

Reading(t) == pc[t] \in {"counter", "value"}

\* A read has seen the parameters as they are; the number whose unit it reads was there,
\* or came from an entry that was stale unnoticed.
Fresh(t) ==
  /\ Reading(t) => reg \in seen[t]
  /\ held[t] # None => Reading(t) /\ call[t] = Unit
  /\ (held[t] # None /\ t \notin excused) =>
       \E e \in Entries \ Parameters : \E q \in seen[t] : q[Source[e]] = held[t]

\* The entries that a counter n vouches for have the values of r.
Vouches(n, r) ==
  \A e \in Entries : (cache[e] # None /\ cache[e].pin = n /\ Source[e] \notin behind)
                       => cache[e].value = r[Source[e]]

\* A value that has arrived was there during the call, and a counter that has arrived
\* vouches for entries as they were at some moment of it.
ReplyFresh ==
  (wire # None /\ reply # None) =>
     /\ pc[wire] = "value" => \E r \in seen[wire] : r[Source[call[wire]]] = reply
     /\ pc[wire] = "counter" => \E r \in seen[wire] : Vouches(reply, r)

FreshInv == IInv /\ (\A t \in Tasks : Fresh(t)) /\ ReplyFresh

LEMMA InitFresh == Init => FreshInv
<1> SUFFICES ASSUME Init PROVE FreshInv
  OBVIOUS
<1>1. IInv
  BY InitInv
<1>2. (\A t \in Tasks : Fresh(t)) /\ ReplyFresh
  BY DEF Init, Fresh, Reading, ReplyFresh
<1> QED
  BY <1>1, <1>2 DEF FreshInv

LEMMA BecomeSeen ==
  ASSUME TypeOK, NEW r, NEW n, Become(r, n)
  PROVE  /\ \A t \in Tasks : seen[t] \subseteq seen'[t]
         /\ \A t \in Tasks : Reading(t) => reg' \in seen'[t]
         /\ behind \subseteq behind'
BY DEF Become, TypeOK, Reading

\* Reads under way see what the device becomes.
LEMMA AgingFresh ==
  ASSUME FreshInv, NEW r, NEW n, Become(r, n), IInv',
         UNCHANGED <<pc, call, wire, pinned, cache, held, excused>>,
         \/ reply' = reply
         \/ wire # None /\ pc[wire] \in {"write", "save", "reload"}
  PROVE  FreshInv'
<1>1. /\ \A t \in Tasks : seen[t] \subseteq seen'[t]
      /\ \A t \in Tasks : Reading(t) => reg' \in seen'[t]
      /\ behind \subseteq behind'
  BY BecomeSeen DEF FreshInv, IInv
<1>2. \A t \in Tasks : Fresh(t)'
  BY <1>1 DEF FreshInv, Fresh, Reading
<1>3. ReplyFresh'
  <2>1. SUFFICES ASSUME wire # None, reply' # None, reply' = reply, Reading(wire)
                 PROVE  /\ pc[wire] = "value" => \E q \in seen'[wire] : q[Source[call[wire]]] = reply
                        /\ pc[wire] = "counter" => \E q \in seen'[wire] : Vouches(reply, q)'
    BY DEF ReplyFresh, Reading
  <2>2. wire \in Tasks
    BY <2>1 DEF FreshInv, IInv, TypeOK
  <2>3. ASSUME pc[wire] = "counter" PROVE \E q \in seen'[wire] : Vouches(reply, q)'
    <3>1. PICK q \in seen[wire] : Vouches(reply, q)
      BY <2>1, <2>3 DEF FreshInv, ReplyFresh
    <3>2. Vouches(reply, q)'
      BY <1>1, <2>1, <3>1 DEF Vouches
    <3> QED
      BY <1>1, <2>1, <2>2, <3>1, <3>2
  <2>4. ASSUME pc[wire] = "value" PROVE \E q \in seen'[wire] : q[Source[call[wire]]] = reply
    <3>1. PICK q \in seen[wire] : q[Source[call[wire]]] = reply
      BY <2>1, <2>4 DEF FreshInv, ReplyFresh
    <3> QED
      BY <1>1, <2>2, <3>1
  <2> QED
    BY <2>3, <2>4
<1> QED
  BY <1>2, <1>3 DEF FreshInv

LEMMA ServeFresh ==
  ASSUME FreshInv, Serve
  PROVE  FreshInv'
<1>1. IInv' /\ IInv
  BY ServeKeeps DEF FreshInv
<1>2. /\ wire # None /\ wire \in Tasks /\ pc[wire] \in Exchanges
      /\ UNCHANGED <<pc, call, wire, pinned, cache, held, excused>>
  BY <1>1 DEF Serve, IInv, TypeOK, CallInv
<1>3. CASE pc[wire] \in {"counter", "value"}
  <2>1. UNCHANGED <<reg, bumps, seen, behind>>
    BY <1>3 DEF Serve, Unchanging
  <2>2. reg \in seen[wire]
    BY <1>2, <1>3 DEF FreshInv, Fresh, Reading
  <2>3. \A t \in Tasks : Fresh(t)'
    BY <1>2, <2>1 DEF FreshInv, Fresh, Reading
  <2>4. CASE pc[wire] = "value"
    <3>1. reply' = reg[Source[call[wire]]]
      BY <2>4 DEF Serve, Value
    <3>2. ReplyFresh'
      BY <1>2, <2>1, <2>2, <2>4, <3>1 DEF ReplyFresh
    <3> QED
      BY <1>1, <2>3, <3>2 DEF FreshInv
  <2>5. CASE pc[wire] = "counter"
    <3>1. reply' = bumps
      BY <2>5 DEF Serve
    <3>2. Vouches(bumps, reg)
      BY <1>1 DEF Vouches, IInv, Sound, Value
    <3>3. Vouches(reply, reg)'
      BY <1>2, <2>1, <3>1, <3>2 DEF Vouches
    <3>4. ReplyFresh'
      BY <1>2, <2>1, <2>2, <2>5, <3>3 DEF ReplyFresh
    <3> QED
      BY <1>1, <2>3, <3>4 DEF FreshInv
  <2> QED
    BY <1>3, <2>4, <2>5
<1>4. CASE pc[wire] \in {"write", "save", "reload"}
  <2>1. \E r, n : Become(r, n)
    BY <1>4 DEF Serve, Change
  <2> QED
    BY <1>1, <1>2, <1>4, <2>1, AgingFresh
<1> QED
  BY <1>2, <1>3, <1>4 DEF Exchanges

LEMMA DeviceFresh ==
  ASSUME FreshInv, FrontPanel \/ ColdBoot
  PROVE  FreshInv'
<1>1. IInv'
  BY FrontPanelKeeps, ColdBootKeeps DEF FreshInv
<1>2. \E r, n : Become(r, n)
  BY DEF FrontPanel, ColdBoot, Change
<1>3. UNCHANGED <<pc, call, wire, reply, pinned, cache, held, excused>>
  BY DEF FrontPanel, ColdBoot
<1> QED
  BY <1>1, <1>2, <1>3, AgingFresh

\* A call that begins has no number yet; a read has seen the parameters.
LEMMA BeginFresh ==
  ASSUME FreshInv, NEW t \in Tasks,
         \/ \E e \in Entries : Read(t, e)
         \/ \E p \in Parameters, v \in Values : Write(t, p, v)
         \/ \E kind \in {"save", "reload"} : Menu(t, kind)
  PROVE  FreshInv'
<1>1. IInv'
  BY BeginKeeps DEF FreshInv
<1>a. PICK kind \in Exchanges : \E c : Call(t, kind, c)
  BY DEF Read, Write, Menu, Exchanges
<1>2. PICK c : Call(t, kind, c)
  BY <1>a
<1>3. /\ pc[t] = "idle" /\ wire = None /\ wire' = t /\ reply' = None
      /\ pc' = [pc EXCEPT ![t] = kind] /\ call' = [call EXCEPT ![t] = c]
      /\ UNCHANGED <<held, excused, reg>>
  BY <1>2 DEF Call, FreshInv, IInv, CallInv
<1>4. \/ kind = "counter" /\ seen' = [seen EXCEPT ![t] = {reg}]
      \/ kind \notin {"counter", "value"} /\ seen' = seen
  <2>0. pc'[t] = kind
    BY <1>3 DEF FreshInv, IInv, TypeOK
  <2>1. ASSUME NEW e \in Entries, Read(t, e) PROVE kind = "counter" /\ seen' = [seen EXCEPT ![t] = {reg}]
    BY <2>0, <2>1 DEF Read, Call, FreshInv, IInv, TypeOK
  <2>2. ASSUME NEW p \in Parameters, NEW v \in Values, Write(t, p, v) PROVE kind = "write" /\ seen' = seen
    BY <2>0, <2>2 DEF Write, Call, FreshInv, IInv, TypeOK
  <2>3. ASSUME NEW k \in {"save", "reload"}, Menu(t, k) PROVE kind = k /\ seen' = seen
    BY <2>0, <2>3 DEF Menu, Call, FreshInv, IInv, TypeOK
  <2> QED
    BY <2>1, <2>2, <2>3
<1>5. held[t] = None
  BY <1>3 DEF FreshInv, Fresh, Reading
<1>6. \A u \in Tasks : Fresh(u)'
  <2>1. SUFFICES ASSUME NEW u \in Tasks PROVE Fresh(u)'
    OBVIOUS
  <2>2. CASE u = t
    BY <1>3, <1>4, <1>5, <2>2 DEF Fresh, Reading, FreshInv, IInv, TypeOK
  <2>3. CASE u # t
    <3>1. pc'[u] = pc[u] /\ call'[u] = call[u] /\ seen'[u] = seen[u]
      BY <1>3, <1>4, <2>3 DEF FreshInv, IInv, TypeOK
    <3> QED
      BY <1>3, <3>1 DEF Fresh, Reading, FreshInv
  <2> QED
    BY <2>2, <2>3
<1>7. ReplyFresh'
  BY <1>3 DEF ReplyFresh
<1> QED
  BY <1>1, <1>6, <1>7 DEF FreshInv

LEMMA AcquireFresh ==
  ASSUME FreshInv, NEW t \in Tasks, Acquire(t)
  PROVE  FreshInv'
<1>1. IInv'
  BY AcquireKeeps DEF FreshInv
<1>2. reply' = None /\ UNCHANGED <<pc, call, held, seen, excused, reg>>
  BY DEF Acquire, FreshInv, IInv, CallInv
<1> QED
  BY <1>1, <1>2 DEF FreshInv, Fresh, Reading, ReplyFresh

-----------------------------------------------------------------------------
(* The other steps end a call or take its read further.                    *)

\* The tasks that a step of t leaves alone stay fresh.
LEMMA OthersFresh ==
  ASSUME FreshInv, NEW t \in Tasks, NEW u \in Tasks, u # t, reg' = reg,
         pc'[u] = pc[u], call'[u] = call[u], held'[u] = held[u], seen'[u] = seen[u],
         u \in excused' <=> u \in excused
  PROVE  Fresh(u)'
BY DEF FreshInv, Fresh, Reading

LEMMA EndsFresh ==
  ASSUME FreshInv, NEW t \in Tasks, NEW v, Ends(t, v), reg' = reg
  PROVE  \A u \in Tasks : Fresh(u)'
<1>1. /\ pc' = [pc EXCEPT ![t] = "idle"] /\ call' = [call EXCEPT ![t] = None]
      /\ held' = [held EXCEPT ![t] = None] /\ seen' = [seen EXCEPT ![t] = {}]
      /\ excused' = excused \ {t}
  BY DEF Ends
<1>2. SUFFICES ASSUME NEW u \in Tasks PROVE Fresh(u)'
  OBVIOUS
<1>3. CASE u = t
  BY <1>1, <1>3 DEF Fresh, Reading, FreshInv, IInv, TypeOK
<1>4. CASE u # t
  <2>1. /\ pc'[u] = pc[u] /\ call'[u] = call[u] /\ held'[u] = held[u] /\ seen'[u] = seen[u]
        /\ u \in excused' <=> u \in excused
    BY <1>1, <1>4 DEF FreshInv, IInv, TypeOK
  <2> QED
    BY <1>4, <2>1, OthersFresh
<1> QED
  BY <1>3, <1>4

\* A number that goes on to its unit was there, or is excused.
LEMMA GetsFresh ==
  ASSUME FreshInv, NEW t \in Tasks, NEW v \in Values, Gets(t, v), reg' = reg, Reading(t),
         call[t] \in Entries,
         FoldsUnit(t) => /\ excused' = excused \/ excused' = excused \cup {t}
                         /\ t \in excused' \/ \E q \in seen[t] : q[Source[call[t]]] = v
  PROVE  \A u \in Tasks : Fresh(u)'
<1>1. CASE ~FoldsUnit(t)
  <2>1. \E w : Ends(t, w)
    BY <1>1 DEF Gets
  <2> QED
    BY <2>1, EndsFresh
<1>2. CASE FoldsUnit(t)
  <2>1. /\ pc' = [pc EXCEPT ![t] = "counter"] /\ call' = [call EXCEPT ![t] = Unit]
        /\ held' = [held EXCEPT ![t] = v] /\ seen' = seen
        /\ call[t] \in Entries \ Parameters
    BY <1>2 DEF Gets, FoldsUnit
  <2>2. reg \in seen[t]
    BY DEF FreshInv, Fresh
  <2>3. SUFFICES ASSUME NEW u \in Tasks PROVE Fresh(u)'
    OBVIOUS
  <2>4. CASE u = t
    <3>1. pc'[t] = "counter" /\ call'[t] = Unit /\ held'[t] = v /\ seen'[t] = seen[t]
      BY <2>1 DEF FreshInv, IInv, TypeOK
    <3>2. t \notin excused' => \E e \in Entries \ Parameters : \E q \in seen[t] : q[Source[e]] = v
      BY <1>2, <2>1
    <3> QED
      BY <2>2, <2>4, <3>1, <3>2 DEF Fresh, Reading
  <2>5. CASE u # t
    <3>1. /\ pc'[u] = pc[u] /\ call'[u] = call[u] /\ held'[u] = held[u] /\ seen'[u] = seen[u]
          /\ u \in excused' <=> u \in excused
      BY <1>2, <2>1, <2>5 DEF FreshInv, IInv, TypeOK
    <3> QED
      BY <2>5, <3>1, OthersFresh
  <2> QED
    BY <2>4, <2>5
<1> QED
  BY <1>1, <1>2

\* A hit that something showed, if it was stale, has a value that was there.
LEMMA HitWasThere ==
  ASSUME FreshInv, NEW t \in Tasks, wire = t, wire # None, reply # None, pc[t] = "counter",
         call[t] \in Entries, Hit(t), ~Unnoticed(t)
  PROVE  \E q \in seen[t] : q[Source[call[t]]] = cache[call[t]].value
<1>1. PICK q \in seen[t] : Vouches(reply, q)
  BY DEF FreshInv, ReplyFresh
<1>2. cache[call[t]] # None /\ cache[call[t]].pin = reply /\ Source[call[t]] \notin behind
  BY DEF Hit, Unnoticed
<1> QED
  BY <1>1, <1>2 DEF Vouches

LEMMA CounterReadFresh ==
  ASSUME FreshInv, NEW t \in Tasks, CounterRead(t)
  PROVE  FreshInv'
<1>1. IInv' /\ IInv
  BY CounterReadKeeps DEF FreshInv
<1>2. /\ pc[t] = "counter" /\ call[t] \in Entries /\ wire = t /\ wire # None /\ reply # None
      /\ wire' = None /\ reply' = None /\ UNCHANGED <<cache, reg, behind>>
  BY <1>1 DEF CounterRead, Answered, IInv, CallInv
<1>3. ReplyFresh'
  BY <1>2 DEF ReplyFresh
<1>4. CASE Hit(t)
  <2>1. /\ Gets(t, cache[call[t]].value)
        /\ FoldsUnit(t) => excused' = IF Unnoticed(t) THEN excused \cup {t} ELSE excused
    BY <1>4 DEF CounterRead
  <2>2. cache[call[t]].value \in Values
    BY <1>1, <1>2, <1>4 DEF Hit, IInv, TypeOK, Entry
  <2>3. ~Unnoticed(t) => \E q \in seen[t] : q[Source[call[t]]] = cache[call[t]].value
    BY <1>2, <1>4, HitWasThere
  <2>4. \A u \in Tasks : Fresh(u)'
    BY <1>2, <2>1, <2>2, <2>3, GetsFresh DEF Reading
  <2> QED
    BY <1>1, <1>3, <2>4 DEF FreshInv
<1>5. CASE ~Hit(t)
  <2>1. pc' = [pc EXCEPT ![t] = "value"] /\ UNCHANGED <<call, held, seen, excused>>
    BY <1>5 DEF CounterRead
  <2>2. \A u \in Tasks : Fresh(u)'
    BY <1>2, <2>1 DEF FreshInv, Fresh, Reading, IInv, TypeOK
  <2> QED
    BY <1>1, <1>3, <2>2 DEF FreshInv
<1> QED
  BY <1>4, <1>5

LEMMA ValueReadFresh ==
  ASSUME FreshInv, NEW t \in Tasks, ValueRead(t)
  PROVE  FreshInv'
<1>1. IInv' /\ IInv
  BY ValueReadKeeps DEF FreshInv
<1>2. /\ pc[t] = "value" /\ call[t] \in Entries /\ wire = t /\ wire # None /\ reply # None
      /\ wire' = None /\ reply' = None /\ reg' = reg /\ Gets(t, reply)
      /\ FoldsUnit(t) => excused' = excused
  BY <1>1 DEF ValueRead, Answered, IInv, CallInv
<1>3. reply \in Values /\ \E r \in seen[t] : r[Source[call[t]]] = reply
  BY <1>1, <1>2 DEF IInv, ReplyInv, FreshInv, ReplyFresh
<1>4. \A u \in Tasks : Fresh(u)'
  BY <1>2, <1>3, GetsFresh DEF Reading
<1>5. ReplyFresh'
  BY <1>2 DEF ReplyFresh
<1> QED
  BY <1>1, <1>4, <1>5 DEF FreshInv

LEMMA DoneFresh ==
  ASSUME FreshInv, NEW t \in Tasks, Written(t) \/ MenuDone(t)
  PROVE  FreshInv'
<1>1. IInv'
  BY WrittenKeepsInv, MenuDoneKeeps DEF FreshInv
<1>2. wire' = None /\ Ends(t, None) /\ reg' = reg
  BY DEF Written, MenuDone, Answered
<1>3. \A u \in Tasks : Fresh(u)'
  BY <1>2, EndsFresh
<1>4. ReplyFresh'
  BY <1>2 DEF ReplyFresh
<1> QED
  BY <1>1, <1>3, <1>4 DEF FreshInv

LEMMA RaisesFresh ==
  ASSUME FreshInv, NEW t \in Tasks, Raises(t)
  PROVE  FreshInv'
<1>1. IInv' /\ IInv
  BY RaisesKeeps DEF FreshInv
<1>2. PICK v : Ends(t, v)
  BY DEF Raises
<1>3. reg' = reg /\ cache' = cache /\ behind' = behind /\ LeavesWire(t)
  BY DEF Raises
<1>4. \A u \in Tasks : Fresh(u)'
  BY <1>2, <1>3, EndsFresh
<1>5. ReplyFresh'
  <2>1. /\ wire' = IF wire = t THEN None ELSE wire
        /\ reply' = IF wire = t THEN None ELSE reply
    BY <1>3 DEF LeavesWire
  <2>2. wire # None /\ wire # t => pc'[wire] = pc[wire] /\ call'[wire] = call[wire] /\ seen'[wire] = seen[wire]
    BY <1>1, <1>2 DEF Ends, IInv, TypeOK
  <2> QED
    BY <1>3, <2>1, <2>2 DEF FreshInv, ReplyFresh, Vouches
<1> QED
  BY <1>1, <1>4, <1>5 DEF FreshInv
\* What a step of a read may return, as ReadsAreFresh has it.
Returns ==
  \A t \in Tasks : pc[t] \in {"counter", "value"} /\ pc'[t] = "idle" /\ got' # None =>
     \/ Right(t, got')
     \/ t \in excused
     \/ pc[t] = "counter" /\ reply # None /\ Hit(t) /\ Unnoticed(t)

\* A value that was there is right; so is a quantity of a number and a unit that were.
LEMMA EndsRight ==
  ASSUME FreshInv, NEW t \in Tasks, Reading(t), call[t] \in Entries, t \notin excused,
         NEW v \in Values, \E r \in seen[t] : r[Source[call[t]]] = v
  PROVE  Right(t, IF held[t] = None THEN v ELSE Quantity(held[t], v))
<1>1. PICK r \in seen[t] : r[Source[call[t]]] = v
  OBVIOUS
<1>2. CASE held[t] = None
  BY <1>1, <1>2 DEF Right
<1>3. CASE held[t] # None
  <2>1. call[t] = Unit /\ Source[Unit] = Unit /\ held[t] \in Values
    BY <1>3 DEF FreshInv, Fresh, IInv, TypeOK
  <2>2. PICK e \in Entries \ Parameters : \E q \in seen[t] : q[Source[e]] = held[t]
    BY <1>3 DEF FreshInv, Fresh
  <2>3. PICK q \in seen[t] : q[Source[e]] = held[t]
    BY <2>2
  <2>4. /\ Quantity(held[t], v) \in Quantities
        /\ Quantity(held[t], v).value = held[t] /\ Quantity(held[t], v).unit = v
    BY <2>1 DEF Quantity, Quantities
  <2>5. r[Unit] = v
    BY <1>1, <2>1
  <2>6. \E a, b \in seen[t] :
          /\ a[Source[e]] = held[t] /\ v = b[Unit]
          /\ a = b \/ (a[Unit] # b[Unit] /\ a[Source[e]] # b[Source[e]])
    <3>1. CASE q[Unit] = v
      BY <2>3, <3>1
    <3>2. CASE r[Source[e]] = held[t]
      BY <2>5, <3>2
    <3>3. CASE q[Unit] # v /\ r[Source[e]] # held[t]
      BY <2>3, <2>5, <3>3
    <3> QED
      BY <3>1, <3>2, <3>3
  <2>7. Right(t, Quantity(held[t], v))
    BY <2>4, <2>6 DEF Right
  <2> QED
    BY <1>3, <2>7
<1> QED
  BY <1>2, <1>3

LEMMA NextReturns ==
  ASSUME FreshInv, Next
  PROVE  Returns
<1> SUFFICES ASSUME NEW t \in Tasks, pc[t] \in {"counter", "value"}, pc'[t] = "idle", got' # None,
                    t \notin excused, ~(pc[t] = "counter" /\ reply # None /\ Hit(t) /\ Unnoticed(t))
             PROVE  Right(t, got')
  BY DEF Returns
<1>0. Reading(t) /\ call[t] \in Entries /\ IInv
  BY DEF Reading, FreshInv, IInv, CallInv
<1>1. ASSUME CounterRead(t) PROVE Right(t, got')
  <2>1. /\ wire = t /\ wire # None /\ reply # None /\ pc[t] = "counter"
    BY <1>0, <1>1 DEF CounterRead, Answered, IInv, CallInv
  <2>2. Hit(t) /\ Gets(t, cache[call[t]].value)
    BY <1>0, <1>1 DEF CounterRead, IInv, TypeOK
  <2>3. ~FoldsUnit(t) /\ Ends(t, IF held[t] = None THEN cache[call[t]].value
                                 ELSE Quantity(held[t], cache[call[t]].value))
    BY <1>0, <2>2 DEF Gets, IInv, TypeOK
  <2>4. \E q \in seen[t] : q[Source[call[t]]] = cache[call[t]].value
    BY <1>0, <2>1, <2>2, HitWasThere
  <2>5. cache[call[t]].value \in Values
    BY <1>0, <2>2 DEF Hit, IInv, TypeOK, Entry
  <2> QED
    BY <1>0, <2>3, <2>4, <2>5, EndsRight DEF Ends
<1>2. ASSUME ValueRead(t) PROVE Right(t, got')
  <2>1. /\ wire = t /\ wire # None /\ reply # None /\ pc[t] = "value" /\ Gets(t, reply)
    BY <1>0, <1>2 DEF ValueRead, Answered, IInv, CallInv
  <2>2. ~FoldsUnit(t) /\ Ends(t, IF held[t] = None THEN reply ELSE Quantity(held[t], reply))
    BY <1>0, <2>1 DEF Gets, IInv, TypeOK
  <2>3. reply \in Values /\ \E r \in seen[t] : r[Source[call[t]]] = reply
    BY <1>0, <2>1 DEF IInv, ReplyInv, FreshInv, ReplyFresh
  <2> QED
    BY <1>0, <2>2, <2>3, EndsRight DEF Ends
<1>3. ASSUME Raises(t) PROVE Right(t, got')
  <2>1. held[t] # None /\ got' = Quantity(held[t], None)
    BY <1>3 DEF Raises, Ends
  <2>2. PICK e \in Entries \ Parameters : \E q \in seen[t] : q[Source[e]] = held[t]
    BY <2>1 DEF FreshInv, Fresh
  <2>3. /\ Quantity(held[t], None) \in Quantities
        /\ Quantity(held[t], None).value = held[t] /\ Quantity(held[t], None).unit = None
    BY <1>0, <2>1 DEF Quantity, Quantities, IInv, TypeOK
  <2> QED
    BY <2>1, <2>2, <2>3 DEF Right
<1>4. ASSUME NEW u \in Tasks, u # t,
             CounterRead(u) \/ ValueRead(u) \/ Written(u) \/ MenuDone(u) \/ Raises(u)
      PROVE  FALSE
  <2>1. \/ \E v : Ends(u, v)
        \/ \E kind : pc' = [pc EXCEPT ![u] = kind]
    BY <1>4 DEF CounterRead, ValueRead, Written, MenuDone, Raises, Gets
  <2> QED
    BY <1>0, <1>4, <2>1 DEF Ends, IInv, TypeOK
<1>5. CASE Written(t) \/ MenuDone(t)
  BY <1>5 DEF Written, MenuDone
<1>6. CASE \/ \E u \in Tasks : \/ \E e \in Entries : Read(u, e)
                               \/ \E p \in Parameters, v \in Values : Write(u, p, v)
                               \/ \E kind \in {"save", "reload"} : Menu(u, kind)
                               \/ Acquire(u)
           \/ Serve \/ FrontPanel \/ ColdBoot
  BY <1>6 DEF Read, Write, Menu, Call, Acquire, Serve, FrontPanel, ColdBoot
<1> QED
  BY <1>1, <1>2, <1>3, <1>4, <1>5, <1>6 DEF Next

LEMMA NextFresh == FreshInv /\ [Next]_vars => FreshInv'
<1> SUFFICES ASSUME FreshInv, [Next]_vars PROVE FreshInv'
  OBVIOUS
<1>1. ASSUME NEW t \in Tasks,
             \/ \E e \in Entries : Read(t, e)
             \/ \E p \in Parameters, v \in Values : Write(t, p, v)
             \/ \E kind \in {"save", "reload"} : Menu(t, kind)
      PROVE  FreshInv'
  BY <1>1, BeginFresh
<1>2. ASSUME NEW t \in Tasks, Acquire(t) \/ Raises(t) PROVE FreshInv'
  BY <1>2, AcquireFresh, RaisesFresh
<1>3. ASSUME NEW t \in Tasks, CounterRead(t) \/ ValueRead(t) PROVE FreshInv'
  BY <1>3, CounterReadFresh, ValueReadFresh
<1>4. ASSUME NEW t \in Tasks, Written(t) \/ MenuDone(t) PROVE FreshInv'
  BY <1>4, DoneFresh
<1>5. CASE Serve \/ FrontPanel \/ ColdBoot
  BY <1>5, ServeFresh, DeviceFresh
<1>6. CASE UNCHANGED vars
  <2>1. IInv'
    BY <1>6, NextKeeps DEF FreshInv
  <2>2. UNCHANGED <<pc, call, wire, reply, cache, reg, behind, held, seen, excused>>
    BY <1>6 DEF vars
  <2> QED
    BY <2>1, <2>2 DEF FreshInv, Fresh, Reading, ReplyFresh, Vouches
<1> QED
  BY <1>1, <1>2, <1>3, <1>4, <1>5, <1>6 DEF Next

\* A cached read, of a parameter or of a number with its unit, returns what the device
\* had during the call, unless an entry it used was stale and neither the counter nor an
\* invalidation showed it (cached_execute, _read_quantity_cached).
THEOREM CachedReadsAreFresh == Spec => ReadsAreFresh
<1>1. FreshInv /\ [Next]_vars => [Returns]_vars
  BY NextReturns
<1>2. ReadsAreFresh <=> [][Returns]_vars
  BY DEF ReadsAreFresh, Returns
<1> QED
  BY InitFresh, NextFresh, <1>1, <1>2, PTL DEF Spec
=============================================================================
