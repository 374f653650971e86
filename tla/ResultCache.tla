---------------------------- MODULE ResultCache ----------------------------
(***************************************************************************)
(* The result cache of an xBPI Session that has a config counter (0xBA).   *)
(* cached_execute first reads the counter; an entry pinned to the same     *)
(* counter is returned, otherwise the value is read in a second exchange   *)
(* and stored under the counter read before. The counter is a small number *)
(* that wraps, and some parameters change without bumping it: for those    *)
(* Balance drops the entry itself after an acknowledged write, and all     *)
(* entries after a menu save or reload. The front panel writes too, and    *)
(* a cold boot sets the counter back to 1.                                 *)
(*                                                                         *)
(* capacity and increment are read in two cached reads, one for the number *)
(* and one for the display unit (p07), and give what they have when the    *)
(* second one fails.                                                       *)
(*                                                                         *)
(* An exchange is one request under the client's lock. The device serves   *)
(* it before the call ends, or never; the call may end without the reply   *)
(* although it was served. Late replies are XbpiLink's subject, and the    *)
(* lock's order (SessionSwitch) does not matter here.                      *)
(***************************************************************************)
EXTENDS Naturals, FiniteSets

CONSTANTS
  Tasks,      \* tasks that share the session
  Parameters, \* entries of the device's parameter table
  Entries,    \* cache keys
  Source,     \* Source[e]: the parameter that decides entry e (capacity: p08)
  Unit,       \* the parameter that is folded into the other entries (p07)
  Silent,     \* parameters whose changes do not bump the counter (p13, p36, p50)
  Panel,      \* parameters that somebody may change on the front panel
  Values,     \* values of a parameter
  Modulus,    \* values of the counter (256 for the device's one byte)
  Ack, None,
  MaxChanges  \* bound: changes of parameters and of the saved menu, and cold boots

ASSUME CacheAssumption ==
  /\ IsFiniteSet(Parameters)
  /\ Parameters \subseteq Entries
  /\ Unit \in Parameters
  /\ Source \in [Entries -> Parameters]
  /\ \A p \in Parameters : Source[p] = p
  /\ \A e \in Entries \ Parameters : Source[e] \notin Silent
  /\ Silent \subseteq Parameters /\ Panel \subseteq Parameters
  /\ Modulus \in Nat \ {0}
  /\ Ack \notin Values /\ None \notin Values
  /\ MaxChanges \in Nat

VARIABLES
  pc,      \* what each task's exchange is: the counter, the value, a write, ...
  call,    \* the entry it reads, or the parameter and value it writes
  wire,    \* the task whose exchange is under way
  reply,   \* what the device answered to it, None before it is served
  pinned,  \* per task: the counter it read
  cache,   \* Session._result_cache: per entry the pin and the value, or None
  reg,     \* the device's parameters
  saved,   \* its menu in EEPROM
  bumps,   \* how often the counter was bumped: reading it gives bumps % Modulus, so
           \* bumps stands for it in replies and pins, which are compared % Modulus
  changes, \* how many there were of what MaxChanges bounds
  behind,  \* silent parameters that changed without an acknowledged write
  held,    \* per task: the number whose unit it is reading, or None
  got,     \* the value that a read returned in the step just taken, or None
  seen,    \* per task: the parameters there were during its read under way
  excused  \* the tasks whose number came from an entry that was stale unnoticed

vars == <<pc, call, wire, reply, pinned, cache, reg, saved, bumps, changes, behind, held, got, seen, excused>>

Exchanges == {"counter", "value", "write", "save", "reload"}
Value(e)  == reg[Source[e]]

Init ==
  /\ pc = [t \in Tasks |-> "idle"]
  /\ call = [t \in Tasks |-> None]
  /\ wire = None /\ reply = None
  /\ pinned = [t \in Tasks |-> 0]
  /\ cache = [e \in Entries |-> None]
  /\ \E v \in Values : reg = [p \in Parameters |-> v]
  /\ saved = reg
  /\ bumps = 0 /\ changes = 0
  /\ behind = {}
  /\ held = [t \in Tasks |-> None]
  /\ got = None
  /\ seen = [t \in Tasks |-> {}]
  /\ excused = {}

-----------------------------------------------------------------------------
(* The device.                                                             *)

Changed(r) == {p \in Parameters : r[p] # reg[p]}

\* The parameters become r and the reads under way see it; n more changes are counted.
Become(r, n) ==
  /\ reg' = r
  /\ changes' = changes + n
  /\ changes' <= MaxChanges
  /\ seen' = [t \in Tasks |-> IF pc[t] \in {"counter", "value"} THEN seen[t] \cup {r} ELSE seen[t]]
  /\ behind' = behind \cup (Changed(r) \cap Silent)

\* The counter counts the changes of the parameters that are not silent.
Change(r) ==
  /\ Become(r, Cardinality(Changed(r)))
  /\ bumps' = bumps + Cardinality(Changed(r) \ Silent)

Unchanging == UNCHANGED <<reg, changes, bumps, seen, behind>>

\* The device serves the request on the wire.
Serve ==
  /\ wire # None
  /\ reply = None
  /\ CASE pc[wire] = "counter" -> reply' = bumps /\ Unchanging /\ UNCHANGED saved
       [] pc[wire] = "value"   -> reply' = Value(call[wire]) /\ Unchanging /\ UNCHANGED saved
       [] pc[wire] = "write"   -> /\ reply' = Ack
                                  /\ Change([reg EXCEPT ![call[wire].key] = call[wire].value])
                                  /\ UNCHANGED saved
       [] pc[wire] = "save"    -> reply' = Ack /\ saved' = reg /\ Become(reg, Cardinality(Changed(saved)))
                                  /\ UNCHANGED bumps
       [] pc[wire] = "reload"  -> reply' = Ack /\ Change(saved) /\ UNCHANGED saved
  /\ got' = None
  /\ UNCHANGED <<pc, call, wire, pinned, cache, held, excused>>

FrontPanel ==
  /\ \E p \in Panel, v \in Values : v # reg[p] /\ Change([reg EXCEPT ![p] = v])
  /\ got' = None
  /\ UNCHANGED <<pc, call, wire, reply, pinned, cache, saved, held, excused>>

\* The balance loses its power: it has its saved menu again and a counter of 1, which
\* bumps reaches by going on to the next number that shows as 1. A request that it had
\* not answered is lost: its call ends by Raises, and the model has that come first.
ColdBoot ==
  /\ wire # None => reply # None
  /\ Become(saved, Cardinality(Changed(saved)) + 1)
  /\ bumps' = Modulus * ((bumps \div Modulus) + 1) + 1
  /\ got' = None
  /\ UNCHANGED <<pc, call, wire, reply, pinned, cache, saved, held, excused>>

-----------------------------------------------------------------------------
(* The calls.                                                              *)

\* A call's first exchange: the counter for a cached read, else its own request. The
\* call counts from here, since it reads nothing before it has the lock.
Call(t, kind, c) ==
  /\ pc[t] = "idle"
  /\ wire = None /\ wire' = t
  /\ pc' = [pc EXCEPT ![t] = kind]
  /\ call' = [call EXCEPT ![t] = c]
  /\ got' = None
  /\ UNCHANGED <<reply, pinned, cache, reg, saved, bumps, changes, behind, held, excused>>

Read(t, e) ==
  /\ Call(t, "counter", e)
  /\ seen' = [seen EXCEPT ![t] = {reg}]

Write(t, p, v) == Call(t, "write", [key |-> p, value |-> v]) /\ UNCHANGED seen
Menu(t, kind)  == kind \in {"save", "reload"} /\ Call(t, kind, None) /\ UNCHANGED seen

\* The next exchange of a call; between its exchanges the others have theirs.
Acquire(t) ==
  /\ pc[t] # "idle"
  /\ wire = None
  /\ wire' = t
  /\ got' = None
  /\ UNCHANGED <<pc, call, reply, pinned, cache, reg, saved, bumps, changes, behind, held, seen, excused>>

\* The reply of its exchange resumes t, up to its next exchange or its end.
Answered(t) == wire = t /\ reply # None /\ wire' = None /\ reply' = None

\* The call returns v, or raises, and its locals are gone.
Ends(t, v) ==
  /\ pc' = [pc EXCEPT ![t] = "idle"]
  /\ call' = [call EXCEPT ![t] = None]
  /\ pinned' = [pinned EXCEPT ![t] = 0]
  /\ held' = [held EXCEPT ![t] = None]
  /\ seen' = [seen EXCEPT ![t] = {}]
  /\ excused' = excused \ {t}
  /\ got' = v

Quantity(value, unit) == [value |-> value, unit |-> unit]

\* The unit is read only once the number is there.
FoldsUnit(t) == call[t] \notin Parameters

\* A cached read has v: it returns a parameter, and with the unit a quantity; it goes on
\* to the unit after a number.
Gets(t, v) ==
  IF FoldsUnit(t)
  THEN /\ pc' = [pc EXCEPT ![t] = "counter"]
       /\ call' = [call EXCEPT ![t] = Unit]
       /\ pinned' = [pinned EXCEPT ![t] = 0]
       /\ held' = [held EXCEPT ![t] = v]
       /\ got' = None
       /\ UNCHANGED seen
  ELSE Ends(t, IF held[t] = None THEN v ELSE Quantity(held[t], v))

\* The counter's one byte.
Shown(n) == n % Modulus

\* Mutant: the pin is not compared.
HitAnyway(t) == cache[call[t]] # None

\* cached[0] == counter
Hit(t) == cache[call[t]] # None /\ Shown(cache[call[t]].pin) = Shown(reply)

\* A hit that the counter should have prevented: the parameter changed silently, or the
\* counter has come round to the pin, by itself or by a cold boot.
Unnoticed(t) ==
  LET pin == cache[call[t]].pin
  IN  Source[call[t]] \in behind \/ (pin # reply /\ Shown(pin) = Shown(reply))

CounterRead(t) ==
  /\ pc[t] = "counter"
  /\ Answered(t)
  /\ IF Hit(t)
     THEN /\ Gets(t, cache[call[t]].value)
          /\ FoldsUnit(t) => excused' = IF Unnoticed(t) THEN excused \cup {t} ELSE excused
     ELSE /\ pc' = [pc EXCEPT ![t] = "value"]
          /\ pinned' = [pinned EXCEPT ![t] = reply]
          /\ got' = None
          /\ UNCHANGED <<call, held, seen, excused>>
  /\ UNCHANGED <<cache, reg, saved, bumps, changes, behind>>

\* The value is stored under the counter that was read before it.
ValueRead(t) ==
  /\ pc[t] = "value"
  /\ Answered(t)
  /\ cache' = [cache EXCEPT ![call[t]] = [pin |-> pinned[t], value |-> reply]]
  /\ behind' = IF reply = Value(call[t]) THEN behind \ {call[t]} ELSE behind
  /\ Gets(t, reply)
  /\ FoldsUnit(t) => UNCHANGED excused
  /\ UNCHANGED <<reg, saved, bumps, changes>>

\* Mutant: the write relies on the counter and drops nothing.
WrittenKeeps(t) ==
  /\ pc[t] = "write"
  /\ Answered(t)
  /\ behind' = behind \ {call[t].key}
  /\ Ends(t, None)
  /\ UNCHANGED <<cache, reg, saved, bumps, changes>>

\* write_parameter drops the entry of the parameter after the acknowledgement.
Written(t) ==
  /\ pc[t] = "write"
  /\ Answered(t)
  /\ cache' = [cache EXCEPT ![call[t].key] = None]
  /\ behind' = behind \ {call[t].key}
  /\ Ends(t, None)
  /\ UNCHANGED <<reg, saved, bumps, changes>>

\* save_menu and reload_menu drop everything.
MenuDone(t) ==
  /\ pc[t] \in {"save", "reload"}
  /\ Answered(t)
  /\ cache' = [e \in Entries |-> None]
  /\ behind' = {}
  /\ Ends(t, None)
  /\ UNCHANGED <<reg, saved, bumps, changes>>

LeavesWire(t) ==
  /\ wire' = IF wire = t THEN None ELSE wire
  /\ reply' = IF wire = t THEN None ELSE reply

\* A timeout, a refusal or a cancellation: the call raises, wherever it is. An error of
\* the unit's read leaves the number without a unit (UNKNOWN).
Raises(t) ==
  /\ pc[t] # "idle"
  /\ Ends(t, None) \/ (held[t] # None /\ Ends(t, Quantity(held[t], None)))
  /\ LeavesWire(t)
  /\ UNCHANGED <<cache, reg, saved, bumps, changes, behind>>

-----------------------------------------------------------------------------
Next ==
  \/ \E t \in Tasks :
       \/ \E e \in Entries : Read(t, e)
       \/ \E p \in Parameters, v \in Values : Write(t, p, v)
       \/ \E kind \in {"save", "reload"} : Menu(t, kind)
       \/ Acquire(t) \/ Raises(t)
       \/ CounterRead(t) \/ ValueRead(t) \/ Written(t) \/ MenuDone(t)
  \/ Serve \/ FrontPanel \/ ColdBoot

Spec == Init /\ [][Next]_vars

-----------------------------------------------------------------------------
Entry == [pin : Nat, value : Values]

Quantities == [value : Values, unit : Values \cup {None}]

TypeOK ==
  /\ pc \in [Tasks -> Exchanges \cup {"idle"}]
  /\ call \in [Tasks -> Entries \cup [key : Parameters, value : Values] \cup {None}]
  /\ wire \in Tasks \cup {None}
  /\ reply \in Values \cup Nat \cup {Ack, None}
  /\ pinned \in [Tasks -> Nat]
  /\ cache \in [Entries -> Entry \cup {None}]
  /\ reg \in [Parameters -> Values] /\ saved \in [Parameters -> Values]
  /\ bumps \in Nat /\ changes \in Nat
  /\ behind \subseteq Silent
  /\ held \in [Tasks -> Values \cup {None}]
  /\ got \in Values \cup Quantities \cup {None}
  /\ seen \in [Tasks -> SUBSET [Parameters -> Values]]
  /\ excused \subseteq Tasks

\* An entry pinned to the counter as it is now has the device's value, unless the
\* parameter changed silently behind the cache. (During an exchange too: a write
\* that was served and not acknowledged yet counts as behind.)
Sound ==
  \A e \in Entries : cache[e] # None /\ cache[e].pin = bumps /\ Source[e] \notin behind
                       => cache[e].value = Value(e)

\* Every entry has a pin and a value, and is sound whatever the tasks, the front panel
\* and a cold boot do between the counter read of cached_execute and its store.
CacheSound == TypeOK /\ Sound

\* What a read of t that ends now was started for: a parameter's value was there at
\* some moment of the call. A quantity is a number and a unit that were there, and
\* were there together unless both changed while they were read.
Right(t, v) ==
  \/ v \in Values /\ \E r \in seen[t] : r[Source[call[t]]] = v
  \/ /\ v \in Quantities
     /\ \E e \in Entries \ Parameters : \E q, r \in seen[t] :
          /\ q[Source[e]] = v.value
          /\ v.unit \in {r[Unit], None}
          /\ q = r \/ (q[Unit] # r[Unit] /\ q[Source[e]] # r[Source[e]]) \/ v.unit = None

\* "Before returning a cached value, the session re-reads 0xBA; a mismatch flushes the
\* entry" (session.py): whatever other tasks and the front panel write meanwhile, a
\* read returns what the device had during the call, unless an entry it used was stale
\* and neither the counter nor an invalidation showed it.
ReadsAreFresh ==
  [][\A t \in Tasks : pc[t] \in {"counter", "value"} /\ pc'[t] = "idle" /\ got' # None =>
       \/ Right(t, got')
       \/ t \in excused
       \/ pc[t] = "counter" /\ reply # None /\ Hit(t) /\ Unnoticed(t)]_vars
=============================================================================
