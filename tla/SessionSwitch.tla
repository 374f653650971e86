--------------------------- MODULE SessionSwitch ---------------------------
(***************************************************************************)
(* One Session of sartoriuslib on one serial port: the tasks that call     *)
(* Session.execute, the protocol client's lock that lets one of them at a  *)
(* time use the wire, and Balance.configure_protocol, which under that     *)
(* lock closes and reopens the port, verifies the device through a new     *)
(* client, swaps it in and retires the old one, or rolls the port back.    *)
(*                                                                         *)
(* A step runs from one await to the next, as tasks of one event loop do.  *)
(* Replies, failures, cancellation and Session.close come at any await. A  *)
(* reply answers its own request here; XbpiLink is about late ones.        *)
(***************************************************************************)
EXTENDS Naturals, Sequences, SequencesExt

CONSTANTS
  Tasks,         \* tasks that share the session
  Configurers,   \* those that may call configure_protocol
  Cancellable,   \* those that may be cancelled inside a call
  Commands,      \* commands the tasks execute; the safety and prior gates
                 \* (which refuse without touching this state) admit them
  Variants,      \* Variants[c]: the protocols command c is declared for
  Parameterized, \* commands whose 0x04 only says that an index is out of range
  Lacks,         \* commands the device answers with 0x04 whatever the argument
  Framings,      \* serial framings (baud, parity, stop bits)
  None,          \* Python's None: framing not tracked, or not overridden
  Closed,        \* the port is not open
  MaxClients     \* bound: protocol clients made over the session's life

Protocols == {"xbpi", "sbi"}
Clients   == 1..MaxClients

ASSUME SwitchAssumption ==
  /\ Configurers \subseteq Tasks
  /\ Cancellable \subseteq Tasks
  /\ Variants \in [Commands -> SUBSET Protocols]
  /\ Parameterized \subseteq Commands
  /\ Lacks \subseteq Commands
  /\ None \notin Framings
  /\ Closed \notin Framings
  /\ MaxClients \in Nat \ {0}

VARIABLES
  pc,       \* where each task is suspended
  client,   \* the client whose lock a task waits for or holds
  call,     \* locals of its call: the command, or configure_protocol's target,
            \* override, captured settings and the settings it opens with
  lock,     \* per client: the holder first, then the waiters in arrival order
  proto,    \* per client: the protocol it speaks
  disposed, \* clients retired by a switch
  active,   \* the client the session dispatches through
  state,    \* SessionState
  framing,  \* Session._serial_settings
  avail,    \* Session._availability
  port,     \* framing of the open OS port, or Closed
  settings, \* SerialTransport._settings
  closed    \* Session.close was called

session   == <<proto, disposed, active, state, framing>>
transport == <<port, settings, closed>>
vars == <<pc, client, call, lock, session, avail, transport>>

Availability == {"UNKNOWN", "SUPPORTED", "UNSUPPORTED", "INAPPLICABLE"}
Outcomes     == {"success", "unsupported", "inapplicable", "failed"}
Switches     == [proto: Protocols, to: Framings \cup {None}, was: Framings \cup {None},
                 at: Framings \cup {None}]

\* Tasks inside the locked region, past their first byte or port operation.
Switching == {"closing", "opening", "sniff", "verify", "restoring", "reopening"}
Pcs       == {"idle", "queued", "exchange", "switchQueued"} \cup Switching

OnWire(t)  == pc[t] \in {"exchange"} \cup Switching
Owns(t)    == lock[client[t]] # <<>> /\ Head(lock[client[t]]) = t
Release(t) == lock' = [lock EXCEPT ![client[t]] = Tail(@)]
Goto(t, l) == pc' = [pc EXCEPT ![t] = l]

\* The call returns or raises, and its locals are gone.
Return(t)  == Goto(t, "idle") /\ call' = [call EXCEPT ![t] = None]

\* Mutant: None taken as a value.
OverlayNone(base, override) == override

\* A framing override of None keeps what is there.
Overlay(base, override) == IF override = None THEN base ELSE override

-----------------------------------------------------------------------------
Init ==
  /\ pc = [t \in Tasks |-> "idle"]
  /\ client = [t \in Tasks |-> 1]
  /\ call = [t \in Tasks |-> None]
  /\ lock = [c \in Clients |-> <<>>]
  /\ \E p \in Protocols : proto = [c \in Clients |-> p]
  /\ disposed = {}
  /\ active = 1
  /\ state = "OPERATIONAL"
  /\ settings \in Framings
  /\ port = settings
  /\ framing \in {settings, None}
  /\ avail = [c \in Commands |-> "UNKNOWN"]
  /\ closed = FALSE

-----------------------------------------------------------------------------
(* Session.execute and the client's exchange.                              *)

\* The protocol gate and the known-denied gate.
Admits(c) == proto[active] \in Variants[c] /\ avail[c] # "UNSUPPORTED"

\* The gates are passed against the session as it is now; the call then waits
\* for the lock of the client that is active now.
Execute(t, c) ==
  /\ pc[t] = "idle"
  /\ state = "OPERATIONAL"
  /\ Admits(c)
  /\ Goto(t, "queued")
  /\ call' = [call EXCEPT ![t] = c]
  /\ client' = [client EXCEPT ![t] = active]
  /\ lock' = [lock EXCEPT ![active] = Append(@, t)]
  /\ UNCHANGED <<session, avail, transport>>

\* Mutant: the exchange does not take the lock.
SendUnlocked(t) ==
  /\ pc[t] = "queued"
  /\ client[t] \notin disposed
  /\ port # Closed
  /\ Goto(t, "exchange")
  /\ UNCHANGED <<client, call, lock, session, avail, transport>>

\* Mutant: a retired client goes on.
SendRetired(t) ==
  /\ pc[t] = "queued"
  /\ Owns(t)
  /\ port # Closed
  /\ Goto(t, "exchange")
  /\ UNCHANGED <<client, call, lock, session, avail, transport>>

\* The lock is ours: a live client on an open port writes the request.
Send(t) ==
  /\ pc[t] = "queued"
  /\ Owns(t)
  /\ client[t] \notin disposed
  /\ port # Closed
  /\ Goto(t, "exchange")
  /\ UNCHANGED <<client, call, lock, session, avail, transport>>

\* A retired client, or a port that is not open, raises before writing.
Refuse(t) ==
  /\ pc[t] = "queued"
  /\ Owns(t)
  /\ client[t] \in disposed \/ port = Closed
  /\ Return(t)
  /\ Release(t)
  /\ UNCHANGED <<client, session, avail, transport>>

\* What the device may answer to c over protocol p. A failure (timeout, port
\* error, other refusals, unreadable reply) is always possible.
Possible(c, p) ==
  {"failed"}
    \cup (IF p = "xbpi" /\ c \in Lacks THEN {} ELSE {"success"})
    \cup (IF p = "xbpi" /\ c \notin Lacks THEN {"inapplicable"} ELSE {})
    \cup (IF p = "xbpi" /\ c \in Lacks \cup Parameterized THEN {"unsupported"} ELSE {})

\* Mutant: 0x04 always means that the command is missing.
LearnAlways(c, r) ==
  CASE r = "success" -> "SUPPORTED"
    [] r = "unsupported" -> "UNSUPPORTED"
    [] r = "inapplicable" -> "INAPPLICABLE"
    [] OTHER -> avail[c]

\* What the session records for c on outcome r.
Learn(c, r) ==
  CASE r = "success" -> "SUPPORTED"
    [] r = "unsupported" /\ c \notin Parameterized -> "UNSUPPORTED"
    [] r = "inapplicable" -> "INAPPLICABLE"
    [] OTHER -> avail[c]

Reply(t, r) ==
  /\ pc[t] = "exchange"
  /\ r \in Possible(call[t], proto[client[t]])
  /\ r # "failed" => port # Closed
  /\ avail' = [avail EXCEPT ![call[t]] = Learn(call[t], r)]
  /\ Return(t)
  /\ Release(t)
  /\ UNCHANGED <<client, session, transport>>

-----------------------------------------------------------------------------
(* Balance.configure_protocol.                                             *)

\* The session's client and settings are captured before the lock is awaited.
\* The same protocol without an override returns without touching anything.
Configure(t, p, f) ==
  /\ pc[t] = "idle"
  /\ t \in Configurers
  /\ state = "OPERATIONAL"
  /\ p # proto[active] \/ f # None
  /\ active < MaxClients
  /\ Goto(t, "switchQueued")
  /\ client' = [client EXCEPT ![t] = active]
  /\ call' = [call EXCEPT ![t] = [proto |-> p, to |-> f, was |-> framing, at |-> None]]
  /\ lock' = [lock EXCEPT ![active] = Append(@, t)]
  /\ UNCHANGED <<session, avail, transport>>

\* drain_input, then reopen detaches the port before it awaits its close.
Detach(t) ==
  /\ pc[t] = "switchQueued"
  /\ Owns(t)
  /\ port' = Closed
  /\ Goto(t, "closing")
  /\ UNCHANGED <<client, call, lock, session, avail, settings, closed>>

\* Mutant: a failed switch is not rolled back.
SwitchFailsAsIs(t) ==
  /\ Return(t)
  /\ Release(t)
  /\ UNCHANGED <<state, port>>

\* The except branch: nothing to restore breaks the session, otherwise the
\* port is detached for a reopen at the captured settings.
SwitchFails(t) ==
  IF call[t].was = None
  THEN /\ state' = "BROKEN"
       /\ Return(t)
       /\ Release(t)
       /\ UNCHANGED port
  ELSE /\ port' = Closed
       /\ Goto(t, "restoring")
       /\ UNCHANGED <<state, lock, call>>

\* Second half of reopen: overlay the settings, then open (refused when the
\* port is open already).
Reopen(t) ==
  /\ pc[t] = "closing"
  /\ settings' = Overlay(settings, call[t].to)
  /\ IF port = Closed
     THEN /\ Goto(t, "opening")
          /\ call' = [call EXCEPT ![t].at = settings']
          /\ UNCHANGED <<state, lock, port>>
     ELSE SwitchFails(t)
  /\ UNCHANGED <<client, proto, disposed, active, framing, avail, closed>>

\* An SBI client sniffs for autoprint first, an xBPI client verifies at once.
Opened(t) ==
  /\ pc[t] = "opening"
  /\ port' = call[t].at
  /\ Goto(t, IF call[t].proto = "sbi" THEN "sniff" ELSE "verify")
  /\ UNCHANGED <<client, call, lock, session, avail, settings, closed>>

\* No autoprint line within the sniff: the identity probe decides.
Quiet(t) ==
  /\ pc[t] = "sniff"
  /\ port # Closed
  /\ Goto(t, "verify")
  /\ UNCHANGED <<client, call, lock, session, avail, transport>>

\* Opening, sniffing or probing raises.
Fails(t) ==
  /\ pc[t] \in {"opening", "sniff", "verify"}
  /\ SwitchFails(t)
  /\ UNCHANGED <<client, proto, disposed, active, framing, avail, settings, closed>>

\* An autoprint line or an answered probe: replace_clients, then retire the
\* captured client and give its lock to the next waiter.
Install(t) ==
  /\ pc[t] \in {"sniff", "verify"}
  /\ port # Closed
  /\ active < MaxClients
  /\ active' = active + 1
  /\ proto' = [proto EXCEPT ![active + 1] = call[t].proto]
  /\ framing' = IF call[t].was = None THEN framing ELSE Overlay(call[t].was, call[t].to)
  /\ avail' = [c \in Commands |-> "UNKNOWN"]
  /\ disposed' = disposed \cup {client[t]}
  /\ Return(t)
  /\ Release(t)
  /\ UNCHANGED <<client, state, transport>>

\* Rollback: reopen at the captured settings.
Restore(t) ==
  /\ pc[t] = "restoring"
  /\ settings' = call[t].was
  /\ IF port = Closed
     THEN /\ Goto(t, "reopening")
          /\ UNCHANGED <<state, lock, call>>
     ELSE /\ state' = "BROKEN"
          /\ Return(t)
          /\ Release(t)
  /\ UNCHANGED <<client, proto, disposed, active, framing, avail, port, closed>>

\* Mutant: a rollback that fails after opening the port leaves it open.
RestoredHalf(t) ==
  /\ pc[t] = "reopening"
  /\ port' = call[t].was
  /\ state' \in {state, "BROKEN"}
  /\ Return(t)
  /\ Release(t)
  /\ UNCHANGED <<client, proto, disposed, active, framing, avail, settings, closed>>

\* The rollback's open succeeds, or fails and breaks the session.
Restored(t) ==
  /\ pc[t] = "reopening"
  /\ \/ port' = call[t].was /\ UNCHANGED state
     \/ state' = "BROKEN" /\ UNCHANGED port
  /\ Return(t)
  /\ Release(t)
  /\ UNCHANGED <<client, proto, disposed, active, framing, avail, settings, closed>>

-----------------------------------------------------------------------------
\* Mutant: a cancelled waiter stays in the queue.
CancelInQueue(t) ==
  /\ t \in Cancellable
  /\ pc[t] # "idle"
  /\ Return(t)
  /\ UNCHANGED <<client, lock, session, avail, transport>>

\* Cancellation at an await: a waiter leaves the queue, a holder releases the
\* lock. The except branch of configure_protocol does not see it.
Cancel(t) ==
  /\ t \in Cancellable
  /\ pc[t] # "idle"
  /\ \E i \in DOMAIN lock[client[t]] :
       /\ lock[client[t]][i] = t
       /\ lock' = [lock EXCEPT ![client[t]] = RemoveAt(@, i)]
  /\ Return(t)
  /\ UNCHANGED <<client, session, avail, transport>>

\* Session.close detaches the port without taking the lock.
Close ==
  /\ ~closed
  /\ closed' = TRUE
  /\ port' = Closed
  /\ UNCHANGED <<pc, client, call, lock, session, avail, settings>>

-----------------------------------------------------------------------------
\* A task that is inside a call resumes.
Resume(t) ==
  \/ Send(t) \/ Refuse(t)
  \/ \E r \in Outcomes : Reply(t, r)
  \/ Detach(t) \/ Reopen(t) \/ Opened(t) \/ Quiet(t) \/ Fails(t)
  \/ Install(t) \/ Restore(t) \/ Restored(t)

Begin(t) ==
  \/ \E c \in Commands : Execute(t, c)
  \/ \E p \in Protocols, f \in Framings \cup {None} : Configure(t, p, f)

Next ==
  \/ \E t \in Tasks : Begin(t) \/ Resume(t) \/ Cancel(t)
  \/ Close

\* Every await under the lock is bounded by a timeout or by the operating
\* system's answer to open, so a task inside a call eventually resumes.
Fairness == \A t \in Tasks : WF_vars(Resume(t))

Spec == Init /\ [][Next]_vars /\ Fairness

-----------------------------------------------------------------------------
TypeOK ==
  /\ pc \in [Tasks -> Pcs]
  /\ client \in [Tasks -> Clients]
  /\ call \in [Tasks -> Commands \cup Switches \cup {None}]
  /\ lock \in [Clients -> Seq(Tasks)]
  /\ proto \in [Clients -> Protocols]
  /\ disposed \subseteq Clients
  /\ active \in Clients
  /\ state \in {"OPERATIONAL", "BROKEN"}
  /\ framing \in Framings \cup {None}
  /\ avail \in [Commands -> Availability]
  /\ port \in Framings \cup {Closed}
  /\ settings \in Framings
  /\ closed \in BOOLEAN

\* "One balance, one serial port ... serialises I/O" (session.py): whatever the
\* switches did to the clients and their locks, at most one task has a request,
\* a probe or a port operation under way.
SingleInFlight == \A t, u \in Tasks : OnWire(t) /\ OnWire(u) => t = u

\* A request that waited through a switch must not be written by the retired
\* client or at the framing the switch left: while a request is on the wire its
\* client is the session's, is not retired, and the port has the session's
\* framing (or was closed under it by Session.close).
RequestsMatchSession ==
  \A t \in Tasks : pc[t] = "exchange" =>
    /\ client[t] = active
    /\ active \notin disposed
    /\ framing # None => port \in {framing, Closed}
    /\ port = Closed => closed

\* Whenever no switch is under way, an operational session's port is open at the
\* framing the session reports: a failed switch was rolled back completely or
\* the session is BROKEN.
FramingAgrees ==
  (state = "OPERATIONAL" /\ framing # None /\ ~closed /\ \A t \in Tasks : pc[t] \notin Switching)
    => port = framing /\ settings = framing

\* No request is written once the session is BROKEN, not even by a call that
\* passed the state gate before and was waiting for the lock.
BrokenIsSilent ==
  framing # None => \A t \in Tasks : pc[t] = "exchange" => state = "OPERATIONAL"

\* The availability cache tells the truth about the protocol the session speaks
\* now: what was learned through another client, or from an index out of range,
\* never decides whether a command is refused.
AvailabilityTruthful ==
  \A c \in Commands :
    /\ avail[c] = "UNSUPPORTED" => proto[active] = "xbpi" /\ c \in Lacks
    /\ avail[c] = "SUPPORTED" => proto[active] = "sbi" \/ c \notin Lacks
    /\ avail[c] = "INAPPLICABLE" => proto[active] = "xbpi"

\* Every call returns: no task waits for ever for a lock that a retired client,
\* a cancelled waiter or a failed switch left behind.
CallsReturn == \A t \in Tasks : pc[t] # "idle" ~> pc[t] = "idle"
=============================================================================
