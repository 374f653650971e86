------------------------------ MODULE Manager ------------------------------
(***************************************************************************)
(* SartoriusManager: balances by name on serial ports that several of them *)
(* share. Tasks add and remove balances and close the manager under its    *)
(* state lock; other tasks poll balances, port by port, or switch the      *)
(* protocol of one, under no lock but the client's of each request.        *)
(*                                                                         *)
(* Sources are port names, in their canonical form. An add is named by its *)
(* number; so are the session, the transport and the client it creates. A  *)
(* client that a switch creates has a number beyond MaxAdds. A step runs   *)
(* from one await to the next.                                             *)
(***************************************************************************)
EXTENDS Naturals, Sequences, SequencesExt

CONSTANTS
  Names, Ports, Tasks,
  Cancellable, \* tasks that may be cancelled
  MaxAdds,     \* bound: calls of add
  MaxSwitches  \* bound: calls of configure_protocol

ASSUME ManagerAssumption ==
  /\ Cancellable \subseteq Tasks
  /\ {MaxAdds, MaxSwitches} \subseteq Nat

VARIABLES
  lock,        \* _state_lock: the holder first, then those that wait
  devices,     \* _devices, in the order of insertion
  ports,       \* _ports: transport, shared client (0 is None) and refs
  closed,      \* _closed
  session,     \* of each add: the session's client and transport
  retired,     \* clients that are disposed
  open,        \* transports that are open
  op,          \* what each task does
  adds, switches,
  interrupted, \* ports whose teardown was cancelled
  reopened,    \* transports that a switch opened when no balance was registered on them
  stale        \* transports on which a switch held a client that was disposed before

registry == <<devices, ports, closed>>
ghosts   == <<interrupted, reopened, stale>>
bounds   == <<adds, switches>>
vars     == <<lock, registry, session, retired, open, op, bounds, ghosts>>

Registered == {e.name : e \in ToSet(devices)}
Entry(n)   == CHOOSE e \in ToSet(devices) : e.name = n

Idle    == [kind |-> "idle"]
Free(t) == op[t].kind \in {"idle", "polled", "crashed"}
At(t, kind, place) == op[t].kind = kind /\ op[t].at = place
Owns(t) == lock # <<>> /\ Head(lock) = t

\* The call of t returns or raises, and releases the state lock.
Done(t) == op' = [op EXCEPT ![t] = Idle] /\ lock' = Tail(lock)

GoesTo(t, place) == op' = [op EXCEPT ![t].at = place] /\ UNCHANGED lock

Put(ps, p, e)     == [q \in DOMAIN ps \cup {p} |-> IF q = p THEN e ELSE ps[q]]
Dropped(ps, gone) == [p \in DOMAIN ps \ gone |-> ps[p]]

Init ==
  /\ lock = <<>> /\ devices = <<>> /\ ports = [p \in {} |-> {}] /\ closed = FALSE
  /\ session = [i \in 1..MaxAdds |-> [client |-> 0, transport |-> 0]]
  /\ retired = {} /\ open = {}
  /\ op = [t \in Tasks |-> Idle]
  /\ adds = 0 /\ switches = 0
  /\ interrupted = {} /\ reopened = {} /\ stale = {}

-----------------------------------------------------------------------------
(* Who uses a client, and a transport.                                     *)

Groups(t, place) ==
  IF op[t].kind = "poll" THEN {p \in DOMAIN op[t].group : op[t].group[p].at = place} ELSE {}

Switching(t) == op[t].kind = "switch" /\ op[t].at # "waiting"

Busy(c) ==
  \E t \in Tasks :
    \/ At(t, "add", "probing") /\ session[op[t].id].client = c
    \/ Switching(t) /\ op[t].client = c
    \/ \E p \in Groups(t, "asking") : op[t].group[p].client = c

\* The exchanges and switches that are under way on transport tr.
OnWire(tr) ==
  {use \in Tasks \X Ports :
     LET t == use[1]
         p == use[2]
     IN \/ At(t, "add", "probing") /\ op[t].port = p /\ session[op[t].id].transport = tr
        \/ Switching(t) /\ op[t].port = p /\ session[op[t].id].transport = tr
        \/ p \in Groups(t, "asking") /\ session[op[t].group[p].id].transport = tr}

-----------------------------------------------------------------------------
(* Calls that take the state lock.                                         *)

Enter(t, call) ==
  /\ Free(t)
  /\ op' = [op EXCEPT ![t] = call]
  /\ lock' = Append(lock, t)
  /\ UNCHANGED <<registry, session, retired, open, switches, ghosts>>

CallAdd(t) ==
  /\ adds < MaxAdds
  /\ adds' = adds + 1
  /\ \E n \in Names, p \in Ports, i \in BOOLEAN :
       Enter(t, [kind |-> "add", at |-> "queued", name |-> n, port |-> p,
                 id |-> adds + 1, identify |-> i, fresh |-> FALSE])

CallRemove(t) ==
  /\ \E n \in Names : Enter(t, [kind |-> "remove", at |-> "queued", name |-> n])
  /\ UNCHANGED adds

CallClose(t) == Enter(t, [kind |-> "close", at |-> "queued"]) /\ UNCHANGED adds

-----------------------------------------------------------------------------
(* add                                                                     *)

\* The manager is closed, the name is in use, or an argument is refused.
AddRefused(t) ==
  /\ Owns(t) /\ At(t, "add", "queued")
  /\ Done(t)
  /\ UNCHANGED <<registry, session, retired, open, bounds, ghosts>>

\* The balance is registered under its name, with a reference to its port.
Register(t, entry) ==
  /\ devices' = Append(devices, [name |-> op[t].name, port |-> op[t].port, id |-> op[t].id])
  /\ ports' = Put(ports, op[t].port, [entry EXCEPT !.refs = @ \cup {op[t].name}])
  /\ Done(t)

\* Mutant: every balance gets a client of its own.
AttachOwnClient(t, e, fresh) ==
  LET a == op[t]
      entry == [e EXCEPT !.client = a.id]
  IN /\ session' = [session EXCEPT ![a.id] = [client |-> entry.client, transport |-> e.transport]]
     /\ IF a.identify
        THEN /\ op' = [op EXCEPT ![t].at = "identifying", ![t].fresh = fresh]
             /\ ports' = Put(ports, a.port, entry)
             /\ UNCHANGED <<lock, devices>>
        ELSE Register(t, entry)

\* A session on the port's shared client, made by the first balance of the port.
Attach(t, e, fresh) ==
  LET a == op[t]
      entry == IF e.client = 0 THEN [e EXCEPT !.client = a.id] ELSE e
  IN /\ session' = [session EXCEPT ![a.id] = [client |-> entry.client, transport |-> e.transport]]
     /\ IF a.identify
        THEN /\ op' = [op EXCEPT ![t].at = "identifying", ![t].fresh = fresh]
             /\ ports' = Put(ports, a.port, entry)
             /\ UNCHANGED <<lock, devices>>
        ELSE Register(t, entry)

\* The port's entry is found or made; a transport that is closed is opened first.
AddResolves(t) ==
  /\ Owns(t) /\ At(t, "add", "queued")
  /\ ~closed /\ op[t].name \notin Registered
  /\ LET p == op[t].port
         fresh == p \notin DOMAIN ports
         e == IF fresh THEN [transport |-> op[t].id, client |-> 0, refs |-> {}] ELSE ports[p]
     IN IF e.transport \in open
        THEN Attach(t, e, fresh)
        ELSE /\ op' = [op EXCEPT ![t].at = "opening", ![t].fresh = fresh]
             /\ ports' = Put(ports, p, e)
             /\ UNCHANGED <<lock, devices, session>>
  /\ UNCHANGED <<closed, retired, open, bounds, ghosts>>

\* The transport is open. On a port with a client the protocol may be the wrong one.
AddOpened(t) ==
  /\ At(t, "add", "opening")
  /\ LET e == ports[op[t].port]
     IN /\ open' = open \cup {e.transport}
        /\ \/ Attach(t, e, op[t].fresh)
           \/ e.client # 0 /\ Done(t) /\ UNCHANGED <<devices, ports, session>>
  /\ UNCHANGED <<closed, retired, bounds, ghosts>>

AddOpenFails(t) ==
  /\ At(t, "add", "opening")
  /\ ports' = IF op[t].fresh THEN Dropped(ports, {op[t].port}) ELSE ports
  /\ Done(t)
  /\ UNCHANGED <<devices, closed, session, retired, open, bounds, ghosts>>

IdentifyAsks(t) ==
  /\ At(t, "add", "identifying")
  /\ LET s == session[op[t].id]
     IN ~Busy(s.client) /\ s.client \notin retired /\ s.transport \in open
  /\ GoesTo(t, "probing")
  /\ UNCHANGED <<registry, session, retired, open, bounds, ghosts>>

Identified(t) ==
  /\ At(t, "add", "probing")
  /\ session[op[t].id].transport \in open
  /\ Register(t, ports[op[t].port])
  /\ UNCHANGED <<closed, session, retired, open, bounds, ghosts>>

\* Mutant: a failed add tears the port down although other balances use it.
UndoShared(t) ==
  IF ports[op[t].port].transport \in open
  THEN GoesTo(t, "closing") /\ open' = open \ {ports[op[t].port].transport} /\ UNCHANGED ports
  ELSE ports' = Dropped(ports, {op[t].port}) /\ Done(t) /\ UNCHANGED open

\* Mutant: the port that a failed add opened is forgotten, not closed.
UndoForgets(t) ==
  /\ ports' = IF op[t].fresh THEN Dropped(ports, {op[t].port}) ELSE ports
  /\ Done(t)
  /\ UNCHANGED open

\* A failed add tears down the port if it is the one that made the entry. close()
\* detaches the port before it awaits.
Undo(t) ==
  LET tr == ports[op[t].port].transport
  IN IF op[t].fresh /\ tr \in open
     THEN GoesTo(t, "closing") /\ open' = open \ {tr} /\ UNCHANGED ports
     ELSE /\ ports' = IF op[t].fresh THEN Dropped(ports, {op[t].port}) ELSE ports
          /\ Done(t)
          /\ UNCHANGED open

\* The balance does not answer, the port is gone, or the client is disposed.
IdentifyFails(t) ==
  /\ \/ At(t, "add", "probing")
     \/ At(t, "add", "identifying") /\ ~Busy(session[op[t].id].client)
  /\ Undo(t)
  /\ UNCHANGED <<devices, closed, session, retired, bounds, ghosts>>

-----------------------------------------------------------------------------
(* remove and close                                                        *)

RemoveRefused(t) ==
  /\ Owns(t) /\ At(t, "remove", "queued")
  /\ closed \/ op[t].name \notin Registered
  /\ Done(t)
  /\ UNCHANGED <<registry, session, retired, open, bounds, ghosts>>

\* The entry is popped and its reference dropped; the last one closes the port.
Removes(t) ==
  /\ Owns(t) /\ At(t, "remove", "queued")
  /\ ~closed /\ op[t].name \in Registered
  /\ LET e == Entry(op[t].name)
         port == [ports[e.port] EXCEPT !.refs = @ \ {e.name}]
     IN /\ devices' = RemoveFirst(devices, e)
        /\ IF port.refs = {} /\ port.transport \in open
           THEN /\ op' = [op EXCEPT ![t] = [kind |-> "remove", at |-> "closing", port |-> e.port]]
                /\ ports' = [ports EXCEPT ![e.port] = port]
                /\ open' = open \ {port.transport}
                /\ UNCHANGED lock
           ELSE /\ ports' = IF port.refs = {} THEN Dropped(ports, {e.port})
                            ELSE [ports EXCEPT ![e.port] = port]
                /\ Done(t)
                /\ UNCHANGED open
  /\ UNCHANGED <<closed, session, retired, bounds, ghosts>>

\* close() pops the devices from the last one on, until a port is to be closed, for
\* which it waits, or none is left. ps is _ports at its start.
Sweep(t, ps) ==
  LET After(i) == {devices[j].name : j \in i..Len(devices)}
      Unused(i) == {p \in DOMAIN ps : ps[p].refs # {} /\ ps[p].refs \subseteq After(i)}
      Closing(i) == {p \in Unused(i) : ps[p].transport \in open}
      Stops == {i \in 1..Len(devices) : Closing(i) # {}}
  IN IF Stops = {}
     THEN /\ devices' = <<>> /\ closed' = TRUE
          /\ ports' = Dropped(ps, Unused(1))
          /\ Done(t)
          /\ UNCHANGED open
     ELSE \E i \in Stops, p \in DOMAIN ps :
          /\ p \in Closing(i)
          /\ \A j \in Stops : j <= i
          /\ devices' = SubSeq(devices, 1, i - 1)
          /\ ports' = [q \in DOMAIN ps \ (Unused(i) \ {p}) |-> [ps[q] EXCEPT !.refs = @ \ After(i)]]
          /\ open' = open \ {ps[p].transport}
          /\ op' = [op EXCEPT ![t] = [kind |-> "close", at |-> "closing", port |-> p]]
          /\ UNCHANGED <<lock, closed>>

Closes(t) ==
  /\ Owns(t) /\ At(t, "close", "queued")
  /\ IF closed THEN Done(t) /\ UNCHANGED <<registry, open>> ELSE Sweep(t, ports)
  /\ UNCHANGED <<session, retired, bounds, ghosts>>

\* transport.close() has returned: the entry is dropped.
TornDown(t) ==
  /\ op[t].kind \in {"add", "remove", "close"} /\ op[t].at = "closing"
  /\ LET rest == Dropped(ports, {op[t].port})
     IN IF op[t].kind = "close" THEN Sweep(t, rest)
        ELSE ports' = rest /\ Done(t) /\ UNCHANGED <<devices, closed, open>>
  /\ UNCHANGED <<session, retired, bounds, ghosts>>

-----------------------------------------------------------------------------
(* poll and execute: one group of a dispatch for each port.                *)

Poll(t) ==
  /\ Free(t)
  /\ \E targets \in SUBSET Registered \ {{}} :
       op' = [op EXCEPT ![t] =
         [kind |-> "poll", targets |-> targets, got |-> {},
          group |-> [p \in {Entry(n).port : n \in targets} |->
             [at |-> "next", name |-> "none", id |-> 0, client |-> 0,
              todo |-> {n \in targets : Entry(n).port = p}]]]]
  /\ UNCHANGED <<lock, registry, session, retired, open, bounds, ghosts>>

\* It is the turn of member n of the group: any that is left, in the order of the names
\* that the caller gave, then the one that was looked up.
Turn(t, p, n) ==
  /\ op[t].kind = "poll" /\ p \in DOMAIN op[t].group
  /\ n \in op[t].group[p].todo
  /\ op[t].group[p].at # "next" => op[t].group[p].name = n

\* A member of the group has its result; the last one of all ends the dispatch.
ResultOf(t, p, n, rest) ==
  LET got == op[t].got \cup {n}
      group == [op[t].group EXCEPT ![p] = [@ EXCEPT !.at = "next", !.todo = rest]]
  IN /\ op' = [op EXCEPT ![t] =
         IF \A q \in DOMAIN group : group[q].todo = {}
         THEN [kind |-> "polled", targets |-> op[t].targets, got |-> got]
         ELSE [op[t] EXCEPT !.got = got, !.group = group]]
     /\ UNCHANGED <<lock, registry, session, retired, open, bounds, ghosts>>

Result(t, p, n) == ResultOf(t, p, n, op[t].group[p].todo \ {n})

\* The next member is looked up by its name; its session gives the client.
LooksUp(t, p, n) ==
  /\ Turn(t, p, n) /\ op[t].group[p].at = "next"
  /\ n \in Registered
  /\ LET e == Entry(n)
     IN op' = [op EXCEPT ![t].group[p] =
                 [@ EXCEPT !.at = "waiting", !.name = n, !.id = e.id, !.client = session[e.id].client]]
  /\ UNCHANGED <<lock, registry, session, retired, open, bounds, ghosts>>

\* The name is gone: the KeyError ends the group's task, and with it the dispatch.
LookupFails(t, p, n) ==
  /\ Turn(t, p, n) /\ op[t].group[p].at = "next"
  /\ n \notin Registered
  /\ op' = [op EXCEPT ![t] = [kind |-> "crashed", missing |-> n]]
  /\ UNCHANGED <<lock, registry, session, retired, open, bounds, ghosts>>

Asks(t, p, n) ==
  /\ Turn(t, p, n) /\ op[t].group[p].at = "waiting"
  /\ LET g == op[t].group[p]
     IN ~Busy(g.client) /\ g.client \notin retired /\ session[g.id].transport \in open
  /\ op' = [op EXCEPT ![t].group[p].at = "asking"]
  /\ UNCHANGED <<lock, registry, session, retired, open, bounds, ghosts>>

\* Mutant: the first failure ends the group.
RefusedEndsGroup(t, p, n) ==
  /\ Turn(t, p, n)
  /\ \/ op[t].group[p].at = "next" /\ n \in Registered
     \/ op[t].group[p].at = "waiting" /\ ~Busy(op[t].group[p].client)
  /\ ResultOf(t, p, n, {})

\* The session's gates, a client that is disposed, a port that is closed.
Refused(t, p, n) ==
  /\ Turn(t, p, n)
  /\ \/ op[t].group[p].at = "next" /\ n \in Registered
     \/ op[t].group[p].at = "waiting" /\ ~Busy(op[t].group[p].client)
  /\ Result(t, p, n)

\* The reply, or an error of the exchange.
Answered(t, p, n) ==
  /\ Turn(t, p, n) /\ op[t].group[p].at = "asking"
  /\ Result(t, p, n)

-----------------------------------------------------------------------------
(* configure_protocol of one managed balance, and cancellation.            *)

Managed(ps) == {ports[p].transport : p \in ps}
Referenced == {p \in DOMAIN ports : ports[p].refs # {}}

\* A switch opens its transport.
Reopens(tr) ==
  /\ open' = open \cup {tr}
  /\ reopened' = IF tr \in Managed(Referenced) THEN reopened ELSE reopened \cup {tr}

Switch(t) ==
  /\ Free(t)
  /\ switches < MaxSwitches
  /\ switches' = switches + 1
  /\ \E e \in ToSet(devices) :
       op' = [op EXCEPT ![t] = [kind |-> "switch", at |-> "waiting", port |-> e.port, id |-> e.id,
                                client |-> session[e.id].client, new |-> MaxAdds + switches + 1]]
  /\ UNCHANGED <<lock, registry, session, retired, open, adds, ghosts>>

\* The lock of the client that the session had is free: the port is closed, also when
\* that client has been disposed.
SwitchStarts(t) ==
  /\ At(t, "switch", "waiting")
  /\ ~Busy(op[t].client)
  /\ op' = [op EXCEPT ![t].at = "reopening"]
  /\ LET tr == session[op[t].id].transport
     IN /\ open' = open \ {tr}
        /\ stale' = IF op[t].client \in retired THEN stale \cup {tr} ELSE stale
  /\ UNCHANGED <<lock, registry, session, retired, bounds, interrupted, reopened>>

SwitchReopens(t) ==
  /\ At(t, "switch", "reopening")
  /\ session[op[t].id].transport \notin open
  /\ op' = [op EXCEPT ![t].at = "verifying"]
  /\ Reopens(session[op[t].id].transport)
  /\ UNCHANGED <<lock, registry, session, retired, bounds, interrupted, stale>>

\* The balance answered: the new client is installed, the captured one disposed.
Switched(t) ==
  /\ At(t, "switch", "verifying")
  /\ session' = [session EXCEPT ![op[t].id].client = op[t].new]
  /\ retired' = retired \cup {op[t].client}
  /\ op' = [op EXCEPT ![t] = Idle]
  /\ UNCHANGED <<lock, registry, open, bounds, ghosts>>

\* It failed: the rollback closes the port and may be able to open it again.
SwitchFails(t) ==
  /\ op[t].kind = "switch" /\ op[t].at \in {"reopening", "verifying"}
  /\ LET tr == session[op[t].id].transport
     IN \/ Reopens(tr)
        \/ open' = open \ {tr} /\ UNCHANGED reopened
  /\ op' = [op EXCEPT ![t] = Idle]
  /\ UNCHANGED <<lock, registry, session, retired, bounds, interrupted, stale>>

\* A call is cancelled where it waits. The teardown of add, remove and close does not
\* survive it: the transport is detached and its entry stays.
Cancel(t) ==
  /\ t \in Cancellable /\ ~Free(t)
  /\ op' = [op EXCEPT ![t] = Idle]
  /\ lock' = RemoveFirst(lock, t)
  /\ LET a == op[t]
         undone == a.kind = "add" /\ a.at \in {"opening", "identifying", "probing"} /\ a.fresh
         torn == \/ a.kind \in {"add", "remove", "close"} /\ a.at = "closing"
                 \/ undone /\ ports[a.port].transport \in open
     IN /\ interrupted' = IF torn THEN interrupted \cup {a.port} ELSE interrupted
        /\ ports' = IF undone /\ ~torn THEN Dropped(ports, {a.port}) ELSE ports
        /\ open' = IF undone THEN open \ {ports[a.port].transport} ELSE open
  /\ UNCHANGED <<devices, closed, session, retired, bounds, reopened, stale>>

-----------------------------------------------------------------------------
Administer(t) ==
  \/ CallAdd(t) \/ AddRefused(t) \/ AddResolves(t) \/ AddOpened(t) \/ AddOpenFails(t)
  \/ IdentifyAsks(t) \/ Identified(t) \/ IdentifyFails(t)
  \/ CallRemove(t) \/ RemoveRefused(t) \/ Removes(t) \/ CallClose(t) \/ Closes(t) \/ TornDown(t)

Dispatch(t) ==
  \/ Poll(t)
  \/ \E p \in Ports, n \in Names :
       \/ LooksUp(t, p, n) \/ LookupFails(t, p, n) \/ Asks(t, p, n)
       \/ Refused(t, p, n) \/ Answered(t, p, n)

Configure(t) == Switch(t) \/ SwitchStarts(t) \/ SwitchReopens(t) \/ Switched(t) \/ SwitchFails(t)

Next == \E t \in Tasks : Administer(t) \/ Dispatch(t) \/ Configure(t) \/ Cancel(t)

Spec == Init /\ [][Next]_vars

-----------------------------------------------------------------------------
TypeOK ==
  /\ IsInjective(lock)
  /\ ToSet(lock) = {t \in Tasks : op[t].kind \in {"add", "remove", "close"}}
  /\ ToSet(devices) \subseteq [name : Names, port : Ports, id : 1..MaxAdds]
  /\ DOMAIN ports \subseteq Ports
  /\ \A p \in DOMAIN ports :
       ports[p] \in [transport : 1..MaxAdds, client : 0..MaxAdds, refs : SUBSET Names]
  /\ closed \in BOOLEAN
  /\ session \in [1..MaxAdds -> [client : 0..(MaxAdds + MaxSwitches), transport : 0..MaxAdds]]
  /\ retired \subseteq 1..(MaxAdds + MaxSwitches)
  /\ open \cup reopened \cup stale \subseteq 1..MaxAdds
  /\ DOMAIN op = Tasks
  /\ adds \in 0..MaxAdds /\ switches \in 0..MaxSwitches
  /\ interrupted \subseteq Ports

\* A port's references are exactly the balances on it and each of these uses the port's
\* transport, whatever adds failed and calls were cancelled ("Per-port clients are
\* ref-counted so the last remove on a shared port triggers the transport close"). An
\* entry without any is left only by a teardown that was cancelled.
RefsAgree ==
  /\ TypeOK
  /\ lock = <<>> =>
       /\ \A p \in DOMAIN ports :
            /\ ports[p].refs = {e.name : e \in {d \in ToSet(devices) : d.port = p}}
            /\ ports[p].refs = {} => p \in interrupted
       /\ \A e \in ToSet(devices) :
            e.port \in DOMAIN ports /\ session[e.id].transport = ports[e.port].transport

\* Between calls every open transport is one the manager knows, and a closed manager has
\* let go of all of them ("Tear down every managed balance and port"), but for those that
\* a switch opened behind its back and the ports of a cancelled teardown.
NothingLeaks ==
  /\ lock = <<>> => open \subseteq Managed(DOMAIN ports) \cup reopened
  /\ closed => devices = <<>> /\ DOMAIN ports \subseteq interrupted

\* "operations against the same port serialise through that port's shared
\* XbpiProtocolClient lock" (manager.py).
EveryPortSerialises ==
  \A tr \in open : \A u, v \in OnWire(tr) : u = v

\* On a port where no switch has held a disposed client, at most one exchange or switch
\* is under way, however many balances share it and were switched before. One that
\* starts on the lock of a disposed client, of a balance that shared it with one that
\* was switched, does break it: EveryPortSerialises is violated.
SamePortSerialises ==
  \A tr \in open \ stale : \A u, v \in OnWire(tr) : u = v

\* "every balance produces a DeviceResult": a poll that returns has the results of all
\* its balances, whatever was removed, added or switched meanwhile.
ResultsComplete == \A t \in Tasks : op[t].kind = "polled" => op[t].got = op[t].targets
=============================================================================
