--------------------------- MODULE ManagerProofs ---------------------------
(***************************************************************************)
(* What Manager's run checks of registry, ports and transports, for all    *)
(* names, ports and tasks and any number of adds and switches; that a poll *)
(* which returns is complete; and that a port is used by one request at a  *)
(* time unless a switch has held a disposed client there. A call that      *)
(* holds the state lock is half way between two registries that agree, so  *)
(* the argument says what each call has done at each of its awaits.        *)
(***************************************************************************)
EXTENDS Manager, SequenceTheorems, TLAPS

Clients    == 0..(MaxAdds + MaxSwitches)
DeviceType == [name : Names, port : Ports, id : 1..MaxAdds]
PortType   == [transport : 1..MaxAdds, client : 0..MaxAdds, refs : SUBSET Names]
AddType ==
  [kind : {"add"}, at : {"queued", "opening", "identifying", "probing", "closing"},
   name : Names, port : Ports, id : 1..MaxAdds, identify : BOOLEAN, fresh : BOOLEAN]
RemoveType ==
  [kind : {"remove"}, at : {"queued"}, name : Names]
    \cup [kind : {"remove"}, at : {"closing"}, port : Ports]
CloseType == [kind : {"close"}, at : {"queued"}] \cup [kind : {"close"}, at : {"closing"}, port : Ports]
SwitchType ==
  [kind : {"switch"}, at : {"waiting", "reopening", "verifying"}, port : Ports, id : 1..MaxAdds,
   client : Clients \ {0}, new : Clients \ {0}]

\* A group's place and session; its members still to come are PollInv's.
GroupFits(g) ==
  /\ g = [x \in DOMAIN g |-> g[x]] /\ DOMAIN g = {"at", "name", "id", "client", "todo"}
  /\ g.at \in {"next", "waiting", "asking"}
  /\ g.id \in 0..MaxAdds
PollFits(o) ==
  /\ o = [x \in DOMAIN o |-> o[x]] /\ DOMAIN o = {"kind", "targets", "got", "group"}
  /\ o.group = [p \in DOMAIN o.group |-> o.group[p]]
  /\ DOMAIN o.group \subseteq Ports
  /\ \A p \in DOMAIN o.group : GroupFits(o.group[p])

OpFits(o) ==
  /\ o.kind \in {"idle", "polled", "crashed", "add", "remove", "close", "switch", "poll"}
  /\ o.kind = "add" => o \in AddType
  /\ o.kind = "remove" => o \in RemoveType
  /\ o.kind = "close" => o \in CloseType
  /\ o.kind = "switch" => o \in SwitchType
  /\ o.kind = "poll" => PollFits(o)

Locks(t) == op[t].kind \in {"add", "remove", "close"}
Works(t) == Locks(t) /\ op[t].at # "queued"

TaskTypes ==
  /\ lock \in Seq(Tasks) /\ IsInjective(lock)
  /\ ToSet(lock) = {t \in Tasks : Locks(t)}
  /\ op = [t \in Tasks |-> op[t]]
  /\ \A t \in Tasks : OpFits(op[t])

DataTypes ==
  /\ devices \in Seq(DeviceType)
  /\ ports = [p \in DOMAIN ports |-> ports[p]] /\ DOMAIN ports \subseteq Ports
  /\ \A p \in DOMAIN ports : ports[p] \in PortType
  /\ closed \in BOOLEAN
  /\ session \in [1..MaxAdds -> [client : Clients, transport : 0..MaxAdds]]
  /\ \A i \in 1..MaxAdds : session[i].transport # 0 => session[i].client # 0
  /\ retired \subseteq 1..(MaxAdds + MaxSwitches)
  /\ open \subseteq 1..MaxAdds /\ reopened \subseteq 1..MaxAdds
  /\ adds \in 0..MaxAdds /\ switches \in 0..MaxSwitches
  /\ interrupted \subseteq Ports

Types == TaskTypes /\ DataTypes

LockInv == \A t \in Tasks : Works(t) => Owns(t)

\* Nothing has been made for add number i but the entry of port p.
Untouched(i, p) ==
  /\ i \notin open
  /\ \A j \in 1..MaxAdds : session[j].transport # i
  /\ \A q \in DOMAIN ports : ports[q].transport = i => q = p
  /\ session[i].transport = 0

\* Adds have numbers of their own, and those to come have none.
IdInv ==
  /\ \A d \in ToSet(devices) : d.id <= adds
  /\ open \subseteq 1..adds
  /\ \A p \in DOMAIN ports : ports[p].transport <= adds
  /\ \A i \in 1..MaxAdds : session[i].transport <= adds /\ (i > adds => session[i].transport = 0)
  /\ \A t \in Tasks : op[t].kind = "add" =>
       /\ op[t].id <= adds
       /\ \A d \in ToSet(devices) : d.id # op[t].id
       /\ \A u \in Tasks : op[u].kind = "add" /\ op[u].id = op[t].id => u = t
       /\ op[t].at \in {"queued", "opening"} => session[op[t].id].transport = 0
       /\ op[t].at = "queued" => \A p \in DOMAIN ports : ports[p].transport # op[t].id
       /\ op[t].at \in {"queued", "opening"} => Untouched(op[t].id, op[t].port)
  /\ \A t \in Tasks : op[t].kind = "switch" => session[op[t].id].transport # 0

\* The call of t will drop port p, which has no balance.
Drops(t, p) == Works(t) /\ op[t].port = p /\ (op[t].kind = "add" => op[t].fresh)

\* The registry, with what the call that works on it has done so far.
PortInv ==
  /\ IsInjective(devices)
  /\ \A d, e \in ToSet(devices) : d.name = e.name => d = e
  /\ \A p, q \in DOMAIN ports : ports[p].transport = ports[q].transport => p = q
  /\ \A p \in DOMAIN ports :
       /\ ports[p].refs = {e.name : e \in {d \in ToSet(devices) : d.port = p}}
       /\ ports[p].refs = {} => p \in interrupted \/ \E t \in Tasks : Drops(t, p)
  /\ \A e \in ToSet(devices) :
       e.port \in DOMAIN ports /\ session[e.id].transport = ports[e.port].transport
  /\ \A t \in Tasks : Works(t) =>
       /\ op[t].port \in DOMAIN ports
       /\ Drops(t, op[t].port) => ports[op[t].port].refs = {}

AddInv ==
  \A t \in Tasks : Works(t) /\ op[t].kind = "add" =>
    /\ op[t].name \notin Registered
    /\ op[t].at = "closing" => op[t].fresh
    /\ op[t].at = "opening" /\ op[t].fresh =>
         /\ ports[op[t].port].client = 0
         /\ ports[op[t].port].transport = op[t].id
    /\ op[t].at \in {"identifying", "probing"} =>
         session[op[t].id].transport = ports[op[t].port].transport

ClosedInv == closed => devices = <<>> /\ \A t \in Tasks : ~Works(t)

LeakInv == open \subseteq Managed(DOMAIN ports) \cup reopened

\* A transport that is being closed may only be open again because of a switch.
ClosingInv ==
  \A t \in Tasks : Works(t) /\ op[t].at = "closing" =>
    LET tr == ports[op[t].port].transport IN tr \in open => tr \in reopened

IInv == Types /\ LockInv /\ IdInv /\ PortInv /\ AddInv /\ ClosedInv /\ LeakInv /\ ClosingInv

-----------------------------------------------------------------------------
(* What a poll has still to ask.                                           *)

\* A target of a poll has its result or is still in the group of a port.
Accounted(o) ==
  /\ o.kind = "poll" => o.targets = o.got \cup UNION {o.group[p].todo : p \in DOMAIN o.group}
  /\ o.kind = "polled" => o.got = o.targets

PollInv == \A t \in Tasks : Accounted(op[t])

-----------------------------------------------------------------------------
(* Who uses a port's clients.                                              *)

Uses(t, p, c) ==
  \/ At(t, "add", "probing") /\ op[t].port = p /\ session[op[t].id].client = c
  \/ Switching(t) /\ op[t].port = p /\ op[t].client = c
  \/ p \in Groups(t, "asking") /\ op[t].group[p].client = c

\* The transport of a switch is one where a disposed client has been held.
OnStale(t) == op[t].kind = "switch" /\ session[op[t].id].transport \in stale

\* A client is used by one request or switch at a time, and once it is disposed only by
\* a switch.
UseInv ==
  /\ \A t, u \in Tasks, p, q \in Ports, c \in Clients :
       Uses(t, p, c) /\ Uses(u, q, c) => t = u /\ p = q
  /\ \A t \in Tasks, p \in Ports, c \in Clients : Uses(t, p, c) => c \notin retired \/ OnStale(t)

\* Whoever is to use transport tr next may do so with client c: a session, a session to
\* come, a switch or a member of a poll that has looked up its session.
Occupied(tr) == \E i \in 1..MaxAdds : session[i].transport = tr
Polled(t, p) == op[t].kind = "poll" /\ p \in DOMAIN op[t].group /\ op[t].group[p].at # "next"

Holds(tr, c) ==
  \/ \E i \in 1..MaxAdds : session[i].transport = tr /\ session[i].client = c
  \/ \E p \in DOMAIN ports : ports[p].transport = tr /\ ports[p].client = c /\ Occupied(tr)
  \/ \E t \in Tasks : op[t].kind = "switch" /\ session[op[t].id].transport = tr /\ op[t].client = c
  \/ \E t \in Tasks, p \in Ports :
       Polled(t, p) /\ session[op[t].group[p].id].transport = tr /\ op[t].group[p].client = c

\* A member of a poll has a client of its session's transport.
Current(g) ==
  /\ g.id \in 1..MaxAdds /\ session[g.id].transport # 0 /\ g.client \in Clients
  /\ Holds(session[g.id].transport, g.client)

\* Those of a transport have one client between them, but for disposed ones.
OneClient(tr) ==
  \A c, d \in Clients : Holds(tr, c) /\ Holds(tr, d) => c = d \/ c \in retired \/ d \in retired

ClientInv ==
  /\ \A tr \in (1..MaxAdds) \ stale : OneClient(tr)
  /\ \A p \in DOMAIN ports : Occupied(ports[p].transport) => ports[p].client # 0
  /\ \A t \in Tasks, p \in Ports : Polled(t, p) => Current(op[t].group[p])

\* A switch is of a balance that was registered.
SwitchInv ==
  \A t, u \in Tasks : op[t].kind = "add" /\ op[u].kind = "switch" => op[t].id # op[u].id

SInv == UseInv /\ ClientInv /\ SwitchInv

USE ManagerAssumption

-----------------------------------------------------------------------------
(* Sequences and functions.                                                *)

\* Taking an element out of a sequence in which it is once.
LEMMA RemoveFirstOnce ==
  ASSUME NEW S, NEW s \in Seq(S), IsInjective(s), NEW e \in ToSet(s)
  PROVE  /\ RemoveFirst(s, e) \in Seq(S)
         /\ IsInjective(RemoveFirst(s, e))
         /\ ToSet(RemoveFirst(s, e)) = ToSet(s) \ {e}
         /\ e # Head(s) => RemoveFirst(s, e) # <<>> /\ Head(RemoveFirst(s, e)) = Head(s)
<1>1. PICK k \in 1..Len(s) : s[k] = e
  BY DEF ToSet
<1>0. k \in Nat /\ Len(s) \in Nat /\ 1 <= k /\ k <= Len(s) /\ DOMAIN s = 1..Len(s)
  BY <1>1
<1>2. {i \in 1..Len(s) : s[i] = e} = {k}
  BY <1>1 DEF IsInjective
<1>3. SelectInSeq(s, LAMBDA v : v = e) = k
  <2>1. Min({k}) = k
    BY DEF Min
  <2> QED
    BY <1>2, <2>1 DEF SelectInSeq
<1> DEFINE r == SubSeq(s, 1, k - 1) \o SubSeq(s, k + 1, Len(s))
<1>4. RemoveFirst(s, e) = r
  BY <1>1, <1>3 DEF RemoveFirst, RemoveAt
<1>5. /\ r \in Seq(S)
      /\ Len(r) = Len(s) - 1
      /\ \A i \in 1..(Len(s) - 1) : (i < k => r[i] = s[i]) /\ (~(i < k) => r[i] = s[i + 1])
  <2> DEFINE a == SubSeq(s, 1, k - 1)
             b == SubSeq(s, k + 1, Len(s))
  <2>1. a \in Seq(S) /\ Len(a) = k - 1 /\ \A i \in 1..(k - 1) : a[i] = s[i]
    BY <1>1
  <2>2. b \in Seq(S) /\ Len(b) = Len(s) - k /\ \A i \in 1..(Len(s) - k) : b[i] = s[i + k]
    BY <1>1
  <2> HIDE DEF a, b
  <2>3. /\ a \o b \in Seq(S)
        /\ Len(a \o b) = Len(a) + Len(b)
        /\ \A i \in 1..(Len(a) + Len(b)) : (a \o b)[i] = IF i <= Len(a) THEN a[i] ELSE b[i - Len(a)]
    BY <2>1, <2>2, ConcatProperties
  <2>4. ASSUME NEW i \in 1..(Len(s) - 1)
        PROVE  (i < k => (a \o b)[i] = s[i]) /\ (~(i < k) => (a \o b)[i] = s[i + 1])
    <3>1. CASE i < k
      BY <1>0, <2>1, <2>2, <2>3, <3>1
    <3>2. CASE ~(i < k)
      <4>1. i - (k - 1) \in 1..(Len(s) - k) /\ (i - (k - 1)) + k = i + 1
        BY <1>0, <3>2
      <4>2. b[i - (k - 1)] = s[i + 1]
        BY <2>2, <4>1
      <4>3. (a \o b)[i] = b[i - (k - 1)]
        BY <1>0, <2>1, <2>2, <2>3, <3>2
      <4> QED
        BY <3>2, <4>2, <4>3
    <3> QED
      BY <3>1, <3>2
  <2>5. r = a \o b
    BY DEF a, b
  <2>6. Len(a) + Len(b) = Len(s) - 1
    BY <1>0, <2>1, <2>2
  <2> QED
    BY <2>3, <2>4, <2>5, <2>6
<1> HIDE DEF r
<1>6. DOMAIN r = 1..(Len(s) - 1)
  BY <1>5
<1>7. IsInjective(r)
  <2> SUFFICES ASSUME NEW i \in DOMAIN r, NEW j \in DOMAIN r, r[i] = r[j] PROVE i = j
    BY DEF IsInjective
  <2> DEFINE x == IF i < k THEN i ELSE i + 1
             y == IF j < k THEN j ELSE j + 1
  <2>1. x \in DOMAIN s /\ y \in DOMAIN s
    BY <1>0, <1>6
  <2>2. s[x] = s[y]
    BY <1>5, <1>6
  <2>3. x = y
    BY <2>1, <2>2 DEF IsInjective
  <2> QED
    BY <1>0, <1>6, <2>3
<1>8. ToSet(r) = ToSet(s) \ {e}
  <2>1. ASSUME NEW x \in ToSet(r) PROVE x \in ToSet(s) \ {e}
    <3>1. PICK i \in 1..(Len(s) - 1) : x = r[i]
      BY <1>5, <2>1 DEF ToSet
    <3>2. PICK j \in 1..Len(s) : x = s[j] /\ j # k
      BY <1>1, <1>5, <3>1
    <3> QED
      BY <1>1, <3>2 DEF IsInjective, ToSet
  <2>2. ASSUME NEW x \in ToSet(s) \ {e} PROVE x \in ToSet(r)
    <3>1. PICK j \in 1..Len(s) : x = s[j]
      BY DEF ToSet
    <3>2. j # k
      BY <1>1, <3>1
    <3>3. PICK i \in 1..(Len(s) - 1) : j = IF i < k THEN i ELSE i + 1
      <4>1. CASE j < k
        BY <1>1, <3>1, <4>1
      <4>2. CASE j > k
        <5>1. j - 1 \in 1..(Len(s) - 1) /\ ~(j - 1 < k) /\ j = (j - 1) + 1
          BY <1>1, <3>1, <4>2
        <5> QED
          BY <5>1
      <4> QED
        BY <1>1, <3>1, <3>2, <4>1, <4>2
    <3> QED
      BY <1>5, <1>6, <3>1, <3>3 DEF ToSet
  <2> QED
    BY <2>1, <2>2
<1>9. e # Head(s) => r # <<>> /\ Head(r) = Head(s)
  <2> SUFFICES ASSUME e # Head(s) PROVE r # <<>> /\ Head(r) = Head(s)
    OBVIOUS
  <2>1. k # 1
    BY <1>1
  <2>2. 1 \in 1..(Len(s) - 1) /\ r[1] = s[1]
    BY <1>1, <1>5, <2>1
  <2> QED
    BY <1>5, <2>2
<1> QED
  BY <1>4, <1>5, <1>7, <1>8, <1>9

\* The rest of a queue without repetitions.
LEMMA TailOnce ==
  ASSUME NEW S, NEW s \in Seq(S), IsInjective(s), s # <<>>
  PROVE  /\ Tail(s) \in Seq(S)
         /\ IsInjective(Tail(s))
         /\ ToSet(Tail(s)) = ToSet(s) \ {Head(s)}
<1>1. /\ Tail(s) \in Seq(S) /\ Len(Tail(s)) = Len(s) - 1 /\ Len(s) > 0
      /\ \A i \in 1..(Len(s) - 1) : Tail(s)[i] = s[i + 1]
  OBVIOUS
<1>2. IsInjective(Tail(s))
  BY <1>1 DEF IsInjective
<1>3. ASSUME NEW x \in ToSet(Tail(s)) PROVE x \in ToSet(s) \ {Head(s)}
  BY <1>1 DEF ToSet, IsInjective
<1>4. ASSUME NEW x \in ToSet(s) \ {Head(s)} PROVE x \in ToSet(Tail(s))
  <2>1. PICK j \in 1..Len(s) : x = s[j]
    BY DEF ToSet
  <2>2. j - 1 \in 1..(Len(s) - 1) /\ (j - 1) + 1 = j
    BY <1>1, <2>1
  <2>3. Tail(s)[j - 1] = x /\ DOMAIN Tail(s) = 1..(Len(s) - 1)
    BY <1>1, <2>1, <2>2
  <2> QED
    BY <2>2, <2>3 DEF ToSet
<1> QED
  BY <1>1, <1>2, <1>3, <1>4

LEMMA AppendOnce ==
  ASSUME NEW S, NEW s \in Seq(S), NEW e \in S
  PROVE  /\ Append(s, e) \in Seq(S)
         /\ ToSet(Append(s, e)) = ToSet(s) \cup {e}
         /\ IsInjective(s) /\ e \notin ToSet(s) => IsInjective(Append(s, e))
         /\ s # <<>> => Append(s, e) # <<>> /\ Head(Append(s, e)) = Head(s)
<1> DEFINE r == Append(s, e)
<1>1. /\ r \in Seq(S) /\ Len(r) = Len(s) + 1 /\ r[Len(s) + 1] = e
      /\ \A i \in 1..Len(s) : r[i] = s[i]
  OBVIOUS
<1> HIDE DEF r
<1>2. ToSet(r) = ToSet(s) \cup {e}
  BY <1>1 DEF ToSet
<1>3. IsInjective(s) /\ e \notin ToSet(s) => IsInjective(r)
  BY <1>1 DEF IsInjective, ToSet
<1>4. s # <<>> => r # <<>> /\ Head(r) = Head(s)
  BY <1>1
<1> QED
  BY <1>1, <1>2, <1>3, <1>4 DEF r

-----------------------------------------------------------------------------
(* Steps and their parts.                                                  *)

LEMMA DevicesTyped ==
  ASSUME DataTypes
  PROVE  \A d \in ToSet(devices) :
           d \in DeviceType /\ d.name \in Names /\ d.port \in Ports /\ d.id \in 1..MaxAdds
<1> SUFFICES ASSUME NEW d \in ToSet(devices)
             PROVE  d \in DeviceType
  BY DEF DeviceType
<1>1. PICK i \in 1..Len(devices) : d = devices[i]
  BY DEF ToSet, DataTypes
<1> QED
  BY <1>1 DEF DataTypes

LEMMA InitHolds == Init => IInv
<1> SUFFICES ASSUME Init PROVE IInv
  OBVIOUS
<1> USE DEF Init
<1>1. \A t \in Tasks : op[t] = [kind |-> "idle"] /\ op[t].kind = "idle"
  BY DEF Idle
<1>2. \A t \in Tasks : ~Locks(t) /\ ~Works(t)
  BY <1>1 DEF Locks, Works
<1>3. TaskTypes
  <2>1. ToSet(<<>>) = {} /\ IsInjective(<<>>)
    BY DEF ToSet, IsInjective
  <2>2. \A t \in Tasks : OpFits(op[t])
    BY <1>1 DEF OpFits
  <2> QED
    BY <1>2, <2>1, <2>2 DEF TaskTypes
<1>4. DOMAIN ports = {} /\ ToSet(devices) = {}
  BY DEF ToSet
<1>5. DataTypes
  <2>1. devices \in Seq(DeviceType) /\ ports = [p \in DOMAIN ports |-> ports[p]]
    OBVIOUS
  <2>2. session \in [1..MaxAdds -> [client : Clients, transport : 0..MaxAdds]]
    BY DEF Clients
  <2>3. adds \in 0..MaxAdds /\ switches \in 0..MaxSwitches
    OBVIOUS
  <2> QED
    BY <1>4, <2>1, <2>2, <2>3 DEF DataTypes
<1>6. IdInv
  BY <1>1, <1>4 DEF IdInv
<1>7. PortInv
  BY <1>2, <1>4 DEF PortInv, IsInjective
<1> QED
  BY <1>2, <1>3, <1>4, <1>5, <1>6, <1>7 DEF IInv, Types, LockInv, AddInv, ClosedInv, LeakInv, ClosingInv

\* The holder of the state lock goes on, or returns and hands the lock on.
LEMMA OwnerStep ==
  ASSUME TaskTypes, LockInv, NEW t \in Tasks, Owns(t),
         op' = [u \in Tasks |-> op'[u]], OpFits(op[t])',
         \A u \in Tasks \ {t} : op'[u] = op[u],
         \/ lock' = lock /\ Locks(t)'
         \/ lock' = Tail(lock) /\ ~Locks(t)'
  PROVE  /\ TaskTypes' /\ LockInv'
         /\ \A u \in Tasks \ {t} : ~Works(u) /\ ~Works(u)'
<1>1. \A u \in Tasks \ {t} : ~Works(u) /\ ~Works(u)' /\ (Locks(u)' <=> Locks(u))
  BY DEF LockInv, Owns, Works, Locks
<1>2. \A u \in Tasks : OpFits(op[u])'
  BY DEF TaskTypes
<1>3. CASE lock' = lock /\ Locks(t)'
  <2>1. Locks(t)
    BY DEF Owns, TaskTypes, ToSet
  <2>2. {u \in Tasks : Locks(u)}' = {u \in Tasks : Locks(u)}
    BY <1>1, <1>3, <2>1
  <2> QED
    BY <1>1, <1>2, <1>3, <2>2 DEF TaskTypes, LockInv, Owns
<1>4. CASE lock' = Tail(lock) /\ ~Locks(t)'
  <2>1. /\ Tail(lock) \in Seq(Tasks) /\ IsInjective(Tail(lock))
        /\ ToSet(Tail(lock)) = ToSet(lock) \ {t}
    BY TailOnce DEF TaskTypes, Owns
  <2>2. {u \in Tasks : Locks(u)}' = {u \in Tasks : Locks(u)} \ {t}
    BY <1>1, <1>4
  <2>3. ~Works(t)'
    BY <1>4 DEF Works, Locks
  <2> QED
    BY <1>1, <1>2, <1>4, <2>1, <2>2, <2>3 DEF TaskTypes, LockInv
<1> QED
  BY <1>1, <1>3, <1>4

\* A task joins the queue of the state lock.
LEMMA EnterStep ==
  ASSUME TaskTypes, LockInv, NEW t \in Tasks, ~Locks(t),
         op' = [u \in Tasks |-> op'[u]], OpFits(op[t])',
         \A u \in Tasks \ {t} : op'[u] = op[u],
         Locks(t)', ~Works(t)', lock' = Append(lock, t)
  PROVE  /\ TaskTypes' /\ LockInv'
         /\ \A u \in Tasks : (Works(u) => op'[u] = op[u]) /\ (Works(u)' => Works(u))
<1>1. \A u \in Tasks \ {t} : (Works(u)' <=> Works(u)) /\ (Locks(u)' <=> Locks(u))
  BY DEF Works, Locks
<1>2. \A u \in Tasks : OpFits(op[u])'
  BY DEF TaskTypes
<1>3. t \notin ToSet(lock)
  BY DEF TaskTypes
<1>4. /\ lock' \in Seq(Tasks) /\ IsInjective(lock') /\ ToSet(lock') = ToSet(lock) \cup {t}
      /\ lock # <<>> => lock' # <<>> /\ Head(lock') = Head(lock)
  BY <1>3, AppendOnce DEF TaskTypes
<1>5. {u \in Tasks : Locks(u)}' = {u \in Tasks : Locks(u)} \cup {t}
  BY <1>1
<1>6. ~Works(t)
  BY DEF Works
<1> QED
  BY <1>1, <1>2, <1>4, <1>5, <1>6 DEF TaskTypes, LockInv, Owns

\* A step under no state lock.
LEMMA AsideStep ==
  ASSUME TaskTypes, LockInv, NEW t \in Tasks, ~Locks(t), ~Locks(t)',
         op' = [u \in Tasks |-> op'[u]], OpFits(op[t])',
         \A u \in Tasks \ {t} : op'[u] = op[u],
         UNCHANGED lock
  PROVE  /\ TaskTypes' /\ LockInv'
         /\ \A u \in Tasks : (Works(u) => op'[u] = op[u]) /\ (Works(u)' => Works(u))
<1>1. \A u \in Tasks : (Works(u)' <=> Works(u)) /\ (Locks(u)' <=> Locks(u))
  BY DEF Works, Locks
<1>2. \A u \in Tasks : OpFits(op[u])'
  BY DEF TaskTypes
<1>3. {u \in Tasks : Locks(u)}' = {u \in Tasks : Locks(u)}
  BY <1>1
<1>4. ~Works(t)
  BY DEF Works
<1> QED
  BY <1>1, <1>2, <1>3, <1>4 DEF TaskTypes, LockInv, Owns

\* The registry agrees as before when neither it nor a call at work on it moves.
LEMMA RegistryKept ==
  ASSUME PortInv, AddInv, ClosedInv, ClosingInv, UNCHANGED <<devices, ports, closed, interrupted>>,
         \A x \in open' : x \in open \cup reopened' \cup Managed(Referenced), reopened \subseteq reopened',
         \A i \in 1..MaxAdds : session'[i].transport = session[i].transport,
         DataTypes, TaskTypes,
         \A u \in Tasks : (Works(u) => op'[u] = op[u]) /\ (Works(u)' => Works(u))
  PROVE  PortInv' /\ AddInv' /\ ClosedInv' /\ ClosingInv'
<1>1. \A u \in Tasks : Works(u)' <=> Works(u)
  BY DEF Works, Locks
<1>2. \A u \in Tasks, p \in Ports : Drops(u, p)' <=> Drops(u, p)
  BY <1>1 DEF Drops
<1>3. \A d \in ToSet(devices) : d.id \in 1..MaxAdds
  BY DevicesTyped
<1>4. PortInv'
  BY <1>1, <1>2, <1>3 DEF PortInv, DataTypes, Drops
<1>5. \A u \in Tasks : Works(u) /\ op[u].kind = "add" => op[u].id \in 1..MaxAdds
  BY DEF TaskTypes, OpFits, AddType
<1>6. AddInv'
  BY <1>1, <1>5 DEF AddInv, Registered
<1>7. ClosedInv'
  BY <1>1 DEF ClosedInv
<1>8. ClosingInv'
  <2> SUFFICES ASSUME NEW u \in Tasks, Works(u), op[u].at = "closing",
                      ports[op[u].port].transport \in open'
               PROVE  ports[op[u].port].transport \in reopened'
    BY <1>1 DEF ClosingInv
  <2> DEFINE p == op[u].port
  <2>1. Drops(u, p) /\ p \in DOMAIN ports /\ ports[p].refs = {}
    BY DEF Drops, AddInv, PortInv
  <2>2. ports[p].transport \notin Managed(Referenced)
    BY <2>1 DEF Managed, Referenced, PortInv
  <2> QED
    BY <2>2 DEF ClosingInv
<1> QED
  BY <1>4, <1>6, <1>7, <1>8

LEMMA IdsKept ==
  ASSUME IdInv, TaskTypes, DataTypes, UNCHANGED <<devices, ports, adds>>,
         \A i \in 1..MaxAdds : session'[i].transport = session[i].transport,
         open' \subseteq open \cup {session[i].transport : i \in 1..MaxAdds}, 0 \notin open',
         \A u \in Tasks : op'[u].kind = "add" => op'[u] = op[u],
         \A u \in Tasks : op'[u].kind = "switch" =>
            op'[u].id \in 1..MaxAdds /\ session[op'[u].id].transport # 0
  PROVE  IdInv'
<1>1. \A u \in Tasks : op[u].kind = "add" => op[u].id \in 1..MaxAdds
  BY DEF TaskTypes, OpFits, AddType
<1>2. \A i \in 1..MaxAdds, p \in Ports : Untouched(i, p) => Untouched(i, p)'
  BY DEF Untouched
<1>3. open' \subseteq 1..adds
  BY DEF IdInv, DataTypes
<1>4. \A t \in Tasks : op[t].kind = "add" => op[t].port \in Ports
  BY DEF TaskTypes, OpFits, AddType
<1>5. ASSUME NEW t \in Tasks, op'[t].kind = "add"
      PROVE  /\ op[t].id <= adds
             /\ \A d \in ToSet(devices) : d.id # op[t].id
             /\ \A u \in Tasks : op'[u].kind = "add" /\ op'[u].id = op[t].id => u = t
             /\ op[t].at \in {"queued", "opening"} => session'[op[t].id].transport = 0
             /\ op[t].at = "queued" => \A p \in DOMAIN ports : ports[p].transport # op[t].id
             /\ op[t].at \in {"queued", "opening"} => Untouched(op[t].id, op[t].port)'
  <2>1. op[t].kind = "add" /\ op'[t] = op[t] /\ op[t].id \in 1..MaxAdds /\ op[t].port \in Ports
    BY <1>1, <1>4, <1>5
  <2>2. op[t].at \in {"queued", "opening"} => Untouched(op[t].id, op[t].port)'
    BY <1>2, <2>1 DEF IdInv
  <2>3. op[t].at \in {"queued", "opening"} => session'[op[t].id].transport = 0
    BY <2>1 DEF IdInv
  <2> QED
    BY <2>1, <2>2, <2>3 DEF IdInv
<1>6. \A t \in Tasks : op'[t].kind = "switch" => session'[op'[t].id].transport # 0
  OBVIOUS
<1>7. /\ \A d \in ToSet(devices) : d.id <= adds
      /\ \A p \in DOMAIN ports : ports[p].transport <= adds
      /\ \A i \in 1..MaxAdds : session'[i].transport <= adds /\ (i > adds => session'[i].transport = 0)
  BY DEF IdInv
<1> QED
  BY <1>3, <1>5, <1>6, <1>7 DEF IdInv

-----------------------------------------------------------------------------
(* Calls begin, or are refused.                                            *)

LEMMA CallAddKeeps == ASSUME IInv, NEW t \in Tasks, CallAdd(t) PROVE IInv'
<1> USE DEF IInv, Types
<1>1. PICK n \in Names, p \in Ports, i \in BOOLEAN :
        Enter(t, [kind |-> "add", at |-> "queued", name |-> n, port |-> p,
                  id |-> adds + 1, identify |-> i, fresh |-> FALSE])
  BY DEF CallAdd
<1> DEFINE call == [kind |-> "add", at |-> "queued", name |-> n, port |-> p,
                    id |-> adds + 1, identify |-> i, fresh |-> FALSE]
<1>2. /\ adds \in Nat /\ adds + 1 \in 1..MaxAdds /\ adds' = adds + 1
      /\ UNCHANGED <<devices, ports, closed, session, retired, open, switches, interrupted, reopened>>
  BY <1>1 DEF CallAdd, Enter, DataTypes, registry, ghosts
<1>3. /\ op[t].kind \in {"idle", "polled", "crashed"}
      /\ op' = [op EXCEPT ![t] = call] /\ lock' = Append(lock, t)
  BY <1>1 DEF Enter, Free
<1>4. call \in AddType /\ call.kind = "add" /\ call.at = "queued" /\ call.id = adds + 1 /\ call.port = p
  BY <1>2 DEF AddType
<1> HIDE DEF call
<1>5. op'[t] = call /\ (\A u \in Tasks \ {t} : op'[u] = op[u]) /\ op' = [u \in Tasks |-> op'[u]]
  BY <1>3 DEF TaskTypes
<1>6. ~Locks(t) /\ Locks(t)' /\ ~Works(t)' /\ OpFits(op[t])'
  BY <1>3, <1>4, <1>5 DEF Locks, Works, OpFits
<1>7. /\ TaskTypes' /\ LockInv'
      /\ \A u \in Tasks : (Works(u) => op'[u] = op[u]) /\ (Works(u)' => Works(u))
  BY <1>3, <1>5, <1>6, EnterStep
<1>8. PortInv' /\ AddInv' /\ ClosedInv' /\ ClosingInv'
  BY <1>2, <1>7, RegistryKept
<1>9. DataTypes'
  BY <1>2 DEF DataTypes
<1>10. LeakInv'
  BY <1>2 DEF LeakInv, Managed
<1>11. PICK k \in 1..MaxAdds : k = adds + 1
  BY <1>2
<1>12. \A u \in Tasks : op[u].kind = "add" => op[u].id \in 1..MaxAdds /\ op[u].id <= adds /\ op[u].port \in Ports
  BY DEF TaskTypes, OpFits, AddType, IdInv
<1>13. IdInv'
  <2>1. \A d \in ToSet(devices) : d.id <= adds /\ d.id \in 1..MaxAdds
    BY DevicesTyped DEF IdInv
  <2>2. ASSUME NEW u \in Tasks, op'[u].kind = "add"
        PROVE  /\ op'[u].id <= adds'
               /\ \A d \in ToSet(devices) : d.id # op'[u].id
               /\ \A v \in Tasks : op'[v].kind = "add" /\ op'[v].id = op'[u].id => v = u
               /\ op'[u].at \in {"queued", "opening"} => session[op'[u].id].transport = 0
               /\ op'[u].at = "queued" => \A q \in DOMAIN ports : ports[q].transport # op'[u].id
               /\ op'[u].at \in {"queued", "opening"} => Untouched(op[u].id, op[u].port)'
    <3>1. CASE u = t
      <4>1. /\ session[k].transport = 0 /\ k \notin open
            /\ \A j \in 1..MaxAdds : session[j].transport # k
            /\ \A q \in DOMAIN ports : ports[q].transport # k
        BY <1>2, <1>11 DEF IdInv, DataTypes, PortType
      <4>2. op'[u].id = k /\ op'[u].port = p
        BY <1>4, <1>5, <1>11, <3>1
      <4>3. Untouched(op[u].id, op[u].port)'
        BY <1>2, <4>1, <4>2 DEF Untouched
      <4>4. \A v \in Tasks : op'[v].kind = "add" /\ op'[v].id = k => v = u
        BY <1>2, <1>5, <1>11, <1>12, <3>1
      <4>5. \A d \in ToSet(devices) : d.id # k
        BY <1>2, <1>11, <2>1
      <4> QED
        BY <1>2, <1>11, <4>1, <4>2, <4>3, <4>4, <4>5
    <3>2. CASE u # t
      <4>1. op'[u] = op[u] /\ op[u].kind = "add"
        BY <1>5, <3>2, <2>2
      <4>2. op[u].at \in {"queued", "opening"} => Untouched(op[u].id, op[u].port)'
        BY <1>2, <4>1 DEF Untouched, IdInv
      <4>3. /\ op[u].id <= adds /\ op[u].id \in 1..MaxAdds
            /\ \A d \in ToSet(devices) : d.id # op[u].id
            /\ op[u].at \in {"queued", "opening"} => session[op[u].id].transport = 0
            /\ op[u].at = "queued" => \A q \in DOMAIN ports : ports[q].transport # op[u].id
        BY <1>12, <4>1 DEF IdInv
      <4>4. \A v \in Tasks : op'[v].kind = "add" /\ op'[v].id = op[u].id => v = u
        <5>1. op'[t].id # op[u].id
          BY <1>2, <1>4, <1>5, <4>3
        <5> QED
          BY <1>5, <4>1, <5>1 DEF IdInv
      <4> QED
        BY <1>2, <4>1, <4>2, <4>3, <4>4
    <3> QED
      BY <3>1, <3>2
  <2>3. /\ open \subseteq 1..(adds + 1)
        /\ \A q \in DOMAIN ports : ports[q].transport <= adds + 1
        /\ \A j \in 1..MaxAdds : session[j].transport <= adds + 1 /\ (j > adds + 1 => session[j].transport = 0)
    BY <1>2 DEF IdInv, DataTypes, PortType
  <2>4. \A u \in Tasks : op'[u].kind = "switch" => session[op'[u].id].transport # 0
    BY <1>4, <1>5 DEF IdInv
  <2> QED
    BY <1>2, <2>1, <2>2, <2>3, <2>4 DEF IdInv
<1> QED
  BY <1>7, <1>8, <1>9, <1>10, <1>13

\* remove and close join the queue; nothing else changes.
LEMMA EnterKeeps ==
  ASSUME IInv, NEW t \in Tasks, NEW call, Enter(t, call), UNCHANGED adds, OpFits(call),
         call.kind \in {"remove", "close"}, call.at = "queued"
  PROVE  IInv'
<1> USE DEF IInv, Types
<1>1. UNCHANGED <<devices, ports, closed, session, retired, open, adds, switches, interrupted, reopened>>
  BY DEF Enter, registry, ghosts
<1>2. /\ op[t].kind \in {"idle", "polled", "crashed"}
      /\ op' = [op EXCEPT ![t] = call] /\ lock' = Append(lock, t)
  BY DEF Enter, Free
<1>3. op'[t] = call /\ (\A u \in Tasks \ {t} : op'[u] = op[u]) /\ op' = [u \in Tasks |-> op'[u]]
  BY <1>2 DEF TaskTypes
<1>4. ~Locks(t) /\ Locks(t)' /\ ~Works(t)' /\ OpFits(op[t])'
  BY <1>2, <1>3 DEF Locks, Works
<1>5. /\ TaskTypes' /\ LockInv'
      /\ \A u \in Tasks : (Works(u) => op'[u] = op[u]) /\ (Works(u)' => Works(u))
  BY <1>2, <1>3, <1>4, EnterStep
<1>6. PortInv' /\ AddInv' /\ ClosedInv' /\ ClosingInv'
  BY <1>1, <1>5, RegistryKept
<1>7. DataTypes'
  BY <1>1 DEF DataTypes
<1>8. LeakInv'
  BY <1>1 DEF LeakInv, Managed
<1>9. \A u \in Tasks : op'[u].kind \in {"add", "switch"} => op'[u] = op[u]
  BY <1>3
<1>10. \A u \in Tasks : op[u].kind = "switch" => op[u].id \in 1..MaxAdds /\ session[op[u].id].transport # 0
  BY DEF TaskTypes, OpFits, SwitchType, IdInv
<1>11. IdInv'
  <2>1. \A u \in Tasks : op'[u].kind = "switch" => op'[u].id \in 1..MaxAdds /\ session[op'[u].id].transport # 0
    BY <1>9, <1>10
  <2>2. 0 \notin open' /\ open' \subseteq open \cup {session[i].transport : i \in 1..MaxAdds}
    BY <1>1 DEF DataTypes
  <2> QED
    BY <1>1, <1>9, <2>1, <2>2, IdsKept
<1> QED
  BY <1>5, <1>6, <1>7, <1>8, <1>11

LEMMA CallsKeep == ASSUME IInv, NEW t \in Tasks, CallRemove(t) \/ CallClose(t) PROVE IInv'
<1>1. CASE CallRemove(t)
  <2>1. PICK n \in Names : Enter(t, [kind |-> "remove", at |-> "queued", name |-> n]) /\ UNCHANGED adds
    BY <1>1 DEF CallRemove
  <2>2. OpFits([kind |-> "remove", at |-> "queued", name |-> n])
    BY DEF OpFits, RemoveType
  <2> QED
    BY <2>1, <2>2, EnterKeeps
<1>2. CASE CallClose(t)
  <2>1. OpFits([kind |-> "close", at |-> "queued"])
    BY DEF OpFits, CloseType
  <2> QED
    BY <1>2, <2>1, EnterKeeps DEF CallClose
<1> QED
  BY <1>1, <1>2

\* A call that ends without having touched the registry.
LEMMA RefusalKeeps ==
  ASSUME IInv, NEW t \in Tasks, Owns(t), Locks(t), op[t].at = "queued", Done(t),
         UNCHANGED <<devices, ports, closed, session, retired, open, adds, switches, interrupted, reopened>>
  PROVE  IInv'
<1> USE DEF IInv, Types
<1>1. /\ op' = [op EXCEPT ![t] = Idle] /\ lock' = Tail(lock)
      /\ op'[t].kind = "idle" /\ (\A u \in Tasks \ {t} : op'[u] = op[u]) /\ op' = [u \in Tasks |-> op'[u]]
  BY DEF Done, Idle, TaskTypes
<1>2. ~Locks(t)' /\ OpFits(op[t])' /\ ~Works(t) /\ ~Works(t)'
  BY <1>1 DEF Locks, OpFits, Works
<1>3. /\ TaskTypes' /\ LockInv' /\ \A u \in Tasks \ {t} : ~Works(u) /\ ~Works(u)'
  BY <1>1, <1>2, OwnerStep
<1>4. PortInv' /\ AddInv' /\ ClosedInv' /\ ClosingInv'
  BY <1>2, <1>3, RegistryKept
<1>5. DataTypes'
  BY DEF DataTypes
<1>6. LeakInv'
  BY DEF LeakInv, Managed
<1>7. \A u \in Tasks : op'[u].kind \in {"add", "switch"} => op'[u] = op[u]
  BY <1>1
<1>8. \A u \in Tasks : op[u].kind = "switch" => op[u].id \in 1..MaxAdds /\ session[op[u].id].transport # 0
  BY DEF TaskTypes, OpFits, SwitchType, IdInv
<1>9. 0 \notin open'
  BY DEF DataTypes
<1>10. /\ \A u \in Tasks : op'[u].kind = "add" => op'[u] = op[u]
       /\ \A u \in Tasks : op'[u].kind = "switch" => op'[u].id \in 1..MaxAdds /\ session[op'[u].id].transport # 0
  BY <1>7, <1>8
<1>11. IdInv'
  BY <1>9, <1>10, IdsKept
<1> QED
  BY <1>3, <1>4, <1>5, <1>6, <1>11

-----------------------------------------------------------------------------
(* Polls and switches, which take no state lock.                           *)

LEMMA AsideKeeps ==
  ASSUME IInv, NEW t \in Tasks, ~Locks(t), ~Locks(t)', NEW o, op' = [op EXCEPT ![t] = o], OpFits(o),
         o.kind = "switch" => o.id \in 1..MaxAdds /\ session[o.id].transport # 0,
         UNCHANGED <<lock, devices, ports, closed, adds, interrupted>>,
         DataTypes', LeakInv',
         \A i \in 1..MaxAdds : session'[i].transport = session[i].transport,
         open' \subseteq open \cup {session[i].transport : i \in 1..MaxAdds},
         \A x \in open' : x \in open \cup reopened' \cup Managed(Referenced), reopened \subseteq reopened'
  PROVE  IInv'
<1> USE DEF IInv, Types
<1>1. op'[t] = o /\ (\A u \in Tasks \ {t} : op'[u] = op[u]) /\ op' = [u \in Tasks |-> op'[u]]
  BY DEF TaskTypes
<1>2. OpFits(op[t])'
  BY <1>1
<1>3. /\ TaskTypes' /\ LockInv'
      /\ \A u \in Tasks : (Works(u) => op'[u] = op[u]) /\ (Works(u)' => Works(u))
  BY <1>1, <1>2, AsideStep
<1>4. PortInv' /\ AddInv' /\ ClosedInv' /\ ClosingInv'
  BY <1>3, RegistryKept
<1>5. \A u \in Tasks : op'[u].kind = "add" => op'[u] = op[u]
  BY <1>1 DEF Locks
<1>6. \A u \in Tasks : op[u].kind = "switch" => op[u].id \in 1..MaxAdds /\ session[op[u].id].transport # 0
  BY DEF TaskTypes, OpFits, SwitchType, IdInv
<1>7. \A u \in Tasks : op'[u].kind = "switch" => op'[u].id \in 1..MaxAdds /\ session[op'[u].id].transport # 0
  BY <1>1, <1>6
<1>8. IdInv'
  BY <1>5, <1>7, IdsKept DEF DataTypes
<1> QED
  BY <1>3, <1>4, <1>8

\* A registered balance is one of the devices, under its name.
LEMMA EntryOf ==
  ASSUME DataTypes, NEW n \in Registered
  PROVE  /\ Entry(n) \in ToSet(devices) /\ Entry(n).name = n
         /\ Entry(n) \in DeviceType /\ Entry(n).port \in Ports /\ Entry(n).id \in 1..MaxAdds
<1>1. \E e \in ToSet(devices) : e.name = n
  BY DEF Registered
<1>2. Entry(n) \in ToSet(devices) /\ Entry(n).name = n
  BY <1>1 DEF Entry
<1> QED
  BY <1>2, DevicesTyped

\* A step of a poll leaves all but the poll alone.
LEMMA PollStepKeeps ==
  ASSUME IInv, NEW t \in Tasks, ~Locks(t), NEW o, op' = [op EXCEPT ![t] = o], OpFits(o),
         o.kind \in {"poll", "polled", "crashed"},
         UNCHANGED <<lock, registry, session, retired, open, bounds, ghosts>>
  PROVE  IInv'
<1>1. op'[t] = o /\ ~Locks(t)'
  BY DEF IInv, Types, TaskTypes, Locks
<1>2. UNCHANGED <<lock, devices, ports, closed, session, retired, open, adds, switches,
                  interrupted, reopened>>
  BY DEF registry, bounds, ghosts
<1>3. DataTypes' /\ LeakInv'
  BY <1>2 DEF IInv, Types, DataTypes, LeakInv, Managed
<1> QED
  BY <1>1, <1>2, <1>3, AsideKeeps

\* The poll o with a new entry g for the group of p.
Moved(o, p, g, got) == [o EXCEPT !.got = got, !.group = [o.group EXCEPT ![p] = g]]

LEMMA GroupStep ==
  ASSUME NEW o, NEW p, NEW g, NEW got,
         o.kind = "poll", PollFits(o), p \in DOMAIN o.group, GroupFits(g)
  PROVE  /\ OpFits(Moved(o, p, g, got))
         /\ Moved(o, p, g, got).kind = "poll"
<1> DEFINE c == Moved(o, p, g, got)
<1>1. /\ c = [x \in DOMAIN c |-> c[x]] /\ DOMAIN c = {"kind", "targets", "got", "group"}
      /\ c.kind = "poll" /\ c.group = [o.group EXCEPT ![p] = g]
  BY DEF PollFits, Moved
<1> HIDE DEF c
<1>2. PollFits(c)
  BY <1>1 DEF PollFits
<1>3. OpFits(c)
  BY <1>1, <1>2 DEF OpFits
<1> QED
  BY <1>1, <1>3 DEF c

LEMMA PollKeeps == ASSUME IInv, NEW t \in Tasks, Poll(t) PROVE IInv'
<1>1. PICK targets \in SUBSET Registered \ {{}} :
        op' = [op EXCEPT ![t] =
          [kind |-> "poll", targets |-> targets, got |-> {},
           group |-> [p \in {Entry(n).port : n \in targets} |->
              [at |-> "next", name |-> "none", id |-> 0, client |-> 0,
               todo |-> {n \in targets : Entry(n).port = p}]]]]
  BY DEF Poll
<1> DEFINE todo(p) == {n \in targets : Entry(n).port = p}
           named == {Entry(n).port : n \in targets}
<1>2. named \subseteq Ports
  BY EntryOf DEF IInv, Types
<1> HIDE DEF todo, named
<1> DEFINE group == [p \in named |-> [at |-> "next", name |-> "none", id |-> 0, client |-> 0, todo |-> todo(p)]]
           o == [kind |-> "poll", targets |-> targets, got |-> {}, group |-> group]
<1>3. op' = [op EXCEPT ![t] = o]
  BY <1>1 DEF todo, named
<1>4. \A p \in named : GroupFits(group[p])
  <2> SUFFICES ASSUME NEW p \in named PROVE GroupFits(group[p])
    OBVIOUS
  <2>1. group[p] = [at |-> "next", name |-> "none", id |-> 0, client |-> 0, todo |-> todo(p)]
    OBVIOUS
  <2> HIDE DEF group
  <2> QED
    BY <2>1 DEF GroupFits
<1>5. DOMAIN group = named /\ group = [p \in named |-> group[p]]
  OBVIOUS
<1> HIDE DEF group
<1>6. PollFits(o)
  BY <1>2, <1>4, <1>5 DEF PollFits
<1>7. OpFits(o) /\ o.kind = "poll"
  BY <1>6 DEF OpFits
<1> HIDE DEF o
<1>8. ~Locks(t)
  BY DEF Poll, Free, Locks
<1> QED
  BY <1>3, <1>7, <1>8, PollStepKeeps DEF Poll

LEMMA ResultKeeps ==
  ASSUME IInv, NEW t \in Tasks, NEW p \in Ports, NEW n, Turn(t, p, n), NEW rest, ResultOf(t, p, n, rest)
  PROVE  IInv'
<1> DEFINE got == op[t].got \cup {n}
           g == [op[t].group[p] EXCEPT !.at = "next", !.todo = rest]
           done == [kind |-> "polled", targets |-> op[t].targets, got |-> got]
           more == Moved(op[t], p, g, got)
<1>1. op[t].kind = "poll" /\ PollFits(op[t]) /\ p \in DOMAIN op[t].group /\ GroupFits(op[t].group[p])
  BY DEF Turn, IInv, Types, TaskTypes, OpFits, PollFits
<1>2. GroupFits(g)
  BY <1>1 DEF GroupFits
<1> HIDE DEF got, g
<1>3. OpFits(more) /\ more.kind = "poll"
  BY <1>1, <1>2, GroupStep
<1>4. OpFits(done) /\ done.kind = "polled"
  BY DEF OpFits
<1>5. op' = [op EXCEPT ![t] = done] \/ op' = [op EXCEPT ![t] = more]
  BY DEF ResultOf, Moved, got, g
<1> HIDE DEF done, more
<1>6. ~Locks(t) /\ UNCHANGED <<lock, registry, session, retired, open, bounds, ghosts>>
  BY <1>1 DEF Locks, ResultOf
<1> QED
  BY <1>3, <1>4, <1>5, <1>6, PollStepKeeps

\* A dispatch changes its own call and nothing else.
LEMMA DispatchStep ==
  ASSUME NEW t \in Tasks, Dispatch(t)
  PROVE  /\ UNCHANGED <<lock, registry, session, retired, open, bounds, ghosts>>
         /\ \E o : op' = [op EXCEPT ![t] = o]
<1>1. CASE Poll(t)
  BY <1>1 DEF Poll
<1>2. ASSUME NEW p, NEW n, LooksUp(t, p, n) \/ LookupFails(t, p, n)
      PROVE  /\ UNCHANGED <<lock, registry, session, retired, open, bounds, ghosts>>
             /\ \E o : op' = [op EXCEPT ![t] = o]
  BY <1>2 DEF LooksUp, LookupFails
<1>3. ASSUME NEW p, NEW n, Asks(t, p, n)
      PROVE  /\ UNCHANGED <<lock, registry, session, retired, open, bounds, ghosts>>
             /\ \E o : op' = [op EXCEPT ![t] = o]
  BY <1>3 DEF Asks
<1>4. ASSUME NEW p, NEW n, Refused(t, p, n) \/ Answered(t, p, n)
      PROVE  /\ UNCHANGED <<lock, registry, session, retired, open, bounds, ghosts>>
             /\ \E o : op' = [op EXCEPT ![t] = o]
  BY <1>4 DEF Refused, Answered, Result, ResultOf
<1> QED
  BY <1>1, <1>2, <1>3, <1>4 DEF Dispatch

LEMMA DispatchKeeps == ASSUME IInv, NEW t \in Tasks, Dispatch(t) PROVE IInv'
<1>1. CASE Poll(t)
  BY <1>1, PollKeeps
<1>2. ASSUME NEW p \in Ports, NEW n, Turn(t, p, n)
      PROVE  /\ op[t].kind = "poll" /\ PollFits(op[t]) /\ p \in DOMAIN op[t].group
             /\ GroupFits(op[t].group[p]) /\ ~Locks(t)
  BY <1>2 DEF Turn, IInv, Types, TaskTypes, OpFits, PollFits, Locks
<1>3. ASSUME NEW p \in Ports, NEW n, LooksUp(t, p, n) PROVE IInv'
  <2> DEFINE e == Entry(n)
             g == [op[t].group[p] EXCEPT !.at = "waiting", !.name = n, !.id = e.id, !.client = session[e.id].client]
             o == Moved(op[t], p, g, op[t].got)
  <2>1. Turn(t, p, n) /\ n \in Registered
    BY <1>3 DEF LooksUp
  <2>2. e.id \in 0..MaxAdds
    BY <2>1, EntryOf DEF IInv, Types
  <2> HIDE DEF e
  <2>3. GroupFits(g)
    BY <1>2, <2>1, <2>2 DEF GroupFits
  <2>4. op' = [op EXCEPT ![t].group[p] = g]
    BY <1>3 DEF LooksUp, e
  <2> HIDE DEF g
  <2>5. OpFits(o) /\ o.kind = "poll"
    BY <1>2, <2>1, <2>3, GroupStep
  <2>6. op' = [op EXCEPT ![t] = o]
    BY <1>2, <2>1, <2>4 DEF PollFits, Moved, IInv, Types, TaskTypes
  <2> HIDE DEF o
  <2> QED
    BY <1>2, <1>3, <2>1, <2>5, <2>6, PollStepKeeps DEF LooksUp
<1>4. ASSUME NEW p \in Ports, NEW n, LookupFails(t, p, n) PROVE IInv'
  <2>1. OpFits([kind |-> "crashed", missing |-> n])
    BY DEF OpFits
  <2> QED
    BY <1>2, <1>4, <2>1, PollStepKeeps DEF LookupFails
<1>5. ASSUME NEW p \in Ports, NEW n, Asks(t, p, n) PROVE IInv'
  <2> DEFINE g == [op[t].group[p] EXCEPT !.at = "asking"]
             o == Moved(op[t], p, g, op[t].got)
  <2>1. Turn(t, p, n) /\ op' = [op EXCEPT ![t].group[p].at = "asking"]
    BY <1>5 DEF Asks
  <2>2. GroupFits(g)
    BY <1>2, <2>1 DEF GroupFits
  <2>3. op' = [op EXCEPT ![t] = o]
    BY <1>2, <2>1 DEF PollFits, Moved, IInv, Types, TaskTypes
  <2> HIDE DEF g
  <2>4. OpFits(o) /\ o.kind = "poll"
    BY <1>2, <2>1, <2>2, GroupStep
  <2> HIDE DEF o
  <2> QED
    BY <1>2, <1>5, <2>1, <2>3, <2>4, PollStepKeeps DEF Asks
<1>6. ASSUME NEW p \in Ports, NEW n, Refused(t, p, n) \/ Answered(t, p, n) PROVE IInv'
  BY <1>6, ResultKeeps DEF Refused, Answered, Result
<1> QED
  BY <1>1, <1>3, <1>4, <1>5, <1>6 DEF Dispatch

LEMMA ConfigureKeeps == ASSUME IInv, NEW t \in Tasks, Configure(t) PROVE IInv'
<1> DEFINE tr == session[op[t].id].transport
<1>1. CASE Switch(t)
  <2>1. PICK e \in ToSet(devices) :
          op' = [op EXCEPT ![t] = [kind |-> "switch", at |-> "waiting", port |-> e.port, id |-> e.id,
                                   client |-> session[e.id].client, new |-> MaxAdds + switches + 1]]
    BY <1>1 DEF Switch
  <2> DEFINE o == [kind |-> "switch", at |-> "waiting", port |-> e.port, id |-> e.id,
                   client |-> session[e.id].client, new |-> MaxAdds + switches + 1]
  <2>2. e.port \in Ports /\ e.id \in 1..MaxAdds /\ switches \in 0..MaxSwitches /\ switches < MaxSwitches
    BY <1>1, DevicesTyped DEF Switch, IInv, Types, DataTypes
  <2>3. session[e.id].transport # 0
    <3>1. e.port \in DOMAIN ports /\ session[e.id].transport = ports[e.port].transport
      BY DEF IInv, PortInv
    <3> QED
      BY <3>1 DEF IInv, Types, DataTypes, PortType
  <2>4. session[e.id].client \in Clients \ {0} /\ MaxAdds + switches + 1 \in Clients \ {0}
    BY <2>2, <2>3 DEF Clients, IInv, Types, DataTypes
  <2>5. OpFits(o)
    BY <2>2, <2>4 DEF OpFits, SwitchType
  <2>6. UNCHANGED <<lock, devices, ports, closed, session, retired, open, adds, interrupted, reopened>>
        /\ switches' = switches + 1
    BY <1>1 DEF Switch, registry, ghosts
  <2>7. DataTypes' /\ LeakInv'
    BY <2>2, <2>6 DEF IInv, Types, DataTypes, LeakInv, Managed
  <2>8. ~Locks(t) /\ ~Locks(t)'
    BY <1>1, <2>1 DEF Switch, Free, Locks, IInv, Types, TaskTypes
  <2>9. op' = [op EXCEPT ![t] = o] /\ o.kind = "switch" /\ o.id = e.id
    BY <2>1
  <2> HIDE DEF o
  <2> QED
    BY <2>2, <2>3, <2>5, <2>6, <2>7, <2>8, <2>9, AsideKeeps
<1>2. ASSUME op[t].kind = "switch"
      PROVE  /\ op[t] \in SwitchType /\ op[t].id \in 1..MaxAdds /\ tr # 0 /\ tr \in 1..MaxAdds
             /\ op[t].client \in Clients \ {0} /\ op[t].new \in Clients \ {0} /\ ~Locks(t)
  BY <1>2 DEF IInv, Types, TaskTypes, DataTypes, OpFits, SwitchType, IdInv, Locks
<1>3. ASSUME NEW x \in {"reopening", "verifying"}, op[t].kind = "switch", op' = [op EXCEPT ![t].at = x]
      PROVE  \E o : /\ op' = [op EXCEPT ![t] = o] /\ OpFits(o) /\ o.kind = "switch" /\ o.id = op[t].id
                    /\ ~Locks(t)'
  <2> DEFINE o == [op[t] EXCEPT !.at = x]
  <2>1. o \in SwitchType /\ o.kind = "switch" /\ o.id = op[t].id
    BY <1>2, <1>3 DEF SwitchType
  <2>2. OpFits(o)
    BY <2>1 DEF OpFits
  <2>3. op' = [op EXCEPT ![t] = o] /\ op'[t] = o
    BY <1>3 DEF IInv, Types, TaskTypes
  <2> QED
    BY <2>1, <2>2, <2>3 DEF Locks
<1>4. OpFits(Idle) /\ Idle.kind = "idle"
  BY DEF OpFits, Idle
<1>5. CASE SwitchStarts(t)
  <2>1. op[t].kind = "switch" /\ op' = [op EXCEPT ![t].at = "reopening"] /\ open' = open \ {tr}
        /\ UNCHANGED <<lock, devices, ports, closed, session, retired, adds, switches, interrupted, reopened>>
    BY <1>5 DEF SwitchStarts, At, registry, bounds, ghosts
  <2>2. DataTypes' /\ LeakInv'
    BY <2>1 DEF IInv, Types, DataTypes, LeakInv, Managed
  <2> QED
    BY <1>2, <1>3, <2>1, <2>2, AsideKeeps
<1>6. ASSUME op[t].kind = "switch", Reopens(tr) \/ (open' = open \ {tr} /\ UNCHANGED reopened),
             UNCHANGED <<lock, devices, ports, closed, session, retired, adds, switches, interrupted>>
      PROVE  /\ DataTypes' /\ LeakInv'
             /\ open' \subseteq open \cup {session[i].transport : i \in 1..MaxAdds}
             /\ \A x \in open' : x \in open \cup reopened' \cup Managed(Referenced)
             /\ reopened \subseteq reopened'
  <2>1. Referenced \subseteq DOMAIN ports /\ Managed(Referenced) \subseteq Managed(DOMAIN ports)
    BY DEF Referenced, Managed
  <2>2. /\ open' \subseteq open \cup {tr} /\ open' \subseteq 1..MaxAdds /\ reopened' \subseteq 1..MaxAdds
        /\ reopened \subseteq reopened'
        /\ open' \subseteq open \cup reopened' \cup Managed(Referenced)
    BY <1>2, <1>6, <2>1 DEF Reopens, IInv, Types, DataTypes
  <2>3. DataTypes'
    BY <1>6, <2>2 DEF IInv, Types, DataTypes
  <2>4. LeakInv'
    BY <1>6, <2>1, <2>2 DEF IInv, LeakInv, Managed
  <2> QED
    BY <1>2, <1>6, <2>2, <2>3, <2>4
<1>7. CASE SwitchReopens(t)
  <2>1. op[t].kind = "switch" /\ op' = [op EXCEPT ![t].at = "verifying"] /\ Reopens(tr)
        /\ UNCHANGED <<lock, devices, ports, closed, session, retired, adds, switches, interrupted>>
    BY <1>7 DEF SwitchReopens, At, registry, bounds
  <2> QED
    BY <1>2, <1>3, <1>6, <2>1, AsideKeeps
<1>8. CASE SwitchFails(t)
  <2>1. op[t].kind = "switch" /\ op' = [op EXCEPT ![t] = Idle]
        /\ (Reopens(tr) \/ (open' = open \ {tr} /\ UNCHANGED reopened))
        /\ UNCHANGED <<lock, devices, ports, closed, session, retired, adds, switches, interrupted>>
    BY <1>8 DEF SwitchFails, registry, bounds
  <2>2. ~Locks(t)'
    BY <1>4, <2>1 DEF Locks, IInv, Types, TaskTypes
  <2> QED
    BY <1>2, <1>4, <1>6, <2>1, <2>2, AsideKeeps
<1>9. CASE Switched(t)
  <2>1. op[t].kind = "switch" /\ op' = [op EXCEPT ![t] = Idle]
        /\ session' = [session EXCEPT ![op[t].id].client = op[t].new]
        /\ retired' = retired \cup {op[t].client}
        /\ UNCHANGED <<lock, devices, ports, closed, open, adds, switches, interrupted, reopened>>
    BY <1>9 DEF Switched, At, registry, bounds, ghosts
  <2>2. \A i \in 1..MaxAdds : session'[i].transport = session[i].transport
    BY <1>2, <2>1 DEF IInv, Types, DataTypes
  <2>3. session' \in [1..MaxAdds -> [client : Clients, transport : 0..MaxAdds]]
    BY <1>2, <2>1 DEF IInv, Types, DataTypes
  <2>4. ~Locks(t)'
    BY <1>4, <2>1 DEF Locks, IInv, Types, TaskTypes
  <2>5. \A i \in 1..MaxAdds : session'[i].transport # 0 => session'[i].client # 0
    BY <1>2, <2>1 DEF IInv, Types, DataTypes
  <2>6. retired' \subseteq 1..(MaxAdds + MaxSwitches)
    <3>1. op[t].client \in 1..(MaxAdds + MaxSwitches)
      BY <1>2, <2>1 DEF Clients
    <3> QED
      BY <2>1, <3>1 DEF IInv, Types, DataTypes
  <2>7. DataTypes' /\ LeakInv'
    <3>1. DataTypes'
      BY <2>1, <2>3, <2>5, <2>6 DEF IInv, Types, DataTypes, Clients
    <3> QED
      BY <2>1, <3>1 DEF IInv, LeakInv, Managed
  <2> QED
    BY <1>2, <1>4, <2>1, <2>2, <2>4, <2>7, AsideKeeps
<1> QED
  BY <1>1, <1>5, <1>7, <1>8, <1>9 DEF Configure

-----------------------------------------------------------------------------
(* Calls at work on the registry.                                          *)

\* What the holder of the state lock may do to numbers and transports.
LEMMA IdsStep ==
  ASSUME IdInv, TaskTypes, DataTypes, DataTypes', NEW t \in Tasks,
         \A u \in Tasks \ {t} : op'[u] = op[u] /\ ~Works(u), UNCHANGED adds,
         op'[t].kind # "switch",
         op'[t].kind = "add" => op[t].kind = "add" /\ op'[t].id = op[t].id,
         op'[t].kind = "add" /\ op'[t].at \in {"queued", "opening"} =>
            op'[t].at = "opening" /\ Untouched(op[t].id, op[t].port)',
         \A d \in ToSet(devices') :
            d \in ToSet(devices) \/ (op[t].kind = "add" /\ d.id = op[t].id /\ op'[t].kind # "add"),
         \A q \in DOMAIN ports' :
            \/ q \in DOMAIN ports /\ ports'[q].transport = ports[q].transport
            \/ op[t].kind = "add" /\ ports'[q].transport = op[t].id,
         \A j \in 1..MaxAdds :
            \/ session'[j].transport = session[j].transport
            \/ /\ op[t].kind = "add" /\ j = op[t].id
               /\ \E q \in DOMAIN ports' : session'[j].transport = ports'[q].transport,
         \A x \in open' : x \in open \/ \E q \in DOMAIN ports' : x = ports'[q].transport
  PROVE  IdInv'
<1> DEFINE id == op[t].id
<1>1. op[t].kind = "add" => id <= adds /\ id \in 1..MaxAdds /\ \A d \in ToSet(devices) : d.id # id
  BY DEF IdInv, TaskTypes, OpFits, AddType
<1>2. \A q \in DOMAIN ports' : ports'[q].transport <= adds
  BY <1>1 DEF IdInv
<1>3. \A x \in open' : x <= adds
  BY <1>2 DEF IdInv, DataTypes
<1>4. \A j \in 1..MaxAdds : session'[j].transport <= adds /\ (j > adds => session'[j].transport = 0)
  <2> SUFFICES ASSUME NEW j \in 1..MaxAdds
               PROVE  session'[j].transport <= adds /\ (j > adds => session'[j].transport = 0)
    OBVIOUS
  <2>1. CASE session'[j].transport = session[j].transport
    BY <2>1 DEF IdInv
  <2>2. CASE op[t].kind = "add" /\ j = op[t].id /\ \E q \in DOMAIN ports' : session'[j].transport = ports'[q].transport
    <3>1. ~(j > adds)
      BY <1>1, <2>2 DEF DataTypes
    <3> QED
      BY <1>2, <2>2, <3>1
  <2> QED
    BY <2>1, <2>2
<1>5. \A d \in ToSet(devices') : d.id <= adds
  BY <1>1 DEF IdInv
<1>6. ASSUME NEW u \in Tasks, u # t, op'[u].kind = "add"
      PROVE  /\ op'[u].id <= adds
             /\ \A d \in ToSet(devices') : d.id # op'[u].id
             /\ \A v \in Tasks : op'[v].kind = "add" /\ op'[v].id = op'[u].id => v = u
             /\ op'[u].at \in {"queued", "opening"} => session'[op'[u].id].transport = 0
             /\ op'[u].at = "queued" => \A p \in DOMAIN ports' : ports'[p].transport # op'[u].id
             /\ op'[u].at \in {"queued", "opening"} => Untouched(op[u].id, op[u].port)'
  <2>1. op'[u] = op[u] /\ op[u].kind = "add" /\ op[u].id \in 1..MaxAdds /\ op[u].at = "queued"
    BY <1>6 DEF TaskTypes, OpFits, AddType, Works, Locks
  <2>2. op[t].kind = "add" => id # op[u].id
    BY <1>6, <2>1 DEF IdInv
  <2>3. /\ op[u].id \notin open /\ \A j \in 1..MaxAdds : session[j].transport # op[u].id
        /\ \A p \in DOMAIN ports : ports[p].transport # op[u].id
        /\ session[op[u].id].transport = 0 /\ op[u].id <= adds
        /\ \A d \in ToSet(devices) : d.id # op[u].id
    BY <2>1 DEF IdInv, Untouched
  <2>4. \A p \in DOMAIN ports' : ports'[p].transport # op[u].id
    BY <2>2, <2>3
  <2>5. \A j \in 1..MaxAdds : session'[j].transport # op[u].id
    BY <2>3, <2>4
  <2>6. op[u].id \notin open' /\ session'[op[u].id].transport = 0
    BY <2>1, <2>2, <2>3, <2>4
  <2>7. Untouched(op[u].id, op[u].port)'
    BY <2>1, <2>4, <2>5, <2>6 DEF Untouched
  <2>8. \A v \in Tasks : op'[v].kind = "add" /\ op'[v].id = op'[u].id => v = u
    <3>1. op'[t].kind = "add" => op'[t].id # op[u].id
      BY <2>2
    <3> QED
      BY <2>1, <3>1 DEF IdInv
  <2>9. \A d \in ToSet(devices') : d.id # op[u].id
    BY <2>2, <2>3
  <2> QED
    BY <2>1, <2>3, <2>4, <2>6, <2>7, <2>8, <2>9
<1>7. ASSUME op'[t].kind = "add"
      PROVE  /\ op'[t].id <= adds
             /\ \A d \in ToSet(devices') : d.id # op'[t].id
             /\ \A v \in Tasks : op'[v].kind = "add" /\ op'[v].id = op'[t].id => v = t
             /\ op'[t].at # "queued"
             /\ op'[t].at = "opening" => session'[op'[t].id].transport = 0
             /\ op'[t].at = "opening" => Untouched(op[t].id, op[t].port)'
  <2>1. op[t].kind = "add" /\ op'[t].id = id
    BY <1>7
  <2>2. \A v \in Tasks : op'[v].kind = "add" /\ op'[v].id = id => v = t
    BY <2>1 DEF IdInv
  <2>3. op'[t].at = "opening" => Untouched(op[t].id, op[t].port)'
    BY <1>7
  <2>4. op'[t].at = "opening" => session'[op'[t].id].transport = 0
    BY <2>3 DEF Untouched
  <2> QED
    BY <1>1, <1>7, <2>1, <2>2, <2>3, <2>4
<1>8. ASSUME NEW u \in Tasks, op'[u].kind = "switch" PROVE session'[op'[u].id].transport # 0
  <2>1. op'[u] = op[u] /\ op[u].id \in 1..MaxAdds
    BY <1>8 DEF TaskTypes, OpFits, SwitchType
  <2>2. session[op[u].id].transport # 0
    BY <1>8, <2>1 DEF IdInv
  <2>3. \A q \in DOMAIN ports' : ports'[q].transport # 0
    BY DEF DataTypes, PortType
  <2> QED
    BY <2>1, <2>2, <2>3
<1>9. open' \subseteq 1..adds
  BY <1>3 DEF DataTypes
<1> QED
  BY <1>2, <1>4, <1>5, <1>6, <1>7, <1>8, <1>9 DEF IdInv

\* The call that works on the registry ends; ports without balances are dropped.
LEMMA PortsDropped ==
  ASSUME PortInv, DataTypes, NEW t \in Tasks, NEW gone, ports' = Dropped(ports, gone),
         \A p \in gone : p \in DOMAIN ports => ports[p].refs = {},
         UNCHANGED devices, interrupted \subseteq interrupted',
         \A i \in 1..MaxAdds : session'[i].transport = session[i].transport,
         \A u \in Tasks \ {t} : ~Works(u), \A u \in Tasks : ~Works(u)',
         \A p \in DOMAIN ports : Drops(t, p) => p \in gone \cup interrupted'
  PROVE  PortInv'
<1>1. DOMAIN ports' = DOMAIN ports \ gone /\ \A p \in DOMAIN ports' : ports'[p] = ports[p]
  BY DEF Dropped
<1>2. \A e \in ToSet(devices) : e.port \in DOMAIN ports' /\ e.id \in 1..MaxAdds
  <2> SUFFICES ASSUME NEW e \in ToSet(devices) PROVE e.port \notin gone /\ e.port \in DOMAIN ports
    BY <1>1, DevicesTyped
  <2>1. e.port \in DOMAIN ports /\ e.name \in ports[e.port].refs
    BY DEF PortInv
  <2> QED
    BY <2>1
<1>3. \A p \in DOMAIN ports' : ports'[p].refs = {} => p \in interrupted'
  BY <1>1 DEF PortInv, Drops
<1> QED
  BY <1>1, <1>2, <1>3 DEF PortInv

LEMMA DroppedTypes ==
  ASSUME DataTypes, NEW gone
  PROVE  LET ps == Dropped(ports, gone)
         IN /\ ps = [p \in DOMAIN ps |-> ps[p]] /\ DOMAIN ps \subseteq Ports
            /\ \A p \in DOMAIN ps : ps[p] \in PortType
BY DEF Dropped, DataTypes

LEMMA PutTypes ==
  ASSUME DataTypes, NEW p \in Ports, NEW e \in PortType, ports' = Put(ports, p, e)
  PROVE  /\ ports' = [q \in DOMAIN ports' |-> ports'[q]] /\ DOMAIN ports' \subseteq Ports
         /\ \A q \in DOMAIN ports' : ports'[q] \in PortType
BY DEF Put, DataTypes

\* What is known of an add that holds the lock.
LEMMA AddAt ==
  ASSUME IInv, NEW t \in Tasks, op[t].kind = "add"
  PROVE  /\ op[t] \in AddType /\ op[t].name \in Names /\ op[t].port \in Ports
         /\ op[t].id \in 1..MaxAdds /\ op[t].fresh \in BOOLEAN /\ op[t].id <= adds
         /\ Locks(t) /\ (op[t].at # "queued" => Works(t) /\ Owns(t) /\ op[t].port \in DOMAIN ports)
         /\ \A d \in ToSet(devices) : d.id # op[t].id
         /\ op[t].at # "queued" /\ op[t].fresh => ports[op[t].port].refs = {}
<1>1. op[t] \in AddType
  BY DEF IInv, Types, TaskTypes, OpFits
<1>2. Locks(t) /\ (op[t].at # "queued" => Works(t))
  BY DEF Locks, Works
<1>3. op[t].at # "queued" => Owns(t) /\ op[t].port \in DOMAIN ports
  BY <1>2 DEF IInv, LockInv, PortInv
<1>4. op[t].at # "queued" /\ op[t].fresh => ports[op[t].port].refs = {}
  BY <1>2 DEF IInv, PortInv, Drops
<1> QED
  BY <1>1, <1>2, <1>3, <1>4 DEF IInv, IdInv, AddType

-----------------------------------------------------------------------------
(* add                                                                     *)

\* The step of an add that ends the call by registering the balance.
LEMMA RegisterKeeps ==
  ASSUME IInv, NEW t \in Tasks, op[t].kind = "add", Owns(t), op[t].at # "closing",
         ~closed, op[t].name \notin Registered, op[t].port \in DOMAIN ports,
         NEW e \in PortType, Register(t, e),
         e.transport = ports[op[t].port].transport, e.refs = ports[op[t].port].refs,
         DataTypes', session'[op[t].id].transport = e.transport,
         \A j \in 1..MaxAdds : j # op[t].id => session'[j].transport = session[j].transport,
         \A x \in open' : x \in open \/ x = e.transport,
         UNCHANGED <<closed, adds, interrupted, reopened>>
  PROVE  IInv'
<1> DEFINE d == [name |-> op[t].name, port |-> op[t].port, id |-> op[t].id]
           p == op[t].port
           entry == [e EXCEPT !.refs = @ \cup {op[t].name}]
<1> USE DEF IInv, Types
<1>1. /\ op[t].name \in Names /\ p \in Ports /\ op[t].id \in 1..MaxAdds /\ op[t].id <= adds
      /\ \A x \in ToSet(devices) : x.id # op[t].id
  BY AddAt
<1>2. /\ devices' = Append(devices, d) /\ ports' = Put(ports, p, entry)
      /\ op' = [op EXCEPT ![t] = Idle] /\ lock' = Tail(lock)
  BY DEF Register, Done
<1>3. d \in DeviceType /\ d.name = op[t].name /\ d.port = p /\ d.id = op[t].id
  BY <1>1 DEF DeviceType
<1>4. /\ entry \in PortType /\ entry.transport = ports[p].transport
      /\ entry.refs = ports[p].refs \cup {op[t].name}
  BY <1>1 DEF PortType
<1> HIDE DEF d, entry
<1>5. /\ op'[t].kind = "idle" /\ (\A u \in Tasks \ {t} : op'[u] = op[u]) /\ op' = [u \in Tasks |-> op'[u]]
  BY <1>2 DEF Idle, TaskTypes
<1>6. ~Locks(t)' /\ OpFits(op[t])' /\ ~Works(t)'
  BY <1>5 DEF Locks, OpFits, Works
<1>7. /\ TaskTypes' /\ LockInv' /\ \A u \in Tasks \ {t} : ~Works(u) /\ ~Works(u)'
  BY <1>2, <1>5, <1>6, OwnerStep
<1>8. ToSet(devices') = ToSet(devices) \cup {d} /\ IsInjective(devices')
  <2>1. d \notin ToSet(devices)
    BY <1>3 DEF Registered
  <2> QED
    BY <1>2, <1>3, <2>1, AppendOnce DEF DataTypes, PortInv
<1>9. /\ DOMAIN ports' = DOMAIN ports /\ ports'[p] = entry
      /\ \A q \in DOMAIN ports : q # p => ports'[q] = ports[q]
  BY <1>2 DEF Put
<1>10. \A x \in ToSet(devices) : x.id \in 1..MaxAdds /\ x.name \in Registered
  BY DevicesTyped DEF Registered
<1>11. IdInv'
  <2>1. \A x \in ToSet(devices') : x \in ToSet(devices) \/ x.id = op[t].id
    BY <1>3, <1>8
  <2>2. \A q \in DOMAIN ports' : q \in DOMAIN ports /\ ports'[q].transport = ports[q].transport
    BY <1>4, <1>9
  <2>3. p \in DOMAIN ports' /\ ports'[p].transport = e.transport
    BY <1>4, <1>9
  <2> QED
    BY <1>5, <1>7, <2>1, <2>2, <2>3, IdsStep
<1>12. PortInv'
  <2>1. \A x, y \in ToSet(devices') : x.name = y.name => x = y
    BY <1>3, <1>8, <1>10 DEF PortInv
  <2>2. \A q, r \in DOMAIN ports' : ports'[q].transport = ports'[r].transport => q = r
    BY <1>4, <1>9 DEF PortInv
  <2>3. ASSUME NEW q \in DOMAIN ports'
        PROVE  ports'[q].refs = {x.name : x \in {y \in ToSet(devices') : y.port = q}}
    BY <1>3, <1>4, <1>8, <1>9 DEF PortInv
  <2>4. ASSUME NEW q \in DOMAIN ports', ports'[q].refs = {} PROVE q \in interrupted'
    <3>1. q # p /\ q \in DOMAIN ports /\ ports[q].refs = {}
      BY <1>4, <1>9, <2>4
    <3>2. \A u \in Tasks : ~Drops(u, q)
      BY <1>7, <3>1 DEF Drops
    <3> QED
      BY <3>1, <3>2 DEF PortInv
  <2>5. ASSUME NEW x \in ToSet(devices')
        PROVE  x.port \in DOMAIN ports' /\ session'[x.id].transport = ports'[x.port].transport
    BY <1>1, <1>3, <1>4, <1>8, <1>9, <1>10 DEF PortInv
  <2> QED
    BY <1>6, <1>7, <1>8, <2>1, <2>2, <2>3, <2>4, <2>5 DEF PortInv
<1>13. AddInv' /\ ClosedInv' /\ ClosingInv'
  BY <1>6, <1>7 DEF AddInv, ClosedInv, ClosingInv
<1>14. LeakInv'
  BY <1>4, <1>9 DEF LeakInv, Managed
<1> QED
  BY <1>7, <1>11, <1>12, <1>13, <1>14

\* The step of an add that leaves it at work on the port, whose entry becomes e.
LEMMA AddGoesOn ==
  ASSUME IInv, NEW t \in Tasks, op[t].kind = "add", Owns(t), op[t].at # "closing",
         ~closed, op[t].name \notin Registered,
         NEW e \in PortType, NEW at \in {"opening", "identifying", "probing"}, NEW fresh \in BOOLEAN,
         op' = [op EXCEPT ![t].at = at, ![t].fresh = fresh], UNCHANGED lock,
         ports' = Put(ports, op[t].port, e), UNCHANGED devices, DataTypes',
         IF op[t].port \in DOMAIN ports
         THEN /\ e.transport = ports[op[t].port].transport /\ e.refs = ports[op[t].port].refs
              /\ op[t].at # "queued" => fresh = op[t].fresh
              /\ op[t].at = "queued" => ~fresh
         ELSE fresh /\ e.transport = op[t].id /\ e.refs = {} /\ op[t].at = "queued",
         at = "opening" => op[t].at = "queued" /\ (fresh => e.client = 0 /\ e.transport = op[t].id),
         at # "opening" => session'[op[t].id].transport = e.transport,
         at = "opening" => session'[op[t].id].transport = session[op[t].id].transport,
         \A j \in 1..MaxAdds : j # op[t].id => session'[j].transport = session[j].transport,
         \A x \in open' : x \in open \/ (at # "opening" /\ x = e.transport),
         UNCHANGED <<closed, adds, interrupted, reopened>>
  PROVE  IInv'
<1> DEFINE p == op[t].port
           id == op[t].id
<1> USE DEF IInv, Types
<1>1. /\ op[t] \in AddType /\ p \in Ports /\ id \in 1..MaxAdds /\ id <= adds
      /\ \A x \in ToSet(devices) : x.id # id
      /\ op[t].at # "queued" => p \in DOMAIN ports /\ Works(t)
      /\ op[t].at # "queued" /\ op[t].fresh => ports[p].refs = {}
  BY AddAt
<1>2. /\ op'[t] \in AddType /\ op'[t].kind = "add" /\ op'[t].at = at /\ op'[t].fresh = fresh
      /\ op'[t].id = id /\ op'[t].port = p /\ op'[t].name = op[t].name
      /\ (\A u \in Tasks \ {t} : op'[u] = op[u]) /\ op' = [u \in Tasks |-> op'[u]]
  BY <1>1 DEF AddType, TaskTypes
<1>3. Locks(t)' /\ OpFits(op[t])' /\ Works(t)'
  BY <1>2 DEF Locks, OpFits, Works
<1>4. /\ TaskTypes' /\ LockInv' /\ \A u \in Tasks \ {t} : ~Works(u) /\ ~Works(u)'
  BY <1>2, <1>3, OwnerStep
<1>5. /\ DOMAIN ports' = DOMAIN ports \cup {p} /\ ports'[p] = e
      /\ \A q \in DOMAIN ports : q # p => ports'[q] = ports[q]
  BY DEF Put
<1>6. op[t].at = "queued" => /\ id \notin open /\ session[id].transport = 0
                             /\ \A j \in 1..MaxAdds : session[j].transport # id
                             /\ \A q \in DOMAIN ports : ports[q].transport # id
  BY DEF IdInv, Untouched
<1>7. \A x \in ToSet(devices) : x.port \in DOMAIN ports /\ x.id \in 1..MaxAdds /\ x.id # id
  BY <1>1, DevicesTyped DEF PortInv
<1>8. \A q, r \in DOMAIN ports' : ports'[q].transport = ports'[r].transport => q = r
  BY <1>5, <1>6 DEF PortInv
<1>9. IdInv'
  <2>1. ASSUME at = "opening" PROVE Untouched(op[t].id, op[t].port)'
    <3>1. op[t].at = "queued" /\ \A j \in 1..MaxAdds : session'[j].transport = session[j].transport
      BY <2>1
    <3>2. \A q \in DOMAIN ports' : ports'[q].transport = id => q = p
      BY <1>5, <1>6, <3>1
    <3>3. id \notin open' /\ session'[id].transport = 0 /\ \A j \in 1..MaxAdds : session'[j].transport # id
      BY <1>1, <1>6, <2>1, <3>1
    <3> QED
      <4>1. op'[t].id = id /\ op'[t].port = p /\ \A q \in DOMAIN ports' : ports'[q].transport = id => q = p
        BY <1>2, <3>2
      <4> QED
        BY <3>3, <4>1 DEF Untouched
  <2>2. \A q \in DOMAIN ports' :
          \/ q \in DOMAIN ports /\ ports'[q].transport = ports[q].transport
          \/ ports'[q].transport = id
    BY <1>5
  <2>3. p \in DOMAIN ports' /\ ports'[p].transport = e.transport
    BY <1>5
  <2>4. \A j \in 1..MaxAdds :
          \/ session'[j].transport = session[j].transport
          \/ j = id /\ session'[j].transport = ports'[p].transport
    BY <1>1, <2>3
  <2>5. \A x \in open' : x \in open \/ x = ports'[p].transport
    BY <2>3
  <2>6. op'[t].at \in {"queued", "opening"} => op'[t].at = "opening" /\ Untouched(op[t].id, op[t].port)'
    BY <1>2, <2>1
  <2> QED
    <3>1. \A q \in DOMAIN ports' :
            \/ q \in DOMAIN ports /\ ports'[q].transport = ports[q].transport
            \/ op[t].kind = "add" /\ ports'[q].transport = op[t].id
      BY <2>2
    <3>2. \A j \in 1..MaxAdds :
            \/ session'[j].transport = session[j].transport
            \/ /\ op[t].kind = "add" /\ j = op[t].id
               /\ \E q \in DOMAIN ports' : session'[j].transport = ports'[q].transport
      BY <2>3, <2>4
    <3>3. \A x \in open' : x \in open \/ \E q \in DOMAIN ports' : x = ports'[q].transport
      BY <2>3, <2>5
    <3>4. /\ \A u \in Tasks \ {t} : op'[u] = op[u] /\ ~Works(u)
          /\ op'[t].kind # "switch" /\ (op'[t].kind = "add" => op[t].kind = "add" /\ op'[t].id = op[t].id)
          /\ \A d \in ToSet(devices') : d \in ToSet(devices)
      BY <1>2, <1>4
    <3> QED
      BY <2>6, <3>1, <3>2, <3>3, <3>4, IdsStep
<1>10. PortInv'
  <2>1. ASSUME NEW q \in DOMAIN ports'
        PROVE  ports'[q].refs = {x.name : x \in {y \in ToSet(devices') : y.port = q}}
    <3>1. CASE q \in DOMAIN ports
      BY <1>5, <3>1 DEF PortInv
    <3>2. CASE q \notin DOMAIN ports
      BY <1>5, <1>7, <3>2
    <3> QED
      BY <3>1, <3>2
  <2>2. fresh => e.refs = {}
    BY <1>1
  <2>3. Drops(t, p)' <=> fresh
    BY <1>2, <1>3 DEF Drops
  <2>4. \A q : Drops(t, q) => q = p /\ op[t].fresh
    BY DEF Drops
  <2>5. ASSUME NEW q \in DOMAIN ports', ports'[q].refs = {}
        PROVE  q \in interrupted' \/ \E u \in Tasks : Drops(u, q)'
    <3>1. CASE q = p
      <4>1. CASE fresh
        BY <1>2, <1>3, <3>1, <4>1 DEF Drops
      <4>2. CASE ~fresh
        <5>1. p \in DOMAIN ports /\ ports[p].refs = {}
          BY <1>5, <2>5, <3>1, <4>2
        <5>2. ~Drops(t, p)
          BY <4>2, <5>1 DEF Drops, Works
        <5> QED
          BY <1>4, <3>1, <5>1, <5>2 DEF PortInv, Drops
      <4> QED
        BY <4>1, <4>2
    <3>2. CASE q # p
      BY <1>4, <1>5, <2>4, <2>5, <3>2 DEF PortInv, Drops
    <3> QED
      BY <3>1, <3>2
  <2>6. ASSUME NEW x \in ToSet(devices')
        PROVE  x.port \in DOMAIN ports' /\ session'[x.id].transport = ports'[x.port].transport
    BY <1>5, <1>7 DEF PortInv
  <2>7. /\ IsInjective(devices') /\ \A x, y \in ToSet(devices') : x.name = y.name => x = y
    BY DEF PortInv
  <2>8. \A u \in Tasks : Works(u)' =>
          op'[u].port \in DOMAIN ports' /\ (Drops(u, op[u].port)' => ports'[op'[u].port].refs = {})
    <3>1. op'[t].port \in DOMAIN ports' /\ (Drops(t, p)' => ports'[op'[t].port].refs = {})
      <4>1. op'[t].port = p /\ p \in DOMAIN ports'
        BY <1>2, <1>5
      <4>2. fresh => ports'[p].refs = {}
        BY <1>5, <2>2
      <4> QED
        BY <2>3, <4>1, <4>2
    <3> QED
      BY <1>2, <1>4, <3>1
  <2> QED
    BY <1>8, <2>1, <2>5, <2>6, <2>7, <2>8 DEF PortInv
<1>11. AddInv'
  <2>1. op'[t].name \notin Registered'
    BY <1>2 DEF Registered
  <2>2. /\ op'[t].at # "closing"
        /\ op'[t].at = "opening" /\ op'[t].fresh =>
             ports'[op'[t].port].client = 0 /\ ports'[op'[t].port].transport = op'[t].id
        /\ op'[t].at \in {"identifying", "probing"} =>
             session'[op'[t].id].transport = ports'[op'[t].port].transport
    BY <1>2, <1>5
  <2>3. \A u \in Tasks : Works(u)' => u = t
    BY <1>4
  <2> QED
    BY <2>1, <2>2, <2>3 DEF AddInv
<1>12. ClosedInv' /\ ClosingInv'
  BY <1>2, <1>4 DEF ClosedInv, ClosingInv
<1>13. LeakInv'
  <2>1. Managed(DOMAIN ports) \subseteq Managed(DOMAIN ports)' /\ e.transport \in Managed(DOMAIN ports)'
    BY <1>5 DEF Managed
  <2> QED
    BY <2>1 DEF LeakInv
<1> QED
  BY <1>4, <1>9, <1>10, <1>11, <1>12, <1>13

\* A call at work on the registry ends, and drops the ports that have no balance.
LEMMA CallEnds ==
  ASSUME IInv, NEW t \in Tasks, Works(t), Done(t),
         NEW gone, ports' = Dropped(ports, gone),
         \A p \in gone : p \in DOMAIN ports => ports[p].refs = {} /\ ports[p].transport \notin open' \ reopened,
         \A p \in DOMAIN ports : Drops(t, p) => p \in gone,
         \A x \in open' : x \in open \/ \E p \in DOMAIN ports' : x = ports'[p].transport,
         UNCHANGED <<devices, closed, session, retired, adds, switches, interrupted, reopened>>
  PROVE  IInv'
<1> USE DEF IInv, Types
<1>1. /\ op' = [op EXCEPT ![t] = Idle] /\ lock' = Tail(lock)
      /\ op'[t].kind = "idle" /\ (\A u \in Tasks \ {t} : op'[u] = op[u]) /\ op' = [u \in Tasks |-> op'[u]]
  BY DEF Done, Idle, TaskTypes
<1>2. ~Locks(t)' /\ OpFits(op[t])' /\ ~Works(t)' /\ Owns(t)
  BY <1>1 DEF Locks, OpFits, Works, LockInv
<1>3. /\ TaskTypes' /\ LockInv' /\ \A u \in Tasks \ {t} : ~Works(u) /\ ~Works(u)'
  BY <1>1, <1>2, OwnerStep
<1>4. DOMAIN ports' = DOMAIN ports \ gone /\ \A p \in DOMAIN ports' : ports'[p] = ports[p]
  BY DEF Dropped
<1>5. DataTypes'
  <2>1. /\ ports' = [p \in DOMAIN ports' |-> ports'[p]] /\ DOMAIN ports' \subseteq Ports
        /\ \A p \in DOMAIN ports' : ports'[p] \in PortType
    BY DroppedTypes
  <2>2. open' \subseteq 1..MaxAdds
    BY <2>1 DEF DataTypes, PortType
  <2> QED
    BY <2>1, <2>2 DEF DataTypes
<1>6. IdInv'
  BY <1>1, <1>3, <1>4, <1>5, IdsStep
<1>7. PortInv'
  BY <1>2, <1>3, PortsDropped
<1>8. AddInv' /\ ClosedInv' /\ ClosingInv'
  BY <1>2, <1>3 DEF AddInv, ClosedInv, ClosingInv
<1>9. LeakInv'
  <2> SUFFICES ASSUME NEW x \in open', x \notin reopened PROVE x \in Managed(DOMAIN ports)'
    BY DEF LeakInv
  <2>1. CASE x \in open
    <3>1. PICK p \in DOMAIN ports : x = ports[p].transport
      BY <2>1 DEF LeakInv, Managed
    <3> QED
      BY <1>4, <3>1 DEF Managed
  <2>2. CASE \E p \in DOMAIN ports' : x = ports'[p].transport
    BY <2>2 DEF Managed
  <2> QED
    BY <2>1, <2>2
<1> QED
  BY <1>3, <1>5, <1>6, <1>7, <1>8, <1>9

\* The session on the port's shared client, and what follows it.
LEMMA AttachKeeps ==
  ASSUME IInv, NEW t \in Tasks, op[t].kind = "add", Owns(t), op[t].at \in {"queued", "opening"},
         ~closed, op[t].name \notin Registered, op[t].port \in DOMAIN ports,
         NEW fresh \in BOOLEAN, fresh = (op[t].at = "opening" /\ op[t].fresh),
         Attach(t, ports[op[t].port], fresh),
         \A x \in open' : x \in open \/ x = ports[op[t].port].transport,
         UNCHANGED <<closed, retired, adds, switches, interrupted, reopened>>
  PROVE  IInv'
<1> DEFINE p == op[t].port
           id == op[t].id
           e == ports[p]
           entry == IF e.client = 0 THEN [e EXCEPT !.client = id] ELSE e
<1> USE DEF IInv, Types
<1>1. op[t] \in AddType /\ op[t].name \in Names /\ p \in Ports /\ id \in 1..MaxAdds
  BY AddAt
<1>2. e \in PortType
  BY DEF DataTypes
<1>3. /\ entry \in PortType /\ entry.client \in 1..MaxAdds
      /\ entry.transport = e.transport /\ entry.refs = e.refs
  BY <1>1, <1>2 DEF PortType
<1>4. session' = [session EXCEPT ![id] = [client |-> entry.client, transport |-> e.transport]]
  BY DEF Attach
<1>5. \/ /\ op' = [op EXCEPT ![t].at = "identifying", ![t].fresh = fresh]
         /\ ports' = Put(ports, p, entry)
         /\ UNCHANGED <<lock, devices>>
      \/ Register(t, entry)
  BY DEF Attach
<1> HIDE DEF entry
<1>6. /\ session'[id].transport = e.transport /\ session'[id].client = entry.client
      /\ \A j \in 1..MaxAdds : j # id => session'[j] = session[j]
  BY <1>1, <1>4 DEF DataTypes
<1>7. session' \in [1..MaxAdds -> [client : Clients, transport : 0..MaxAdds]]
  <2>1. [client |-> entry.client, transport |-> e.transport] \in [client : Clients, transport : 0..MaxAdds]
    BY <1>2, <1>3 DEF PortType, Clients
  <2> QED
    BY <1>4, <2>1 DEF DataTypes
<1>8. \A j \in 1..MaxAdds : session'[j].transport # 0 => session'[j].client # 0
  BY <1>3, <1>6 DEF DataTypes
<1>9. open' \subseteq 1..MaxAdds
  BY <1>2 DEF DataTypes, PortType
<1>10. CASE /\ op' = [op EXCEPT ![t].at = "identifying", ![t].fresh = fresh]
            /\ ports' = Put(ports, p, entry)
            /\ UNCHANGED <<lock, devices>>
  <2>1. DataTypes'
    BY <1>1, <1>3, <1>7, <1>8, <1>9, <1>10, PutTypes DEF DataTypes
  <2>2. (op[t].at # "queued" => fresh = op[t].fresh) /\ (op[t].at = "queued" => ~fresh)
    BY <1>1 DEF AddType
  <2>3. op[t].at # "closing"
    OBVIOUS
  <2> QED
    BY <1>3, <1>6, <1>10, <2>1, <2>2, <2>3, AddGoesOn
<1>11. CASE Register(t, entry)
  <2> DEFINE d == [name |-> op[t].name, port |-> op[t].port, id |-> op[t].id]
             f == [entry EXCEPT !.refs = @ \cup {op[t].name}]
  <2>1. devices' = Append(devices, d) /\ ports' = Put(ports, p, f)
    BY <1>11 DEF Register
  <2>2. d \in DeviceType /\ f \in PortType
    BY <1>1, <1>3 DEF DeviceType, PortType
  <2> HIDE DEF d, f
  <2>3. devices' \in Seq(DeviceType)
    BY <2>1, <2>2 DEF DataTypes
  <2>4. DataTypes'
    BY <1>1, <1>7, <1>8, <1>9, <2>1, <2>2, <2>3, PutTypes DEF DataTypes
  <2> QED
    BY <1>3, <1>6, <1>11, <2>4, RegisterKeeps
<1> QED
  BY <1>5, <1>10, <1>11

LEMMA AddResolvesKeeps == ASSUME IInv, NEW t \in Tasks, AddResolves(t) PROVE IInv'
<1> DEFINE p == op[t].port
           fresh == p \notin DOMAIN ports
           e == IF fresh THEN [transport |-> op[t].id, client |-> 0, refs |-> {}] ELSE ports[p]
<1> USE DEF IInv, Types
<1>1. /\ Owns(t) /\ op[t].kind = "add" /\ op[t].at = "queued" /\ ~closed /\ op[t].name \notin Registered
      /\ UNCHANGED <<closed, retired, open, adds, switches, interrupted, reopened>>
  BY DEF AddResolves, At, bounds, ghosts
<1>2. op[t] \in AddType /\ p \in Ports /\ op[t].id \in 1..MaxAdds /\ op[t].id \notin open
  BY <1>1, AddAt DEF IdInv, Untouched
<1>3. e \in PortType
  BY <1>2 DEF PortType, DataTypes
<1>4. CASE e.transport \in open
  <2>1. ~fresh
    BY <1>2, <1>4
  <2>2. Attach(t, ports[p], FALSE)
    BY <1>4, <2>1 DEF AddResolves
  <2> QED
    BY <1>1, <2>1, <2>2, AttachKeeps
<1>5. CASE e.transport \notin open
  <2>1. /\ op' = [op EXCEPT ![t].at = "opening", ![t].fresh = fresh] /\ ports' = Put(ports, p, e)
        /\ UNCHANGED <<lock, devices, session>>
    BY <1>5 DEF AddResolves
  <2>2. DataTypes'
    BY <1>1, <1>2, <1>3, <2>1, PutTypes DEF DataTypes
  <2>3. /\ fresh => e.transport = op[t].id /\ e.refs = {} /\ e.client = 0
        /\ ~fresh => e = ports[p]
    OBVIOUS
  <2>4. fresh \in BOOLEAN /\ (fresh <=> p \notin DOMAIN ports)
    OBVIOUS
  <2> HIDE DEF fresh, e
  <2> QED
    BY <1>1, <1>3, <2>1, <2>2, <2>3, <2>4, AddGoesOn
<1> QED
  BY <1>4, <1>5

LEMMA AddOpenedKeeps == ASSUME IInv, NEW t \in Tasks, AddOpened(t) \/ AddOpenFails(t) PROVE IInv'
<1> DEFINE p == op[t].port
<1> USE DEF IInv, Types
<1>1. op[t].kind = "add" /\ op[t].at = "opening"
  BY DEF AddOpened, AddOpenFails, At
<1>2. /\ op[t] \in AddType /\ p \in Ports /\ op[t].fresh \in BOOLEAN /\ Works(t) /\ Owns(t)
      /\ p \in DOMAIN ports /\ (op[t].fresh => ports[p].refs = {} /\ ports[p].client = 0)
      /\ ~closed /\ op[t].name \notin Registered
  BY <1>1, AddAt DEF AddInv, ClosedInv
<1>3. ports = Dropped(ports, {})
  BY DEF Dropped, DataTypes
<1>4. CASE AddOpened(t)
  <2>1. /\ open' = open \cup {ports[p].transport}
        /\ UNCHANGED <<closed, retired, adds, switches, interrupted, reopened>>
    BY <1>4 DEF AddOpened, bounds, ghosts
  <2>2. CASE Attach(t, ports[p], op[t].fresh)
    BY <1>1, <1>2, <2>1, <2>2, AttachKeeps
  <2>3. CASE ports[p].client # 0 /\ Done(t) /\ UNCHANGED <<devices, ports, session>>
    <3>1. \A q \in DOMAIN ports : ~Drops(t, q)
      BY <1>1, <1>2, <2>3 DEF Drops
    <3>2. ports' = Dropped(ports, {})
      BY <1>3, <2>3
    <3> QED
      BY <1>2, <2>1, <2>3, <3>1, <3>2, CallEnds
  <2> QED
    BY <1>4, <2>2, <2>3 DEF AddOpened
<1>5. CASE AddOpenFails(t)
  <2> DEFINE gone == IF op[t].fresh THEN {p} ELSE {}
  <2>1. ports' = Dropped(ports, gone)
    BY <1>3, <1>5 DEF AddOpenFails
  <2>2. \A q \in DOMAIN ports : Drops(t, q) => q \in gone
    BY <1>1 DEF Drops
  <2>3. op[t].fresh => ports[p].transport \notin open
    BY <1>1, <1>2 DEF AddInv, IdInv, Untouched
  <2>4. \A q \in gone : ports[q].refs = {} /\ ports[q].transport \notin open
    BY <1>2, <2>3
  <2> HIDE DEF gone
  <2>5. UNCHANGED <<devices, closed, session, retired, open, adds, switches, interrupted, reopened>> /\ Done(t)
    BY <1>5 DEF AddOpenFails, bounds, ghosts
  <2> QED
    BY <1>2, <2>1, <2>2, <2>4, <2>5, CallEnds
<1> QED
  BY <1>4, <1>5

LEMMA RefusedKeeps == ASSUME IInv, NEW t \in Tasks, AddRefused(t) \/ RemoveRefused(t) PROVE IInv'
<1>1. Owns(t) /\ Locks(t) /\ op[t].at = "queued" /\ Done(t)
  BY DEF AddRefused, RemoveRefused, At, Locks
<1>2. UNCHANGED <<devices, ports, closed, session, retired, open, adds, switches, interrupted, reopened>>
  BY DEF AddRefused, RemoveRefused, registry, bounds, ghosts
<1> QED
  BY <1>1, <1>2, RefusalKeeps

\* An add at work goes on to probe the balance, or to close the port it has opened.
LEMMA IdentifyMoves ==
  ASSUME IInv, NEW t \in Tasks, op[t].kind = "add", op[t].at \in {"identifying", "probing"},
         NEW at \in {"probing", "closing"}, GoesTo(t, at),
         open' = IF at = "closing" THEN open \ {ports[op[t].port].transport} ELSE open,
         at = "closing" => op[t].fresh,
         UNCHANGED <<devices, ports, closed, session, retired, adds, switches, interrupted, reopened>>
  PROVE  IInv'
<1> DEFINE p == op[t].port
<1> USE DEF IInv, Types
<1>1. /\ op[t] \in AddType /\ p \in Ports /\ p \in DOMAIN ports /\ Works(t) /\ Owns(t)
      /\ op[t].fresh => ports[p].refs = {}
      /\ op[t].name \notin Registered /\ ~closed
      /\ session[op[t].id].transport = ports[p].transport
  BY AddAt DEF AddInv, ClosedInv
<1>2. /\ op' = [op EXCEPT ![t].at = at] /\ UNCHANGED lock
      /\ op'[t] \in AddType /\ op'[t].kind = "add" /\ op'[t].at = at /\ op'[t].fresh = op[t].fresh
      /\ op'[t].id = op[t].id /\ op'[t].port = p /\ op'[t].name = op[t].name
      /\ (\A u \in Tasks \ {t} : op'[u] = op[u]) /\ op' = [u \in Tasks |-> op'[u]]
  BY <1>1 DEF GoesTo, AddType, TaskTypes
<1>3. Locks(t)' /\ OpFits(op[t])' /\ Works(t)'
  BY <1>2 DEF Locks, OpFits, Works
<1>4. /\ TaskTypes' /\ LockInv' /\ \A u \in Tasks \ {t} : ~Works(u) /\ ~Works(u)'
  BY <1>1, <1>2, <1>3, OwnerStep
<1>5. DataTypes' /\ LeakInv'
  BY DEF DataTypes, LeakInv, Managed
<1>6. IdInv'
  BY <1>2, <1>4, <1>5, IdsStep
<1>7. PortInv'
  <2>1. \A q : Drops(t, q)' <=> Drops(t, q)
    BY <1>1, <1>2, <1>3 DEF Drops
  <2>2. \A u \in Tasks : Works(u)' => u = t
    BY <1>4
  <2>3. \A x \in ToSet(devices) : x.port \in DOMAIN ports /\ session[x.id].transport = ports[x.port].transport
    BY DEF PortInv
  <2>4. \A q \in DOMAIN ports : ports[q].refs = {} => q \in interrupted \/ \E u \in Tasks : Drops(u, q)'
    <3>1. \A u \in Tasks, q \in DOMAIN ports : Drops(u, q) => Drops(u, q)'
      BY <1>4, <2>1 DEF Drops
    <3> QED
      BY <3>1 DEF PortInv
  <2>5. \A u \in Tasks : Works(u)' =>
          op'[u].port \in DOMAIN ports /\ (Drops(u, op[u].port)' => ports[op'[u].port].refs = {})
    BY <1>1, <1>2, <2>2 DEF Drops
  <2> QED
    BY <2>3, <2>4, <2>5 DEF PortInv
<1>8. AddInv'
  <2>1. op'[t].name \notin Registered'
    BY <1>1, <1>2 DEF Registered
  <2> QED
    BY <1>1, <1>2, <1>4, <2>1 DEF AddInv
<1>9. ClosedInv' /\ ClosingInv'
  <2>1. op'[t].at = "closing" => ports'[op'[t].port].transport \notin open'
    BY <1>2
  <2> QED
    BY <1>1, <1>4, <2>1 DEF ClosedInv, ClosingInv
<1> QED
  BY <1>4, <1>5, <1>6, <1>7, <1>8, <1>9

LEMMA IdentifyKeeps ==
  ASSUME IInv, NEW t \in Tasks, IdentifyAsks(t) \/ Identified(t) \/ IdentifyFails(t)
  PROVE  IInv'
<1> DEFINE p == op[t].port
<1> USE DEF IInv, Types
<1>1. op[t].kind = "add" /\ op[t].at \in {"identifying", "probing"}
  BY DEF IdentifyAsks, Identified, IdentifyFails, At
<1>2. /\ op[t] \in AddType /\ p \in Ports /\ p \in DOMAIN ports /\ Works(t) /\ Owns(t)
      /\ op[t].fresh \in BOOLEAN
      /\ op[t].fresh => ports[p].refs = {}
      /\ op[t].name \notin Registered /\ ~closed
      /\ session[op[t].id].transport = ports[p].transport
  BY <1>1, AddAt DEF AddInv, ClosedInv
<1>3. CASE IdentifyAsks(t)
  <2>1. /\ GoesTo(t, "probing")
        /\ UNCHANGED <<devices, ports, closed, session, retired, open, adds, switches, interrupted, reopened>>
    BY <1>3 DEF IdentifyAsks, registry, bounds, ghosts
  <2> QED
    BY <1>1, <2>1, IdentifyMoves
<1>4. CASE Identified(t)
  <2> DEFINE d == [name |-> op[t].name, port |-> p, id |-> op[t].id]
             f == [ports[p] EXCEPT !.refs = @ \cup {op[t].name}]
  <2>1. /\ Register(t, ports[p])
        /\ UNCHANGED <<closed, session, retired, open, adds, switches, interrupted, reopened>>
    BY <1>4 DEF Identified, bounds, ghosts
  <2>2. devices' = Append(devices, d) /\ ports' = Put(ports, p, f)
    BY <2>1 DEF Register
  <2>3. d \in DeviceType /\ f \in PortType /\ ports[p] \in PortType
    BY <1>2 DEF DeviceType, PortType, AddType, DataTypes
  <2> HIDE DEF d, f
  <2>4. devices' \in Seq(DeviceType)
    BY <2>2, <2>3 DEF DataTypes
  <2>5. DataTypes'
    BY <1>2, <2>1, <2>2, <2>3, <2>4, PutTypes DEF DataTypes
  <2>6. op[t].at # "closing"
    BY <1>1
  <2> QED
    BY <1>1, <1>2, <2>1, <2>3, <2>5, <2>6, RegisterKeeps
<1>5. CASE IdentifyFails(t)
  <2>1. Undo(t) /\ UNCHANGED <<devices, closed, session, retired, adds, switches, interrupted, reopened>>
    BY <1>5 DEF IdentifyFails, bounds, ghosts
  <2>2. CASE op[t].fresh /\ ports[p].transport \in open
    <3>1. GoesTo(t, "closing") /\ open' = open \ {ports[p].transport} /\ UNCHANGED ports
      BY <2>1, <2>2 DEF Undo
    <3> QED
      BY <1>1, <2>1, <2>2, <3>1, IdentifyMoves
  <2>3. CASE ~(op[t].fresh /\ ports[p].transport \in open)
    <3> DEFINE gone == IF op[t].fresh THEN {p} ELSE {}
    <3>1. Done(t) /\ UNCHANGED open /\ ports' = IF op[t].fresh THEN Dropped(ports, {p}) ELSE ports
      BY <2>1, <2>3 DEF Undo
    <3>2. ports = Dropped(ports, {})
      BY DEF Dropped, DataTypes
    <3>3. ports' = Dropped(ports, gone)
      BY <3>1, <3>2
    <3>4. /\ \A q \in DOMAIN ports : Drops(t, q) => q \in gone
          /\ \A q \in gone : ports[q].refs = {} /\ ports[q].transport \notin open
      BY <1>1, <1>2, <2>3 DEF Drops
    <3> HIDE DEF gone
    <3> QED
      BY <1>2, <2>1, <3>1, <3>3, <3>4, CallEnds
  <2> QED
    BY <2>2, <2>3
<1> QED
  BY <1>3, <1>4, <1>5

-----------------------------------------------------------------------------
(* remove and close                                                        *)

LEMMA RemovesKeeps == ASSUME IInv, NEW t \in Tasks, Removes(t) PROVE IInv'
<1> DEFINE e == Entry(op[t].name)
           p == e.port
           port == [ports[p] EXCEPT !.refs = @ \ {e.name}]
<1> USE DEF IInv, Types
<1>1. /\ Owns(t) /\ op[t].kind = "remove" /\ op[t].at = "queued" /\ ~closed /\ op[t].name \in Registered
      /\ UNCHANGED <<closed, session, retired, adds, switches, interrupted, reopened>>
      /\ devices' = RemoveFirst(devices, e)
      /\ IF port.refs = {} /\ port.transport \in open
         THEN /\ op' = [op EXCEPT ![t] = [kind |-> "remove", at |-> "closing", port |-> p]]
              /\ ports' = [ports EXCEPT ![p] = port]
              /\ open' = open \ {port.transport}
              /\ UNCHANGED lock
         ELSE /\ ports' = IF port.refs = {} THEN Dropped(ports, {p}) ELSE [ports EXCEPT ![p] = port]
              /\ Done(t)
              /\ UNCHANGED open
  BY DEF Removes, At, bounds, ghosts
<1>2. /\ e \in ToSet(devices) /\ e.name \in Names /\ p \in Ports /\ p \in DOMAIN ports
      /\ e.id \in 1..MaxAdds /\ e.name \in ports[p].refs
  <2>1. e \in ToSet(devices) /\ e \in DeviceType /\ p \in Ports /\ e.id \in 1..MaxAdds
    BY <1>1, EntryOf
  <2> HIDE DEF e
  <2> QED
    BY <2>1 DEF PortInv, DeviceType
<1> HIDE DEF e
<1>3. /\ port \in PortType /\ port.transport = ports[p].transport /\ port.client = ports[p].client
      /\ port.refs = ports[p].refs \ {e.name}
  BY <1>2 DEF DataTypes, PortType
<1> HIDE DEF port
<1>4. /\ devices' \in Seq(DeviceType) /\ IsInjective(devices')
      /\ ToSet(devices') = ToSet(devices) \ {e}
  BY <1>1, <1>2, RemoveFirstOnce DEF DataTypes, PortInv
<1>5. \A x \in ToSet(devices') : x \in ToSet(devices) /\ x # e /\ x.name # e.name /\ x.id \in 1..MaxAdds
  BY <1>2, <1>4, DevicesTyped DEF PortInv
<1> DEFINE drop == port.refs = {} /\ port.transport \notin open
<1>6. /\ DOMAIN ports' = IF drop THEN DOMAIN ports \ {p} ELSE DOMAIN ports
      /\ \A q \in DOMAIN ports' : ports'[q] = IF q = p THEN port ELSE ports[q]
      /\ ports' = [q \in DOMAIN ports' |-> ports'[q]]
  <2>1. CASE drop
    BY <1>1, <2>1 DEF Dropped
  <2>2. CASE ~drop
    BY <1>1, <1>2, <2>2 DEF DataTypes
  <2> QED
    BY <2>1, <2>2
<1> HIDE DEF drop
<1>7. DataTypes'
  <2>1. DOMAIN ports' \subseteq Ports /\ \A q \in DOMAIN ports' : ports'[q] \in PortType
    BY <1>3, <1>6 DEF DataTypes
  <2>2. open' \subseteq 1..MaxAdds
    BY <1>1 DEF DataTypes
  <2> QED
    BY <1>1, <1>4, <1>6, <2>1, <2>2 DEF DataTypes
<1> DEFINE closing == port.refs = {} /\ port.transport \in open
<1>8. /\ \A u \in Tasks \ {t} : op'[u] = op[u]
      /\ op' = [u \in Tasks |-> op'[u]]
      /\ closing => /\ op'[t] = [kind |-> "remove", at |-> "closing", port |-> p] /\ lock' = lock
                    /\ op'[t].kind = "remove" /\ op'[t].at = "closing" /\ op'[t].port = p
                    /\ open' = open \ {ports[p].transport}
      /\ ~closing => op'[t].kind = "idle" /\ lock' = Tail(lock) /\ open' = open
  BY <1>1, <1>3 DEF Done, Idle, TaskTypes
<1> HIDE DEF closing
<1>9. OpFits(op[t])' /\ (closing => Locks(t)' /\ Works(t)') /\ (~closing => ~Locks(t)' /\ ~Works(t)')
  BY <1>2, <1>8 DEF OpFits, RemoveType, Locks, Works
<1>10. /\ TaskTypes' /\ LockInv' /\ \A u \in Tasks \ {t} : ~Works(u) /\ ~Works(u)'
  BY <1>1, <1>8, <1>9, OwnerStep
<1>11. IdInv'
  <2>1. \A q \in DOMAIN ports' : q \in DOMAIN ports /\ ports'[q].transport = ports[q].transport
    BY <1>2, <1>3, <1>6
  <2> QED
    BY <1>1, <1>5, <1>7, <1>8, <1>10, <2>1, IdsStep
<1>12. ~Works(t)
  BY <1>1 DEF Works
<1>13. PortInv'
  <2>1. ASSUME NEW q \in DOMAIN ports'
        PROVE  ports'[q].refs = {x.name : x \in {y \in ToSet(devices') : y.port = q}}
    <3>1. CASE q = p
      <4>1. ports'[q].refs = ports[p].refs \ {e.name}
        BY <1>3, <1>6, <3>1
      <4> QED
        BY <1>2, <1>4, <1>5, <3>1, <4>1 DEF PortInv
    <3>2. CASE q # p
      BY <1>4, <1>6, <3>2 DEF PortInv
    <3> QED
      BY <3>1, <3>2
  <2>2. ASSUME NEW q \in DOMAIN ports', ports'[q].refs = {}
        PROVE  q \in interrupted' \/ \E u \in Tasks : Drops(u, q)'
    <3>1. CASE q = p
      <4>1. closing
        BY <1>3, <1>6, <2>2, <3>1 DEF closing, drop
      <4> QED
        BY <1>8, <1>9, <3>1, <4>1 DEF Drops
    <3>2. CASE q # p
      <4>1. \A u \in Tasks : ~Drops(u, q)
        BY <1>10, <1>12 DEF Drops
      <4> QED
        BY <1>1, <1>6, <2>2, <3>2, <4>1 DEF PortInv
    <3> QED
      BY <3>1, <3>2
  <2>3. ASSUME NEW x \in ToSet(devices')
        PROVE  x.port \in DOMAIN ports' /\ session'[x.id].transport = ports'[x.port].transport
    <3>1. x.port \in DOMAIN ports /\ session[x.id].transport = ports[x.port].transport
      BY <1>5 DEF PortInv
    <3>2. CASE x.port = p
      <4>1. x.name \in ports[p].refs \ {e.name}
        BY <1>5, <3>2 DEF PortInv
      <4> QED
        BY <1>1, <1>3, <1>6, <3>1, <3>2, <4>1 DEF drop
    <3>3. CASE x.port # p
      BY <1>1, <1>6, <3>1, <3>3
    <3> QED
      BY <3>2, <3>3
  <2>4. \A q, r \in DOMAIN ports' : ports'[q].transport = ports'[r].transport => q = r
    BY <1>2, <1>3, <1>6 DEF PortInv
  <2>5. \A x, y \in ToSet(devices') : x.name = y.name => x = y
    BY <1>5 DEF PortInv
  <2>6. \A u \in Tasks : Works(u)' => u = t /\ closing
    BY <1>9, <1>10
  <2>7. closing => p \in DOMAIN ports' /\ ports'[p].refs = {}
    BY <1>2, <1>6 DEF closing, drop
  <2> QED
    BY <1>4, <1>8, <2>1, <2>2, <2>3, <2>4, <2>5, <2>6, <2>7 DEF PortInv
<1>14. AddInv' /\ ClosedInv' /\ ClosingInv'
  <2>1. \A u \in Tasks : Works(u)' => u = t /\ closing
    BY <1>9, <1>10
  <2>2. closing => ports'[p].transport \notin open'
    BY <1>2, <1>3, <1>6, <1>8 DEF closing, drop
  <2> QED
    BY <1>1, <1>8, <2>1, <2>2 DEF AddInv, ClosedInv, ClosingInv
<1>15. LeakInv'
  <2> SUFFICES ASSUME NEW x \in open', x \notin reopened PROVE x \in Managed(DOMAIN ports)'
    BY <1>1 DEF LeakInv
  <2>1. PICK q \in DOMAIN ports : x = ports[q].transport
    BY <1>8 DEF LeakInv, Managed
  <2>2. q \in DOMAIN ports' /\ ports'[q].transport = x
    BY <1>2, <1>3, <1>6, <1>8, <2>1 DEF drop
  <2> QED
    BY <2>2 DEF Managed
<1> QED
  BY <1>7, <1>10, <1>11, <1>13, <1>14, <1>15

\* The devices before the i-th one, and the names of the others.
LEMMA DevicesBefore ==
  ASSUME DataTypes, PortInv, NEW i \in 1..Len(devices),
         NEW after, after = {devices[j].name : j \in i..Len(devices)},
         NEW front, front = SubSeq(devices, 1, i - 1)
  PROVE  /\ front \in Seq(DeviceType) /\ IsInjective(front)
         /\ ToSet(front) = {x \in ToSet(devices) : x.name \notin after}
<1>1. /\ front \in Seq(DeviceType) /\ Len(front) = i - 1 /\ DOMAIN front = 1..(i - 1)
      /\ \A j \in 1..(i - 1) : front[j] = devices[j]
  BY DEF DataTypes
<1>2. i \in Nat /\ Len(devices) \in Nat /\ DOMAIN devices = 1..Len(devices)
  BY DEF DataTypes
<1>3. \A j, k \in 1..Len(devices) : devices[j].name = devices[k].name => j = k
  BY <1>2 DEF PortInv, IsInjective, ToSet
<1>4. IsInjective(front)
  BY <1>1, <1>2 DEF PortInv, IsInjective
<1>5. ASSUME NEW x \in ToSet(front) PROVE x \in ToSet(devices) /\ x.name \notin after
  <2>1. PICK j \in 1..(i - 1) : x = devices[j]
    BY <1>1 DEF ToSet
  <2> QED
    BY <1>2, <1>3, <2>1 DEF ToSet
<1>6. ASSUME NEW x \in ToSet(devices), x.name \notin after PROVE x \in ToSet(front)
  <2>1. PICK j \in 1..Len(devices) : x = devices[j]
    BY <1>2 DEF ToSet
  <2>2. j \notin i..Len(devices)
    BY <1>6, <2>1
  <2>3. j \in 1..(i - 1)
    BY <1>2, <2>1, <2>2
  <2> QED
    BY <1>1, <2>1, <2>3 DEF ToSet
<1>7. ToSet(front) = {x \in ToSet(devices) : x.name \notin after}
  BY <1>5, <1>6
<1> QED
  BY <1>1, <1>4, <1>7

\* The ports without balances are gone: what close() does from there on.
LEMMA SweepKeeps ==
  ASSUME IInv, NEW t \in Tasks, op[t].kind = "close", Owns(t), ~closed,
         NEW gone, NEW ps, ps = Dropped(ports, gone),
         \A p \in gone : p \in DOMAIN ports => ports[p].refs = {} /\ ports[p].transport \notin open \ reopened,
         \A p \in DOMAIN ports : Drops(t, p) => p \in gone,
         Sweep(t, ps),
         UNCHANGED <<session, retired, adds, switches, interrupted, reopened>>
  PROVE  IInv'
<1> DEFINE After(i)   == {devices[j].name : j \in i..Len(devices)}
           Rest(i)    == {p \in DOMAIN ps : ps[p].refs # {} /\ ps[p].refs \subseteq After(i)}
           Closing(i) == {p \in Rest(i) : ps[p].transport \in open}
           Stops      == {i \in 1..Len(devices) : Closing(i) # {}}
<1> USE DEF IInv, Types
<1>1. DOMAIN ps = DOMAIN ports \ gone /\ \A p \in DOMAIN ps : ps[p] = ports[p]
  BY DEF Dropped
<1>2. \A p \in DOMAIN ps : p \in Ports /\ p \in DOMAIN ports /\ ps[p] \in PortType
  BY <1>1 DEF DataTypes
<1>3. ASSUME NEW x \in ToSet(devices)
      PROVE  /\ x.port \in DOMAIN ps /\ x.name \in ps[x.port].refs
             /\ session[x.id].transport = ps[x.port].transport /\ x.id \in 1..MaxAdds /\ x.name \in Names
  BY <1>1, <1>3, DevicesTyped DEF PortInv
<1>4. \A p \in DOMAIN ps : ps[p].refs = {x.name : x \in {y \in ToSet(devices) : y.port = p}}
  BY <1>1 DEF PortInv
<1>5. ~\E u \in Tasks \ {t} : Works(u)
  BY DEF LockInv, Owns
<1>6. \A p \in DOMAIN ps : ps[p].refs = {} => p \in interrupted
  <2>1. \A u \in Tasks, p \in DOMAIN ps : ~Drops(u, p)
    BY <1>1, <1>5 DEF Drops
  <2> QED
    BY <1>1, <2>1 DEF PortInv
<1>7. ASSUME NEW x \in open, x \notin reopened PROVE \E p \in DOMAIN ps : x = ps[p].transport
  <2>1. PICK p \in DOMAIN ports : x = ports[p].transport
    BY <1>7 DEF LeakInv, Managed
  <2> QED
    BY <1>1, <1>7, <2>1
<1>8. \A p, q \in DOMAIN ps : ps[p].transport = ps[q].transport => p = q
  BY <1>1 DEF PortInv
<1>9. Len(devices) \in Nat /\ DOMAIN devices = 1..Len(devices)
  BY DEF DataTypes
<1>10. CASE Stops = {}
  <2>1. /\ devices' = <<>> /\ closed' = TRUE /\ ports' = Dropped(ps, Rest(1)) /\ Done(t) /\ UNCHANGED open
    BY <1>10 DEF Sweep
  <2>2. /\ DOMAIN ports' = DOMAIN ps \ Rest(1) /\ ports' = [p \in DOMAIN ports' |-> ports'[p]]
        /\ \A p \in DOMAIN ports' : ports'[p] = ps[p]
    BY <2>1 DEF Dropped
  <2>3. \A x \in ToSet(devices) : x.name \in After(1)
    BY <1>9 DEF ToSet
  <2>4. \A p \in DOMAIN ps : ps[p].refs \subseteq After(1)
    BY <1>4, <2>3
  <2>5. \A p \in Rest(1) : ps[p].transport \notin open
    <3> SUFFICES ASSUME NEW p \in Rest(1), ps[p].transport \in open PROVE FALSE
      OBVIOUS
    <3>1. p \in Closing(1) /\ After(1) # {}
      OBVIOUS
    <3>2. 1 \in 1..Len(devices)
      BY <1>9, <3>1
    <3> QED
      BY <1>10, <3>1, <3>2
  <2>6. \A p \in DOMAIN ports' : ports'[p].refs = {}
    BY <2>2, <2>4
  <2> HIDE DEF After, Rest, Closing, Stops
  <2>7. ToSet(devices') = {} /\ IsInjective(devices')
    BY <2>1 DEF ToSet, IsInjective
  <2>8. DataTypes'
    BY <1>2, <2>1, <2>2 DEF DataTypes
  <2>9. /\ op'[t].kind = "idle" /\ lock' = Tail(lock)
        /\ (\A u \in Tasks \ {t} : op'[u] = op[u]) /\ op' = [u \in Tasks |-> op'[u]]
    BY <2>1 DEF Done, Idle, TaskTypes
  <2>10. ~Locks(t)' /\ OpFits(op[t])' /\ ~Works(t)'
    BY <2>9 DEF Locks, OpFits, Works
  <2>11. /\ TaskTypes' /\ LockInv' /\ \A u \in Tasks \ {t} : ~Works(u) /\ ~Works(u)'
    BY <2>9, <2>10, OwnerStep
  <2>12. IdInv'
    BY <1>1, <2>1, <2>2, <2>7, <2>8, <2>9, <2>11, IdsStep
  <2>13. PortInv'
    BY <1>6, <1>8, <2>2, <2>6, <2>7, <2>10, <2>11 DEF PortInv
  <2>14. AddInv' /\ ClosedInv' /\ ClosingInv'
    BY <2>1, <2>10, <2>11 DEF AddInv, ClosedInv, ClosingInv
  <2>15. LeakInv'
    BY <1>7, <2>1, <2>2, <2>5 DEF LeakInv, Managed
  <2> QED
    BY <2>8, <2>11, <2>12, <2>13, <2>14, <2>15
<1>11. CASE Stops # {}
  <2>1. PICK i \in Stops, p \in DOMAIN ps :
          /\ p \in Closing(i)
          /\ \A j \in Stops : j <= i
          /\ devices' = SubSeq(devices, 1, i - 1)
          /\ ports' = [q \in DOMAIN ps \ (Rest(i) \ {p}) |-> [ps[q] EXCEPT !.refs = @ \ After(i)]]
          /\ open' = open \ {ps[p].transport}
          /\ op' = [op EXCEPT ![t] = [kind |-> "close", at |-> "closing", port |-> p]]
          /\ UNCHANGED <<lock, closed>>
    BY <1>11 DEF Sweep
  <2>2. i \in 1..Len(devices) /\ p \in Rest(i) /\ ps[p].refs # {} /\ ps[p].refs \subseteq After(i)
    <3>1. i \in 1..Len(devices)
      OBVIOUS
    <3>2. p \in Rest(i)
      BY <2>1
    <3> HIDE DEF Closing, Stops
    <3> QED
      BY <3>1, <3>2
  <2>3. /\ devices' \in Seq(DeviceType) /\ IsInjective(devices')
        /\ ToSet(devices') = {x \in ToSet(devices) : x.name \notin After(i)}
    <3> HIDE DEF Rest, Closing, Stops
    <3> QED
      BY <2>1, <2>2, DevicesBefore, ZenonT(30)
  <2>4. ASSUME NEW q \in Rest(i), q # p PROVE ps[q].transport \notin open
    <3> SUFFICES ASSUME ps[q].transport \in open PROVE FALSE
      OBVIOUS
    <3>1. ASSUME NEW r \in Rest(i), ps[r].transport \in open, devices[i].name \notin ps[r].refs PROVE FALSE
      <4>1. PICK n \in ps[r].refs : TRUE
        BY <3>1
      <4>2. PICK j \in i..Len(devices) : n = devices[j].name
        BY <3>1, <4>1
      <4>3. j # i /\ i + 1 \in 1..Len(devices)
        BY <1>9, <2>2, <3>1, <4>1, <4>2
      <4>4. ps[r].refs \subseteq After(i + 1)
        <5> SUFFICES ASSUME NEW m \in ps[r].refs PROVE m \in After(i + 1)
          OBVIOUS
        <5>1. PICK k \in i..Len(devices) : m = devices[k].name
          BY <3>1
        <5>2. k # i
          BY <3>1, <5>1
        <5>3. k \in (i + 1)..Len(devices)
          BY <1>9, <2>2, <5>1, <5>2
        <5> QED
          BY <5>1, <5>3
      <4>5. r \in Closing(i + 1)
        BY <3>1, <4>4
      <4>6. i + 1 \in Stops
        BY <4>3, <4>5
      <4> HIDE DEF Stops
      <4> QED
        BY <2>1, <2>2, <4>6
    <3>2. devices[i].name \in ps[p].refs /\ devices[i].name \in ps[q].refs
      BY <2>1, <2>2, <2>4, <3>1
    <3>3. devices[i] \in ToSet(devices)
      BY <1>9, <2>2 DEF ToSet
    <3>4. \A r \in DOMAIN ps : devices[i].name \in ps[r].refs => devices[i].port = r
      BY <1>4, <3>3 DEF PortInv
    <3> QED
      BY <2>2, <2>4, <3>2, <3>4
  <2> DEFINE after == After(i)
             rest  == Rest(i)
  <2>5. /\ \A q \in DOMAIN ps : q \in rest <=> ps[q].refs # {} /\ ps[q].refs \subseteq after
        /\ rest \subseteq DOMAIN ps
    OBVIOUS
  <2>6. /\ ToSet(devices') = {x \in ToSet(devices) : x.name \notin after}
        /\ ports' = [q \in DOMAIN ps \ (rest \ {p}) |-> [ps[q] EXCEPT !.refs = @ \ after]]
        /\ p \in rest /\ open' = open \ {ps[p].transport} /\ UNCHANGED <<lock, closed>>
        /\ op' = [op EXCEPT ![t] = [kind |-> "close", at |-> "closing", port |-> p]]
        /\ \A q \in rest : q # p => ps[q].transport \notin open
    BY <2>1, <2>2, <2>3, <2>4
  <2> HIDE DEF after, rest, After, Rest, Closing, Stops
  <2>7. DOMAIN ports' = DOMAIN ps \ (rest \ {p}) /\ ports' = [q \in DOMAIN ports' |-> ports'[q]]
    BY <2>6
  <2>8. \A q \in DOMAIN ports' : /\ ports'[q] \in PortType /\ ports'[q].transport = ps[q].transport
                                 /\ ports'[q].refs = ps[q].refs \ after
    BY <1>2, <2>6, <2>7 DEF PortType
  <2>9. p \in Ports /\ p \in DOMAIN ps /\ p \in DOMAIN ports'
    BY <1>2, <2>5, <2>6, <2>7
  <2>10. DataTypes'
    <3>1. DOMAIN ports' \subseteq Ports /\ open' \subseteq 1..MaxAdds
      BY <1>2, <2>6, <2>7 DEF DataTypes
    <3> QED
      BY <2>3, <2>6, <2>7, <2>8, <3>1 DEF DataTypes
  <2>11. /\ op'[t] = [kind |-> "close", at |-> "closing", port |-> p]
         /\ op'[t].kind = "close" /\ op'[t].at = "closing" /\ op'[t].port = p
         /\ (\A u \in Tasks \ {t} : op'[u] = op[u]) /\ op' = [u \in Tasks |-> op'[u]]
    BY <2>6 DEF TaskTypes
  <2>12. Locks(t)' /\ Works(t)' /\ OpFits(op[t])'
    BY <2>9, <2>11 DEF Locks, Works, OpFits, CloseType
  <2>13. /\ TaskTypes' /\ LockInv' /\ \A u \in Tasks \ {t} : ~Works(u) /\ ~Works(u)'
    BY <2>6, <2>11, <2>12, OwnerStep
  <2>14. IdInv'
    <3>1. \A q \in DOMAIN ports' : q \in DOMAIN ports /\ ports'[q].transport = ports[q].transport
      BY <1>1, <2>7, <2>8
    <3>2. \A x \in ToSet(devices') : x \in ToSet(devices)
      BY <2>6
    <3>3. \A x \in open' : x \in open
      BY <2>6
    <3> QED
      BY <2>10, <2>11, <2>13, <3>1, <3>2, <3>3, IdsStep
  <2>15. PortInv'
    <3>1. ASSUME NEW q \in DOMAIN ports'
          PROVE  ports'[q].refs = {x.name : x \in {y \in ToSet(devices') : y.port = q}}
      <4>1. ports'[q].refs = {x.name : x \in {y \in ToSet(devices) : y.port = q}} \ after
        BY <1>4, <2>7, <2>8
      <4> QED
        BY <2>6, <4>1
    <3>2. ASSUME NEW q \in DOMAIN ports', ports'[q].refs = {}
          PROVE  q \in interrupted' \/ \E u \in Tasks : Drops(u, q)'
      <4>1. CASE q = p
        BY <2>11, <2>12, <4>1 DEF Drops
      <4>2. CASE q # p
        BY <1>6, <2>5, <2>7, <2>8, <3>2, <4>2
      <4> QED
        BY <4>1, <4>2
    <3>3. ASSUME NEW x \in ToSet(devices')
          PROVE  x.port \in DOMAIN ports' /\ session'[x.id].transport = ports'[x.port].transport
      <4>1. x \in ToSet(devices) /\ x.name \notin after
        BY <2>6
      <4>2. x.port \in DOMAIN ports'
        BY <1>3, <2>5, <2>7, <4>1
      <4> QED
        BY <1>3, <2>8, <4>1, <4>2
    <3>4. \A q, r \in DOMAIN ports' : ports'[q].transport = ports'[r].transport => q = r
      BY <1>8, <2>7, <2>8
    <3>5. \A x, y \in ToSet(devices') : x.name = y.name => x = y
      BY <2>6 DEF PortInv
    <3>6. ports'[p].refs = {}
      BY <2>5, <2>6, <2>8, <2>9
    <3> QED
      BY <2>3, <2>9, <2>11, <2>13, <3>1, <3>2, <3>3, <3>4, <3>5, <3>6 DEF PortInv
  <2>16. AddInv' /\ ClosedInv' /\ ClosingInv'
    BY <2>6, <2>8, <2>9, <2>11, <2>13 DEF AddInv, ClosedInv, ClosingInv
  <2>17. LeakInv'
    <3> SUFFICES ASSUME NEW x \in open', x \notin reopened PROVE x \in Managed(DOMAIN ports)'
      BY DEF LeakInv
    <3>1. PICK q \in DOMAIN ps : x = ps[q].transport
      BY <1>7, <2>6
    <3>2. q \in DOMAIN ports' /\ ports'[q].transport = x
      BY <2>6, <2>7, <2>8, <3>1
    <3> QED
      BY <3>2 DEF Managed
  <2> QED
    BY <2>10, <2>13, <2>14, <2>15, <2>16, <2>17
<1> QED
  BY <1>10, <1>11

LEMMA ClosesKeeps == ASSUME IInv, NEW t \in Tasks, Closes(t) PROVE IInv'
<1>1. /\ Owns(t) /\ op[t].kind = "close" /\ op[t].at = "queued" /\ Locks(t) /\ ~Works(t)
      /\ UNCHANGED <<session, retired, adds, switches, interrupted, reopened>>
  BY DEF Closes, At, Locks, Works, bounds, ghosts
<1>2. CASE closed
  <2>1. Done(t) /\ UNCHANGED <<devices, ports, closed, open>>
    BY <1>2 DEF Closes, registry
  <2> QED
    BY <1>1, <2>1, RefusalKeeps
<1>3. CASE ~closed
  <2>1. Sweep(t, ports)
    BY <1>3 DEF Closes
  <2>2. ports = Dropped(ports, {})
    BY DEF Dropped, IInv, Types, DataTypes
  <2>3. \A p \in DOMAIN ports : ~Drops(t, p)
    BY <1>1 DEF Drops
  <2> QED
    BY <1>1, <1>3, <2>1, <2>2, <2>3, SweepKeeps
<1> QED
  BY <1>2, <1>3

LEMMA TornDownKeeps == ASSUME IInv, NEW t \in Tasks, TornDown(t) PROVE IInv'
<1> DEFINE p == op[t].port
           gone == {p}
<1>1. /\ op[t].kind \in {"add", "remove", "close"} /\ op[t].at = "closing" /\ Works(t)
      /\ UNCHANGED <<session, retired, adds, switches, interrupted, reopened>>
  BY DEF TornDown, Locks, Works, bounds, ghosts
<1>2. Owns(t) /\ ~closed
  BY <1>1 DEF IInv, LockInv, ClosedInv
<1>3. Drops(t, p)
  BY <1>1 DEF IInv, AddInv, Drops
<1>4. p \in DOMAIN ports /\ ports[p].refs = {} /\ ports[p].transport \notin open \ reopened
  BY <1>1, <1>3 DEF IInv, PortInv, ClosingInv
<1>5. \A q \in gone : ports[q].refs = {} /\ ports[q].transport \notin open \ reopened
  BY <1>4
<1>6. \A q \in DOMAIN ports : Drops(t, q) => q \in gone
  BY DEF Drops
<1>7. CASE op[t].kind = "close"
  <2>1. Sweep(t, Dropped(ports, gone))
    BY <1>7 DEF TornDown
  <2> HIDE DEF gone
  <2> QED
    BY <1>1, <1>2, <1>5, <1>6, <1>7, <2>1, SweepKeeps
<1>8. CASE op[t].kind # "close"
  <2>1. ports' = Dropped(ports, gone) /\ Done(t) /\ UNCHANGED <<devices, closed, open>>
    BY <1>8 DEF TornDown
  <2> HIDE DEF gone
  <2> QED
    BY <1>1, <1>5, <1>6, <2>1, CallEnds
<1> QED
  BY <1>7, <1>8

-----------------------------------------------------------------------------
(* Cancellation.                                                           *)

\* A task that is cancelled leaves the queue of the state lock, or its head.
LEMMA CancelStep ==
  ASSUME TaskTypes, LockInv, NEW t \in Tasks,
         op' = [op EXCEPT ![t] = Idle], lock' = RemoveFirst(lock, t)
  PROVE  /\ TaskTypes' /\ LockInv' /\ ~Works(t)'
         /\ op'[t].kind = "idle" /\ \A u \in Tasks \ {t} : op'[u] = op[u]
         /\ \A u \in Tasks \ {t} : Works(u)' <=> Works(u)
<1>1. op'[t].kind = "idle" /\ (\A u \in Tasks \ {t} : op'[u] = op[u]) /\ op' = [u \in Tasks |-> op'[u]]
  BY DEF Idle, TaskTypes
<1>2. ~Locks(t)' /\ ~Works(t)' /\ OpFits(op[t])'
  BY <1>1 DEF Locks, Works, OpFits
<1>3. \A u \in Tasks \ {t} : (Works(u)' <=> Works(u)) /\ (Locks(u)' <=> Locks(u))
  BY <1>1 DEF Works, Locks
<1>4. \A u \in Tasks : OpFits(op[u])'
  BY <1>1, <1>2 DEF TaskTypes
<1>5. {u \in Tasks : Locks(u)}' = {u \in Tasks : Locks(u)} \ {t}
  BY <1>2, <1>3
<1>6. /\ lock' \in Seq(Tasks) /\ IsInjective(lock') /\ ToSet(lock') = ToSet(lock) \ {t}
      /\ lock # <<>> /\ t # Head(lock) => lock' # <<>> /\ Head(lock') = Head(lock)
  <2>1. CASE t \in ToSet(lock)
    BY <2>1, RemoveFirstOnce DEF TaskTypes
  <2>2. CASE t \notin ToSet(lock)
    <3>1. ~\E i \in 1..Len(lock) : lock[i] = t
      BY <2>2 DEF ToSet, TaskTypes
    <3>2. lock' = lock
      BY <3>1 DEF RemoveFirst
    <3> QED
      BY <2>2, <3>2 DEF TaskTypes
  <2> QED
    BY <2>1, <2>2
<1>7. LockInv'
  <2> SUFFICES ASSUME NEW u \in Tasks, Works(u)' PROVE Owns(u)'
    BY DEF LockInv
  <2>1. u # t /\ Owns(u)
    BY <1>2, <1>3 DEF LockInv
  <2> QED
    BY <1>6, <2>1 DEF Owns
<1>8. TaskTypes'
  BY <1>1, <1>4, <1>5, <1>6 DEF TaskTypes
<1> QED
  BY <1>1, <1>2, <1>3, <1>7, <1>8

LEMMA CancelKeeps == ASSUME IInv, NEW t \in Tasks, Cancel(t) PROVE IInv'
<1> DEFINE p == op[t].port
           undone == op[t].kind = "add" /\ op[t].at \in {"opening", "identifying", "probing"} /\ op[t].fresh
           torn == \/ op[t].kind \in {"add", "remove", "close"} /\ op[t].at = "closing"
                   \/ undone /\ ports[p].transport \in open
           gone == IF undone /\ ~torn THEN {p} ELSE {}
<1> USE DEF IInv, Types
<1>1. /\ op' = [op EXCEPT ![t] = Idle] /\ lock' = RemoveFirst(lock, t)
      /\ UNCHANGED <<devices, closed, session, retired, adds, switches, reopened>>
      /\ interrupted' = IF torn THEN interrupted \cup {p} ELSE interrupted
      /\ ports' = IF undone /\ ~torn THEN Dropped(ports, {p}) ELSE ports
      /\ open' = IF undone THEN open \ {ports[p].transport} ELSE open
  BY DEF Cancel, bounds
<1>2. ports = Dropped(ports, {})
  BY DEF Dropped, DataTypes
<1>3. ports' = Dropped(ports, gone)
  BY <1>1, <1>2
<1>4. undone \/ torn => Works(t)
  BY DEF Works, Locks
<1>5. Works(t) => p \in DOMAIN ports /\ p \in Ports /\ Owns(t)
  BY DEF PortInv, LockInv, DataTypes
<1>6. Works(t) => \A q \in DOMAIN ports : Drops(t, q) => q = p /\ (undone \/ torn)
  BY DEF Drops, Works, Locks, TaskTypes, OpFits, AddType, RemoveType, CloseType
<1>7. undone => Drops(t, p) /\ ports[p].refs = {}
  BY <1>4 DEF Drops, PortInv
<1>8. undone /\ ~torn => ports[p].transport \notin open
  OBVIOUS
<1>9. /\ interrupted \subseteq interrupted' /\ (torn => p \in interrupted')
      /\ open' \subseteq open
  BY <1>1
<1>10. gone \subseteq {p} /\ (gone # {} => undone /\ ~torn) /\ (undone /\ ~torn => p \in gone)
  OBVIOUS
<1>11. ~Works(t) => ports' = ports /\ open' = open /\ interrupted' = interrupted
  BY <1>1, <1>4
<1>12. interrupted' \subseteq Ports
  BY <1>1, <1>4, <1>5 DEF DataTypes
<1> HIDE DEF gone, undone, torn
<1>13. DataTypes'
  <2>1. /\ ports' = [q \in DOMAIN ports' |-> ports'[q]] /\ DOMAIN ports' \subseteq Ports
        /\ \A q \in DOMAIN ports' : ports'[q] \in PortType
    BY <1>3 DEF Dropped, DataTypes
  <2> QED
    BY <1>1, <1>9, <1>12, <2>1 DEF DataTypes
<1>14. /\ TaskTypes' /\ LockInv' /\ ~Works(t)'
       /\ op'[t].kind = "idle" /\ \A u \in Tasks \ {t} : op'[u] = op[u]
       /\ \A u \in Tasks \ {t} : Works(u)' <=> Works(u)
  BY <1>1, CancelStep
<1>15. CASE ~Works(t)
  <2>1. \A u \in Tasks : (Works(u) => op'[u] = op[u]) /\ (Works(u)' => Works(u))
    BY <1>14, <1>15
  <2>2. PortInv' /\ AddInv' /\ ClosedInv' /\ ClosingInv'
    BY <1>1, <1>11, <1>15, <2>1, RegistryKept
  <2>3. \A u \in Tasks : op'[u].kind = "switch" => op'[u].id \in 1..MaxAdds /\ session[op'[u].id].transport # 0
    BY <1>14 DEF TaskTypes, OpFits, SwitchType, IdInv
  <2>4. 0 \notin open'
    BY <1>13 DEF DataTypes
  <2>5. IdInv'
    BY <1>1, <1>11, <1>14, <1>15, <2>3, <2>4, IdsKept
  <2>6. LeakInv'
    BY <1>1, <1>11, <1>15 DEF LeakInv, Managed
  <2> QED
    BY <1>13, <1>14, <2>2, <2>5, <2>6
<1>16. CASE Works(t)
  <2>1. \A u \in Tasks \ {t} : ~Works(u)
    BY <1>5, <1>16 DEF LockInv, Owns
  <2>2. \A u \in Tasks : ~Works(u)'
    BY <1>14, <2>1
  <2>3. DOMAIN ports' = DOMAIN ports \ gone /\ \A q \in DOMAIN ports' : ports'[q] = ports[q]
    BY <1>3 DEF Dropped
  <2>4. PortInv'
    <3>1. \A q \in gone : ports[q].refs = {}
      BY <1>7, <1>10
    <3>2. \A q \in DOMAIN ports : Drops(t, q) => q \in gone \cup interrupted'
      BY <1>6, <1>9, <1>10, <1>16
    <3> QED
      BY <1>1, <1>3, <1>9, <2>1, <2>2, <3>1, <3>2, PortsDropped
  <2>5. AddInv' /\ ClosedInv' /\ ClosingInv'
    BY <1>1, <2>2 DEF AddInv, ClosedInv, ClosingInv
  <2>6. IdInv'
    BY <1>1, <1>9, <1>13, <1>14, <2>1, <2>3, IdsStep
  <2>7. LeakInv'
    <3> SUFFICES ASSUME NEW x \in open', x \notin reopened PROVE x \in Managed(DOMAIN ports)'
      BY <1>1 DEF LeakInv
    <3>1. PICK q \in DOMAIN ports : x = ports[q].transport
      BY <1>9 DEF LeakInv, Managed
    <3>2. q \notin gone
      BY <1>8, <1>9, <1>10, <3>1 DEF gone
    <3> QED
      BY <2>3, <3>1, <3>2 DEF Managed
  <2> QED
    BY <1>13, <1>14, <2>4, <2>5, <2>6, <2>7
<1> QED
  BY <1>15, <1>16

-----------------------------------------------------------------------------
(* The invariant.                                                          *)

LEMMA StutterKeeps == IInv /\ UNCHANGED vars => IInv'
<1> SUFFICES ASSUME IInv, UNCHANGED vars PROVE IInv'
  OBVIOUS
<1>1. UNCHANGED <<lock, devices, ports, closed, session, retired, open, op, adds, switches,
                  interrupted, reopened>>
  BY DEF vars, registry, bounds, ghosts
<1> USE DEF IInv, Types
<1>2. Types'
  <2>1. \A t \in Tasks : OpFits(op[t])' /\ (Locks(t)' <=> Locks(t))
    BY <1>1 DEF TaskTypes, OpFits, PollFits, GroupFits, Locks
  <2>2. TaskTypes'
    BY <1>1, <2>1 DEF TaskTypes
  <2>3. DataTypes'
    BY <1>1 DEF DataTypes
  <2> QED
    BY <2>2, <2>3
<1>3. LockInv' /\ AddInv' /\ ClosedInv' /\ LeakInv' /\ ClosingInv'
  BY <1>1 DEF LockInv, Works, Locks, Owns, AddInv, Registered, ClosedInv, LeakInv, Managed, ClosingInv
<1>4. IdInv'
  BY <1>1 DEF IdInv, Untouched
<1>5. PortInv'
  BY <1>1 DEF PortInv, Drops, Works, Locks
<1> QED
  BY <1>2, <1>3, <1>4, <1>5

\* At every await of every call, under every interleaving and cancellation.
THEOREM Invariance == Spec => []IInv
<1>1. Init => IInv
  BY InitHolds
<1>2. IInv /\ [Next]_vars => IInv'
  <2> SUFFICES ASSUME IInv, [Next]_vars PROVE IInv'
    OBVIOUS
  <2>1. ASSUME NEW t \in Tasks, Administer(t) PROVE IInv'
    BY <2>1, CallAddKeeps, RefusedKeeps, AddResolvesKeeps, AddOpenedKeeps, IdentifyKeeps, CallsKeep,
       RemovesKeeps, ClosesKeeps, TornDownKeeps DEF Administer
  <2>2. ASSUME NEW t \in Tasks, Dispatch(t) \/ Configure(t) \/ Cancel(t) PROVE IInv'
    BY <2>2, DispatchKeeps, ConfigureKeeps, CancelKeeps
  <2>3. CASE UNCHANGED vars
    BY <2>3, StutterKeeps
  <2> QED
    BY <2>1, <2>2, <2>3 DEF Next
<1> QED
  BY <1>1, <1>2, PTL DEF Spec

\* What the run checks of the types, from the types the proof needs.
LEMMA TypesSuffice == IInv /\ stale \subseteq 1..MaxAdds => TypeOK
<1> SUFFICES ASSUME IInv, stale \subseteq 1..MaxAdds PROVE TypeOK
  OBVIOUS
<1> USE DEF IInv, Types
<1>1. ToSet(lock) = {t \in Tasks : op[t].kind \in {"add", "remove", "close"}} /\ DOMAIN op = Tasks
  BY DEF TaskTypes, Locks
<1>2. ToSet(devices) \subseteq [name : Names, port : Ports, id : 1..MaxAdds]
  BY DevicesTyped DEF DeviceType
<1>3. \A p \in DOMAIN ports :
        ports[p] \in [transport : 1..MaxAdds, client : 0..MaxAdds, refs : SUBSET Names]
  BY DEF DataTypes, PortType
<1>4. session \in [1..MaxAdds -> [client : 0..(MaxAdds + MaxSwitches), transport : 0..MaxAdds]]
  BY DEF DataTypes, Clients
<1> QED
  BY <1>1, <1>2, <1>3, <1>4 DEF TypeOK, TaskTypes, DataTypes

\* When the state lock is free, no call is half way.
LEMMA NoneAtWork == IInv /\ lock = <<>> => \A t \in Tasks, p \in Ports : ~Works(t) /\ ~Drops(t, p)
BY DEF IInv, LockInv, Owns, Drops

\* Only the start of a switch marks a transport.
LEMMA StaleTyped == Spec => [](stale \subseteq 1..MaxAdds)
<1>1. Init => stale \subseteq 1..MaxAdds
  BY DEF Init
<1>2. IInv /\ stale \subseteq 1..MaxAdds /\ [Next]_vars => (stale \subseteq 1..MaxAdds)'
  <2> SUFFICES ASSUME IInv, stale \subseteq 1..MaxAdds, [Next]_vars PROVE (stale \subseteq 1..MaxAdds)'
    OBVIOUS
  <2>1. ASSUME NEW t \in Tasks, Administer(t) PROVE UNCHANGED stale
    <3>1. CASE CallAdd(t) \/ CallRemove(t) \/ CallClose(t)
      BY <3>1 DEF CallAdd, CallRemove, CallClose, Enter, ghosts
    <3>2. CASE AddRefused(t) \/ AddResolves(t) \/ AddOpened(t) \/ AddOpenFails(t)
      BY <3>2 DEF AddRefused, AddResolves, AddOpened, AddOpenFails, ghosts
    <3>3. CASE IdentifyAsks(t) \/ Identified(t) \/ IdentifyFails(t)
      BY <3>3 DEF IdentifyAsks, Identified, IdentifyFails, ghosts
    <3>4. CASE RemoveRefused(t) \/ Removes(t) \/ Closes(t) \/ TornDown(t)
      BY <3>4 DEF RemoveRefused, Removes, Closes, TornDown, ghosts
    <3> QED
      BY <2>1, <3>1, <3>2, <3>3, <3>4 DEF Administer
  <2>2. ASSUME NEW t \in Tasks, Dispatch(t) PROVE UNCHANGED stale
    BY <2>2, DispatchStep DEF ghosts
  <2>3. ASSUME NEW t \in Tasks, Configure(t) PROVE stale' \subseteq 1..MaxAdds
    <3>1. CASE SwitchStarts(t)
      <4>1. op[t].id \in 1..MaxAdds /\ session[op[t].id].transport # 0
        BY <3>1 DEF SwitchStarts, At, IInv, IdInv, Types, TaskTypes, OpFits, SwitchType
      <4>2. session[op[t].id].transport \in 1..MaxAdds
        BY <4>1 DEF IInv, Types, DataTypes
      <4> QED
        BY <3>1, <4>2 DEF SwitchStarts
    <3>2. CASE Switch(t) \/ SwitchReopens(t) \/ Switched(t) \/ SwitchFails(t)
      BY <3>2 DEF Switch, SwitchReopens, Switched, SwitchFails, ghosts
    <3> QED
      BY <2>3, <3>1, <3>2 DEF Configure
  <2>4. ASSUME NEW t \in Tasks, Cancel(t) PROVE UNCHANGED stale
    BY <2>4 DEF Cancel
  <2>5. CASE UNCHANGED vars
    BY <2>5 DEF vars, ghosts
  <2> QED
    BY <2>1, <2>2, <2>3, <2>4, <2>5 DEF Next
<1> QED
  BY <1>1, <1>2, Invariance, PTL DEF Spec

\* The references of a port are the balances on it, whatever failed or was cancelled.
THEOREM RegistryAgrees == Spec => []RefsAgree
<1>1. IInv /\ stale \subseteq 1..MaxAdds => RefsAgree
  <2> SUFFICES ASSUME IInv, stale \subseteq 1..MaxAdds PROVE RefsAgree
    OBVIOUS
  <2>1. lock = <<>> => \A p \in DOMAIN ports : ports[p].refs = {} => p \in interrupted
    BY NoneAtWork DEF IInv, Types, DataTypes, PortInv
  <2> QED
    BY <2>1, TypesSuffice DEF RefsAgree, IInv, PortInv
<1> QED
  BY <1>1, Invariance, StaleTyped, PTL

\* No transport is left open that the manager does not know, but behind its back.
THEOREM NothingLeaked == Spec => []NothingLeaks
<1>1. IInv => NothingLeaks
  <2> SUFFICES ASSUME IInv PROVE NothingLeaks
    OBVIOUS
  <2>1. ASSUME closed PROVE devices = <<>> /\ DOMAIN ports \subseteq interrupted
    <3>1. devices = <<>> /\ ToSet(devices) = {} /\ \A t \in Tasks : ~Works(t)
      BY <2>1 DEF IInv, ClosedInv, ToSet
    <3>2. \A p \in DOMAIN ports : ports[p].refs = {} /\ ~\E t \in Tasks : Drops(t, p)
      BY <3>1 DEF IInv, PortInv, Drops
    <3> QED
      BY <3>1, <3>2 DEF IInv, PortInv
  <2> QED
    BY <2>1 DEF NothingLeaks, IInv, LeakInv
<1> QED
  BY <1>1, Invariance, PTL

-----------------------------------------------------------------------------
(* Where no switch has held a disposed client, a port is used by one       *)
(* request at a time.                                                      *)

\* Ports keep their clients, and a port that is new has no session.
SameClients ==
  \A p \in DOMAIN ports' :
    \/ p \in DOMAIN ports /\ ports'[p].transport = ports[p].transport /\ ports'[p].client = ports[p].client
    \/ \A i \in 1..MaxAdds : session[i].transport # ports'[p].transport

LEMMA UserBusy == ASSUME NEW t \in Tasks, NEW p \in Ports, NEW c, Uses(t, p, c) PROVE Busy(c)
BY DEF Uses, Busy

\* A task's uses depend on its call and its session.
LEMMA UsesSame ==
  ASSUME NEW u \in Tasks, op'[u] = op[u],
         op[u].kind = "add" => session'[op[u].id] = session[op[u].id]
  PROVE  \A p \in Ports, c \in Clients : Uses(u, p, c)' <=> Uses(u, p, c)
BY DEF Uses, At, Switching, Groups

\* A call that is under way keeps its place in the invariant.
LEMMA PolledCurrent ==
  ASSUME NEW t \in Tasks, NEW p \in Ports, Polled(t, p)', UNCHANGED session, NEW g, op'[t].group[p] = g,
         g.id \in 1..MaxAdds, session[g.id].transport # 0, g.client \in Clients
  PROVE  Current(op[t].group[p])'
<1>1. Holds(session[g.id].transport, g.client)'
  BY DEF Holds
<1> QED
  BY <1>1 DEF Current

\* A step of t that leaves the sessions and gives it at most a client nobody uses.
LEMMA UsesStep ==
  ASSUME IInv, SInv, NEW t \in Tasks, UNCHANGED <<session, retired>>, stale \subseteq stale', SameClients,
         \A u \in Tasks \ {t} : op'[u] = op[u],
         \A p \in Ports, c \in Clients : Uses(t, p, c)' =>
           \/ Uses(t, p, c) /\ op'[t].kind = op[t].kind
           \/ ~Busy(c) /\ (c \notin retired \/ OnStale(t)'),
         \A p, q \in Ports, c \in Clients : Uses(t, p, c)' /\ Uses(t, q, c)' => p = q,
         op'[t].kind = "switch" =>
           op[t].kind = "switch" /\ op'[t].client = op[t].client /\ op'[t].id = op[t].id,
         op'[t].kind = "add" =>
           (op[t].kind = "add" /\ op'[t].id = op[t].id) \/ session[op'[t].id].transport = 0,
         \A p \in Ports : Polled(t, p)' => Current(op'[t].group[p])
  PROVE  SInv'
<1>1. \A u \in Tasks \ {t}, p \in Ports, c \in Clients : Uses(u, p, c)' <=> Uses(u, p, c)
  BY UsesSame
<1>2. UseInv'
  <2>1. ASSUME NEW u \in Tasks, NEW v \in Tasks, NEW p \in Ports, NEW q \in Ports, NEW c \in Clients,
               Uses(u, p, c)', Uses(v, q, c)'
        PROVE  u = v /\ p = q
    <3>1. CASE u # t /\ v # t
      BY <1>1, <2>1, <3>1 DEF SInv, UseInv
    <3>2. CASE u = t /\ v = t
      BY <2>1, <3>2
    <3>3. CASE u = t /\ v # t
      <4>1. Uses(v, q, c) /\ Busy(c)
        BY <1>1, <2>1, <3>3, UserBusy
      <4>2. Uses(t, p, c)
        BY <2>1, <3>3, <4>1
      <4> QED
        BY <3>3, <4>1, <4>2 DEF SInv, UseInv
    <3>4. CASE u # t /\ v = t
      <4>1. Uses(u, p, c) /\ Busy(c)
        BY <1>1, <2>1, <3>4, UserBusy
      <4>2. Uses(t, q, c)
        BY <2>1, <3>4, <4>1
      <4> QED
        BY <3>4, <4>1, <4>2 DEF SInv, UseInv
    <3> QED
      BY <3>1, <3>2, <3>3, <3>4
  <2>2. ASSUME NEW u \in Tasks, NEW p \in Ports, NEW c \in Clients, Uses(u, p, c)', c \in retired
        PROVE  OnStale(u)'
    <3>1. CASE u # t
      BY <1>1, <2>2, <3>1 DEF SInv, UseInv, OnStale
    <3>2. CASE u = t
      BY <2>2, <3>2 DEF SInv, UseInv, OnStale
    <3> QED
      BY <3>1, <3>2
  <2> QED
    BY <2>1, <2>2 DEF UseInv
<1>3. ClientInv'
  <2>1. ASSUME NEW tr \in 1..MaxAdds, NEW c \in Clients, Holds(tr, c)' PROVE Holds(tr, c)
    <3>1. CASE \E i \in 1..MaxAdds : session'[i].transport = tr /\ session'[i].client = c
      BY <3>1 DEF Holds
    <3>2. CASE \E p \in DOMAIN ports' : ports'[p].transport = tr /\ ports'[p].client = c /\ Occupied(tr)'
      BY <3>2 DEF Holds, SameClients, Occupied
    <3>3. CASE \E u \in Tasks : op'[u].kind = "switch" /\ session'[op'[u].id].transport = tr /\ op'[u].client = c
      BY <3>3 DEF Holds
    <3>4. ASSUME NEW u \in Tasks, NEW p \in Ports, Polled(u, p)',
                 session'[op'[u].group[p].id].transport = tr, op'[u].group[p].client = c
          PROVE  Holds(tr, c)
      <4>1. CASE u = t
        BY <3>4, <4>1 DEF Current
      <4>2. CASE u # t
        BY <3>4, <4>2 DEF Holds, Polled
      <4> QED
        BY <4>1, <4>2
    <3> QED
      BY <2>1, <3>1, <3>2, <3>3, <3>4 DEF Holds
  <2>2. \A tr \in (1..MaxAdds) \ stale' : OneClient(tr)'
    BY <2>1 DEF SInv, ClientInv, OneClient
  <2>3. \A p \in DOMAIN ports' : Occupied(ports'[p].transport) => ports'[p].client # 0
    BY DEF SInv, ClientInv, SameClients, Occupied
  <2>4. ASSUME NEW u \in Tasks, NEW p \in Ports, Polled(u, p)' PROVE Current(op[u].group[p])'
    <3>1. Current(op'[u].group[p])
      BY <2>4 DEF SInv, ClientInv, Polled
    <3> QED
      BY <2>4, <3>1, PolledCurrent DEF Current
  <2> QED
    BY <2>2, <2>3, <2>4 DEF ClientInv, Occupied
<1>4. SwitchInv'
  <2>1. ASSUME NEW u \in Tasks, NEW v \in Tasks, op'[u].kind = "add", op'[v].kind = "switch"
        PROVE  op'[u].id # op'[v].id
    <3>1. op[v].kind = "switch" /\ op'[v].id = op[v].id /\ session[op[v].id].transport # 0
      BY <2>1 DEF IInv, IdInv
    <3>2. (op[u].kind = "add" /\ op'[u].id = op[u].id) \/ session[op'[u].id].transport = 0
      BY <2>1
    <3> QED
      BY <3>1, <3>2 DEF SInv, SwitchInv
  <2> QED
    BY <2>1 DEF SwitchInv
<1> QED
  BY <1>2, <1>3, <1>4 DEF SInv

\* A step to where t uses no client.
LEMMA PlainStep ==
  ASSUME IInv, SInv, NEW t \in Tasks, NEW o, op' = [op EXCEPT ![t] = o],
         o.kind \notin {"switch", "poll"}, o.kind = "add" => o.at # "probing",
         o.kind = "add" => (op[t].kind = "add" /\ o.id = op[t].id) \/ session[o.id].transport = 0,
         UNCHANGED <<session, retired, stale>>, SameClients
  PROVE  SInv'
<1>1. op'[t] = o /\ \A u \in Tasks \ {t} : op'[u] = op[u]
  BY DEF IInv, Types, TaskTypes
<1>2. \A p \in Ports, c \in Clients : ~Uses(t, p, c)'
  BY <1>1 DEF Uses, At, Switching, Groups
<1>3. \A p \in Ports : ~Polled(t, p)'
  BY <1>1 DEF Polled
<1> QED
  BY <1>1, <1>2, <1>3, UsesStep

LEMMA KeptClients == ASSUME UNCHANGED ports PROVE SameClients
BY DEF SameClients

LEMMA FewerClients == ASSUME NEW gone, ports' = Dropped(ports, gone) PROVE SameClients
BY DEF SameClients, Dropped

LEMMA PutClients ==
  ASSUME NEW p, NEW e, ports' = Put(ports, p, e),
         \/ p \in DOMAIN ports /\ e.transport = ports[p].transport /\ e.client = ports[p].client
         \/ \A i \in 1..MaxAdds : session[i].transport # e.transport
  PROVE  SameClients
BY DEF SameClients, Put

LEMMA SweepClients ==
  ASSUME IInv, NEW t \in Tasks, NEW gone, NEW ps, ps = Dropped(ports, gone), Sweep(t, ps)
  PROVE  SameClients /\ \E o : op' = [op EXCEPT ![t] = o] /\ o.kind \in {"idle", "close"}
<1>1. DOMAIN ps \subseteq DOMAIN ports /\ \A p \in DOMAIN ps : ps[p] = ports[p] /\ ps[p] \in PortType
  BY DEF Dropped, IInv, Types, DataTypes
<1> DEFINE After(i)   == {devices[j].name : j \in i..Len(devices)}
           Rest(i)    == {p \in DOMAIN ps : ps[p].refs # {} /\ ps[p].refs \subseteq After(i)}
           Closing(i) == {p \in Rest(i) : ps[p].transport \in open}
           Stops      == {i \in 1..Len(devices) : Closing(i) # {}}
<1>2. CASE Stops = {}
  <2>1. ports' = Dropped(ps, Rest(1)) /\ op' = [op EXCEPT ![t] = Idle]
    BY <1>2 DEF Sweep, Done
  <2> HIDE DEF Rest
  <2>2. SameClients
    BY <1>1, <2>1 DEF SameClients, Dropped
  <2>3. Idle.kind = "idle"
    BY DEF Idle
  <2> QED
    BY <2>1, <2>2, <2>3
<1>3. CASE Stops # {}
  <2>1. PICK i \in Stops, p \in DOMAIN ps :
          /\ ports' = [q \in DOMAIN ps \ (Rest(i) \ {p}) |-> [ps[q] EXCEPT !.refs = @ \ After(i)]]
          /\ op' = [op EXCEPT ![t] = [kind |-> "close", at |-> "closing", port |-> p]]
    BY <1>3 DEF Sweep
  <2> DEFINE rest == Rest(i)
             after == After(i)
  <2>2. ports' = [q \in DOMAIN ps \ (rest \ {p}) |-> [ps[q] EXCEPT !.refs = @ \ after]]
    BY <2>1
  <2> HIDE DEF rest, after, Rest, After
  <2>3. ASSUME NEW q \in DOMAIN ports'
        PROVE  q \in DOMAIN ports /\ ports'[q].transport = ports[q].transport /\ ports'[q].client = ports[q].client
    BY <1>1, <2>2 DEF PortType
  <2>4. SameClients
    BY <2>3 DEF SameClients
  <2>5. [kind |-> "close", at |-> "closing", port |-> p].kind = "close"
    OBVIOUS
  <2> QED
    BY <2>1, <2>4, <2>5
<1> QED
  BY <1>2, <1>3

\* A transport that is held has a session.
LEMMA HeldOccupied ==
  ASSUME IInv, SInv, NEW tr \in 1..MaxAdds, NEW c \in Clients, Holds(tr, c)
  PROVE  Occupied(tr)
<1>1. CASE \E i \in 1..MaxAdds : session[i].transport = tr /\ session[i].client = c
  BY <1>1 DEF Occupied
<1>2. ASSUME NEW t \in Tasks, op[t].kind = "switch", session[op[t].id].transport = tr PROVE Occupied(tr)
  BY <1>2 DEF Occupied, IInv, Types, TaskTypes, OpFits, SwitchType
<1>3. ASSUME NEW t \in Tasks, NEW p \in Ports, Polled(t, p), session[op[t].group[p].id].transport = tr
      PROVE  Occupied(tr)
  BY <1>3 DEF SInv, ClientInv, Current, Occupied
<1> QED
  BY <1>1, <1>2, <1>3 DEF Holds

LEMMA AttachUses ==
  ASSUME IInv, SInv, NEW t \in Tasks, op[t].kind = "add", op[t].at \in {"queued", "opening"},
         op[t].port \in DOMAIN ports, NEW fresh, Attach(t, ports[op[t].port], fresh),
         UNCHANGED <<retired, stale>>
  PROVE  SInv'
<1> DEFINE p == op[t].port
           id == op[t].id
           e == ports[p]
           entry == IF e.client = 0 THEN [e EXCEPT !.client = id] ELSE e
<1>1. /\ id \in 1..MaxAdds /\ p \in Ports /\ e \in PortType /\ op[t] \in AddType
      /\ session[id].transport = 0 /\ e.transport # 0
  BY AddAt DEF IInv, Types, DataTypes, PortType, IdInv
<1>2. /\ entry \in PortType /\ entry.transport = e.transport /\ entry.client # 0
      /\ (e.client # 0 => entry.client = e.client)
  BY <1>1 DEF PortType
<1>3. /\ session'[id].client = entry.client /\ session'[id].transport = e.transport
      /\ \A j \in 1..MaxAdds : j # id => session'[j] = session[j]
  BY <1>1 DEF Attach, IInv, Types, DataTypes
<1>4. /\ ports' = Put(ports, p, entry) \/ ports' = Put(ports, p, [entry EXCEPT !.refs = @ \cup {op[t].name}])
      /\ \/ op' = [op EXCEPT ![t].at = "identifying", ![t].fresh = fresh]
         \/ op' = [op EXCEPT ![t] = Idle]
  BY DEF Attach, Register, Done
<1> HIDE DEF entry
<1>5. \A q \in DOMAIN ports' :
        /\ q \in DOMAIN ports /\ ports'[q].transport = ports[q].transport
        /\ ports'[q].client = IF q = p THEN entry.client ELSE ports[q].client
  BY <1>2, <1>4 DEF Put, PortType
<1>6. /\ \A u \in Tasks \ {t} : op'[u] = op[u]
      /\ op'[t].kind \notin {"switch", "poll"}
      /\ op'[t].kind = "add" => op'[t].at # "probing" /\ op'[t].id = id
  <2>1. CASE op' = [op EXCEPT ![t] = Idle]
    BY <2>1 DEF Idle, IInv, Types, TaskTypes
  <2>2. CASE op' = [op EXCEPT ![t].at = "identifying", ![t].fresh = fresh]
    BY <1>1, <2>2 DEF AddType, IInv, Types, TaskTypes
  <2> QED
    BY <1>4, <2>1, <2>2
<1>7. /\ \A u \in Tasks \ {t} : op[u].kind = "add" => op[u].id # id /\ op[u].id \in 1..MaxAdds
      /\ \A u \in Tasks : op[u].kind = "switch" => op[u].id # id /\ op[u].id \in 1..MaxAdds
  <2>1. \A u \in Tasks \ {t} : op[u].kind = "add" => op[u].id # id /\ op[u].id \in 1..MaxAdds
    BY DEF IInv, IdInv, Types, TaskTypes, OpFits, AddType
  <2>2. \A u \in Tasks : op[u].kind = "switch" => op[u].id # id /\ op[u].id \in 1..MaxAdds
    BY DEF SInv, SwitchInv, IInv, Types, TaskTypes, OpFits, SwitchType
  <2> QED
    BY <2>1, <2>2
<1>8. \A u \in Tasks, q \in Ports, c \in Clients : Uses(u, q, c)' => Uses(u, q, c) /\ u # t
  <2>1. \A q \in Ports, c \in Clients : ~Uses(t, q, c)'
    BY <1>6 DEF Uses, At, Switching, Groups
  <2>2. \A u \in Tasks \ {t}, q \in Ports, c \in Clients : Uses(u, q, c)' <=> Uses(u, q, c)
    BY <1>3, <1>6, <1>7, UsesSame
  <2> QED
    BY <2>1, <2>2
<1>9. UseInv'
  <2>1. \A u \in Tasks \ {t} : OnStale(u) => OnStale(u)'
    BY <1>3, <1>6, <1>7 DEF OnStale
  <2> QED
    BY <1>8, <2>1 DEF SInv, UseInv
<1>10. ASSUME NEW u \in Tasks, NEW q \in Ports, Polled(u, q)'
       PROVE  /\ u # t /\ op'[u] = op[u] /\ Polled(u, q)
              /\ LET g == op[u].group[q]
                 IN  Current(g) /\ g.id # id /\ session'[g.id] = session[g.id]
  <2>1. u # t /\ op'[u] = op[u] /\ Polled(u, q)
    BY <1>6, <1>10 DEF Polled
  <2>2. Current(op[u].group[q])
    BY <2>1 DEF SInv, ClientInv
  <2> QED
    BY <1>1, <1>3, <2>1, <2>2 DEF Current
<1>11. \A q \in DOMAIN ports : ports[q].transport = e.transport => q = p
  BY DEF IInv, PortInv
<1>12. ASSUME NEW tr \in 1..MaxAdds, NEW c \in Clients, Holds(tr, c)'
       PROVE  Holds(tr, c) \/ (tr = e.transport /\ c = entry.client)
  <2>1. CASE \E i \in 1..MaxAdds : session'[i].transport = tr /\ session'[i].client = c
    BY <1>3, <2>1 DEF Holds
  <2>2. ASSUME NEW q \in DOMAIN ports', ports'[q].transport = tr, ports'[q].client = c, Occupied(tr)', q # p
        PROVE  Holds(tr, c)
    <3>1. PICK i \in 1..MaxAdds : session'[i].transport = tr
      BY <2>2 DEF Occupied
    <3>2. i # id /\ q \in DOMAIN ports /\ ports[q].transport = tr /\ ports[q].client = c
      BY <1>3, <1>5, <1>11, <2>2, <3>1
    <3> QED
      BY <1>3, <3>1, <3>2 DEF Holds, Occupied
  <2>3. CASE \E u \in Tasks : op'[u].kind = "switch" /\ session'[op'[u].id].transport = tr /\ op'[u].client = c
    BY <1>3, <1>6, <1>7, <2>3 DEF Holds
  <2>4. ASSUME NEW u \in Tasks, NEW q \in Ports, Polled(u, q)',
               session'[op'[u].group[q].id].transport = tr, op'[u].group[q].client = c
        PROVE  Holds(tr, c)
    BY <1>10, <2>4 DEF Holds
  <2> QED
    BY <1>5, <1>12, <2>1, <2>2, <2>3, <2>4 DEF Holds
<1>13. ASSUME NEW tr \in (1..MaxAdds) \ stale PROVE OneClient(tr)'
  <2>1. OneClient(tr)
    BY DEF SInv, ClientInv
  <2>2. CASE tr # e.transport
    BY <1>12, <2>1, <2>2 DEF OneClient
  <2>3. CASE tr = e.transport /\ Occupied(tr)
    <3>1. entry.client = e.client
      BY <1>2, <2>3 DEF SInv, ClientInv
    <3>2. Holds(tr, entry.client)
      BY <2>3, <3>1 DEF Holds
    <3> QED
      BY <1>12, <2>1, <3>2 DEF OneClient
  <2>4. CASE tr = e.transport /\ ~Occupied(tr)
    <3>1. \A c \in Clients : Holds(tr, c)' => c = entry.client
      BY <1>12, <2>4, HeldOccupied
    <3> QED
      BY <3>1 DEF OneClient
  <2> QED
    BY <2>2, <2>3, <2>4
<1>14. ASSUME NEW q \in DOMAIN ports', Occupied(ports[q].transport)' PROVE ports'[q].client # 0
  <2>1. PICK i \in 1..MaxAdds : session'[i].transport = ports'[q].transport
    BY <1>14 DEF Occupied
  <2>2. CASE q = p
    BY <1>2, <1>5, <2>2
  <2>3. CASE q # p
    <3>1. i # id /\ session[i].transport = ports[q].transport /\ q \in DOMAIN ports
      BY <1>3, <1>5, <1>11, <2>1, <2>3
    <3> QED
      BY <1>5, <2>3, <3>1 DEF SInv, ClientInv, Occupied
  <2> QED
    BY <2>2, <2>3
<1>15. ASSUME NEW u \in Tasks, NEW q \in Ports, Polled(u, q)' PROVE Current(op[u].group[q])'
  <2> DEFINE g == op[u].group[q]
  <2>1. op'[u] = op[u] /\ Current(g) /\ session'[g.id] = session[g.id]
    BY <1>10, <1>15
  <2>2. Holds(session[g.id].transport, g.client)'
    BY <1>15, <2>1 DEF Holds
  <2> QED
    BY <2>1, <2>2 DEF Current
<1>16. ClientInv'
  BY <1>13, <1>14, <1>15 DEF ClientInv
<1>17. SwitchInv'
  BY <1>6, <1>7 DEF SInv, SwitchInv
<1> QED
  BY <1>9, <1>16, <1>17 DEF SInv

LEMMA AddUses ==
  ASSUME IInv, SInv, NEW t \in Tasks,
         \/ CallAdd(t) \/ AddRefused(t) \/ AddResolves(t) \/ AddOpened(t) \/ AddOpenFails(t)
         \/ IdentifyAsks(t) \/ Identified(t) \/ IdentifyFails(t)
  PROVE  SInv'
<1>1. Idle.kind = "idle"
  BY DEF Idle
<1>2. CASE CallAdd(t)
  <2>1. PICK n \in Names, p \in Ports, i \in BOOLEAN :
          Enter(t, [kind |-> "add", at |-> "queued", name |-> n, port |-> p,
                    id |-> adds + 1, identify |-> i, fresh |-> FALSE])
    BY <1>2 DEF CallAdd
  <2> DEFINE o == [kind |-> "add", at |-> "queued", name |-> n, port |-> p,
                   id |-> adds + 1, identify |-> i, fresh |-> FALSE]
  <2>2. /\ op' = [op EXCEPT ![t] = o] /\ o.kind = "add" /\ o.at = "queued" /\ o.id = adds + 1
        /\ UNCHANGED <<ports, session, retired, stale>>
    BY <2>1 DEF Enter, registry, ghosts
  <2>3. session[o.id].transport = 0
    <3>1. adds + 1 \in 1..MaxAdds /\ adds + 1 > adds
      BY <1>2 DEF CallAdd, IInv, Types, DataTypes
    <3> QED
      BY <2>2, <3>1 DEF IInv, IdInv
  <2> HIDE DEF o
  <2> QED
    BY <2>2, <2>3, KeptClients, PlainStep
<1>3. CASE AddRefused(t)
  <2>1. op' = [op EXCEPT ![t] = Idle] /\ UNCHANGED <<ports, session, retired, stale>>
    BY <1>3 DEF AddRefused, Done, registry, bounds, ghosts
  <2> QED
    BY <1>1, <2>1, KeptClients, PlainStep
<1>4. ASSUME op[t].kind = "add"
      PROVE  /\ op[t] \in AddType /\ op[t].port \in Ports /\ op[t].id \in 1..MaxAdds
             /\ op[t].at # "queued" => op[t].port \in DOMAIN ports /\ ports[op[t].port] \in PortType
             /\ op = [u \in Tasks |-> op[u]]
  BY <1>4, AddAt DEF IInv, Types, DataTypes, TaskTypes
<1>5. CASE AddResolves(t)
  <2> DEFINE p == op[t].port
             e == IF p \notin DOMAIN ports THEN [transport |-> op[t].id, client |-> 0, refs |-> {}] ELSE ports[p]
  <2>1. op[t].kind = "add" /\ op[t].at = "queued" /\ UNCHANGED <<retired, stale>>
    BY <1>5 DEF AddResolves, At, bounds, ghosts
  <2>2. op[t].id \notin open /\ \A i \in 1..MaxAdds : session[i].transport # op[t].id
    BY <2>1 DEF IInv, IdInv, Untouched
  <2>3. CASE e.transport \in open
    <3>1. p \in DOMAIN ports
      BY <2>2, <2>3
    <3>2. Attach(t, ports[p], p \notin DOMAIN ports)
      BY <1>5, <2>3, <3>1 DEF AddResolves
    <3> QED
      BY <2>1, <3>1, <3>2, AttachUses
  <2>4. CASE e.transport \notin open
    <3> DEFINE fresh == p \notin DOMAIN ports
               o == [op[t] EXCEPT !.at = "opening", !.fresh = fresh]
    <3>1. /\ op' = [op EXCEPT ![t].at = "opening", ![t].fresh = fresh]
          /\ ports' = Put(ports, p, e) /\ UNCHANGED session
      BY <1>5, <2>4 DEF AddResolves
    <3>2. SameClients
      BY <2>2, <3>1, PutClients
    <3>3. op' = [op EXCEPT ![t] = o] /\ o.kind = "add" /\ o.at = "opening" /\ o.id = op[t].id
      BY <1>4, <2>1, <3>1 DEF AddType
    <3> HIDE DEF o
    <3> QED
      BY <2>1, <3>1, <3>2, <3>3, PlainStep
  <2> QED
    BY <2>3, <2>4
<1>6. CASE AddOpened(t)
  <2>1. op[t].kind = "add" /\ op[t].at = "opening" /\ UNCHANGED <<retired, stale>>
    BY <1>6 DEF AddOpened, At, bounds, ghosts
  <2>2. CASE Attach(t, ports[op[t].port], op[t].fresh)
    BY <1>4, <2>1, <2>2, AttachUses
  <2>3. CASE Done(t) /\ UNCHANGED <<devices, ports, session>>
    BY <1>1, <2>1, <2>3, KeptClients, PlainStep DEF Done
  <2> QED
    BY <1>6, <2>2, <2>3 DEF AddOpened
<1>7. CASE AddOpenFails(t)
  <2>1. op' = [op EXCEPT ![t] = Idle] /\ UNCHANGED <<session, retired, stale>>
    BY <1>7 DEF AddOpenFails, Done, bounds, ghosts
  <2>2. SameClients
    BY <1>7, KeptClients, FewerClients DEF AddOpenFails
  <2> QED
    BY <1>1, <2>1, <2>2, PlainStep
<1>8. CASE IdentifyAsks(t)
  <2>1. /\ op[t].kind = "add" /\ op[t].at = "identifying" /\ op' = [op EXCEPT ![t].at = "probing"]
        /\ ~Busy(session[op[t].id].client) /\ session[op[t].id].client \notin retired
        /\ UNCHANGED <<ports, session, retired, stale>>
    BY <1>8 DEF IdentifyAsks, At, GoesTo, registry, bounds, ghosts
  <2>2. /\ op'[t].kind = "add" /\ op'[t].at = "probing" /\ op'[t].port = op[t].port /\ op'[t].id = op[t].id
        /\ \A u \in Tasks \ {t} : op'[u] = op[u]
    BY <1>4, <2>1 DEF AddType
  <2>3. /\ \A p \in Ports, c \in Clients :
             Uses(t, p, c)' => p = op[t].port /\ c = session[op[t].id].client
        /\ \A p \in Ports : ~Polled(t, p)'
    BY <2>1, <2>2 DEF Uses, At, Switching, Groups, Polled
  <2> QED
    BY <2>1, <2>2, <2>3, KeptClients, UsesStep
<1>9. CASE Identified(t)
  <2> DEFINE e == [ports[op[t].port] EXCEPT !.refs = @ \cup {op[t].name}]
  <2>1. /\ op[t].kind = "add" /\ op[t].at = "probing"
        /\ op' = [op EXCEPT ![t] = Idle] /\ UNCHANGED <<session, retired, stale>>
        /\ ports' = Put(ports, op[t].port, e)
    BY <1>9 DEF Identified, At, Register, Done, bounds, ghosts
  <2>2. /\ op[t].port \in DOMAIN ports
        /\ e.transport = ports[op[t].port].transport /\ e.client = ports[op[t].port].client
    BY <1>4, <2>1 DEF PortType
  <2> HIDE DEF e
  <2>3. SameClients
    BY <2>1, <2>2, PutClients
  <2> QED
    BY <1>1, <2>1, <2>3, PlainStep
<1>10. CASE IdentifyFails(t)
  <2>1. op[t].kind = "add" /\ UNCHANGED <<session, retired, stale>> /\ Undo(t)
    BY <1>10 DEF IdentifyFails, At, bounds, ghosts
  <2>2. CASE GoesTo(t, "closing") /\ UNCHANGED ports
    <3> DEFINE o == [op[t] EXCEPT !.at = "closing"]
    <3>1. op' = [op EXCEPT ![t] = o] /\ o.kind = "add" /\ o.at = "closing" /\ o.id = op[t].id
      BY <1>4, <2>1, <2>2 DEF AddType, GoesTo
    <3> HIDE DEF o
    <3> QED
      BY <2>1, <2>2, <3>1, KeptClients, PlainStep
  <2>3. CASE Done(t) /\ (ports' = ports \/ ports' = Dropped(ports, {op[t].port}))
    BY <1>1, <2>1, <2>3, KeptClients, FewerClients, PlainStep DEF Done
  <2> QED
    BY <2>1, <2>2, <2>3 DEF Undo
<1> QED
  BY <1>2, <1>3, <1>5, <1>6, <1>7, <1>8, <1>9, <1>10

LEMMA TeardownUses ==
  ASSUME IInv, SInv, NEW t \in Tasks,
         \/ CallRemove(t) \/ RemoveRefused(t) \/ Removes(t) \/ CallClose(t) \/ Closes(t) \/ TornDown(t)
  PROVE  SInv'
<1>1. Idle.kind = "idle"
  BY DEF Idle
<1>2. CASE CallRemove(t)
  <2>1. PICK n \in Names : Enter(t, [kind |-> "remove", at |-> "queued", name |-> n])
    BY <1>2 DEF CallRemove
  <2> DEFINE o == [kind |-> "remove", at |-> "queued", name |-> n]
  <2>2. op' = [op EXCEPT ![t] = o] /\ o.kind = "remove" /\ UNCHANGED <<ports, session, retired, stale>>
    BY <2>1 DEF Enter, registry, ghosts
  <2> HIDE DEF o
  <2> QED
    BY <2>2, KeptClients, PlainStep
<1>3. CASE CallClose(t)
  <2> DEFINE o == [kind |-> "close", at |-> "queued"]
  <2>2. op' = [op EXCEPT ![t] = o] /\ o.kind = "close" /\ UNCHANGED <<ports, session, retired, stale>>
    BY <1>3 DEF CallClose, Enter, registry, ghosts
  <2> HIDE DEF o
  <2> QED
    BY <2>2, KeptClients, PlainStep
<1>4. CASE RemoveRefused(t)
  <2>1. op' = [op EXCEPT ![t] = Idle] /\ UNCHANGED <<ports, session, retired, stale>>
    BY <1>4 DEF RemoveRefused, Done, registry, bounds, ghosts
  <2> QED
    BY <1>1, <2>1, KeptClients, PlainStep
<1>5. CASE Removes(t)
  <2> DEFINE e == Entry(op[t].name)
             port == [ports[e.port] EXCEPT !.refs = @ \ {e.name}]
             o == [kind |-> "remove", at |-> "closing", port |-> e.port]
  <2>1. /\ op[t].name \in Registered /\ UNCHANGED <<session, retired, stale>>
        /\ \/ op' = [op EXCEPT ![t] = o] \/ op' = [op EXCEPT ![t] = Idle]
        /\ \/ ports' = [ports EXCEPT ![e.port] = port] \/ ports' = Dropped(ports, {e.port})
    <3>1. UNCHANGED <<session, retired, stale>>
      BY <1>5 DEF Removes, bounds, ghosts
    <3> QED
      BY <1>5, <3>1 DEF Removes, Done
  <2>2. e.port \in DOMAIN ports /\ ports[e.port] \in PortType
    BY <2>1, EntryOf DEF IInv, Types, PortInv, DataTypes
  <2>3. port.transport = ports[e.port].transport /\ port.client = ports[e.port].client /\ o.kind = "remove"
    BY <2>2 DEF PortType
  <2> HIDE DEF e, port, o
  <2>4. SameClients
    BY <2>1, <2>3, FewerClients DEF SameClients
  <2> QED
    BY <1>1, <2>1, <2>3, <2>4, PlainStep
<1>6. ASSUME NEW gone, Sweep(t, Dropped(ports, gone)), UNCHANGED <<session, retired, stale>> PROVE SInv'
  <2>1. SameClients /\ \E o : op' = [op EXCEPT ![t] = o] /\ o.kind \in {"idle", "close"}
    BY <1>6, SweepClients
  <2> QED
    BY <1>6, <2>1, PlainStep
<1>7. CASE Closes(t)
  <2>1. UNCHANGED <<session, retired, stale>>
    BY <1>7 DEF Closes, bounds, ghosts
  <2>2. CASE closed
    BY <1>1, <1>7, <2>1, <2>2, KeptClients, PlainStep DEF Closes, Done, registry, ghosts
  <2>3. CASE ~closed
    <3>1. ports = Dropped(ports, {})
      BY DEF Dropped, IInv, Types, DataTypes
    <3> QED
      BY <1>6, <1>7, <2>1, <2>3, <3>1 DEF Closes
  <2> QED
    BY <2>2, <2>3
<1>8. CASE TornDown(t)
  <2>1. UNCHANGED <<session, retired, stale>>
    BY <1>8 DEF TornDown, bounds, ghosts
  <2>2. CASE op[t].kind = "close"
    BY <1>6, <1>8, <2>1, <2>2 DEF TornDown
  <2>3. CASE op[t].kind # "close"
    BY <1>1, <1>8, <2>1, <2>3, FewerClients, PlainStep DEF TornDown, Done
  <2> QED
    BY <2>2, <2>3
<1> QED
  BY <1>2, <1>3, <1>4, <1>5, <1>7, <1>8

\* A member of a poll gets a new state; it may ask a client that nobody uses.
LEMMA GroupUses ==
  ASSUME IInv, SInv, NEW t \in Tasks, NEW p \in Ports, NEW g, NEW got,
         op[t].kind = "poll", p \in DOMAIN op[t].group, GroupFits(g),
         op' = [op EXCEPT ![t] = Moved(op[t], p, g, got)],
         UNCHANGED <<ports, session, retired, stale>>,
         g.at # "next" => Current(g),
         g.at = "asking" => ~Busy(g.client) /\ g.client \notin retired
  PROVE  SInv'
<1>1. PollFits(op[t])
  BY DEF IInv, Types, TaskTypes, OpFits
<1>2. /\ Moved(op[t], p, g, got).kind = "poll"
      /\ Moved(op[t], p, g, got).group = [op[t].group EXCEPT ![p] = g]
  BY <1>1 DEF Moved, PollFits
<1>3. /\ op'[t].kind = "poll" /\ op'[t].group = [op[t].group EXCEPT ![p] = g]
      /\ \A u \in Tasks \ {t} : op'[u] = op[u]
  BY <1>2 DEF IInv, Types, TaskTypes
<1>4. /\ DOMAIN op'[t].group = DOMAIN op[t].group /\ op'[t].group[p] = g
      /\ \A q \in DOMAIN op[t].group : q # p => op'[t].group[q] = op[t].group[q]
  BY <1>1, <1>3 DEF PollFits
<1>5. \A q \in Ports, c \in Clients :
        Uses(t, q, c)' => IF q = p THEN g.at = "asking" /\ g.client = c ELSE Uses(t, q, c)
  BY <1>3, <1>4 DEF Uses, At, Switching, Groups
<1>6. \A q, r \in Ports, c \in Clients : Uses(t, q, c)' /\ Uses(t, r, c)' => q = r
  <2>1. \A q \in Ports, c \in Clients : Uses(t, q, c) => Busy(c)
    BY UserBusy
  <2> QED
    BY <1>5, <2>1 DEF SInv, UseInv
<1>7. \A q \in Ports : Polled(t, q)' => Current(op'[t].group[q])
  BY <1>3, <1>4 DEF SInv, ClientInv, Polled
<1> QED
  BY <1>3, <1>5, <1>6, <1>7, KeptClients, UsesStep

LEMMA DispatchUses == ASSUME IInv, SInv, NEW t \in Tasks, Dispatch(t) PROVE SInv'
<1>1. UNCHANGED <<ports, session, retired, stale>>
  BY DispatchStep DEF registry, bounds, ghosts
<1>2. CASE Poll(t)
  <2>1. PICK targets \in SUBSET Registered \ {{}} :
          op' = [op EXCEPT ![t] =
            [kind |-> "poll", targets |-> targets, got |-> {},
             group |-> [p \in {Entry(n).port : n \in targets} |->
                [at |-> "next", name |-> "none", id |-> 0, client |-> 0,
                 todo |-> {n \in targets : Entry(n).port = p}]]]]
    BY <1>2 DEF Poll
  <2> DEFINE todo(p) == {n \in targets : Entry(n).port = p}
             named == {Entry(n).port : n \in targets}
  <2> HIDE DEF todo, named
  <2> DEFINE group == [p \in named |-> [at |-> "next", name |-> "none", id |-> 0, client |-> 0, todo |-> todo(p)]]
             o == [kind |-> "poll", targets |-> targets, got |-> {}, group |-> group]
  <2>2. op' = [op EXCEPT ![t] = o]
    BY <2>1 DEF todo, named
  <2>3. o.kind = "poll" /\ o.group = group /\ \A p \in DOMAIN group : group[p].at = "next"
    OBVIOUS
  <2> HIDE DEF o, group
  <2>4. /\ op'[t].kind = "poll" /\ (\A u \in Tasks \ {t} : op'[u] = op[u])
        /\ \A p \in DOMAIN op'[t].group : op'[t].group[p].at = "next"
    BY <2>2, <2>3 DEF IInv, Types, TaskTypes
  <2>5. \A p \in Ports : (\A c \in Clients : ~Uses(t, p, c)') /\ ~Polled(t, p)'
    BY <2>4 DEF Uses, At, Switching, Groups, Polled
  <2> QED
    BY <1>1, <2>4, <2>5, KeptClients, UsesStep
<1>3. ASSUME NEW p \in Ports, NEW n, Turn(t, p, n)
      PROVE  /\ op[t].kind = "poll" /\ PollFits(op[t]) /\ p \in DOMAIN op[t].group
             /\ GroupFits(op[t].group[p])
  BY <1>3 DEF Turn, IInv, Types, TaskTypes, OpFits, PollFits
<1>4. ASSUME NEW p \in Ports, NEW n, LooksUp(t, p, n) PROVE SInv'
  <2> DEFINE e == Entry(n)
             g == [op[t].group[p] EXCEPT !.at = "waiting", !.name = n, !.id = e.id, !.client = session[e.id].client]
  <2>1. Turn(t, p, n) /\ n \in Registered /\ op' = [op EXCEPT ![t].group[p] = g]
    BY <1>4 DEF LooksUp
  <2>2. e.id \in 1..MaxAdds /\ session[e.id].transport # 0
    <3>1. e \in ToSet(devices) /\ e.id \in 1..MaxAdds
      BY <2>1, EntryOf DEF IInv, Types
    <3>2. e.port \in DOMAIN ports /\ session[e.id].transport = ports[e.port].transport
      BY <3>1 DEF IInv, PortInv
    <3> QED
      BY <3>1, <3>2 DEF IInv, Types, DataTypes, PortType
  <2> HIDE DEF e
  <2>3. GroupFits(g) /\ g.at = "waiting" /\ g.id = e.id /\ g.client = session[e.id].client
    <3> DEFINE h == op[t].group[p]
               c == session[e.id].client
    <3>1. GroupFits(h) /\ e.id \in 0..MaxAdds
      BY <1>3, <2>1, <2>2
    <3> HIDE DEF h, c
    <3>2. GroupFits([h EXCEPT !.at = "waiting", !.name = n, !.id = e.id, !.client = c])
      BY <3>1 DEF GroupFits
    <3>3. LET k == [h EXCEPT !.at = "waiting", !.name = n, !.id = e.id, !.client = c]
          IN  k.at = "waiting" /\ k.id = e.id /\ k.client = c
      BY <3>1 DEF GroupFits
    <3> QED
      BY <3>2, <3>3 DEF h, c
  <2> HIDE DEF g
  <2>4. op' = [op EXCEPT ![t] = Moved(op[t], p, g, op[t].got)]
    BY <1>3, <2>1 DEF PollFits, Moved, IInv, Types, TaskTypes
  <2>5. Current(g)
    <3>1. session[e.id].client \in Clients
      BY <2>2 DEF IInv, Types, DataTypes
    <3> QED
      BY <2>2, <2>3, <3>1 DEF Current, Holds
  <2> QED
    BY <1>1, <1>3, <2>1, <2>3, <2>4, <2>5, GroupUses
<1>5. ASSUME NEW p \in Ports, NEW n, LookupFails(t, p, n) PROVE SInv'
  <2>1. [kind |-> "crashed", missing |-> n].kind = "crashed"
    OBVIOUS
  <2> QED
    BY <1>1, <1>5, <2>1, KeptClients, PlainStep DEF LookupFails
<1>6. ASSUME NEW p \in Ports, NEW n, Asks(t, p, n) PROVE SInv'
  <2> DEFINE g == [op[t].group[p] EXCEPT !.at = "asking"]
  <2>1. /\ Turn(t, p, n) /\ op' = [op EXCEPT ![t].group[p].at = "asking"] /\ op[t].group[p].at = "waiting"
        /\ ~Busy(op[t].group[p].client) /\ op[t].group[p].client \notin retired
    BY <1>6 DEF Asks
  <2>2. /\ GroupFits(g) /\ g.at = "asking" /\ g.client = op[t].group[p].client
        /\ g.id = op[t].group[p].id
    BY <1>3, <2>1 DEF GroupFits
  <2>3. op' = [op EXCEPT ![t] = Moved(op[t], p, g, op[t].got)]
    BY <1>3, <2>1 DEF PollFits, Moved, IInv, Types, TaskTypes
  <2> HIDE DEF g
  <2>4. Current(g)
    <3>1. Polled(t, p)
      BY <1>3, <2>1 DEF Polled
    <3> QED
      BY <2>2, <3>1 DEF SInv, ClientInv, Current
  <2> QED
    BY <1>1, <1>3, <2>1, <2>2, <2>3, <2>4, GroupUses
<1>7. ASSUME NEW p \in Ports, NEW n, Refused(t, p, n) \/ Answered(t, p, n) PROVE SInv'
  <2> DEFINE got == op[t].got \cup {n}
             g == [op[t].group[p] EXCEPT !.at = "next", !.todo = op[t].group[p].todo \ {n}]
             done == [kind |-> "polled", targets |-> op[t].targets, got |-> got]
  <2>1. Turn(t, p, n)
    BY <1>7 DEF Refused, Answered
  <2>2. GroupFits(g) /\ g.at = "next"
    BY <1>3, <2>1 DEF GroupFits
  <2>3. op' = [op EXCEPT ![t] = done] \/ op' = [op EXCEPT ![t] = Moved(op[t], p, g, got)]
    BY <1>7 DEF Refused, Answered, Result, ResultOf, Moved
  <2>4. done.kind = "polled"
    OBVIOUS
  <2> HIDE DEF done, g, got
  <2>5. CASE op' = [op EXCEPT ![t] = done]
    BY <1>1, <2>4, <2>5, KeptClients, PlainStep
  <2>6. CASE op' = [op EXCEPT ![t] = Moved(op[t], p, g, got)]
    BY <1>1, <1>3, <2>1, <2>2, <2>6, GroupUses
  <2> QED
    BY <2>3, <2>5, <2>6
<1> QED
  BY <1>2, <1>4, <1>5, <1>6, <1>7 DEF Dispatch

\* The switch installs its client: the sessions and waiting calls that still have the old
\* one find it retired.
LEMMA SwitchedUses == ASSUME IInv, SInv, NEW t \in Tasks, Switched(t) PROVE SInv'
<1> DEFINE id == op[t].id
           old == op[t].client
           new == op[t].new
           own == session[id].transport
<1>1. /\ op[t].kind = "switch" /\ op[t].at = "verifying" /\ op[t] \in SwitchType
      /\ id \in 1..MaxAdds /\ old \in Clients /\ new \in Clients /\ op[t].port \in Ports
  BY DEF Switched, At, IInv, Types, TaskTypes, OpFits, SwitchType
<1>2. /\ session' = [session EXCEPT ![id].client = new] /\ retired' = retired \cup {old}
      /\ op' = [op EXCEPT ![t] = Idle] /\ UNCHANGED <<ports, stale>>
  BY DEF Switched, registry, ghosts
<1>3. /\ \A i \in 1..MaxAdds : session'[i].transport = session[i].transport
      /\ \A i \in 1..MaxAdds : i # id => session'[i] = session[i]
      /\ session'[id].client = new
  BY <1>1, <1>2 DEF IInv, Types, DataTypes
<1>4. op'[t].kind = "idle" /\ \A u \in Tasks \ {t} : op'[u] = op[u]
  BY <1>2 DEF Idle, IInv, Types, TaskTypes
<1>5. Uses(t, op[t].port, old) /\ Holds(own, old)
  BY <1>1 DEF Uses, Switching, Holds
<1>6. \A u \in Tasks : op[u].kind = "add" => op[u].id # id /\ op[u].id \in 1..MaxAdds
  BY <1>1 DEF SInv, SwitchInv, IInv, Types, TaskTypes, OpFits, AddType
<1>7. \A u \in Tasks : op[u].kind = "switch" => op[u].id \in 1..MaxAdds
  BY DEF IInv, Types, TaskTypes, OpFits, SwitchType
<1>8. \A u \in Tasks, p \in Ports, c \in Clients : Uses(u, p, c)' => Uses(u, p, c) /\ u # t
  <2>1. \A p \in Ports, c \in Clients : ~Uses(t, p, c)'
    BY <1>4 DEF Uses, At, Switching, Groups
  <2>2. \A u \in Tasks \ {t}, p \in Ports, c \in Clients : Uses(u, p, c)' <=> Uses(u, p, c)
    BY <1>3, <1>4, <1>6, UsesSame
  <2> QED
    BY <2>1, <2>2
<1>9. UseInv'
  <2>1. \A u \in Tasks \ {t} : OnStale(u) => OnStale(u)'
    BY <1>2, <1>3, <1>4, <1>7 DEF OnStale
  <2>2. ASSUME NEW u \in Tasks, NEW p \in Ports, NEW c \in Clients, Uses(u, p, c)', c \in retired'
        PROVE  OnStale(u)'
    <3>1. Uses(u, p, c) /\ u # t
      BY <1>8, <2>2
    <3>2. c # old
      BY <1>1, <1>5, <3>1 DEF SInv, UseInv
    <3> QED
      BY <1>2, <2>1, <2>2, <3>1, <3>2 DEF SInv, UseInv
  <2> QED
    BY <1>8, <2>2 DEF SInv, UseInv
<1>10. ASSUME NEW u \in Tasks, NEW q \in Ports, Polled(u, q)'
       PROVE  /\ op'[u] = op[u] /\ Polled(u, q)
              /\ LET g == op[u].group[q]
                 IN  Current(g) /\ session'[g.id].transport = session[g.id].transport
  <2>1. op'[u] = op[u] /\ Polled(u, q)
    BY <1>4, <1>10 DEF Polled
  <2>2. Current(op[u].group[q])
    BY <2>1 DEF SInv, ClientInv
  <2> QED
    BY <1>3, <2>1, <2>2 DEF Current
<1>11. ASSUME NEW tr \in 1..MaxAdds, NEW c \in Clients, Holds(tr, c)'
       PROVE  Holds(tr, c) \/ (tr = own /\ c = new)
  <2>1. CASE \E i \in 1..MaxAdds : session'[i].transport = tr /\ session'[i].client = c
    BY <1>3, <2>1 DEF Holds
  <2>2. CASE \E q \in DOMAIN ports' : ports'[q].transport = tr /\ ports'[q].client = c /\ Occupied(tr)'
    BY <1>2, <1>3, <2>2 DEF Holds, Occupied
  <2>3. CASE \E u \in Tasks : op'[u].kind = "switch" /\ session'[op'[u].id].transport = tr /\ op'[u].client = c
    BY <1>3, <1>4, <1>7, <2>3 DEF Holds
  <2>4. ASSUME NEW u \in Tasks, NEW q \in Ports, Polled(u, q)',
               session'[op'[u].group[q].id].transport = tr, op'[u].group[q].client = c
        PROVE  Holds(tr, c)
    BY <1>10, <2>4 DEF Holds
  <2> QED
    BY <1>11, <2>1, <2>2, <2>3, <2>4 DEF Holds
<1>12. ASSUME NEW tr \in (1..MaxAdds) \ stale PROVE OneClient(tr)'
  <2>1. OneClient(tr)
    BY DEF SInv, ClientInv
  <2>2. CASE tr # own
    BY <1>2, <1>11, <2>1, <2>2 DEF OneClient
  <2>3. CASE tr = own
    <3>1. old \notin retired
      BY <1>1, <1>5, <2>3 DEF SInv, UseInv, OnStale
    <3>2. \A c \in Clients : Holds(tr, c) => c \in retired'
      BY <1>1, <1>2, <1>5, <2>1, <2>3, <3>1 DEF OneClient
    <3> QED
      BY <1>11, <3>2 DEF OneClient
  <2> QED
    BY <2>2, <2>3
<1>13. \A q \in DOMAIN ports' : Occupied(ports[q].transport)' => ports'[q].client # 0
  BY <1>2, <1>3 DEF SInv, ClientInv, Occupied
<1>14. ASSUME NEW u \in Tasks, NEW q \in Ports, Polled(u, q)' PROVE Current(op[u].group[q])'
  <2> DEFINE g == op[u].group[q]
  <2>1. op'[u] = op[u] /\ Current(g) /\ session'[g.id].transport = session[g.id].transport
    BY <1>10, <1>14
  <2>2. Holds(session[g.id].transport, g.client)'
    BY <1>14, <2>1 DEF Holds
  <2> QED
    BY <2>1, <2>2 DEF Current
<1>15. ClientInv'
  BY <1>2, <1>12, <1>13, <1>14 DEF ClientInv
<1>16. SwitchInv'
  BY <1>4 DEF SInv, SwitchInv
<1> QED
  BY <1>9, <1>15, <1>16 DEF SInv

\* A switch is called: it holds the client that its session has.
LEMMA SwitchUses == ASSUME IInv, SInv, NEW t \in Tasks, Switch(t) PROVE SInv'
<1>1. PICK e \in ToSet(devices) :
        op' = [op EXCEPT ![t] = [kind |-> "switch", at |-> "waiting", port |-> e.port, id |-> e.id,
                                 client |-> session[e.id].client, new |-> MaxAdds + switches + 1]]
  BY DEF Switch
<1>2. /\ op'[t].kind = "switch" /\ op'[t].at = "waiting" /\ op'[t].id = e.id
      /\ op'[t].client = session[e.id].client
      /\ \A u \in Tasks \ {t} : op'[u] = op[u]
  BY <1>1 DEF IInv, Types, TaskTypes
<1>3. UNCHANGED <<ports, session, retired, stale>>
  BY DEF Switch, registry, ghosts
<1>4. e.id \in 1..MaxAdds
  BY DevicesTyped DEF IInv, Types
<1>5. \A u \in Tasks, p \in Ports, c \in Clients : Uses(u, p, c)' => Uses(u, p, c) /\ u # t
  <2>1. \A p \in Ports, c \in Clients : ~Uses(t, p, c)'
    BY <1>2 DEF Uses, At, Switching, Groups
  <2>2. \A u \in Tasks \ {t}, p \in Ports, c \in Clients : Uses(u, p, c)' <=> Uses(u, p, c)
    BY <1>2, <1>3, UsesSame
  <2> QED
    BY <2>1, <2>2
<1>6. UseInv'
  <2>1. \A u \in Tasks \ {t} : OnStale(u) => OnStale(u)'
    BY <1>2, <1>3 DEF OnStale
  <2> QED
    BY <1>3, <1>5, <2>1 DEF SInv, UseInv
<1>7. ASSUME NEW u \in Tasks, NEW p \in Ports, Polled(u, p)' PROVE Polled(u, p) /\ op'[u] = op[u]
  BY <1>2, <1>7 DEF Polled
<1>8. ASSUME NEW tr \in 1..MaxAdds, NEW c \in Clients, Holds(tr, c)' PROVE Holds(tr, c)
  <2>1. CASE \E i \in 1..MaxAdds : session'[i].transport = tr /\ session'[i].client = c
    BY <1>3, <2>1 DEF Holds
  <2>2. CASE \E p \in DOMAIN ports' : ports'[p].transport = tr /\ ports'[p].client = c /\ Occupied(tr)'
    BY <1>3, <2>2 DEF Holds, Occupied
  <2>3. CASE \E u \in Tasks : op'[u].kind = "switch" /\ session'[op'[u].id].transport = tr /\ op'[u].client = c
    BY <1>2, <1>3, <1>4, <2>3 DEF Holds
  <2>4. ASSUME NEW u \in Tasks, NEW p \in Ports, Polled(u, p)',
               session'[op'[u].group[p].id].transport = tr, op'[u].group[p].client = c
        PROVE  Holds(tr, c)
    BY <1>3, <1>7, <2>4 DEF Holds
  <2> QED
    BY <1>8, <2>1, <2>2, <2>3, <2>4 DEF Holds
<1>9. ClientInv'
  <2>1. \A tr \in (1..MaxAdds) \ stale' : OneClient(tr)'
    BY <1>3, <1>8 DEF SInv, ClientInv, OneClient
  <2>2. \A p \in DOMAIN ports' : Occupied(ports[p].transport)' => ports'[p].client # 0
    BY <1>3 DEF SInv, ClientInv, Occupied
  <2>3. ASSUME NEW u \in Tasks, NEW p \in Ports, Polled(u, p)' PROVE Current(op[u].group[p])'
    <3>1. Current(op'[u].group[p])
      BY <1>7, <2>3 DEF SInv, ClientInv
    <3> QED
      BY <1>3, <2>3, <3>1, PolledCurrent DEF Current
  <2> QED
    BY <2>1, <2>2, <2>3 DEF ClientInv
<1>10. SwitchInv'
  BY <1>2 DEF SInv, SwitchInv, IInv, IdInv
<1> QED
  BY <1>6, <1>9, <1>10 DEF SInv

LEMMA ConfigureUses == ASSUME IInv, SInv, NEW t \in Tasks, Configure(t) PROVE SInv'
<1>1. ASSUME NEW at \in {"reopening", "verifying"}, op[t].kind = "switch", op' = [op EXCEPT ![t].at = at]
      PROVE  /\ op'[t].kind = "switch" /\ op'[t].at = at /\ op'[t].client = op[t].client
             /\ op'[t].id = op[t].id /\ op'[t].port = op[t].port
             /\ \A u \in Tasks \ {t} : op'[u] = op[u]
             /\ \A p \in Ports, c \in Clients : Uses(t, p, c)' => p = op[t].port /\ c = op[t].client
             /\ \A p \in Ports : ~Polled(t, p)'
  <2>1. /\ op'[t].kind = "switch" /\ op'[t].at = at /\ op'[t].client = op[t].client
        /\ op'[t].id = op[t].id /\ op'[t].port = op[t].port
        /\ \A u \in Tasks \ {t} : op'[u] = op[u]
    BY <1>1 DEF IInv, Types, TaskTypes, OpFits, SwitchType
  <2> QED
    BY <2>1 DEF Uses, At, Switching, Groups, Polled
<1>2. CASE SwitchStarts(t)
  <2>1. /\ op[t].kind = "switch" /\ ~Busy(op[t].client) /\ op' = [op EXCEPT ![t].at = "reopening"]
        /\ UNCHANGED <<ports, session, retired>>
        /\ stale' = IF op[t].client \in retired THEN stale \cup {session[op[t].id].transport} ELSE stale
    BY <1>2 DEF SwitchStarts, At, registry, bounds, ghosts
  <2>2. op[t].client \in retired => OnStale(t)'
    BY <1>1, <2>1 DEF OnStale
  <2>3. stale \subseteq stale'
    BY <2>1
  <2> QED
    BY <1>1, <2>1, <2>2, <2>3, KeptClients, UsesStep
<1>3. CASE SwitchReopens(t)
  <2>1. /\ op[t].kind = "switch" /\ op[t].at = "reopening" /\ op' = [op EXCEPT ![t].at = "verifying"]
        /\ UNCHANGED <<ports, session, retired, stale>>
    BY <1>3 DEF SwitchReopens, At, registry, bounds, ghosts
  <2>2. \A p \in Ports, c \in Clients : Uses(t, p, c)' => Uses(t, p, c) /\ p = op[t].port
    BY <1>1, <2>1 DEF Uses, Switching
  <2> QED
    BY <1>1, <2>1, <2>2, KeptClients, UsesStep
<1>4. CASE SwitchFails(t)
  <2>1. op' = [op EXCEPT ![t] = Idle] /\ Idle.kind = "idle" /\ UNCHANGED <<ports, session, retired, stale>>
    BY <1>4 DEF SwitchFails, Idle, registry, bounds, ghosts
  <2> QED
    BY <2>1, KeptClients, PlainStep
<1> QED
  BY <1>2, <1>3, <1>4, SwitchUses, SwitchedUses DEF Configure

LEMMA CancelUses == ASSUME IInv, SInv, NEW t \in Tasks, Cancel(t) PROVE SInv'
<1>1. op' = [op EXCEPT ![t] = Idle] /\ Idle.kind = "idle" /\ UNCHANGED <<session, retired, stale>>
  BY DEF Cancel, Idle, bounds, ghosts
<1>2. SameClients
  BY KeptClients, FewerClients DEF Cancel
<1> QED
  BY <1>1, <1>2, PlainStep

\* Two exchanges on one open port where no switch has held a disposed client are one,
\* whoever polls, adds, removes or switches, and however often.
THEOREM PortsSerialise == Spec => []SamePortSerialises
<1>1. Init => SInv
  <2> SUFFICES ASSUME Init PROVE SInv
    OBVIOUS
  <2>1. \A t \in Tasks : op[t].kind = "idle"
    BY DEF Init, Idle
  <2>2. \A i \in 1..MaxAdds : session[i].transport = 0
    BY DEF Init
  <2>3. UseInv
    BY <2>1 DEF UseInv, Uses, At, Switching, Groups
  <2>4. \A tr \in 1..MaxAdds, c \in Clients : ~Holds(tr, c)
    BY <2>1, <2>2 DEF Holds, Occupied, Polled
  <2>5. ClientInv
    BY <2>1, <2>4 DEF ClientInv, OneClient, Polled, Init
  <2> QED
    BY <2>1, <2>3, <2>5 DEF SInv, SwitchInv
<1>2. IInv /\ SInv /\ [Next]_vars => SInv'
  <2> SUFFICES ASSUME IInv, SInv, [Next]_vars PROVE SInv'
    OBVIOUS
  <2>1. ASSUME NEW t \in Tasks, Administer(t) PROVE SInv'
    BY <2>1, AddUses, TeardownUses DEF Administer
  <2>2. ASSUME NEW t \in Tasks, Dispatch(t) \/ Configure(t) \/ Cancel(t) PROVE SInv'
    BY <2>2, DispatchUses, ConfigureUses, CancelUses
  <2>3. CASE UNCHANGED vars
    <3>1. UNCHANGED <<op, session, retired, ports, stale>>
      BY <2>3 DEF vars, registry, ghosts
    <3>2. UseInv'
      BY <3>1 DEF SInv, UseInv, Uses, At, Switching, Groups, OnStale
    <3>3. ClientInv'
      BY <3>1 DEF SInv, ClientInv, OneClient, Occupied, Polled, Current, Holds
    <3>4. SwitchInv'
      BY <3>1 DEF SInv, SwitchInv
    <3> QED
      BY <3>2, <3>3, <3>4 DEF SInv
  <2> QED
    BY <2>1, <2>2, <2>3 DEF Next
<1>3. IInv /\ SInv => SamePortSerialises
  <2> SUFFICES ASSUME IInv, SInv, NEW tr \in open \ stale, NEW x \in OnWire(tr), NEW y \in OnWire(tr)
               PROVE  x = y
    BY DEF SamePortSerialises
  <2>1. ASSUME NEW z \in OnWire(tr)
        PROVE  /\ z = <<z[1], z[2]>> /\ z[1] \in Tasks /\ z[2] \in Ports
               /\ \E c \in Clients \ retired : Holds(tr, c) /\ Uses(z[1], z[2], c)
    <3> DEFINE t == z[1]
               p == z[2]
    <3>0. z \in Tasks \X Ports
      BY DEF OnWire
    <3>1. z = <<t, p>> /\ t \in Tasks /\ p \in Ports
      BY <3>0
    <3> HIDE DEF t, p
    <3>2. \/ At(t, "add", "probing") /\ op[t].port = p /\ session[op[t].id].transport = tr
          \/ Switching(t) /\ op[t].port = p /\ session[op[t].id].transport = tr
          \/ p \in Groups(t, "asking") /\ session[op[t].group[p].id].transport = tr
      BY DEF OnWire, t, p
    <3>3. CASE At(t, "add", "probing") /\ op[t].port = p /\ session[op[t].id].transport = tr
      <4> DEFINE c == session[op[t].id].client
      <4>1. op[t].id \in 1..MaxAdds /\ op[t].kind = "add"
        BY <3>1, <3>3 DEF At, IInv, Types, TaskTypes, OpFits, AddType
      <4>2. c \in Clients /\ Holds(tr, c) /\ Uses(t, p, c)
        BY <3>3, <4>1 DEF Holds, Uses, IInv, Types, DataTypes
      <4>3. c \notin retired
        BY <3>1, <4>1, <4>2 DEF SInv, UseInv, OnStale
      <4> QED
        BY <3>1, <4>2, <4>3 DEF t, p
    <3>4. CASE Switching(t) /\ op[t].port = p /\ session[op[t].id].transport = tr
      <4> DEFINE c == op[t].client
      <4>1. c \in Clients /\ op[t].kind = "switch"
        BY <3>1, <3>4 DEF Switching, IInv, Types, TaskTypes, OpFits, SwitchType
      <4>2. Holds(tr, c) /\ Uses(t, p, c)
        BY <3>1, <3>4, <4>1 DEF Holds, Uses
      <4>3. c \notin retired
        BY <3>1, <3>4, <4>1, <4>2 DEF SInv, UseInv, OnStale
      <4> QED
        BY <3>1, <4>1, <4>2, <4>3 DEF t, p
    <3>5. CASE p \in Groups(t, "asking") /\ session[op[t].group[p].id].transport = tr
      <4> DEFINE g == op[t].group[p]
      <4>1. op[t].kind = "poll" /\ Polled(t, p)
        BY <3>5 DEF Groups, Polled
      <4>2. g.client \in Clients /\ Holds(tr, g.client)
        BY <3>1, <3>5, <4>1 DEF SInv, ClientInv, Current
      <4>3. Uses(t, p, g.client)
        BY <3>5 DEF Uses
      <4>4. g.client \notin retired
        BY <3>1, <4>1, <4>2, <4>3 DEF SInv, UseInv, OnStale
      <4> QED
        BY <3>1, <4>2, <4>3, <4>4 DEF t, p
    <3> QED
      BY <3>2, <3>3, <3>4, <3>5
  <2>2. PICK c \in Clients \ retired : Holds(tr, c) /\ Uses(x[1], x[2], c)
    BY <2>1
  <2>3. PICK d \in Clients \ retired : Holds(tr, d) /\ Uses(y[1], y[2], d)
    BY <2>1
  <2>4. tr \in (1..MaxAdds) \ stale
    BY DEF IInv, Types, DataTypes
  <2>5. c = d
    BY <2>2, <2>3, <2>4 DEF SInv, ClientInv, OneClient
  <2>6. x[1] = y[1] /\ x[2] = y[2]
    BY <2>1, <2>2, <2>3, <2>5 DEF SInv, UseInv
  <2> QED
    BY <2>1, <2>6
<1> QED
  BY <1>1, <1>2, <1>3, Invariance, PTL DEF Spec

-----------------------------------------------------------------------------
(* A poll that returns has the results of all its balances.                *)

\* No other task's call changes, and t is left without a poll.
NoPoll(t) ==
  /\ \A u \in Tasks \ {t} : op'[u] = op[u]
  /\ op'[t].kind \notin {"poll", "polled"}

LEMMA AwayFromPoll ==
  ASSUME TaskTypes, NEW t \in Tasks, NEW o, op' = [op EXCEPT ![t] = o],
         o.kind \notin {"poll", "polled"}
  PROVE  NoPoll(t)
BY DEF NoPoll, TaskTypes

LEMMA MovesOn ==
  ASSUME TaskTypes, NEW t \in Tasks, NEW place, Locks(t) \/ op[t].kind = "switch",
         op' = [op EXCEPT ![t].at = place]
  PROVE  NoPoll(t)
<1>1. op[t].kind \notin {"poll", "polled"}
  BY DEF Locks
<1>2. [op[t] EXCEPT !.at = place].kind = op[t].kind
  <2>1. CASE op[t].kind = "add"
    BY <2>1 DEF TaskTypes, OpFits, AddType
  <2>2. CASE op[t].kind = "remove"
    BY <2>2 DEF TaskTypes, OpFits, RemoveType
  <2>3. CASE op[t].kind = "close"
    BY <2>3 DEF TaskTypes, OpFits, CloseType
  <2>4. CASE op[t].kind = "switch"
    BY <2>4 DEF TaskTypes, OpFits, SwitchType
  <2> QED
    BY <2>1, <2>2, <2>3, <2>4 DEF Locks
<1>3. op' = [op EXCEPT ![t] = [op[t] EXCEPT !.at = place]]
  OBVIOUS
<1> QED
  BY <1>1, <1>2, <1>3, AwayFromPoll

LEMMA DoneMoves == ASSUME TaskTypes, NEW t \in Tasks, Done(t) PROVE NoPoll(t)
<1>1. Idle.kind \notin {"poll", "polled"}
  BY DEF Idle
<1> QED
  BY <1>1, AwayFromPoll DEF Done

LEMMA SweepMoves == ASSUME TaskTypes, NEW t \in Tasks, NEW ps, Sweep(t, ps) PROVE NoPoll(t)
<1>1. CASE Done(t)
  BY <1>1, DoneMoves
<1>2. ASSUME NEW p, op' = [op EXCEPT ![t] = [kind |-> "close", at |-> "closing", port |-> p]]
      PROVE  NoPoll(t)
  <2>1. [kind |-> "close", at |-> "closing", port |-> p].kind = "close"
    OBVIOUS
  <2> QED
    BY <1>2, <2>1, AwayFromPoll
<1> QED
  BY <1>1, <1>2 DEF Sweep

LEMMA CallsMove ==
  ASSUME TaskTypes, NEW t \in Tasks, CallAdd(t) \/ CallRemove(t) \/ CallClose(t)
  PROVE  NoPoll(t)
<1>1. ASSUME NEW call, Enter(t, call), call.kind \in {"add", "remove", "close"} PROVE NoPoll(t)
  BY <1>1, AwayFromPoll DEF Enter
<1>2. CASE CallAdd(t)
  <2>1. PICK n \in Names, p \in Ports, i \in BOOLEAN :
          Enter(t, [kind |-> "add", at |-> "queued", name |-> n, port |-> p,
                    id |-> adds + 1, identify |-> i, fresh |-> FALSE])
    BY <1>2 DEF CallAdd
  <2> QED
    BY <1>1, <2>1
<1>3. CASE CallRemove(t)
  <2>1. PICK n \in Names : Enter(t, [kind |-> "remove", at |-> "queued", name |-> n])
    BY <1>3 DEF CallRemove
  <2> QED
    BY <1>1, <2>1
<1>4. CASE CallClose(t)
  BY <1>1, <1>4 DEF CallClose
<1> QED
  BY <1>2, <1>3, <1>4

\* An add moves on or ends.
LEMMA AddMoves ==
  ASSUME TaskTypes, NEW t \in Tasks,
         \/ AddRefused(t) \/ AddResolves(t) \/ AddOpened(t) \/ AddOpenFails(t)
         \/ IdentifyAsks(t) \/ Identified(t) \/ IdentifyFails(t)
  PROVE  NoPoll(t)
<1>1. op[t].kind = "add" /\ Locks(t)
  BY DEF AddRefused, AddResolves, AddOpened, AddOpenFails, IdentifyAsks, Identified, IdentifyFails, At, Locks
<1>2. ASSUME NEW place, NEW f, op' = [op EXCEPT ![t].at = place, ![t].fresh = f] PROVE NoPoll(t)
  <2>1. [[op[t] EXCEPT !.at = place] EXCEPT !.fresh = f].kind = "add"
    BY <1>1 DEF TaskTypes, OpFits, AddType
  <2>2. op' = [op EXCEPT ![t] = [[op[t] EXCEPT !.at = place] EXCEPT !.fresh = f]]
    BY <1>2 DEF TaskTypes
  <2> QED
    BY <2>1, <2>2, AwayFromPoll
<1>3. ASSUME NEW e, NEW f, Attach(t, e, f) PROVE NoPoll(t)
  BY <1>2, <1>3, DoneMoves DEF Attach, Register
<1>4. CASE AddRefused(t) \/ AddOpenFails(t)
  BY <1>4, DoneMoves DEF AddRefused, AddOpenFails
<1>5. CASE AddResolves(t)
  BY <1>2, <1>3, <1>5 DEF AddResolves
<1>6. CASE AddOpened(t)
  BY <1>3, <1>6, DoneMoves DEF AddOpened
<1>7. CASE IdentifyAsks(t)
  BY <1>1, <1>7, MovesOn DEF IdentifyAsks, GoesTo
<1>8. CASE Identified(t)
  BY <1>8, DoneMoves DEF Identified, Register
<1>9. CASE IdentifyFails(t)
  BY <1>1, <1>9, MovesOn, DoneMoves DEF IdentifyFails, Undo, GoesTo
<1> QED
  BY <1>4, <1>5, <1>6, <1>7, <1>8, <1>9

LEMMA AdministerMoves == ASSUME TaskTypes, NEW t \in Tasks, Administer(t) PROVE NoPoll(t)
<1>1. CASE Removes(t)
  <2>1. ASSUME NEW p, op' = [op EXCEPT ![t] = [kind |-> "remove", at |-> "closing", port |-> p]]
        PROVE  NoPoll(t)
    <3>1. [kind |-> "remove", at |-> "closing", port |-> p].kind = "remove"
      OBVIOUS
    <3> QED
      BY <2>1, <3>1, AwayFromPoll
  <2> QED
    BY <1>1, <2>1, DoneMoves DEF Removes
<1>2. CASE RemoveRefused(t) \/ Closes(t) \/ TornDown(t)
  BY <1>2, DoneMoves, SweepMoves DEF RemoveRefused, Closes, TornDown
<1> QED
  BY <1>1, <1>2, CallsMove, AddMoves DEF Administer

LEMMA ConfigureMoves == ASSUME TaskTypes, NEW t \in Tasks, Configure(t) \/ Cancel(t) PROVE NoPoll(t)
<1>1. Idle.kind \notin {"poll", "polled"}
  BY DEF Idle
<1>2. CASE Switched(t) \/ SwitchFails(t) \/ Cancel(t)
  BY <1>1, <1>2, AwayFromPoll DEF Switched, SwitchFails, Cancel
<1>3. CASE SwitchStarts(t) \/ SwitchReopens(t)
  BY <1>3, MovesOn DEF SwitchStarts, SwitchReopens, At
<1>4. CASE Switch(t)
  <2>1. PICK e \in ToSet(devices) :
          op' = [op EXCEPT ![t] = [kind |-> "switch", at |-> "waiting", port |-> e.port, id |-> e.id,
                                   client |-> session[e.id].client, new |-> MaxAdds + switches + 1]]
    BY <1>4 DEF Switch
  <2>2. [kind |-> "switch", at |-> "waiting", port |-> e.port, id |-> e.id,
         client |-> session[e.id].client, new |-> MaxAdds + switches + 1].kind = "switch"
    OBVIOUS
  <2> QED
    BY <2>1, <2>2, AwayFromPoll
<1> QED
  BY <1>2, <1>3, <1>4 DEF Configure

\* A member of the group of p is done with if its result is there; otherwise it stays.
LEMMA MovedAccounted ==
  ASSUME NEW o, NEW p, NEW g, NEW got, NEW n,
         o.kind = "poll", PollFits(o), p \in DOMAIN o.group, Accounted(o),
         \/ g.todo = o.group[p].todo /\ got = o.got
         \/ g.todo = o.group[p].todo \ {n} /\ got = o.got \cup {n} /\ n \in o.group[p].todo
  PROVE  Accounted(Moved(o, p, g, got))
<1> DEFINE c == Moved(o, p, g, got)
           left(x) == UNION {x.group[q].todo : q \in DOMAIN x.group}
<1>1. /\ c.kind = "poll" /\ c.targets = o.targets /\ c.got = got
      /\ c.group = [o.group EXCEPT ![p] = g]
  BY DEF PollFits, Moved
<1> HIDE DEF c
<1>2. /\ DOMAIN c.group = DOMAIN o.group /\ c.group[p] = g
      /\ \A q \in DOMAIN o.group : q # p => c.group[q] = o.group[q]
  BY <1>1 DEF PollFits
<1>3. o.targets = o.got \cup left(o)
  BY DEF Accounted
<1>4. c.got \cup left(c) = o.got \cup left(o)
  <2>1. ASSUME NEW x PROVE x \in c.got \cup left(c) <=> x \in o.got \cup left(o)
    <3>1. x \in left(c) => x \in left(o)
      BY <1>2
    <3>2. x \in left(o) => x \in left(c) \/ x \in got
      BY <1>2
    <3>3. x \in got <=> x \in o.got \/ (x \in left(o) /\ got # o.got /\ x = n)
      OBVIOUS
    <3> QED
      BY <1>1, <3>1, <3>2, <3>3
  <2> QED
    BY <2>1
<1>5. Accounted(c)
  BY <1>1, <1>3, <1>4 DEF Accounted
<1> QED
  BY <1>5 DEF c

LEMMA PollAccounts == ASSUME IInv, NEW t \in Tasks, Poll(t) PROVE Accounted(op'[t])
<1>1. PICK targets \in SUBSET Registered \ {{}} :
        op' = [op EXCEPT ![t] =
          [kind |-> "poll", targets |-> targets, got |-> {},
           group |-> [p \in {Entry(n).port : n \in targets} |->
              [at |-> "next", name |-> "none", id |-> 0, client |-> 0,
               todo |-> {n \in targets : Entry(n).port = p}]]]]
  BY DEF Poll
<1> DEFINE named == {Entry(n).port : n \in targets}
           todo(p) == {n \in targets : Entry(n).port = p}
           group == [p \in named |-> [at |-> "next", name |-> "none", id |-> 0, client |-> 0, todo |-> todo(p)]]
           o == [kind |-> "poll", targets |-> targets, got |-> {}, group |-> group]
<1>2. op'[t] = o
  BY <1>1 DEF IInv, Types, TaskTypes
<1>3. DOMAIN group = named /\ \A p \in named : group[p].todo = todo(p)
  OBVIOUS
<1>4. o.kind = "poll" /\ o.targets = targets /\ o.got = {} /\ o.group = group
  OBVIOUS
<1> HIDE DEF group, o
<1>5. UNION {group[p].todo : p \in DOMAIN group} = targets
  <2>1. ASSUME NEW n \in targets PROVE n \in UNION {group[p].todo : p \in DOMAIN group}
    BY <1>3
  <2>2. ASSUME NEW p \in DOMAIN group PROVE group[p].todo \subseteq targets
    BY <1>3
  <2> QED
    BY <2>1, <2>2
<1>6. Accounted(o)
  BY <1>4, <1>5 DEF Accounted
<1> QED
  BY <1>2, <1>6

LEMMA ResultAccounts ==
  ASSUME IInv, NEW t \in Tasks, NEW p, NEW n, Turn(t, p, n), Result(t, p, n), Accounted(op[t])
  PROVE  Accounted(op'[t])
<1> DEFINE o == op[t]
           got == o.got \cup {n}
           g == [o.group[p] EXCEPT !.at = "next", !.todo = o.group[p].todo \ {n}]
           more == Moved(o, p, g, got)
           done == [kind |-> "polled", targets |-> o.targets, got |-> got]
<1>1. o.kind = "poll" /\ PollFits(o) /\ p \in DOMAIN o.group /\ GroupFits(o.group[p])
  BY DEF Turn, IInv, Types, TaskTypes, OpFits, PollFits
<1>2. g.todo = o.group[p].todo \ {n} /\ n \in o.group[p].todo
  BY <1>1 DEF GroupFits, Turn
<1> HIDE DEF g
<1>3. Accounted(more)
  BY <1>1, <1>2, MovedAccounted
<1>4. more.got = got /\ more.targets = o.targets /\ more.kind = "poll" /\ more.group = [o.group EXCEPT ![p] = g]
  BY <1>1 DEF Moved, PollFits
<1>5. \/ op'[t] = more
      \/ op'[t] = done /\ \A q \in DOMAIN more.group : more.group[q].todo = {}
  BY <1>4 DEF Result, ResultOf, g, Moved, IInv, Types, TaskTypes
<1>6. ASSUME \A q \in DOMAIN more.group : more.group[q].todo = {}
      PROVE  Accounted(done)
  <2>1. UNION {more.group[q].todo : q \in DOMAIN more.group} = {}
    BY <1>6
  <2>2. o.targets = got
    BY <1>3, <1>4, <2>1 DEF Accounted
  <2>3. done.kind = "polled" /\ done.targets = o.targets /\ done.got = got
    OBVIOUS
  <2> HIDE DEF done, got
  <2> QED
    BY <2>2, <2>3 DEF Accounted
<1> QED
  BY <1>3, <1>5, <1>6

LEMMA DispatchAccounts ==
  ASSUME IInv, NEW t \in Tasks, Dispatch(t), Accounted(op[t])
  PROVE  Accounted(op'[t]) /\ \A u \in Tasks \ {t} : op'[u] = op[u]
<1>1. \A u \in Tasks \ {t} : op'[u] = op[u]
  BY DispatchStep DEF IInv, Types, TaskTypes
<1>2. CASE Poll(t)
  BY <1>1, <1>2, PollAccounts
<1>3. ASSUME NEW p \in Ports, NEW n, Turn(t, p, n)
      PROVE  /\ op[t].kind = "poll" /\ PollFits(op[t]) /\ p \in DOMAIN op[t].group
             /\ GroupFits(op[t].group[p])
  BY <1>3 DEF Turn, IInv, Types, TaskTypes, OpFits, PollFits
<1>4. ASSUME NEW p \in Ports, NEW n, NEW g, Turn(t, p, n),
             op' = [op EXCEPT ![t].group[p] = g], g.todo = op[t].group[p].todo
      PROVE  Accounted(op'[t])
  <2>1. op'[t] = Moved(op[t], p, g, op[t].got)
    BY <1>3, <1>4 DEF PollFits, Moved, IInv, Types, TaskTypes
  <2> QED
    BY <1>3, <1>4, <2>1, MovedAccounted
<1>5. ASSUME NEW p \in Ports, NEW n, LooksUp(t, p, n) PROVE Accounted(op'[t])
  <2> DEFINE e == Entry(n)
             g == [op[t].group[p] EXCEPT !.at = "waiting", !.name = n, !.id = e.id, !.client = session[e.id].client]
  <2>1. Turn(t, p, n) /\ op' = [op EXCEPT ![t].group[p] = g]
    BY <1>5 DEF LooksUp
  <2>2. g.todo = op[t].group[p].todo
    BY <1>3, <2>1 DEF GroupFits
  <2> QED
    BY <1>4, <2>1, <2>2
<1>6. ASSUME NEW p \in Ports, NEW n, LookupFails(t, p, n) PROVE Accounted(op'[t])
  <2>1. op'[t] = [kind |-> "crashed", missing |-> n]
    BY <1>6 DEF LookupFails, IInv, Types, TaskTypes
  <2> QED
    BY <2>1 DEF Accounted
<1>7. ASSUME NEW p \in Ports, NEW n, Asks(t, p, n) PROVE Accounted(op'[t])
  <2> DEFINE g == [op[t].group[p] EXCEPT !.at = "asking"]
  <2>1. Turn(t, p, n) /\ op' = [op EXCEPT ![t].group[p] = g]
    BY <1>7 DEF Asks
  <2>2. g.todo = op[t].group[p].todo
    BY <1>3, <2>1 DEF GroupFits
  <2> QED
    BY <1>4, <2>1, <2>2
<1>8. ASSUME NEW p \in Ports, NEW n, Refused(t, p, n) \/ Answered(t, p, n) PROVE Accounted(op'[t])
  BY <1>8, ResultAccounts DEF Refused, Answered
<1> QED
  BY <1>1, <1>2, <1>5, <1>6, <1>7, <1>8 DEF Dispatch

\* A dispatch that returns has a result of each balance it was called for, on however many
\* ports, whatever is removed, added, switched or closed while it runs.
THEOREM PollsComplete == Spec => []ResultsComplete
<1>1. Init => PollInv
  BY DEF Init, Idle, PollInv, Accounted
<1>2. IInv /\ PollInv /\ [Next]_vars => PollInv'
  <2> SUFFICES ASSUME IInv, PollInv, [Next]_vars, NEW u \in Tasks PROVE Accounted(op'[u])
    BY DEF PollInv
  <2>1. TaskTypes /\ Accounted(op[u])
    BY DEF IInv, Types, PollInv
  <2>2. ASSUME NEW t \in Tasks, Administer(t) \/ Configure(t) \/ Cancel(t) PROVE Accounted(op'[u])
    BY <2>1, <2>2, AdministerMoves, ConfigureMoves DEF NoPoll, Accounted
  <2>3. ASSUME NEW t \in Tasks, Dispatch(t) PROVE Accounted(op'[u])
    BY <2>1, <2>3, DispatchAccounts DEF PollInv
  <2>4. CASE UNCHANGED vars
    BY <2>1, <2>4 DEF vars
  <2> QED
    BY <2>2, <2>3, <2>4 DEF Next
<1>3. PollInv => ResultsComplete
  BY DEF PollInv, Accounted, ResultsComplete
<1> QED
  BY <1>1, <1>2, <1>3, Invariance, PTL DEF Spec
=============================================================================
