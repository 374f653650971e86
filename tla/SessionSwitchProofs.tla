------------------------ MODULE SessionSwitchProofs ------------------------
(***************************************************************************)
(* Proofs about SessionSwitch for every number of tasks, clients, commands *)
(* and framings. The first layer holds whatever the tasks do: types, and a *)
(* lock's holder stays at its head. The next ones assume what the code      *)
(* does not enforce, that at most one task reconfigures the protocol.      *)
(***************************************************************************)
EXTENDS SessionSwitch, SequenceTheorems, TLAPS

OneConfigurer == \A t, u \in Configurers : t = u

-----------------------------------------------------------------------------
(* Lemmas on the lock's queue.                                             *)

\* Leaving the queue gives a queue, and whoever is at its head and does not
\* leave stays there.
LEMMA RemoveAtProperties ==
  ASSUME NEW S, NEW s \in Seq(S), NEW i \in 1..Len(s)
  PROVE  /\ RemoveAt(s, i) \in Seq(S)
         /\ i # 1 => RemoveAt(s, i) # <<>> /\ Head(RemoveAt(s, i)) = Head(s)
<1> DEFINE a == SubSeq(s, 1, i - 1)
           b == SubSeq(s, i + 1, Len(s))
<1>1. a \in Seq(S) /\ Len(a) = i - 1 /\ \A j \in 1..(i - 1) : a[j] = s[j]
  OBVIOUS
<1>2. b \in Seq(S)
  OBVIOUS
<1> HIDE DEF a, b
<1>3. RemoveAt(s, i) = a \o b
  BY DEF RemoveAt, a, b
<1>4. /\ a \o b \in Seq(S)
      /\ Len(a \o b) = Len(a) + Len(b)
      /\ \A j \in 1..(Len(a) + Len(b)) :
            (a \o b)[j] = IF j <= Len(a) THEN a[j] ELSE b[j - Len(a)]
  BY <1>1, <1>2, ConcatProperties
<1>5. ASSUME i # 1 PROVE a \o b # <<>> /\ Head(a \o b) = Head(s)
  <2>1. Len(b) \in Nat /\ Len(a) >= 1 /\ Len(s) >= 1
    BY <1>1, <1>2, <1>5, LenProperties
  <2>2. (a \o b)[1] = s[1] /\ Len(a \o b) >= 1
    BY <1>1, <1>4, <1>5, <2>1
  <2>3. s # <<>> /\ a \o b # <<>>
    BY <2>1, <2>2
  <2> QED
    BY <2>2, <2>3
<1> QED
  BY <1>3, <1>4, <1>5

\* Joining a queue changes its head only when it is empty.
LEMMA AppendKeepsHead ==
  ASSUME NEW S, NEW s \in Seq(S), NEW e \in S
  PROVE  /\ Append(s, e) \in Seq(S)
         /\ s # <<>> => Append(s, e) # <<>> /\ Head(Append(s, e)) = Head(s)
  OBVIOUS

-----------------------------------------------------------------------------
(* The lock discipline and the types: no assumption on the tasks.          *)

Holding == {"exchange"} \cup Switching

\* A task between its first await under the lock and its return is the head of
\* the lock it took.
HolderInv == \A t \in Tasks : pc[t] \in Holding => Owns(t)

\* What the locals of a call are at each point.
CallOf(t) ==
  /\ pc[t] \in {"queued", "exchange"} => call[t] \in Commands
  /\ pc[t] \in {"switchQueued"} \cup Switching => call[t] \in Switches
  /\ pc[t] \in {"opening", "sniff", "verify"} => call[t].at \in Framings
  /\ pc[t] \in {"restoring", "reopening"} => call[t].was \in Framings

CallInv == \A t \in Tasks : CallOf(t)

LockInv == TypeOK /\ HolderInv /\ CallInv

USE SwitchAssumption

LEMMA InitLock == Init => LockInv
<1> SUFFICES ASSUME Init PROVE LockInv
  OBVIOUS
<1>1. proto \in [Clients -> Protocols]
  BY DEF Init
<1>2. /\ 1 \in Clients /\ <<>> \in Seq(Tasks)
      /\ framing \in Framings \cup {None} /\ port \in Framings \cup {Closed}
  BY DEF Init, Clients
<1>3. TypeOK
  BY <1>1, <1>2 DEF Init, TypeOK, Pcs, Availability
<1>4. HolderInv /\ CallInv
  BY DEF Init, HolderInv, CallInv, CallOf, Holding, Switching
<1> QED
  BY <1>3, <1>4 DEF LockInv

\* What a step of task t leaves alone, and what it may do to the locks.
OthersStay(t) ==
  \A u \in Tasks \ {t} : pc'[u] = pc[u] /\ call'[u] = call[u] /\ client'[u] = client[u]

LockStep(t) ==
  \/ lock' = lock
  \/ \E c \in Clients : lock' = [lock EXCEPT ![c] = Append(@, t)]
  \/ Owns(t) /\ Release(t)
  \/ \E i \in DOMAIN lock[client[t]] :
       /\ lock[client[t]][i] = t
       /\ lock' = [lock EXCEPT ![client[t]] = RemoveAt(@, i)]

\* Such a step takes no lock from another task.
LEMMA OthersKeepHead ==
  ASSUME TypeOK, NEW t \in Tasks, NEW u \in Tasks, t # u, Owns(u),
         OthersStay(t), LockStep(t)
  PROVE  Owns(u)'
<1>1. /\ client'[u] = client[u] /\ client[u] \in Clients /\ client[t] \in Clients
      /\ lock \in [Clients -> Seq(Tasks)]
  BY DEF OthersStay, TypeOK
<1>2. lock[client[u]] \in Seq(Tasks) /\ lock[client[u]] # <<>> /\ Head(lock[client[u]]) = u
  BY <1>1 DEF Owns
<1>3. SUFFICES lock'[client[u]] # <<>> /\ Head(lock'[client[u]]) = u
  BY <1>1 DEF Owns
<1>4. CASE lock' = lock
  BY <1>2, <1>4
<1>5. ASSUME NEW c \in Clients, lock' = [lock EXCEPT ![c] = Append(@, t)]
      PROVE  lock'[client[u]] # <<>> /\ Head(lock'[client[u]]) = u
  <2>1. CASE c = client[u]
    <3>1. lock'[client[u]] = Append(lock[client[u]], t)
      BY <1>1, <1>5, <2>1
    <3> QED
      BY <1>2, <3>1, AppendKeepsHead
  <2>2. CASE c # client[u]
    BY <1>1, <1>2, <1>5, <2>2
  <2> QED
    BY <2>1, <2>2
<1>6. CASE Owns(t) /\ Release(t)
  <2>1. client[t] # client[u]
    BY <1>2, <1>6 DEF Owns
  <2> QED
    BY <1>1, <1>2, <1>6, <2>1 DEF Release
<1>7. ASSUME NEW i \in DOMAIN lock[client[t]],
             lock[client[t]][i] = t,
             lock' = [lock EXCEPT ![client[t]] = RemoveAt(@, i)]
      PROVE  lock'[client[u]] # <<>> /\ Head(lock'[client[u]]) = u
  <2>1. CASE client[t] # client[u]
    BY <1>1, <1>2, <1>7, <2>1
  <2>2. CASE client[t] = client[u]
    <3>1. i \in 1..Len(lock[client[u]]) /\ i # 1
      BY <1>1, <1>2, <1>7, <2>2, LenProperties
    <3>2. lock'[client[u]] = RemoveAt(lock[client[u]], i)
      BY <1>1, <1>7, <2>2
    <3> QED
      BY <1>2, <3>1, <3>2, RemoveAtProperties
  <2> QED
    BY <2>1, <2>2
<1> QED
  BY <1>4, <1>5, <1>6, <1>7 DEF LockStep

\* A step of task t preserves LockInv when it does for t itself.
LEMMA StepOfOne ==
  ASSUME LockInv, NEW t \in Tasks, TypeOK', OthersStay(t), LockStep(t),
         pc'[t] \in Holding => Owns(t)', CallOf(t)'
  PROVE  LockInv'
<1>1. HolderInv'
  <2>1. ASSUME NEW u \in Tasks, u # t, pc'[u] \in Holding PROVE Owns(u)'
    <3>1. pc[u] \in Holding
      BY <2>1 DEF OthersStay
    <3>2. Owns(u)
      BY <3>1 DEF LockInv, HolderInv
    <3> QED
      BY <2>1, <3>2, OthersKeepHead DEF LockInv
  <2> QED
    BY <2>1 DEF HolderInv
<1>2. CallInv'
  <2>1. ASSUME NEW u \in Tasks, u # t PROVE CallOf(u)'
    BY <2>1 DEF OthersStay, LockInv, CallInv, CallOf
  <2> QED
    BY <2>1 DEF CallInv
<1> QED
  BY <1>1, <1>2 DEF LockInv

LEMMA QueueTypes ==
  ASSUME TypeOK, NEW t \in Tasks
  PROVE  /\ client[t] \in Clients /\ lock[client[t]] \in Seq(Tasks)
         /\ \A c \in Clients : Append(lock[c], t) \in Seq(Tasks)
         /\ Owns(t) => Tail(lock[client[t]]) \in Seq(Tasks)
         /\ \A i \in DOMAIN lock[client[t]] : RemoveAt(lock[client[t]], i) \in Seq(Tasks)
<1>1. client[t] \in Clients /\ \A c \in Clients : lock[c] \in Seq(Tasks)
  BY DEF TypeOK
<1>2. Owns(t) => Tail(lock[client[t]]) \in Seq(Tasks)
  BY <1>1 DEF Owns
<1>3. \A i \in DOMAIN lock[client[t]] : RemoveAt(lock[client[t]], i) \in Seq(Tasks)
  BY <1>1, RemoveAtProperties, LenProperties
<1> QED
  BY <1>1, <1>2, <1>3, AppendKeepsHead

\* The locals of configure_protocol.
LEMMA SwitchTypes ==
  ASSUME NEW w \in Switches, NEW f \in Framings
  PROVE  /\ w.proto \in Protocols
         /\ w.to \in Framings \cup {None} /\ w.was \in Framings \cup {None}
         /\ Overlay(f, w.to) \in Framings
         /\ [w EXCEPT !.at = f] \in Switches
         /\ [w EXCEPT !.at = f].at = f
  BY DEF Switches, Overlay

\* Every step keeps the lock discipline and the types.
LEMMA NextLock == LockInv /\ [Next]_vars => LockInv'
<1> SUFFICES ASSUME LockInv, [Next]_vars PROVE LockInv'
  OBVIOUS
<1> USE DEF Goto
<1>1. ASSUME NEW t \in Tasks, NEW c \in Commands, Execute(t, c) PROVE LockInv'
  <2>1. CallOf(t) /\ (pc[t] \in Holding => Owns(t))
    BY DEF LockInv, CallInv, HolderInv
  <2>2. TypeOK'
    BY <1>1, <2>1, QueueTypes DEF LockInv, TypeOK, CallOf, Holding, Switching, Pcs, Execute, session, transport
  <2>3. OthersStay(t) /\ LockStep(t)
    BY <1>1, <2>1 DEF LockInv, TypeOK, OthersStay, LockStep, Holding, Switching, Execute
  <2>4. pc'[t] \in Holding => Owns(t)'
    BY <1>1, <2>1 DEF LockInv, TypeOK, Owns, Holding, Switching, Execute
  <2>5. CallOf(t)'
    BY <1>1, <2>1 DEF LockInv, TypeOK, CallOf, Holding, Switching, Execute
  <2> QED
    BY <2>2, <2>3, <2>4, <2>5, StepOfOne
<1>2. ASSUME NEW t \in Tasks, Send(t) PROVE LockInv'
  <2>1. CallOf(t) /\ (pc[t] \in Holding => Owns(t))
    BY DEF LockInv, CallInv, HolderInv
  <2>2. TypeOK'
    BY <1>2, <2>1, QueueTypes DEF LockInv, TypeOK, CallOf, Holding, Switching, Pcs, Send, session, transport
  <2>3. OthersStay(t) /\ LockStep(t)
    BY <1>2, <2>1 DEF LockInv, TypeOK, OthersStay, LockStep, Holding, Switching, Send
  <2>4. pc'[t] \in Holding => Owns(t)'
    BY <1>2, <2>1 DEF LockInv, TypeOK, Owns, Holding, Switching, Send
  <2>5. CallOf(t)'
    BY <1>2, <2>1 DEF LockInv, TypeOK, CallOf, Holding, Switching, Send
  <2> QED
    BY <2>2, <2>3, <2>4, <2>5, StepOfOne
<1>3. ASSUME NEW t \in Tasks, Refuse(t) PROVE LockInv'
  <2>1. CallOf(t) /\ (pc[t] \in Holding => Owns(t))
    BY DEF LockInv, CallInv, HolderInv
  <2>2. TypeOK'
    BY <1>3, <2>1, QueueTypes DEF LockInv, TypeOK, CallOf, Holding, Switching, Pcs, Refuse, Return, Release, session, transport
  <2>3. OthersStay(t) /\ LockStep(t)
    BY <1>3, <2>1 DEF LockInv, TypeOK, OthersStay, LockStep, Holding, Switching, Refuse, Return, Release
  <2>4. pc'[t] \in Holding => Owns(t)'
    BY <1>3, <2>1 DEF LockInv, TypeOK, Owns, Holding, Switching, Refuse, Return, Release
  <2>5. CallOf(t)'
    BY <1>3, <2>1 DEF LockInv, TypeOK, CallOf, Holding, Switching, Refuse, Return, Release
  <2> QED
    BY <2>2, <2>3, <2>4, <2>5, StepOfOne
<1>4. ASSUME NEW t \in Tasks, NEW r \in Outcomes, Reply(t, r) PROVE LockInv'
  <2>1. CallOf(t) /\ (pc[t] \in Holding => Owns(t))
    BY DEF LockInv, CallInv, HolderInv
  <2>2. TypeOK'
    BY <1>4, <2>1, QueueTypes DEF LockInv, TypeOK, CallOf, Holding, Switching, Pcs, Reply, Return, Release, Learn, Availability, Outcomes, session, transport
  <2>3. OthersStay(t) /\ LockStep(t)
    BY <1>4, <2>1 DEF LockInv, TypeOK, OthersStay, LockStep, Holding, Switching, Reply, Return, Release, Learn, Availability, Outcomes
  <2>4. pc'[t] \in Holding => Owns(t)'
    BY <1>4, <2>1 DEF LockInv, TypeOK, Owns, Holding, Switching, Reply, Return, Release, Learn, Availability, Outcomes
  <2>5. CallOf(t)'
    BY <1>4, <2>1 DEF LockInv, TypeOK, CallOf, Holding, Switching, Reply, Return, Release, Learn, Availability, Outcomes
  <2> QED
    BY <2>2, <2>3, <2>4, <2>5, StepOfOne
<1>5. ASSUME NEW t \in Tasks, NEW p \in Protocols, NEW f \in Framings \cup {None}, Configure(t, p, f) PROVE LockInv'
  <2>1. CallOf(t) /\ (pc[t] \in Holding => Owns(t))
    BY DEF LockInv, CallInv, HolderInv
  <2>2. TypeOK'
    BY <1>5, <2>1, QueueTypes DEF LockInv, TypeOK, CallOf, Holding, Switching, Pcs, Configure, Switches, session, transport
  <2>3. OthersStay(t) /\ LockStep(t)
    BY <1>5, <2>1 DEF LockInv, TypeOK, OthersStay, LockStep, Holding, Switching, Configure, Switches
  <2>4. pc'[t] \in Holding => Owns(t)'
    BY <1>5, <2>1 DEF LockInv, TypeOK, Owns, Holding, Switching, Configure, Switches
  <2>5. CallOf(t)'
    BY <1>5, <2>1 DEF LockInv, TypeOK, CallOf, Holding, Switching, Configure, Switches
  <2> QED
    BY <2>2, <2>3, <2>4, <2>5, StepOfOne
<1>6. ASSUME NEW t \in Tasks, Detach(t) PROVE LockInv'
  <2>1. CallOf(t) /\ (pc[t] \in Holding => Owns(t))
    BY DEF LockInv, CallInv, HolderInv
  <2>2. TypeOK'
    BY <1>6, <2>1, QueueTypes DEF LockInv, TypeOK, CallOf, Holding, Switching, Pcs, Detach, session, transport
  <2>3. OthersStay(t) /\ LockStep(t)
    BY <1>6, <2>1 DEF LockInv, TypeOK, OthersStay, LockStep, Holding, Switching, Detach
  <2>4. pc'[t] \in Holding => Owns(t)'
    BY <1>6, <2>1 DEF LockInv, TypeOK, Owns, Holding, Switching, Detach
  <2>5. CallOf(t)'
    BY <1>6, <2>1 DEF LockInv, TypeOK, CallOf, Holding, Switching, Detach
  <2> QED
    BY <2>2, <2>3, <2>4, <2>5, StepOfOne
<1>7. ASSUME NEW t \in Tasks, Reopen(t) PROVE LockInv'
  <2>1. CallOf(t) /\ (pc[t] \in Holding => Owns(t))
    BY DEF LockInv, CallInv, HolderInv
  <2>a. call[t] \in Switches /\ pc[t] = "closing" /\ settings \in Framings
    BY <1>7, <2>1 DEF CallOf, Switching, Reopen, LockInv, TypeOK
  <2>b. settings' \in Framings
    BY <1>7, <2>a, SwitchTypes DEF Reopen
  <2>c. call' \in [Tasks -> Commands \cup Switches \cup {None}]
    <3>1. CASE port = Closed
      <4>1. call' = [call EXCEPT ![t] = [call[t] EXCEPT !.at = settings']]
        BY <1>7, <3>1 DEF Reopen
      <4>2. [call[t] EXCEPT !.at = settings'] \in Switches
        BY <2>a, <2>b, SwitchTypes
      <4> QED
        BY <4>1, <4>2 DEF LockInv, TypeOK
    <3>2. CASE port # Closed
      BY <1>7, <3>2 DEF Reopen, SwitchFails, Return, LockInv, TypeOK
    <3> QED
      BY <3>1, <3>2
  <2>d. pc' \in [Tasks -> Pcs] /\ port' \in Framings \cup {Closed} /\ lock' \in [Clients -> Seq(Tasks)]
        /\ state' \in {"OPERATIONAL", "BROKEN"}
    BY <1>7, <2>1, QueueTypes DEF Reopen, SwitchFails, Return, Release, LockInv, TypeOK, Pcs, Switching, Holding
  <2>2. TypeOK'
    BY <1>7, <2>b, <2>c, <2>d DEF Reopen, LockInv, TypeOK
  <2>3. OthersStay(t) /\ LockStep(t)
    BY <1>7, <2>1 DEF LockInv, TypeOK, OthersStay, LockStep, Holding, Switching, Reopen, SwitchFails, Return, Release, Overlay, Switches
  <2>4. pc'[t] \in Holding => Owns(t)'
    BY <1>7, <2>1 DEF LockInv, TypeOK, Owns, Holding, Switching, Reopen, SwitchFails, Return, Release, Overlay, Switches
  <2>5. CallOf(t)'
    <3>1. CASE port = Closed
      <4>1. pc'[t] = "opening" /\ call'[t] = [call[t] EXCEPT !.at = settings']
        BY <1>7, <3>1 DEF Reopen, LockInv, TypeOK
      <4> QED
        BY <4>1, <2>a, <2>b, SwitchTypes DEF CallOf, Switching
    <3>2. CASE port # Closed
      <4>1. call[t].was \in Framings \cup {None}
        BY <2>a, SwitchTypes
      <4>2. \/ pc'[t] = "idle"
            \/ pc'[t] = "restoring" /\ call'[t] = call[t] /\ call[t].was # None
        BY <1>7, <3>2 DEF Reopen, SwitchFails, Return, LockInv, TypeOK
      <4> QED
        BY <2>a, <4>1, <4>2 DEF CallOf, Switching
    <3> QED
      BY <3>1, <3>2
  <2> QED
    BY <2>2, <2>3, <2>4, <2>5, StepOfOne
<1>8. ASSUME NEW t \in Tasks, Opened(t) PROVE LockInv'
  <2>1. CallOf(t) /\ (pc[t] \in Holding => Owns(t))
    BY DEF LockInv, CallInv, HolderInv
  <2>2. TypeOK'
    BY <1>8, <2>1, QueueTypes DEF LockInv, TypeOK, CallOf, Holding, Switching, Pcs, Opened, session, transport
  <2>3. OthersStay(t) /\ LockStep(t)
    BY <1>8, <2>1 DEF LockInv, TypeOK, OthersStay, LockStep, Holding, Switching, Opened
  <2>4. pc'[t] \in Holding => Owns(t)'
    BY <1>8, <2>1 DEF LockInv, TypeOK, Owns, Holding, Switching, Opened
  <2>5. CallOf(t)'
    BY <1>8, <2>1 DEF LockInv, TypeOK, CallOf, Holding, Switching, Opened
  <2> QED
    BY <2>2, <2>3, <2>4, <2>5, StepOfOne
<1>9. ASSUME NEW t \in Tasks, Quiet(t) PROVE LockInv'
  <2>1. CallOf(t) /\ (pc[t] \in Holding => Owns(t))
    BY DEF LockInv, CallInv, HolderInv
  <2>2. TypeOK'
    BY <1>9, <2>1, QueueTypes DEF LockInv, TypeOK, CallOf, Holding, Switching, Pcs, Quiet, session, transport
  <2>3. OthersStay(t) /\ LockStep(t)
    BY <1>9, <2>1 DEF LockInv, TypeOK, OthersStay, LockStep, Holding, Switching, Quiet
  <2>4. pc'[t] \in Holding => Owns(t)'
    BY <1>9, <2>1 DEF LockInv, TypeOK, Owns, Holding, Switching, Quiet
  <2>5. CallOf(t)'
    BY <1>9, <2>1 DEF LockInv, TypeOK, CallOf, Holding, Switching, Quiet
  <2> QED
    BY <2>2, <2>3, <2>4, <2>5, StepOfOne
<1>10. ASSUME NEW t \in Tasks, Fails(t) PROVE LockInv'
  <2>1. CallOf(t) /\ (pc[t] \in Holding => Owns(t))
    BY DEF LockInv, CallInv, HolderInv
  <2>a. call' \in [Tasks -> Commands \cup Switches \cup {None}]
    BY <1>10 DEF Fails, SwitchFails, Return, LockInv, TypeOK
  <2>b. pc' \in [Tasks -> Pcs] /\ port' \in Framings \cup {Closed} /\ lock' \in [Clients -> Seq(Tasks)]
        /\ state' \in {"OPERATIONAL", "BROKEN"}
    BY <1>10, <2>1, QueueTypes DEF Fails, SwitchFails, Return, Release, LockInv, TypeOK, Pcs, Switching, Holding
  <2>2. TypeOK'
    BY <1>10, <2>a, <2>b DEF Fails, LockInv, TypeOK
  <2>3. OthersStay(t) /\ LockStep(t)
    BY <1>10, <2>1 DEF LockInv, TypeOK, OthersStay, LockStep, Holding, Switching, Fails, SwitchFails, Return, Release, Switches
  <2>4. pc'[t] \in Holding => Owns(t)'
    BY <1>10, <2>1 DEF LockInv, TypeOK, Owns, Holding, Switching, Fails, SwitchFails, Return, Release, Switches
  <2>5. CallOf(t)'
    BY <1>10, <2>1 DEF LockInv, TypeOK, CallOf, Holding, Switching, Fails, SwitchFails, Return, Release, Switches
  <2> QED
    BY <2>2, <2>3, <2>4, <2>5, StepOfOne
<1>11. ASSUME NEW t \in Tasks, Install(t) PROVE LockInv'
  <2>1. CallOf(t) /\ (pc[t] \in Holding => Owns(t))
    BY DEF LockInv, CallInv, HolderInv
  <2>a. call[t] \in Switches /\ Owns(t)
    BY <1>11, <2>1 DEF CallOf, Switching, Holding, Install
  <2>b. call[t].proto \in Protocols /\ framing' \in Framings \cup {None}
    BY <1>11, <2>a, SwitchTypes DEF Install, Overlay, LockInv, TypeOK
  <2>c. active' \in Clients /\ disposed' \subseteq Clients /\ avail' \in [Commands -> Availability]
    <3>1. client[t] \in Clients /\ active \in 1..MaxClients /\ disposed \subseteq Clients
      BY DEF LockInv, TypeOK, Clients
    <3>2. active' \in 1..MaxClients
      BY <1>11, <3>1 DEF Install
    <3>3. avail' \in [Commands -> Availability]
      BY <1>11 DEF Install, Availability
    <3> QED
      BY <1>11, <3>1, <3>2, <3>3 DEF Install, Clients
  <2>d. proto' \in [Clients -> Protocols]
    BY <1>11, <2>b DEF Install, LockInv, TypeOK
  <2>e. pc' \in [Tasks -> Pcs] /\ call' \in [Tasks -> Commands \cup Switches \cup {None}]
        /\ lock' \in [Clients -> Seq(Tasks)]
    BY <1>11, <2>a, QueueTypes DEF Install, Return, Release, LockInv, TypeOK, Pcs
  <2>2. TypeOK'
    BY <1>11, <2>b, <2>c, <2>d, <2>e DEF Install, LockInv, TypeOK, transport
  <2>3. OthersStay(t) /\ LockStep(t)
    BY <1>11, <2>1 DEF LockInv, TypeOK, OthersStay, LockStep, Holding, Switching, Install, Return, Release, Overlay, Clients, Switches
  <2>4. pc'[t] \in Holding => Owns(t)'
    BY <1>11, <2>1 DEF LockInv, TypeOK, Owns, Holding, Switching, Install, Return, Release, Overlay, Clients, Switches
  <2>5. CallOf(t)'
    BY <1>11, <2>1 DEF LockInv, TypeOK, CallOf, Holding, Switching, Install, Return, Release, Overlay, Clients, Switches
  <2> QED
    BY <2>2, <2>3, <2>4, <2>5, StepOfOne
<1>12. ASSUME NEW t \in Tasks, Restore(t) PROVE LockInv'
  <2>1. CallOf(t) /\ (pc[t] \in Holding => Owns(t))
    BY DEF LockInv, CallInv, HolderInv
  <2>2. TypeOK'
    BY <1>12, <2>1, QueueTypes DEF LockInv, TypeOK, CallOf, Holding, Switching, Pcs, Restore, Return, Release, session, transport
  <2>3. OthersStay(t) /\ LockStep(t)
    BY <1>12, <2>1 DEF LockInv, TypeOK, OthersStay, LockStep, Holding, Switching, Restore, Return, Release
  <2>4. pc'[t] \in Holding => Owns(t)'
    BY <1>12, <2>1 DEF LockInv, TypeOK, Owns, Holding, Switching, Restore, Return, Release
  <2>5. CallOf(t)'
    BY <1>12, <2>1 DEF LockInv, TypeOK, CallOf, Holding, Switching, Restore, Return, Release
  <2> QED
    BY <2>2, <2>3, <2>4, <2>5, StepOfOne
<1>13. ASSUME NEW t \in Tasks, Restored(t) PROVE LockInv'
  <2>1. CallOf(t) /\ (pc[t] \in Holding => Owns(t))
    BY DEF LockInv, CallInv, HolderInv
  <2>2. TypeOK'
    BY <1>13, <2>1, QueueTypes DEF LockInv, TypeOK, CallOf, Holding, Switching, Pcs, Restored, Return, Release, session, transport
  <2>3. OthersStay(t) /\ LockStep(t)
    BY <1>13, <2>1 DEF LockInv, TypeOK, OthersStay, LockStep, Holding, Switching, Restored, Return, Release
  <2>4. pc'[t] \in Holding => Owns(t)'
    BY <1>13, <2>1 DEF LockInv, TypeOK, Owns, Holding, Switching, Restored, Return, Release
  <2>5. CallOf(t)'
    BY <1>13, <2>1 DEF LockInv, TypeOK, CallOf, Holding, Switching, Restored, Return, Release
  <2> QED
    BY <2>2, <2>3, <2>4, <2>5, StepOfOne
<1>14. ASSUME NEW t \in Tasks, Cancel(t) PROVE LockInv'
  <2>1. CallOf(t) /\ (pc[t] \in Holding => Owns(t))
    BY DEF LockInv, CallInv, HolderInv
  <2>2. TypeOK'
    BY <1>14, <2>1, QueueTypes DEF LockInv, TypeOK, CallOf, Holding, Switching, Pcs, Cancel, Return, session, transport
  <2>3. OthersStay(t) /\ LockStep(t)
    BY <1>14, <2>1 DEF LockInv, TypeOK, OthersStay, LockStep, Holding, Switching, Cancel, Return
  <2>4. pc'[t] \in Holding => Owns(t)'
    BY <1>14, <2>1 DEF LockInv, TypeOK, Owns, Holding, Switching, Cancel, Return
  <2>5. CallOf(t)'
    BY <1>14, <2>1 DEF LockInv, TypeOK, CallOf, Holding, Switching, Cancel, Return
  <2> QED
    BY <2>2, <2>3, <2>4, <2>5, StepOfOne
<1>15. CASE Close
  <2>1. TypeOK'
    BY <1>15 DEF Close, LockInv, TypeOK, session
  <2> QED
    BY <1>15, <2>1 DEF Close, LockInv, HolderInv, CallInv, CallOf, Owns
<1>16. CASE UNCHANGED vars
  <2>1. TypeOK'
    BY <1>16 DEF LockInv, TypeOK, vars, session, transport
  <2> QED
    BY <1>16, <2>1 DEF vars, session, transport, LockInv, HolderInv, CallInv, CallOf, Owns
<1> QED
  BY <1>1, <1>2, <1>3, <1>4, <1>5, <1>6, <1>7, <1>8, <1>9, <1>10, <1>11, <1>12, <1>13, <1>14,
     <1>15, <1>16 DEF Next, Begin, Resume

\* The type invariant, for any number of tasks that all may switch.
THEOREM TypeCorrect == Spec => []TypeOK
<1>1. Init => LockInv
  BY InitLock
<1>2. LockInv /\ [Next]_vars => LockInv'
  BY NextLock
<1>3. LockInv => TypeOK
  BY DEF LockInv
<1> QED
  BY <1>1, <1>2, <1>3, PTL DEF Spec

-----------------------------------------------------------------------------
(* One request at a time, when one task at most switches protocols.        *)

\* Only a configurer switches; whoever is on the wire, or waits to switch, does
\* so through the session's client; whoever waits with another client waits
\* for a retired one.
OwnerOf(t) ==
  /\ pc[t] \in {"switchQueued"} \cup Switching => t \in Configurers
  /\ pc[t] \in {"exchange", "switchQueued"} \cup Switching => client[t] = active
  /\ pc[t] = "queued" => client[t] = active \/ client[t] \in disposed

OwnerInv ==
  /\ \A t \in Tasks : OwnerOf(t)
  /\ \A c \in disposed : c < active

\* Two tasks on the wire hold the same lock, so they are one.
LEMMA OneHolder ==
  ASSUME LockInv, OwnerInv, NEW t \in Tasks, NEW u \in Tasks, OnWire(t), OnWire(u)
  PROVE  t = u
<1>1. pc[t] \in Holding /\ pc[u] \in Holding
  BY DEF OnWire, Holding
<1>2. client[t] = active /\ client[u] = active
  BY <1>1 DEF OwnerInv, OwnerOf, Holding
<1> QED
  BY <1>1, <1>2 DEF LockInv, HolderInv, Owns

LEMMA InitOwner == Init => OwnerInv
  BY DEF Init, OwnerInv, OwnerOf, Switching

LEMMA NextOwner ==
  ASSUME OneConfigurer, LockInv, OwnerInv, [Next]_vars
  PROVE  OwnerInv'
<1> USE DEF Goto, session, transport
<1>1. ASSUME NEW t \in Tasks, NEW c \in Commands, Execute(t, c) PROVE OwnerInv'
  <2>1. OwnerOf(t)'
    BY <1>1 DEF Execute, LockInv, TypeOK, OwnerInv, OwnerOf, Switching
  <2>2. \A u \in Tasks \ {t} : OwnerOf(u)'
    BY <1>1 DEF Execute, LockInv, TypeOK, OwnerInv, OwnerOf
  <2> QED
    BY <1>1, <2>1, <2>2 DEF Execute, OwnerInv
<1>2. ASSUME NEW t \in Tasks, Send(t) PROVE OwnerInv'
  <2>1. OwnerOf(t)'
    BY <1>2 DEF Send, LockInv, TypeOK, OwnerInv, OwnerOf, Switching
  <2>2. \A u \in Tasks \ {t} : OwnerOf(u)'
    BY <1>2 DEF Send, LockInv, TypeOK, OwnerInv, OwnerOf
  <2> QED
    BY <1>2, <2>1, <2>2 DEF Send, OwnerInv
<1>3. ASSUME NEW t \in Tasks, Refuse(t) PROVE OwnerInv'
  <2>1. OwnerOf(t)'
    BY <1>3 DEF Refuse, Return, LockInv, TypeOK, OwnerInv, OwnerOf, Switching
  <2>2. \A u \in Tasks \ {t} : OwnerOf(u)'
    BY <1>3 DEF Refuse, Return, LockInv, TypeOK, OwnerInv, OwnerOf
  <2> QED
    BY <1>3, <2>1, <2>2 DEF Refuse, Return, OwnerInv
<1>4. ASSUME NEW t \in Tasks, NEW r \in Outcomes, Reply(t, r) PROVE OwnerInv'
  <2>1. OwnerOf(t)'
    BY <1>4 DEF Reply, Return, LockInv, TypeOK, OwnerInv, OwnerOf, Switching
  <2>2. \A u \in Tasks \ {t} : OwnerOf(u)'
    BY <1>4 DEF Reply, Return, LockInv, TypeOK, OwnerInv, OwnerOf
  <2> QED
    BY <1>4, <2>1, <2>2 DEF Reply, Return, OwnerInv
<1>5. ASSUME NEW t \in Tasks, NEW p \in Protocols, NEW f \in Framings \cup {None}, Configure(t, p, f) PROVE OwnerInv'
  <2>1. OwnerOf(t)'
    BY <1>5 DEF Configure, LockInv, TypeOK, OwnerInv, OwnerOf, Switching
  <2>2. \A u \in Tasks \ {t} : OwnerOf(u)'
    BY <1>5 DEF Configure, LockInv, TypeOK, OwnerInv, OwnerOf
  <2> QED
    BY <1>5, <2>1, <2>2 DEF Configure, OwnerInv
<1>6. ASSUME NEW t \in Tasks, Detach(t) PROVE OwnerInv'
  <2>1. OwnerOf(t)'
    BY <1>6 DEF Detach, LockInv, TypeOK, OwnerInv, OwnerOf, Switching
  <2>2. \A u \in Tasks \ {t} : OwnerOf(u)'
    BY <1>6 DEF Detach, LockInv, TypeOK, OwnerInv, OwnerOf
  <2> QED
    BY <1>6, <2>1, <2>2 DEF Detach, OwnerInv
<1>7. ASSUME NEW t \in Tasks, Reopen(t) PROVE OwnerInv'
  <2>1. OwnerOf(t)'
    BY <1>7 DEF Reopen, SwitchFails, Return, LockInv, TypeOK, OwnerInv, OwnerOf, Switching
  <2>2. \A u \in Tasks \ {t} : OwnerOf(u)'
    BY <1>7 DEF Reopen, SwitchFails, Return, LockInv, TypeOK, OwnerInv, OwnerOf
  <2> QED
    BY <1>7, <2>1, <2>2 DEF Reopen, SwitchFails, Return, OwnerInv
<1>8. ASSUME NEW t \in Tasks, Opened(t) PROVE OwnerInv'
  <2>1. OwnerOf(t)'
    BY <1>8 DEF Opened, LockInv, TypeOK, OwnerInv, OwnerOf, Switching
  <2>2. \A u \in Tasks \ {t} : OwnerOf(u)'
    BY <1>8 DEF Opened, LockInv, TypeOK, OwnerInv, OwnerOf
  <2> QED
    BY <1>8, <2>1, <2>2 DEF Opened, OwnerInv
<1>9. ASSUME NEW t \in Tasks, Quiet(t) PROVE OwnerInv'
  <2>1. OwnerOf(t)'
    BY <1>9 DEF Quiet, LockInv, TypeOK, OwnerInv, OwnerOf, Switching
  <2>2. \A u \in Tasks \ {t} : OwnerOf(u)'
    BY <1>9 DEF Quiet, LockInv, TypeOK, OwnerInv, OwnerOf
  <2> QED
    BY <1>9, <2>1, <2>2 DEF Quiet, OwnerInv
<1>10. ASSUME NEW t \in Tasks, Fails(t) PROVE OwnerInv'
  <2>1. OwnerOf(t)'
    BY <1>10 DEF Fails, SwitchFails, Return, LockInv, TypeOK, OwnerInv, OwnerOf, Switching
  <2>2. \A u \in Tasks \ {t} : OwnerOf(u)'
    BY <1>10 DEF Fails, SwitchFails, Return, LockInv, TypeOK, OwnerInv, OwnerOf
  <2> QED
    BY <1>10, <2>1, <2>2 DEF Fails, SwitchFails, Return, OwnerInv
<1>11. ASSUME NEW t \in Tasks, Install(t) PROVE OwnerInv'
  <2>1. /\ OnWire(t) /\ t \in Configurers /\ client[t] = active /\ active \in Nat /\ disposed \subseteq Nat
        /\ active' = active + 1 /\ disposed' = disposed \cup {active} /\ client' = client
    BY <1>11 DEF Install, OnWire, Switching, OwnerInv, OwnerOf, LockInv, TypeOK, Clients
  <2>2. \A c \in disposed' : c < active'
    BY <2>1 DEF OwnerInv
  <2>3. OwnerOf(t)'
    BY <1>11 DEF Install, Return, LockInv, TypeOK, OwnerOf, Switching
  <2>4. ASSUME NEW u \in Tasks, u # t PROVE OwnerOf(u)'
    <3>1. pc'[u] = pc[u]
      BY <1>11, <2>4 DEF Install, Return, LockInv, TypeOK
    <3>2. pc[u] # "exchange"
      BY <2>1, <2>4, OneHolder DEF OnWire
    <3>3. pc[u] \notin {"switchQueued"} \cup Switching
      BY <2>1, <2>4 DEF OneConfigurer, OwnerInv, OwnerOf
    <3>4. pc[u] = "queued" => client[u] \in disposed'
      BY <2>1 DEF OwnerInv, OwnerOf
    <3> QED
      BY <2>1, <3>1, <3>2, <3>3, <3>4 DEF OwnerOf
  <2> QED
    BY <2>2, <2>3, <2>4 DEF OwnerInv
<1>12. ASSUME NEW t \in Tasks, Restore(t) PROVE OwnerInv'
  <2>1. OwnerOf(t)'
    BY <1>12 DEF Restore, Return, LockInv, TypeOK, OwnerInv, OwnerOf, Switching
  <2>2. \A u \in Tasks \ {t} : OwnerOf(u)'
    BY <1>12 DEF Restore, Return, LockInv, TypeOK, OwnerInv, OwnerOf
  <2> QED
    BY <1>12, <2>1, <2>2 DEF Restore, Return, OwnerInv
<1>13. ASSUME NEW t \in Tasks, Restored(t) PROVE OwnerInv'
  <2>1. OwnerOf(t)'
    BY <1>13 DEF Restored, Return, LockInv, TypeOK, OwnerInv, OwnerOf, Switching
  <2>2. \A u \in Tasks \ {t} : OwnerOf(u)'
    BY <1>13 DEF Restored, Return, LockInv, TypeOK, OwnerInv, OwnerOf
  <2> QED
    BY <1>13, <2>1, <2>2 DEF Restored, Return, OwnerInv
<1>14. ASSUME NEW t \in Tasks, Cancel(t) PROVE OwnerInv'
  <2>1. OwnerOf(t)'
    BY <1>14 DEF Cancel, Return, LockInv, TypeOK, OwnerInv, OwnerOf, Switching
  <2>2. \A u \in Tasks \ {t} : OwnerOf(u)'
    BY <1>14 DEF Cancel, Return, LockInv, TypeOK, OwnerInv, OwnerOf
  <2> QED
    BY <1>14, <2>1, <2>2 DEF Cancel, Return, OwnerInv
<1>15. CASE Close
  BY <1>15 DEF Close, OwnerInv, OwnerOf
<1>16. CASE UNCHANGED vars
  BY <1>16 DEF vars, OwnerInv, OwnerOf
<1> QED
  BY <1>1, <1>2, <1>3, <1>4, <1>5, <1>6, <1>7, <1>8, <1>9, <1>10, <1>11, <1>12, <1>13, <1>14,
     <1>15, <1>16 DEF Next, Begin, Resume

\* Session's promise to serialise I/O, for any number of tasks, clients, switches
\* and framings, as long as the calls to configure_protocol come from one task.
THEOREM SingleRequest ==
  ASSUME OneConfigurer
  PROVE  Spec => []SingleInFlight
<1>1. Init => LockInv /\ OwnerInv
  BY InitLock, InitOwner
<1>2. LockInv /\ OwnerInv /\ [Next]_vars => (LockInv /\ OwnerInv)'
  BY NextLock, NextOwner
<1>3. LockInv /\ OwnerInv => SingleInFlight
  BY OneHolder DEF SingleInFlight
<1> QED
  BY <1>1, <1>2, <1>3, PTL DEF Spec

-----------------------------------------------------------------------------
(* The port's framing, when moreover the configurer is not cancelled.      *)

\* What configure_protocol knows of the port and the settings at each await.
SwitchOf(t) ==
  /\ pc[t] \in {"switchQueued"} \cup Switching => call[t].was = framing
  /\ pc[t] \in {"closing", "opening", "restoring", "reopening"} => port = Closed
  /\ framing # None =>
       /\ pc[t] = "closing" => settings = framing
       /\ pc[t] = "opening" => settings = Overlay(framing, call[t].to) /\ call[t].at = settings
       /\ pc[t] \in {"sniff", "verify"} =>
            /\ settings = Overlay(framing, call[t].to)
            /\ port = settings \/ (port = Closed /\ closed)
       /\ pc[t] = "reopening" => settings = framing

\* A request on the wire: only Session.close can close the port under it.
RequestOf(t) ==
  pc[t] = "exchange" =>
    /\ port = Closed => closed
    /\ framing # None => state = "OPERATIONAL"

\* The port while nobody switches.
Settled ==
  framing # None =>
    /\ state = "OPERATIONAL" => settings = framing /\ (port = framing \/ (port = Closed /\ closed))
    /\ state = "BROKEN" => port = Closed

FramingInv ==
  /\ \A t \in Tasks : SwitchOf(t) /\ RequestOf(t)
  /\ (\A t \in Tasks : pc[t] \notin Switching) => Settled
  /\ state = "BROKEN" => \A t \in Tasks : pc[t] \notin {"switchQueued"} \cup Switching

\* A step that is no part of a switch.
LEMMA PassiveStep ==
  ASSUME FramingInv, NEW t \in Tasks, OthersStay(t), RequestOf(t)',
         pc[t] \notin {"switchQueued"} \cup Switching,
         pc'[t] \notin {"switchQueued"} \cup Switching,
         UNCHANGED <<state, framing, port, settings, closed>>
  PROVE  FramingInv'
<1>1. \A u \in Tasks \ {t} : SwitchOf(u)' /\ RequestOf(u)'
  BY DEF FramingInv, OthersStay, SwitchOf, RequestOf
<1>2. SwitchOf(t)'
  BY DEF SwitchOf, Switching
<1>3. \A u \in Tasks : pc'[u] \notin Switching <=> pc[u] \notin Switching
  BY DEF OthersStay
<1>4. Settled' <=> Settled
  BY DEF Settled
<1>5. state' = "BROKEN" => \A u \in Tasks : pc'[u] \notin {"switchQueued"} \cup Switching
  BY DEF FramingInv, OthersStay
<1> QED
  BY <1>1, <1>2, <1>3, <1>4, <1>5 DEF FramingInv

\* A step of the switch that holds the session's lock: nobody else has a request
\* on the wire or a switch under way.
LEMMA SwitchStep ==
  ASSUME OneConfigurer, LockInv, OwnerInv, NEW t \in Tasks, OthersStay(t),
         pc[t] \in {"switchQueued"} \cup Switching, Owns(t),
         SwitchOf(t)', pc'[t] # "exchange",
         pc'[t] \notin Switching => Settled',
         state' = "BROKEN" => pc'[t] \notin {"switchQueued"} \cup Switching
  PROVE  FramingInv'
<1>1. t \in Configurers /\ client[t] = active
  BY DEF OwnerInv, OwnerOf
<1>2. ASSUME NEW u \in Tasks, u # t PROVE pc'[u] \notin {"exchange", "switchQueued"} \cup Switching
  <2>1. pc[u] \notin {"switchQueued"} \cup Switching
    BY <1>1, <1>2 DEF OneConfigurer, OwnerInv, OwnerOf
  <2>2. pc[u] # "exchange"
    BY <1>1, <1>2 DEF LockInv, HolderInv, Holding, OwnerInv, OwnerOf, Owns
  <2> QED
    BY <1>2, <2>1, <2>2 DEF OthersStay
<1>3. \A u \in Tasks \ {t} : SwitchOf(u)' /\ RequestOf(u)'
  BY <1>2 DEF SwitchOf, RequestOf, Switching
<1>4. RequestOf(t)'
  BY DEF RequestOf
<1> QED
  BY <1>2, <1>3, <1>4 DEF FramingInv

LEMMA InitFraming == Init => FramingInv
  BY DEF Init, FramingInv, SwitchOf, RequestOf, Settled, Switching

LEMMA NextFraming ==
  ASSUME OneConfigurer, Configurers \cap Cancellable = {},
         LockInv, OwnerInv, FramingInv, [Next]_vars
  PROVE  FramingInv'
<1> USE DEF Goto
<1>1. ASSUME NEW t \in Tasks, NEW c \in Commands, Execute(t, c) PROVE FramingInv'
  <2>1. pc[t] \notin {"switchQueued"} \cup Switching
    BY <1>1 DEF Execute, Switching
  <2>2. RequestOf(t)'
    BY <1>1 DEF Execute, RequestOf, LockInv, TypeOK
  <2>3. OthersStay(t) /\ pc'[t] \notin {"switchQueued"} \cup Switching
    BY <1>1 DEF Execute, OthersStay, LockInv, TypeOK, Switching
  <2>4. UNCHANGED <<state, framing, port, settings, closed>>
    BY <1>1 DEF Execute, session, transport
  <2> QED
    BY <2>1, <2>2, <2>3, <2>4, PassiveStep
<1>2. ASSUME NEW t \in Tasks, Send(t) PROVE FramingInv'
  <2>1. pc[t] \notin {"switchQueued"} \cup Switching
    BY <1>2 DEF Send, Switching
  <2>2. RequestOf(t)'
    <3>1. framing # None => state = "OPERATIONAL"
      BY <1>2 DEF Send, FramingInv, Settled, LockInv, TypeOK, Switching
    <3> QED
      BY <1>2, <3>1 DEF Send, RequestOf, session, transport
  <2>3. OthersStay(t) /\ pc'[t] \notin {"switchQueued"} \cup Switching
    BY <1>2 DEF Send, OthersStay, LockInv, TypeOK, Switching
  <2>4. UNCHANGED <<state, framing, port, settings, closed>>
    BY <1>2 DEF Send, session, transport
  <2> QED
    BY <2>1, <2>2, <2>3, <2>4, PassiveStep
<1>3. ASSUME NEW t \in Tasks, Refuse(t) PROVE FramingInv'
  <2>1. pc[t] \notin {"switchQueued"} \cup Switching
    BY <1>3 DEF Refuse, Return, Switching
  <2>2. RequestOf(t)'
    BY <1>3 DEF Refuse, Return, RequestOf, LockInv, TypeOK
  <2>3. OthersStay(t) /\ pc'[t] \notin {"switchQueued"} \cup Switching
    BY <1>3 DEF Refuse, Return, OthersStay, LockInv, TypeOK, Switching
  <2>4. UNCHANGED <<state, framing, port, settings, closed>>
    BY <1>3 DEF Refuse, Return, session, transport
  <2> QED
    BY <2>1, <2>2, <2>3, <2>4, PassiveStep
<1>4. ASSUME NEW t \in Tasks, NEW r \in Outcomes, Reply(t, r) PROVE FramingInv'
  <2>1. pc[t] \notin {"switchQueued"} \cup Switching
    BY <1>4 DEF Reply, Return, Switching
  <2>2. RequestOf(t)'
    BY <1>4 DEF Reply, Return, RequestOf, LockInv, TypeOK
  <2>3. OthersStay(t) /\ pc'[t] \notin {"switchQueued"} \cup Switching
    BY <1>4 DEF Reply, Return, OthersStay, LockInv, TypeOK, Switching
  <2>4. UNCHANGED <<state, framing, port, settings, closed>>
    BY <1>4 DEF Reply, Return, session, transport
  <2> QED
    BY <2>1, <2>2, <2>3, <2>4, PassiveStep
<1>5. ASSUME NEW t \in Tasks, NEW p \in Protocols, NEW f \in Framings \cup {None}, Configure(t, p, f) PROVE FramingInv'
  <2>1. UNCHANGED <<state, framing, port, settings, closed>> /\ OthersStay(t)
    BY <1>5 DEF Configure, session, transport, OthersStay, LockInv, TypeOK
  <2>2. pc[t] = "idle" /\ pc'[t] = "switchQueued" /\ call'[t].was = framing
    BY <1>5 DEF Configure, LockInv, TypeOK
  <2>3. SwitchOf(t)' /\ RequestOf(t)'
    BY <2>1, <2>2 DEF SwitchOf, RequestOf
  <2>4. \A u \in Tasks \ {t} : SwitchOf(u)' /\ RequestOf(u)'
    BY <2>1 DEF FramingInv, OthersStay, SwitchOf, RequestOf
  <2>5. (\A u \in Tasks : pc'[u] \notin Switching) => Settled'
    BY <2>1, <2>2 DEF FramingInv, OthersStay, Settled, Switching
  <2>6. state' # "BROKEN"
    BY <1>5, <2>1 DEF Configure
  <2> QED
    BY <2>3, <2>4, <2>5, <2>6 DEF FramingInv
<1>6. ASSUME NEW t \in Tasks, Detach(t) PROVE FramingInv'
  <2>1. pc[t] \in {"switchQueued"} \cup Switching /\ OthersStay(t) /\ pc'[t] # "exchange"
    BY <1>6 DEF Detach, OthersStay, LockInv, TypeOK, Switching
  <2>2. /\ Owns(t) /\ call[t] \in Switches /\ state = "OPERATIONAL"
        /\ SwitchOf(t) /\ CallOf(t)
    BY <1>6, <2>1 DEF Detach, LockInv, HolderInv, Holding, CallInv, CallOf, TypeOK, FramingInv
  <2>3. SwitchOf(t)'
    <3>1. framing # None => settings = framing
      <4>1. \A u \in Tasks : pc[u] \notin Switching
        BY <1>6, <2>1 DEF Detach, OneConfigurer, OwnerInv, OwnerOf, Switching
      <4> QED
        BY <2>2, <4>1 DEF FramingInv, Settled
    <3> QED
      BY <1>6, <2>2, <3>1 DEF Detach, SwitchOf, Switching, LockInv, TypeOK, session
  <2>4. pc'[t] \in Switching
    BY <1>6 DEF Detach, Switching, LockInv, TypeOK
  <2>5. state' = "OPERATIONAL"
    BY <1>6, <2>2 DEF Detach, session
  <2> QED
    BY <2>1, <2>2, <2>3, <2>4, <2>5, SwitchStep
<1>7. ASSUME NEW t \in Tasks, Reopen(t) PROVE FramingInv'
  <2>1. pc[t] \in {"switchQueued"} \cup Switching /\ OthersStay(t) /\ pc'[t] # "exchange"
    BY <1>7 DEF Reopen, SwitchFails, Return, OthersStay, LockInv, TypeOK, Switching
  <2>2. /\ Owns(t) /\ call[t] \in Switches /\ state = "OPERATIONAL"
        /\ SwitchOf(t) /\ CallOf(t)
    BY <1>7, <2>1 DEF Reopen, SwitchFails, Return, LockInv, HolderInv, Holding, CallInv, CallOf, TypeOK, FramingInv
  <2>3. SwitchOf(t)'
    <3>1. port = Closed /\ call[t].was = framing /\ (framing # None => settings = framing)
      BY <1>7, <2>2 DEF Reopen, SwitchOf, Switching
    <3>2. pc'[t] = "opening" /\ call'[t] = [call[t] EXCEPT !.at = settings'] /\ port' = port /\ framing' = framing
      BY <1>7, <3>1 DEF Reopen, LockInv, TypeOK
    <3>3. call'[t].at = settings' /\ call'[t].to = call[t].to /\ call'[t].was = call[t].was
      BY <2>2, <3>2 DEF Switches
    <3>4. settings' = Overlay(settings, call[t].to)
      BY <1>7 DEF Reopen
    <3> QED
      BY <3>1, <3>2, <3>3, <3>4 DEF SwitchOf, Switching, Overlay
  <2>4. pc'[t] \notin Switching => Settled'
    BY <1>7, <2>2 DEF Reopen, SwitchFails, Return, SwitchOf, Settled, Switching, LockInv, TypeOK, session, transport
  <2>5. state' = "BROKEN" => pc'[t] \notin {"switchQueued"} \cup Switching
    BY <1>7, <2>2 DEF Reopen, SwitchFails, Return, Switching, LockInv, TypeOK, session, transport
  <2> QED
    BY <2>1, <2>2, <2>3, <2>4, <2>5, SwitchStep
<1>8. ASSUME NEW t \in Tasks, Opened(t) PROVE FramingInv'
  <2>1. pc[t] \in {"switchQueued"} \cup Switching /\ OthersStay(t) /\ pc'[t] # "exchange"
    BY <1>8 DEF Opened, OthersStay, LockInv, TypeOK, Switching
  <2>2. /\ Owns(t) /\ call[t] \in Switches /\ state = "OPERATIONAL"
        /\ SwitchOf(t) /\ CallOf(t)
    BY <1>8, <2>1 DEF Opened, LockInv, HolderInv, Holding, CallInv, CallOf, TypeOK, FramingInv
  <2>3. SwitchOf(t)'
    BY <1>8, <2>2 DEF Opened, SwitchOf, CallOf, Switching, LockInv, TypeOK, session, transport
  <2>4. pc'[t] \notin Switching => Settled'
    BY <1>8, <2>2 DEF Opened, SwitchOf, Settled, Switching, LockInv, TypeOK, session, transport
  <2>5. state' = "BROKEN" => pc'[t] \notin {"switchQueued"} \cup Switching
    BY <1>8, <2>2 DEF Opened, Switching, LockInv, TypeOK, session, transport
  <2> QED
    BY <2>1, <2>2, <2>3, <2>4, <2>5, SwitchStep
<1>9. ASSUME NEW t \in Tasks, Quiet(t) PROVE FramingInv'
  <2>1. pc[t] \in {"switchQueued"} \cup Switching /\ OthersStay(t) /\ pc'[t] # "exchange"
    BY <1>9 DEF Quiet, OthersStay, LockInv, TypeOK, Switching
  <2>2. /\ Owns(t) /\ call[t] \in Switches /\ state = "OPERATIONAL"
        /\ SwitchOf(t) /\ CallOf(t)
    BY <1>9, <2>1 DEF Quiet, LockInv, HolderInv, Holding, CallInv, CallOf, TypeOK, FramingInv
  <2>3. SwitchOf(t)'
    BY <1>9, <2>2 DEF Quiet, SwitchOf, CallOf, Switching, LockInv, TypeOK, session, transport
  <2>4. pc'[t] \notin Switching => Settled'
    BY <1>9, <2>2 DEF Quiet, SwitchOf, Settled, Switching, LockInv, TypeOK, session, transport
  <2>5. state' = "BROKEN" => pc'[t] \notin {"switchQueued"} \cup Switching
    BY <1>9, <2>2 DEF Quiet, Switching, LockInv, TypeOK, session, transport
  <2> QED
    BY <2>1, <2>2, <2>3, <2>4, <2>5, SwitchStep
<1>10. ASSUME NEW t \in Tasks, Fails(t) PROVE FramingInv'
  <2>1. pc[t] \in {"switchQueued"} \cup Switching /\ OthersStay(t) /\ pc'[t] # "exchange"
    BY <1>10 DEF Fails, SwitchFails, Return, OthersStay, LockInv, TypeOK, Switching
  <2>2. /\ Owns(t) /\ call[t] \in Switches /\ state = "OPERATIONAL"
        /\ SwitchOf(t) /\ CallOf(t)
    BY <1>10, <2>1 DEF Fails, SwitchFails, Return, LockInv, HolderInv, Holding, CallInv, CallOf, TypeOK, FramingInv
  <2>3. SwitchOf(t)'
    BY <1>10, <2>2 DEF Fails, SwitchFails, Return, SwitchOf, CallOf, Switching, LockInv, TypeOK, session, transport
  <2>4. pc'[t] \notin Switching => Settled'
    BY <1>10, <2>2 DEF Fails, SwitchFails, Return, SwitchOf, Settled, Switching, LockInv, TypeOK, session, transport
  <2>5. state' = "BROKEN" => pc'[t] \notin {"switchQueued"} \cup Switching
    BY <1>10, <2>2 DEF Fails, SwitchFails, Return, Switching, LockInv, TypeOK, session, transport
  <2> QED
    BY <2>1, <2>2, <2>3, <2>4, <2>5, SwitchStep
<1>11. ASSUME NEW t \in Tasks, Install(t) PROVE FramingInv'
  <2>1. pc[t] \in {"switchQueued"} \cup Switching /\ OthersStay(t) /\ pc'[t] # "exchange"
    BY <1>11 DEF Install, Return, OthersStay, LockInv, TypeOK, Switching
  <2>2. /\ Owns(t) /\ call[t] \in Switches /\ state = "OPERATIONAL"
        /\ SwitchOf(t) /\ CallOf(t)
    BY <1>11, <2>1 DEF Install, Return, LockInv, HolderInv, Holding, CallInv, CallOf, TypeOK, FramingInv
  <2>3. SwitchOf(t)'
    BY <1>11, <2>2 DEF Install, Return, SwitchOf, CallOf, Switching, LockInv, TypeOK, session, transport
  <2>4. pc'[t] \notin Switching => Settled'
    BY <1>11, <2>2 DEF Install, Return, SwitchOf, Settled, Switching, LockInv, TypeOK, session, transport
  <2>5. state' = "BROKEN" => pc'[t] \notin {"switchQueued"} \cup Switching
    BY <1>11, <2>2 DEF Install, Return, Switching, LockInv, TypeOK, session, transport
  <2> QED
    BY <2>1, <2>2, <2>3, <2>4, <2>5, SwitchStep
<1>12. ASSUME NEW t \in Tasks, Restore(t) PROVE FramingInv'
  <2>1. pc[t] \in {"switchQueued"} \cup Switching /\ OthersStay(t) /\ pc'[t] # "exchange"
    BY <1>12 DEF Restore, Return, OthersStay, LockInv, TypeOK, Switching
  <2>2. /\ Owns(t) /\ call[t] \in Switches /\ state = "OPERATIONAL"
        /\ SwitchOf(t) /\ CallOf(t)
    BY <1>12, <2>1 DEF Restore, Return, LockInv, HolderInv, Holding, CallInv, CallOf, TypeOK, FramingInv
  <2>3. SwitchOf(t)'
    BY <1>12, <2>2 DEF Restore, Return, SwitchOf, CallOf, Switching, LockInv, TypeOK, session, transport
  <2>4. pc'[t] \notin Switching => Settled'
    BY <1>12, <2>2 DEF Restore, Return, SwitchOf, Settled, Switching, LockInv, TypeOK, session, transport
  <2>5. state' = "BROKEN" => pc'[t] \notin {"switchQueued"} \cup Switching
    BY <1>12, <2>2 DEF Restore, Return, Switching, LockInv, TypeOK, session, transport
  <2> QED
    BY <2>1, <2>2, <2>3, <2>4, <2>5, SwitchStep
<1>13. ASSUME NEW t \in Tasks, Restored(t) PROVE FramingInv'
  <2>1. pc[t] \in {"switchQueued"} \cup Switching /\ OthersStay(t) /\ pc'[t] # "exchange"
    BY <1>13 DEF Restored, Return, OthersStay, LockInv, TypeOK, Switching
  <2>2. /\ Owns(t) /\ call[t] \in Switches /\ state = "OPERATIONAL"
        /\ SwitchOf(t) /\ CallOf(t)
    BY <1>13, <2>1 DEF Restored, Return, LockInv, HolderInv, Holding, CallInv, CallOf, TypeOK, FramingInv
  <2>3. SwitchOf(t)'
    BY <1>13, <2>2 DEF Restored, Return, SwitchOf, CallOf, Switching, LockInv, TypeOK, session, transport
  <2>4. pc'[t] \notin Switching => Settled'
    BY <1>13, <2>2 DEF Restored, Return, SwitchOf, Settled, Switching, LockInv, TypeOK, session, transport
  <2>5. state' = "BROKEN" => pc'[t] \notin {"switchQueued"} \cup Switching
    BY <1>13, <2>2 DEF Restored, Return, Switching, LockInv, TypeOK, session, transport
  <2> QED
    BY <2>1, <2>2, <2>3, <2>4, <2>5, SwitchStep
<1>14. ASSUME NEW t \in Tasks, Cancel(t) PROVE FramingInv'
  <2>1. pc[t] \notin {"switchQueued"} \cup Switching
    BY <1>14 DEF Cancel, OwnerInv, OwnerOf
  <2>2. RequestOf(t)'
    BY <1>14 DEF Cancel, Return, RequestOf, LockInv, TypeOK
  <2>3. OthersStay(t) /\ pc'[t] \notin {"switchQueued"} \cup Switching
    BY <1>14 DEF Cancel, Return, OthersStay, LockInv, TypeOK, Switching
  <2>4. UNCHANGED <<state, framing, port, settings, closed>>
    BY <1>14 DEF Cancel, Return, session, transport
  <2> QED
    BY <2>1, <2>2, <2>3, <2>4, PassiveStep
<1>15. CASE Close
  <2>1. \A t \in Tasks : SwitchOf(t)' /\ RequestOf(t)'
    BY <1>15 DEF Close, FramingInv, SwitchOf, RequestOf, session
  <2>2. (\A t \in Tasks : pc'[t] \notin Switching) => Settled'
    BY <1>15 DEF Close, FramingInv, Settled, session
  <2> QED
    BY <1>15, <2>1, <2>2 DEF Close, FramingInv, session
<1>16. CASE UNCHANGED vars
  BY <1>16 DEF vars, session, transport, FramingInv, SwitchOf, RequestOf, Settled
<1> QED
  BY <1>1, <1>2, <1>3, <1>4, <1>5, <1>6, <1>7, <1>8, <1>9, <1>10, <1>11, <1>12, <1>13, <1>14,
     <1>15, <1>16 DEF Next, Begin, Resume

\* The three layers together.
LEMMA SwitchInvariant ==
  ASSUME OneConfigurer, Configurers \cap Cancellable = {}
  PROVE  Spec => [](LockInv /\ OwnerInv /\ FramingInv)
<1>1. Init => LockInv /\ OwnerInv /\ FramingInv
  BY InitLock, InitOwner, InitFraming
<1>2. LockInv /\ OwnerInv /\ FramingInv /\ [Next]_vars => (LockInv /\ OwnerInv /\ FramingInv)'
  BY NextLock, NextOwner, NextFraming
<1> QED
  BY <1>1, <1>2, PTL DEF Spec

\* A request is written through the session's live client, at the session's
\* framing, however many calls waited through the switch.
THEOREM NoStaleRequest ==
  ASSUME OneConfigurer, Configurers \cap Cancellable = {}
  PROVE  Spec => []RequestsMatchSession
<1>1. LockInv /\ OwnerInv /\ FramingInv => RequestsMatchSession
  <2> SUFFICES ASSUME LockInv, OwnerInv, FramingInv, NEW t \in Tasks, pc[t] = "exchange"
               PROVE  /\ client[t] = active /\ active \notin disposed
                      /\ framing # None => port \in {framing, Closed}
                      /\ port = Closed => closed
    BY DEF RequestsMatchSession
  <2>1. client[t] = active /\ active \notin disposed
    <3>1. active \in Nat
      BY DEF LockInv, TypeOK, Clients
    <3> QED
      BY <3>1 DEF OwnerInv, OwnerOf
  <2>2. RequestOf(t)
    BY DEF FramingInv
  <2>3. \A u \in Tasks : pc[u] \notin Switching
    <3> SUFFICES ASSUME NEW u \in Tasks, pc[u] \in Switching PROVE FALSE
      OBVIOUS
    <3>1. t = u
      BY OneHolder DEF OnWire
    <3> QED
      BY <3>1 DEF Switching
  <2>4. Settled
    BY <2>3 DEF FramingInv
  <2> QED
    BY <2>1, <2>2, <2>4 DEF RequestOf, Settled
<1> QED
  BY <1>1, SwitchInvariant, PTL

\* After every switch, completed or rolled back, an operational session reports
\* the framing its port is open at.
THEOREM FramingRestored ==
  ASSUME OneConfigurer, Configurers \cap Cancellable = {}
  PROVE  Spec => []FramingAgrees
<1>1. FramingInv => FramingAgrees
  BY DEF FramingInv, Settled, FramingAgrees
<1> QED
  BY <1>1, SwitchInvariant, PTL

\* A rollback that fails silences the session, calls that were already waiting
\* included.
THEOREM BrokenSilence ==
  ASSUME OneConfigurer, Configurers \cap Cancellable = {}
  PROVE  Spec => []BrokenIsSilent
<1>1. FramingInv => BrokenIsSilent
  BY DEF FramingInv, RequestOf, BrokenIsSilent
<1> QED
  BY <1>1, SwitchInvariant, PTL

-----------------------------------------------------------------------------
(* What the session learns about commands.                                 *)

LEMMA NextAvailability ==
  ASSUME LockInv, OwnerInv, AvailabilityTruthful, [Next]_vars
  PROVE  AvailabilityTruthful'
<1>1. ASSUME NEW t \in Tasks, NEW r \in Outcomes, Reply(t, r) PROVE AvailabilityTruthful'
  <2>1. client[t] = active /\ call[t] \in Commands /\ UNCHANGED <<proto, active>>
    BY <1>1 DEF Reply, OwnerInv, OwnerOf, LockInv, CallInv, CallOf, session
  <2>2. r \in Possible(call[t], proto[active]) /\ avail' = [avail EXCEPT ![call[t]] = Learn(call[t], r)]
    BY <1>1, <2>1 DEF Reply
  <2>3. ASSUME NEW c \in Commands, c # call[t] PROVE avail'[c] = avail[c]
    BY <2>2, <2>3 DEF LockInv, TypeOK
  <2>4. avail'[call[t]] = Learn(call[t], r)
    BY <2>1, <2>2 DEF LockInv, TypeOK
  <2>5. proto[active] \in Protocols
    BY DEF LockInv, TypeOK
  <2>5a. \/ Learn(call[t], r) = avail[call[t]]
         \/ r = "success" /\ Learn(call[t], r) = "SUPPORTED"
         \/ r = "unsupported" /\ call[t] \notin Parameterized /\ Learn(call[t], r) = "UNSUPPORTED"
         \/ r = "inapplicable" /\ Learn(call[t], r) = "INAPPLICABLE"
    BY DEF Learn
  <2>6. LET a == Learn(call[t], r) IN
        /\ a = "UNSUPPORTED" => proto[active] = "xbpi" /\ call[t] \in Lacks
        /\ a = "SUPPORTED" => proto[active] = "sbi" \/ call[t] \notin Lacks
        /\ a = "INAPPLICABLE" => proto[active] = "xbpi"
    <3>1. CASE Learn(call[t], r) = avail[call[t]]
      BY <2>1, <3>1 DEF AvailabilityTruthful
    <3>2. CASE r = "success" /\ Learn(call[t], r) = "SUPPORTED"
      BY <2>2, <2>5, <3>2 DEF Possible, Protocols
    <3>3. CASE r = "unsupported" /\ call[t] \notin Parameterized /\ Learn(call[t], r) = "UNSUPPORTED"
      BY <2>2, <3>3 DEF Possible
    <3>4. CASE r = "inapplicable" /\ Learn(call[t], r) = "INAPPLICABLE"
      BY <2>2, <3>4 DEF Possible
    <3> QED
      BY <2>5a, <3>1, <3>2, <3>3, <3>4
  <2> QED
    BY <2>1, <2>3, <2>4, <2>6 DEF AvailabilityTruthful
<1>2. ASSUME NEW t \in Tasks, Install(t) PROVE AvailabilityTruthful'
  BY <1>2 DEF Install, AvailabilityTruthful
<1>3. CASE UNCHANGED <<avail, proto, active>>
  BY <1>3 DEF AvailabilityTruthful
<1> QED
  <2>1. ASSUME NEW t \in Tasks, Begin(t) PROVE UNCHANGED <<avail, proto, active>>
    BY <2>1 DEF Begin, Execute, Configure, session
  <2>2. ASSUME NEW t \in Tasks,
               \/ Send(t) \/ Refuse(t) \/ Detach(t) \/ Reopen(t) \/ Opened(t) \/ Quiet(t)
               \/ Fails(t) \/ Restore(t) \/ Restored(t)
        PROVE  UNCHANGED <<avail, proto, active>>
    BY <2>2 DEF Send, Refuse, Detach, Reopen, Opened, Quiet, Fails, Restore, Restored, session
  <2>3. ASSUME NEW t \in Tasks, Cancel(t) PROVE UNCHANGED <<avail, proto, active>>
    BY <2>3 DEF Cancel, session
  <2>4. CASE Close \/ UNCHANGED vars
    BY <1>3, <2>4 DEF Close, vars, session
  <2> QED
    BY <1>1, <1>2, <1>3, <2>1, <2>2, <2>3, <2>4 DEF Next, Resume

\* A command is refused without a probe only because this device, over the
\* protocol of now, answered that it lacks it.
THEOREM AvailabilityCorrect ==
  ASSUME OneConfigurer
  PROVE  Spec => []AvailabilityTruthful
<1>1. Init => LockInv /\ OwnerInv /\ AvailabilityTruthful
  BY InitLock, InitOwner DEF Init, AvailabilityTruthful
<1>2. LockInv /\ OwnerInv /\ AvailabilityTruthful /\ [Next]_vars
        => (LockInv /\ OwnerInv /\ AvailabilityTruthful)'
  BY NextLock, NextOwner, NextAvailability
<1> QED
  BY <1>1, <1>2, PTL DEF Spec

=============================================================================
