--------------------------- MODULE SbiAutoprint ---------------------------
(***************************************************************************)
(* An SBI session whose balance may print on its own (autoprint). The      *)
(* unsolicited lines share the wire with the replies to commands, and      *)
(* nothing but their shape tells them apart: a weight line may be printed  *)
(* spontaneously, or answer ESC P. SbiProtocolClient keeps a flag and a    *)
(* queue of lines that a sniff or a surprised command read; the session    *)
(* refuses commands while the flag is set and polls read lines instead.    *)
(* A status line (CAL. INT.) has the shape of autoprint and no reading.    *)
(*                                                                         *)
(* Lines are whole here: a partial one stays in the transport's pushback   *)
(* until its end arrives. Tare and zero, which read nothing, are left out. *)
(***************************************************************************)
EXTENDS Naturals, Sequences

CONSTANTS
  Tasks,      \* tasks that share the session
  Commanders, \* those that use identity commands and refresh
  Streamers,  \* those that open a StreamingSession in autoprint mode
  MaxLines,   \* bound: lines the device ever sends
  MaxPending  \* max_lines of a sniff

ASSUME AutoprintAssumption ==
  /\ Commanders \subseteq Tasks
  /\ Streamers \subseteq Tasks
  /\ MaxLines \in Nat \ {0}
  /\ MaxPending \in Nat \ {0}

VARIABLES
  pc,       \* idle, queued for the lock, or reading a line under it
  op,       \* the operation of each task's call
  lock,     \* SbiProtocolClient._lock: holder first, then waiters
  flag,     \* SbiProtocolClient._autoprint_active
  pending,  \* SbiProtocolClient._pending_lines
  wire,     \* lines that the device has sent and nobody has read
  asked,    \* replies the device owes, by kind
  sent,     \* lines sent so far
  printing, \* autoprint is on at the balance
  read,     \* the last line a stream read returned
  answer,   \* the last line taken for the reply of an identity command
  mode,     \* each StreamingSession: out, entering, in
  held,     \* its _pending: the line that entering has read; 0 for none
  got       \* the last line that it has handed to its consumer

stream == <<mode, held, got>>
vars == <<pc, op, lock, flag, pending, wire, asked, sent, printing, read, answer, stream>>

Ops   == {"print", "identity", "stream", "refresh"}
Kinds == {"weight", "status", "text", "garbled"}
Lines == [kind : Kinds, seq : 0..MaxLines]
Line(kind, n) == [kind |-> kind, seq |-> n]

\* is_autoprint_line
IsAutoprint(l) == l.kind \in {"weight", "status"}

Init ==
  /\ pc = [t \in Tasks |-> "idle"]
  /\ op = [t \in Tasks |-> "print"]
  /\ lock = <<>>
  /\ \/ flag = FALSE /\ pending = <<>> /\ sent = 0 /\ printing \in BOOLEAN
     \/ /\ flag = TRUE /\ sent = 1 /\ printing = TRUE
        /\ pending \in {<<Line("weight", 1)>>, <<Line("status", 1)>>}
  /\ wire = <<>> /\ asked = <<>>
  /\ read = Line("text", 0)
  /\ answer = Line("text", 0)
  /\ mode = [t \in Streamers |-> "out"]
  /\ held = [t \in Streamers |-> 0]
  /\ got = [t \in Streamers |-> 0]

-----------------------------------------------------------------------------
(* The calls.                                                              *)

Queue(t, o) ==
  /\ pc[t] = "idle"
  /\ pc' = [pc EXCEPT ![t] = "queued"]
  /\ op' = [op EXCEPT ![t] = o]
  /\ lock' = Append(lock, t)
  /\ UNCHANGED <<flag, pending, wire, asked, sent, printing, read, answer, held, got>>

Streams(t) == t \in Streamers /\ mode[t] # "out"

\* Bound: no request that the balance could not answer within MaxLines.
MayAsk == sent + Len(asked) < MaxLines

\* Balance.poll reads a line when autoprint is known to be active, and asks for
\* one (ESC P) otherwise.
Poll(t) ==
  /\ ~Streams(t)
  /\ IF flag THEN Queue(t, "stream") ELSE MayAsk /\ Queue(t, "print")
  /\ UNCHANGED mode

\* An identity command is refused while the flag is set.
Identify(t) == t \in Commanders /\ ~flag /\ MayAsk /\ Queue(t, "identity") /\ UNCHANGED mode

Refresh(t) == t \in Commanders /\ Queue(t, "refresh") /\ UNCHANGED mode

\* StreamingSession.__aenter__ reads the first line.
Enter(t) ==
  /\ mode[t] = "out"
  /\ Queue(t, "stream")
  /\ mode' = [mode EXCEPT ![t] = "entering"]

\* __anext__ hands out the line that entering has read, then reads on.
Hand(t) ==
  /\ mode[t] = "in" /\ pc[t] = "idle" /\ held[t] # 0
  /\ got' = [got EXCEPT ![t] = held[t]]
  /\ held' = [held EXCEPT ![t] = 0]
  /\ UNCHANGED <<pc, op, lock, flag, pending, wire, asked, sent, printing, read, answer, mode>>

Iterate(t) ==
  /\ mode[t] = "in" /\ held[t] = 0
  /\ Queue(t, "stream")
  /\ UNCHANGED mode

\* __aexit__ forgets a line that was not handed out.
Leave(t) ==
  /\ mode[t] = "in" /\ pc[t] = "idle"
  /\ mode' = [mode EXCEPT ![t] = "out"]
  /\ held' = [held EXCEPT ![t] = 0]
  /\ UNCHANGED <<pc, op, lock, flag, pending, wire, asked, sent, printing, read, answer, got>>

Return(t) ==
  /\ pc' = [pc EXCEPT ![t] = "idle"]
  /\ lock' = Tail(lock)

\* read_sbi_autoprint_reading skips a line without a reading and, until its deadline,
\* reads again, behind the tasks that wait for the lock.
ReadAgain(t) ==
  /\ pc' = [pc EXCEPT ![t] = "queued"]
  /\ lock' = Append(Tail(lock), t)

\* The read that enters a stream raises: there is no stream.
EnterFails(t) ==
  /\ mode' = IF Streams(t) /\ mode[t] = "entering" THEN [mode EXCEPT ![t] = "out"] ELSE mode
  /\ UNCHANGED <<held, got>>

\* A line that does not parse drains what has arrived; rest is what was behind it.
Drain(rest) == \E n \in 0..Len(rest) : wire' = SubSeq(rest, n + 1, Len(rest))
DrainAndRaise(t, rest) == Drain(rest) /\ Return(t)

\* A read that enters a stream keeps its line; one that iterates hands it out.
Gives(t, l) ==
  IF ~Streams(t) THEN UNCHANGED stream
  ELSE IF mode[t] = "entering"
  THEN /\ mode' = [mode EXCEPT ![t] = "in"]
       /\ held' = [held EXCEPT ![t] = l.seq]
       /\ UNCHANGED got
  ELSE got' = [got EXCEPT ![t] = l.seq] /\ UNCHANGED <<mode, held>>

\* A stream read has line l. Only a StreamingSession goes on after a garbled one.
StreamTakes(t, l, rest) ==
  /\ CASE l.kind = "weight" ->
            read' = l /\ flag' = TRUE /\ Return(t) /\ wire' = rest /\ Gives(t, l)
       [] l.kind \in {"text", "status"} ->
            /\ wire' = rest
            /\ (ReadAgain(t) /\ UNCHANGED stream) \/ (Return(t) /\ EnterFails(t))
            /\ UNCHANGED <<read, flag>>
       [] l.kind = "garbled" ->
            /\ Drain(rest)
            /\ \/ Streams(t) /\ ReadAgain(t) /\ UNCHANGED stream
               \/ Return(t) /\ EnterFails(t)
            /\ UNCHANGED <<read, flag>>
  /\ UNCHANGED <<op, asked, sent, printing, answer>>

\* What a request, a sniff or a stream read from the wire begins with.
Begin(t, pendingNext, flagNext) ==
  /\ pc' = [pc EXCEPT ![t] = "reading"]
  /\ asked' = CASE op[t] = "print" -> Append(asked, "weight")
                [] op[t] = "identity" -> Append(asked, "text")
                [] OTHER -> asked
  /\ flag' = flagNext
  /\ pending' = pendingNext
  /\ UNCHANGED <<op, lock, wire, sent, printing, read, answer, stream>>

Refreshes(t) == op[t] = "refresh"

\* Mutant: a stream read takes a queued line only when the wire has none.
StartFromWire(t) ==
  /\ pc[t] = "queued"
  /\ lock[1] = t
  /\ IF op[t] = "stream" /\ pending # <<>> /\ wire = <<>>
     THEN StreamTakes(t, Head(pending), wire) /\ pending' = Tail(pending)
     ELSE Begin(t, IF Refreshes(t) THEN <<>> ELSE pending, flag /\ ~Refreshes(t))

\* Mutant: a refresh forgets the flag and keeps the queue.
StartKeepsQueue(t) ==
  /\ pc[t] = "queued"
  /\ lock[1] = t
  /\ IF op[t] = "stream" /\ pending # <<>>
     THEN StreamTakes(t, Head(pending), wire) /\ pending' = Tail(pending)
     ELSE Begin(t, pending, flag /\ ~Refreshes(t))

\* Mutant: a refresh forgets the queue and keeps the flag.
StartKeepsFlag(t) ==
  /\ pc[t] = "queued"
  /\ lock[1] = t
  /\ IF op[t] = "stream" /\ pending # <<>>
     THEN StreamTakes(t, Head(pending), wire) /\ pending' = Tail(pending)
     ELSE Begin(t, IF Refreshes(t) THEN <<>> ELSE pending, flag)

\* The lock is ours. A request is written; a stream read takes a queued line first;
\* a refresh forgets the queue and the flag before it sniffs.
Start(t) ==
  /\ pc[t] = "queued"
  /\ lock[1] = t
  /\ IF op[t] = "stream" /\ pending # <<>>
     THEN StreamTakes(t, Head(pending), wire) /\ pending' = Tail(pending)
     ELSE Begin(t, IF Refreshes(t) THEN <<>> ELSE pending, flag /\ ~Refreshes(t))

\* ESC P: whatever line comes, a garbled one is drained, one without a reading raises.
PrintTakes(t, l, rest) ==
  /\ IF l.kind = "garbled"
     THEN DrainAndRaise(t, rest)
     ELSE Return(t) /\ wire' = rest
  /\ UNCHANGED <<flag, pending, read, answer, stream>>

\* An identity command. An autoprint line while the flag is not set is a surprise: it is
\* queued for the next stream read, in front, and the command raises. With the flag
\* set meanwhile by another task the line passes for the reply.
IdentityTakes(t, l, rest) ==
  /\ CASE l.kind = "garbled" ->
            DrainAndRaise(t, rest) /\ UNCHANGED <<flag, pending, answer>>
       [] IsAutoprint(l) /\ ~flag ->
            /\ Return(t) /\ wire' = rest
            /\ flag' = TRUE
            /\ pending' = <<l>> \o pending
            /\ UNCHANGED answer
       [] OTHER ->
            /\ Return(t) /\ wire' = rest
            /\ answer' = l
            /\ UNCHANGED <<flag, pending>>
  /\ UNCHANGED <<read, stream>>

\* A sniff queues each line it reads, and ends at an autoprint line or a full queue.
SniffTakes(t, l, rest) ==
  /\ wire' = rest
  /\ pending' = Append(pending, l)
  /\ flag' = IsAutoprint(l)
  /\ IF IsAutoprint(l) \/ Len(pending') = MaxPending
     THEN Return(t)
     ELSE UNCHANGED <<pc, lock>>
  /\ UNCHANGED <<read, answer, stream>>

ReadLine(t) ==
  /\ pc[t] = "reading"
  /\ wire # <<>>
  /\ LET l == Head(wire)
         rest == Tail(wire)
     IN  CASE op[t] = "print"    -> PrintTakes(t, l, rest)
           [] op[t] = "identity" -> IdentityTakes(t, l, rest)
           [] op[t] = "refresh"  -> SniffTakes(t, l, rest)
           [] op[t] = "stream"   -> StreamTakes(t, l, rest) /\ UNCHANGED pending
  /\ UNCHANGED <<op, asked, sent, printing>>

\* No line in time: the sniff is over, or the call raises.
Timeout(t) ==
  /\ pc[t] = "reading"
  /\ Return(t)
  /\ EnterFails(t)
  /\ UNCHANGED <<op, flag, pending, wire, asked, sent, printing, read, answer>>

-----------------------------------------------------------------------------
(* The balance and its front panel.                                        *)

Send(kind) ==
  /\ sent < MaxLines
  /\ sent' = sent + 1
  /\ wire' = Append(wire, Line(kind, sent + 1))
  /\ UNCHANGED <<pc, op, lock, flag, pending, printing, read, answer, stream>>

PrintLine == printing /\ (\E kind \in {"weight", "status", "garbled"} : Send(kind)) /\ UNCHANGED asked

Answer ==
  /\ asked # <<>>
  /\ Send(Head(asked))
  /\ asked' = Tail(asked)

SwitchAutoprint ==
  /\ printing' = ~printing
  /\ UNCHANGED <<pc, op, lock, flag, pending, wire, asked, sent, read, answer, stream>>

-----------------------------------------------------------------------------
Resume(t) == Start(t) \/ ReadLine(t) \/ Timeout(t)

Next ==
  \/ \E t \in Tasks : Poll(t) \/ Identify(t) \/ Refresh(t) \/ Resume(t)
  \/ \E t \in Streamers : Enter(t) \/ Hand(t) \/ Iterate(t) \/ Leave(t)
  \/ PrintLine \/ Answer \/ SwitchAutoprint

\* A reading task is bounded by its timeout, so it is never stuck under the lock.
Spec == Init /\ [][Next]_vars /\ \A t \in Tasks : WF_vars(Resume(t))

-----------------------------------------------------------------------------
TypeOK ==
  /\ pc \in [Tasks -> {"idle", "queued", "reading"}]
  /\ op \in [Tasks -> Ops]
  /\ lock \in Seq(Tasks)
  /\ flag \in BOOLEAN /\ printing \in BOOLEAN
  /\ pending \in Seq(Lines) /\ wire \in Seq(Lines)
  /\ asked \in Seq({"weight", "text"})
  /\ sent \in 0..MaxLines
  /\ read \in Lines /\ answer \in Lines
  /\ mode \in [Streamers -> {"out", "entering", "in"}]
  /\ held \in [Streamers -> 0..MaxLines] /\ got \in [Streamers -> 0..MaxLines]

\* Readings reach the stream in the order the balance printed them and none twice,
\* although they come from two places: the lines a sniff or a surprised command
\* queued, and the wire. So do the lines that are taken for replies, and those that
\* the consumer of one StreamingSession gets, though it holds its first line back
\* while others may read later ones.
StreamInOrder ==
  [][/\ read' # read => read'.seq > read.seq
     /\ answer' # answer => answer'.seq > answer.seq
     /\ \A t \in Streamers : got'[t] # got[t] => got'[t] > got[t]]_vars

\* A queued weight line is never left behind: while there is one, the flag makes the
\* next poll a stream read that takes it, before newer lines from the wire.
QueuedLineIsNext ==
  /\ TypeOK
  /\ \A i \in DOMAIN pending : pending[i].kind = "weight" =>
       /\ flag
       /\ \A j \in 1..Len(wire) : pending[i].seq < wire[j].seq

\* "A quiet sniff clears autoprint mode so command/reply SBI APIs become available
\* again" (balance.py): once the balance has stopped printing, refreshing often
\* enough clears the flag for good, whatever was buffered.
RefreshClears ==
  []<>(\E t \in Tasks : pc[t] = "reading" /\ op[t] = "refresh") => <>[]~flag
=============================================================================
