----------------------------- MODULE XbpiLink -----------------------------
(***************************************************************************)
(* One xBPI client on its transport, byte by byte. A request carries no    *)
(* sequence number, so whatever frame comes next is taken for its reply.   *)
(* A call that times out puts what it read back for the next read; a       *)
(* cancelled one loses it; a frame that does not parse drains the input.   *)
(* The device may answer late, lose the first bytes of a reply, or never   *)
(* answer. What the session learns from a reply is part of the model.      *)
(*                                                                         *)
(* One call at a time: SessionSwitch shows that the client's lock gives    *)
(* that. The checksum is taken to reject everything but one whole frame.   *)
(* Names that SbiAutoprint, the other client, has as well are others here, *)
(* so that ClientProofs can extend both.                                   *)
(***************************************************************************)
EXTENDS Naturals, Sequences, FiniteSets

CONSTANTS
  Commands,  \* commands the caller executes
  Lacks,     \* those the device refuses with 0x04
  Misreads,  \* what a byte inside a frame may say when read as a length
  FrameSize, \* bytes of a reply, its length byte included
  Lost,      \* bytes the device may lose at the start of a reply (cold open)
  MaxCalls   \* bound: calls of the run

ASSUME LinkAssumption ==
  /\ Lacks \subseteq Commands
  /\ Misreads \subseteq Nat
  /\ FrameSize \in Nat \ {0}
  /\ Lost \in 0..(FrameSize - 1)
  /\ MaxCalls \in Nat

VARIABLES
  step,     \* "idle", or what the call awaits: the length byte, the rest, the drain
  cmds,     \* commands called so far: request k is for cmds[k]
  owed,     \* requests the device has received and not dealt with
  input,    \* bytes sent by the device and not read yet
  pushback, \* SerialTransport._pushback
  hold,     \* the buffer of the read under way
  need,     \* how many bytes that read wants
  head,     \* the length byte already consumed, in a sequence
  outcome,  \* how the last call ended
  reply,    \* the request that the last frame returned to a caller answered
  missed,   \* how many calls ended without a frame
  avail     \* Session._availability

linkVars == <<step, cmds, owed, input, pushback, hold, need, head, outcome, reply, missed, avail>>

Calls      == Len(cmds)
Bytes      == [req : 1..MaxCalls, pos : 1..FrameSize]
Frame(k)   == [i \in 1..FrameSize |-> [req |-> k, pos |-> i]]
Whole(raw) == \E k \in 1..Calls : raw = Frame(k)
Refusal(k) == cmds[k] \in Lacks

LinkInit ==
  /\ step = "idle"
  /\ cmds = <<>> /\ owed = <<>>
  /\ input = <<>> /\ pushback = <<>> /\ hold = <<>> /\ head = <<>>
  /\ need = 0
  /\ outcome = "none"
  /\ reply = 0
  /\ missed = 0
  /\ avail = [c \in Commands |-> "UNKNOWN"]

-----------------------------------------------------------------------------
(* The client.                                                             *)

\* Mutant: the read copies the pushed-back bytes and leaves them there.
WriteCopies(c) ==
  /\ step = "idle"
  /\ Calls < MaxCalls
  /\ avail[c] # "UNSUPPORTED"
  /\ cmds' = Append(cmds, c)
  /\ owed' = Append(owed, Calls + 1)
  /\ hold' = pushback
  /\ need' = 1
  /\ step' = "length"
  /\ UNCHANGED <<input, pushback, head, outcome, reply, missed, avail>>

\* Past the known-denied gate, write the request and start read_exact(1), which
\* takes over the pushed-back bytes.
Write(c) ==
  /\ step = "idle"
  /\ Calls < MaxCalls
  /\ avail[c] # "UNSUPPORTED"
  /\ cmds' = Append(cmds, c)
  /\ owed' = Append(owed, Calls + 1)
  /\ hold' = pushback
  /\ pushback' = <<>>
  /\ need' = 1
  /\ step' = "length"
  /\ UNCHANGED <<input, head, outcome, reply, missed, avail>>

\* The call ends without a frame.
EndsWithout(o) ==
  /\ step' = "idle"
  /\ outcome' = o
  /\ missed' = missed + 1
  /\ head' = <<>>
  /\ hold' = <<>>

\* The write times out or fails: the device may have the request all the same.
WriteFails(c) ==
  /\ step = "idle"
  /\ Calls < MaxCalls
  /\ avail[c] # "UNSUPPORTED"
  /\ cmds' = Append(cmds, c)
  /\ owed' \in {owed, Append(owed, Calls + 1)}
  /\ EndsWithout("timeout")
  /\ UNCHANGED <<input, pushback, need, reply, avail>>

Reading == step \in {"length", "rest"}
Waiting == Reading /\ Len(hold) < need

\* receive() returns a chunk.
Receive ==
  /\ Waiting
  /\ \E n \in 1..Len(input) :
       /\ hold' = hold \o SubSeq(input, 1, n)
       /\ input' = SubSeq(input, n + 1, Len(input))
  /\ UNCHANGED <<step, cmds, owed, pushback, need, head, outcome, reply, missed, avail>>

\* The length byte is there; the second read takes over what the first left.
TakeLength ==
  /\ step = "length"
  /\ Len(hold) >= 1
  /\ head' = SubSeq(hold, 1, 1)
  /\ hold' = Tail(hold)
  /\ need' \in IF Head(hold).pos = 1 THEN {FrameSize - 1} ELSE Misreads
  /\ step' = "rest"
  /\ UNCHANGED <<cmds, owed, input, pushback, outcome, reply, missed, avail>>

\* Mutant: a frame that was returned is pushed back with what follows it.
TakeFrameAgain ==
  /\ step = "rest"
  /\ Len(hold) >= need
  /\ LET raw == head \o SubSeq(hold, 1, need)
     IN  IF Whole(raw)
         THEN /\ step' = "idle"
              /\ reply' = raw[1].req
              /\ outcome' = "success"
              /\ pushback' = head \o hold
         ELSE /\ step' = "drain"
              /\ pushback' = <<>>
              /\ UNCHANGED <<reply, outcome>>
  /\ hold' = <<>>
  /\ head' = <<>>
  /\ UNCHANGED <<cmds, owed, input, need, missed, avail>>

\* Mutant: support is recorded before the refusal is looked at.
TakeFrameLearns ==
  /\ step = "rest"
  /\ Len(hold) >= need
  /\ Whole(head \o SubSeq(hold, 1, need))
  /\ step' = "idle"
  /\ reply' = head[1].req
  /\ outcome' = IF Refusal(reply') THEN "refusal" ELSE "success"
  /\ avail' = [avail EXCEPT ![cmds[Calls]] = "SUPPORTED"]
  /\ pushback' = SubSeq(hold, need + 1, Len(hold))
  /\ hold' = <<>>
  /\ head' = <<>>
  /\ UNCHANGED <<cmds, owed, input, need, missed>>

\* A frame is there. It is returned as the reply, and the session records what it
\* says for the command of this call; or it does not parse and the input is
\* drained, pushback first.
TakeFrame ==
  /\ step = "rest"
  /\ Len(hold) >= need
  /\ LET raw  == head \o SubSeq(hold, 1, need)
         left == SubSeq(hold, need + 1, Len(hold))
     IN  IF Whole(raw)
         THEN /\ step' = "idle"
              /\ reply' = raw[1].req
              /\ outcome' = IF Refusal(reply') THEN "refusal" ELSE "success"
              /\ avail' = [avail EXCEPT ![cmds[Calls]] =
                             IF Refusal(reply') THEN "UNSUPPORTED" ELSE "SUPPORTED"]
              /\ pushback' = left
         ELSE /\ step' = "drain"
              /\ pushback' = <<>>
              /\ UNCHANGED <<reply, outcome, avail>>
  /\ hold' = <<>>
  /\ head' = <<>>
  /\ UNCHANGED <<cmds, owed, input, need, missed>>

\* reset_input_buffer discards what has arrived by then.
Drained ==
  /\ step = "drain"
  /\ \E n \in 0..Len(input) : input' = SubSeq(input, n + 1, Len(input))
  /\ EndsWithout("malformed")
  /\ UNCHANGED <<cmds, owed, pushback, need, reply, avail>>

\* The read's timeout: what it holds goes back, a length byte already consumed does
\* not.
TimesOut ==
  /\ Waiting
  /\ pushback' = hold
  /\ EndsWithout("timeout")
  /\ UNCHANGED <<cmds, owed, input, need, reply, avail>>

\* The caller is cancelled at an await: what the read holds is lost.
Cancel ==
  /\ Waiting \/ step = "drain"
  /\ EndsWithout("cancelled")
  /\ UNCHANGED <<cmds, owed, input, pushback, need, reply, avail>>

-----------------------------------------------------------------------------
(* The device: requests are dealt with in order.                           *)

Answers ==
  /\ owed # <<>>
  /\ \E n \in 0..Lost : input' = input \o SubSeq(Frame(Head(owed)), n + 1, FrameSize)
  /\ owed' = Tail(owed)
  /\ UNCHANGED <<step, cmds, pushback, hold, need, head, outcome, reply, missed, avail>>

Ignore ==
  /\ owed # <<>>
  /\ owed' = Tail(owed)
  /\ UNCHANGED <<step, cmds, input, pushback, hold, need, head, outcome, reply, missed, avail>>

LinkNext ==
  \/ \E c \in Commands : Write(c) \/ WriteFails(c)
  \/ Receive \/ TakeLength \/ TakeFrame \/ Drained \/ TimesOut \/ Cancel
  \/ Answers \/ Ignore

LinkSpec == LinkInit /\ [][LinkNext]_linkVars

-----------------------------------------------------------------------------
Outcomes == {"none", "success", "refusal", "malformed", "timeout", "cancelled"}

LinkTypeOK ==
  /\ step \in {"idle", "length", "rest", "drain"}
  /\ cmds \in Seq(Commands) /\ Calls <= MaxCalls
  /\ owed \in Seq(1..MaxCalls)
  /\ {input, pushback, hold, head} \subseteq Seq(Bytes)
  /\ need \in Nat
  /\ outcome \in Outcomes
  /\ reply \in 0..MaxCalls
  /\ missed \in 0..MaxCalls
  /\ avail \in [Commands -> {"UNKNOWN", "SUPPORTED", "UNSUPPORTED"}]

Before(x, y) == x.req < y.req \/ (x.req = y.req /\ x.pos < y.pos)

\* Through timeouts, pushback and partial reads no byte is delivered twice or out of
\* order: what is held, pushed back and still to come is in the order it was sent.
\* (pushback and hold never both have bytes.)
StreamOrdered ==
  LET s == head \o hold \o pushback \o input
  IN  /\ LinkTypeOK
      /\ \A i, j \in 1..Len(s) : i < j => Before(s[i], s[j])
      /\ \A i \in 1..Len(s), j \in 1..Len(owed) : s[i].req < owed[j]

\* A frame returned to a caller answers its own request or an earlier one, and is
\* late by at most one request for every call that ended without a frame: while
\* every call is answered, every caller gets its own reply.
LagBounded ==
  reply # 0 => reply <= Calls /\ (step = "idle" => Calls <= reply + missed)

\* While every call is answered, a command is denied only because the device lacks
\* it, and an answered one is not.
DenialJustified ==
  missed = 0 => \A c \in Commands :
    /\ avail[c] = "UNSUPPORTED" => c \in Lacks
    /\ avail[c] = "SUPPORTED" => c \notin Lacks
=============================================================================
