------------------------------ MODULE MCPort ------------------------------
(* Small instances of OpenDevice and Codecs for TLC: what becomes of a     *)
(* port that is opened, or what goes over one that is open. The variables  *)
(* of the other question stay as they were.                                *)
EXTENDS OpenDevice, MCCodecs

VARIABLE talks \* the port is open, and exchanges go over it

Opens(A) == ~talks /\ A /\ UNCHANGED <<talks, codecVars>>
Talks(A) == talks /\ A /\ UNCHANGED <<talks, vars>>

PortInit ==
  /\ talks \in BOOLEAN
  /\ Init /\ CodecInit
  /\ IF talks THEN asked = [protocol |-> "xbpi", identify |-> FALSE, sweep |-> FALSE] /\ speaks = "none"
     ELSE protocol = "xbpi"

PortNext ==
  \/ Opens(Open) \/ Opens(NextBaud) \/ Opens(Deadline)
  \/ Opens(Sniff) \/ Opens(SniffEnds) \/ Opens(Probe) \/ Opens(NoDevice)
  \/ Opens(XbpiProbed) \/ Opens(SbiProbed) \/ Opens(Listen) \/ Opens(ListenEnds)
  \/ Opens(Identified) \/ Opens(Transient) \/ Opens(Retry)
  \/ \E e \in {"device", "connection", "cancelled"} : Opens(Fails(e))
  \/ Opens(Unasked) \/ Opens(Answer) \/ Opens(Ignore)
  \/ \E c \in Commands : \E arguments \in Arguments(c) : Talks(Ask(c, arguments))
  \/ \E s \in DOMAIN Index : Talks(Get(s)) \/ \E g \in Givens(s) : Talks(Set(s, g[1], g[2]))
  \/ /\ stage = "asked" /\ protocol = "xbpi"
     /\ \E a \in Answers \cup Refuses : \E f \in Faults(a) : Talks(Reply(a, f))
  \/ Talks(Finish) \/ Talks(FinishLine) \/ Talks(Return)
  \/ \E c \in SbiCommands : Talks(AskLine(c))
  \/ /\ stage = "asked" /\ protocol = "sbi"
     /\ \E l \in Lines(call.cmd) : \E missed \in 0..Len(l.body) : Talks(ReplyLine(l, missed))

PortSpec ==
  /\ PortInit /\ [][PortNext]_<<talks, vars, codecVars>>
  /\ WF_vars(Advance) /\ WF_vars(Deadline)
  /\ WF_vars(NextBaud) /\ WF_vars(asked.sweep /\ rows # <<>> /\ Open)
=============================================================================
