----------------------------- MODULE MCClients -----------------------------
(* Small instances of the two protocol clients for TLC: a session has one  *)
(* of them, and the other one's variables stay as they were. On the xBPI   *)
(* link replies have three bytes, and a byte inside a reply reads as a     *)
(* length of none, one or the whole of the next two frames.                *)
EXTENDS XbpiLink, SbiAutoprint

VARIABLE active \* Session._active

MCMisreads == {0, 1, 4}

Xbpi(A) == active = "xbpi" /\ A /\ UNCHANGED <<active, vars>>
Sbi(A)  == active = "sbi" /\ A /\ UNCHANGED <<active, linkVars>>

ClientsInit ==
  /\ active \in {"xbpi", "sbi"}
  /\ LinkInit /\ Init /\ (active = "xbpi" => ~printing)

ClientsNext ==
  \/ \E c \in Commands : Xbpi(Write(c)) \/ Xbpi(WriteFails(c))
  \/ Xbpi(Receive) \/ Xbpi(TakeLength) \/ Xbpi(TakeFrame) \/ Xbpi(Drained)
  \/ Xbpi(TimesOut) \/ Xbpi(Cancel) \/ Xbpi(Answers) \/ Xbpi(Ignore)
  \/ \E t \in Tasks : Sbi(Poll(t)) \/ Sbi(Identify(t)) \/ Sbi(Refresh(t)) \/ Sbi(Resume(t))
  \/ \E t \in Streamers : Sbi(Enter(t)) \/ Sbi(Hand(t)) \/ Sbi(Iterate(t)) \/ Sbi(Leave(t))
  \/ Sbi(PrintLine) \/ Sbi(Answer) \/ Sbi(SwitchAutoprint)

ClientsSpec ==
  /\ ClientsInit /\ [][ClientsNext]_<<active, vars, linkVars>>
  /\ \A t \in Tasks : WF_vars(Resume(t))
=============================================================================
