----------------------------- MODULE SampleLog -----------------------------
(***************************************************************************)
(* What a recording promises, whatever queues and buffers its samples pass *)
(* through: ticks are taken in order, some are skipped, those taken are on *)
(* their way in order and never more than Room of them, and a prefix of    *)
(* them reaches the sink, after which what a failure lost never does.      *)
(***************************************************************************)
EXTENDS Naturals, Sequences

CONSTANTS
  Ticks, \* scheduled ticks of the recording
  Room   \* samples that may be on their way

VARIABLES
  next,   \* the first tick that is not decided
  flight, \* samples on their way to the sink, by tick
  stored  \* samples in the sink, by tick

vars == <<next, flight, stored>>

Init == next = 0 /\ flight = <<>> /\ stored = <<>>

\* Ticks pass; one of them may give a sample.
Take ==
  \E n \in next..(Ticks - 1) :
    /\ Len(flight) < Room
    /\ flight' = Append(flight, n)
    /\ next' \in (n + 1)..Ticks
    /\ UNCHANGED stored

Skip == next' \in (next + 1)..Ticks /\ UNCHANGED <<flight, stored>>

\* The oldest k samples leave: the first j of them into the sink, the rest are lost.
Leave ==
  \E k \in 1..Len(flight) : \E j \in 0..k :
    /\ stored' = stored \o SubSeq(flight, 1, j)
    /\ flight' = SubSeq(flight, k + 1, Len(flight))
    /\ UNCHANGED next

\* The newest sample is taken back: its tick is undecided again.
Withdraw ==
  /\ flight # <<>>
  /\ next' = flight[Len(flight)]
  /\ flight' = SubSeq(flight, 1, Len(flight) - 1)
  /\ UNCHANGED stored

Next == Take \/ Skip \/ Leave \/ Withdraw

Spec == Init /\ [][Next]_vars
=============================================================================
