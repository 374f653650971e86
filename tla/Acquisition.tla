---------------------------- MODULE Acquisition ----------------------------
(***************************************************************************)
(* A recording of finite duration: record()'s producer polls on absolute   *)
(* targets and publishes a batch per tick into a bounded stream; pipe()    *)
(* drains the stream into a buffer that it flushes to a sink. The caller   *)
(* may be cancelled in pipe, may call pipe again, and leaves record()'s    *)
(* context when no pipe is running.                                        *)
(*                                                                         *)
(* A batch has one sample here and is named by its tick. Time is counted   *)
(* in units of which Period make a tick. A step runs from one await to the *)
(* next.                                                                   *)
(***************************************************************************)
EXTENDS Naturals, Sequences, FiniteSetsExt

CONSTANTS
  Ticks,         \* total_ticks
  Period,        \* time from one target to the next
  Capacity,      \* buffer_size of record
  BatchSize,     \* batch_size of pipe
  FlushInterval, \* flush_interval of pipe
  Horizon        \* bound: the clock stops here

ASSUME AcquisitionAssumption ==
  /\ {Ticks, Period, Capacity, BatchSize, FlushInterval} \subseteq Nat \ {0}
  /\ Horizon \in Nat

VARIABLES
  overflow, \* OverflowPolicy
  now,      \* anyio.current_time() since the producer's start
  pc,       \* what the producer awaits
  tick,     \* its tick
  emitted,  \* summary.samples_emitted
  late,     \* summary.samples_late
  chan,     \* the stream's buffer
  offer,    \* the item of a producer that is blocked in send, in a sequence
  handed,   \* the item handed to a receiver that waited, in a sequence
  pipe,     \* what pipe awaits, or how it ended
  batch,    \* pipe's buffer
  flushed,  \* pipe's last_flush
  wrote,    \* samples pipe handed to the sink
  stored,   \* samples in the sink
  before,   \* how many there were when this pipe began
  lost,     \* samples that a failed or cancelled pipe took and did not store
  left      \* the caller has left record()'s context

producer == <<pc, tick, emitted, late>>
consumer == <<pipe, batch, flushed, wrote, stored, before, lost>>
stream   == <<chan, offer, handed>>
vars     == <<overflow, now, producer, stream, consumer, left>>

Ended == {"finished", "raised", "cancelled"}

\* Mutant: a slot that has begun counts as missed.
MissedBegun(n) ==
  IF now > (n + 1) * Period THEN Min({(now - n * Period + Period - 1) \div Period, Ticks - n}) ELSE 0

\* Mutant: the missed slots are not capped at the end of the run.
MissedUncapped(n) ==
  IF now > (n + 1) * Period THEN (now - n * Period) \div Period ELSE 0

\* How many slots, from n on, are skipped by a producer that is more than a period late.
Missed(n) ==
  IF now > (n + 1) * Period THEN Min({(now - n * Period) \div Period, Ticks - n}) ELSE 0

\* The head of the producer's loop for tick n, up to its next await.
Schedule(n, counted) ==
  /\ tick' = n + Missed(n)
  /\ late' = counted + Missed(n)
  /\ pc' = IF tick' >= Ticks THEN "finished"
           ELSE IF now < tick' * Period THEN "sleeping" ELSE "polling"

Init ==
  /\ overflow \in {"block", "drop_newest"}
  /\ now = 0
  /\ pc = "polling" /\ tick = 0 /\ emitted = 0 /\ late = 0
  /\ chan = <<>> /\ offer = <<>> /\ handed = <<>>
  /\ pipe = "receiving" /\ batch = <<>> /\ flushed = 0
  /\ wrote = 0 /\ stored = <<>> /\ before = 0 /\ lost = 0
  /\ left = FALSE

-----------------------------------------------------------------------------
(* The producer.                                                           *)

Wake ==
  /\ pc = "sleeping"
  /\ ~left
  /\ now >= tick * Period
  /\ pc' = "polling"
  /\ UNCHANGED <<overflow, now, tick, emitted, late, stream, consumer, left>>

Fits == Len(chan) < Capacity

\* send_nowait: to the receiver that waits, if any, or into the buffer.
Deliver(n) ==
  IF pipe = "waiting" /\ handed = <<>>
  THEN handed' = <<n>> /\ UNCHANGED chan
  ELSE Fits /\ chan' = Append(chan, n) /\ UNCHANGED handed

CanDeliver == (pipe = "waiting" /\ handed = <<>>) \/ Fits

\* The poll returns; its batch is sent, or the producer blocks in send, or drops it.
Polled ==
  /\ pc = "polling"
  /\ ~left
  /\ \/ /\ CanDeliver
        /\ Deliver(tick)
        /\ emitted' = emitted + 1
        /\ Schedule(tick + 1, late)
        /\ UNCHANGED offer
     \/ /\ ~CanDeliver /\ overflow = "block"
        /\ offer' = <<tick>>
        /\ pc' = "sending"
        /\ UNCHANGED <<tick, emitted, late, chan, handed>>
     \/ /\ ~CanDeliver /\ overflow = "drop_newest"
        /\ Schedule(tick + 1, late + 1)
        /\ UNCHANGED <<emitted, stream>>
  /\ UNCHANGED <<overflow, now, consumer, left>>

\* The receiver took the item: send returns.
Sent ==
  /\ pc = "sending"
  /\ offer = <<>>
  /\ emitted' = emitted + 1
  /\ Schedule(tick + 1, late)
  /\ UNCHANGED <<overflow, now, stream, consumer, left>>

\* source.poll raises: the stream is closed and the task group cancels the caller.
PollRaises ==
  /\ pc = "polling"
  /\ ~left
  /\ pc' = "raised"
  /\ UNCHANGED <<overflow, now, tick, emitted, late, stream, consumer, left>>

\* Mutant: a send under way is waited for.
StopUnlessSending ==
  /\ left
  /\ pc \in {"sleeping", "polling"}
  /\ pc' = "cancelled"
  /\ offer' = <<>>
  /\ UNCHANGED <<overflow, now, tick, emitted, late, chan, handed, consumer, left>>

\* The caller has left: the producer is cancelled at its await, and an item that
\* nobody took is withdrawn.
Stop ==
  /\ left
  /\ pc \in {"sleeping", "polling"} \/ (pc = "sending" /\ offer # <<>>)
  /\ pc' = "cancelled"
  /\ offer' = <<>>
  /\ UNCHANGED <<overflow, now, tick, emitted, late, chan, handed, consumer, left>>

-----------------------------------------------------------------------------
(* pipe() and its caller.                                                  *)

\* Batch n joins the buffer, which is flushed when it is full or the time is over.
Collect(n) ==
  /\ batch' = Append(batch, n)
  /\ IF Len(batch') >= BatchSize \/ now - flushed >= FlushInterval
     THEN pipe' = "writing" /\ flushed' = now
     ELSE pipe' = "receiving" /\ UNCHANGED flushed
  /\ UNCHANGED <<wrote, stored, before, lost>>

\* Mutant: the blocked sender's item overtakes the buffer.
ReceiveOffered ==
  /\ pipe = "receiving"
  /\ offer \o chan # <<>>
  /\ Collect(Head(offer \o chan))
  /\ chan' = Tail(offer \o chan)
  /\ offer' = <<>>
  /\ UNCHANGED <<overflow, now, producer, handed, left>>

\* receive_nowait: a blocked sender's item moves into the buffer, and the oldest one
\* is taken.
Receive ==
  /\ pipe = "receiving"
  /\ chan \o offer # <<>>
  /\ Collect(Head(chan \o offer))
  /\ chan' = Tail(chan \o offer)
  /\ offer' = <<>>
  /\ UNCHANGED <<overflow, now, producer, handed, left>>

Wait ==
  /\ pipe = "receiving"
  /\ chan \o offer = <<>>
  /\ pc \notin Ended
  /\ pipe' = "waiting"
  /\ UNCHANGED <<overflow, now, producer, stream, batch, flushed, wrote, stored, before, lost, left>>

TakeHanded ==
  /\ pipe = "waiting"
  /\ handed # <<>>
  /\ Collect(handed[1])
  /\ handed' = <<>>
  /\ UNCHANGED <<overflow, now, producer, chan, offer, left>>

\* The producer has closed the stream and it is empty: the last flush.
EndOfStream ==
  /\ \/ pipe = "receiving" /\ chan = <<>>
     \/ pipe = "waiting" /\ handed = <<>>
  /\ pc \in Ended
  /\ pipe' = IF batch = <<>> THEN "returned" ELSE "lastWrite"
  /\ UNCHANGED <<overflow, now, producer, stream, batch, flushed, wrote, stored, before, lost, left>>

Writing == pipe \in {"writing", "lastWrite"}

Written ==
  /\ Writing
  /\ stored' = stored \o batch
  /\ wrote' = wrote + Len(batch)
  /\ batch' = <<>>
  /\ pipe' = IF pipe = "writing" THEN "receiving" ELSE "returned"
  /\ UNCHANGED <<overflow, now, producer, stream, flushed, before, lost, left>>

\* pipe raises: write_many failed, or a cancellation reached one of pipe's awaits.
\* What it held is lost, but for the part that the sink has of a write under way.
PipeRaises ==
  /\ pipe \in {"receiving", "waiting", "writing", "lastWrite"}
  /\ handed = <<>>
  /\ \E k \in 0..(IF Writing THEN Len(batch) ELSE 0) :
       /\ stored' = stored \o SubSeq(batch, 1, k)
       /\ lost' = lost + Len(batch) - k
  /\ batch' = <<>>
  /\ pipe' = "raised"
  /\ UNCHANGED <<overflow, now, producer, stream, flushed, wrote, before, left>>

\* The caller has handled the error and pipes the rest of the stream.
PipeAgain ==
  /\ pipe = "raised"
  /\ ~left /\ pc # "raised"
  /\ pipe' = "receiving"
  /\ wrote' = 0 /\ before' = Len(stored) /\ flushed' = now
  /\ UNCHANGED <<overflow, now, producer, stream, batch, stored, lost, left>>

\* Leaving the context cancels the producer's scope.
Leave ==
  /\ pipe \in {"returned", "raised"}
  /\ ~left
  /\ left' = TRUE
  /\ UNCHANGED <<overflow, now, producer, stream, consumer>>

Clock ==
  /\ now < Horizon
  /\ now' = now + 1
  /\ UNCHANGED <<overflow, producer, stream, consumer, left>>

-----------------------------------------------------------------------------
Produce == Wake \/ Polled \/ Sent \/ PollRaises \/ Stop
Consume == Receive \/ Wait \/ TakeHanded \/ EndOfStream \/ Written \/ PipeRaises

Next == Produce \/ Consume \/ PipeAgain \/ Leave \/ Clock

\* Polls are bounded by timeouts and the event loop runs every task that is ready.
Spec == Init /\ [][Next]_vars /\ WF_vars(Produce) /\ WF_vars(Consume)

-----------------------------------------------------------------------------
Numbers == 0..(Ticks - 1)

TypeOK ==
  /\ overflow \in {"block", "drop_newest"}
  /\ now \in 0..Horizon
  /\ pc \in {"sleeping", "polling", "sending"} \cup Ended
  /\ tick \in 0..Ticks /\ emitted \in Nat /\ late \in Nat
  /\ {chan, offer, handed, batch, stored} \subseteq Seq(Numbers)
  /\ Len(chan) <= Capacity /\ Len(offer) <= 1 /\ Len(handed) <= 1 /\ Len(batch) <= BatchSize
  /\ pipe \in {"receiving", "waiting", "writing", "lastWrite", "returned", "raised"}
  /\ flushed \in 0..Horizon
  /\ {wrote, before, lost} \subseteq Nat
  /\ left \in BOOLEAN

\* What is on its way from the producer to the sink, the oldest first.
Flight == batch \o handed \o chan \o offer

\* The first tick that the producer has not decided.
Undecided == IF pc = "sending" THEN tick + 1 ELSE tick

\* "samples_emitted + samples_late is the recorder target-count invariant unless the
\* caller exits early" (docs/logging.md), and the emitted ones are where they should be:
\* in the sink, on their way, or lost by a pipe that raised. When pipe returns the
\* stream was drained, its buffer was flushed to the last sample, and its summary
\* counts what it handed to the sink.
TicksAccounted ==
  /\ TypeOK
  /\ emitted + late = tick
  /\ pc = "finished" => tick = Ticks
  /\ Len(stored) + Len(Flight) + lost = emitted + (IF pc = "sending" THEN 1 ELSE 0)
  /\ pipe = "returned" => Flight = <<>> /\ wrote = Len(stored) - before

\* The producer skips a slot only when it is over, polls none before its target, and
\* none that is over, unless it overslept.
SkipsMissedSlots ==
  [][/\ \A n \in (tick + 1)..(tick' - 1) : now >= (n + 1) * Period
     /\ pc' = "polling" => now >= tick' * Period
     /\ tick' # tick /\ pc' = "polling" => now <= (tick' + 1) * Period]_vars

\* The queues, buffers, policies and failures between the producer and the sink keep
\* what a recording promises: order, no sample twice, bounded samples under way.
Log == INSTANCE SampleLog WITH
         Room <- BatchSize + Capacity + 2, next <- Undecided, flight <- Flight
StoresInOrder == Log!Spec

\* Leaving the context ends the producer, also one that is blocked in send on a stream
\* that nobody drains.
LeavingEnds == left ~> pc \in Ended
=============================================================================
