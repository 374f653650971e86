------------------------- MODULE AcquisitionProofs -------------------------
(***************************************************************************)
(* What the run of Acquisition checks, for every number of ticks, period,  *)
(* capacity, batch size and flush interval: the accounts of a recording,   *)
(* the slots it skips, and that the queues between the producer and the    *)
(* sink implement SampleLog.                                               *)
(***************************************************************************)
EXTENDS Acquisition, SequenceTheorems, TLAPS

\* The types, one by one: a set of variables is opaque to the provers.
Types ==
  /\ overflow \in {"block", "drop_newest"}
  /\ now \in 0..Horizon
  /\ pc \in {"sleeping", "polling", "sending"} \cup Ended
  /\ tick \in 0..Ticks /\ emitted \in Nat /\ late \in Nat
  /\ chan \in Seq(Numbers) /\ offer \in Seq(Numbers) /\ handed \in Seq(Numbers)
  /\ batch \in Seq(Numbers) /\ stored \in Seq(Numbers)
  /\ Len(chan) <= Capacity /\ Len(offer) <= 1 /\ Len(handed) <= 1 /\ Len(batch) <= BatchSize
  /\ pipe \in {"receiving", "waiting", "writing", "lastWrite", "returned", "raised"}
  /\ flushed \in 0..Horizon
  /\ wrote \in Nat /\ before \in Nat /\ lost \in Nat
  /\ left \in BOOLEAN

\* A tick is polled at its target or later.
Due == pc = "polling" => now >= tick * Period

Phases ==
  /\ pc \notin Ended => tick < Ticks
  /\ pc = "finished" => tick = Ticks
  /\ Due
  /\ offer # <<>> => pc = "sending" /\ offer = <<tick>>
  /\ handed # <<>> => pipe = "waiting"
  /\ pipe = "waiting" /\ handed = <<>> => chan = <<>> /\ offer = <<>>
  /\ pipe \in {"receiving", "waiting"} => Len(batch) < BatchSize
  /\ pipe \in {"lastWrite", "returned"} => pc \in Ended /\ chan = <<>>
  /\ pipe \in {"returned", "raised"} => batch = <<>>

\* Every tick is emitted or late, and an emitted sample is in one place.
TickCount   == emitted + late = tick
Offered     == IF pc = "sending" THEN 1 ELSE 0
SampleCount ==
  Len(stored) + Len(batch) + Len(handed) + Len(chan) + Len(offer) + lost = emitted + Offered
WroteCount  == pipe # "raised" => Len(stored) = before + wrote
Counts      == TickCount /\ SampleCount /\ WroteCount

IInv == Types /\ Phases /\ Counts

USE AcquisitionAssumption

-----------------------------------------------------------------------------
(* The producer's arithmetic.                                              *)

LEMMA MinOfTwo ==
  ASSUME NEW a \in Nat, NEW b \in Nat
  PROVE  Min({a, b}) = IF a <= b THEN a ELSE b
BY DEF Min

LEMMA Quotient ==
  ASSUME NEW a \in Nat, NEW p \in Nat \ {0}
  PROVE  /\ a \div p \in Nat
         /\ (a \div p) * p <= a
         /\ a < (a \div p + 1) * p
OBVIOUS

LEMMA Monotone ==
  ASSUME NEW a \in Nat, NEW b \in Nat, NEW p \in Nat, a <= b
  PROVE  a * p <= b * p
OBVIOUS

\* The slots that Missed skips are over, and the one after them is not unless the run is.
LEMMA MissedBounds ==
  ASSUME NEW n \in 0..Ticks, now \in Nat
  PROVE  /\ Missed(n) \in 0..(Ticks - n)
         /\ (n + Missed(n)) * Period <= now \/ Missed(n) = 0
         /\ n + Missed(n) < Ticks => now <= (n + Missed(n) + 1) * Period
<1> DEFINE q == (now - n * Period) \div Period
<1>1. CASE ~(now > (n + 1) * Period)
  BY <1>1 DEF Missed
<1>2. CASE now > (n + 1) * Period
  <2>1. n * Period \in Nat /\ (n + 1) * Period = n * Period + Period
    OBVIOUS
  <2>2. now - n * Period \in Nat
    BY <1>2, <2>1
  <2>3. q \in Nat /\ q * Period <= now - n * Period /\ now - n * Period < (q + 1) * Period
    BY <2>2, Quotient
  <2>4. Missed(n) = IF q <= Ticks - n THEN q ELSE Ticks - n
    BY <1>2, <2>3, MinOfTwo DEF Missed
  <2> HIDE DEF q
  <2>5. Missed(n) \in Nat /\ Missed(n) <= q /\ Missed(n) <= Ticks - n
    BY <2>3, <2>4
  <2>6. Missed(n) * Period <= q * Period
    BY <2>3, <2>5, Monotone
  <2>7. (n + Missed(n)) * Period = n * Period + Missed(n) * Period
    BY <2>5
  <2>8. (n + Missed(n)) * Period <= now
    BY <2>1, <2>3, <2>5, <2>6, <2>7
  <2>9. ASSUME n + Missed(n) < Ticks PROVE now <= (n + Missed(n) + 1) * Period
    <3>1. Missed(n) = q
      BY <2>3, <2>4, <2>9
    <3>2. (n + q + 1) * Period = n * Period + (q + 1) * Period
      BY <2>3
    <3> QED
      BY <2>1, <2>3, <3>1, <3>2
  <2> QED
    BY <2>5, <2>8, <2>9
<1> QED
  BY <1>1, <1>2


LEMMA ScheduleBounds ==
  ASSUME NEW n \in 0..Ticks, NEW counted \in Nat, now \in Nat, Schedule(n, counted)
  PROVE  /\ tick' \in n..Ticks /\ late' = counted + (tick' - n)
         /\ pc' \in {"sleeping", "polling", "finished"}
         /\ pc' = "finished" <=> tick' = Ticks
         /\ pc' = "polling" => now >= tick' * Period
         /\ pc' = "polling" => now <= (tick' + 1) * Period
         /\ tick' # n => tick' * Period <= now
<1>1. /\ Missed(n) \in 0..(Ticks - n)
      /\ (n + Missed(n)) * Period <= now \/ Missed(n) = 0
      /\ n + Missed(n) < Ticks => now <= (n + Missed(n) + 1) * Period
  BY MissedBounds
<1>2. /\ tick' = n + Missed(n) /\ late' = counted + Missed(n)
      /\ pc' = IF tick' >= Ticks THEN "finished"
               ELSE IF now < tick' * Period THEN "sleeping" ELSE "polling"
  BY DEF Schedule
<1>3. tick' \in n..Ticks /\ tick' * Period \in Nat
  BY <1>1, <1>2
<1> QED
  BY <1>1, <1>2, <1>3

-----------------------------------------------------------------------------
(* The invariant.                                                          *)

LEMMA InitHolds == Init => IInv
<1> SUFFICES ASSUME Init PROVE IInv
  OBVIOUS
<1>a. overflow \in {"block", "drop_newest"} /\ left \in BOOLEAN
  BY Zenon DEF Init
<1>1. Types
  BY <1>a DEF Init, Types, Ended
<1>2. Phases
  BY DEF Init, Phases, Ended, Due
<1>3. Counts
  BY DEF Init, Counts, TickCount, SampleCount, Offered, WroteCount
<1> QED
  BY <1>1, <1>2, <1>3 DEF IInv

LEMMA WakeKeeps == IInv /\ Wake => IInv'
<1> SUFFICES ASSUME IInv, Wake PROVE IInv'
  OBVIOUS
<1>1. /\ pc = "sleeping" /\ pc' = "polling" /\ now >= tick * Period
      /\ UNCHANGED <<overflow, now, tick, emitted, late, chan, offer, handed, pipe, batch, flushed,
                     wrote, stored, before, lost, left>>
  BY DEF Wake, stream, consumer
<1>2. Types'
  BY <1>1 DEF IInv, Types
<1>3. Phases' /\ Counts'
  BY <1>1 DEF IInv, Phases, Counts, TickCount, SampleCount, Offered, WroteCount, Ended, Due
<1> QED
  BY <1>2, <1>3 DEF IInv

\* The numbers that Counts adds up.
LEMMA AreNumbers ==
  ASSUME IInv
  PROVE  /\ emitted \in Nat /\ late \in Nat /\ lost \in Nat /\ wrote \in Nat /\ before \in Nat
         /\ tick \in Nat /\ now \in Nat
         /\ Len(stored) \in Nat /\ Len(batch) \in Nat /\ Len(handed) \in Nat
         /\ Len(chan) \in Nat /\ Len(offer) \in Nat
<1>1. Types
  BY DEF IInv
<1>2. /\ emitted \in Nat /\ late \in Nat /\ lost \in Nat /\ wrote \in Nat /\ before \in Nat
      /\ tick \in Nat /\ now \in Nat
  BY <1>1 DEF Types
<1>3. /\ Len(stored) \in Nat /\ Len(batch) \in Nat /\ Len(handed) \in Nat
      /\ Len(chan) \in Nat /\ Len(offer) \in Nat
  BY <1>1 DEF Types
<1> QED
  BY <1>2, <1>3

\* The producer's next tick, after one that was emitted or dropped.
LEMMA ScheduleKeeps ==
  ASSUME IInv, pc \in {"polling", "sending"}, NEW counted \in Nat, Schedule(tick + 1, counted), now' = now,
         emitted' \in Nat, emitted' + counted = tick + 1
  PROVE  /\ tick' \in 0..Ticks /\ late' \in Nat /\ emitted' + late' = tick'
         /\ pc' \in {"sleeping", "polling", "finished"}
         /\ pc' \notin Ended => tick' < Ticks
         /\ pc' = "finished" => tick' = Ticks
         /\ Due'
<1>1. tick + 1 \in 0..Ticks /\ now \in Nat
  BY DEF IInv, Types, Phases, Ended
<1>2. /\ tick' \in (tick + 1)..Ticks /\ late' = counted + (tick' - (tick + 1))
      /\ pc' \in {"sleeping", "polling", "finished"}
      /\ pc' = "finished" <=> tick' = Ticks
      /\ pc' = "polling" => now >= tick' * Period
  BY <1>1, ScheduleBounds
<1> QED
  BY <1>1, <1>2 DEF Ended, Due

LEMMA PolledKeeps == IInv /\ Polled => IInv'
<1> SUFFICES ASSUME IInv, Polled PROVE IInv'
  OBVIOUS
<1>1. /\ pc = "polling" /\ now' = now /\ offer = <<>> /\ tick \in Numbers /\ tick < Ticks
      /\ UNCHANGED <<overflow, now, pipe, batch, flushed, wrote, stored, before, lost, left>>
      /\ Types /\ Phases /\ TickCount /\ SampleCount /\ WroteCount
  BY DEF Polled, consumer, IInv, Types, Phases, Ended, Numbers, Counts
<1>n. /\ emitted \in Nat /\ late \in Nat /\ lost \in Nat /\ tick \in Nat
      /\ Len(stored) \in Nat /\ Len(batch) \in Nat /\ Len(handed) \in Nat
      /\ Len(chan) \in Nat /\ Len(offer) \in Nat
  BY AreNumbers
<1>2. WroteCount' /\ Offered = 0
  BY <1>1 DEF WroteCount, Offered
<1>3. CASE /\ CanDeliver /\ Deliver(tick) /\ emitted' = emitted + 1
           /\ Schedule(tick + 1, late) /\ offer' = offer
  <2>1. late \in Nat /\ emitted' \in Nat /\ emitted' + late = tick + 1
    <3>1. emitted + late = tick /\ emitted' = emitted + 1
      BY <1>1, <1>3 DEF TickCount
    <3> QED
      BY <3>1, <1>n
  <2>2. /\ tick' \in 0..Ticks /\ late' \in Nat /\ emitted' + late' = tick'
        /\ pc' \in {"sleeping", "polling", "finished"}
        /\ pc' \notin Ended => tick' < Ticks
        /\ pc' = "finished" => tick' = Ticks
        /\ Due'
    BY <1>1, <1>3, <2>1, ScheduleKeeps
  <2>3. \/ pipe = "waiting" /\ handed = <<>> /\ handed' = <<tick>> /\ chan' = chan
        \/ /\ ~(pipe = "waiting" /\ handed = <<>>)
           /\ Len(chan) < Capacity /\ chan' = Append(chan, tick) /\ handed' = handed
    BY <1>3 DEF Deliver, Fits
  <2>4. /\ chan' \in Seq(Numbers) /\ handed' \in Seq(Numbers) /\ Len(chan') <= Capacity /\ Len(handed') <= 1
        /\ Len(chan') + Len(handed') = Len(chan) + Len(handed) + 1
        /\ handed' # <<>> => pipe = "waiting"
        /\ pipe = "waiting" => handed' # <<>>
    <3>1. /\ chan \in Seq(Numbers) /\ handed \in Seq(Numbers) /\ Len(chan) <= Capacity /\ Len(handed) <= 1
          /\ handed # <<>> => pipe = "waiting"
      BY <1>1 DEF Types, Phases
    <3>2. <<tick>> \in Seq(Numbers) /\ Append(chan, tick) \in Seq(Numbers)
      BY <1>1, <3>1
    <3>3. CASE pipe = "waiting" /\ handed = <<>> /\ handed' = <<tick>> /\ chan' = chan
      <4>1. handed' \in Seq(Numbers) /\ Len(handed') = 1 /\ Len(handed) = 0 /\ handed' # <<>>
        BY <3>2, <3>3
      <4> QED
        BY <3>1, <3>3, <4>1
    <3>4. CASE /\ ~(pipe = "waiting" /\ handed = <<>>)
               /\ Len(chan) < Capacity /\ chan' = Append(chan, tick) /\ handed' = handed
      <4>1. Len(chan') = Len(chan) + 1
        BY <3>1, <3>4
      <4> QED
        BY <3>1, <3>2, <3>4, <4>1
    <3> QED
      BY <2>3, <3>3, <3>4
  <2>5. pipe \in {"lastWrite", "returned"} => FALSE
    BY <1>1 DEF Phases, Ended
  <2>6. Types'
    BY <1>1, <1>3, <2>1, <2>2, <2>4 DEF Types, Ended
  <2>7. Phases'
    BY <1>1, <1>3, <2>2, <2>4, <2>5 DEF Phases
  <2>8. SampleCount'
    <3>1. Offered' = 0 /\ emitted' = emitted + 1 /\ UNCHANGED <<stored, batch, offer, lost>>
      BY <1>1, <1>3, <2>2 DEF Offered
    <3>2. Len(chan') \in Nat /\ Len(handed') \in Nat /\ Len(chan') + Len(handed') = Len(chan) + Len(handed) + 1
      BY <2>4
    <3>c. SampleCount
      BY <1>1
    <3> QED
      BY <3>c, <1>2, <3>1, <3>2, <1>n, SMTT(30) DEF SampleCount
  <2> QED
    BY <1>2, <2>2, <2>6, <2>7, <2>8 DEF IInv, Counts, TickCount
<1>4. CASE /\ ~CanDeliver /\ offer' = <<tick>> /\ pc' = "sending"
           /\ UNCHANGED <<tick, emitted, late, chan, handed>>
  <2>1. pipe = "waiting" => handed # <<>>
    BY <1>4 DEF CanDeliver
  <2>2. offer' \in Seq(Numbers) /\ Len(offer') = 1 /\ Len(offer) = 0 /\ Offered' = 1
    BY <1>1, <1>4 DEF Offered
  <2>3. Types'
    BY <1>1, <1>4, <2>2 DEF Types
  <2>4. Phases'
    BY <1>1, <1>4, <2>1 DEF Phases, Ended, Due
  <2>5. SampleCount'
    <3>1. UNCHANGED <<stored, batch, handed, chan, lost, emitted>>
      BY <1>1, <1>4
    <3>c. SampleCount
      BY <1>1
    <3> QED
      BY <3>c, <1>2, <2>2, <3>1, <1>n, SMTT(30) DEF SampleCount
  <2>6. TickCount'
    BY <1>1, <1>4 DEF TickCount
  <2> QED
    BY <1>2, <2>3, <2>4, <2>5, <2>6 DEF IInv, Counts
<1>5. CASE Schedule(tick + 1, late + 1) /\ UNCHANGED <<emitted, stream>>
  <2>1. late + 1 \in Nat /\ emitted' \in Nat /\ emitted' + (late + 1) = tick + 1
    <3>1. emitted + late = tick /\ emitted' = emitted
      BY <1>1, <1>5 DEF TickCount
    <3> QED
      BY <3>1, <1>n
  <2>2. /\ tick' \in 0..Ticks /\ late' \in Nat /\ emitted' + late' = tick'
        /\ pc' \in {"sleeping", "polling", "finished"}
        /\ pc' \notin Ended => tick' < Ticks
        /\ pc' = "finished" => tick' = Ticks
        /\ Due'
    BY <1>1, <1>5, <2>1, ScheduleKeeps
  <2>3. UNCHANGED <<emitted, chan, offer, handed>>
    BY <1>5 DEF stream
  <2>4. Types'
    BY <1>1, <2>2, <2>3 DEF Types, Ended
  <2>5. pipe \in {"lastWrite", "returned"} => FALSE
    BY <1>1 DEF Phases, Ended
  <2>6. Phases'
    BY <1>1, <2>2, <2>3, <2>5 DEF Phases
  <2>7. SampleCount'
    BY <1>1, <1>2, <2>2, <2>3 DEF SampleCount, Offered
  <2> QED
    BY <1>2, <2>2, <2>4, <2>6, <2>7 DEF IInv, Counts, TickCount
<1> QED
  BY <1>3, <1>4, <1>5 DEF Polled

LEMMA SentKeeps == IInv /\ Sent => IInv'
<1> SUFFICES ASSUME IInv, Sent PROVE IInv'
  OBVIOUS
<1>1. /\ pc = "sending" /\ offer = <<>> /\ emitted' = emitted + 1 /\ Schedule(tick + 1, late)
      /\ UNCHANGED <<overflow, now, chan, offer, handed, pipe, batch, flushed, wrote, stored, before,
                     lost, left>>
      /\ Types /\ Phases /\ TickCount /\ SampleCount /\ WroteCount
  BY DEF Sent, stream, consumer, IInv, Counts
<1>n. /\ emitted \in Nat /\ late \in Nat /\ lost \in Nat /\ tick \in Nat
      /\ Len(stored) \in Nat /\ Len(batch) \in Nat /\ Len(handed) \in Nat
      /\ Len(chan) \in Nat /\ Len(offer) \in Nat
  BY AreNumbers
<1>2. late \in Nat /\ emitted' \in Nat /\ emitted' + late = tick + 1
  <2>1. emitted + late = tick /\ emitted' = emitted + 1
    BY <1>1 DEF TickCount
  <2> QED
    BY <2>1, <1>n
<1>3. /\ tick' \in 0..Ticks /\ late' \in Nat /\ emitted' + late' = tick'
      /\ pc' \in {"sleeping", "polling", "finished"}
      /\ pc' \notin Ended => tick' < Ticks
      /\ pc' = "finished" => tick' = Ticks
      /\ Due'
  BY <1>1, <1>2, ScheduleKeeps
<1>4. Types'
  BY <1>1, <1>2, <1>3 DEF Types, Ended
<1>5. pipe \in {"lastWrite", "returned"} => FALSE
  BY <1>1 DEF Phases, Ended
<1>6. Phases'
  BY <1>1, <1>3, <1>5 DEF Phases
<1>7. SampleCount'
  <2>1. Offered' = 0 /\ Offered = 1 /\ emitted' = emitted + 1 /\ UNCHANGED <<stored, batch, handed, chan, offer, lost>>
    BY <1>1, <1>3 DEF Offered
  <2>c. SampleCount
    BY <1>1
  <2> QED
    BY <2>c, <2>1, <1>n, SMTT(30) DEF SampleCount
<1>8. WroteCount'
  BY <1>1 DEF WroteCount
<1> QED
  BY <1>3, <1>4, <1>6, <1>7, <1>8 DEF IInv, Counts, TickCount

LEMMA PollRaisesKeeps == IInv /\ PollRaises => IInv'
<1> SUFFICES ASSUME IInv, PollRaises PROVE IInv'
  OBVIOUS
<1>1. /\ pc = "polling" /\ pc' = "raised"
      /\ UNCHANGED <<overflow, now, tick, emitted, late, chan, offer, handed, pipe, batch, flushed,
                     wrote, stored, before, lost, left>>
  BY DEF PollRaises, stream, consumer
<1>2. Types'
  BY <1>1 DEF IInv, Types, Ended
<1>3. Phases'
  BY <1>1 DEF IInv, Phases, Ended, Due
<1>4. Counts'
  BY <1>1 DEF IInv, Counts, TickCount, SampleCount, WroteCount, Offered
<1> QED
  BY <1>2, <1>3, <1>4 DEF IInv

LEMMA StopKeeps == IInv /\ Stop => IInv'
<1> SUFFICES ASSUME IInv, Stop PROVE IInv'
  OBVIOUS
<1>1. /\ pc \in {"sleeping", "polling"} \/ (pc = "sending" /\ offer # <<>>)
      /\ pc' = "cancelled" /\ offer' = <<>>
      /\ UNCHANGED <<overflow, now, tick, emitted, late, chan, handed, pipe, batch, flushed,
                     wrote, stored, before, lost, left>>
      /\ Types /\ Phases /\ TickCount /\ SampleCount /\ WroteCount
  BY DEF Stop, consumer, IInv, Counts
<1>n. /\ emitted \in Nat /\ late \in Nat /\ lost \in Nat /\ tick \in Nat
      /\ Len(stored) \in Nat /\ Len(batch) \in Nat /\ Len(handed) \in Nat
      /\ Len(chan) \in Nat /\ Len(offer) \in Nat
  BY AreNumbers
<1>2. Types'
  BY <1>1 DEF Types, Ended
<1>3. Phases'
  BY <1>1 DEF Phases, Ended, Due
<1>4. Len(offer) = Offered /\ Offered' = 0 /\ Len(offer') = 0 /\ Offered \in Nat
  BY <1>1 DEF Phases, Offered
<1>5. SampleCount'
  <2>1. UNCHANGED <<stored, batch, handed, chan, lost, emitted>>
    BY <1>1
  <2>2. SampleCount
    BY <1>1
  <2> QED
    BY <1>4, <2>1, <2>2, <1>n, SMTT(30) DEF SampleCount
<1>6. TickCount' /\ WroteCount'
  BY <1>1 DEF TickCount, WroteCount
<1> QED
  BY <1>2, <1>3, <1>5, <1>6 DEF IInv, Counts


-----------------------------------------------------------------------------
LEMMA CollectKeeps ==
  ASSUME IInv, pipe \in {"receiving", "waiting"}, NEW n \in Numbers, Collect(n)
  PROVE  /\ batch' = Append(batch, n) /\ batch' \in Seq(Numbers)
         /\ Len(batch') = Len(batch) + 1 /\ Len(batch') <= BatchSize
         /\ pipe' \in {"receiving", "writing"} /\ (pipe' = "receiving" => Len(batch') < BatchSize)
         /\ flushed' \in 0..Horizon
         /\ UNCHANGED <<wrote, stored, before, lost>>
<1>1. batch \in Seq(Numbers) /\ flushed \in 0..Horizon /\ now \in 0..Horizon /\ Len(batch) < BatchSize
  BY DEF IInv, Types, Phases
<1>2. batch' = Append(batch, n) /\ UNCHANGED <<wrote, stored, before, lost>>
  BY DEF Collect
<1>3. batch' \in Seq(Numbers) /\ Len(batch') = Len(batch) + 1
  BY <1>1, <1>2
<1>4. BatchSize \in Nat
  OBVIOUS
<1>5. \/ pipe' = "writing" /\ flushed' = now
      \/ pipe' = "receiving" /\ flushed' = flushed /\ ~(Len(batch') >= BatchSize)
  BY DEF Collect
<1> QED
  BY <1>1, <1>2, <1>3, <1>4, <1>5

LEMMA ReceiveKeeps == IInv /\ Receive => IInv'
<1> SUFFICES ASSUME IInv, Receive PROVE IInv'
  OBVIOUS
<1> DEFINE q == chan \o offer
<1>n. /\ emitted \in Nat /\ late \in Nat /\ lost \in Nat /\ tick \in Nat
      /\ Len(stored) \in Nat /\ Len(batch) \in Nat /\ Len(handed) \in Nat
      /\ Len(chan) \in Nat /\ Len(offer) \in Nat
  BY AreNumbers
<1>1. /\ pipe = "receiving" /\ q # <<>> /\ Collect(Head(q)) /\ chan' = Tail(q) /\ offer' = <<>>
      /\ UNCHANGED <<overflow, now, pc, tick, emitted, late, handed, left>>
      /\ Types /\ Phases /\ TickCount /\ SampleCount /\ WroteCount
  BY DEF Receive, producer, IInv, Counts
<1>2. /\ chan \in Seq(Numbers) /\ offer \in Seq(Numbers) /\ Len(chan) <= Capacity /\ Len(offer) <= 1
      /\ handed = <<>>
  BY <1>1 DEF Types, Phases
<1>3. q \in Seq(Numbers) /\ Len(q) = Len(chan) + Len(offer)
  BY <1>2
<1> HIDE DEF q
<1>4. Head(q) \in Numbers /\ chan' \in Seq(Numbers) /\ Len(chan') = Len(q) - 1
  BY <1>1, <1>3
<1>5. /\ batch' \in Seq(Numbers) /\ Len(batch') = Len(batch) + 1 /\ Len(batch') <= BatchSize
      /\ pipe' \in {"receiving", "writing"} /\ (pipe' = "receiving" => Len(batch') < BatchSize)
      /\ flushed' \in 0..Horizon
      /\ UNCHANGED <<wrote, stored, before, lost>>
  BY <1>1, <1>4, CollectKeeps
<1>6. Len(chan') <= Capacity /\ Len(chan') = Len(chan) + Len(offer) - 1 /\ Len(offer') = 0
  BY <1>1, <1>2, <1>3, <1>4
<1>7. Types'
  BY <1>1, <1>4, <1>5, <1>6 DEF Types
<1>8. Phases'
  BY <1>1, <1>2, <1>5 DEF Phases, Due
<1>9. SampleCount'
  <2>1. Offered' = Offered /\ UNCHANGED <<stored, handed, lost, emitted>>
    BY <1>1, <1>5 DEF Offered
  <2>c. SampleCount
    BY <1>1
  <2> QED
    BY <2>c, <1>n, <1>5, <1>6, <2>1, SMTT(30) DEF SampleCount
<1>10. TickCount' /\ WroteCount'
  BY <1>1, <1>5 DEF TickCount, WroteCount
<1> QED
  BY <1>7, <1>8, <1>9, <1>10 DEF IInv, Counts

LEMMA WaitKeeps == IInv /\ Wait => IInv'
<1> SUFFICES ASSUME IInv, Wait PROVE IInv'
  OBVIOUS
<1>1. /\ pipe = "receiving" /\ chan \o offer = <<>> /\ pipe' = "waiting"
      /\ UNCHANGED <<overflow, now, pc, tick, emitted, late, chan, offer, handed, batch, flushed,
                     wrote, stored, before, lost, left>>
  BY DEF Wait, producer, stream
<1>2. chan = <<>> /\ offer = <<>>
  BY <1>1 DEF IInv, Types
<1>3. Types'
  BY <1>1 DEF IInv, Types
<1>4. Phases'
  BY <1>1, <1>2 DEF IInv, Phases, Due
<1>5. Counts'
  BY <1>1 DEF IInv, Counts, TickCount, SampleCount, WroteCount, Offered
<1> QED
  BY <1>3, <1>4, <1>5 DEF IInv

LEMMA Single ==
  ASSUME NEW S, NEW s \in Seq(S), s # <<>>, Len(s) <= 1
  PROVE  s[1] \in S /\ Len(s) = 1
<1>1. ASSUME NEW k \in Nat \ {0}, k <= 1 PROVE k = 1
  BY <1>1
<1>2. Len(s) \in Nat \ {0}
  BY EmptySeq
<1>3. Len(s) = 1
  BY <1>1, <1>2
<1> QED
  BY <1>3

LEMMA TakeHandedKeeps == IInv /\ TakeHanded => IInv'
<1> SUFFICES ASSUME IInv, TakeHanded PROVE IInv'
  OBVIOUS
<1>n. /\ emitted \in Nat /\ late \in Nat /\ lost \in Nat /\ tick \in Nat
      /\ Len(stored) \in Nat /\ Len(batch) \in Nat /\ Len(handed) \in Nat
      /\ Len(chan) \in Nat /\ Len(offer) \in Nat
  BY AreNumbers
<1>1. /\ pipe = "waiting" /\ handed # <<>> /\ Collect(handed[1]) /\ handed' = <<>>
      /\ UNCHANGED <<overflow, now, pc, tick, emitted, late, chan, offer, left>>
      /\ Types /\ Phases /\ TickCount /\ SampleCount /\ WroteCount
  BY DEF TakeHanded, producer, IInv, Counts
<1>2. handed \in Seq(Numbers) /\ Len(handed) <= 1
  BY <1>1 DEF Types
<1>a. handed[1] \in Numbers /\ Len(handed) = 1
  BY <1>1, <1>2, Single
<1>3. handed[1] \in Numbers /\ Len(handed) = 1 /\ Len(handed') = 0 /\ handed' \in Seq(Numbers)
  BY <1>1, <1>a
<1>5. /\ batch' \in Seq(Numbers) /\ Len(batch') = Len(batch) + 1 /\ Len(batch') <= BatchSize
      /\ pipe' \in {"receiving", "writing"} /\ (pipe' = "receiving" => Len(batch') < BatchSize)
      /\ flushed' \in 0..Horizon
      /\ UNCHANGED <<wrote, stored, before, lost>>
  BY <1>1, <1>3, CollectKeeps
<1>7. Types'
  BY <1>1, <1>3, <1>5 DEF Types
<1>8. Phases'
  BY <1>1, <1>2, <1>5 DEF Phases, Due
<1>9. SampleCount'
  <2>1. Offered' = Offered /\ UNCHANGED <<stored, chan, offer, lost, emitted>>
    BY <1>1, <1>5 DEF Offered
  <2>c. SampleCount
    BY <1>1
  <2> QED
    BY <2>c, <1>n, <1>3, <1>5, <2>1, SMTT(30) DEF SampleCount
<1>10. TickCount' /\ WroteCount'
  BY <1>1, <1>5 DEF TickCount, WroteCount
<1> QED
  BY <1>7, <1>8, <1>9, <1>10 DEF IInv, Counts

LEMMA EndOfStreamKeeps == IInv /\ EndOfStream => IInv'
<1> SUFFICES ASSUME IInv, EndOfStream PROVE IInv'
  OBVIOUS
<1>1. /\ \/ pipe = "receiving" /\ chan = <<>>
         \/ pipe = "waiting" /\ handed = <<>>
      /\ pc \in Ended
      /\ pipe' = IF batch = <<>> THEN "returned" ELSE "lastWrite"
      /\ UNCHANGED <<overflow, now, pc, tick, emitted, late, chan, offer, handed, batch, flushed,
                     wrote, stored, before, lost, left>>
  BY DEF EndOfStream, producer, stream
<1>2. chan = <<>> /\ handed = <<>>
  BY <1>1 DEF IInv, Phases
<1>3. Types'
  BY <1>1 DEF IInv, Types
<1>4. Phases'
  BY <1>1, <1>2 DEF IInv, Phases, Due
<1>5. Counts'
  BY <1>1 DEF IInv, Counts, TickCount, SampleCount, WroteCount, Offered
<1> QED
  BY <1>3, <1>4, <1>5 DEF IInv

LEMMA WrittenKeeps == IInv /\ Written => IInv'
<1> SUFFICES ASSUME IInv, Written PROVE IInv'
  OBVIOUS
<1>n. /\ emitted \in Nat /\ late \in Nat /\ lost \in Nat /\ tick \in Nat
      /\ Len(stored) \in Nat /\ Len(batch) \in Nat /\ Len(handed) \in Nat
      /\ Len(chan) \in Nat /\ Len(offer) \in Nat
  BY AreNumbers
<1>1. /\ pipe \in {"writing", "lastWrite"}
      /\ stored' = stored \o batch /\ wrote' = wrote + Len(batch) /\ batch' = <<>>
      /\ pipe' = IF pipe = "writing" THEN "receiving" ELSE "returned"
      /\ UNCHANGED <<overflow, now, pc, tick, emitted, late, chan, offer, handed, flushed, before, lost, left>>
      /\ Types /\ Phases /\ TickCount /\ SampleCount /\ WroteCount
  BY DEF Written, Writing, producer, stream, IInv, Counts
<1>2. stored \in Seq(Numbers) /\ batch \in Seq(Numbers) /\ wrote \in Nat /\ before \in Nat
  BY <1>1 DEF Types
<1>3. /\ stored' \in Seq(Numbers) /\ batch' \in Seq(Numbers)
      /\ Len(stored') = Len(stored) + Len(batch) /\ Len(batch') = 0 /\ wrote' \in Nat
  BY <1>1, <1>2
<1>4. handed = <<>>
  BY <1>1 DEF Phases
<1>7. Types'
  BY <1>1, <1>3 DEF Types
<1>8. Phases'
  BY <1>1, <1>3, <1>4 DEF Phases, Due
<1>9. SampleCount'
  <2>1. Offered' = Offered /\ UNCHANGED <<handed, chan, offer, lost, emitted>>
    BY <1>1 DEF Offered
  <2>c. SampleCount
    BY <1>1
  <2> QED
    BY <2>c, <1>n, <1>3, <2>1, SMTT(30) DEF SampleCount
<1>10. WroteCount'
  <2>1. Len(stored) = before + wrote
    BY <1>1 DEF WroteCount
  <2> QED
    BY <1>1, <1>2, <1>n, <1>3, <2>1 DEF WroteCount
<1>11. TickCount'
  BY <1>1 DEF TickCount
<1> QED
  BY <1>7, <1>8, <1>9, <1>10, <1>11 DEF IInv, Counts

LEMMA PipeRaisesKeeps == IInv /\ PipeRaises => IInv'
<1> SUFFICES ASSUME IInv, PipeRaises PROVE IInv'
  OBVIOUS
<1>n. /\ emitted \in Nat /\ late \in Nat /\ lost \in Nat /\ tick \in Nat
      /\ Len(stored) \in Nat /\ Len(batch) \in Nat /\ Len(handed) \in Nat
      /\ Len(chan) \in Nat /\ Len(offer) \in Nat
  BY AreNumbers
<1>1. /\ handed = <<>> /\ batch' = <<>> /\ pipe' = "raised"
      /\ UNCHANGED <<overflow, now, pc, tick, emitted, late, chan, offer, handed, flushed, wrote, before, left>>
      /\ Types /\ Phases /\ TickCount /\ SampleCount /\ WroteCount
  BY DEF PipeRaises, producer, stream, IInv, Counts
<1>2. PICK k \in 0..Len(batch) : stored' = stored \o SubSeq(batch, 1, k) /\ lost' = lost + Len(batch) - k
  <2>1. PICK k \in 0..(IF Writing THEN Len(batch) ELSE 0) :
          stored' = stored \o SubSeq(batch, 1, k) /\ lost' = lost + Len(batch) - k
    BY DEF PipeRaises
  <2>2. k \in 0..Len(batch)
    BY <1>n
  <2> QED
    BY <2>1, <2>2
<1>3. stored \in Seq(Numbers) /\ batch \in Seq(Numbers)
  BY <1>1 DEF Types
<1>a. SubSeq(batch, 1, k) \in Seq(Numbers) /\ Len(SubSeq(batch, 1, k)) = k
  BY <1>3
<1>4. /\ stored' \in Seq(Numbers) /\ batch' \in Seq(Numbers)
      /\ Len(stored') = Len(stored) + k /\ Len(batch') = 0 /\ lost' \in Nat /\ lost' = lost + Len(batch) - k
  BY <1>1, <1>2, <1>3, <1>a, <1>n
<1>7. Types'
  BY <1>1, <1>4 DEF Types
<1>8. Phases'
  BY <1>1 DEF Phases, Due
<1>9. SampleCount'
  <2>1. Offered' = Offered /\ UNCHANGED <<handed, chan, offer, emitted>>
    BY <1>1 DEF Offered
  <2>c. SampleCount
    BY <1>1
  <2> QED
    BY <2>c, <1>n, <1>4, <2>1, SMTT(30) DEF SampleCount
<1>10. TickCount' /\ WroteCount'
  BY <1>1 DEF TickCount, WroteCount
<1> QED
  BY <1>7, <1>8, <1>9, <1>10 DEF IInv, Counts

LEMMA PipeAgainKeeps == IInv /\ PipeAgain => IInv'
<1> SUFFICES ASSUME IInv, PipeAgain PROVE IInv'
  OBVIOUS
<1>1. /\ pipe = "raised" /\ pipe' = "receiving"
      /\ wrote' = 0 /\ before' = Len(stored) /\ flushed' = now
      /\ UNCHANGED <<overflow, now, pc, tick, emitted, late, chan, offer, handed, batch, stored, lost, left>>
      /\ Types /\ Phases /\ Counts /\ Len(stored) \in Nat
  BY AreNumbers DEF PipeAgain, producer, stream, IInv
<1>2. Types'
  BY <1>1 DEF Types
<1>3. batch = <<>>
  BY <1>1 DEF Phases
<1>4. Phases'
  BY <1>1, <1>3 DEF Phases, Due
<1>5. Counts'
  BY <1>1 DEF Counts, TickCount, SampleCount, WroteCount, Offered
<1> QED
  BY <1>2, <1>4, <1>5 DEF IInv

LEMMA LeaveKeeps == IInv /\ Leave => IInv'
<1> SUFFICES ASSUME IInv, Leave PROVE IInv'
  OBVIOUS
<1>1. /\ left' = TRUE
      /\ UNCHANGED <<overflow, now, pc, tick, emitted, late, chan, offer, handed, pipe, batch, flushed,
                     wrote, stored, before, lost>>
  BY DEF Leave, producer, stream, consumer
<1>2. Types'
  BY <1>1 DEF IInv, Types
<1>3. Phases'
  BY <1>1 DEF IInv, Phases, Due
<1>4. Counts'
  BY <1>1 DEF IInv, Counts, TickCount, SampleCount, WroteCount, Offered
<1> QED
  BY <1>2, <1>3, <1>4 DEF IInv

LEMMA ClockKeeps == IInv /\ Clock => IInv'
<1> SUFFICES ASSUME IInv, Clock PROVE IInv'
  OBVIOUS
<1>1. /\ now < Horizon /\ now' = now + 1 /\ now \in Nat /\ tick \in Nat
      /\ UNCHANGED <<overflow, pc, tick, emitted, late, chan, offer, handed, pipe, batch, flushed,
                     wrote, stored, before, lost, left>>
  BY AreNumbers DEF Clock, producer, stream, consumer
<1>2. Types'
  BY <1>1 DEF IInv, Types
<1>3. Due'
  <2>1. tick * Period \in Nat
    BY <1>1
  <2> QED
    BY <1>1, <2>1 DEF IInv, Phases, Due
<1>4. Phases'
  BY <1>1, <1>3 DEF IInv, Phases
<1>5. Counts'
  BY <1>1 DEF IInv, Counts, TickCount, SampleCount, WroteCount, Offered
<1> QED
  BY <1>2, <1>4, <1>5 DEF IInv

LEMMA StutterKeeps == IInv /\ UNCHANGED vars => IInv'
<1> SUFFICES ASSUME IInv, UNCHANGED vars PROVE IInv'
  OBVIOUS
<1>1. UNCHANGED <<overflow, now, pc, tick, emitted, late, chan, offer, handed, pipe, batch, flushed,
                  wrote, stored, before, lost, left>>
  BY DEF vars, producer, stream, consumer
<1>2. Types'
  BY <1>1 DEF IInv, Types
<1>3. Phases'
  BY <1>1 DEF IInv, Phases, Due
<1>4. Counts'
  BY <1>1 DEF IInv, Counts, TickCount, SampleCount, WroteCount, Offered
<1> QED
  BY <1>2, <1>3, <1>4 DEF IInv

LEMMA NextKeeps == IInv /\ [Next]_vars => IInv'
BY WakeKeeps, PolledKeeps, SentKeeps, PollRaisesKeeps, StopKeeps, ReceiveKeeps, WaitKeeps,
   TakeHandedKeeps, EndOfStreamKeeps, WrittenKeeps, PipeRaisesKeeps, PipeAgainKeeps, LeaveKeeps,
   ClockKeeps, StutterKeeps
DEF Next, Produce, Consume

LEMMA Invariance == Spec => []IInv
BY InitHolds, NextKeeps, PTL DEF Spec


-----------------------------------------------------------------------------
(* The theorems about single states and single steps.                      *)

\* "samples_emitted + samples_late is the recorder target-count invariant" (docs/logging.md):
\* the producer's counters, the queues of the stream, pipe's buffer and the sink agree, and
\* a pipe that returned has drained them all, whatever the sizes, overflow and failures.
THEOREM AccountsBalance == Spec => []TicksAccounted
<1>1. IInv => TicksAccounted
  <2> SUFFICES ASSUME IInv PROVE TicksAccounted
    OBVIOUS
  <2>1. Types /\ Phases /\ TickCount /\ SampleCount /\ WroteCount
    BY DEF IInv, Counts
  <2>2. TypeOK
    BY <2>1, Zenon DEF Types, TypeOK
  <2>3. emitted + late = tick /\ (pc = "finished" => tick = Ticks)
    BY <2>1 DEF TickCount, Phases
  <2>4. /\ Flight \in Seq(Numbers)
        /\ Len(Flight) = Len(batch) + Len(handed) + Len(chan) + Len(offer)
    <3>1. batch \in Seq(Numbers) /\ handed \in Seq(Numbers) /\ chan \in Seq(Numbers) /\ offer \in Seq(Numbers)
      BY <2>1 DEF Types
    <3>2. batch \o handed \in Seq(Numbers) /\ Len(batch \o handed) = Len(batch) + Len(handed)
      BY <3>1
    <3>3. /\ (batch \o handed) \o chan \in Seq(Numbers)
          /\ Len((batch \o handed) \o chan) = Len(batch) + Len(handed) + Len(chan)
      BY <3>1, <3>2
    <3> QED
      BY <3>1, <3>3 DEF Flight
  <2>5. Len(stored) + Len(Flight) + lost = emitted + Offered
    BY <2>1, <2>4, AreNumbers DEF SampleCount
  <2>6. ASSUME pipe = "returned" PROVE Flight = <<>> /\ wrote = Len(stored) - before
    <3>1. batch = <<>> /\ handed = <<>> /\ chan = <<>> /\ offer = <<>>
      BY <2>1, <2>6 DEF Phases, Ended
    <3>2. Len(Flight) = 0
      BY <2>4, <3>1
    <3>3. Len(stored) = before + wrote
      BY <2>1, <2>6 DEF WroteCount
    <3>4. Len(stored) \in Nat /\ before \in Nat /\ wrote \in Nat
      BY AreNumbers
    <3> QED
      BY <2>4, <3>2, <3>3, <3>4
  <2> QED
    BY <2>2, <2>3, <2>5, <2>6 DEF TicksAccounted, Offered
<1> QED
  BY <1>1, Invariance, PTL

Skips ==
  /\ \A n \in (tick + 1)..(tick' - 1) : now >= (n + 1) * Period
  /\ pc' = "polling" => now >= tick' * Period
  /\ tick' # tick /\ pc' = "polling" => now <= (tick' + 1) * Period

LEMMA ScheduleSkips ==
  ASSUME IInv, pc \in {"polling", "sending"}, NEW counted \in Nat, Schedule(tick + 1, counted)
  PROVE  Skips
<1>1. tick + 1 \in 0..Ticks /\ now \in Nat /\ tick \in Nat
  BY DEF IInv, Types, Phases, Ended
<1>2. /\ tick' \in (tick + 1)..Ticks
      /\ pc' = "polling" => now >= tick' * Period
      /\ pc' = "polling" => now <= (tick' + 1) * Period
      /\ tick' # tick + 1 => tick' * Period <= now
  BY <1>1, ScheduleBounds
<1>3. ASSUME NEW n \in (tick + 1)..(tick' - 1) PROVE now >= (n + 1) * Period
  <2>a. tick \in Nat /\ tick' \in Nat
    BY <1>1, <1>2
  <2>1. n + 1 \in Nat /\ tick' \in Nat /\ n + 1 <= tick' /\ tick' # tick + 1
    <3>1. ASSUME NEW t \in Nat, NEW u \in Nat, NEW m \in (t + 1)..(u - 1)
          PROVE  m + 1 \in Nat /\ u \in Nat /\ m + 1 <= u /\ u # t + 1
      BY <3>1
    <3> QED
      BY <1>3, <2>a, <3>1
  <2>2. (n + 1) * Period <= tick' * Period
    BY <2>1, Monotone
  <2>3. (n + 1) * Period \in Nat /\ tick' * Period \in Nat
    BY <2>1
  <2> QED
    BY <1>1, <1>2, <2>1, <2>2, <2>3
<1> QED
  BY <1>2, <1>3 DEF Skips

\* A step that leaves the tick alone skips nothing.
LEMMA PassiveSkips ==
  ASSUME IInv, tick' = tick, pc' = "polling" => pc = "polling" \/ now >= tick * Period
  PROVE  Skips
<1>1. tick \in Nat
  BY DEF IInv, Types
<1>2. (tick + 1)..(tick' - 1) = {}
  BY <1>1
<1> QED
  BY <1>2 DEF Skips, IInv, Phases, Due

\* record()'s producer (_run_recorder) on absolute targets: it skips a slot only when the slot
\* is over, polls no tick before its target, and starts none that is over, for every period
\* and however long a poll, a blocked send or the event loop took.
THEOREM SlotsSkippedFairly == Spec => SkipsMissedSlots
<1>1. IInv /\ [Next]_vars => [Skips]_vars
  <2> SUFFICES ASSUME IInv, Next PROVE Skips
    OBVIOUS
  <2>1. CASE Polled
    <3>1. pc = "polling" /\ late \in Nat
      BY <2>1, AreNumbers DEF Polled
    <3>2. CASE Schedule(tick + 1, late)
      BY <3>1, <3>2, ScheduleSkips
    <3>3. CASE Schedule(tick + 1, late + 1)
      BY <3>1, <3>3, ScheduleSkips
    <3>4. CASE tick' = tick /\ pc' = "sending"
      BY <3>1, <3>4, PassiveSkips
    <3> QED
      BY <2>1, <3>2, <3>3, <3>4 DEF Polled
  <2>2. CASE Sent
    BY <2>2, AreNumbers, ScheduleSkips DEF Sent
  <2>3. CASE Wake \/ PollRaises \/ Stop
    BY <2>3, PassiveSkips DEF Wake, PollRaises, Stop
  <2>4. CASE Consume \/ PipeAgain \/ Leave \/ Clock
    <3>1. tick' = tick /\ pc' = pc
      BY <2>4 DEF Consume, Receive, Wait, TakeHanded, EndOfStream, Written, PipeRaises, PipeAgain,
                  Leave, Clock, producer
    <3> QED
      BY <3>1, PassiveSkips
  <2> QED
    BY <2>1, <2>2, <2>3, <2>4 DEF Next, Produce
<1> QED
  BY <1>1, Invariance, PTL DEF SkipsMissedSlots, Skips, Spec


-----------------------------------------------------------------------------
(* The refinement of SampleLog. First, sequences.                          *)

LEMMA SplitConcat ==
  ASSUME NEW S, NEW s \in Seq(S), NEW t \in Seq(S), NEW k \in 0..Len(s)
  PROVE  /\ SubSeq(s \o t, 1, k) = SubSeq(s, 1, k)
         /\ SubSeq(s \o t, Len(s) + 1, Len(s \o t)) = t
<1>1. /\ s \o t \in Seq(S) /\ Len(s \o t) = Len(s) + Len(t) /\ Len(s) \in Nat /\ Len(t) \in Nat
      /\ \A i \in 1..(Len(s) + Len(t)) : (s \o t)[i] = IF i <= Len(s) THEN s[i] ELSE t[i - Len(s)]
  BY ConcatProperties, LenProperties
<1>2. SubSeq(s \o t, 1, k) = SubSeq(s, 1, k)
  <2>1. /\ SubSeq(s \o t, 1, k) \in Seq(S) /\ Len(SubSeq(s \o t, 1, k)) = k
        /\ \A i \in 1..k : SubSeq(s \o t, 1, k)[i] = (s \o t)[i]
    BY <1>1
  <2>2. /\ SubSeq(s, 1, k) \in Seq(S) /\ Len(SubSeq(s, 1, k)) = k
        /\ \A i \in 1..k : SubSeq(s, 1, k)[i] = s[i]
    BY <1>1
  <2>3. \A i \in 1..k : (s \o t)[i] = s[i]
    BY <1>1
  <2> QED
    BY <2>1, <2>2, <2>3, SeqEqual
<1>3. SubSeq(s \o t, Len(s) + 1, Len(s \o t)) = t
  <2> DEFINE u == SubSeq(s \o t, Len(s) + 1, Len(s) + Len(t))
  <2>1. /\ u \in Seq(S) /\ Len(u) = Len(t)
        /\ \A i \in 1..Len(t) : u[i] = (s \o t)[Len(s) + i]
    BY <1>1
  <2> HIDE DEF u
  <2>2. \A i \in 1..Len(t) : (s \o t)[Len(s) + i] = t[i]
    BY <1>1
  <2>3. u = t
    BY <2>1, <2>2, SeqEqual
  <2> QED
    BY <1>1, <2>3 DEF u
<1> QED
  BY <1>2, <1>3

LEMMA AppendFront ==
  ASSUME NEW S, NEW s \in Seq(S), NEW e \in S
  PROVE  /\ SubSeq(Append(s, e), 1, Len(Append(s, e)) - 1) = s
         /\ Append(s, e)[Len(Append(s, e))] = e
<1>1. Append(s, e) = s \o <<e>> /\ Len(Append(s, e)) = Len(s) + 1 /\ <<e>> \in Seq(S)
      /\ Append(s, e)[Len(s) + 1] = e /\ Len(s) \in Nat
  BY AppendIsConcat, AppendProperties
<1>2. SubSeq(s \o <<e>>, 1, Len(s)) = SubSeq(s, 1, Len(s))
  BY <1>1, SplitConcat
<1>3. SubSeq(s, 1, Len(s)) = s
  BY SubSeqFull
<1> QED
  BY <1>1, <1>2, <1>3

LEMMA AppendConcat ==
  ASSUME NEW S, NEW s \in Seq(S), NEW t \in Seq(S), NEW e \in S
  PROVE  s \o Append(t, e) = Append(s \o t, e)
<1>1. Append(t, e) = t \o <<e>> /\ <<e>> \in Seq(S) /\ s \o t \in Seq(S)
  BY AppendIsConcat
<1>2. Append(s \o t, e) = (s \o t) \o <<e>>
  BY <1>1, AppendIsConcat
<1> QED
  BY <1>1, <1>2, ConcatAssociative

\* Moving the head of what follows to the end of what precedes.
LEMMA MoveHead ==
  ASSUME NEW S, NEW s \in Seq(S), NEW t \in Seq(S), t # <<>>
  PROVE  Append(s, Head(t)) \o Tail(t) = s \o t
<1>1. Head(t) \in S /\ Tail(t) \in Seq(S) /\ <<Head(t)>> \in Seq(S)
  BY HeadTailProperties
<1>2. t = <<Head(t)>> \o Tail(t)
  <2>1. /\ Len(Tail(t)) = Len(t) - 1 /\ Len(t) \in Nat \ {0}
        /\ \A i \in 1..Len(Tail(t)) : Tail(t)[i] = t[i + 1]
    BY HeadTailProperties, EmptySeq
  <2>2. /\ <<Head(t)>> \o Tail(t) \in Seq(S)
        /\ Len(<<Head(t)>> \o Tail(t)) = 1 + Len(Tail(t))
        /\ \A i \in 1..(1 + Len(Tail(t))) :
             (<<Head(t)>> \o Tail(t))[i] = IF i <= 1 THEN Head(t) ELSE Tail(t)[i - 1]
    BY <1>1, ConcatProperties
  <2>3. ASSUME NEW i \in 1..Len(t) PROVE t[i] = (<<Head(t)>> \o Tail(t))[i]
    <3>1. CASE i = 1
      BY <2>1, <2>2, <3>1
    <3>2. CASE i # 1
      <4>1. i - 1 \in 1..Len(Tail(t))
        BY <2>1, <2>3, <3>2
      <4> QED
        BY <2>1, <2>2, <3>2, <4>1
    <3> QED
      BY <3>1, <3>2
  <2> QED
    BY <2>1, <2>2, <2>3, SeqEqual
<1>3. Append(s, Head(t)) = s \o <<Head(t)>>
  BY <1>1, AppendIsConcat
<1>4. (s \o <<Head(t)>>) \o Tail(t) = s \o (<<Head(t)>> \o Tail(t))
  BY <1>1, ConcatAssociative
<1> QED
  BY <1>2, <1>3, <1>4


-----------------------------------------------------------------------------
(* The refinement, one action at a time.                                   *)

LEMMA FlightFacts ==
  ASSUME IInv
  PROVE  /\ batch \in Seq(Numbers) /\ handed \in Seq(Numbers) /\ chan \in Seq(Numbers)
         /\ offer \in Seq(Numbers) /\ stored \in Seq(Numbers)
         /\ batch \o handed \in Seq(Numbers) /\ (batch \o handed) \o chan \in Seq(Numbers)
         /\ Flight = ((batch \o handed) \o chan) \o offer
         /\ Flight \in Seq(Numbers)
<1>1. /\ batch \in Seq(Numbers) /\ handed \in Seq(Numbers) /\ chan \in Seq(Numbers)
      /\ offer \in Seq(Numbers) /\ stored \in Seq(Numbers)
  BY DEF IInv, Types
<1>2. batch \o handed \in Seq(Numbers)
  BY <1>1, ConcatProperties
<1>3. (batch \o handed) \o chan \in Seq(Numbers)
  BY <1>1, <1>2, ConcatProperties
<1>4. Flight = ((batch \o handed) \o chan) \o offer
  BY DEF Flight
<1>5. ((batch \o handed) \o chan) \o offer \in Seq(Numbers)
  BY <1>1, <1>3, ConcatProperties
<1> QED
  BY <1>1, <1>2, <1>3, <1>4, <1>5

LEMMA FlightSplit ==
  ASSUME IInv, handed = <<>>
  PROVE  Flight = batch \o (chan \o offer)
<1>1. batch \in Seq(Numbers) /\ chan \in Seq(Numbers) /\ offer \in Seq(Numbers)
  BY FlightFacts
<1>2. batch \o handed = batch
  BY <1>1, ConcatEmptySeq
<1>3. Flight = (batch \o chan) \o offer
  BY <1>2, FlightFacts
<1>4. (batch \o chan) \o offer = batch \o (chan \o offer)
  BY <1>1, ConcatAssociative, SMTT(30)
<1> QED
  BY <1>3, <1>4

LEMMA HasRoom ==
  ASSUME IInv, offer = <<>>
  PROVE  Len(Flight) < BatchSize + Capacity + 2
<1>a. /\ batch \in Seq(Numbers) /\ handed \in Seq(Numbers) /\ chan \in Seq(Numbers)
      /\ offer \in Seq(Numbers) /\ batch \o handed \in Seq(Numbers)
      /\ (batch \o handed) \o chan \in Seq(Numbers)
      /\ Flight = ((batch \o handed) \o chan) \o offer
  BY FlightFacts
<1>b. Len(batch \o handed) = Len(batch) + Len(handed)
  BY <1>a, ConcatProperties, SMTT(30)
<1>c. Len((batch \o handed) \o chan) = Len(batch \o handed) + Len(chan)
  BY <1>a, ConcatProperties, SMTT(30)
<1>d. Len(Flight) = Len((batch \o handed) \o chan) + Len(offer)
  BY <1>a, ConcatProperties, SMTT(30)
<1>1. Len(Flight) = ((Len(batch) + Len(handed)) + Len(chan)) + Len(offer)
  BY <1>b, <1>c, <1>d
<1>2. Len(offer) = 0
  OBVIOUS
<1>3. Len(batch) <= BatchSize /\ Len(handed) <= 1 /\ Len(chan) <= Capacity
  BY DEF IInv, Types
<1> QED
  BY <1>1, <1>2, <1>3, AreNumbers

LEMMA InitMaps == Init => Log!Init
<1> SUFFICES ASSUME Init PROVE Log!Init
  OBVIOUS
<1>1. Flight = ((<<>> \o <<>>) \o <<>>) \o <<>>
  BY DEF Init, Flight
<1>2. Flight = <<>>
  BY <1>1, ConcatEmptySeq, EmptySeq
<1> QED
  BY <1>2 DEF Init, Log!Init, Undecided

\* A step that SampleLog does not see.
LEMMA Unseen ==
  ASSUME Undecided' = Undecided, Flight' = Flight, stored' = stored
  PROVE  [Log!Next]_Log!vars
BY DEF Log!vars

LEMMA PolledMaps == IInv /\ Polled => [Log!Next]_Log!vars
<1> SUFFICES ASSUME IInv, Polled PROVE Log!Next
  OBVIOUS
<1>1. /\ pc = "polling" /\ offer = <<>> /\ tick \in Numbers /\ tick < Ticks /\ Undecided = tick
      /\ batch' = batch /\ stored' = stored /\ now \in Nat /\ late \in Nat
  BY AreNumbers DEF Polled, consumer, IInv, Types, Phases, Ended, Numbers, Undecided
<1>2. ASSUME NEW counted \in Nat, Schedule(tick + 1, counted)
      PROVE  Undecided' \in (tick + 1)..Ticks
  <2>1. tick + 1 \in 0..Ticks
    BY <1>1 DEF Numbers
  <2>2. tick' \in (tick + 1)..Ticks /\ pc' # "sending"
    BY <1>1, <1>2, <2>1, ScheduleBounds
  <2> QED
    BY <2>2 DEF Undecided
<1>3. tick \in Undecided..(Ticks - 1) /\ Len(Flight) < BatchSize + Capacity + 2
  BY <1>1, HasRoom DEF Numbers
<1>4. Flight = (batch \o handed) \o chan
  BY <1>1, FlightFacts, ConcatEmptySeq
<1>5. CASE Deliver(tick) /\ Schedule(tick + 1, late) /\ offer' = offer
  <2>1. Flight' = ((batch \o handed') \o chan') \o <<>>
    BY <1>1, <1>5 DEF Flight
  <2>2. Flight' = Append(Flight, tick)
    <3>1. CASE pipe = "waiting" /\ handed = <<>> /\ handed' = <<tick>> /\ chan' = chan
      <4>1. chan = <<>>
        BY <3>1 DEF IInv, Phases
      <4>2. Flight = batch
        BY <1>4, <3>1, <4>1, FlightFacts, ConcatEmptySeq
      <4>3. batch \o <<tick>> = Append(batch, tick) /\ batch \o <<tick>> \in Seq(Numbers)
        BY <1>1, FlightFacts, AppendIsConcat, AppendProperties
      <4>4. Flight' = batch \o <<tick>>
        BY <2>1, <3>1, <4>1, <4>3, ConcatEmptySeq
      <4> QED
        BY <4>2, <4>3, <4>4
    <3>2. CASE chan' = Append(chan, tick) /\ handed' = handed
      <4>1. (batch \o handed) \o Append(chan, tick) = Append((batch \o handed) \o chan, tick)
        <5>1. batch \o handed \in Seq(Numbers) /\ chan \in Seq(Numbers) /\ tick \in Numbers
          BY <1>1, FlightFacts
        <5> QED
          BY <5>1, AppendConcat
      <4>2. Append((batch \o handed) \o chan, tick) \in Seq(Numbers)
        BY <1>1, FlightFacts, AppendProperties
      <4> QED
        BY <1>4, <2>1, <3>2, <4>1, <4>2, ConcatEmptySeq
    <3> QED
      BY <1>5, <3>1, <3>2 DEF Deliver
  <2>3. Undecided' \in (tick + 1)..Ticks
    BY <1>1, <1>2, <1>5
  <2>4. Log!Take
    BY <1>1, <1>3, <2>2, <2>3 DEF Log!Take
  <2> QED
    BY <2>4 DEF Log!Next
<1>6. CASE offer' = <<tick>> /\ pc' = "sending" /\ UNCHANGED <<tick, emitted, late, chan, handed>>
  <2>1. Flight' = ((batch \o handed) \o chan) \o <<tick>>
    BY <1>1, <1>6 DEF Flight
  <2>2. Flight' = Append(Flight, tick)
    BY <1>1, <1>4, <2>1, FlightFacts, AppendIsConcat
  <2>3. Undecided' = tick + 1
    BY <1>6 DEF Undecided
  <2>4. Undecided' \in (tick + 1)..Ticks
    BY <1>1, <2>3 DEF Numbers
  <2>5. Log!Take
    BY <1>1, <1>3, <2>2, <2>4 DEF Log!Take
  <2> QED
    BY <2>5 DEF Log!Next
<1>7. CASE Schedule(tick + 1, late + 1) /\ UNCHANGED <<emitted, stream>>
  <2>1. Flight' = Flight
    BY <1>1, <1>7 DEF Flight, stream
  <2>2. Undecided' \in (tick + 1)..Ticks
    BY <1>1, <1>2, <1>7
  <2>3. Log!Skip
    BY <1>1, <2>1, <2>2 DEF Log!Skip
  <2> QED
    BY <2>3 DEF Log!Next
<1> QED
  BY <1>5, <1>6, <1>7 DEF Polled

LEMMA SentMaps == IInv /\ Sent => [Log!Next]_Log!vars
<1> SUFFICES ASSUME IInv, Sent PROVE [Log!Next]_Log!vars
  OBVIOUS
<1>1. /\ pc = "sending" /\ Schedule(tick + 1, late) /\ Undecided = tick + 1
      /\ UNCHANGED <<batch, handed, chan, offer, stored>>
      /\ tick < Ticks /\ tick \in Nat /\ now \in Nat /\ late \in Nat
  BY AreNumbers DEF Sent, stream, consumer, Undecided, IInv, Phases, Ended
<1>2. tick + 1 \in 0..Ticks
  BY <1>1
<1>3. tick' \in (tick + 1)..Ticks /\ pc' # "sending"
  BY <1>1, <1>2, ScheduleBounds
<1>4. Undecided' = tick' /\ Flight' = Flight
  BY <1>1, <1>3 DEF Undecided, Flight
<1>5. CASE tick' = tick + 1
  BY <1>1, <1>4, <1>5, Unseen
<1>6. CASE tick' # tick + 1
  <2>1. Undecided' \in (Undecided + 1)..Ticks
    BY <1>1, <1>3, <1>4, <1>6
  <2>2. Log!Skip
    BY <1>1, <1>4, <2>1 DEF Log!Skip
  <2> QED
    BY <2>2 DEF Log!Next
<1> QED
  BY <1>5, <1>6

LEMMA StopMaps == IInv /\ Stop => [Log!Next]_Log!vars
<1> SUFFICES ASSUME IInv, Stop PROVE [Log!Next]_Log!vars
  OBVIOUS
<1>1. /\ pc \in {"sleeping", "polling"} \/ (pc = "sending" /\ offer # <<>>)
      /\ pc' = "cancelled" /\ offer' = <<>>
      /\ UNCHANGED <<tick, chan, handed, batch, stored>>
  BY DEF Stop, consumer
<1>2. Undecided' = tick
  BY <1>1 DEF Undecided
<1> DEFINE rest == (batch \o handed) \o chan
<1>3. rest \in Seq(Numbers) /\ Flight' = rest
  <2>1. Flight' = ((batch \o handed) \o chan) \o <<>>
    BY <1>1 DEF Flight
  <2> QED
    BY <2>1, FlightFacts, ConcatEmptySeq
<1>4. CASE pc \in {"sleeping", "polling"}
  <2>1. offer = <<>>
    BY <1>4 DEF IInv, Phases
  <2>2. Flight' = Flight
    BY <1>3, <2>1, FlightFacts, ConcatEmptySeq
  <2> QED
    BY <1>1, <1>2, <1>4, <2>2, Unseen DEF Undecided
<1>5. CASE pc = "sending" /\ offer # <<>>
  <2>1. offer = <<tick>> /\ tick \in Numbers
    <3>1. offer = <<tick>> /\ offer \in Seq(Numbers)
      BY <1>5 DEF IInv, Phases, Types
    <3> QED
      BY <1>5, AreNumbers DEF IInv, Phases, Ended, Numbers
  <2>2. Flight = Append(rest, tick)
    BY <1>3, <2>1, FlightFacts, AppendIsConcat
  <2>3. /\ SubSeq(Flight, 1, Len(Flight) - 1) = rest
        /\ Flight[Len(Flight)] = tick /\ Flight # <<>>
    BY <1>3, <2>1, <2>2, AppendFront, AppendProperties
  <2>4. Log!Withdraw
    BY <1>1, <1>2, <1>3, <2>3 DEF Log!Withdraw
  <2> QED
    BY <2>4 DEF Log!Next
<1> QED
  BY <1>1, <1>4, <1>5

LEMMA ReceiveMaps == IInv /\ Receive => [Log!Next]_Log!vars
<1> SUFFICES ASSUME IInv, Receive PROVE [Log!Next]_Log!vars
  OBVIOUS
<1> DEFINE q == chan \o offer
<1>1. /\ pipe = "receiving" /\ q # <<>> /\ Collect(Head(q)) /\ chan' = Tail(q) /\ offer' = <<>>
      /\ UNCHANGED <<pc, tick, handed>>
  BY DEF Receive, producer
<1>2. handed = <<>>
  BY <1>1 DEF IInv, Phases
<1>3. q \in Seq(Numbers)
  BY FlightFacts, ConcatProperties
<1>4. Flight = batch \o q
  BY <1>2, FlightSplit
<1> HIDE DEF q
<1>5. batch' = Append(batch, Head(q)) /\ stored' = stored
  BY <1>1 DEF Collect
<1>6. Head(q) \in Numbers /\ Tail(q) \in Seq(Numbers) /\ Append(batch, Head(q)) \in Seq(Numbers)
  BY <1>1, <1>3, FlightFacts, HeadTailProperties, AppendProperties
<1>7. Flight' = ((Append(batch, Head(q)) \o <<>>) \o Tail(q)) \o <<>>
  BY <1>1, <1>2, <1>5 DEF Flight
<1>8. Append(batch, Head(q)) \o Tail(q) \in Seq(Numbers)
  BY <1>6, ConcatProperties
<1>9. Flight' = Append(batch, Head(q)) \o Tail(q)
  BY <1>6, <1>7, <1>8, ConcatEmptySeq
<1>10. Flight' = Flight
  BY <1>1, <1>3, <1>4, <1>9, FlightFacts, MoveHead
<1> QED
  BY <1>1, <1>5, <1>10, Unseen DEF Undecided

LEMMA TakeHandedMaps == IInv /\ TakeHanded => [Log!Next]_Log!vars
<1> SUFFICES ASSUME IInv, TakeHanded PROVE [Log!Next]_Log!vars
  OBVIOUS
<1>1. /\ handed # <<>> /\ Collect(handed[1]) /\ handed' = <<>>
      /\ UNCHANGED <<pc, tick, chan, offer>>
  BY DEF TakeHanded, producer
<1>2. batch' = Append(batch, handed[1]) /\ stored' = stored
  BY <1>1 DEF Collect
<1>3. handed[1] \in Numbers /\ Len(handed) = 1
  BY <1>1, FlightFacts, Single DEF IInv, Types
<1>4. handed = <<handed[1]>>
  BY <1>3, FlightFacts, SeqEqual
<1>5. batch' \o handed' = batch \o handed
  <2>1. Append(batch, handed[1]) = batch \o <<handed[1]>> /\ Append(batch, handed[1]) \in Seq(Numbers)
    BY <1>3, FlightFacts, AppendIsConcat, AppendProperties
  <2> QED
    BY <1>1, <1>2, <1>4, <2>1, ConcatEmptySeq
<1>6. Flight' = Flight
  BY <1>1, <1>5 DEF Flight
<1> QED
  BY <1>1, <1>2, <1>6, Unseen DEF Undecided

\* The oldest samples leave, and the first k of them reach the sink.
LEMMA BatchLeaves ==
  ASSUME IInv, handed = <<>>, batch' = <<>>, UNCHANGED <<pc, tick, chan, offer, handed>>,
         NEW k \in 0..Len(batch), stored' = stored \o SubSeq(batch, 1, k)
  PROVE  [Log!Next]_Log!vars
<1> DEFINE rest == chan \o offer
<1>1. rest \in Seq(Numbers)
  BY FlightFacts, ConcatProperties
<1>2. Flight = batch \o rest
  BY FlightSplit
<1>3. Flight' = rest
  <2>1. Flight' = ((<<>> \o <<>>) \o chan) \o offer
    BY DEF Flight
  <2>2. <<>> \o chan = chan /\ <<>> \o <<>> = <<>>
    BY FlightFacts, ConcatEmptySeq, EmptySeq
  <2> QED
    BY <2>1, <2>2
<1>4. Undecided' = Undecided
  BY DEF Undecided
<1> HIDE DEF rest
<1>5. CASE batch = <<>>
  <2>1. Flight' = Flight
    BY <1>1, <1>2, <1>3, <1>5, ConcatEmptySeq
  <2>2. SubSeq(batch, 1, k) = <<>>
    <3>1. k = 0
      BY <1>5
    <3> QED
      BY <3>1, SubSeqEmpty
  <2>3. stored' = stored
    BY <2>2, FlightFacts, ConcatEmptySeq
  <2> QED
    BY <1>4, <2>1, <2>3, Unseen
<1>6. CASE batch # <<>>
  <2>1. Len(batch) \in Nat \ {0}
    BY <1>6, FlightFacts, EmptySeq
  <2>2. Len(Flight) = Len(batch) + Len(rest) /\ Len(rest) \in Nat
    BY <1>1, <1>2, FlightFacts, ConcatProperties, LenProperties
  <2>3. Len(batch) \in 1..Len(Flight)
    BY <2>1, <2>2
  <2>4. SubSeq(Flight, 1, k) = SubSeq(batch, 1, k) /\ SubSeq(Flight, Len(batch) + 1, Len(Flight)) = rest
    BY <1>1, <1>2, FlightFacts, SplitConcat
  <2>5. Log!Leave
    BY <1>3, <1>4, <2>3, <2>4 DEF Log!Leave
  <2> QED
    BY <2>5 DEF Log!Next
<1> QED
  BY <1>5, <1>6

LEMMA WrittenMaps == IInv /\ Written => [Log!Next]_Log!vars
<1> SUFFICES ASSUME IInv, Written PROVE [Log!Next]_Log!vars
  OBVIOUS
<1>1. /\ pipe \in {"writing", "lastWrite"} /\ stored' = stored \o batch /\ batch' = <<>>
      /\ UNCHANGED <<pc, tick, chan, offer, handed>>
  BY DEF Written, Writing, producer, stream
<1>2. handed = <<>>
  BY <1>1 DEF IInv, Phases
<1>3. SubSeq(batch, 1, Len(batch)) = batch /\ Len(batch) \in 0..Len(batch)
  BY FlightFacts, SubSeqFull, AreNumbers
<1> QED
  BY <1>1, <1>2, <1>3, BatchLeaves

LEMMA PipeRaisesMaps == IInv /\ PipeRaises => [Log!Next]_Log!vars
<1> SUFFICES ASSUME IInv, PipeRaises PROVE [Log!Next]_Log!vars
  OBVIOUS
<1>1. handed = <<>> /\ batch' = <<>> /\ UNCHANGED <<pc, tick, chan, offer, handed>>
  BY DEF PipeRaises, producer, stream
<1>2. PICK k \in 0..(IF Writing THEN Len(batch) ELSE 0) : stored' = stored \o SubSeq(batch, 1, k)
  BY DEF PipeRaises
<1>3. k \in 0..Len(batch)
  BY AreNumbers
<1> QED
  BY <1>1, <1>2, <1>3, BatchLeaves

\* SampleLog is what record() and pipe() promise: samples reach the sink in the order of
\* their ticks, none twice and none after a failure lost it, and never more than the two
\* buffers, a hand-over and a blocked send are on their way; for every size of the buffers
\* and whatever fails.
THEOREM ImplementsSampleLog == Spec => StoresInOrder
<1>1. IInv /\ [Next]_vars => [Log!Next]_Log!vars
  <2> SUFFICES ASSUME IInv, [Next]_vars PROVE [Log!Next]_Log!vars
    OBVIOUS
  <2>1. CASE Wake \/ PollRaises
    <3>1. UNCHANGED <<tick, batch, handed, chan, offer, stored>> /\ pc # "sending" /\ pc' # "sending"
      BY <2>1 DEF Wake, PollRaises, stream, consumer
    <3> QED
      BY <3>1, Unseen DEF Undecided, Flight
  <2>2. CASE Wait \/ EndOfStream \/ PipeAgain \/ Leave \/ Clock \/ UNCHANGED vars
    <3>1. UNCHANGED <<pc, tick, batch, handed, chan, offer, stored>>
      BY <2>2 DEF Wait, EndOfStream, PipeAgain, Leave, Clock, vars, producer, stream, consumer
    <3> QED
      BY <3>1, Unseen DEF Undecided, Flight
  <2> QED
    BY <2>1, <2>2, PolledMaps, SentMaps, StopMaps, ReceiveMaps, TakeHandedMaps, WrittenMaps,
       PipeRaisesMaps
    DEF Next, Produce, Consume
<1>2. Spec => Log!Spec
  BY <1>1, InitMaps, Invariance, PTL DEF Spec, Log!Spec
<1> QED
  BY <1>2 DEF StoresInOrder
=============================================================================
