---------------------------- MODULE ClientProofs ----------------------------
(***************************************************************************)
(* The two protocol clients on their transports: what the runs of          *)
(* SbiAutoprint and XbpiLink check, for all values of their constants.     *)
(*                                                                         *)
(* SBI: lines wait in two places, the queue and the wire. The queue is not *)
(* in order, but it has one weight line at most, and that one is older     *)
(* than every line on the wire.                                            *)
(*                                                                         *)
(* xBPI (the module's second half): what is still to be read is in the     *)
(* order in which it was sent, behind the last reply and ahead of the      *)
(* requests that the device has not dealt with.                            *)
(***************************************************************************)
EXTENDS SbiAutoprint, XbpiLink, SequenceTheorems, TLAPS

Rising(w)   == \A i, j \in 1..Len(w) : i < j => w[i].seq < w[j].seq
Later(b, w) == \A j \in 1..Len(w) : b < w[j].seq
UpTo(w, s)  == \A j \in 1..Len(w) : w[j].seq <= s
Weights(p)  == {i \in 1..Len(p) : p[i].kind = "weight"}
Fresh(b, p) == \A i \in Weights(p) : b < p[i].seq

\* A task that reads is at the head of the lock, one that waits is in it.
LockInv ==
  \A t \in Tasks :
    /\ pc[t] = "reading" => lock # <<>> /\ lock[1] = t
    /\ pc[t] = "queued" => \E i \in 1..Len(lock) : lock[i] = t

\* What a task that reads may rely on, since it holds the lock.
ReadInv ==
  \A t \in Tasks : pc[t] = "reading" =>
    /\ op[t] = "refresh" => Weights(pending) = {}
    /\ op[t] = "stream" => pending = <<>>

WireInv == Rising(wire) /\ UpTo(wire, sent)

QueueInv ==
  \A i \in Weights(pending) :
    /\ flag
    /\ pending[i].seq <= sent
    /\ Later(pending[i].seq, wire)
    /\ Weights(pending) = {i}

\* The line b has been read: what may still be read as a weight line is newer.
Past(b) == b <= sent /\ Later(b, wire) /\ Fresh(b, pending)

PastInv ==
  /\ Past(read.seq)
  /\ \A t \in Streamers : Past(got[t]) /\ Past(held[t])
  /\ answer.seq <= sent /\ Later(answer.seq, wire)

\* A line is held back only between two reads of its stream.
Between(t) == pc[t] = "idle" \/ op[t] # "stream"
HeldInv ==
  \A t \in Streamers : held[t] # 0 => mode[t] = "in" /\ Between(t) /\ got[t] < held[t]

IInv == TypeOK /\ LockInv /\ ReadInv /\ WireInv /\ QueueInv /\ PastInv /\ HeldInv

InOrder ==
  /\ read' # read => read'.seq > read.seq
  /\ answer' # answer => answer'.seq > answer.seq
  /\ \A t \in Streamers : got'[t] # got[t] => got'[t] > got[t]

-----------------------------------------------------------------------------
(* Sequences of lines.                                                     *)

LEMMA LineFields ==
  ASSUME NEW l \in Lines
  PROVE  l.seq \in Nat /\ l.seq \in 0..MaxLines /\ l.kind \in Kinds /\ MaxLines \in Nat
BY AutoprintAssumption DEF Lines

LEMMA FirstLine ==
  ASSUME NEW w \in Seq(Lines), w # <<>>
  PROVE  /\ Head(w) \in Lines /\ Tail(w) \in Seq(Lines)
         /\ Rising(w) => Rising(Tail(w)) /\ Later(Head(w).seq, Tail(w))
         /\ \A b \in Nat : Later(b, w) => b < Head(w).seq /\ Later(b, Tail(w))
         /\ \A s \in Nat : UpTo(w, s) => Head(w).seq <= s /\ UpTo(Tail(w), s)
<1>1. /\ Head(w) \in Lines /\ Tail(w) \in Seq(Lines) /\ Len(w) \in Nat /\ Len(w) >= 1
      /\ Len(Tail(w)) = Len(w) - 1 /\ Head(w) = w[1]
      /\ \A i \in 1..Len(Tail(w)) : Tail(w)[i] = w[i + 1]
  BY HeadTailProperties, LenProperties, EmptySeq
<1>2. \A i \in 1..Len(Tail(w)) : i + 1 \in 1..Len(w) /\ 1 < i + 1 /\ Tail(w)[i] = w[i + 1]
  BY <1>1
<1>3. 1 \in 1..Len(w)
  BY <1>1
<1>4. ASSUME Rising(w) PROVE Rising(Tail(w)) /\ Later(Head(w).seq, Tail(w))
  <2>1. ASSUME NEW i \in 1..Len(Tail(w)), NEW j \in 1..Len(Tail(w)), i < j
        PROVE  Tail(w)[i].seq < Tail(w)[j].seq
    <3>1. i + 1 < j + 1
      BY <1>1, <2>1
    <3> QED
      BY <1>2, <1>4, <3>1 DEF Rising
  <2>2. ASSUME NEW i \in 1..Len(Tail(w)) PROVE Head(w).seq < Tail(w)[i].seq
    BY <1>1, <1>2, <1>3, <1>4 DEF Rising
  <2> QED
    BY <2>1, <2>2 DEF Rising, Later
<1>5. ASSUME NEW b \in Nat, Later(b, w) PROVE b < Head(w).seq /\ Later(b, Tail(w))
  BY <1>1, <1>2, <1>3, <1>5 DEF Later
<1>6. ASSUME NEW s \in Nat, UpTo(w, s) PROVE Head(w).seq <= s /\ UpTo(Tail(w), s)
  BY <1>1, <1>2, <1>3, <1>6 DEF UpTo
<1> QED
  BY <1>1, <1>4, <1>5, <1>6

LEMMA Suffix ==
  ASSUME NEW w \in Seq(Lines), NEW n \in 0..Len(w)
  PROVE  /\ SubSeq(w, n + 1, Len(w)) \in Seq(Lines)
         /\ Rising(w) => Rising(SubSeq(w, n + 1, Len(w)))
         /\ \A b \in Nat : Later(b, w) => Later(b, SubSeq(w, n + 1, Len(w)))
         /\ \A s \in Nat : UpTo(w, s) => UpTo(SubSeq(w, n + 1, Len(w)), s)
<1> DEFINE v == SubSeq(w, n + 1, Len(w))
<1>1. Len(w) \in Nat /\ n \in Nat /\ n <= Len(w) /\ n + 1 \in Int /\ Len(w) \in Int
  BY LenProperties
<1>2. \A i \in n + 1..Len(w) : w[i] \in Lines
  <2> SUFFICES ASSUME NEW i \in n + 1..Len(w) PROVE w[i] \in Lines
    OBVIOUS
  <2>1. i \in 1..Len(w)
    BY <1>1
  <2> QED
    BY <2>1, ElementOfSeq
<1>3. /\ v \in Seq(Lines)
      /\ Len(v) = IF n + 1 <= Len(w) THEN Len(w) - (n + 1) + 1 ELSE 0
      /\ \A i \in 1..Len(w) - (n + 1) + 1 : v[i] = w[n + 1 + i - 1]
  BY <1>1, <1>2, SubSeqProperties
<1> HIDE DEF v
<1>4. ASSUME NEW i \in 1..Len(v) PROVE i + n \in 1..Len(w) /\ v[i] = w[i + n]
  <2>1. i \in 1..Len(w) - (n + 1) + 1 /\ n + 1 + i - 1 = i + n /\ i + n \in 1..Len(w)
    BY <1>1, <1>3
  <2> QED
    BY <1>3, <2>1
<1>5. ASSUME Rising(w) PROVE Rising(v)
  <2> SUFFICES ASSUME NEW i \in 1..Len(v), NEW j \in 1..Len(v), i < j PROVE v[i].seq < v[j].seq
    BY DEF Rising
  <2>1. i + n < j + n
    BY <1>1
  <2> QED
    BY <1>4, <1>5, <2>1 DEF Rising
<1>6. ASSUME NEW b \in Nat, Later(b, w) PROVE Later(b, v)
  BY <1>4, <1>6 DEF Later
<1>7. ASSUME NEW s \in Nat, UpTo(w, s) PROVE UpTo(v, s)
  BY <1>4, <1>7 DEF UpTo
<1> QED
  BY <1>3, <1>5, <1>6, <1>7 DEF v

LEMMA AddLine ==
  ASSUME NEW w \in Seq(Lines), NEW l \in Lines, NEW s \in Nat, l.seq = s + 1, Rising(w), UpTo(w, s)
  PROVE  /\ Append(w, l) \in Seq(Lines) /\ Rising(Append(w, l)) /\ UpTo(Append(w, l), s + 1)
         /\ \A b \in Nat : b <= s /\ Later(b, w) => Later(b, Append(w, l))
<1> DEFINE v == Append(w, l)
<1>1. /\ v \in Seq(Lines) /\ Len(w) \in Nat /\ Len(v) = Len(w) + 1
      /\ (\A i \in 1..Len(w) : v[i] = w[i]) /\ v[Len(w) + 1] = l
  BY AppendProperties, LenProperties
<1> HIDE DEF v
<1>2. ASSUME NEW i \in 1..Len(v)
      PROVE  \/ i \in 1..Len(w) /\ v[i] = w[i]
             \/ i = Len(w) + 1 /\ v[i] = l
  <2>1. i \in 1..Len(w) \/ i = Len(w) + 1
    BY <1>1
  <2> QED
    BY <1>1, <2>1
<1>3. ASSUME NEW i \in 1..Len(w) PROVE w[i].seq \in Nat /\ w[i].seq <= s
  <2>1. w[i] \in Lines
    BY ElementOfSeq
  <2> QED
    BY <2>1, LineFields DEF UpTo
<1>4. Rising(v)
  <2> SUFFICES ASSUME NEW i \in 1..Len(v), NEW j \in 1..Len(v), i < j PROVE v[i].seq < v[j].seq
    BY DEF Rising
  <2>1. i \in 1..Len(w) /\ v[i] = w[i]
    BY <1>1
  <2>2. CASE j \in 1..Len(w) /\ v[j] = w[j]
    BY <2>1, <2>2 DEF Rising
  <2>3. CASE v[j] = l
    BY <1>3, <2>1, <2>3
  <2> QED
    BY <1>2, <2>2, <2>3
<1>5. UpTo(v, s + 1)
  <2> SUFFICES ASSUME NEW i \in 1..Len(v) PROVE v[i].seq <= s + 1
    BY DEF UpTo
  <2>1. CASE i \in 1..Len(w) /\ v[i] = w[i]
    BY <1>3, <2>1
  <2>2. CASE v[i] = l
    BY <2>2
  <2> QED
    BY <1>2, <2>1, <2>2
<1>6. ASSUME NEW b \in Nat, b <= s, Later(b, w) PROVE Later(b, v)
  <2> SUFFICES ASSUME NEW i \in 1..Len(v) PROVE b < v[i].seq
    BY DEF Later
  <2>1. CASE i \in 1..Len(w) /\ v[i] = w[i]
    BY <1>6, <2>1 DEF Later
  <2>2. CASE v[i] = l
    BY <1>6, <2>2
  <2> QED
    BY <1>2, <2>1, <2>2
<1> QED
  BY <1>1, <1>4, <1>5, <1>6 DEF v

\* The weight lines of the queue when its first line is taken, or one is put there.
LEMMA TakeQueued ==
  ASSUME NEW p \in Seq(Lines), p # <<>>, \A i \in Weights(p) : Weights(p) = {i}
  PROVE  /\ Head(p) \in Lines /\ Tail(p) \in Seq(Lines)
         /\ Head(p).kind = "weight" => 1 \in Weights(p) /\ p[1] = Head(p) /\ Weights(Tail(p)) = {}
         /\ \A i \in Weights(Tail(p)) : /\ i + 1 \in Weights(p) /\ Tail(p)[i] = p[i + 1]
                                        /\ Weights(Tail(p)) = {i}
<1>1. /\ Head(p) \in Lines /\ Tail(p) \in Seq(Lines) /\ Len(p) \in Nat /\ Len(p) >= 1
      /\ Len(Tail(p)) = Len(p) - 1 /\ Head(p) = p[1]
      /\ \A i \in 1..Len(Tail(p)) : Tail(p)[i] = p[i + 1]
  BY HeadTailProperties, LenProperties, EmptySeq
<1>2. ASSUME NEW i \in Weights(Tail(p)) PROVE i \in Nat /\ i >= 1 /\ i + 1 \in Weights(p) /\ Tail(p)[i] = p[i + 1]
  <2>1. i \in 1..Len(Tail(p)) /\ Tail(p)[i].kind = "weight"
    BY DEF Weights
  <2>2. i \in Nat /\ i >= 1 /\ i + 1 \in 1..Len(p) /\ Tail(p)[i] = p[i + 1]
    BY <1>1, <2>1
  <2> QED
    BY <2>1, <2>2 DEF Weights
<1>3. ASSUME NEW i \in Weights(Tail(p)), NEW j \in Weights(Tail(p)) PROVE i = j
  <2>1. i \in Nat /\ j \in Nat /\ i + 1 \in Weights(p) /\ j + 1 \in Weights(p)
    BY <1>2
  <2>2. i + 1 = j + 1
    BY <2>1
  <2> QED
    BY <2>1, <2>2
<1>4. ASSUME Head(p).kind = "weight" PROVE 1 \in Weights(p) /\ p[1] = Head(p) /\ Weights(Tail(p)) = {}
  <2>1. 1 \in Weights(p) /\ p[1] = Head(p)
    BY <1>1, <1>4 DEF Weights
  <2>2. ASSUME NEW i \in Weights(Tail(p)) PROVE FALSE
    <3>1. i \in Nat /\ i >= 1 /\ i + 1 \in Weights(p)
      BY <1>2
    <3>2. i + 1 = 1
      BY <2>1, <3>1
    <3> QED
      BY <3>1, <3>2
  <2> QED
    BY <2>1, <2>2
<1>5. Head(p).kind = "weight" => 1 \in Weights(p) /\ p[1] = Head(p) /\ Weights(Tail(p)) = {}
  BY <1>4
<1>6. \A i \in Weights(Tail(p)) : /\ i + 1 \in Weights(p) /\ Tail(p)[i] = p[i + 1]
                                  /\ Weights(Tail(p)) = {i}
  BY <1>2, <1>3
<1> QED
  BY <1>1, <1>5, <1>6

LEMMA PutFirst ==
  ASSUME NEW p \in Seq(Lines), NEW l \in Lines, Weights(p) = {}
  PROVE  /\ <<l>> \o p \in Seq(Lines)
         /\ \A i \in Weights(<<l>> \o p) : (<<l>> \o p)[i] = l /\ Weights(<<l>> \o p) = {i}
<1> DEFINE q == <<l>> \o p
<1>1. <<l>> \in Seq(Lines) /\ Len(<<l>>) = 1 /\ <<l>>[1] = l /\ Len(p) \in Nat
  BY LenProperties
<1>2. q \in Seq(Lines) /\ Len(q) = 1 + Len(p)
      /\ \A i \in 1..1 + Len(p) : q[i] = IF i <= 1 THEN <<l>>[i] ELSE p[i - 1]
  BY <1>1, ConcatProperties
<1> HIDE DEF q
<1>3. ASSUME NEW i \in Weights(q) PROVE i = 1
  <2>1. i \in 1..1 + Len(p) /\ q[i].kind = "weight"
    BY <1>2 DEF Weights
  <2>2. CASE ~(i <= 1)
    <3>1. i - 1 \in 1..Len(p) /\ q[i] = p[i - 1]
      BY <1>1, <1>2, <2>1, <2>2
    <3> QED
      BY <2>1, <3>1 DEF Weights
  <2> QED
    BY <1>1, <2>1, <2>2
<1>4. q[1] = l
  <2>1. 1 \in 1..1 + Len(p)
    BY <1>1
  <2> QED
    BY <1>1, <1>2, <2>1
<1> QED
  BY <1>2, <1>3, <1>4 DEF q

LEMMA PutLast ==
  ASSUME NEW p \in Seq(Lines), NEW l \in Lines, Weights(p) = {}
  PROVE  /\ Append(p, l) \in Seq(Lines)
         /\ \A i \in Weights(Append(p, l)) : /\ Append(p, l)[i] = l /\ l.kind = "weight"
                                             /\ Weights(Append(p, l)) = {i}
<1> DEFINE q == Append(p, l)
<1>1. /\ q \in Seq(Lines) /\ Len(p) \in Nat /\ Len(q) = Len(p) + 1
      /\ (\A i \in 1..Len(p) : q[i] = p[i]) /\ q[Len(p) + 1] = l
  BY AppendProperties, LenProperties
<1> HIDE DEF q
<1>2. ASSUME NEW i \in Weights(q) PROVE i = Len(p) + 1 /\ q[i].kind = "weight"
  <2>1. i \in 1..Len(q) /\ q[i].kind = "weight"
    BY DEF Weights
  <2>2. i \in 1..Len(p) \/ i = Len(p) + 1
    BY <1>1, <2>1
  <2>3. CASE i \in 1..Len(p)
    BY <1>1, <2>1, <2>3 DEF Weights
  <2> QED
    BY <2>1, <2>2, <2>3
<1> QED
  BY <1>1, <1>2 DEF q

-----------------------------------------------------------------------------
(* The lock.                                                               *)

LEMMA JoinLock ==
  ASSUME TypeOK, LockInv, ReadInv, NEW t \in Tasks, NEW o \in Ops, Queue(t, o)
  PROVE  /\ pc[t] = "idle" /\ pc' \in [Tasks -> {"idle", "queued", "reading"}]
         /\ op' \in [Tasks -> Ops] /\ lock' \in Seq(Tasks)
         /\ pc'[t] = "queued" /\ op'[t] = o
         /\ \A u \in Tasks : u # t => pc'[u] = pc[u] /\ op'[u] = op[u]
         /\ LockInv' /\ ReadInv'
<1>1. /\ pc[t] = "idle" /\ pc' = [pc EXCEPT ![t] = "queued"] /\ op' = [op EXCEPT ![t] = o]
      /\ lock' = Append(lock, t) /\ pending' = pending
      /\ pc \in [Tasks -> {"idle", "queued", "reading"}] /\ op \in [Tasks -> Ops] /\ lock \in Seq(Tasks)
  BY DEF Queue, TypeOK
<1>2. /\ lock' \in Seq(Tasks) /\ Len(lock) \in Nat /\ Len(lock') = Len(lock) + 1
      /\ (\A i \in 1..Len(lock) : lock'[i] = lock[i]) /\ lock'[Len(lock) + 1] = t
  BY <1>1, AppendProperties, LenProperties
<1>3. Len(lock) + 1 \in 1..Len(lock') /\ lock' # <<>> /\ \A i \in 1..Len(lock) : i \in 1..Len(lock')
  <2>1. lock' # <<>>
    BY <1>1, AppendProperties
  <2> QED
    BY <1>2, <2>1
<1>4. ASSUME NEW u \in Tasks
      PROVE  /\ u = t => pc'[u] = "queued" /\ op'[u] = o
             /\ u # t => pc'[u] = pc[u] /\ op'[u] = op[u]
  BY <1>1
<1>5. LockInv'
  <2> SUFFICES ASSUME NEW u \in Tasks
               PROVE  /\ pc'[u] = "reading" => lock' # <<>> /\ lock'[1] = u
                      /\ pc'[u] = "queued" => \E i \in 1..Len(lock') : lock'[i] = u
    BY DEF LockInv
  <2>1. ASSUME pc'[u] = "reading" PROVE lock' # <<>> /\ lock'[1] = u
    <3>1. lock # <<>> /\ lock[1] = u
      BY <1>4, <2>1 DEF LockInv
    <3>2. 1 \in 1..Len(lock)
      BY <1>1, <3>1, EmptySeq
    <3> QED
      BY <1>2, <1>3, <3>1, <3>2
  <2>2. ASSUME pc'[u] = "queued" PROVE \E i \in 1..Len(lock') : lock'[i] = u
    <3>1. CASE u = t
      BY <1>2, <1>3, <3>1
    <3>2. CASE u # t
      <4>1. PICK i \in 1..Len(lock) : lock[i] = u
        BY <1>4, <2>2, <3>2 DEF LockInv
      <4> QED
        BY <1>2, <1>3, <4>1
    <3> QED
      BY <3>1, <3>2
  <2> QED
    BY <2>1, <2>2
<1>6. ReadInv'
  BY <1>1, <1>4 DEF ReadInv
<1> QED
  BY <1>1, <1>2, <1>4, <1>5, <1>6

LEMMA LeaveLock ==
  ASSUME TypeOK, LockInv, NEW t \in Tasks, lock # <<>>, lock[1] = t, Return(t) \/ ReadAgain(t)
  PROVE  /\ pc' \in [Tasks -> {"idle", "queued", "reading"}] /\ lock' \in Seq(Tasks)
         /\ \A u \in Tasks : pc'[u] # "reading" /\ (u # t => pc'[u] = pc[u])
         /\ Return(t) => pc'[t] = "idle"
         /\ LockInv' /\ ReadInv'
<1>1. /\ pc \in [Tasks -> {"idle", "queued", "reading"}] /\ lock \in Seq(Tasks)
      /\ \/ pc' = [pc EXCEPT ![t] = "idle"] /\ lock' = Tail(lock)
         \/ pc' = [pc EXCEPT ![t] = "queued"] /\ lock' = Append(Tail(lock), t)
  BY DEF TypeOK, Return, ReadAgain
<1>2. /\ Tail(lock) \in Seq(Tasks) /\ Len(lock) \in Nat /\ Len(Tail(lock)) \in Nat
      /\ Len(Tail(lock)) = Len(lock) - 1
      /\ \A i \in 1..Len(Tail(lock)) : Tail(lock)[i] = lock[i + 1]
  BY <1>1, HeadTailProperties, LenProperties
<1>3. /\ Append(Tail(lock), t) \in Seq(Tasks) /\ Len(Append(Tail(lock), t)) = Len(Tail(lock)) + 1
      /\ \A i \in 1..Len(Tail(lock)) : Append(Tail(lock), t)[i] = Tail(lock)[i]
      /\ Append(Tail(lock), t)[Len(Tail(lock)) + 1] = t
  BY <1>2, AppendProperties
<1>4. ASSUME NEW u \in Tasks
      PROVE  /\ pc'[u] # "reading" /\ (u # t => pc'[u] = pc[u])
             /\ u = t /\ pc'[u] = "queued" => lock' = Append(Tail(lock), t)
    BY <1>1 DEF LockInv
<1>5. lock' \in Seq(Tasks)
  BY <1>1, <1>2, <1>3
<1>6. LockInv'
  <2> SUFFICES ASSUME NEW u \in Tasks, pc'[u] = "queued"
               PROVE  \E i \in 1..Len(lock') : lock'[i] = u
    BY <1>4 DEF LockInv
  <2>1. CASE u = t
    <3>1. lock' = Append(Tail(lock), t)
      BY <1>4, <2>1
    <3>2. Len(Tail(lock)) + 1 \in 1..Len(lock')
      BY <1>2, <1>3, <3>1
    <3> QED
      BY <1>3, <2>1, <3>1, <3>2
  <2>2. CASE u # t
    <3>1. PICK i \in 1..Len(lock) : lock[i] = u
      BY <1>4, <2>2 DEF LockInv
    <3>2. i # 1
      BY <2>2, <3>1
    <3>3. i - 1 \in 1..Len(Tail(lock)) /\ (i - 1) + 1 = i
      BY <1>2, <3>2
    <3>4. Tail(lock)[i - 1] = u
      BY <1>2, <3>1, <3>3
    <3>5. i - 1 \in 1..Len(lock') /\ lock'[i - 1] = u
      <4>1. CASE lock' = Tail(lock)
        BY <3>3, <3>4, <4>1
      <4>2. CASE lock' = Append(Tail(lock), t)
        BY <1>2, <1>3, <3>3, <3>4, <4>2
      <4> QED
        BY <1>1, <4>1, <4>2
    <3> QED
      BY <3>5
  <2> QED
    BY <2>1, <2>2
<1>7. Return(t) => pc'[t] = "idle"
  BY <1>1 DEF Return
<1>8. ReadInv'
  BY <1>4 DEF ReadInv
<1> QED
  BY <1>1, <1>4, <1>5, <1>6, <1>7, <1>8

-----------------------------------------------------------------------------
(* A stream read takes a line.                                             *)

\* Who is handed line l, and what stays held.
LEMMA Handed ==
  ASSUME IInv, NEW t \in Tasks, NEW l \in Lines, pc[t] # "idle", op[t] = "stream", op' = op,
         \/ UNCHANGED stream
         \/ EnterFails(t)
         \/ l.kind = "weight" /\ Gives(t, l) /\ pc'[t] = "idle",
         \A u \in Tasks : u # t => pc'[u] = pc[u]
  PROVE  /\ mode' \in [Streamers -> {"out", "entering", "in"}]
         /\ held' \in [Streamers -> 0..MaxLines] /\ got' \in [Streamers -> 0..MaxLines]
         /\ \A u \in Streamers :
              /\ got'[u] \in {got[u], l.seq} /\ held'[u] \in {held[u], l.seq}
              /\ got'[u] # got[u] \/ held'[u] # held[u] => l.kind = "weight"
              /\ held'[u] # 0 =>
                   /\ mode'[u] = "in" /\ Between(u)'
                   /\ got'[u] = got[u]
                   /\ held'[u] = held[u] \/ (held'[u] = l.seq /\ l.kind = "weight")
<1>1. /\ mode \in [Streamers -> {"out", "entering", "in"}]
      /\ held \in [Streamers -> 0..MaxLines] /\ got \in [Streamers -> 0..MaxLines]
      /\ Streamers \subseteq Tasks /\ l.seq \in 0..MaxLines
  BY LineFields, AutoprintAssumption DEF IInv, TypeOK
<1>2. ASSUME NEW u \in Streamers, held[u] # 0 PROVE mode[u] = "in" /\ u # t /\ Between(u)'
  <2>1. mode[u] = "in" /\ Between(u)
    BY <1>2 DEF IInv, HeldInv
  <2>2. u # t
    BY <2>1 DEF Between
  <2> QED
    BY <1>1, <2>1, <2>2 DEF Between
<1>3. CASE UNCHANGED stream
  <2>1. mode' = mode /\ held' = held /\ got' = got
    BY <1>3 DEF stream
  <2> QED
    BY <1>1, <1>2, <2>1
<1>4. CASE EnterFails(t)
  <2>1. /\ held' = held /\ got' = got
        /\ mode' = mode \/ (t \in Streamers /\ mode' = [mode EXCEPT ![t] = "out"])
    BY <1>4 DEF EnterFails, Streams
  <2>2. mode' \in [Streamers -> {"out", "entering", "in"}] /\ \A u \in Streamers : u # t => mode'[u] = mode[u]
    BY <1>1, <2>1
  <2> QED
    BY <1>1, <1>2, <2>1, <2>2
<1>5. CASE l.kind = "weight" /\ Gives(t, l) /\ pc'[t] = "idle"
  <2>1. CASE ~Streams(t)
    BY <1>3, <1>5, <2>1 DEF Gives
  <2>2. CASE Streams(t) /\ mode[t] = "entering"
    <3>1. /\ t \in Streamers /\ mode' = [mode EXCEPT ![t] = "in"] /\ held' = [held EXCEPT ![t] = l.seq] /\ got' = got
      BY <1>5, <2>2 DEF Gives, Streams
    <3>2. mode' \in [Streamers -> {"out", "entering", "in"}] /\ held' \in [Streamers -> 0..MaxLines]
      BY <1>1, <3>1
    <3>3. ASSUME NEW u \in Streamers, u # t PROVE mode'[u] = mode[u] /\ held'[u] = held[u]
      BY <1>1, <3>1, <3>3
    <3>4. mode'[t] = "in" /\ held'[t] = l.seq
      BY <1>1, <3>1
    <3>5. Between(t)'
      BY <1>5 DEF Between
    <3> QED
      BY <1>1, <1>2, <1>5, <3>1, <3>2, <3>3, <3>4, <3>5
  <2>3. CASE Streams(t) /\ mode[t] # "entering"
    <3>1. t \in Streamers /\ got' = [got EXCEPT ![t] = l.seq] /\ mode' = mode /\ held' = held
      BY <1>5, <2>3 DEF Gives, Streams
    <3>2. got' \in [Streamers -> 0..MaxLines] /\ got'[t] = l.seq
      BY <1>1, <3>1
    <3>3. ASSUME NEW u \in Streamers, u # t PROVE got'[u] = got[u]
      BY <1>1, <3>1, <3>3
    <3>4. held'[t] = 0
      BY <1>1, <1>2, <3>1
    <3> QED
      BY <1>1, <1>2, <1>5, <3>1, <3>2, <3>3, <3>4
  <2> QED
    BY <2>1, <2>2, <2>3
<1> QED
  BY <1>3, <1>4, <1>5

\* What a stream read does, wherever its line came from.
LEMMA StreamEffect ==
  ASSUME IInv, NEW t \in Tasks, lock # <<>>, lock[1] = t, pc[t] # "idle",
         NEW l \in Lines, NEW rest \in Seq(Lines), StreamTakes(t, l, rest)
  PROVE  /\ wire' = rest \/ \E n \in 0..Len(rest) : wire' = SubSeq(rest, n + 1, Len(rest))
         /\ UNCHANGED <<op, asked, sent, printing, answer>>
         /\ \/ l.kind = "weight" /\ read' = l /\ flag' = TRUE
            \/ l.kind # "weight" /\ UNCHANGED <<read, flag>>
         /\ Return(t) \/ ReadAgain(t)
         /\ \/ UNCHANGED stream
            \/ EnterFails(t)
            \/ l.kind = "weight" /\ Gives(t, l) /\ pc'[t] = "idle"
<1>0. l.kind \in {"weight", "status", "text", "garbled"}
  BY LineFields DEF Kinds
<1>k. Return(t) => pc'[t] = "idle"
  BY LeaveLock DEF IInv
<1>1. UNCHANGED <<op, asked, sent, printing, answer>>
  BY DEF StreamTakes
<1>2. CASE l.kind = "weight"
  <2>1. read' = l /\ flag' = TRUE /\ Return(t) /\ wire' = rest /\ Gives(t, l)
    BY <1>2 DEF StreamTakes
  <2> QED
    BY <1>1, <1>2, <1>k, <2>1
<1>3. CASE l.kind \in {"text", "status"}
  <2>1. /\ wire' = rest /\ UNCHANGED <<read, flag>>
        /\ (ReadAgain(t) /\ UNCHANGED stream) \/ (Return(t) /\ EnterFails(t))
    BY <1>3 DEF StreamTakes
  <2> QED
    BY <1>1, <1>3, <2>1
<1>4. CASE l.kind = "garbled"
  <2>1. /\ Drain(rest) /\ UNCHANGED <<read, flag>>
        /\ (ReadAgain(t) /\ UNCHANGED stream) \/ (Return(t) /\ EnterFails(t))
    BY <1>4 DEF StreamTakes
  <2> QED
    BY <1>1, <1>4, <2>1 DEF Drain
<1> QED
  BY <1>0, <1>2, <1>3, <1>4

LEMMA Naturals0 ==
  ASSUME IInv
  PROVE  /\ sent \in Nat /\ read.seq \in Nat /\ answer.seq \in Nat /\ MaxLines \in Nat
         /\ \A u \in Streamers : got[u] \in Nat /\ held[u] \in Nat
<1>1. MaxLines \in Nat
  BY AutoprintAssumption
<1>2. sent \in 0..MaxLines /\ read \in Lines /\ answer \in Lines
      /\ held \in [Streamers -> 0..MaxLines] /\ got \in [Streamers -> 0..MaxLines]
  BY DEF IInv, TypeOK
<1> QED
  BY <1>1, <1>2, LineFields

LEMMA Supplied ==
  ASSUME IInv, NEW t \in Tasks, lock # <<>>, lock[1] = t, pc[t] # "idle", op[t] = "stream",
         NEW l \in Lines, NEW rest \in Seq(Lines), StreamTakes(t, l, rest),
         Rising(wire'), UpTo(wire', sent), wire' \in Seq(Lines),
         \A b \in Nat : Later(b, wire) => Later(b, wire'),
         pending' \in Seq(Lines), QueueInv',
         \A b \in Nat : Fresh(b, pending) => Fresh(b, pending'),
         l.kind = "weight" =>
           /\ l.seq <= sent /\ Later(l.seq, wire') /\ Fresh(l.seq, pending')
           /\ \A b \in Nat : Past(b) => b < l.seq
  PROVE  IInv' /\ InOrder
<1>1. /\ UNCHANGED <<op, asked, sent, printing, answer>>
      /\ \/ l.kind = "weight" /\ read' = l /\ flag' = TRUE
         \/ l.kind # "weight" /\ UNCHANGED <<read, flag>>
      /\ Return(t) \/ ReadAgain(t)
      /\ \/ UNCHANGED stream
         \/ EnterFails(t)
         \/ l.kind = "weight" /\ Gives(t, l) /\ pc'[t] = "idle"
  BY StreamEffect
<1>2. /\ pc' \in [Tasks -> {"idle", "queued", "reading"}] /\ lock' \in Seq(Tasks)
      /\ \A u \in Tasks : u # t => pc'[u] = pc[u]
      /\ LockInv' /\ ReadInv'
  BY <1>1, LeaveLock DEF IInv
<1>3. /\ mode' \in [Streamers -> {"out", "entering", "in"}]
      /\ held' \in [Streamers -> 0..MaxLines] /\ got' \in [Streamers -> 0..MaxLines]
      /\ \A u \in Streamers :
           /\ got'[u] \in {got[u], l.seq} /\ held'[u] \in {held[u], l.seq}
           /\ got'[u] # got[u] \/ held'[u] # held[u] => l.kind = "weight"
           /\ held'[u] # 0 =>
                /\ mode'[u] = "in" /\ Between(u)'
                /\ got'[u] = got[u]
                /\ held'[u] = held[u] \/ (held'[u] = l.seq /\ l.kind = "weight")
  BY <1>1, <1>2, Handed
<1>4. /\ sent \in Nat /\ read.seq \in Nat /\ answer.seq \in Nat /\ l.seq \in Nat
      /\ \A u \in Streamers : got[u] \in Nat /\ held[u] \in Nat
  BY Naturals0, LineFields
<1>5. TypeOK'
  <2>1. read' \in Lines /\ flag' \in BOOLEAN
    BY <1>1 DEF IInv, TypeOK
  <2> QED
    BY <1>1, <1>2, <1>3, <2>1 DEF IInv, TypeOK
<1>6. WireInv'
  BY <1>1 DEF WireInv
<1>7. ASSUME NEW b \in Nat, Past(b) PROVE Past(b)'
  BY <1>1, <1>7 DEF Past
<1>8. l.kind = "weight" => Past(l.seq)'
  BY <1>1 DEF Past
<1>9. PastInv'
  <2>1. Past(read.seq)'
    <3>1. CASE l.kind = "weight" /\ read' = l
      BY <1>1, <3>1 DEF Past
    <3>2. CASE UNCHANGED read
      <4>1. Past(read.seq)
        BY DEF IInv, PastInv
      <4> QED
        BY <1>1, <1>4, <3>2, <4>1 DEF Past
    <3> QED
      BY <1>1, <3>1, <3>2
  <2>2. ASSUME NEW u \in Streamers PROVE Past(got[u])' /\ Past(held[u])'
    <3>1. Past(got[u]) /\ Past(held[u])
      BY DEF IInv, PastInv
    <3>2. got[u] <= sent /\ Later(got[u], wire') /\ Fresh(got[u], pending')
      BY <1>4, <3>1 DEF Past
    <3>3. held[u] <= sent /\ Later(held[u], wire') /\ Fresh(held[u], pending')
      BY <1>4, <3>1 DEF Past
    <3>4. got'[u] <= sent /\ Later(got'[u], wire') /\ Fresh(got'[u], pending')
      BY <1>3, <3>2
    <3>5. held'[u] <= sent /\ Later(held'[u], wire') /\ Fresh(held'[u], pending')
      BY <1>3, <3>3
    <3> QED
      BY <1>1, <3>4, <3>5 DEF Past
  <2>3. answer.seq <= sent /\ Later(answer.seq, wire)
    BY DEF IInv, PastInv
  <2> QED
    BY <1>1, <1>4, <2>1, <2>2, <2>3 DEF PastInv
<1>10. HeldInv'
  <2> SUFFICES ASSUME NEW u \in Streamers, held'[u] # 0
               PROVE  mode'[u] = "in" /\ Between(u)' /\ got'[u] < held'[u]
    BY DEF HeldInv
  <2>1. got'[u] = got[u] /\ Past(got[u]) /\ mode'[u] = "in" /\ Between(u)'
    BY <1>3 DEF IInv, PastInv
  <2>2. CASE held'[u] = held[u]
    BY <2>1, <2>2 DEF IInv, HeldInv
  <2>3. CASE held'[u] = l.seq /\ l.kind = "weight"
    BY <1>4, <2>1, <2>3
  <2> QED
    BY <1>3, <2>2, <2>3
<1>11. InOrder
  <2>1. read' # read => read'.seq > read.seq
    <3>1. Past(read.seq)
      BY DEF IInv, PastInv
    <3> QED
      BY <1>1, <1>4, <3>1
  <2>2. ASSUME NEW u \in Streamers, got'[u] # got[u] PROVE got'[u] > got[u]
    <3>1. Past(got[u]) /\ l.kind = "weight" /\ got'[u] = l.seq
      BY <1>3, <2>2 DEF IInv, PastInv
    <3> QED
      BY <1>4, <3>1
  <2> QED
    BY <1>1, <2>1, <2>2 DEF InOrder
<1> QED
  BY <1>2, <1>5, <1>6, <1>9, <1>10, <1>11 DEF IInv

\* What is left on the wire of the lines behind the one that was read.
LEMMA WireLeft ==
  ASSUME IInv, NEW rest \in Seq(Lines), Rising(rest), UpTo(rest, sent),
         wire' = rest \/ \E n \in 0..Len(rest) : wire' = SubSeq(rest, n + 1, Len(rest))
  PROVE  /\ wire' \in Seq(Lines) /\ Rising(wire') /\ UpTo(wire', sent)
         /\ \A b \in Nat : Later(b, rest) => Later(b, wire')
<1>1. CASE wire' = rest
  BY <1>1
<1>2. ASSUME NEW n \in 0..Len(rest), wire' = SubSeq(rest, n + 1, Len(rest))
      PROVE  /\ wire' \in Seq(Lines) /\ Rising(wire') /\ UpTo(wire', sent)
             /\ \A b \in Nat : Later(b, rest) => Later(b, wire')
  <2>1. sent \in Nat
    BY Naturals0
  <2> QED
    BY <1>2, <2>1, Suffix
<1> QED
  BY <1>1, <1>2

LEMMA StartQueued ==
  ASSUME IInv, NEW t \in Tasks, pc[t] = "queued", op[t] = "stream", lock # <<>>, lock[1] = t, pending # <<>>,
         StreamTakes(t, Head(pending), wire), pending' = Tail(pending)
  PROVE  IInv' /\ InOrder
<1> DEFINE l == Head(pending)
<1>1. pending \in Seq(Lines) /\ wire \in Seq(Lines) /\ sent \in Nat
  BY Naturals0 DEF IInv, TypeOK
<1>2. \A i \in Weights(pending) : Weights(pending) = {i}
  BY DEF IInv, QueueInv
<1>3. /\ l \in Lines /\ pending' \in Seq(Lines)
      /\ l.kind = "weight" => 1 \in Weights(pending) /\ pending[1] = l /\ Weights(pending') = {}
      /\ \A i \in Weights(pending') : /\ i + 1 \in Weights(pending) /\ pending'[i] = pending[i + 1]
                                      /\ Weights(pending') = {i}
  BY <1>1, <1>2, TakeQueued
<1> HIDE DEF l
<1>4. StreamTakes(t, l, wire)
  BY DEF l
<1>5. /\ wire' = wire \/ \E n \in 0..Len(wire) : wire' = SubSeq(wire, n + 1, Len(wire))
      /\ sent' = sent
      /\ flag' = TRUE \/ flag' = flag
  BY <1>1, <1>3, <1>4, StreamEffect
<1>6. /\ wire' \in Seq(Lines) /\ Rising(wire') /\ UpTo(wire', sent)
      /\ \A b \in Nat : Later(b, wire) => Later(b, wire')
  <2>1. Rising(wire) /\ UpTo(wire, sent)
    BY DEF IInv, WireInv
  <2> QED
    BY <1>1, <1>5, <2>1, WireLeft
<1>7. QueueInv'
  <2> SUFFICES ASSUME NEW i \in Weights(pending')
               PROVE  flag' /\ pending'[i].seq <= sent' /\ Later(pending'[i].seq, wire') /\ Weights(pending') = {i}
    BY DEF QueueInv
  <2>1. i + 1 \in Weights(pending) /\ pending'[i] = pending[i + 1] /\ Weights(pending') = {i}
    BY <1>3
  <2>2. flag /\ pending[i + 1].seq <= sent /\ Later(pending[i + 1].seq, wire)
    BY <2>1 DEF IInv, QueueInv
  <2>3. pending[i + 1].seq \in Nat
    <3>1. i + 1 \in 1..Len(pending)
      BY <2>1 DEF Weights
    <3> QED
      BY <1>1, <3>1, ElementOfSeq, LineFields
  <2> QED
    BY <1>5, <1>6, <2>1, <2>2, <2>3
<1>8. ASSUME NEW b \in Nat, Fresh(b, pending) PROVE Fresh(b, pending')
  BY <1>3, <1>8 DEF Fresh
<1>9. ASSUME l.kind = "weight"
      PROVE  /\ l.seq <= sent /\ Later(l.seq, wire') /\ Fresh(l.seq, pending')
             /\ \A b \in Nat : Past(b) => b < l.seq
  <2>1. 1 \in Weights(pending) /\ pending[1] = l /\ Weights(pending') = {}
    BY <1>3, <1>9
  <2>2. l.seq <= sent /\ Later(l.seq, wire) /\ l.seq \in Nat
    BY <1>3, <2>1, LineFields DEF IInv, QueueInv
  <2> QED
    BY <1>6, <2>1, <2>2 DEF Past, Fresh
<1> QED
  BY <1>1, <1>3, <1>4, <1>6, <1>7, <1>8, <1>9, Supplied

\* What is known of the line that a task reads from the wire.
LEMMA Reads ==
  ASSUME IInv, wire # <<>>
  PROVE  /\ Head(wire) \in Lines /\ Tail(wire) \in Seq(Lines) /\ Head(wire).seq \in Nat /\ sent \in Nat
         /\ Rising(Tail(wire)) /\ UpTo(Tail(wire), sent)
         /\ Later(Head(wire).seq, Tail(wire)) /\ Head(wire).seq <= sent
         /\ \A b \in Nat : Later(b, wire) => b < Head(wire).seq /\ Later(b, Tail(wire))
<1>1. wire \in Seq(Lines) /\ Rising(wire) /\ UpTo(wire, sent) /\ sent \in Nat
  BY Naturals0 DEF IInv, TypeOK, WireInv
<1>2. /\ Head(wire) \in Lines /\ Tail(wire) \in Seq(Lines)
      /\ Rising(Tail(wire)) /\ Later(Head(wire).seq, Tail(wire))
      /\ \A b \in Nat : Later(b, wire) => b < Head(wire).seq /\ Later(b, Tail(wire))
      /\ Head(wire).seq <= sent /\ UpTo(Tail(wire), sent)
  BY <1>1, FirstLine
<1> QED
  BY <1>1, <1>2, LineFields

LEMMA StreamReads ==
  ASSUME IInv, NEW t \in Tasks, pc[t] = "reading", op[t] = "stream", lock # <<>>, lock[1] = t, wire # <<>>,
         StreamTakes(t, Head(wire), Tail(wire)), pending' = pending
  PROVE  IInv' /\ InOrder
<1> DEFINE l    == Head(wire)
           rest == Tail(wire)
<1>1. /\ l \in Lines /\ rest \in Seq(Lines) /\ l.seq \in Nat /\ sent \in Nat
      /\ Rising(rest) /\ UpTo(rest, sent) /\ Later(l.seq, rest) /\ l.seq <= sent
      /\ \A b \in Nat : Later(b, wire) => b < l.seq /\ Later(b, rest)
      /\ StreamTakes(t, l, rest)
  BY Reads
<1> HIDE DEF l, rest
<1>2. wire' = rest \/ \E n \in 0..Len(rest) : wire' = SubSeq(rest, n + 1, Len(rest))
  BY <1>1, StreamEffect
<1>3. /\ wire' \in Seq(Lines) /\ Rising(wire') /\ UpTo(wire', sent)
      /\ \A b \in Nat : Later(b, rest) => Later(b, wire')
  BY <1>1, <1>2, WireLeft
<1>4. pending = <<>> /\ Weights(pending') = {} /\ pending' \in Seq(Lines)
  <2>1. pending = <<>>
    BY DEF IInv, ReadInv
  <2> QED
    BY <2>1, EmptySeq DEF Weights
<1>5. QueueInv' /\ \A b \in Nat : Fresh(b, pending')
  BY <1>4 DEF QueueInv, Fresh
<1>6. ASSUME NEW b \in Nat, Past(b) PROVE b < l.seq
  BY <1>1, <1>6 DEF Past
<1> QED
  BY <1>1, <1>3, <1>4, <1>5, <1>6, Supplied

-----------------------------------------------------------------------------
(* The other steps hand no line to a stream.                               *)

LEMMA PastZero ==
  ASSUME NEW b \in Nat, NEW w \in Seq(Lines), NEW p \in Seq(Lines), Later(b, w), Fresh(b, p)
  PROVE  Later(0, w) /\ Fresh(0, p)
<1>1. ASSUME NEW i \in 1..Len(w) PROVE 0 < w[i].seq
  <2>1. w[i].seq \in Nat /\ b < w[i].seq
    BY ElementOfSeq, LineFields DEF Later
  <2> QED
    BY <2>1
<1>2. ASSUME NEW i \in Weights(p) PROVE 0 < p[i].seq
  <2>1. i \in 1..Len(p)
    BY DEF Weights
  <2>2. p[i].seq \in Nat /\ b < p[i].seq
    BY <2>1, ElementOfSeq, LineFields DEF Fresh
  <2> QED
    BY <2>2
<1> QED
  BY <1>1, <1>2 DEF Later, Fresh

LEMMA NothingHanded ==
  ASSUME IInv, TypeOK', LockInv', ReadInv', WireInv', QueueInv',
         sent <= sent', read' = read, got' = got,
         \A u \in Streamers : held'[u] \in {held[u], 0},
         \/ answer' = answer
         \/ answer'.seq > answer.seq /\ answer'.seq <= sent' /\ Later(answer'.seq, wire'),
         \A b \in Nat : b <= sent /\ Later(b, wire) => Later(b, wire'),
         \A b \in Nat : Past(b) => Fresh(b, pending'),
         \A u \in Streamers : held'[u] # 0 => mode'[u] = "in" /\ Between(u)'
  PROVE  IInv' /\ InOrder
<1>1. /\ sent \in Nat /\ read.seq \in Nat /\ answer.seq \in Nat
      /\ \A u \in Streamers : got[u] \in Nat /\ held[u] \in Nat
  BY Naturals0
<1>2. sent' \in Nat /\ wire' \in Seq(Lines) /\ pending' \in Seq(Lines)
  BY Naturals0 DEF TypeOK
<1>3. ASSUME NEW b \in Nat, Past(b) PROVE b <= sent' /\ Later(b, wire') /\ Fresh(b, pending')
  BY <1>1, <1>2, <1>3 DEF Past
<1>4. Past(read.seq)'
  BY <1>1, <1>3 DEF IInv, PastInv, Past
<1>5. ASSUME NEW u \in Streamers PROVE Past(got[u])' /\ Past(held[u])'
  <2>1. got[u] \in Nat /\ held[u] \in Nat /\ Past(got[u]) /\ Past(held[u])
    BY <1>1 DEF IInv, PastInv
  <2>2. got[u] <= sent' /\ Later(got[u], wire') /\ Fresh(got[u], pending')
    BY <1>3, <2>1
  <2>3. held[u] <= sent' /\ Later(held[u], wire') /\ Fresh(held[u], pending')
    BY <1>3, <2>1
  <2>4. 0 <= sent' /\ Later(0, wire') /\ Fresh(0, pending')
    BY <1>2, <2>1, <2>2, PastZero
  <2>5. held'[u] <= sent' /\ Later(held'[u], wire') /\ Fresh(held'[u], pending')
    BY <2>3, <2>4
  <2> QED
    BY <2>2, <2>5 DEF Past
<1>6. answer'.seq <= sent' /\ Later(answer'.seq, wire')
  <2>1. answer.seq <= sent /\ Later(answer.seq, wire)
    BY DEF IInv, PastInv
  <2> QED
    BY <1>1, <1>2, <2>1
<1>7. PastInv'
  BY <1>4, <1>5, <1>6 DEF PastInv
<1>8. HeldInv'
  BY DEF IInv, HeldInv
<1>9. InOrder
  BY DEF InOrder
<1> QED
  BY <1>7, <1>8, <1>9 DEF IInv

\* A call joins the lock.
LEMMA JoinKeeps ==
  ASSUME IInv, NEW t \in Tasks, NEW o \in Ops, Queue(t, o), mode' \in [Streamers -> {"out", "entering",
         "in"}],
         \A u \in Streamers : u # t => mode'[u] = mode[u],
         t \in Streamers /\ held[t] # 0 => mode'[t] = "in" /\ o # "stream"
  PROVE  IInv' /\ InOrder
<1>1. UNCHANGED <<flag, pending, wire, asked, sent, printing, read, answer, held, got>>
  BY DEF Queue
<1>2. /\ pc[t] = "idle" /\ pc' \in [Tasks -> {"idle", "queued", "reading"}]
      /\ op' \in [Tasks -> Ops] /\ lock' \in Seq(Tasks)
      /\ pc'[t] = "queued" /\ op'[t] = o
      /\ \A u \in Tasks : u # t => pc'[u] = pc[u] /\ op'[u] = op[u]
      /\ LockInv' /\ ReadInv'
  BY JoinLock DEF IInv
<1>3. TypeOK'
  BY <1>1, <1>2 DEF IInv, TypeOK
<1>4. WireInv' /\ QueueInv'
  BY <1>1 DEF IInv, WireInv, QueueInv
<1>5. ASSUME NEW u \in Streamers, held'[u] # 0 PROVE mode'[u] = "in" /\ Between(u)'
  <2>1. u \in Tasks /\ mode[u] = "in" /\ Between(u)
    BY <1>1, <1>5, AutoprintAssumption DEF IInv, HeldInv
  <2>2. CASE u = t
    BY <1>1, <1>2, <1>5, <2>2 DEF Between
  <2>3. CASE u # t
    BY <1>2, <2>1, <2>3 DEF Between
  <2> QED
    BY <2>2, <2>3
<1>6. sent <= sent' /\ \A b \in Nat : Past(b) => Fresh(b, pending')
  BY <1>1, Naturals0 DEF Past
<1> QED
  BY <1>1, <1>2, <1>3, <1>4, <1>5, <1>6, NothingHanded

LEMMA CallsKeep ==
  ASSUME IInv, NEW t \in Tasks,
         \/ Poll(t) \/ Identify(t) \/ Refresh(t)
         \/ t \in Streamers /\ (Enter(t) \/ Iterate(t))
  PROVE  IInv' /\ InOrder
<1>1. mode \in [Streamers -> {"out", "entering", "in"}]
  BY DEF IInv, TypeOK
<1>2. ASSUME t \in Streamers, held[t] # 0 PROVE mode[t] = "in"
  BY <1>2 DEF IInv, HeldInv
<1>3. CASE Poll(t)
  <2>1. PICK o \in Ops : Queue(t, o) /\ mode' = mode /\ ~Streams(t)
    BY <1>3 DEF Poll, Ops
  <2>2. t \in Streamers => held[t] = 0
    BY <1>2, <2>1 DEF Streams
  <2> QED
    BY <1>1, <2>1, <2>2, JoinKeeps
<1>4. CASE Identify(t) \/ Refresh(t)
  <2>1. PICK o \in Ops : Queue(t, o) /\ mode' = mode /\ o # "stream"
    BY <1>4 DEF Identify, Refresh, Ops
  <2> QED
    BY <1>1, <1>2, <2>1, JoinKeeps
<1>5. CASE t \in Streamers /\ Enter(t)
  <2>1. Queue(t, "stream") /\ mode' = [mode EXCEPT ![t] = "entering"] /\ mode[t] = "out"
    BY <1>5 DEF Enter
  <2>2. "stream" \in Ops /\ held[t] = 0
    BY <1>2, <1>5, <2>1 DEF Ops
  <2> QED
    BY <1>1, <1>5, <2>1, <2>2, JoinKeeps
<1>6. CASE t \in Streamers /\ Iterate(t)
  <2>1. Queue(t, "stream") /\ mode' = mode /\ held[t] = 0 /\ "stream" \in Ops
    BY <1>6 DEF Iterate, Ops
  <2> QED
    BY <1>1, <2>1, JoinKeeps
<1> QED
  BY <1>3, <1>4, <1>5, <1>6

LEMMA HandKeeps ==
  ASSUME IInv, NEW t \in Streamers, Hand(t)
  PROVE  IInv' /\ InOrder
<1>1. /\ mode[t] = "in" /\ pc[t] = "idle" /\ held[t] # 0
      /\ got' = [got EXCEPT ![t] = held[t]] /\ held' = [held EXCEPT ![t] = 0]
      /\ UNCHANGED <<pc, op, lock, flag, pending, wire, asked, sent, printing, read, answer, mode>>
      /\ held \in [Streamers -> 0..MaxLines] /\ got \in [Streamers -> 0..MaxLines] /\ 0 \in 0..MaxLines
      /\ wire \in Seq(Lines) /\ pending \in Seq(Lines)
  BY Naturals0 DEF Hand, IInv, TypeOK
<1>2. /\ held' \in [Streamers -> 0..MaxLines] /\ got' \in [Streamers -> 0..MaxLines]
      /\ got'[t] = held[t] /\ held'[t] = 0
      /\ \A u \in Streamers : u # t => got'[u] = got[u] /\ held'[u] = held[u]
  BY <1>1
<1>3. TypeOK'
  BY <1>1, <1>2 DEF IInv, TypeOK
<1>4. LockInv' /\ ReadInv' /\ WireInv' /\ QueueInv'
  BY <1>1 DEF IInv, LockInv, ReadInv, WireInv, QueueInv
<1>5. PastInv'
  <2>1. ASSUME NEW b, Past(b) PROVE Past(b)'
    BY <1>1, <2>1 DEF Past
  <2>2. ASSUME NEW u \in Streamers
        PROVE  got'[u] <= sent /\ Later(got'[u], wire) /\ Fresh(got'[u], pending)
               /\ held'[u] <= sent /\ Later(held'[u], wire) /\ Fresh(held'[u], pending)
    <3>1. /\ got[u] <= sent /\ Later(got[u], wire) /\ Fresh(got[u], pending)
          /\ held[u] <= sent /\ Later(held[u], wire) /\ Fresh(held[u], pending)
          /\ got[u] \in Nat /\ sent \in Nat
      BY Naturals0 DEF IInv, PastInv, Past
    <3>2. 0 <= sent /\ Later(0, wire) /\ Fresh(0, pending)
      BY <1>1, <3>1, PastZero
    <3> QED
      BY <1>2, <3>1, <3>2
  <2>3. Past(read.seq) /\ answer.seq <= sent /\ Later(answer.seq, wire)
    BY DEF IInv, PastInv
  <2> QED
    BY <1>1, <2>2, <2>3 DEF PastInv, Past
<1>6. HeldInv'
  BY <1>1, <1>2 DEF IInv, HeldInv, Between
<1>7. InOrder
  <2>1. got[t] < held[t] /\ got[t] \in Nat /\ held[t] \in Nat
    BY <1>1, Naturals0 DEF IInv, HeldInv
  <2> QED
    BY <1>1, <1>2, <2>1 DEF InOrder
<1> QED
  BY <1>3, <1>4, <1>5, <1>6, <1>7 DEF IInv

LEMMA LeaveKeeps ==
  ASSUME IInv, NEW t \in Streamers, Leave(t)
  PROVE  IInv' /\ InOrder
<1>1. /\ mode' = [mode EXCEPT ![t] = "out"] /\ held' = [held EXCEPT ![t] = 0]
      /\ UNCHANGED <<pc, op, lock, flag, pending, wire, asked, sent, printing, read, answer, got>>
      /\ held \in [Streamers -> 0..MaxLines] /\ mode \in [Streamers -> {"out", "entering", "in"}]
      /\ 0 \in 0..MaxLines /\ sent \in Nat
  BY Naturals0 DEF Leave, IInv, TypeOK
<1>2. /\ held' \in [Streamers -> 0..MaxLines] /\ mode' \in [Streamers -> {"out", "entering", "in"}]
      /\ held'[t] = 0
      /\ \A u \in Streamers : u # t => mode'[u] = mode[u] /\ held'[u] = held[u]
  BY <1>1
<1>3. TypeOK'
  BY <1>1, <1>2 DEF IInv, TypeOK
<1>4. LockInv' /\ ReadInv' /\ WireInv' /\ QueueInv'
  BY <1>1 DEF IInv, LockInv, ReadInv, WireInv, QueueInv
<1>5. ASSUME NEW u \in Streamers, held'[u] # 0 PROVE mode'[u] = "in" /\ Between(u)'
  BY <1>1, <1>2, <1>5 DEF IInv, HeldInv, Between
<1>6. \A u \in Streamers : held'[u] \in {held[u], 0}
  BY <1>2
<1> QED
  BY <1>1, <1>3, <1>4, <1>5, <1>6, NothingHanded DEF Past

\* A call ends that is not a stream read with a line.
LEMMA ReturnKeeps ==
  ASSUME IInv, NEW t \in Tasks, lock # <<>>, lock[1] = t, Return(t),
         UNCHANGED <<op, asked, sent, printing, read>>, UNCHANGED stream \/ EnterFails(t),
         flag' \in BOOLEAN, pending' \in Seq(Lines), wire' \in Seq(Lines), answer' \in Lines,
         Rising(wire'), UpTo(wire', sent),
         \A b \in Nat : Later(b, wire) => Later(b, wire'),
         \A b \in Nat : Past(b) => Fresh(b, pending'),
         QueueInv',
         \/ answer' = answer
         \/ answer'.seq > answer.seq /\ answer'.seq <= sent /\ Later(answer'.seq, wire')
  PROVE  IInv' /\ InOrder
<1>1. /\ pc' \in [Tasks -> {"idle", "queued", "reading"}] /\ lock' \in Seq(Tasks) /\ pc'[t] = "idle"
      /\ \A u \in Tasks : u # t => pc'[u] = pc[u]
      /\ LockInv' /\ ReadInv'
  BY LeaveLock DEF IInv
<1>2. /\ held' = held /\ got' = got
      /\ mode' = mode \/ (t \in Streamers /\ mode[t] = "entering" /\ mode' = [mode EXCEPT ![t] = "out"])
  BY DEF EnterFails, Streams, stream
<1>3. mode \in [Streamers -> {"out", "entering", "in"}]
  BY DEF IInv, TypeOK
<1>4. /\ mode' \in [Streamers -> {"out", "entering", "in"}]
      /\ \A u \in Streamers : mode[u] = "in" => mode'[u] = "in"
  BY <1>2, <1>3
<1>5. TypeOK'
  BY <1>1, <1>2, <1>4 DEF IInv, TypeOK
<1>6. WireInv'
  BY DEF WireInv
<1>7. ASSUME NEW u \in Streamers, held'[u] # 0 PROVE mode'[u] = "in" /\ Between(u)'
  <2>1. u \in Tasks /\ mode[u] = "in" /\ Between(u)
    BY <1>2, <1>7, AutoprintAssumption DEF IInv, HeldInv
  <2> QED
    BY <1>1, <1>4, <2>1 DEF Between
<1>8. sent <= sent' /\ \A u \in Streamers : held'[u] \in {held[u], 0}
  BY <1>2, Naturals0
<1> QED
  BY <1>1, <1>2, <1>5, <1>6, <1>7, <1>8, NothingHanded

LEMMA AtHead ==
  ASSUME IInv, NEW t \in Tasks, pc[t] = "reading"
  PROVE  /\ lock # <<>> /\ lock[1] = t
         /\ \A u \in Tasks : pc[u] = "reading" => u = t
BY DEF IInv, LockInv

LEMMA TimeoutKeeps ==
  ASSUME IInv, NEW t \in Tasks, Timeout(t)
  PROVE  IInv' /\ InOrder
<1>1. /\ pc[t] = "reading" /\ Return(t) /\ EnterFails(t)
      /\ UNCHANGED <<op, flag, pending, wire, asked, sent, printing, read, answer>>
  BY DEF Timeout
<1>2. lock # <<>> /\ lock[1] = t
  BY <1>1, AtHead
<1>3. /\ flag' \in BOOLEAN /\ pending' \in Seq(Lines) /\ wire' \in Seq(Lines) /\ answer' \in Lines
      /\ Rising(wire') /\ UpTo(wire', sent) /\ QueueInv'
  BY <1>1 DEF IInv, TypeOK, WireInv, QueueInv
<1>4. /\ \A b \in Nat : Later(b, wire) => Later(b, wire')
      /\ \A b \in Nat : Past(b) => Fresh(b, pending')
  BY <1>1 DEF Past
<1> QED
  BY <1>1, <1>2, <1>3, <1>4, ReturnKeeps

LEMMA BeginKeeps ==
  ASSUME IInv, NEW t \in Tasks, pc[t] = "queued", lock # <<>>, lock[1] = t,
         op[t] = "stream" => pending = <<>>,
         Begin(t, IF Refreshes(t) THEN <<>> ELSE pending, flag /\ ~Refreshes(t))
  PROVE  IInv' /\ InOrder
<1>1. /\ pc' = [pc EXCEPT ![t] = "reading"]
      /\ asked' \in {asked, Append(asked, "weight"), Append(asked, "text")}
      /\ UNCHANGED <<op, lock, wire, sent, printing, read, answer, stream>>
      /\ pc \in [Tasks -> {"idle", "queued", "reading"}] /\ asked \in Seq({"weight", "text"})
      /\ flag \in BOOLEAN /\ pending \in Seq(Lines)
  BY DEF Begin, IInv, TypeOK
<1>2. /\ pc' \in [Tasks -> {"idle", "queued", "reading"}] /\ pc'[t] = "reading"
      /\ \A u \in Tasks : u # t => pc'[u] = pc[u]
  BY <1>1
<1>3. asked' \in Seq({"weight", "text"})
  <2>1. ASSUME NEW S, NEW e \in S, asked \in Seq(S), asked' = Append(asked, e) PROVE asked' \in Seq(S)
    BY <2>1, AppendProperties
  <2>2. "weight" \in {"weight", "text"} /\ "text" \in {"weight", "text"}
    OBVIOUS
  <2> QED
    BY <1>1, <2>1, <2>2
<1>4. \/ op[t] = "refresh" /\ pending' = <<>> /\ flag' = FALSE
      \/ op[t] # "refresh" /\ pending' = pending /\ flag' = flag
  <2>1. pending' = (IF op[t] = "refresh" THEN <<>> ELSE pending) /\ flag' = (flag /\ op[t] # "refresh")
    BY DEF Begin, Refreshes
  <2> QED
    BY <1>1, <2>1
<1>5. /\ Weights(<<>>) = {} /\ <<>> \in Seq(Lines)
  BY EmptySeq DEF Weights
<1>6. TypeOK'
  BY <1>1, <1>2, <1>3, <1>4, <1>5 DEF IInv, TypeOK, stream
<1>7. LockInv'
  <2> SUFFICES ASSUME NEW u \in Tasks
               PROVE  /\ pc'[u] = "reading" => lock' # <<>> /\ lock'[1] = u
                      /\ pc'[u] = "queued" => \E i \in 1..Len(lock') : lock'[i] = u
    BY DEF LockInv
  <2>1. CASE u = t
    BY <1>1, <1>2, <2>1
  <2>2. CASE u # t
    BY <1>1, <1>2, <2>2 DEF IInv, LockInv
  <2> QED
    BY <2>1, <2>2
<1>8. ReadInv'
  <2> SUFFICES ASSUME NEW u \in Tasks, pc'[u] = "reading"
               PROVE  /\ op[u] = "refresh" => Weights(pending') = {}
                      /\ op[u] = "stream" => pending' = <<>>
    BY <1>1 DEF ReadInv
  <2>1. u = t
    BY <1>1, <1>7 DEF LockInv
  <2> QED
    BY <1>4, <1>5, <2>1
<1>9. WireInv'
  BY <1>1 DEF IInv, WireInv
<1>10. QueueInv'
  <2>1. CASE pending' = <<>>
    BY <1>5, <2>1 DEF QueueInv
  <2>2. CASE pending' = pending /\ flag' = flag
    BY <1>1, <2>2 DEF IInv, QueueInv
  <2> QED
    BY <1>4, <2>1, <2>2
<1>11. ASSUME NEW u \in Streamers, held'[u] # 0 PROVE mode'[u] = "in" /\ Between(u)'
  <2>1. u \in Tasks /\ mode'[u] = "in" /\ Between(u) /\ op' = op
    BY <1>1, <1>11, AutoprintAssumption DEF IInv, HeldInv, stream
  <2>2. CASE u = t
    BY <1>1, <2>1, <2>2 DEF Between
  <2>3. CASE u # t
    BY <1>2, <2>1, <2>3 DEF Between
  <2> QED
    BY <2>2, <2>3
<1>12. \A b \in Nat : Past(b) => Fresh(b, pending')
  BY <1>4, <1>5 DEF Past, Fresh
<1>13. /\ sent <= sent' /\ \A u \in Streamers : held'[u] \in {held[u], 0}
       /\ read' = read /\ got' = got /\ answer' = answer /\ wire' = wire
  BY <1>1, Naturals0 DEF stream
<1> QED
  BY <1>6, <1>7, <1>8, <1>9, <1>10, <1>11, <1>12, <1>13, NothingHanded

LEMMA StartKeeps ==
  ASSUME IInv, NEW t \in Tasks, Start(t)
  PROVE  IInv' /\ InOrder
<1>1. pc[t] = "queued" /\ lock[1] = t
  BY DEF Start
<1>2. lock # <<>>
  <2>1. PICK i \in 1..Len(lock) : lock[i] = t
    BY <1>1 DEF IInv, LockInv
  <2>2. lock \in Seq(Tasks)
    BY DEF IInv, TypeOK
  <2> QED
    BY <2>1, <2>2, EmptySeq
<1>3. CASE op[t] = "stream" /\ pending # <<>>
  <2>1. StreamTakes(t, Head(pending), wire) /\ pending' = Tail(pending)
    BY <1>3 DEF Start
  <2> QED
    BY <1>1, <1>2, <1>3, <2>1, StartQueued
<1>4. CASE ~(op[t] = "stream" /\ pending # <<>>)
  <2>1. Begin(t, IF Refreshes(t) THEN <<>> ELSE pending, flag /\ ~Refreshes(t))
    BY <1>4 DEF Start
  <2> QED
    BY <1>1, <1>2, <1>4, <2>1, BeginKeeps
<1> QED
  BY <1>3, <1>4

\* A reply, or what passes for one, is read under the lock.
LEMMA ReplyReads ==
  ASSUME IInv, NEW t \in Tasks, pc[t] = "reading", wire # <<>>,
         UNCHANGED <<op, asked, sent, printing>>,
         \/ PrintTakes(t, Head(wire), Tail(wire))
         \/ IdentityTakes(t, Head(wire), Tail(wire))
  PROVE  IInv' /\ InOrder
<1> DEFINE l    == Head(wire)
           rest == Tail(wire)
<1>1. /\ l \in Lines /\ rest \in Seq(Lines) /\ l.seq \in Nat /\ sent \in Nat
      /\ Rising(rest) /\ UpTo(rest, sent) /\ Later(l.seq, rest) /\ l.seq <= sent
      /\ \A b \in Nat : Later(b, wire) => b < l.seq /\ Later(b, rest)
  BY Reads
<1>2. PrintTakes(t, l, rest) \/ IdentityTakes(t, l, rest)
  OBVIOUS
<1> HIDE DEF l, rest
<1>3. /\ Return(t) /\ UNCHANGED <<read, stream>>
      /\ wire' = rest \/ Drain(rest)
      /\ \/ UNCHANGED <<flag, pending, answer>>
         \/ ~flag /\ flag' = TRUE /\ pending' = <<l>> \o pending /\ answer' = answer /\ wire' = rest
         \/ UNCHANGED <<flag, pending>> /\ answer' = l /\ wire' = rest
  <2>1. CASE PrintTakes(t, l, rest)
    BY <2>1 DEF PrintTakes, DrainAndRaise
  <2>2. CASE IdentityTakes(t, l, rest)
    <3>1. CASE l.kind = "garbled"
      BY <2>2, <3>1 DEF IdentityTakes, DrainAndRaise
    <3>2. CASE l.kind # "garbled" /\ IsAutoprint(l) /\ ~flag
      BY <2>2, <3>2 DEF IdentityTakes, IsAutoprint
    <3>3. CASE l.kind # "garbled" /\ ~(IsAutoprint(l) /\ ~flag)
      BY <2>2, <3>3 DEF IdentityTakes
    <3> QED
      BY <3>1, <3>2, <3>3
  <2> QED
    BY <1>2, <2>1, <2>2
<1>4. wire' = rest \/ \E n \in 0..Len(rest) : wire' = SubSeq(rest, n + 1, Len(rest))
  BY <1>3 DEF Drain
<1>5. /\ wire' \in Seq(Lines) /\ Rising(wire') /\ UpTo(wire', sent)
      /\ \A b \in Nat : Later(b, rest) => Later(b, wire')
  BY <1>1, <1>4, WireLeft
<1>6. /\ \A b \in Nat : Later(b, wire) => Later(b, wire') /\ b < l.seq
      /\ Later(l.seq, wire')
  BY <1>1, <1>5
<1>7. lock # <<>> /\ lock[1] = t
  BY AtHead
<1>8. /\ flag \in BOOLEAN /\ pending \in Seq(Lines) /\ answer \in Lines /\ answer.seq \in Nat
      /\ Later(answer.seq, wire)
  BY Naturals0 DEF IInv, TypeOK, PastInv
<1>9. ASSUME NEW i \in Weights(pending)
      PROVE  flag /\ pending[i].seq <= sent /\ Later(pending[i].seq, wire') /\ Weights(pending) = {i}
  <2>1. flag /\ pending[i].seq <= sent /\ Later(pending[i].seq, wire) /\ Weights(pending) = {i}
    BY DEF IInv, QueueInv
  <2>2. i \in 1..Len(pending)
    BY DEF Weights
  <2>3. pending[i].seq \in Nat
    BY <1>8, <2>2, ElementOfSeq, LineFields
  <2> QED
    BY <1>6, <2>1, <2>3
<1>10. CASE UNCHANGED <<flag, pending>> /\ (answer' = answer \/ answer' = l)
  <2>1. QueueInv'
    BY <1>3, <1>9, <1>10 DEF QueueInv
  <2>2. \A b \in Nat : Past(b) => Fresh(b, pending')
    BY <1>10 DEF Past
  <2>3. \/ answer' = answer
        \/ answer'.seq > answer.seq /\ answer'.seq <= sent /\ Later(answer'.seq, wire')
    BY <1>1, <1>6, <1>8, <1>10
  <2>4. answer' \in Lines /\ flag' \in BOOLEAN /\ pending' \in Seq(Lines)
    BY <1>1, <1>8, <1>10
  <2> QED
    BY <1>3, <1>5, <1>6, <1>7, <2>1, <2>2, <2>3, <2>4, ReturnKeeps
<1>11. CASE ~flag /\ flag' = TRUE /\ pending' = <<l>> \o pending /\ answer' = answer
  <2>1. Weights(pending) = {}
    BY <1>9, <1>11
  <2>2. /\ pending' \in Seq(Lines)
        /\ \A i \in Weights(pending') : pending'[i] = l /\ Weights(pending') = {i}
    BY <1>1, <1>8, <1>11, <2>1, PutFirst
  <2>3. QueueInv'
    BY <1>1, <1>6, <1>11, <2>2 DEF QueueInv
  <2>4. \A b \in Nat : Past(b) => Fresh(b, pending')
    BY <1>6, <2>2 DEF Past, Fresh
  <2>5. flag' \in BOOLEAN /\ answer' \in Lines
    BY <1>8, <1>11
  <2> QED
    BY <1>3, <1>5, <1>6, <1>7, <1>11, <2>2, <2>3, <2>4, <2>5, ReturnKeeps
<1> QED
  BY <1>3, <1>10, <1>11

LEMMA SniffReads ==
  ASSUME IInv, NEW t \in Tasks, pc[t] = "reading", op[t] = "refresh", wire # <<>>,
         UNCHANGED <<op, asked, sent, printing>>, SniffTakes(t, Head(wire), Tail(wire))
  PROVE  IInv' /\ InOrder
<1> DEFINE l    == Head(wire)
           rest == Tail(wire)
<1>1. /\ l \in Lines /\ rest \in Seq(Lines) /\ l.seq \in Nat /\ sent \in Nat
      /\ Rising(rest) /\ UpTo(rest, sent) /\ Later(l.seq, rest) /\ l.seq <= sent
      /\ \A b \in Nat : Later(b, wire) => b < l.seq /\ Later(b, rest)
  BY Reads
<1>2. SniffTakes(t, l, rest)
  OBVIOUS
<1> HIDE DEF l, rest
<1>3. /\ wire' = rest /\ pending' = Append(pending, l) /\ UNCHANGED <<read, answer, stream>>
      /\ \/ l.kind = "weight" /\ flag' = TRUE /\ Return(t)
         \/ l.kind # "weight" /\ flag' \in BOOLEAN /\ (Return(t) \/ UNCHANGED <<pc, lock>>)
  <2>1. CASE IsAutoprint(l)
    BY <1>2, <2>1 DEF SniffTakes
  <2>2. CASE ~IsAutoprint(l)
    BY <1>2, <2>2 DEF SniffTakes, IsAutoprint
  <2> QED
    BY <2>1, <2>2
<1>4. lock # <<>> /\ lock[1] = t /\ \A u \in Tasks : pc[u] = "reading" => u = t
  BY AtHead
<1>5. Weights(pending) = {} /\ pending \in Seq(Lines)
  BY DEF IInv, ReadInv, TypeOK
<1>6. /\ pending' \in Seq(Lines)
      /\ \A i \in Weights(pending') : pending'[i] = l /\ l.kind = "weight" /\ Weights(pending') = {i}
  <2>1. /\ Append(pending, l) \in Seq(Lines)
        /\ \A i \in Weights(Append(pending, l)) : /\ Append(pending, l)[i] = l /\ l.kind = "weight"
                                                  /\ Weights(Append(pending, l)) = {i}
    BY <1>1, <1>5, PutLast
  <2>2. pending' = Append(pending, l)
    BY <1>3
  <2> QED
    BY <2>1, <2>2
<1>7. QueueInv'
  BY <1>1, <1>3, <1>6 DEF QueueInv
<1>8. \A b \in Nat : Past(b) => Fresh(b, pending')
  BY <1>1, <1>6 DEF Past, Fresh
<1>9. /\ flag' \in BOOLEAN /\ wire' \in Seq(Lines) /\ answer' \in Lines
      /\ Rising(wire') /\ UpTo(wire', sent)
      /\ \A b \in Nat : Later(b, wire) => Later(b, wire')
  BY <1>1, <1>3 DEF IInv, TypeOK
<1>10. CASE Return(t)
  BY <1>3, <1>4, <1>6, <1>7, <1>8, <1>9, <1>10, ReturnKeeps
<1>11. CASE l.kind # "weight" /\ UNCHANGED <<pc, lock>>
  <2>1. TypeOK'
    BY <1>3, <1>6, <1>9, <1>11 DEF IInv, TypeOK, stream
  <2>2. LockInv' /\ WireInv'
    BY <1>9, <1>11 DEF IInv, LockInv, WireInv
  <2>3. Weights(pending') = {}
    BY <1>6, <1>11
  <2>4. ReadInv'
    BY <1>4, <1>11, <2>3 DEF ReadInv
  <2>5. \A u \in Streamers : held'[u] # 0 => mode'[u] = "in" /\ Between(u)'
    BY <1>3, <1>11 DEF IInv, HeldInv, Between, stream
  <2>6. /\ sent <= sent' /\ \A u \in Streamers : held'[u] \in {held[u], 0}
        /\ read' = read /\ got' = got /\ answer' = answer
    BY <1>1, <1>3 DEF stream
  <2> QED
    BY <1>7, <1>8, <1>9, <2>1, <2>2, <2>4, <2>5, <2>6, NothingHanded
<1> QED
  BY <1>3, <1>10, <1>11

LEMMA ReadLineKeeps ==
  ASSUME IInv, NEW t \in Tasks, ReadLine(t)
  PROVE  IInv' /\ InOrder
<1>1. /\ pc[t] = "reading" /\ wire # <<>> /\ UNCHANGED <<op, asked, sent, printing>>
      /\ op[t] \in {"print", "identity", "stream", "refresh"}
  BY DEF ReadLine, IInv, TypeOK, Ops
<1>2. CASE op[t] = "print"
  <2>1. PrintTakes(t, Head(wire), Tail(wire))
    BY <1>2 DEF ReadLine
  <2> QED
    BY <1>1, <2>1, ReplyReads
<1>3. CASE op[t] = "identity"
  <2>1. IdentityTakes(t, Head(wire), Tail(wire))
    BY <1>3 DEF ReadLine
  <2> QED
    BY <1>1, <2>1, ReplyReads
<1>4. CASE op[t] = "refresh"
  <2>1. SniffTakes(t, Head(wire), Tail(wire))
    BY <1>4 DEF ReadLine
  <2> QED
    BY <1>1, <1>4, <2>1, SniffReads
<1>5. CASE op[t] = "stream"
  <2>1. StreamTakes(t, Head(wire), Tail(wire)) /\ pending' = pending
    BY <1>5 DEF ReadLine
  <2> QED
    BY <1>1, <1>5, <2>1, AtHead, StreamReads
<1> QED
  BY <1>1, <1>2, <1>3, <1>4, <1>5

-----------------------------------------------------------------------------
(* The balance, and the theorems.                                          *)

LEMMA SendKeeps ==
  ASSUME IInv, NEW kind \in Kinds, Send(kind), asked' \in Seq({"weight", "text"})
  PROVE  IInv' /\ InOrder
<1>1. /\ sent < MaxLines /\ sent' = sent + 1 /\ wire' = Append(wire, Line(kind, sent + 1))
      /\ UNCHANGED <<pc, op, lock, flag, pending, printing, read, answer, stream>>
  BY DEF Send
<1>2. /\ sent \in Nat /\ MaxLines \in Nat /\ answer.seq \in Nat
      /\ wire \in Seq(Lines) /\ pending \in Seq(Lines) /\ Rising(wire) /\ UpTo(wire, sent)
  BY Naturals0 DEF IInv, TypeOK, WireInv
<1>3. Line(kind, sent + 1) \in Lines /\ Line(kind, sent + 1).seq = sent + 1 /\ sent + 1 \in 0..MaxLines
  BY <1>1, <1>2 DEF Line, Lines
<1>4. /\ wire' \in Seq(Lines) /\ Rising(wire') /\ UpTo(wire', sent + 1)
      /\ \A b \in Nat : b <= sent /\ Later(b, wire) => Later(b, wire')
  BY <1>1, <1>2, <1>3, AddLine
<1>5. TypeOK'
  BY <1>1, <1>3, <1>4 DEF IInv, TypeOK, stream
<1>6. LockInv' /\ ReadInv' /\ WireInv'
  BY <1>1, <1>4 DEF IInv, LockInv, ReadInv, WireInv
<1>7. QueueInv'
  <2> SUFFICES ASSUME NEW i \in Weights(pending)
               PROVE  flag /\ pending[i].seq <= sent' /\ Later(pending[i].seq, wire') /\ Weights(pending) = {i}
    BY <1>1 DEF QueueInv
  <2>1. flag /\ pending[i].seq <= sent /\ Later(pending[i].seq, wire) /\ Weights(pending) = {i}
    BY DEF IInv, QueueInv
  <2>2. i \in 1..Len(pending)
    BY DEF Weights
  <2>3. pending[i].seq \in Nat
    BY <1>2, <2>2, ElementOfSeq, LineFields
  <2> QED
    BY <1>1, <1>2, <1>4, <2>1, <2>3
<1>8. \A u \in Streamers : held'[u] # 0 => mode'[u] = "in" /\ Between(u)'
  BY <1>1 DEF IInv, HeldInv, Between, stream
<1>9. /\ sent <= sent' /\ \A u \in Streamers : held'[u] \in {held[u], 0}
      /\ read' = read /\ got' = got /\ answer' = answer
      /\ \A b \in Nat : Past(b) => Fresh(b, pending')
  BY <1>1, <1>2 DEF stream, Past
<1> QED
  BY <1>4, <1>5, <1>6, <1>7, <1>8, <1>9, NothingHanded

LEMMA BalanceKeeps ==
  ASSUME IInv, PrintLine \/ Answer \/ SwitchAutoprint \/ UNCHANGED vars
  PROVE  IInv' /\ InOrder
<1>1. asked \in Seq({"weight", "text"})
  BY DEF IInv, TypeOK
<1>2. CASE PrintLine
  <2>1. PICK kind \in Kinds : Send(kind) /\ asked' = asked
    BY <1>2 DEF PrintLine, Kinds
  <2> QED
    BY <1>1, <2>1, SendKeeps
<1>3. CASE Answer
  <2>1. asked # <<>> /\ Send(Head(asked)) /\ asked' = Tail(asked)
    BY <1>3 DEF Answer
  <2>2. Head(asked) \in {"weight", "text"} /\ Tail(asked) \in Seq({"weight", "text"})
    BY <1>1, <2>1, HeadTailProperties
  <2> QED
    BY <2>1, <2>2, SendKeeps DEF Kinds
<1>4. CASE SwitchAutoprint \/ UNCHANGED vars
  <2>1. /\ printing' \in BOOLEAN
        /\ UNCHANGED <<pc, op, lock, flag, pending, wire, asked, sent, read, answer, stream>>
    BY <1>4 DEF SwitchAutoprint, vars, IInv, TypeOK
  <2>2. TypeOK'
    BY <2>1 DEF IInv, TypeOK, stream
  <2>3. LockInv' /\ ReadInv' /\ WireInv' /\ QueueInv'
    BY <2>1 DEF IInv, LockInv, ReadInv, WireInv, QueueInv
  <2>4. \A u \in Streamers : held'[u] # 0 => mode'[u] = "in" /\ Between(u)'
    BY <2>1 DEF IInv, HeldInv, Between, stream
  <2>5. /\ sent <= sent' /\ \A u \in Streamers : held'[u] \in {held[u], 0}
        /\ read' = read /\ got' = got /\ answer' = answer
        /\ \A b \in Nat : Past(b) => Fresh(b, pending')
        /\ \A b \in Nat : b <= sent /\ Later(b, wire) => Later(b, wire')
    BY <2>1, Naturals0 DEF stream, Past
  <2> QED
    BY <2>2, <2>3, <2>4, <2>5, NothingHanded
<1> QED
  BY <1>2, <1>3, <1>4

LEMMA InitHolds == Init => IInv
<1> SUFFICES ASSUME Init PROVE IInv
  OBVIOUS
<1>1. /\ pc = [t \in Tasks |-> "idle"] /\ op = [t \in Tasks |-> "print"] /\ lock = <<>>
      /\ wire = <<>> /\ asked = <<>> /\ read = Line("text", 0) /\ answer = Line("text", 0)
      /\ mode = [t \in Streamers |-> "out"]
      /\ held = [t \in Streamers |-> 0] /\ got = [t \in Streamers |-> 0]
      /\ flag \in BOOLEAN /\ printing \in BOOLEAN /\ sent \in {0, 1}
      /\ \/ pending = <<>>
         \/ flag /\ sent = 1 /\ \E k \in {"weight", "status"} : pending = <<Line(k, 1)>>
  BY DEF Init
<1>2. MaxLines \in Nat /\ MaxLines >= 1
  BY AutoprintAssumption
<1>3. <<>> \in Seq(Lines) /\ <<>> \in Seq(Tasks) /\ <<>> \in Seq({"weight", "text"}) /\ Len(<<>>) = 0
  BY EmptySeq
<1>4. Line("text", 0) \in Lines /\ Line("text", 0).seq = 0
  BY <1>2 DEF Line, Lines, Kinds
<1>5. /\ pending \in Seq(Lines)
      /\ \A i \in Weights(pending) : /\ flag /\ sent = 1 /\ pending[i].seq = 1
                                     /\ Weights(pending) = {i}
  <2>1. CASE pending = <<>>
    BY <1>3, <2>1 DEF Weights
  <2>2. ASSUME flag, sent = 1, NEW k \in {"weight", "status"}, pending = <<Line(k, 1)>>
        PROVE  /\ pending \in Seq(Lines)
               /\ \A i \in Weights(pending) : /\ flag /\ sent = 1 /\ pending[i].seq = 1
                                              /\ Weights(pending) = {i}
    <3>1. Line(k, 1) \in Lines /\ Line(k, 1).seq = 1
      BY <1>2 DEF Line, Lines, Kinds
    <3>2. ASSUME NEW l \in Lines PROVE <<l>> \in Seq(Lines) /\ Len(<<l>>) = 1 /\ <<l>>[1] = l
      OBVIOUS
    <3>3. pending \in Seq(Lines) /\ Len(pending) = 1 /\ pending[1] = Line(k, 1)
      BY <2>2, <3>1, <3>2
    <3>4. ASSUME NEW i \in Weights(pending) PROVE i = 1
      BY <3>3 DEF Weights
    <3> QED
      BY <2>2, <3>1, <3>3, <3>4
  <2> QED
    BY <1>1, <2>1, <2>2
<1>6. TypeOK
  BY <1>1, <1>2, <1>3, <1>4, <1>5 DEF TypeOK, Ops
<1>7. LockInv /\ ReadInv /\ HeldInv
  BY <1>1 DEF LockInv, ReadInv, HeldInv
<1>8. WireInv /\ \A b : Later(b, wire)
  BY <1>1, <1>3 DEF WireInv, Rising, UpTo, Later
<1>9. QueueInv
  BY <1>5, <1>8 DEF QueueInv
<1>10. Past(0)
  BY <1>1, <1>5, <1>8 DEF Past, Fresh
<1>11. PastInv
  BY <1>1, <1>4, <1>8, <1>10 DEF PastInv
<1> QED
  BY <1>6, <1>7, <1>8, <1>9, <1>11 DEF IInv

LEMMA StepKeeps == IInv /\ [Next]_vars => IInv' /\ InOrder
<1> SUFFICES ASSUME IInv, [Next]_vars PROVE IInv' /\ InOrder
  OBVIOUS
<1>1. ASSUME NEW t \in Tasks, Poll(t) \/ Identify(t) \/ Refresh(t) PROVE IInv' /\ InOrder
  BY <1>1, CallsKeep
<1>2. ASSUME NEW t \in Tasks, Start(t) \/ ReadLine(t) \/ Timeout(t) PROVE IInv' /\ InOrder
  BY <1>2, StartKeeps, ReadLineKeeps, TimeoutKeeps
<1>3. ASSUME NEW t \in Streamers, Enter(t) \/ Iterate(t) PROVE IInv' /\ InOrder
  BY <1>3, CallsKeep, AutoprintAssumption
<1>4. ASSUME NEW t \in Streamers, Hand(t) \/ Leave(t) PROVE IInv' /\ InOrder
  BY <1>4, HandKeeps, LeaveKeeps
<1>5. CASE PrintLine \/ Answer \/ SwitchAutoprint \/ UNCHANGED vars
  BY <1>5, BalanceKeeps
<1> QED
  BY <1>1, <1>2, <1>3, <1>4, <1>5 DEF Next, Resume

LEMMA Inductive == Spec => []IInv
<1>1. IInv /\ [Next]_vars => IInv'
  BY StepKeeps
<1> QED
  BY <1>1, InitHolds, PTL DEF Spec

\* A weight line that a sniff or a surprised command queued is not left behind: the
\* flag sends the next poll to it, and it is older than all that is on the wire
\* (SbiProtocolClient._pending_lines and _autoprint_active).
THEOREM NothingLeftBehind == Spec => []QueuedLineIsNext
<1>1. IInv => QueuedLineIsNext
  <2> SUFFICES ASSUME IInv, NEW i \in DOMAIN pending, pending[i].kind = "weight"
               PROVE  flag /\ \A j \in 1..Len(wire) : pending[i].seq < wire[j].seq
    BY DEF QueuedLineIsNext, IInv
  <2>1. pending \in Seq(Lines)
    BY DEF IInv, TypeOK
  <2>2. i \in Weights(pending)
    BY <2>1, LenProperties DEF Weights
  <2> QED
    BY <2>2 DEF IInv, QueueInv, Later
<1> QED
  BY <1>1, Inductive, PTL

\* What stream reads return, what is taken for replies, and what the consumer of each
\* StreamingSession gets is in the order of printing, and nothing comes twice.
THEOREM ReadingsInOrder == Spec => StreamInOrder
<1>1. IInv /\ [Next]_vars =>
        [/\ read' # read => read'.seq > read.seq
         /\ answer' # answer => answer'.seq > answer.seq
         /\ \A t \in Streamers : got'[t] # got[t] => got'[t] > got[t]]_vars
  BY StepKeeps DEF InOrder
<1> QED
  BY <1>1, Inductive, PTL DEF Spec, StreamInOrder

-----------------------------------------------------------------------------
(* The xBPI client.                                                        *)

Ordered(s)         == \A i, j \in 1..Len(s) : i < j => Before(s[i], s[j])
Within(s, lo, hi)  == \A i \in 1..Len(s) : lo < s[i].req /\ s[i].req <= hi
Ahead(s, a)        == \A i \in 1..Len(s), j \in 1..Len(a) : s[i].req < a[j]
Increasing(a, lo, hi) ==
  /\ \A i, j \in 1..Len(a) : i < j => a[i] < a[j]
  /\ \A i \in 1..Len(a) : lo < a[i] /\ a[i] <= hi

Stream == ((head \o hold) \o pushback) \o input

\* The types, one by one: a set of variables is opaque to the provers.
LinkTypes ==
  /\ step \in {"idle", "length", "rest", "drain"}
  /\ cmds \in Seq(Commands) /\ Calls <= MaxCalls
  /\ owed \in Seq(1..MaxCalls)
  /\ input \in Seq(Bytes) /\ pushback \in Seq(Bytes) /\ hold \in Seq(Bytes) /\ head \in Seq(Bytes)
  /\ need \in Nat
  /\ outcome \in Outcomes
  /\ reply \in 0..MaxCalls
  /\ missed \in Nat
  /\ avail \in [Commands -> {"UNKNOWN", "SUPPORTED", "UNSUPPORTED"}]

\* Where bytes may be at each await.
Places ==
  /\ step \in {"idle", "drain"} => hold = <<>> /\ head = <<>>
  /\ step # "idle" => pushback = <<>>
  /\ step = "length" => head = <<>>

Order ==
  /\ Ordered(Stream) /\ Within(Stream, reply, Calls) /\ Ahead(Stream, owed)
  /\ Increasing(owed, reply, Calls)

\* The call under way, if any, may still get the next reply.
UnderWay == IF step = "idle" THEN 0 ELSE 1
Lag ==
  /\ Calls <= reply + missed + UnderWay
  /\ reply + UnderWay <= Calls /\ missed + UnderWay <= Calls

LinkInv == LinkTypes /\ Places /\ Order /\ Lag /\ DenialJustified

-----------------------------------------------------------------------------
(* Sequences of bytes.                                                     *)

LEMMA Positive ==
  FrameSize \in Nat /\ FrameSize >= 1 /\ MaxCalls \in Nat
BY LinkAssumption

LEMMA DropFront ==
  ASSUME NEW x \in Seq(Bytes), NEW t \in Seq(Bytes), NEW a, NEW lo, NEW hi,
         Ordered(x \o t), Within(x \o t, lo, hi), Ahead(x \o t, a)
  PROVE  Ordered(t) /\ Within(t, lo, hi) /\ Ahead(t, a)
<1>1. Len(x) \in Nat /\ Len(t) \in Nat /\ Len(x \o t) = Len(x) + Len(t)
  BY ConcatProperties, LenProperties
<1>2. \A i \in 1..Len(t) : Len(x) + i \in 1..Len(x \o t) /\ (x \o t)[Len(x) + i] = t[i]
  <2> SUFFICES ASSUME NEW i \in 1..Len(t)
               PROVE  Len(x) + i \in 1..Len(x \o t) /\ (x \o t)[Len(x) + i] = t[i]
    OBVIOUS
  <2>1. Len(x) + i \in 1..(Len(x) + Len(t)) /\ ~(Len(x) + i <= Len(x)) /\ (Len(x) + i) - Len(x) = i
    BY <1>1
  <2> QED
    BY <1>1, <2>1, ConcatProperties
<1>3. Ordered(t)
  <2> SUFFICES ASSUME NEW i \in 1..Len(t), NEW j \in 1..Len(t), i < j PROVE Before(t[i], t[j])
    BY DEF Ordered
  <2>1. Len(x) + i < Len(x) + j
    BY <1>1
  <2> QED
    BY <1>2, <2>1 DEF Ordered
<1>4. Within(t, lo, hi)
  BY <1>2 DEF Within
<1>5. Ahead(t, a)
  BY <1>2 DEF Ahead
<1> QED
  BY <1>3, <1>4, <1>5

\* A frame that was read whole is behind all that follows it.
LEMMA PastFrame ==
  ASSUME NEW x \in Seq(Bytes), NEW t \in Seq(Bytes), NEW k \in Nat,
         x = Frame(k), Ordered(x \o t),
         NEW lo, NEW hi, Within(x \o t, lo, hi)
  PROVE  Within(t, k, hi) /\ x[1].req = k /\ lo < k /\ k <= hi
<1>1. Len(x) = FrameSize /\ x[FrameSize] = [req |-> k, pos |-> FrameSize] /\ x[1] = [req |-> k, pos |-> 1]
  BY Positive, LenProperties DEF Frame
<1>2. Len(t) \in Nat /\ Len(x \o t) = FrameSize + Len(t)
  BY <1>1, ConcatProperties, LenProperties
<1>3. (x \o t)[FrameSize] = x[FrameSize] /\ (x \o t)[1] = x[1]
  <2>1. FrameSize \in 1..(Len(x) + Len(t)) /\ 1 \in 1..(Len(x) + Len(t)) /\ FrameSize <= Len(x) /\ 1 <= Len(x)
    BY <1>1, <1>2, Positive
  <2> QED
    BY <2>1, ConcatProperties
<1>4. lo < k /\ k <= hi
  <2>1. 1 \in 1..Len(x \o t)
    BY <1>2, Positive
  <2> QED
    BY <1>1, <1>3, <2>1 DEF Within
<1>5. ASSUME NEW i \in 1..Len(t) PROVE k < t[i].req /\ t[i].req <= hi
  <2>1. /\ FrameSize + i \in 1..Len(x \o t) /\ FrameSize \in 1..Len(x \o t) /\ FrameSize < FrameSize + i
        /\ FrameSize + i \in 1..(Len(x) + Len(t)) /\ ~(FrameSize + i <= Len(x)) /\ (FrameSize + i) - Len(x) = i
    BY <1>1, <1>2, Positive
  <2>2. (x \o t)[FrameSize + i] = t[i]
    BY <2>1, ConcatProperties
  <2>3. Before(x[FrameSize], t[i]) /\ t[i].req <= hi
    BY <1>3, <2>1, <2>2 DEF Ordered, Within
  <2>4. t[i] \in Bytes
    BY ElementOfSeq
  <2>5. t[i].pos \in 1..FrameSize /\ ~(FrameSize < t[i].pos)
    BY <2>4, Positive DEF Bytes
  <2> QED
    BY <1>1, <2>3, <2>5 DEF Before
<1> QED
  BY <1>1, <1>4, <1>5 DEF Within

\* Bytes that are cut in two are still all there.
LEMMA Cut ==
  ASSUME NEW s \in Seq(Bytes), NEW n \in 0..Len(s)
  PROVE  /\ SubSeq(s, 1, n) \in Seq(Bytes) /\ SubSeq(s, n + 1, Len(s)) \in Seq(Bytes)
         /\ s = SubSeq(s, 1, n) \o SubSeq(s, n + 1, Len(s))
<1>1. Len(s) \in Nat /\ n \in Nat /\ n <= Len(s)
  BY LenProperties
<1>2. \A i \in 1..Len(s) : s[i] \in Bytes
  BY ElementOfSeq
<1>3. SubSeq(s, 1, n) \in Seq(Bytes)
  <2>1. 1 \in Int /\ n \in Int /\ \A i \in 1..n : s[i] \in Bytes
    BY <1>1, <1>2
  <2> QED
    BY <2>1, SubSeqProperties, SMTT(30)
<1>4. SubSeq(s, n + 1, Len(s)) \in Seq(Bytes)
  <2>1. n + 1 \in Int /\ Len(s) \in Int /\ \A i \in n + 1..Len(s) : s[i] \in Bytes
    BY <1>1, <1>2
  <2> QED
    BY <2>1, SubSeqProperties, SMTT(30)
<1>5. SubSeq(s, 1, n) \o SubSeq(s, n + 1, Len(s)) = SubSeq(s, 1, Len(s))
  <2>1. 1 \in 1..Len(s) + 1 /\ n \in 1 - 1..Len(s) /\ Len(s) \in n..Len(s)
    BY <1>1
  <2> QED
    BY <2>1, ConcatAdjacentSubSeq
<1> QED
  BY <1>3, <1>4, <1>5, SubSeqFull

\* The four places in which bytes wait, when some of them are empty.
LEMMA InPlaces ==
  ASSUME NEW a \in Seq(Bytes), NEW b \in Seq(Bytes), NEW c \in Seq(Bytes),
         NEW d \in Seq(Bytes)
  PROVE  /\ ((a \o b) \o c) \o d \in Seq(Bytes)
         /\ ((a \o b) \o <<>>) \o d = (a \o b) \o d
         /\ ((<<>> \o b) \o <<>>) \o d = b \o d
         /\ ((<<>> \o <<>>) \o c) \o d = c \o d
<1>1. a \o b \in Seq(Bytes) /\ <<>> \in Seq(Bytes)
  BY ConcatProperties, EmptySeq
<1>2. (a \o b) \o c \in Seq(Bytes)
  BY <1>1, ConcatProperties
<1>3. ((a \o b) \o c) \o d \in Seq(Bytes)
  BY <1>2, ConcatProperties
<1>4. (a \o b) \o <<>> = a \o b /\ <<>> \o b = b /\ b \o <<>> = b /\ <<>> \o c = c
  BY <1>1, ConcatEmptySeq
<1>5. <<>> \o <<>> = <<>>
  BY <1>1, ConcatEmptySeq
<1> QED
  BY <1>3, <1>4, <1>5

\* Bytes may be put together in any grouping.
LEMMA AddBack ==
  ASSUME NEW p \in Seq(Bytes), NEW w \in Seq(Bytes), NEW s \in Seq(Bytes)
  PROVE  p \o (w \o s) = (p \o w) \o s
<1>1. (p \o w) \o s = p \o (w \o s)
  BY ConcatAssociative
<1> QED
  BY <1>1

\* A chunk that is received moves from the wire to the read.
LEMMA ChunkMoves ==
  ASSUME NEW a \in Seq(Bytes), NEW b \in Seq(Bytes), NEW d \in Seq(Bytes), NEW n \in 0..Len(d)
  PROVE  (a \o (b \o SubSeq(d, 1, n))) \o SubSeq(d, n + 1, Len(d)) = (a \o b) \o d
<1> DEFINE x == SubSeq(d, 1, n)
           y == SubSeq(d, n + 1, Len(d))
<1>1. x \in Seq(Bytes) /\ y \in Seq(Bytes) /\ d = x \o y
  BY Cut
<1> HIDE DEF x, y
<1>m. x \in Seq(Bytes) /\ y \in Seq(Bytes)
  BY <1>1
<1> DEFINE ab == a \o b
<1>2. ab \in Seq(Bytes)
  BY ConcatProperties
<1>3. a \o (b \o x) = ab \o x
  BY <1>m, AddBack, Zenon
<1> HIDE DEF ab
<1>4. ab \o (x \o y) = (ab \o x) \o y
  BY <1>m, <1>2, AddBack, Zenon
<1>5. (a \o (b \o x)) \o y = ab \o d
  BY <1>1, <1>3, <1>4
<1> QED
  BY <1>5 DEF x, y, ab

\* A frame that is taken leaves what follows it.
LEMMA FrameLeaves ==
  ASSUME NEW a \in Seq(Bytes), NEW b \in Seq(Bytes), NEW d \in Seq(Bytes), NEW n \in 0..Len(b)
  PROVE  /\ a \o SubSeq(b, 1, n) \in Seq(Bytes) /\ SubSeq(b, n + 1, Len(b)) \o d \in Seq(Bytes)
         /\ (a \o b) \o d = (a \o SubSeq(b, 1, n)) \o (SubSeq(b, n + 1, Len(b)) \o d)
<1> DEFINE x == SubSeq(b, 1, n)
           y == SubSeq(b, n + 1, Len(b))
<1>1. x \in Seq(Bytes) /\ y \in Seq(Bytes) /\ b = x \o y
  BY Cut
<1> HIDE DEF x, y
<1>2. a \o x \in Seq(Bytes) /\ y \o d \in Seq(Bytes)
  BY <1>1, ConcatProperties
<1>m. x \in Seq(Bytes) /\ y \in Seq(Bytes)
  BY <1>1
<1> DEFINE ax == a \o x
<1>s. a \o (x \o y) = ax \o y
  BY <1>m, AddBack, Zenon
<1>3. ax \in Seq(Bytes) /\ a \o (x \o y) = ax \o y
  BY <1>m, <1>s, ConcatProperties
<1> HIDE DEF ax
<1>c. ax \in Seq(Bytes)
  BY <1>3
<1>d. ax \o (y \o d) = (ax \o y) \o d
  BY <1>m, <1>c, AddBack, Zenon
<1>e. (a \o b) \o d = ax \o (y \o d)
  BY <1>1, <1>3, <1>d
<1>4. (a \o b) \o d = (a \o x) \o (y \o d)
  BY <1>e DEF ax
<1> QED
  BY <1>2, <1>4 DEF x, y

LEMMA ByteOfSuffix ==
  ASSUME NEW f, NEW m \in Int, NEW l \in Int, \A j \in m..l : f[j] \in Bytes, NEW i \in 1..(l - m + 1)
  PROVE  SubSeq(f, m, l)[i] = f[m + i - 1]
BY SubSeqProperties

\* A frame, or what is left of one, behind all that was sent before it.
LEMMA AddFrame ==
  ASSUME NEW t \in Seq(Bytes), NEW k \in 1..MaxCalls, NEW n \in 0..Lost, NEW lo \in Nat,
         NEW hi \in Nat,
         NEW a \in Seq(1..MaxCalls), a # <<>>, k = Head(a),
         Ordered(t), Within(t, lo, hi), Ahead(t, a), Increasing(a, lo, hi)
  PROVE  /\ SubSeq(Frame(k), n + 1, FrameSize) \in Seq(Bytes)
         /\ Ordered(t \o SubSeq(Frame(k), n + 1, FrameSize))
         /\ Within(t \o SubSeq(Frame(k), n + 1, FrameSize), lo, hi)
         /\ Ahead(t \o SubSeq(Frame(k), n + 1, FrameSize), Tail(a))
<1> DEFINE s == SubSeq(Frame(k), n + 1, FrameSize)
           u == t \o s
<1>1. n \in Nat /\ n + 1 <= FrameSize
  BY LinkAssumption
<1>2. s \in Seq(Bytes) /\ Len(s) = FrameSize - n
      /\ \A i \in 1..Len(s) : s[i] = [req |-> k, pos |-> n + i]
  <2>1. n + 1 \in Int /\ FrameSize \in Int
        /\ \A i \in n + 1..FrameSize : Frame(k)[i] \in Bytes /\ Frame(k)[i] = [req |-> k, pos |-> i]
    BY <1>1, Positive DEF Frame, Bytes
  <2>2. s \in Seq(Bytes)
    <3>1. ASSUME NEW f, \A i \in n + 1..FrameSize : f[i] \in Bytes
          PROVE  SubSeq(f, n + 1, FrameSize) \in Seq(Bytes)
      BY <2>1, <3>1, SubSeqProperties, SMTT(30)
    <3> QED
      BY <2>1, <3>1
  <2>3. Len(s) = FrameSize - n
    BY <1>1, Positive
  <2>4. ASSUME NEW i \in 1..Len(s) PROVE s[i] = [req |-> k, pos |-> n + i]
    <3>1. n + i \in n + 1..FrameSize /\ i \in 1..FrameSize - n
      BY <1>1, <2>3, Positive
    <3>2. s[i] = Frame(k)[(n + 1) + i - 1]
      <4>1. n + 1 \in Int /\ FrameSize \in Int /\ i \in 1..(FrameSize - (n + 1) + 1)
        BY <1>1, <3>1, Positive
      <4>2. \A j \in n + 1..FrameSize : Frame(k)[j] \in Bytes
        BY <2>1
      <4> QED
        BY <4>1, <4>2, ByteOfSuffix
    <3>3. (n + 1) + i - 1 = n + i
      BY <1>1, <2>3
    <3> QED
      BY <2>1, <3>1, <3>2, <3>3
  <2> QED
    BY <2>2, <2>3, <2>4
<1> HIDE DEF s
<1>c. s \in Seq(Bytes)
  BY <1>2
<1>3. /\ Len(t) \in Nat /\ Len(s) \in Nat /\ Len(u) = Len(t) + Len(s)
      /\ \A i \in 1..Len(u) : u[i] = IF i <= Len(t) THEN t[i] ELSE s[i - Len(t)]
  BY <1>c, ConcatProperties, LenProperties
<1>5. /\ lo < k /\ k <= hi
      /\ \A i \in 1..Len(Tail(a)) : k < Tail(a)[i]
      /\ \A i \in 1..Len(t), j \in 1..Len(Tail(a)) : t[i].req < Tail(a)[j]
      /\ \A i \in 1..Len(t) : t[i].req < k
  <2>1. Len(a) \in Nat /\ 1 \in 1..Len(a) /\ k = a[1] /\ Len(Tail(a)) = Len(a) - 1
        /\ \A i \in 1..Len(Tail(a)) : Tail(a)[i] = a[i + 1] /\ i + 1 \in 1..Len(a) /\ 1 < i + 1
    BY EmptySeq, LenProperties, HeadTailProperties
  <2> QED
    BY <2>1 DEF Increasing, Ahead
<1>6. ASSUME NEW i \in 1..Len(u)
      PROVE  \/ i \in 1..Len(t) /\ u[i] = t[i]
             \/ i - Len(t) \in 1..Len(s) /\ u[i] = [req |-> k, pos |-> n + (i - Len(t))] /\ ~(i <= Len(t))
  <2>1. CASE i <= Len(t)
    BY <1>3, <2>1
  <2>2. CASE ~(i <= Len(t))
    <3>1. i - Len(t) \in 1..Len(s) /\ u[i] = s[i - Len(t)]
      BY <1>3, <2>2
    <3> QED
      BY <1>2, <2>2, <3>1
  <2> QED
    BY <2>1, <2>2
<1>d. Len(t) \in Nat /\ Len(u) \in Nat
  BY <1>3
<1> HIDE DEF u
<1>7. Ordered(u)
  <2> SUFFICES ASSUME NEW i \in 1..Len(u), NEW j \in 1..Len(u), i < j PROVE Before(u[i], u[j])
    BY DEF Ordered
  <2>1. CASE i \in 1..Len(t) /\ u[i] = t[i] /\ j \in 1..Len(t) /\ u[j] = t[j]
    BY <2>1 DEF Ordered
  <2>2. CASE i \in 1..Len(t) /\ u[i] = t[i] /\ u[j] = [req |-> k, pos |-> n + (j - Len(t))]
    BY <1>5, <2>2 DEF Before
  <2>3. CASE /\ u[i] = [req |-> k, pos |-> n + (i - Len(t))]
             /\ u[j] = [req |-> k, pos |-> n + (j - Len(t))]
    <3>1. n + (i - Len(t)) < n + (j - Len(t))
      BY <1>1, <1>3
    <3> QED
      BY <2>3, <3>1 DEF Before
  <2>4. /\ i \in Nat /\ j \in Nat
        /\ j \in 1..Len(t) => i \in 1..Len(t)
    BY <1>d
  <2> QED
    BY <1>d, <1>6, <2>1, <2>2, <2>3, <2>4
<1>8. Within(u, lo, hi)
  <2> SUFFICES ASSUME NEW i \in 1..Len(u) PROVE lo < u[i].req /\ u[i].req <= hi
    BY DEF Within
  <2>1. CASE i \in 1..Len(t) /\ u[i] = t[i]
    BY <2>1 DEF Within
  <2>2. CASE u[i] = [req |-> k, pos |-> n + (i - Len(t))]
    BY <1>5, <2>2
  <2> QED
    BY <1>6, <2>1, <2>2
<1>9. Ahead(u, Tail(a))
  <2> SUFFICES ASSUME NEW i \in 1..Len(u), NEW j \in 1..Len(Tail(a)) PROVE u[i].req < Tail(a)[j]
    BY DEF Ahead
  <2>1. CASE i \in 1..Len(t) /\ u[i] = t[i]
    BY <1>5, <2>1
  <2>2. CASE u[i] = [req |-> k, pos |-> n + (i - Len(t))]
    BY <1>5, <2>2
  <2> QED
    BY <1>6, <2>1, <2>2
<1> QED
  BY <1>2, <1>7, <1>8, <1>9 DEF u, s

\* A request joins those that the device has.
LEMMA AddRequest ==
  ASSUME NEW a \in Seq(1..MaxCalls), NEW lo \in Nat, NEW n \in Nat, n < MaxCalls, lo <= n,
         Increasing(a, lo, n)
  PROVE  /\ Append(a, n + 1) \in Seq(1..MaxCalls)
         /\ Increasing(Append(a, n + 1), lo, n + 1)
<1> DEFINE b == Append(a, n + 1)
<1>1. n + 1 \in 1..MaxCalls /\ Len(a) \in Nat
  BY Positive, LenProperties
<1>2. b \in Seq(1..MaxCalls) /\ Len(b) = Len(a) + 1
      /\ (\A i \in 1..Len(a) : b[i] = a[i]) /\ b[Len(a) + 1] = n + 1
  BY <1>1, AppendProperties
<1>3. \A i \in 1..Len(a) : a[i] \in Nat /\ lo < a[i] /\ a[i] <= n
  <2> SUFFICES ASSUME NEW i \in 1..Len(a) PROVE a[i] \in Nat /\ lo < a[i] /\ a[i] <= n
    OBVIOUS
  <2>1. a[i] \in 1..MaxCalls
    BY ElementOfSeq
  <2> QED
    BY <2>1, Positive DEF Increasing
<1> HIDE DEF b
<1>4. ASSUME NEW i \in 1..Len(b)
      PROVE  \/ i \in 1..Len(a) /\ b[i] = a[i]
             \/ i = Len(a) + 1 /\ b[i] = n + 1
  <2>1. i \in 1..Len(a) \/ i = Len(a) + 1
    BY <1>1, <1>2
  <2> QED
    BY <1>2, <2>1
<1>5. ASSUME NEW i \in 1..Len(b) PROVE lo < b[i] /\ b[i] <= n + 1
  <2>1. CASE i \in 1..Len(a) /\ b[i] = a[i]
    BY <1>3, <2>1
  <2>2. CASE b[i] = n + 1
    BY <2>2
  <2> QED
    BY <1>4, <2>1, <2>2
<1>6. ASSUME NEW i \in 1..Len(b), NEW j \in 1..Len(b), i < j PROVE b[i] < b[j]
  <2>1. i \in 1..Len(a) /\ b[i] = a[i]
    BY <1>1, <1>2, <1>6
  <2>2. CASE j \in 1..Len(a) /\ b[j] = a[j]
    BY <1>6, <2>1, <2>2 DEF Increasing
  <2>3. CASE b[j] = n + 1
    BY <1>3, <2>1, <2>3
  <2> QED
    BY <1>4, <2>2, <2>3
<1> QED
  BY <1>2, <1>5, <1>6 DEF Increasing, b

\* Bounds may be loosened, and a request that was dealt with is dropped.
LEMMA Loosen ==
  ASSUME NEW t \in Seq(Bytes), NEW a \in Seq(1..MaxCalls), NEW lo \in Nat, NEW hi \in Nat,
         NEW h \in Nat, hi <= h,
         Within(t, lo, hi), Increasing(a, lo, hi)
  PROVE  Within(t, lo, h) /\ Increasing(a, lo, h)
<1>1. ASSUME NEW i \in 1..Len(t) PROVE lo < t[i].req /\ t[i].req <= h
  <2>1. t[i] \in Bytes /\ lo < t[i].req /\ t[i].req <= hi
    BY ElementOfSeq DEF Within
  <2>2. t[i].req \in Nat
    BY <2>1, Positive DEF Bytes
  <2> QED
    BY <2>1, <2>2
<1>2. ASSUME NEW i \in 1..Len(a) PROVE lo < a[i] /\ a[i] <= h
  <2>1. a[i] \in 1..MaxCalls /\ lo < a[i] /\ a[i] <= hi
    BY ElementOfSeq DEF Increasing
  <2> QED
    BY <2>1, Positive
<1> QED
  BY <1>1, <1>2 DEF Within, Increasing

LEMMA DropRequest ==
  ASSUME NEW t, NEW a \in Seq(1..MaxCalls), a # <<>>, NEW lo, NEW hi, Ahead(t, a), Increasing(a, lo, hi)
  PROVE  Ahead(t, Tail(a)) /\ Increasing(Tail(a), lo, hi) /\ Tail(a) \in Seq(1..MaxCalls)
<1>1. Tail(a) \in Seq(1..MaxCalls) /\ Len(a) \in Nat /\ Len(Tail(a)) = Len(a) - 1
      /\ \A i \in 1..Len(Tail(a)) : Tail(a)[i] = a[i + 1]
  BY HeadTailProperties, LenProperties
<1>2. ASSUME NEW i \in 1..Len(Tail(a)) PROVE i + 1 \in 1..Len(a) /\ Tail(a)[i] = a[i + 1]
  BY <1>1
<1>3. Ahead(t, Tail(a))
  BY <1>2 DEF Ahead
<1>4. ASSUME NEW i \in 1..Len(Tail(a)), NEW j \in 1..Len(Tail(a)), i < j PROVE Tail(a)[i] < Tail(a)[j]
  <2>1. i + 1 < j + 1
    BY <1>1, <1>4
  <2> QED
    BY <1>2, <2>1 DEF Increasing
<1> QED
  BY <1>1, <1>2, <1>3, <1>4 DEF Increasing

\* The next reply answers a later request: those that remain are later still.
LEMMA AfterFrame ==
  ASSUME NEW x \in Seq(Bytes), NEW t \in Seq(Bytes), NEW a \in Seq(1..MaxCalls), NEW k \in Nat,
         NEW lo, NEW hi,
         x[1].req = k, Len(x) >= 1, Ahead(x \o t, a), Increasing(a, lo, hi)
  PROVE  Increasing(a, k, hi)
<1>1. Len(x) \in Nat /\ Len(t) \in Nat /\ Len(x \o t) = Len(x) + Len(t)
  BY ConcatProperties, LenProperties
<1>2. 1 \in 1..Len(x) + Len(t) /\ 1 <= Len(x)
  BY <1>1
<1>3. (x \o t)[1] = x[1] /\ 1 \in 1..Len(x \o t)
  BY <1>1, <1>2, ConcatProperties
<1> QED
  BY <1>3 DEF Ahead, Increasing

LEMMA AheadOfNext ==
  ASSUME NEW t \in Seq(Bytes), NEW a \in Seq(1..MaxCalls), NEW n \in Nat, n < MaxCalls,
         NEW lo, Within(t, lo, n), Ahead(t, a)
  PROVE  Ahead(t, Append(a, n + 1))
<1> DEFINE b == Append(a, n + 1)
<1>1. n + 1 \in 1..MaxCalls /\ Len(a) \in Nat
  BY Positive, LenProperties
<1>2. Len(b) = Len(a) + 1 /\ (\A i \in 1..Len(a) : b[i] = a[i]) /\ b[Len(a) + 1] = n + 1
  BY <1>1, AppendProperties
<1> HIDE DEF b
<1>3. ASSUME NEW i \in 1..Len(t), NEW j \in 1..Len(b) PROVE t[i].req < b[j]
  <2>1. j \in 1..Len(a) \/ j = Len(a) + 1
    BY <1>1, <1>2
  <2>2. CASE j \in 1..Len(a)
    BY <1>2, <2>2 DEF Ahead
  <2>3. CASE j = Len(a) + 1
    <3>1. t[i] \in Bytes /\ t[i].req <= n
      BY ElementOfSeq DEF Within
    <3>2. t[i].req \in Nat
      BY <3>1, Positive DEF Bytes
    <3> QED
      BY <1>2, <2>3, <3>1, <3>2
  <2> QED
    BY <2>1, <2>2, <2>3
<1> QED
  BY <1>3 DEF Ahead, b

-----------------------------------------------------------------------------
(* The invariant holds at first, and each action keeps it.                 *)

LEMMA Numeric ==
  ASSUME LinkTypes
  PROVE  /\ Calls \in Nat /\ Calls <= MaxCalls /\ MaxCalls \in Nat /\ reply \in Nat /\ missed \in Nat
         /\ need \in Nat /\ Len(hold) \in Nat /\ Len(input) \in Nat
         /\ Stream \in Seq(Bytes)
<1>1. Stream \in Seq(Bytes)
  BY InPlaces DEF LinkTypes, Stream
<1>2. /\ Len(cmds) \in Nat /\ Len(hold) \in Nat /\ Len(input) \in Nat
  BY LenProperties DEF LinkTypes
<1> QED
  BY <1>1, <1>2, Positive DEF LinkTypes, Calls

LEMMA LinkStarts == LinkInit => LinkInv
<1> SUFFICES ASSUME LinkInit PROVE LinkInv
  OBVIOUS
<1>1. <<>> \in Seq(Bytes) /\ <<>> \in Seq(Commands) /\ <<>> \in Seq(1..MaxCalls) /\ Len(<<>>) = 0
  BY EmptySeq
<1>2. Stream = <<>>
  <2>1. Stream = <<>> \o <<>>
    BY <1>1, InPlaces DEF LinkInit, Stream
  <2> QED
    BY <1>1, <2>1, ConcatEmptySeq
<1>3. LinkTypes
  BY <1>1, Positive DEF LinkInit, LinkTypes, Calls, Outcomes
<1>4. Places
  BY DEF LinkInit, Places
<1>5. Order
  <2>1. owed = <<>>
    BY DEF LinkInit
  <2> QED
    BY <1>1, <1>2, <2>1 DEF Order, Ordered, Within, Ahead, Increasing
<1>6. Lag
  BY <1>1 DEF LinkInit, Lag, Calls, UnderWay
<1>7. DenialJustified
  BY DEF LinkInit, DenialJustified
<1> QED
  BY <1>3, <1>4, <1>5, <1>6, <1>7 DEF LinkInv

LEMMA WriteKeeps ==
  ASSUME LinkInv, NEW c \in Commands, Write(c)
  PROVE  LinkInv'
<1>1. /\ step = "idle" /\ Calls < MaxCalls
      /\ cmds' = Append(cmds, c) /\ owed' = Append(owed, Calls + 1)
      /\ hold' = pushback /\ pushback' = <<>> /\ need' = 1 /\ step' = "length"
      /\ UNCHANGED <<input, head, outcome, reply, missed, avail>>
      /\ LinkTypes /\ Places /\ Order /\ Lag /\ DenialJustified
  BY DEF Write, LinkInv
<1>2. /\ Calls \in Nat /\ Calls <= MaxCalls /\ MaxCalls \in Nat /\ reply \in Nat /\ missed \in Nat
      /\ Stream \in Seq(Bytes)
  BY <1>1, Numeric
<1>3. cmds' \in Seq(Commands) /\ Calls' = Calls + 1
  BY <1>1, AppendProperties DEF LinkTypes, Calls
<1>4. hold = <<>> /\ head = <<>>
  BY <1>1 DEF Places
<1>5. reply <= Calls
  BY <1>1, <1>2 DEF Lag, UnderWay
<1>6. /\ owed' \in Seq(1..MaxCalls) /\ Increasing(owed', reply, Calls')
      /\ Within(Stream, reply, Calls') /\ Ahead(Stream, owed')
  <2>1. /\ owed \in Seq(1..MaxCalls) /\ Within(Stream, reply, Calls) /\ Increasing(owed, reply, Calls)
        /\ Ahead(Stream, owed)
    BY <1>1 DEF LinkTypes, Order
  <2>2. owed' \in Seq(1..MaxCalls) /\ Increasing(owed', reply, Calls + 1)
    BY <1>1, <1>2, <1>5, <2>1, AddRequest
  <2>3. Within(Stream, reply, Calls + 1)
    BY <1>2, <2>1, Loosen
  <2>4. Ahead(Stream, owed')
    BY <1>1, <1>2, <2>1, AheadOfNext
  <2> QED
    BY <1>3, <2>2, <2>3, <2>4
<1>7. Stream' = Stream
  BY <1>1, <1>4, InPlaces DEF Stream, LinkTypes
<1>8. LinkTypes'
  BY <1>1, <1>3, <1>6, EmptySeq DEF LinkTypes
<1>9. Places'
  BY <1>1, <1>4 DEF Places
<1>10. Order'
  BY <1>1, <1>6, <1>7 DEF Order
<1>11. Lag'
  BY <1>1, <1>2, <1>3 DEF Lag, UnderWay
<1>12. DenialJustified'
  BY <1>1 DEF DenialJustified
<1> QED
  BY <1>8, <1>9, <1>10, <1>11, <1>12 DEF LinkInv

LEMMA WriteFailsKeeps ==
  ASSUME LinkInv, NEW c \in Commands, WriteFails(c)
  PROVE  LinkInv'
<1>1. /\ step = "idle" /\ Calls < MaxCalls
      /\ cmds' = Append(cmds, c) /\ owed' \in {owed, Append(owed, Calls + 1)}
      /\ step' = "idle" /\ outcome' = "timeout" /\ missed' = missed + 1 /\ head' = <<>> /\ hold' = <<>>
      /\ UNCHANGED <<input, pushback, need, reply, avail>>
      /\ LinkTypes /\ Places /\ Order /\ Lag /\ DenialJustified
  BY DEF WriteFails, EndsWithout, LinkInv
<1>2. /\ Calls \in Nat /\ Calls <= MaxCalls /\ MaxCalls \in Nat /\ reply \in Nat /\ missed \in Nat
      /\ Stream \in Seq(Bytes)
  BY <1>1, Numeric
<1>3. cmds' \in Seq(Commands) /\ Calls' = Calls + 1
  BY <1>1, AppendProperties DEF LinkTypes, Calls
<1>4. hold = <<>> /\ head = <<>>
  BY <1>1 DEF Places
<1>5. reply <= Calls
  BY <1>1, <1>2 DEF Lag, UnderWay
<1>6. /\ owed' \in Seq(1..MaxCalls) /\ Increasing(owed', reply, Calls')
      /\ Within(Stream, reply, Calls') /\ Ahead(Stream, owed')
  <2>1. /\ owed \in Seq(1..MaxCalls) /\ Within(Stream, reply, Calls) /\ Increasing(owed, reply, Calls)
        /\ Ahead(Stream, owed)
    BY <1>1 DEF LinkTypes, Order
  <2>2. /\ Append(owed, Calls + 1) \in Seq(1..MaxCalls)
        /\ Increasing(Append(owed, Calls + 1), reply, Calls + 1)
    BY <1>1, <1>2, <1>5, <2>1, AddRequest
  <2>3. Within(Stream, reply, Calls + 1) /\ Increasing(owed, reply, Calls + 1)
    BY <1>2, <2>1, Loosen
  <2>4. Ahead(Stream, Append(owed, Calls + 1))
    BY <1>1, <1>2, <2>1, AheadOfNext
  <2> QED
    BY <1>1, <1>3, <2>1, <2>2, <2>3, <2>4
<1>7. Stream' = Stream
  BY <1>1, <1>4 DEF Stream
<1>8. LinkTypes'
  BY <1>1, <1>2, <1>3, <1>6, EmptySeq DEF LinkTypes, Outcomes
<1>9. Places'
  BY <1>1 DEF Places
<1>10. Order'
  BY <1>1, <1>6, <1>7 DEF Order
<1>11. Lag'
  BY <1>1, <1>2, <1>3 DEF Lag, UnderWay
<1>12. DenialJustified'
  BY <1>1, <1>2 DEF DenialJustified
<1> QED
  BY <1>8, <1>9, <1>10, <1>11, <1>12 DEF LinkInv

LEMMA ReceiveKeeps ==
  ASSUME LinkInv, Receive
  PROVE  LinkInv'
<1>1. PICK n \in 1..Len(input) :
        /\ hold' = hold \o SubSeq(input, 1, n)
        /\ input' = SubSeq(input, n + 1, Len(input))
  BY DEF Receive
<1>2. /\ step \in {"length", "rest"}
      /\ UNCHANGED <<step, cmds, owed, pushback, need, head, outcome, reply, missed, avail>>
      /\ LinkTypes /\ Places /\ Order /\ Lag /\ DenialJustified
  BY DEF Receive, Waiting, Reading, LinkInv
<1>3. /\ input \in Seq(Bytes) /\ hold \in Seq(Bytes) /\ head \in Seq(Bytes) /\ n \in 0..Len(input)
  BY <1>2, Numeric DEF LinkTypes
<1>4. input' \in Seq(Bytes) /\ hold' \in Seq(Bytes)
  <2>1. SubSeq(input, 1, n) \in Seq(Bytes) /\ SubSeq(input, n + 1, Len(input)) \in Seq(Bytes)
    BY <1>3, Cut
  <2> QED
    BY <1>1, <1>3, <2>1, ConcatProperties
<1>5. Stream' = Stream
  <2>1. pushback = <<>>
    BY <1>2 DEF Places
  <2>2. Stream = (head \o hold) \o input /\ Stream' = (head \o hold') \o input'
    BY <1>2, <1>3, <1>4, <2>1, InPlaces DEF Stream
  <2> QED
    BY <1>1, <1>3, <2>2, ChunkMoves
<1>6. LinkTypes'
  BY <1>2, <1>4 DEF LinkTypes, Calls
<1>7. Places'
  BY <1>2 DEF Places
<1>8. Order'
  BY <1>2, <1>5 DEF Order, Calls
<1>9. Lag' /\ DenialJustified'
  BY <1>2 DEF Lag, UnderWay, Calls, DenialJustified
<1> QED
  BY <1>6, <1>7, <1>8, <1>9 DEF LinkInv

LEMMA TakeLengthKeeps ==
  ASSUME LinkInv, TakeLength
  PROVE  LinkInv'
<1>1. /\ step = "length" /\ Len(hold) >= 1
      /\ head' = SubSeq(hold, 1, 1) /\ hold' = Tail(hold)
      /\ need' \in IF Head(hold).pos = 1 THEN {FrameSize - 1} ELSE Misreads
      /\ step' = "rest"
      /\ UNCHANGED <<cmds, owed, input, pushback, outcome, reply, missed, avail>>
      /\ LinkTypes /\ Places /\ Order /\ Lag /\ DenialJustified
  BY DEF TakeLength, LinkInv
<1>2. /\ input \in Seq(Bytes) /\ hold \in Seq(Bytes) /\ Len(hold) \in Nat /\ head = <<>> /\ pushback = <<>>
  BY <1>1, Numeric DEF LinkTypes, Places
<1>3. hold # <<>> /\ hold' = SubSeq(hold, 2, Len(hold))
  <2>1. hold # <<>>
    BY <1>1, EmptySeq
  <2> QED
    BY <1>1, <1>2, <2>1, TailIsSubSeq
<1>4. head' \in Seq(Bytes) /\ hold' \in Seq(Bytes) /\ head' \o hold' = hold
  <2>1. 1 \in 0..Len(hold) /\ 1 + 1 = 2
    BY <1>1, <1>2
  <2> QED
    BY <1>1, <1>2, <1>3, <2>1, Cut
<1>5. need' \in Nat
  BY <1>1, Positive, LinkAssumption
<1>6. Stream' = Stream
  <2>1. Stream = hold \o input
    BY <1>2, InPlaces DEF Stream
  <2>2. Stream' = (head' \o hold') \o input
    BY <1>1, <1>2, <1>4, InPlaces DEF Stream
  <2> QED
    BY <1>4, <2>1, <2>2
<1>7. LinkTypes'
  BY <1>1, <1>4, <1>5 DEF LinkTypes, Calls
<1>8. Places'
  BY <1>1, <1>2 DEF Places
<1>9. Order'
  BY <1>1, <1>6 DEF Order, Calls
<1>10. Lag' /\ DenialJustified'
  BY <1>1 DEF Lag, UnderWay, Calls, DenialJustified
<1> QED
  BY <1>7, <1>8, <1>9, <1>10 DEF LinkInv

\* What a call leaves behind when what it read is dropped.
LEMMA DropKeepsOrder ==
  ASSUME NEW x \in Seq(Bytes), NEW t \in Seq(Bytes), Stream = x \o t, Order
  PROVE  Ordered(t) /\ Within(t, reply, Calls) /\ Ahead(t, owed) /\ Increasing(owed, reply, Calls)
<1>1. /\ Ordered(x \o t) /\ Within(x \o t, reply, Calls)
      /\ Ahead(x \o t, owed) /\ Increasing(owed, reply, Calls)
  BY DEF Order
<1> QED
  BY <1>1, DropFront

LEMMA DrainedKeeps ==
  ASSUME LinkInv, Drained
  PROVE  LinkInv'
<1>1. PICK n \in 0..Len(input) : input' = SubSeq(input, n + 1, Len(input))
  BY DEF Drained
<1>2. /\ step = "drain" /\ step' = "idle" /\ outcome' = "malformed" /\ missed' = missed + 1
      /\ head' = <<>> /\ hold' = <<>>
      /\ UNCHANGED <<cmds, owed, pushback, need, reply, avail>>
      /\ LinkTypes /\ Places /\ Order /\ Lag /\ DenialJustified
  BY DEF Drained, EndsWithout, LinkInv
<1>3. /\ Calls \in Nat /\ reply \in Nat /\ missed \in Nat
  BY <1>2, Numeric
<1>4. input \in Seq(Bytes) /\ head = <<>> /\ hold = <<>> /\ pushback = <<>>
  BY <1>2 DEF LinkTypes, Places
<1>5. /\ SubSeq(input, 1, n) \in Seq(Bytes) /\ input' \in Seq(Bytes)
      /\ input = SubSeq(input, 1, n) \o input'
  BY <1>1, <1>4, Cut
<1>6. Stream = SubSeq(input, 1, n) \o input' /\ Stream' = input'
  <2>1. Stream = <<>> \o input /\ Stream' = <<>> \o input'
    BY <1>2, <1>4, <1>5, InPlaces, EmptySeq DEF Stream
  <2> QED
    BY <1>4, <1>5, <2>1, ConcatEmptySeq
<1>7. /\ Ordered(input') /\ Within(input', reply, Calls) /\ Ahead(input', owed)
      /\ Increasing(owed, reply, Calls)
  BY <1>2, <1>5, <1>6, DropKeepsOrder
<1>8. LinkTypes'
  BY <1>2, <1>3, <1>5, EmptySeq DEF LinkTypes, Calls, Outcomes
<1>9. Places'
  BY <1>2 DEF Places
<1>10. Order'
  BY <1>2, <1>6, <1>7 DEF Order, Calls
<1>11. Lag' /\ DenialJustified'
  BY <1>2, <1>3 DEF Lag, UnderWay, Calls, DenialJustified
<1> QED
  BY <1>8, <1>9, <1>10, <1>11 DEF LinkInv

LEMMA TimeoutKeepsLink ==
  ASSUME LinkInv, TimesOut
  PROVE  LinkInv'
<1>1. /\ step \in {"length", "rest"} /\ pushback' = hold
      /\ step' = "idle" /\ outcome' = "timeout" /\ missed' = missed + 1 /\ head' = <<>> /\ hold' = <<>>
      /\ UNCHANGED <<cmds, owed, input, need, reply, avail>>
      /\ LinkTypes /\ Places /\ Order /\ Lag /\ DenialJustified
  BY DEF TimesOut, Waiting, Reading, EndsWithout, LinkInv
<1>2. /\ Calls \in Nat /\ reply \in Nat /\ missed \in Nat
  BY <1>1, Numeric
<1>3. input \in Seq(Bytes) /\ hold \in Seq(Bytes) /\ head \in Seq(Bytes) /\ pushback = <<>>
  BY <1>1 DEF LinkTypes, Places
<1>4. hold \o input \in Seq(Bytes) /\ Stream = head \o (hold \o input) /\ Stream' = hold \o input
  <2>1. Stream = (head \o hold) \o input
    BY <1>3, InPlaces DEF Stream
  <2>2. Stream' = hold \o input
    BY <1>1, <1>3, InPlaces DEF Stream
  <2> QED
    BY <1>3, <2>1, <2>2, AddBack, ConcatProperties
<1>5. /\ Ordered(hold \o input) /\ Within(hold \o input, reply, Calls) /\ Ahead(hold \o input, owed)
      /\ Increasing(owed, reply, Calls)
  BY <1>1, <1>3, <1>4, DropKeepsOrder
<1>6. LinkTypes'
  BY <1>1, <1>2, EmptySeq DEF LinkTypes, Calls, Outcomes
<1>7. Places'
  BY <1>1 DEF Places
<1>8. Order'
  BY <1>1, <1>4, <1>5 DEF Order, Calls
<1>9. Lag' /\ DenialJustified'
  BY <1>1, <1>2 DEF Lag, UnderWay, Calls, DenialJustified
<1> QED
  BY <1>6, <1>7, <1>8, <1>9 DEF LinkInv

LEMMA CancelKeeps ==
  ASSUME LinkInv, Cancel
  PROVE  LinkInv'
<1>1. /\ step \in {"length", "rest", "drain"}
      /\ step' = "idle" /\ outcome' = "cancelled" /\ missed' = missed + 1 /\ head' = <<>> /\ hold' = <<>>
      /\ UNCHANGED <<cmds, owed, input, pushback, need, reply, avail>>
      /\ LinkTypes /\ Places /\ Order /\ Lag /\ DenialJustified
  BY DEF Cancel, Waiting, Reading, EndsWithout, LinkInv
<1>2. /\ Calls \in Nat /\ reply \in Nat /\ missed \in Nat
  BY <1>1, Numeric
<1>3. input \in Seq(Bytes) /\ hold \in Seq(Bytes) /\ head \in Seq(Bytes) /\ pushback = <<>>
  BY <1>1 DEF LinkTypes, Places
<1>4. head \o hold \in Seq(Bytes) /\ Stream = (head \o hold) \o input /\ Stream' = input
  <2>1. head \o hold \in Seq(Bytes) /\ <<>> \o input = input
    BY <1>3, ConcatProperties, ConcatEmptySeq
  <2>2. Stream = (head \o hold) \o input
    BY <1>3, InPlaces DEF Stream
  <2>3. Stream' = <<>> \o input
    BY <1>1, <1>3, InPlaces, EmptySeq DEF Stream
  <2> QED
    BY <2>1, <2>2, <2>3
<1>5. /\ Ordered(input) /\ Within(input, reply, Calls)
      /\ Ahead(input, owed) /\ Increasing(owed, reply, Calls)
  BY <1>1, <1>3, <1>4, DropKeepsOrder
<1>6. LinkTypes'
  BY <1>1, <1>2, EmptySeq DEF LinkTypes, Calls, Outcomes
<1>7. Places'
  BY <1>1 DEF Places
<1>8. Order'
  BY <1>1, <1>4, <1>5 DEF Order, Calls
<1>9. Lag' /\ DenialJustified'
  BY <1>1, <1>2 DEF Lag, UnderWay, Calls, DenialJustified
<1> QED
  BY <1>6, <1>7, <1>8, <1>9 DEF LinkInv

LEMMA AnswerKeeps ==
  ASSUME LinkInv, Answers
  PROVE  LinkInv'
<1>1. PICK n \in 0..Lost : input' = input \o SubSeq(Frame(Head(owed)), n + 1, FrameSize)
  BY DEF Answers
<1> DEFINE s == SubSeq(Frame(Head(owed)), n + 1, FrameSize)
<1>2. /\ owed # <<>> /\ owed' = Tail(owed)
      /\ UNCHANGED <<step, cmds, pushback, hold, need, head, outcome, reply, missed, avail>>
      /\ LinkTypes /\ Places /\ Order /\ Lag /\ DenialJustified
  BY DEF Answers, LinkInv
<1>3. /\ Calls \in Nat /\ reply \in Nat /\ Stream \in Seq(Bytes)
      /\ input \in Seq(Bytes) /\ (head \o hold) \o pushback \in Seq(Bytes)
      /\ owed \in Seq(1..MaxCalls) /\ Head(owed) \in 1..MaxCalls
  <2>1. head \o hold \in Seq(Bytes) /\ pushback \in Seq(Bytes)
    BY <1>2, ConcatProperties DEF LinkTypes
  <2>2. (head \o hold) \o pushback \in Seq(Bytes)
    BY <2>1, ConcatProperties
  <2> QED
    BY <1>2, <2>2, Numeric, HeadTailProperties DEF LinkTypes
<1>4. /\ s \in Seq(Bytes) /\ Ordered(Stream \o s) /\ Within(Stream \o s, reply, Calls)
      /\ Ahead(Stream \o s, owed') /\ Increasing(owed', reply, Calls) /\ owed' \in Seq(1..MaxCalls)
  <2>1. /\ Ordered(Stream) /\ Within(Stream, reply, Calls)
        /\ Ahead(Stream, owed) /\ Increasing(owed, reply, Calls)
    BY <1>2 DEF Order
  <2>2. /\ s \in Seq(Bytes) /\ Ordered(Stream \o s) /\ Within(Stream \o s, reply, Calls)
        /\ Ahead(Stream \o s, Tail(owed))
    BY <1>2, <1>3, <2>1, AddFrame
  <2>3. Increasing(Tail(owed), reply, Calls) /\ Tail(owed) \in Seq(1..MaxCalls)
    BY <1>2, <1>3, <2>1, DropRequest
  <2> QED
    BY <1>2, <2>2, <2>3
<1>5. input' = input \o s
  BY <1>1
<1> HIDE DEF s
<1>6. input' \in Seq(Bytes) /\ Stream' = Stream \o s
  <2>1. Stream' = ((head \o hold) \o pushback) \o (input \o s)
    BY <1>2, <1>5 DEF Stream
  <2>2. ((head \o hold) \o pushback) \o (input \o s) = (((head \o hold) \o pushback) \o input) \o s
    BY <1>3, <1>4, AddBack
  <2> QED
    BY <1>3, <1>4, <1>5, <2>1, <2>2, ConcatProperties DEF Stream
<1>7. LinkTypes'
  BY <1>2, <1>4, <1>6 DEF LinkTypes, Calls
<1>8. Places'
  BY <1>2 DEF Places
<1>9. Order'
  BY <1>2, <1>4, <1>6 DEF Order, Calls
<1>10. Lag' /\ DenialJustified'
  BY <1>2 DEF Lag, UnderWay, Calls, DenialJustified
<1> QED
  BY <1>7, <1>8, <1>9, <1>10 DEF LinkInv

LEMMA IgnoreKeeps ==
  ASSUME LinkInv, Ignore
  PROVE  LinkInv'
<1>1. /\ owed # <<>> /\ owed' = Tail(owed)
      /\ UNCHANGED <<step, cmds, input, pushback, hold, need, head, outcome, reply, missed, avail>>
      /\ LinkTypes /\ Places /\ Order /\ Lag /\ DenialJustified
  BY DEF Ignore, LinkInv
<1>2. Ahead(Stream, owed') /\ Increasing(owed', reply, Calls) /\ owed' \in Seq(1..MaxCalls)
  <2>1. owed \in Seq(1..MaxCalls) /\ Ahead(Stream, owed) /\ Increasing(owed, reply, Calls)
    BY <1>1 DEF LinkTypes, Order
  <2> QED
    BY <1>1, <2>1, DropRequest
<1>3. LinkTypes'
  BY <1>1, <1>2 DEF LinkTypes, Calls
<1>4. Places' /\ Lag' /\ DenialJustified'
  BY <1>1 DEF Places, Lag, UnderWay, Calls, DenialJustified
<1>5. Order'
  BY <1>1, <1>2 DEF Order, Calls, Stream
<1> QED
  BY <1>3, <1>4, <1>5 DEF LinkInv

LEMMA TakeFrameKeeps ==
  ASSUME LinkInv, TakeFrame
  PROVE  LinkInv'
<1> DEFINE raw  == head \o SubSeq(hold, 1, need)
           left == SubSeq(hold, need + 1, Len(hold))
<1>1. /\ step = "rest" /\ Len(hold) >= need /\ hold' = <<>> /\ head' = <<>>
      /\ UNCHANGED <<cmds, owed, input, need, missed>>
      /\ LinkTypes /\ Places /\ Order /\ Lag /\ DenialJustified
      /\ \/ /\ Whole(raw) /\ step' = "idle" /\ reply' = raw[1].req
            /\ outcome' = IF Refusal(reply') THEN "refusal" ELSE "success"
            /\ avail' = [avail EXCEPT ![cmds[Calls]] = IF Refusal(reply') THEN "UNSUPPORTED" ELSE "SUPPORTED"]
            /\ pushback' = left
         \/ step' = "drain" /\ pushback' = <<>> /\ UNCHANGED <<reply, outcome, avail>>
  BY DEF TakeFrame, LinkInv
<1>2. /\ Calls \in Nat /\ Calls <= MaxCalls /\ reply \in Nat /\ missed \in Nat /\ MaxCalls \in Nat
      /\ Len(hold) \in Nat /\ need \in Nat
  BY <1>1, Numeric
<1>3. input \in Seq(Bytes) /\ hold \in Seq(Bytes) /\ head \in Seq(Bytes) /\ pushback = <<>>
  BY <1>1 DEF LinkTypes, Places
<1>4. need \in 0..Len(hold)
  BY <1>1, <1>2
<1>5. /\ raw \in Seq(Bytes) /\ left \in Seq(Bytes) /\ left \o input \in Seq(Bytes)
      /\ Stream = raw \o (left \o input)
  <2>1. Stream = (head \o hold) \o input
    BY <1>3, InPlaces DEF Stream
  <2> QED
    BY <1>3, <1>4, <2>1, FrameLeaves, Cut
<1> HIDE DEF raw, left
<1>6. CASE step' = "drain" /\ pushback' = <<>> /\ UNCHANGED <<reply, outcome, avail>>
  <2>1. raw \o left \in Seq(Bytes) /\ Stream = (raw \o left) \o input
    <3>1. raw \o left \in Seq(Bytes)
      BY <1>5, ConcatProperties
    <3>2. raw \o (left \o input) = (raw \o left) \o input
      BY <1>3, <1>5, AddBack
    <3> QED
      BY <1>5, <3>1, <3>2
  <2>2. Stream' = input
    <3>1. Stream' = <<>> \o input
      BY <1>1, <1>3, <1>6, InPlaces, EmptySeq DEF Stream
    <3> QED
      BY <1>3, <3>1, ConcatEmptySeq
  <2>3. /\ Ordered(input) /\ Within(input, reply, Calls)
        /\ Ahead(input, owed) /\ Increasing(owed, reply, Calls)
    BY <1>1, <1>3, <2>1, DropKeepsOrder
  <2>4. LinkTypes'
    BY <1>1, <1>6, EmptySeq DEF LinkTypes, Calls
  <2>5. Places'
    BY <1>1, <1>6 DEF Places
  <2>6. Order'
    BY <1>1, <1>6, <2>2, <2>3 DEF Order, Calls
  <2>7. Lag' /\ DenialJustified'
    BY <1>1, <1>6 DEF Lag, UnderWay, Calls, DenialJustified
  <2> QED
    BY <2>4, <2>5, <2>6, <2>7 DEF LinkInv
<1>7. CASE /\ Whole(raw) /\ step' = "idle" /\ reply' = raw[1].req
           /\ outcome' = IF Refusal(reply') THEN "refusal" ELSE "success"
           /\ avail' = [avail EXCEPT ![cmds[Calls]] = IF Refusal(reply') THEN "UNSUPPORTED" ELSE "SUPPORTED"]
           /\ pushback' = left
  <2>1. PICK k \in 1..Calls : raw = Frame(k)
    BY <1>7 DEF Whole
  <2>2. /\ Ordered(raw \o (left \o input)) /\ Within(raw \o (left \o input), reply, Calls)
        /\ Ahead(raw \o (left \o input), owed) /\ Increasing(owed, reply, Calls)
    BY <1>1, <1>5 DEF Order
  <2>3. Within(left \o input, k, Calls) /\ reply' = k /\ reply < k /\ k <= Calls
    <3>1. k \in Nat /\ k <= Calls
      BY <1>2
    <3>2. Within(left \o input, k, Calls) /\ raw[1].req = k /\ reply < k
      <4> DEFINE t == left \o input
      <4>1. /\ raw \in Seq(Bytes) /\ t \in Seq(Bytes) /\ k \in Nat
            /\ raw = Frame(k) /\ Ordered(raw \o t) /\ Within(raw \o t, reply, Calls)
        BY <1>5, <2>1, <2>2, <3>1
      <4> HIDE DEF t
      <4>2. Within(t, k, Calls) /\ raw[1].req = k /\ reply < k
        BY <4>1, PastFrame
      <4> QED
        BY <4>2 DEF t
    <3> QED
      BY <1>7, <3>1, <3>2
  <2>4. Ordered(left \o input) /\ Ahead(left \o input, owed)
    BY <1>5, <2>2, DropFront
  <2>5. Increasing(owed, k, Calls)
    <3>1. owed \in Seq(1..MaxCalls) /\ raw[1].req = k /\ Len(raw) >= 1 /\ k \in Nat
      BY <1>1, <1>2, <1>7, <2>1, <2>3, Positive, LenProperties DEF LinkTypes, Frame
    <3> QED
      BY <1>5, <2>2, <3>1, AfterFrame
  <2>6. Stream' = left \o input
    BY <1>1, <1>3, <1>5, <1>7, InPlaces, EmptySeq DEF Stream
  <2>7. Calls \in 1..Len(cmds) /\ cmds[Calls] \in Commands
    BY <1>1, <1>2, <2>3, ElementOfSeq DEF LinkTypes, Calls
  <2>8. LinkTypes'
    BY <1>1, <1>2, <1>5, <1>7, <2>3, <2>7, EmptySeq DEF LinkTypes, Calls, Outcomes
  <2>9. Places'
    BY <1>1, <1>7 DEF Places
  <2>10. Order'
    BY <1>1, <2>3, <2>4, <2>5, <2>6 DEF Order, Calls
  <2>11. Lag'
    BY <1>1, <1>2, <1>7, <2>3 DEF Lag, UnderWay, Calls
  <2>12. DenialJustified'
    <3> SUFFICES ASSUME missed = 0, NEW c \in Commands
                 PROVE  /\ avail'[c] = "UNSUPPORTED" => c \in Lacks
                        /\ avail'[c] = "SUPPORTED" => c \notin Lacks
      BY <1>1 DEF DenialJustified
    <3>1. k = Calls
      BY <1>1, <1>2, <2>3 DEF Lag, UnderWay
    <3>2. avail' = [avail EXCEPT ![cmds[Calls]] = IF cmds[Calls] \in Lacks THEN "UNSUPPORTED" ELSE "SUPPORTED"]
      BY <1>7, <2>3, <3>1 DEF Refusal
    <3>3. /\ avail[c] = "UNSUPPORTED" => c \in Lacks
          /\ avail[c] = "SUPPORTED" => c \notin Lacks
          /\ avail \in [Commands -> {"UNKNOWN", "SUPPORTED", "UNSUPPORTED"}]
      BY <1>1 DEF DenialJustified, LinkTypes
    <3> QED
      BY <2>7, <3>2, <3>3
  <2> QED
    BY <2>8, <2>9, <2>10, <2>11, <2>12 DEF LinkInv
<1> QED
  BY <1>1, <1>6, <1>7

-----------------------------------------------------------------------------
LEMMA LinkInductive == LinkSpec => []LinkInv
<1>1. LinkInv /\ [LinkNext]_linkVars => LinkInv'
  <2> SUFFICES ASSUME LinkInv, [LinkNext]_linkVars PROVE LinkInv'
    OBVIOUS
  <2>1. ASSUME NEW c \in Commands, Write(c) \/ WriteFails(c) PROVE LinkInv'
    BY <2>1, WriteKeeps, WriteFailsKeeps
  <2>2. CASE Receive \/ TakeLength \/ TakeFrame
    BY <2>2, ReceiveKeeps, TakeLengthKeeps, TakeFrameKeeps
  <2>3. CASE Drained \/ TimesOut \/ Cancel
    BY <2>3, DrainedKeeps, TimeoutKeepsLink, CancelKeeps
  <2>4. CASE Answers \/ Ignore
    BY <2>4, AnswerKeeps, IgnoreKeeps
  <2>5. CASE UNCHANGED linkVars
    BY <2>5 DEF linkVars, LinkInv, LinkTypes, Places, Order, Lag, DenialJustified, Stream, UnderWay,
                Calls, Ordered, Within, Ahead, Increasing
  <2> QED
    BY <2>1, <2>2, <2>3, <2>4, <2>5 DEF LinkNext
<1>2. LinkInit => LinkInv
  BY LinkStarts
<1> QED
  BY <1>1, <1>2, PTL DEF LinkSpec

LEMMA TypesHold == LinkInv => LinkTypeOK
<1> SUFFICES ASSUME LinkInv PROVE LinkTypeOK
  OBVIOUS
<1>1. LinkTypes /\ Lag
  BY DEF LinkInv
<1>2. missed \in 0..MaxCalls
  BY <1>1, Numeric DEF Lag, UnderWay
<1> QED
  BY <1>1, <1>2 DEF LinkTypes, LinkTypeOK

\* Through partial reads, time-outs, push-back, cancellation and drains, no byte is
\* delivered twice or out of order, and none follows a request that is still to be
\* answered (SerialTransport._read_with and _pushback, XbpiProtocolClient.execute).
THEOREM BytesInOrder == LinkSpec => []StreamOrdered
<1>1. LinkInv => StreamOrdered
  <2> SUFFICES ASSUME LinkInv PROVE StreamOrdered
    OBVIOUS
  <2>1. /\ input \in Seq(Bytes) /\ pushback \in Seq(Bytes) /\ hold \in Seq(Bytes) /\ head \in Seq(Bytes)
        /\ Order
    BY DEF LinkInv, LinkTypes
  <2>2. Stream = head \o hold \o pushback \o input
    BY <2>1 DEF Stream
  <2> QED
    BY <2>1, <2>2, TypesHold DEF StreamOrdered, Order, Ordered, Ahead
<1>2. LinkSpec => []LinkInv
  BY LinkInductive
<1> QED
  BY <1>1, <1>2, PTL

\* A frame that is returned to a caller answers its own request or an earlier one,
\* and is late by at most one request for every call that ended without a frame: a
\* reply carries no sequence number, and the client takes what comes next.
THEOREM RepliesLag == LinkSpec => []LagBounded
<1>1. LinkInv => LagBounded
  <2> SUFFICES ASSUME LinkInv PROVE LagBounded
    OBVIOUS
  <2>1. LinkTypes /\ Lag
    BY DEF LinkInv
  <2> QED
    BY <2>1, Numeric DEF Lag, UnderWay, LagBounded
<1>2. LinkSpec => []LinkInv
  BY LinkInductive
<1> QED
  BY <1>1, <1>2, PTL

\* While every call is answered, a command is gated as unsupported only because the
\* device refused that very command, and one known as supported was not refused
\* (Session._availability, set from the reply of the call).
THEOREM DenialsJustified == LinkSpec => []DenialJustified
<1>1. LinkInv => DenialJustified
  BY DEF LinkInv
<1>2. LinkSpec => []LinkInv
  BY LinkInductive
<1> QED
  BY <1>1, <1>2, PTL
=============================================================================
