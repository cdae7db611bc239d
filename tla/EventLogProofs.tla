--------------------------- MODULE EventLogProofs ---------------------------
(***************************************************************************)
(* Proofs about EventLog, for any number of readers and any limits: a      *)
(* subscription has neither hole nor overlap, and the log with its readers *)
(* implements the abstract EventStream.                                    *)
(***************************************************************************)
EXTENDS EventLog, SequenceTheorems, TLAPS

\* Something is retained once something was dropped.
QueueKept == dropped > 0 => Len(retained) > 0

\* Readers never run ahead of the stream.
CursorBehind == \A c \in Clients : cursor[c] <= latest

\* A reader that is told of a gap is also handed an event behind it: this is
\* why the cursor of an answer always covers the gap it reports.
GapFollowed ==
  \A c \in Clients : gap[c] > cursor[c] =>
    /\ pc[c] = "reading" => Len(batch[c]) + Len(replay[c]) > 0
    /\ pc[c] = "answering" => Len(batch[c]) > 0

IInv ==
  /\ TypeOK /\ QueueUnbroken /\ QueueKept
  /\ CursorBehind /\ Stitched /\ GapFollowed

-----------------------------------------------------------------------------
\* What appending, taking the head off and cutting do to a queue of numbers.
LEMMA AppendFacts ==
  ASSUME NEW s \in Seq(Nat), NEW e \in Nat
  PROVE  /\ Append(s, e) \in Seq(Nat) /\ Append(s, e) # <<>>
         /\ Len(Append(s, e)) = Len(s) + 1
         /\ \A i \in 1 .. Len(s) : Append(s, e)[i] = s[i]
         /\ Append(s, e)[Len(s) + 1] = e
OBVIOUS

LEMMA TailFacts ==
  ASSUME NEW s \in Seq(Nat), s # <<>>
  PROVE  /\ Tail(s) \in Seq(Nat) /\ Head(s) \in Nat
         /\ Len(Tail(s)) = Len(s) - 1 /\ Len(s) > 0
         /\ \A i \in 1 .. Len(s) - 1 : Tail(s)[i] = s[i + 1]
         /\ Head(s) = s[1]
OBVIOUS

LEMMA CutFacts ==
  ASSUME NEW s \in Seq(Nat), NEW n \in 0 .. Len(s)
  PROVE  /\ SubSeq(s, n + 1, Len(s)) \in Seq(Nat)
         /\ Len(SubSeq(s, n + 1, Len(s))) = Len(s) - n
         /\ \A i \in 1 .. Len(s) - n : SubSeq(s, n + 1, Len(s))[i] = s[n + i]
OBVIOUS

\* The invariant holds of an empty log.
LEMMA InitInv == Init => IInv
<1> SUFFICES ASSUME Init PROVE IInv
  OBVIOUS
<1> USE LogAssumption DEF Init
<1>1. TypeOK
  <2>1. <<>> \in Seq(Nat) /\ {} \in SUBSET Nat /\ 0 \in Nat /\ 1 \in Nat
    OBVIOUS
  <2>2. replay \in [Clients -> Seq(Nat)] /\ batch \in [Clients -> Seq(Nat)]
        /\ seen \in [Clients -> Seq(Nat)]
    BY <2>1
  <2>3. missed \in [Clients -> SUBSET Nat] /\ receiver \in [Clients -> Nat]
        /\ gap \in [Clients -> Nat] /\ cursor \in [Clients -> Nat]
    BY <2>1
  <2>4. pc \in [Clients -> {"idle", "reading", "answering", "stopped", "failed"}]
    OBVIOUS
  <2>5. latest \in 0 .. MaxSequence /\ dropped \in Nat
    OBVIOUS
  <2>6. settled \in BOOLEAN /\ retained \in Seq(Nat)
    BY <2>1
  <2> QED
    BY <2>2, <2>3, <2>4, <2>5, <2>6 DEF TypeOK
<1>2. QueueUnbroken /\ QueueKept /\ CursorBehind
  BY DEF QueueUnbroken, QueueKept, CursorBehind
<1>3. Stitched /\ GapFollowed
  BY DEF Stitched, GapFollowed
<1> QED
  BY <1>1, <1>2, <1>3 DEF IInv

\* Every action keeps the types.
LEMMA StepType ==
  ASSUME IInv, [Next]_vars
  PROVE  TypeOK'
<1> USE LogAssumption DEF IInv, TypeOK, log, view, request
<1>1. CASE UNCHANGED vars
  BY <1>1 DEF vars
<1>2. CASE Publish
  <2> DEFINE q == Append(retained, latest + 1)
  <2>1. q \in Seq(Nat) /\ q # <<>>
    <3>1. retained \in Seq(Nat) /\ latest + 1 \in Nat
      OBVIOUS
    <3> QED
      BY ONLY <3>1, AppendFacts
  <2>3. Tail(q) \in Seq(Nat) /\ Head(q) \in Nat
    BY <2>1, TailFacts
  <2>4. retained' \in {Tail(q), q} /\ dropped' \in {Head(q), dropped}
    BY <1>2 DEF Publish
  <2>5. retained' \in Seq(Nat) /\ dropped' \in Nat
    BY <2>1, <2>3, <2>4
  <2>6. latest' \in 0 .. MaxSequence
    BY <1>2 DEF Publish
  <2> QED
    BY <1>2, <2>5, <2>6 DEF Publish
<1>3. CASE Settle
  BY <1>3 DEF Settle
<1>4. ASSUME NEW c \in Clients, Subscribe(c)
      PROVE  TypeOK'
  <2>1. PICK n \in 0 .. Len(retained) :
          replay' = [replay EXCEPT ![c] = SubSeq(retained, n + 1, Len(retained))]
    BY <1>4 DEF Subscribe
  <2>2. SubSeq(retained, n + 1, Len(retained)) \in Seq(Nat)
    BY CutFacts
  <2>3. replay' \in [Clients -> Seq(Nat)]
    BY ONLY <2>1, <2>2, replay \in [Clients -> Seq(Nat)]
  <2>4. receiver' \in [Clients -> Nat]
    <3>1. receiver' = [receiver EXCEPT ![c] = latest + 1]
      BY <1>4 DEF Subscribe
    <3> QED
      BY ONLY <3>1, receiver \in [Clients -> Nat], latest \in 0 .. MaxSequence
  <2>5. gap' \in [Clients -> Nat]
    <3>1. gap' = [gap EXCEPT ![c] = IF cursor[c] < dropped THEN dropped ELSE 0]
      BY <1>4 DEF Subscribe
    <3> QED
      BY ONLY <3>1, gap \in [Clients -> Nat], dropped \in Nat
  <2>6. batch' \in [Clients -> Seq(Nat)]
    <3>1. batch' = [batch EXCEPT ![c] = <<>>]
      BY <1>4 DEF Subscribe
    <3> QED
      BY ONLY <3>1, batch \in [Clients -> Seq(Nat)]
  <2>7. pc' \in [Clients -> {"idle", "reading", "answering", "stopped", "failed"}]
    BY <1>4 DEF Subscribe
  <2> QED
    BY <1>4, <2>3, <2>4, <2>5, <2>6, <2>7 DEF Subscribe
<1>5. ASSUME NEW c \in Clients, ReceiveReplay(c)
      PROVE  TypeOK'
  <2>1. Tail(replay[c]) \in Seq(Nat) /\ Head(replay[c]) \in Nat
    BY <1>5, TailFacts DEF ReceiveReplay
  <2>2. Append(batch[c], Head(replay[c])) \in Seq(Nat)
    BY <2>1, AppendFacts
  <2> QED
    BY <1>5, <2>1, <2>2 DEF ReceiveReplay, Collect
<1>6. ASSUME NEW c \in Clients, ReceiveLive(c)
      PROVE  TypeOK'
  <2>1. Append(batch[c], receiver[c]) \in Seq(Nat) /\ receiver[c] + 1 \in Nat
    BY AppendFacts
  <2>2. batch' = [batch EXCEPT ![c] = Append(batch[c], receiver[c])]
        /\ receiver' = [receiver EXCEPT ![c] = receiver[c] + 1]
    BY <1>6 DEF ReceiveLive, Collect
  <2>3. batch' \in [Clients -> Seq(Nat)] /\ receiver' \in [Clients -> Nat]
    BY <2>1, <2>2
  <2> QED
    BY <1>6, <2>3 DEF ReceiveLive
<1>7. ASSUME NEW c \in Clients, ReadFails(c)
      PROVE  TypeOK'
  BY <1>7 DEF ReadFails
<1>8. ASSUME NEW c \in Clients, DrainEnds(c)
      PROVE  TypeOK'
  BY <1>8 DEF DrainEnds
<1>9. ASSUME NEW c \in Clients, Answer(c)
      PROVE  TypeOK'
  <2> DEFINE t == IF batch[c] = <<>> THEN cursor[c] ELSE batch[c][Len(batch[c])]
             m == missed[c] \cup (cursor[c] + 1 .. gap[c])
             s == seen[c] \o batch[c]
  <2>1. t \in Nat
    OBVIOUS
  <2>2. m \in SUBSET Nat
    OBVIOUS
  <2>3. s \in Seq(Nat)
    OBVIOUS
  <2>4. /\ cursor' = [cursor EXCEPT ![c] = t]
        /\ missed' = [missed EXCEPT ![c] = m]
        /\ seen' = [seen EXCEPT ![c] = s]
    BY <1>9 DEF Answer
  <2> HIDE DEF t, m, s
  <2>5. cursor' \in [Clients -> Nat] /\ missed' \in [Clients -> SUBSET Nat]
        /\ seen' \in [Clients -> Seq(Nat)]
    BY <2>1, <2>2, <2>3, <2>4
  <2> QED
    BY <1>9, <2>5 DEF Answer
<1>10. ASSUME NEW c \in Clients, Attach(c)
       PROVE  TypeOK'
  BY <1>10 DEF Attach
<1> QED
  BY <1>1, <1>2, <1>3, <1>4, <1>5, <1>6, <1>7, <1>8, <1>9, <1>10
  DEF Next, ReaderStep

\* Publish appends the next number and evicts at most the oldest.
LEMMA StepQueue ==
  ASSUME IInv, [Next]_vars
  PROVE  QueueUnbroken' /\ QueueKept'
<1>0. /\ latest \in Nat /\ dropped \in Nat /\ retained \in Seq(Nat)
      /\ ReplayEvents \in Nat \ {0} /\ Len(retained) \in Nat
      /\ Len(retained) <= ReplayEvents /\ latest = dropped + Len(retained)
      /\ \A i \in 1 .. Len(retained) : retained[i] = dropped + i
      /\ dropped > 0 => Len(retained) > 0
  BY LogAssumption DEF IInv, TypeOK, QueueUnbroken, QueueKept
<1>1. CASE Publish
  <2> DEFINE q == Append(retained, latest + 1)
  <2>1. /\ q \in Seq(Nat) /\ q # <<>> /\ Len(q) = Len(retained) + 1
        /\ \A i \in 1 .. Len(retained) : q[i] = retained[i]
        /\ q[Len(retained) + 1] = latest + 1
    <3>1. latest + 1 \in Nat
      BY <1>0
    <3> QED
      BY <1>0, <3>1, AppendFacts
  <2>2. latest' = latest + 1
        /\ IF Len(q) > ReplayEvents
           THEN retained' = Tail(q) /\ dropped' = Head(q)
           ELSE retained' = q /\ dropped' = dropped
    BY <1>1 DEF Publish
  <2> HIDE DEF q
  <2>3. ASSUME NEW i \in 1 .. Len(retained) + 1
        PROVE  q[i] = dropped + i
    <3>1. CASE i \in 1 .. Len(retained)
      BY <1>0, <2>1, <3>1
    <3>2. CASE i = Len(retained) + 1
      BY <1>0, <2>1, <3>2
    <3> QED
      BY <1>0, <3>1, <3>2
  <2>4. CASE Len(q) > ReplayEvents
    <3>1. retained' = Tail(q) /\ dropped' = Head(q)
      BY <2>2, <2>4
    <3>2. /\ Tail(q) \in Seq(Nat) /\ Len(Tail(q)) = Len(q) - 1
          /\ \A i \in 1 .. Len(q) - 1 : Tail(q)[i] = q[i + 1]
          /\ Head(q) = q[1]
      BY <2>1, TailFacts
    <3>3. Len(retained') = Len(retained) /\ dropped' = dropped + 1
      BY <1>0, <2>1, <2>3, <3>1, <3>2
    <3>4. ASSUME NEW i \in 1 .. Len(retained)
          PROVE  retained'[i] = dropped' + i
      <4>1. Tail(q)[i] = q[i + 1]
        BY <1>0, <2>1, <3>2
      <4>2. q[i + 1] = dropped + (i + 1)
        BY <1>0, <2>3
      <4> QED
        BY <1>0, <3>1, <3>3, <4>1, <4>2
    <3>5. Len(retained) > 0
      BY <1>0, <2>1, <2>4
    <3> QED
      BY <1>0, <2>2, <3>3, <3>4, <3>5 DEF QueueUnbroken, QueueKept
  <2>5. CASE ~(Len(q) > ReplayEvents)
    BY <1>0, <2>1, <2>2, <2>3, <2>5 DEF QueueUnbroken, QueueKept
  <2> QED
    BY <2>4, <2>5
<1>2. CASE UNCHANGED log
  BY <1>2 DEF log, IInv, QueueUnbroken, QueueKept
<1> QED
  BY <1>1, <1>2 DEF Next, ReaderStep, vars, Settle, Subscribe, ReceiveReplay,
     ReceiveLive, ReadFails, DrainEnds, Answer, Attach

\* What subscribe cuts out of the queue starts right behind From(c).
LEMMA ReplayStart ==
  ASSUME IInv, NEW c \in Clients, cursor[c] <= latest,
         NEW n \in 0 .. Len(retained),
         \A i \in 1 .. n : retained[i] <= cursor[c],
         \A i \in n + 1 .. Len(retained) : retained[i] > cursor[c]
  PROVE  dropped + n = IF cursor[c] < dropped THEN dropped ELSE cursor[c]
<1> USE DEF IInv, TypeOK, QueueUnbroken
<1>1. CASE n = 0
  <2>1. CASE Len(retained) = 0
    BY <1>1, <2>1 DEF CursorBehind
  <2>2. CASE Len(retained) > 0
    <3>1. retained[1] > cursor[c] /\ retained[1] = dropped + 1
      BY <1>1, <2>2
    <3> QED
      BY <1>1, <3>1
  <2> QED
    BY <2>1, <2>2
<1>2. CASE n > 0
  <2>1. retained[n] = dropped + n /\ retained[n] <= cursor[c]
    BY <1>2
  <2>2. CASE n = Len(retained)
    BY <1>2, <2>1, <2>2
  <2>3. CASE n < Len(retained)
    <3>1. retained[n + 1] = dropped + n + 1 /\ retained[n + 1] > cursor[c]
      BY <2>3
    <3>2. cursor[c] \in Nat /\ dropped \in Nat /\ n \in Nat
      OBVIOUS
    <3> QED
      BY ONLY <1>2, <2>1, <3>1, <3>2
  <2> QED
    BY <2>2, <2>3
<1> QED
  BY <1>1, <1>2

\* Where a reader is that collects or answers, in numbers.
LEMMA ReaderTypes ==
  ASSUME IInv, NEW c \in Clients
  PROVE  /\ latest \in Nat /\ cursor[c] \in Nat /\ gap[c] \in Nat
         /\ receiver[c] \in Nat /\ From(c) \in Nat
         /\ batch[c] \in Seq(Nat) /\ replay[c] \in Seq(Nat)
         /\ Len(batch[c]) \in Nat /\ Len(replay[c]) \in Nat
BY LogAssumption DEF IInv, TypeOK, From

\* The cursor of an answer is the end of its batch, the reported gap included.
LEMMA AnswerEnd ==
  ASSUME IInv, NEW c \in Clients, Answer(c)
  PROVE  /\ cursor' = [cursor EXCEPT ![c] = From(c) + Len(batch[c])]
         /\ From(c) + Len(batch[c]) \in cursor[c] .. latest
<1>0. /\ latest \in Nat /\ cursor[c] \in Nat /\ gap[c] \in Nat
      /\ receiver[c] \in Nat /\ From(c) \in Nat
      /\ batch[c] \in Seq(Nat) /\ replay[c] \in Seq(Nat)
      /\ Len(batch[c]) \in Nat /\ Len(replay[c]) \in Nat
  BY ReaderTypes
<1>1. /\ pc[c] = "answering" /\ Consecutive(c)
      /\ gap[c] > cursor[c] => Len(batch[c]) > 0
  BY DEF Answer, IInv, Stitched, GapFollowed
<1>2. /\ From(c) + Len(batch[c]) <= latest /\ cursor[c] <= From(c)
      /\ From(c) + Len(batch[c]) \in Nat
  <2>1. cursor[c] <= From(c)
    BY <1>0 DEF From
  <2>2. receiver[c] = From(c) + Len(batch[c]) + Len(replay[c]) + 1
        /\ receiver[c] <= latest + 1
    BY <1>1 DEF Consecutive
  <2>3. ASSUME NEW f \in Nat, NEW b \in Nat, NEW r \in Nat, f + b + r + 1 <= latest + 1
        PROVE  f + b <= latest /\ f + b \in Nat
    BY ONLY <1>0, <2>3
  <2> QED
    BY <1>0, <2>1, <2>2, <2>3
<1>3. CASE Len(batch[c]) = 0
  <2>1. batch[c] = <<>>
    BY <1>0, <1>3
  <2>2. From(c) = cursor[c]
    BY <1>0, <1>1, <1>3 DEF From
  <2>3. From(c) + Len(batch[c]) = cursor[c]
    BY <1>0, <1>3, <2>2
  <2>4. cursor' = [cursor EXCEPT ![c] = cursor[c]]
    BY <2>1 DEF Answer
  <2>5. cursor' = [cursor EXCEPT ![c] = From(c) + Len(batch[c])]
    BY <2>3, <2>4
  <2>6. From(c) + Len(batch[c]) \in cursor[c] .. latest
    BY <1>0, <1>2, <2>3
  <2> QED
    BY <2>5, <2>6
<1>4. CASE Len(batch[c]) > 0
  <2>1. batch[c] # <<>>
    BY <1>4
  <2>2. Len(batch[c]) \in 1 .. Len(batch[c])
    BY <1>0, <1>4
  <2>3. batch[c][Len(batch[c])] = From(c) + Len(batch[c])
    BY <1>1, <2>2 DEF Consecutive
  <2> QED
    BY <1>0, <1>2, <2>1, <2>3 DEF Answer
<1> QED
  BY <1>0, <1>3, <1>4

\* No reader gets ahead of the stream.
LEMMA StepCursor ==
  ASSUME IInv, [Next]_vars
  PROVE  CursorBehind'
<1>0. latest \in Nat /\ cursor \in [Clients -> Nat]
      /\ \A c \in Clients : cursor[c] <= latest
  BY LogAssumption DEF IInv, TypeOK, CursorBehind
<1>1. CASE Publish
  BY <1>0, <1>1 DEF Publish, view, CursorBehind
<1>2. ASSUME NEW c \in Clients, Answer(c)
      PROVE  CursorBehind'
  <2>1. latest' = latest
    BY <1>2 DEF Answer, log
  <2> QED
    BY <1>0, <1>2, <2>1, AnswerEnd DEF CursorBehind
<1>3. ASSUME NEW c \in Clients, Attach(c)
      PROVE  CursorBehind'
  BY <1>0, <1>3 DEF Attach, log, CursorBehind
<1>4. CASE UNCHANGED <<latest, cursor>>
  BY <1>0, <1>4 DEF CursorBehind
<1> QED
  BY <1>1, <1>2, <1>3, <1>4 DEF Next, ReaderStep, vars, log, view, Settle,
     Subscribe, ReceiveReplay, ReceiveLive, ReadFails, DrainEnds

\* What happens to other readers, or only to the stream's end, does not touch
\* a subscription.
LEMMA Undisturbed ==
  ASSUME IInv, NEW d \in Clients, Consecutive(d), latest' \in Nat, latest <= latest',
         cursor'[d] = cursor[d], gap'[d] = gap[d], batch'[d] = batch[d],
         replay'[d] = replay[d], receiver'[d] = receiver[d]
  PROVE  From(d)' = From(d) /\ Consecutive(d)'
<1>1. From(d)' = From(d)
  BY DEF From
<1>2. latest \in Nat /\ From(d) \in Nat /\ receiver[d] \in Nat
  BY ReaderTypes
<1>3. From(d)' <= latest' /\ receiver'[d] <= latest' + 1
  BY <1>1, <1>2 DEF Consecutive
<1>4. /\ \A i \in 1 .. Len(batch'[d]) : batch'[d][i] = From(d)' + i
      /\ \A i \in 1 .. Len(replay'[d]) :
           replay'[d][i] = From(d)' + Len(batch'[d]) + i
      /\ receiver'[d] = From(d)' + Len(batch'[d]) + Len(replay'[d]) + 1
  BY <1>1, Zenon DEF Consecutive
<1> QED
  BY <1>1, <1>3, <1>4 DEF Consecutive

\* A subscription starts right behind the cursor, or behind the gap, and ends
\* at the stream's end; something is left to read behind a gap.
LEMMA SubscribeStart ==
  ASSUME IInv, NEW c \in Clients, Subscribe(c)
  PROVE  /\ Consecutive(c)'
         /\ gap'[c] > cursor'[c] => Len(batch'[c]) + Len(replay'[c]) > 0
<1>0. /\ latest \in Nat /\ dropped \in Nat /\ retained \in Seq(Nat)
      /\ Len(retained) \in Nat /\ latest = dropped + Len(retained)
      /\ \A i \in 1 .. Len(retained) : retained[i] = dropped + i
      /\ dropped > 0 => Len(retained) > 0
      /\ cursor[c] \in Nat /\ cursor[c] <= latest
  BY LogAssumption DEF IInv, TypeOK, QueueUnbroken, QueueKept, CursorBehind
<1>1. /\ latest' = latest /\ cursor' = cursor
      /\ receiver'[c] = latest + 1 /\ batch'[c] = <<>>
      /\ gap'[c] = IF cursor[c] < dropped THEN dropped ELSE 0
  BY DEF Subscribe, log, view, IInv, TypeOK
<1>2. PICK n \in 0 .. Len(retained) :
        /\ \A i \in 1 .. n : retained[i] <= cursor[c]
        /\ \A i \in n + 1 .. Len(retained) : retained[i] > cursor[c]
        /\ replay' = [replay EXCEPT ![c] = SubSeq(retained, n + 1, Len(retained))]
  BY DEF Subscribe
<1>3. dropped + n = IF cursor[c] < dropped THEN dropped ELSE cursor[c]
  BY <1>0, <1>2, ReplayStart
<1>4. From(c)' = dropped + n
  BY <1>0, <1>1, <1>3 DEF From
<1>5. replay'[c] = SubSeq(retained, n + 1, Len(retained))
  BY <1>2 DEF IInv, TypeOK
<1>6. /\ Len(replay'[c]) = Len(retained) - n
      /\ \A i \in 1 .. Len(retained) - n : replay'[c][i] = retained[n + i]
  BY <1>0, <1>5, CutFacts
<1>7. Len(batch'[c]) = 0
  BY <1>1
<1>8. ASSUME NEW i \in 1 .. Len(replay'[c])
      PROVE  replay'[c][i] = From(c)' + Len(batch'[c]) + i
  <2>1. replay'[c][i] = retained[n + i] /\ n + i \in 1 .. Len(retained)
    BY <1>0, <1>6
  <2>2. retained[n + i] = dropped + (n + i)
    BY <1>0, <2>1
  <2> QED
    BY <1>0, <1>4, <1>7, <2>1, <2>2
<1>9. /\ From(c)' <= latest'
      /\ receiver'[c] = From(c)' + Len(batch'[c]) + Len(replay'[c]) + 1
      /\ receiver'[c] <= latest' + 1
  BY <1>0, <1>1, <1>4, <1>6, <1>7
<1>10. \A i \in 1 .. Len(batch'[c]) : batch'[c][i] = From(c)' + i
  BY <1>7
<1>11. gap'[c] > cursor'[c] => Len(batch'[c]) + Len(replay'[c]) > 0
  BY <1>0, <1>1, <1>3, <1>6, <1>7
<1> QED
  BY <1>8, <1>9, <1>10, <1>11 DEF Consecutive

\* Moving an event from the replay, or from the channel, to the batch keeps the
\* three consecutive.
LEMMA ReceiveKeeps ==
  ASSUME IInv, NEW c \in Clients, ReceiveReplay(c) \/ ReceiveLive(c)
  PROVE  /\ Consecutive(c)'
         /\ Len(batch'[c]) > 0
<1>0. /\ latest \in Nat /\ cursor[c] \in Nat /\ gap[c] \in Nat
      /\ receiver[c] \in Nat /\ From(c) \in Nat
      /\ batch[c] \in Seq(Nat) /\ replay[c] \in Seq(Nat)
      /\ Len(batch[c]) \in Nat /\ Len(replay[c]) \in Nat
  BY ReaderTypes
<1>00. /\ batch' \in [Clients -> Seq(Nat)] /\ replay' \in [Clients -> Seq(Nat)]
       /\ batch \in [Clients -> Seq(Nat)] /\ replay \in [Clients -> Seq(Nat)]
       /\ receiver \in [Clients -> Nat] /\ receiver' \in [Clients -> Nat]
  BY StepType DEF Next, ReaderStep, TypeOK, IInv
<1>1. Consecutive(c)
  BY DEF ReceiveReplay, ReceiveLive, IInv, Stitched
<1>2. /\ latest' = latest /\ From(c)' = From(c)
  BY DEF ReceiveReplay, ReceiveLive, log, view, From
<1>3. ASSUME NEW e \in Nat, batch'[c] = Append(batch[c], e),
             e = From(c) + Len(batch[c]) + 1
      PROVE  /\ Len(batch'[c]) = Len(batch[c]) + 1
             /\ \A i \in 1 .. Len(batch'[c]) : batch'[c][i] = From(c) + i
  <2>1. /\ Len(batch'[c]) = Len(batch[c]) + 1
        /\ \A i \in 1 .. Len(batch[c]) : batch'[c][i] = batch[c][i]
        /\ batch'[c][Len(batch[c]) + 1] = e
    BY <1>0, <1>3, AppendFacts
  <2>2. ASSUME NEW i \in 1 .. Len(batch'[c])
        PROVE  batch'[c][i] = From(c) + i
    <3>1. CASE i \in 1 .. Len(batch[c])
      BY <1>1, <2>1, <3>1 DEF Consecutive
    <3>2. CASE i = Len(batch[c]) + 1
      BY <1>0, <1>3, <2>1, <3>2
    <3> QED
      BY <1>0, <2>1, <3>1, <3>2
  <2> QED
    BY <2>1, <2>2
<1>4. CASE ReceiveReplay(c)
  <2>1. /\ replay[c] # <<>> /\ replay'[c] = Tail(replay[c])
        /\ batch'[c] = Append(batch[c], Head(replay[c]))
        /\ receiver'[c] = receiver[c]
    BY <1>4 DEF ReceiveReplay, Collect, IInv, TypeOK
  <2>2. /\ Head(replay[c]) \in Nat /\ Len(replay[c]) > 0
        /\ Len(replay'[c]) = Len(replay[c]) - 1
        /\ \A i \in 1 .. Len(replay[c]) - 1 : replay'[c][i] = replay[c][i + 1]
        /\ Head(replay[c]) = replay[c][1]
    BY <1>0, <2>1, TailFacts
  <2>3. Head(replay[c]) = From(c) + Len(batch[c]) + 1
    BY <1>0, <1>1, <2>2 DEF Consecutive
  <2>4. /\ Len(batch'[c]) = Len(batch[c]) + 1
        /\ \A i \in 1 .. Len(batch'[c]) : batch'[c][i] = From(c) + i
    BY <1>3, <2>1, <2>2, <2>3
  <2>5. ASSUME NEW i \in 1 .. Len(replay'[c])
        PROVE  replay'[c][i] = From(c) + Len(batch'[c]) + i
    <3>0. i \in 1 .. Len(replay[c]) - 1
      BY ONLY <2>2, i \in 1 .. Len(replay'[c])
    <3>1. i + 1 \in 1 .. Len(replay[c]) /\ replay'[c][i] = replay[c][i + 1]
      <4>1. replay'[c][i] = replay[c][i + 1]
        BY ONLY <2>2, <3>0
      <4>2. i + 1 \in 1 .. Len(replay[c])
        BY ONLY <1>0, <3>0
      <4> QED
        BY <4>1, <4>2
    <3>2. replay[c][i + 1] = From(c) + Len(batch[c]) + (i + 1)
      BY <1>1, <3>1 DEF Consecutive
    <3>3. Len(batch'[c]) = Len(batch[c]) + 1 /\ i \in Nat
      BY <1>0, <2>4
    <3> QED
      BY <1>0, <1>00, <3>1, <3>2, <3>3
  <2>6. /\ receiver'[c] = From(c) + Len(batch'[c]) + Len(replay'[c]) + 1
        /\ receiver'[c] <= latest + 1 /\ From(c) <= latest
        /\ Len(batch'[c]) > 0
    <3>1. /\ receiver[c] = From(c) + Len(batch[c]) + Len(replay[c]) + 1
          /\ receiver[c] <= latest + 1 /\ From(c) <= latest
      BY <1>1 DEF Consecutive
    <3>2. /\ Len(batch'[c]) = Len(batch[c]) + 1
          /\ Len(replay'[c]) = Len(replay[c]) - 1 /\ receiver'[c] = receiver[c]
      BY <2>1, <2>2, <2>4
    <3>3. receiver[c] = From(c) + (Len(batch[c]) + 1) + (Len(replay[c]) - 1) + 1
          /\ Len(batch[c]) + 1 > 0
      <4>1. ASSUME NEW f \in Nat, NEW b \in Nat, NEW r \in Nat
            PROVE  f + b + r + 1 = f + (b + 1) + (r - 1) + 1 /\ b + 1 > 0
        BY ONLY <4>1
      <4> QED
        BY <1>0, <3>1, <4>1
    <3> QED
      BY <3>1, <3>2, <3>3
  <2> QED
    BY <1>2, <2>4, <2>5, <2>6 DEF Consecutive
<1>5. CASE ReceiveLive(c)
  <2>1. /\ replay[c] = <<>> /\ replay'[c] = replay[c]
        /\ batch'[c] = Append(batch[c], receiver[c])
        /\ receiver'[c] = receiver[c] + 1 /\ receiver[c] <= latest
    BY <1>5 DEF ReceiveLive, Collect, IInv, TypeOK
  <2>2. Len(replay[c]) = 0
    BY <2>1
  <2>3. receiver[c] = From(c) + Len(batch[c]) + 1 /\ From(c) <= latest
    BY <1>0, <1>1, <2>2 DEF Consecutive
  <2>4. /\ Len(batch'[c]) = Len(batch[c]) + 1
        /\ \A i \in 1 .. Len(batch'[c]) : batch'[c][i] = From(c) + i
    BY <1>0, <1>3, <2>1, <2>3
  <2>5. \A i \in 1 .. Len(replay'[c]) : replay'[c][i] = From(c) + Len(batch'[c]) + i
    BY <2>1, <2>2
  <2>6. /\ receiver'[c] = From(c) + Len(batch'[c]) + Len(replay'[c]) + 1
        /\ receiver'[c] <= latest + 1 /\ Len(batch'[c]) > 0
    <3>1. /\ Len(batch'[c]) = Len(batch[c]) + 1 /\ Len(replay'[c]) = 0
          /\ receiver'[c] = receiver[c] + 1 /\ receiver[c] <= latest
      BY <2>1, <2>2, <2>4
    <3>2. receiver[c] = From(c) + Len(batch[c]) + 0 + 1 /\ receiver[c] <= latest + 1
      BY <1>0, <2>3, <3>1
    <3>3. receiver[c] + 1 = From(c) + (Len(batch[c]) + 1) + 0 + 1
          /\ Len(batch[c]) + 1 > 0
      BY <1>0, <3>2
    <3>4. receiver[c] + 1 <= latest + 1
      BY <1>0, <2>1
    <3> QED
      BY <3>1, <3>3, <3>4
  <2> QED
    BY <1>2, <2>3, <2>4, <2>5, <2>6 DEF Consecutive
<1> QED
  BY <1>4, <1>5

\* Every action keeps every open subscription consecutive.
LEMMA StepStitched ==
  ASSUME IInv, [Next]_vars
  PROVE  Stitched'
<1> SUFFICES ASSUME NEW d \in Clients, pc'[d] \in {"reading", "answering"}
             PROVE  Consecutive(d)'
  BY DEF Stitched
<1>0. latest \in Nat /\ latest' \in Nat /\ latest <= latest'
  <2>1. latest \in Nat /\ latest' \in Nat
    BY StepType, LogAssumption DEF IInv, TypeOK
  <2>2. latest' = latest + 1 \/ latest' = latest
    BY DEF Next, ReaderStep, vars, log, Publish, Settle, Subscribe, ReceiveReplay,
       ReceiveLive, ReadFails, DrainEnds, Answer, Attach
  <2> QED
    BY <2>1, <2>2
<1>1. pc[d] \in {"reading", "answering"} => Consecutive(d)
  BY DEF IInv, Stitched
<1>2. ASSUME pc[d] \in {"reading", "answering"}, cursor'[d] = cursor[d],
             gap'[d] = gap[d], batch'[d] = batch[d],
             replay'[d] = replay[d], receiver'[d] = receiver[d]
      PROVE  Consecutive(d)'
  BY <1>0, <1>1, <1>2, Undisturbed
<1>3. CASE UNCHANGED <<pc, view, request>>
  BY <1>2, <1>3 DEF view, request
<1>4. ASSUME NEW c \in Clients, ReaderStep(c) \/ Attach(c), c # d
      PROVE  Consecutive(d)'
  <2>1. /\ pc'[d] = pc[d] /\ cursor'[d] = cursor[d] /\ gap'[d] = gap[d]
        /\ batch'[d] = batch[d] /\ replay'[d] = replay[d]
        /\ receiver'[d] = receiver[d]
    BY <1>4 DEF ReaderStep, Subscribe, ReceiveReplay, ReceiveLive, ReadFails,
       DrainEnds, Answer, Attach, Collect, view, request, IInv, TypeOK
  <2> QED
    BY <1>2, <2>1
<1>5. CASE Subscribe(d)
  BY <1>5, SubscribeStart
<1>6. CASE ReceiveReplay(d) \/ ReceiveLive(d)
  BY <1>6, ReceiveKeeps
<1>7. CASE DrainEnds(d)
  <2>1. pc[d] = "reading" /\ UNCHANGED <<view, request>>
    BY <1>7 DEF DrainEnds
  <2> QED
    BY <1>2, <2>1 DEF view, request
<1>8. CASE ReadFails(d) \/ Answer(d) \/ Attach(d)
  <2>1. pc'[d] \in {"failed", "idle", "stopped"}
    BY <1>8 DEF ReadFails, Answer, Attach, IInv, TypeOK
  <2> QED
    BY <2>1
<1>9. CASE Publish \/ Settle \/ UNCHANGED vars
  BY <1>3, <1>9 DEF Publish, Settle, vars
<1> QED
  BY <1>4, <1>5, <1>6, <1>7, <1>8, <1>9 DEF Next, ReaderStep

\* A gap is always followed by an event of the same answer.
LEMMA StepGap ==
  ASSUME IInv, [Next]_vars
  PROVE  GapFollowed'
<1> SUFFICES ASSUME NEW d \in Clients, gap'[d] > cursor'[d]
             PROVE  /\ pc'[d] = "reading" => Len(batch'[d]) + Len(replay'[d]) > 0
                    /\ pc'[d] = "answering" => Len(batch'[d]) > 0
  BY DEF GapFollowed
<1>1. gap[d] > cursor[d] =>
        /\ pc[d] = "reading" => Len(batch[d]) + Len(replay[d]) > 0
        /\ pc[d] = "answering" => Len(batch[d]) > 0
  BY DEF IInv, GapFollowed
<1>2. ASSUME pc'[d] = pc[d], cursor'[d] = cursor[d], gap'[d] = gap[d],
             batch'[d] = batch[d], replay'[d] = replay[d]
      PROVE  /\ pc'[d] = "reading" => Len(batch'[d]) + Len(replay'[d]) > 0
             /\ pc'[d] = "answering" => Len(batch'[d]) > 0
  BY <1>1, <1>2
<1>3. CASE Publish \/ Settle \/ UNCHANGED vars
  BY <1>2, <1>3 DEF Publish, Settle, vars, view, request
<1>4. ASSUME NEW c \in Clients, ReaderStep(c) \/ Attach(c), c # d
      PROVE  /\ pc'[d] = "reading" => Len(batch'[d]) + Len(replay'[d]) > 0
             /\ pc'[d] = "answering" => Len(batch'[d]) > 0
  <2>1. /\ pc'[d] = pc[d] /\ cursor'[d] = cursor[d] /\ gap'[d] = gap[d]
        /\ batch'[d] = batch[d] /\ replay'[d] = replay[d]
    BY <1>4 DEF ReaderStep, Subscribe, ReceiveReplay, ReceiveLive, ReadFails,
       DrainEnds, Answer, Attach, Collect, view, request, IInv, TypeOK
  <2> QED
    BY <1>2, <2>1
<1>5. CASE Subscribe(d)
  <2>1. pc'[d] = "reading"
    BY <1>5 DEF Subscribe, IInv, TypeOK
  <2> QED
    BY <1>5, <2>1, SubscribeStart
<1>6. CASE ReceiveReplay(d) \/ ReceiveLive(d)
  <2>1. Len(batch'[d]) > 0
    BY <1>6, ReceiveKeeps
  <2>2. replay' \in [Clients -> Seq(Nat)] /\ batch' \in [Clients -> Seq(Nat)]
    BY StepType DEF TypeOK
  <2> QED
    BY <2>1, <2>2
<1>7. CASE DrainEnds(d)
  <2>1. pc[d] = "reading" /\ pc'[d] = "answering"
        /\ UNCHANGED <<view, request>>
        /\ (Len(batch[d]) = MaximumEvents \/ replay[d] = <<>>)
    BY <1>7 DEF DrainEnds, IInv, TypeOK
  <2>2. Len(batch[d]) + Len(replay[d]) > 0
    BY <1>1, <2>1 DEF view, request
  <2>3. Len(batch[d]) > 0
    <3>1. Len(batch[d]) \in Nat
      BY ReaderTypes
    <3>2. CASE replay[d] = <<>>
      BY <2>2, <3>1, <3>2
    <3>3. CASE Len(batch[d]) = MaximumEvents
      BY <3>3, LogAssumption
    <3> QED
      BY <2>1, <3>2, <3>3
  <2> QED
    BY <2>1, <2>3 DEF view, request
<1>8. CASE ReadFails(d) \/ Answer(d) \/ Attach(d)
  <2>1. pc'[d] \in {"failed", "idle", "stopped"}
    BY <1>8 DEF ReadFails, Answer, Attach, IInv, TypeOK
  <2> QED
    BY <2>1
<1> QED
  BY <1>3, <1>4, <1>5, <1>6, <1>7, <1>8 DEF Next, ReaderStep

\* The invariant is inductive, so it holds in every reachable state.
THEOREM Invariance == Spec => []IInv
<1>1. Init => IInv
  BY InitInv
<1>2. IInv /\ [Next]_vars => IInv'
  BY StepType, StepQueue, StepCursor, StepStitched, StepGap DEF IInv
<1> QED
  BY <1>1, <1>2, PTL DEF Spec

\* The replay queue is the unbroken end of the stream.
THEOREM QueueStaysUnbroken == Spec => []QueueUnbroken
<1>1. IInv => QueueUnbroken
  BY DEF IInv
<1> QED
  BY <1>1, Invariance, PTL

\* However publishers and readers interleave, a subscription delivers the
\* stream without a hole or an overlap between replay and channel.
THEOREM SubscriptionStitched == Spec => []Stitched
<1>1. IInv => Stitched
  BY DEF IInv
<1> QED
  BY <1>1, Invariance, PTL

-----------------------------------------------------------------------------
\* What an answer does to the window's view, in the terms of EventStream: it
\* reports everything up to From(c) as missed and hands over what follows.
LEMMA AnswerAdvances ==
  ASSUME IInv, NEW c \in Clients, Answer(c)
  PROVE  /\ missed' = [missed EXCEPT ![c] = @ \cup (cursor[c] + 1 .. From(c))]
         /\ seen' = [seen EXCEPT ![c] =
                        @ \o [i \in 1 .. Len(batch[c]) |-> From(c) + i]]
         /\ From(c) \in cursor[c] .. latest /\ latest' = latest
<1>0. /\ latest \in Nat /\ cursor[c] \in Nat /\ gap[c] \in Nat /\ From(c) \in Nat
      /\ batch[c] \in Seq(Nat) /\ Len(batch[c]) \in Nat
  BY ReaderTypes
<1>1. Consecutive(c)
  BY DEF Answer, IInv, Stitched
<1>2. cursor[c] + 1 .. gap[c] = cursor[c] + 1 .. From(c)
  BY <1>0 DEF From
<1>3. missed' = [missed EXCEPT ![c] = @ \cup (cursor[c] + 1 .. From(c))]
  BY <1>2 DEF Answer
<1>4. batch[c] = [i \in 1 .. Len(batch[c]) |-> From(c) + i]
  <2>1. \A i \in 1 .. Len(batch[c]) : batch[c][i] = From(c) + i
    BY <1>1 DEF Consecutive
  <2>2. batch[c] = [i \in 1 .. Len(batch[c]) |-> batch[c][i]]
    BY <1>0
  <2> QED
    BY <2>1, <2>2
<1>5. From(c) \in cursor[c] .. latest
  <2>1. From(c) <= latest
    BY <1>1 DEF Consecutive
  <2> QED
    BY <1>0, <2>1 DEF From
<1> QED
  BY <1>3, <1>4, <1>5 DEF Answer, log

\* Every step is a step of the abstract stream or changes nothing of it.
LEMMA StepRefines ==
  ASSUME IInv, [Next]_vars
  PROVE  [Stream!Next]_(Stream!streamVars)
<1>1. CASE Publish
  BY <1>1 DEF Publish, view, Stream!Next, Stream!Append1
<1>2. ASSUME NEW c \in Clients, Answer(c)
      PROVE  Stream!Next
  <2> DEFINE to == From(c) + Len(batch[c])
  <2>1. From(c) \in cursor[c] .. latest /\ latest' = latest
    BY <1>2, AnswerAdvances
  <2>2. to \in From(c) .. latest /\ to - From(c) = Len(batch[c])
    BY <1>2, <2>1, AnswerEnd, ReaderTypes
  <2>3. cursor' = [cursor EXCEPT ![c] = to]
    BY <1>2, AnswerEnd
  <2>4. missed' = [missed EXCEPT ![c] = @ \cup (cursor[c] + 1 .. From(c))]
    BY <1>2, AnswerAdvances
  <2>5. seen' = [seen EXCEPT ![c] = @ \o [i \in 1 .. to - From(c) |-> From(c) + i]]
    BY <1>2, <2>2, AnswerAdvances
  <2> HIDE DEF to
  <2>6. Stream!Advance(c)
    BY <2>1, <2>2, <2>3, <2>4, <2>5 DEF Stream!Advance
  <2> QED
    BY <2>6 DEF Stream!Next
<1>3. ASSUME NEW c \in Clients, Attach(c)
      PROVE  Stream!Next
  BY <1>3 DEF Attach, log, Stream!Next, Stream!Restart
<1>4. CASE UNCHANGED <<latest, view>>
  BY <1>4 DEF view, Stream!streamVars
<1> QED
  BY <1>1, <1>2, <1>3, <1>4 DEF Next, ReaderStep, vars, log, Settle, Subscribe,
     ReceiveReplay, ReceiveLive, ReadFails, DrainEnds

\* The log with its bounded queue, its lossy channel and its readers implements
\* the abstract stream: no event is skipped in silence, repeated or reordered.
THEOREM Refinement == Spec => StreamSpec
<1>1. Init => Stream!Init
  BY DEF Init, Stream!Init
<1>2. IInv /\ [Next]_vars => [Stream!Next]_(Stream!streamVars)
  BY StepRefines
<1> QED
  BY <1>1, <1>2, Invariance, PTL DEF Spec, StreamSpec, Stream!Spec

-----------------------------------------------------------------------------
\* What ExactlyOnce says of one reader that has s, misses m and is at k.
Once(s, m, k) ==
  /\ \A i, j \in 1 .. Len(s) : i < j => s[i] < s[j]
  /\ Entries(s) \cup m = 1 .. k
  /\ Entries(s) \cap m = {}
OnceAt(c) == Once(seen[c], missed[c], cursor[c])

\* Handing over f + 1 .. f + n to a reader that has everything up to k, and
\* reporting k + 1 .. f as missed, keeps each event once and in order.
LEMMA AdvanceOnce ==
  ASSUME NEW s \in Seq(Nat), NEW m \in SUBSET Nat,
         NEW k \in Nat, NEW f \in Nat, NEW n \in Nat, k <= f, Once(s, m, k)
  PROVE  Once(s \o [i \in 1 .. n |-> f + i], m \cup (k + 1 .. f), f + n)
<1> DEFINE b == [i \in 1 .. n |-> f + i]
           t == s \o b
<1>0. /\ \A i, j \in 1 .. Len(s) : i < j => s[i] < s[j]
      /\ Entries(s) \cup m = 1 .. k /\ Entries(s) \cap m = {}
  BY DEF Once
<1>1. b \in Seq(Nat) /\ Len(b) = n /\ \A i \in 1 .. n : b[i] = f + i
  <2>1. \A i \in 1 .. n : f + i \in Nat
    OBVIOUS
  <2>2. b \in [1 .. n -> Nat]
    BY <2>1
  <2>3. b \in Seq(Nat) /\ DOMAIN b = 1 .. n
    BY <2>2
  <2> QED
    BY <2>3
<1>2. Len(s) \in Nat
  OBVIOUS
<1> HIDE DEF b
<1>3. /\ Len(t) = Len(s) + n
      /\ \A i \in 1 .. Len(s) : t[i] = s[i]
      /\ \A i \in Len(s) + 1 .. Len(s) + n : t[i] = f + (i - Len(s))
  <2>1. t = s \o b
    OBVIOUS
  <2>2. Len(t) = Len(s) + n
    <3>1. Len(s \o b) = Len(s) + Len(b)
      BY ONLY <1>1, s \in Seq(Nat)
    <3> QED
      BY <1>1, <2>1, <3>1
  <2>3. ASSUME NEW i \in 1 .. Len(s) PROVE t[i] = s[i]
    BY ONLY <1>1, <2>1, s \in Seq(Nat), i \in 1 .. Len(s)
  <2>4. ASSUME NEW i \in Len(s) + 1 .. Len(s) + n PROVE t[i] = f + (i - Len(s))
    <3>1. t[i] = b[i - Len(s)] /\ i - Len(s) \in 1 .. n
      BY <1>1, <1>2, <2>1
    <3> QED
      BY <1>1, <3>1
  <2> QED
    BY <2>2, <2>3, <2>4
<1> HIDE DEF t
<1>4. \A i \in 1 .. Len(s) : s[i] \in 1 .. k
  BY <1>0 DEF Entries
<1>5. ASSUME NEW i \in 1 .. Len(t), NEW j \in 1 .. Len(t), i < j
      PROVE  t[i] < t[j]
  <2>1. CASE j \in 1 .. Len(s)
    <3>1. i \in 1 .. Len(s)
      BY <1>2, <1>3, <1>5, <2>1
    <3> QED
      BY <1>0, <1>3, <1>5, <2>1, <3>1
  <2>2. CASE j \in Len(s) + 1 .. Len(s) + n /\ i \in 1 .. Len(s)
    <3>1. t[j] = f + (j - Len(s)) /\ t[i] = s[i] /\ s[i] \in 1 .. k
      BY <1>3, <1>4, <2>2
    <3> QED
      BY <1>2, <2>2, <3>1
  <2>3. CASE j \in Len(s) + 1 .. Len(s) + n /\ i \in Len(s) + 1 .. Len(s) + n
    <3>1. t[j] = f + (j - Len(s)) /\ t[i] = f + (i - Len(s))
      BY <1>3, <2>3
    <3> QED
      BY <1>2, <1>5, <2>3, <3>1
  <2> QED
    BY <1>2, <1>3, <2>1, <2>2, <2>3
<1>6. Entries(t) = Entries(s) \cup (f + 1 .. f + n)
  <2>1. ASSUME NEW x \in Entries(t) PROVE x \in Entries(s) \cup (f + 1 .. f + n)
    <3>1. PICK i \in 1 .. Len(t) : x = t[i]
      BY DEF Entries
    <3>2. CASE i \in 1 .. Len(s)
      BY <1>3, <3>1, <3>2 DEF Entries
    <3>3. CASE i \in Len(s) + 1 .. Len(s) + n
      BY <1>2, <1>3, <3>1, <3>3
    <3> QED
      BY <1>2, <1>3, <3>2, <3>3
  <2>2. ASSUME NEW x \in Entries(s) PROVE x \in Entries(t)
    <3>1. PICK i \in 1 .. Len(s) : x = s[i]
      BY DEF Entries
    <3>2. i \in 1 .. Len(t) /\ x = t[i]
      BY <1>2, <1>3, <3>1
    <3> QED
      BY <3>2 DEF Entries
  <2>3. ASSUME NEW x \in f + 1 .. f + n PROVE x \in Entries(t)
    <3> DEFINE i == Len(s) + (x - f)
    <3>1. i \in Len(s) + 1 .. Len(s) + n /\ i - Len(s) = x - f
      BY <1>2
    <3>2. t[i] = f + (x - f) /\ i \in 1 .. Len(t)
      BY <1>2, <1>3, <3>1
    <3>3. t[i] = x
      BY <3>2
    <3> QED
      BY <3>2, <3>3 DEF Entries
  <2> QED
    BY <2>1, <2>2, <2>3
<1>7. Entries(s) \subseteq 1 .. k /\ m \subseteq 1 .. k
  BY <1>0
<1>8. Entries(t) \cup (m \cup (k + 1 .. f)) = 1 .. f + n
  <2>1. (1 .. k) \cup (k + 1 .. f) \cup (f + 1 .. f + n) = 1 .. f + n
    OBVIOUS
  <2>2. Entries(t) \cup (m \cup (k + 1 .. f))
          = (Entries(s) \cup m) \cup (k + 1 .. f) \cup (f + 1 .. f + n)
    BY <1>6
  <2> QED
    BY <1>0, <2>1, <2>2
<1>9. Entries(t) \cap (m \cup (k + 1 .. f)) = {}
  <2>1. ASSUME NEW x \in f + 1 .. f + n PROVE x \notin m \cup (k + 1 .. f)
    BY <1>0, <1>7
  <2>2. ASSUME NEW x \in Entries(s) PROVE x \notin m \cup (k + 1 .. f)
    BY <1>0, <1>7
  <2> QED
    BY <1>6, <2>1, <2>2
<1>10. Once(t, m \cup (k + 1 .. f), f + n)
  BY <1>5, <1>8, <1>9 DEF Once
<1> QED
  BY <1>10 DEF b, t

\* Every action keeps what each reader has been given exact.
LEMMA StepOnce ==
  ASSUME IInv, ExactlyOnce, [Next]_vars
  PROVE  ExactlyOnce'
<1> SUFFICES ASSUME NEW d \in Clients
             PROVE  OnceAt(d)'
  BY DEF ExactlyOnce, OnceAt, Once
<1>0. OnceAt(d)
  BY DEF ExactlyOnce, OnceAt, Once
<1>1. ASSUME seen'[d] = seen[d], missed'[d] = missed[d], cursor'[d] = cursor[d]
      PROVE  OnceAt(d)'
  BY <1>0, <1>1 DEF OnceAt
<1>2. CASE UNCHANGED view
  BY <1>1, <1>2 DEF view
<1>3. ASSUME NEW c \in Clients, Answer(c) \/ Attach(c), c # d
      PROVE  OnceAt(d)'
  BY <1>1, <1>3 DEF Answer, Attach, IInv, TypeOK
<1>4. CASE Answer(d)
  <2> DEFINE f == From(d)
             n == Len(batch[d])
  <2>1. /\ seen[d] \in Seq(Nat) /\ missed[d] \in SUBSET Nat /\ cursor[d] \in Nat
        /\ f \in Nat /\ n \in Nat
    BY ReaderTypes DEF IInv, TypeOK
  <2>2. cursor[d] <= f
    BY <1>4, <2>1, AnswerAdvances, ReaderTypes
  <2>3. /\ seen'[d] = seen[d] \o [i \in 1 .. n |-> f + i]
        /\ missed'[d] = missed[d] \cup (cursor[d] + 1 .. f)
        /\ cursor'[d] = f + n
    BY <1>4, AnswerAdvances, AnswerEnd DEF IInv, TypeOK
  <2> HIDE DEF f, n
  <2>4. Once(seen[d] \o [i \in 1 .. n |-> f + i],
             missed[d] \cup (cursor[d] + 1 .. f), f + n)
    BY <1>0, <2>1, <2>2, AdvanceOnce DEF OnceAt
  <2> QED
    BY <2>3, <2>4 DEF OnceAt
<1>5. CASE Attach(d)
  <2>1. seen'[d] = <<>> /\ missed'[d] = {} /\ cursor'[d] = 0
    BY <1>5 DEF Attach, IInv, TypeOK
  <2>2. Entries(seen'[d]) = {} /\ Len(seen'[d]) = 0
    BY <2>1 DEF Entries
  <2> QED
    BY <2>1, <2>2 DEF OnceAt, Once
<1> QED
  BY <1>2, <1>3, <1>4, <1>5 DEF Next, ReaderStep, vars, log, Publish, Settle,
     Subscribe, ReceiveReplay, ReceiveLive, ReadFails, DrainEnds

\* Reading from the last acknowledged sequence delivers every event once and in
\* order, or reports it as missed.
THEOREM DeliveredExactlyOnce == Spec => []ExactlyOnce
<1>1. Init => ExactlyOnce
  <2> SUFFICES ASSUME Init, NEW c \in Clients
               PROVE  OnceAt(c)
    BY DEF ExactlyOnce, OnceAt, Once
  <2>1. seen[c] = <<>> /\ missed[c] = {} /\ cursor[c] = 0
    BY DEF Init
  <2>2. Entries(seen[c]) = {} /\ Len(seen[c]) = 0
    BY <2>1 DEF Entries
  <2> QED
    BY <2>1, <2>2 DEF OnceAt, Once
<1>2. IInv /\ ExactlyOnce /\ [Next]_vars => ExactlyOnce'
  BY StepOnce
<1> QED
  BY <1>1, <1>2, Invariance, PTL DEF Spec
=============================================================================
