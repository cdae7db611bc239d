------------------------------ MODULE EventLog ------------------------------
(***************************************************************************)
(* The event stream of one logical session: publish numbers an event,      *)
(* retains it in the bounded replay queue and sends it to the bounded       *)
(* broadcast channel, all under the events lock.  A reader is one window's  *)
(* event loop (useFakeSession): it asks for the events after its cursor,    *)
(* the daemon subscribes, drains replay and channel into a bounded batch    *)
(* (read_session_events) and answers with a snapshot of the state; the loop *)
(* ends at the first answer that shows a settled session.                   *)
(* An event is represented by its sequence number.                          *)
(***************************************************************************)
EXTENDS Integers, Sequences

CONSTANTS Clients,
          ReplayEvents,     \* limits.replay_events
          BroadcastEvents,  \* limits.broadcast_events
          MaximumEvents,    \* SESSION_EVENTS_PER_READ
          MaxSequence       \* the largest sequence number (u64::MAX)

ASSUME LogAssumption ==
  /\ ReplayEvents \in Nat \ {0}
  /\ BroadcastEvents \in Nat \ {0}
  /\ MaximumEvents \in Nat \ {0}
  /\ MaxSequence \in Nat

VARIABLES latest, dropped,  \* latest_sequence, dropped_through_sequence
          retained,         \* the replay queue
          settled,          \* data.state is final
          pc,               \* where each reader is
          cursor,           \* the reader's last acknowledged sequence
          gap,              \* available_after_sequence of the gap, 0 if none
          replay, receiver, \* the subscription: replay copy, channel position
          batch,            \* the answer being collected
          seen, missed      \* history: events handed over, gaps reported

log == <<latest, dropped, retained>>
view == <<cursor, seen, missed>>
request == <<gap, replay, receiver, batch>>
vars == <<log, settled, pc, view, request>>

Init ==
  /\ latest = 0 /\ dropped = 0 /\ retained = <<>>
  /\ settled = FALSE
  /\ pc = [c \in Clients |-> "idle"]
  /\ cursor = [c \in Clients |-> 0]
  /\ gap = [c \in Clients |-> 0]
  /\ replay = [c \in Clients |-> <<>>]
  /\ receiver = [c \in Clients |-> 1]
  /\ batch = [c \in Clients |-> <<>>]
  /\ seen = [c \in Clients |-> <<>>]
  /\ missed = [c \in Clients |-> {}]

-----------------------------------------------------------------------------
(* The daemon *)

\* Mutant of Publish: the eviction forgets to move the dropped-through mark.
PublishUnmarked ==
  /\ latest < MaxSequence
  /\ latest' = latest + 1
  /\ LET q == Append(retained, latest + 1) IN
     retained' = IF Len(q) > ReplayEvents THEN Tail(q) ELSE q
  /\ UNCHANGED <<dropped, settled, pc, view, request>>

\* Mutant of Publish: the sequence number is not checked against its range.
PublishUnchecked ==
  /\ latest' = latest + 1
  /\ LET q == Append(retained, latest + 1) IN
     IF Len(q) > ReplayEvents
     THEN retained' = Tail(q) /\ dropped' = Head(q)
     ELSE retained' = q /\ UNCHANGED dropped
  /\ UNCHANGED <<settled, pc, view, request>>

\* The queue holds at most ReplayEvents beforehand: one eviction restores the
\* bound.
Publish ==
  /\ latest < MaxSequence
  /\ latest' = latest + 1
  /\ LET q == Append(retained, latest + 1) IN
     IF Len(q) > ReplayEvents
     THEN retained' = Tail(q) /\ dropped' = Head(q)
     ELSE retained' = q /\ UNCHANGED dropped
  /\ UNCHANGED <<settled, pc, view, request>>

\* finalize_run stores the final state; its last event is published after.
Settle ==
  /\ ~settled
  /\ settled' = TRUE
  /\ UNCHANGED <<log, pc, view, request>>

\* Mutant of Subscribe: the receiver is created before the lock is taken, so
\* the replay may repeat what it delivers.
SubscribeEarly(c) ==
  /\ pc[c] = "idle" /\ cursor[c] <= latest
  /\ \E n \in 0 .. Len(retained) :
       /\ \A i \in 1 .. n : retained[i] <= cursor[c]
       /\ \A i \in n + 1 .. Len(retained) : retained[i] > cursor[c]
       /\ replay' = [replay EXCEPT ![c] = SubSeq(retained, n + 1, Len(retained))]
  /\ \E p \in latest .. latest + 1 : receiver' = [receiver EXCEPT ![c] = p]
  /\ gap' = [gap EXCEPT ![c] = IF cursor[c] < dropped THEN dropped ELSE 0]
  /\ batch' = [batch EXCEPT ![c] = <<>>]
  /\ pc' = [pc EXCEPT ![c] = "reading"]
  /\ UNCHANGED <<log, settled, view>>

\* subscribe, under the events lock: the replay is what the queue holds after
\* the cursor, the receiver starts behind it.
Subscribe(c) ==
  /\ pc[c] = "idle" /\ cursor[c] <= latest
  /\ \E n \in 0 .. Len(retained) :
       /\ \A i \in 1 .. n : retained[i] <= cursor[c]
       /\ \A i \in n + 1 .. Len(retained) : retained[i] > cursor[c]
       /\ replay' = [replay EXCEPT ![c] = SubSeq(retained, n + 1, Len(retained))]
  /\ receiver' = [receiver EXCEPT ![c] = latest + 1]
  /\ gap' = [gap EXCEPT ![c] = IF cursor[c] < dropped THEN dropped ELSE 0]
  /\ batch' = [batch EXCEPT ![c] = <<>>]
  /\ pc' = [pc EXCEPT ![c] = "reading"]
  /\ UNCHANGED <<log, settled, view>>

\* The channel keeps the last BroadcastEvents events; a receiver behind them
\* gets Lagged instead of an event.
Lagged(c) == receiver[c] + BroadcastEvents <= latest

Collect(c, e) == batch' = [batch EXCEPT ![c] = Append(@, e)]

\* Mutant of ReceiveLive: a receiver that lagged goes on with the oldest event
\* the channel still holds.
ReceiveSkipping(c) ==
  /\ pc[c] = "reading" /\ Len(batch[c]) < MaximumEvents
  /\ replay[c] = <<>> /\ receiver[c] <= latest
  /\ LET e == IF Lagged(c) THEN latest + 1 - BroadcastEvents ELSE receiver[c] IN
     Collect(c, e) /\ receiver' = [receiver EXCEPT ![c] = e + 1]
  /\ UNCHANGED <<log, settled, pc, view, gap, replay>>

ReceiveReplay(c) ==
  /\ pc[c] = "reading" /\ Len(batch[c]) < MaximumEvents
  /\ replay[c] # <<>>
  /\ Collect(c, Head(replay[c]))
  /\ replay' = [replay EXCEPT ![c] = Tail(@)]
  /\ UNCHANGED <<log, settled, pc, view, gap, receiver>>

\* try_recv, or recv when the batch is still empty and the reader waits.
ReceiveLive(c) ==
  /\ pc[c] = "reading" /\ Len(batch[c]) < MaximumEvents
  /\ replay[c] = <<>> /\ receiver[c] <= latest /\ ~Lagged(c)
  /\ Collect(c, receiver[c])
  /\ receiver' = [receiver EXCEPT ![c] = @ + 1]
  /\ UNCHANGED <<log, settled, pc, view, gap, replay>>

\* The answer is an error, and with it the window's loop ends.
ReadFails(c) ==
  /\ pc[c] = "reading" /\ Len(batch[c]) < MaximumEvents
  /\ replay[c] = <<>> /\ Lagged(c)
  /\ pc' = [pc EXCEPT ![c] = "failed"]
  /\ UNCHANGED <<log, settled, view, request>>

\* The batch is full, or there is nothing to receive (and the wait timed out).
DrainEnds(c) ==
  /\ pc[c] = "reading"
  /\ \/ Len(batch[c]) = MaximumEvents
     \/ replay[c] = <<>> /\ receiver[c] > latest
  /\ pc' = [pc EXCEPT ![c] = "answering"]
  /\ UNCHANGED <<log, settled, view, request>>

-----------------------------------------------------------------------------
(* The window *)

\* Mutant of Answer: the window follows latest_sequence instead of
\* next_sequence.
AnswerWithLatest(c) ==
  /\ pc[c] = "answering"
  /\ cursor' = [cursor EXCEPT ![c] = latest]
  /\ missed' = [missed EXCEPT ![c] = @ \cup (cursor[c] + 1 .. gap[c])]
  /\ seen' = [seen EXCEPT ![c] = @ \o batch[c]]
  /\ pc' = [pc EXCEPT ![c] = IF settled THEN "stopped" ELSE "idle"]
  /\ UNCHANGED <<log, settled, request>>

\* Mutant of Answer: the loop goes on whatever the state of the session.
AnswerForever(c) ==
  /\ pc[c] = "answering"
  /\ cursor' = [cursor EXCEPT ![c] =
                  IF batch[c] = <<>> THEN @ ELSE batch[c][Len(batch[c])]]
  /\ missed' = [missed EXCEPT ![c] = @ \cup (cursor[c] + 1 .. gap[c])]
  /\ seen' = [seen EXCEPT ![c] = @ \o batch[c]]
  /\ pc' = [pc EXCEPT ![c] = "idle"]
  /\ UNCHANGED <<log, settled, request>>

\* The snapshot of the state, and what the window does with the answer.
Answer(c) ==
  /\ pc[c] = "answering"
  /\ cursor' = [cursor EXCEPT ![c] =
                  IF batch[c] = <<>> THEN @ ELSE batch[c][Len(batch[c])]]
  /\ missed' = [missed EXCEPT ![c] = @ \cup (cursor[c] + 1 .. gap[c])]
  /\ seen' = [seen EXCEPT ![c] = @ \o batch[c]]
  /\ pc' = [pc EXCEPT ![c] = IF settled THEN "stopped" ELSE "idle"]
  /\ UNCHANGED <<log, settled, request>>

\* attach: a window forgets what it had and reads from the start.
Attach(c) ==
  /\ ~settled
  /\ pc' = [pc EXCEPT ![c] = "idle"]
  /\ cursor' = [cursor EXCEPT ![c] = 0]
  /\ seen' = [seen EXCEPT ![c] = <<>>]
  /\ missed' = [missed EXCEPT ![c] = {}]
  /\ UNCHANGED <<log, settled, request>>

ReaderStep(c) ==
  \/ Subscribe(c) \/ ReceiveReplay(c) \/ ReceiveLive(c)
  \/ ReadFails(c) \/ DrainEnds(c) \/ Answer(c)

Next ==
  \/ Publish \/ Settle
  \/ \E c \in Clients : ReaderStep(c) \/ Attach(c)

Spec == Init /\ [][Next]_vars

\* The daemon polls the request's task and the window its loop; nobody is
\* obliged to publish, to settle or to attach.
FairSpec == Spec /\ \A c \in Clients : WF_vars(ReaderStep(c))
-----------------------------------------------------------------------------
(* Properties *)

\* Every variable has its type.
TypeOK ==
  /\ latest \in 0 .. MaxSequence /\ dropped \in Nat /\ retained \in Seq(Nat)
  /\ settled \in BOOLEAN
  /\ pc \in [Clients -> {"idle", "reading", "answering", "stopped", "failed"}]
  /\ cursor \in [Clients -> Nat] /\ gap \in [Clients -> Nat]
  /\ replay \in [Clients -> Seq(Nat)] /\ receiver \in [Clients -> Nat]
  /\ batch \in [Clients -> Seq(Nat)]
  /\ seen \in [Clients -> Seq(Nat)] /\ missed \in [Clients -> SUBSET Nat]

\* The replay queue is the unbroken end of the stream: bounded, in order, and
\* starting right after dropped_through_sequence.
QueueUnbroken ==
  /\ Len(retained) <= ReplayEvents
  /\ latest = dropped + Len(retained)
  /\ \A i \in 1 .. Len(retained) : retained[i] = dropped + i

\* A subscription stitches the replay and the live channel together without a
\* hole or an overlap, although publishers run between the daemon's steps: the
\* batch, the rest of the replay and the receiver's position are consecutive.
From(c) == IF gap[c] > cursor[c] THEN gap[c] ELSE cursor[c]
Consecutive(c) ==
  /\ From(c) <= latest
  /\ \A i \in 1 .. Len(batch[c]) : batch[c][i] = From(c) + i
  /\ \A i \in 1 .. Len(replay[c]) : replay[c][i] = From(c) + Len(batch[c]) + i
  /\ receiver[c] = From(c) + Len(batch[c]) + Len(replay[c]) + 1
  /\ receiver[c] <= latest + 1
Stitched ==
  \A c \in Clients : pc[c] \in {"reading", "answering"} => Consecutive(c)

\* Reading from the last acknowledged sequence delivers every event once and
\* in order; what retention took away is reported as a gap, never skipped in
\* silence, and a reader that fell behind the channel loses nothing.
Entries(s) == {s[i] : i \in 1 .. Len(s)}
ExactlyOnce ==
  \A c \in Clients :
    /\ \A i, j \in 1 .. Len(seen[c]) : i < j => seen[c][i] < seen[c][j]
    /\ Entries(seen[c]) \cup missed[c] = 1 .. cursor[c]
    /\ Entries(seen[c]) \cap missed[c] = {}

\* The log and its readers implement the abstract stream.
Stream == INSTANCE EventStream
StreamSpec == Stream!Spec

\* The loop of every window ends once the session has settled, or with an
\* error it shows.
LoopEnds ==
  \A c \in Clients : settled ~> pc[c] \in {"stopped", "failed"}

\* A window whose loop has ended has shown the whole stream.
StreamShown ==
  \A c \in Clients : pc[c] = "stopped" => cursor[c] = latest
=============================================================================
