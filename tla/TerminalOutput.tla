--------------------------- MODULE TerminalOutput ---------------------------
(***************************************************************************)
(* The output of one terminal (terminal.rs).  The reader task numbers the  *)
(* chunks it reads from the PTY, keeps the latest ones in a buffer bounded *)
(* in bytes and sends each of them over a bounded channel to a writer that *)
(* collects segments and stores them encrypted.  A window polls the buffer *)
(* with its own cursor.                                                    *)
(***************************************************************************)
EXTENDS Naturals, Sequences, FiniteSets, Functions

CONSTANTS ChunkBytes,     \* TERMINAL_READ_CHUNK_BYTES: largest chunk
          BufferBytes,    \* MAX_BUFFERED_TERMINAL_BYTES
          PollBytes,      \* byte limit of the window's polls
          SegmentBytes,   \* PERSISTED_SEGMENT_BYTES
          ChannelCapacity,\* PERSISTENCE_CHANNEL_CAPACITY
          MaxChunks       \* bound on the chunks the child writes

VARIABLES
  chunks, latest, dropped,    \* OutputBuffer
  reading,    \* "reading", "sending" or "ended": spawn_output_reader
  unsent,     \* the chunk to be sent, or <<>>
  channel,    \* the persistence channel; its sender is dropped at the end
  segment,    \* what the persistence writer collects: [from, to, bytes]
  writing,    \* "collecting", "flushing" or "done"
  rows,       \* terminal segments in the database
  failed,     \* segments whose write failed
  cursor, seen, missed   \* the window

bufferVars == <<chunks, latest, dropped>>
writerVars == <<segment, writing, rows, failed>>
windowVars == <<cursor, seen, missed>>
vars == <<bufferVars, reading, unsent, channel, writerVars, windowVars>>

Bytes(s) ==
  LET sum[n \in 0..Len(s)] == IF n = 0 THEN 0 ELSE sum[n - 1] + s[n].bytes IN sum[Len(s)]
Fits(s, limit) == Bytes(s) <= limit
NoSegment == [from |-> 0, to |-> 0, bytes |-> 0]

Init ==
  /\ chunks = <<>> /\ latest = 0 /\ dropped = 0
  /\ reading = "reading" /\ unsent = <<>> /\ channel = <<>>
  /\ segment = NoSegment /\ writing = "collecting" /\ rows = {} /\ failed = {}
  /\ cursor = 0 /\ seen = {} /\ missed = {}

-----------------------------------------------------------------------------
(* OutputBuffer::push: number the chunk, drop the oldest ones over the cap.*)

Excess(s) == CHOOSE n \in 0..Len(s) :
               /\ Fits(SubSeq(s, n + 1, Len(s)), BufferBytes)
               /\ \A m \in 0..(n - 1) : ~Fits(SubSeq(s, m + 1, Len(s)), BufferBytes)

Push(b) ==
  LET chunk == [sequence |-> latest + 1, bytes |-> b]
      all == Append(chunks, chunk)
      n == Excess(all)
  IN /\ reading = "reading" /\ latest < MaxChunks
     /\ latest' = latest + 1
     /\ chunks' = SubSeq(all, n + 1, Len(all))
     /\ dropped' = IF n = 0 THEN dropped ELSE all[n].sequence
     /\ unsent' = <<chunk>> /\ reading' = "sending"
     /\ UNCHANGED <<channel, writerVars, windowVars>>

\* The reader waits while the channel is full.
Send ==
  /\ reading = "sending" /\ Len(channel) < ChannelCapacity
  /\ channel' = channel \o unsent /\ unsent' = <<>>
  /\ reading' = "reading"
  /\ UNCHANGED <<bufferVars, writerVars, windowVars>>

OutputEnds ==
  /\ reading = "reading" /\ reading' = "ended"
  /\ UNCHANGED <<bufferVars, unsent, channel, writerVars, windowVars>>

-----------------------------------------------------------------------------
(* spawn_persistence_writer.                                               *)

\* append_persisted_chunk: the first chunk sets the start of the segment.
Extended(c) == [from |-> IF segment.from = 0 THEN c.sequence ELSE segment.from,
                to |-> c.sequence, bytes |-> segment.bytes + c.bytes]

Collect ==
  /\ writing = "collecting" /\ channel # <<>>
  /\ segment' = Extended(Head(channel))
  /\ channel' = Tail(channel)
  /\ writing' = IF segment.bytes > 0 /\ segment'.bytes >= SegmentBytes
                THEN "flushing" ELSE "collecting"
  /\ UNCHANGED <<bufferVars, reading, unsent, rows, failed, windowVars>>

\* The flush delay passes, or the channel is closed and empty.
FlushDue ==
  /\ writing = "collecting" /\ segment.bytes > 0
  /\ writing' = "flushing"
  /\ UNCHANGED <<bufferVars, reading, unsent, channel, segment, rows, failed, windowVars>>

\* persist_buffer takes the buffer whether or not the write succeeds.
Persist(ok) ==
  /\ writing = "flushing"
  /\ segment' = NoSegment /\ writing' = "collecting"
  /\ LET s == [from |-> segment.from, to |-> segment.to] IN
       IF ok THEN rows' = rows \cup {s} /\ UNCHANGED failed
       ELSE failed' = failed \cup {s} /\ UNCHANGED rows
  /\ UNCHANGED <<bufferVars, reading, unsent, channel, windowVars>>

WriterEnds ==
  /\ writing = "collecting" /\ segment.bytes = 0 /\ channel = <<>> /\ reading = "ended"
  /\ writing' = "done"
  /\ UNCHANGED <<bufferVars, reading, unsent, channel, segment, rows, failed, windowVars>>

-----------------------------------------------------------------------------
(* A poll of the window: chunks after its cursor, as many as fit.          *)

\* A slip: the cursor is not moved over what the buffer dropped.
StartAtCursor == cursor

Start == IF cursor < dropped THEN dropped ELSE cursor

\* The chunks are in the order of their numbers.
After ==
  LET passed == CHOOSE n \in 0..Len(chunks) :
                  \A i \in DOMAIN chunks : chunks[i].sequence > Start <=> i > n
  IN  SubSeq(chunks, passed + 1, Len(chunks))

Fitting ==
  LET n == CHOOSE n \in 0..Len(After) :
             /\ Fits(SubSeq(After, 1, n), PollBytes)
             /\ n < Len(After) => ~Fits(SubSeq(After, 1, n + 1), PollBytes)
  IN SubSeq(After, 1, n)

Poll ==
  /\ cursor < latest
  /\ LET got == Fitting IN
       /\ cursor' = IF got = <<>> THEN Start ELSE got[Len(got)].sequence
       /\ seen' = seen \cup {c.sequence : c \in Range(got)}
  /\ missed' = missed \cup (cursor + 1)..Start
  /\ UNCHANGED <<bufferVars, reading, unsent, channel, writerVars>>

Next ==
  \/ \E b \in 1..ChunkBytes : Push(b)
  \/ Send \/ OutputEnds \/ Collect \/ FlushDue
  \/ \E ok \in BOOLEAN : Persist(ok)
  \/ WriterEnds \/ Poll

Spec == Init /\ [][Next]_vars

-----------------------------------------------------------------------------
\* Every variable keeps its type.
Chunks == [sequence : 1..MaxChunks, bytes : 1..ChunkBytes]
TypeOK ==
  /\ chunks \in Seq(Chunks) /\ latest \in 0..MaxChunks /\ dropped \in 0..MaxChunks
  /\ reading \in {"reading", "sending", "ended"}
  /\ unsent \in Seq(Chunks) /\ Len(unsent) <= 1
  /\ channel \in Seq(Chunks) /\ Len(channel) <= ChannelCapacity
  /\ segment \in [from : Nat, to : Nat, bytes : Nat]
  /\ writing \in {"collecting", "flushing", "done"}
  /\ rows \cup failed \subseteq [from : Nat, to : Nat]
  /\ cursor \in 0..MaxChunks /\ seen \subseteq 1..MaxChunks /\ missed \subseteq 1..MaxChunks

\* What a window's cursor has passed it has either been given or been told it
\* missed, never both and never neither, however the buffer drops meanwhile.
CursorAccounts == seen \cap missed = {} /\ seen \cup missed = 1..cursor

\* The rows of a terminal follow each other: a segment begins where the last
\* one written or lost ended, so the stored scrollback has no silent gap.
Sent == latest - Len(unsent)
Collected == Sent - Len(channel)
Flushed == IF segment.bytes = 0 THEN Collected ELSE segment.from - 1
SegmentsFollow ==
  /\ \A s, t \in rows \cup failed : s # t => s.to < t.from \/ t.to < s.from
  /\ UNION {s.from .. s.to : s \in rows \cup failed} = 1 .. Flushed

\* The two accounts above, of variables that keep their types: neither the
\* window nor the stored scrollback loses output silently.
OutputAccounted == TypeOK /\ CursorAccounts /\ SegmentsFollow

\* What makes it inductive.  The buffer holds the chunks after the dropped
\* ones, and those that are on their way to the database are the last ones.
BufferSound ==
  /\ dropped <= latest /\ cursor <= latest /\ Len(chunks) = latest - dropped
  /\ \A i \in DOMAIN chunks : chunks[i].sequence = dropped + i
OnTheWay ==
  /\ Collected >= 0
  /\ reading = "sending" <=> unsent # <<>>
  /\ unsent # <<>> => unsent[1].sequence = latest
  /\ \A i \in DOMAIN channel : channel[i].sequence = Collected + i
  /\ \/ segment = NoSegment
     \/ segment.bytes > 0 /\ segment.from \in 1..segment.to /\ segment.to = Collected
  /\ writing = "flushing" => segment.bytes > 0
  /\ \A s \in rows \cup failed : s.from \in 1..s.to /\ s.to <= Flushed
IInv == OutputAccounted /\ BufferSound /\ OnTheWay
=============================================================================
