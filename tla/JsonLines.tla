------------------------------ MODULE JsonLines ------------------------------
(***************************************************************************)
(* The bounded decoder of newline-delimited JSON                           *)
(* (maestro-adapter/src/jsonl.rs).  The bytes are digits, carriage returns *)
(* and newlines: a line of digits with white space around them is a JSON   *)
(* value, every other line is not.                                         *)
(***************************************************************************)
EXTENDS Naturals, Sequences, FiniteSets

CONSTANTS MaximumFrameBytes,     \* BoundedJsonLineDecoder.maximum_frame_bytes
          MaximumBatchBytes,     \* maximum_batch_bytes, 4 * (frame + 1) in the code
          MaximumFramesPerPush,  \* maximum_frames_per_push
          MaxChunk, MaxStream    \* bounds on a chunk and on the whole stream

VARIABLES
  fed,      \* all bytes given to push
  frames,   \* the values returned so far
  buffer,   \* BoundedJsonLineDecoder.buffer
  error     \* "none" or the first terminal error: the decoder is poisoned

vars == <<fed, frames, buffer, error>>

Bytes == {"digit", "cr", "newline"}
Chunks == UNION {[1..n -> Bytes] : n \in 1..MaxChunk}

Init == fed = <<>> /\ frames = <<>> /\ buffer = <<>> /\ error = "none"

-----------------------------------------------------------------------------
\* serde_json::from_slice on a line: the number of its digits, or none.
Digits(line) == {i \in DOMAIN line : line[i] = "digit"}
IsValue(line) ==
  Digits(line) # {} /\ \A i, k \in Digits(line) : \A j \in i..k : j \in Digits(line)
Value(line) == Cardinality(Digits(line))

WithoutReturn(line) ==
  IF line # <<>> /\ line[Len(line)] = "cr" THEN SubSeq(line, 1, Len(line) - 1) ELSE line

Poison(d, e) == [d EXCEPT !.buffer = <<>>, !.error = e]

\* A slip: what the buffer holds already is not counted.
ExtendUncounted(d, bytes) ==
  IF Len(bytes) > MaximumFrameBytes THEN Poison(d, "frame_too_large")
  ELSE [d EXCEPT !.buffer = @ \o bytes]

\* extend_checked
Extend(d, bytes) ==
  IF Len(bytes) > MaximumFrameBytes - Len(d.buffer) THEN Poison(d, "frame_too_large")
  ELSE [d EXCEPT !.buffer = @ \o bytes]

\* One turn of push's loop: the bytes before the next newline.
TakeLine(d, segment) ==
  LET extended == Extend(d, segment)
      line == WithoutReturn(extended.buffer)
  IN  IF d.error # "none" THEN d
      ELSE IF Len(d.frames) >= MaximumFramesPerPush THEN Poison(d, "too_many_frames")
      ELSE IF extended.error # "none" THEN extended
      ELSE IF ~IsValue(line) THEN Poison(d, "invalid_json")
      ELSE [d EXCEPT !.frames = Append(@, Value(line)), !.buffer = <<>>]

\* The segments of a byte sequence that a newline ends, and the rest.
Split(bytes) ==
  LET upTo[n \in 0..Len(bytes)] ==
        LET before == upTo[n - 1] IN
        IF n = 0 THEN [segments |-> <<>>, rest |-> <<>>]
        ELSE IF bytes[n] = "newline"
          THEN [segments |-> Append(before.segments, before.rest), rest |-> <<>>]
          ELSE [before EXCEPT !.rest = Append(@, bytes[n])]
  IN  upTo[Len(bytes)]
Segments(bytes) == Split(bytes).segments
Rest(bytes) == Split(bytes).rest

\* push's loop over the segments of a batch.
Looped(segments) ==
  LET after[k \in 0..Len(segments)] ==
        IF k = 0 THEN [frames |-> <<>>, buffer |-> buffer, error |-> "none"]
        ELSE TakeLine(after[k - 1], segments[k])
  IN  after[Len(segments)]

Decoded(chunk) ==
  LET batch == SubSeq(chunk, 1, IF Len(chunk) > MaximumBatchBytes THEN MaximumBatchBytes ELSE Len(chunk))
      looped == Looped(Segments(batch))
  IN  IF looped.error # "none" THEN looped
      ELSE IF Len(chunk) > MaximumBatchBytes THEN Poison(looped, "batch_too_large")
      ELSE Extend(looped, Rest(batch))

Push ==
  \E chunk \in Chunks :
    /\ error = "none" /\ Len(fed) + Len(chunk) <= MaxStream
    /\ fed' = fed \o chunk
    /\ LET d == Decoded(chunk)
       IN  frames' = frames \o d.frames /\ buffer' = d.buffer /\ error' = d.error

\* finish at the end of the stream; a second push or finish returns Poisoned.
Finish ==
  /\ error = "none" /\ buffer # <<>>
  /\ buffer' = <<>> /\ error' = "incomplete_frame"
  /\ UNCHANGED <<fed, frames>>

Next == Push \/ Finish

-----------------------------------------------------------------------------
(* What the decoder promises, stated on the whole stream at once.          *)

Acceptable(line) == Len(line) <= MaximumFrameBytes /\ IsValue(WithoutReturn(line))

\* However the stream is cut into chunks, the values are those of its leading
\* acceptable lines in order; a decoder without an error has returned all of
\* them and keeps exactly the unfinished line, and one that stopped at a bad
\* line has returned every value before that line and none after it.
FramesOfStream ==
  LET lines == Segments(fed)
      bad == {k \in DOMAIN lines : ~Acceptable(lines[k])}
      good == {k \in DOMAIN lines : \A j \in bad : k < j}
      all == Cardinality(good)
  IN  /\ Len(frames) <= all
      /\ \A k \in DOMAIN frames : frames[k] = Value(lines[k])
      /\ error = "none" => bad = {} /\ Len(frames) = all /\ buffer = Rest(fed)
      /\ error = "invalid_json" => bad # {} /\ Len(frames) = all
      /\ error = "frame_too_large" =>
           Len(frames) = all /\ (bad # {} \/ Len(Rest(fed)) > MaximumFrameBytes)
      /\ error # "none" => buffer = <<>>
      /\ Len(buffer) <= MaximumFrameBytes

\* Inductive as it stands: what a push adds depends on the earlier bytes only
\* through the unfinished line, which is in the buffer.
IInv ==
  /\ fed \in Seq(Bytes) /\ frames \in Seq(Nat) /\ buffer \in Seq(Bytes)
  /\ FramesOfStream
=============================================================================
