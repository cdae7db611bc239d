---------------------------- MODULE DesktopViews ----------------------------
(***************************************************************************)
(* What the windows of the desktop ask for, beside what one of them sees   *)
(* of a terminal's output: DesktopHost and TerminalOutput share no state,  *)
(* and a behaviour moves one of them, chosen at the start as "view".  The  *)
(* output has no grant in it: every read of a window was authorised as a   *)
(* command of DesktopHost.                                                 *)
(***************************************************************************)
EXTENDS DesktopHost, Sequences

CONSTANTS ChunkBytes, BufferBytes, PollBytes, SegmentBytes, ChannelCapacity, MaxChunks

ASSUME OutputAssumption ==
  /\ ChunkBytes \in Nat /\ BufferBytes \in Nat /\ PollBytes \in Nat
  /\ ChannelCapacity \in Nat /\ MaxChunks \in Nat

VARIABLES view, chunks, latest, dropped, reading, unsent, channel, segment, writing,
          stored, failed, cursor, seen, missed

outputVars == <<chunks, latest, dropped, reading, unsent, channel, segment, writing, stored,
                failed, cursor, seen, missed>>

Output == INSTANCE TerminalOutput WITH rows <- stored

ViewInit == Init /\ Output!Init /\ view \in {"commands", "output"}

ViewNext ==
  /\ UNCHANGED view
  /\ \/ view = "commands" /\ Next /\ UNCHANGED outputVars
     \/ view = "output" /\ Output!Next /\ UNCHANGED vars

ViewSpec == ViewInit /\ [][ViewNext]_<<view, vars, outputVars>>

\* TerminalOutput: what a window's cursor has passed it was given or told it
\* missed, and the stored segments follow each other without a silent gap.
OutputAccounted == Output!OutputAccounted
=============================================================================
