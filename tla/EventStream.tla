---------------------------- MODULE EventStream ----------------------------
(***************************************************************************)
(* What a session's event stream promises a reader, whatever replay queue, *)
(* broadcast channel and batching lie in between: events are numbered from *)
(* 1, and a reader advances over them in order, each event either handed   *)
(* to it once or covered by a gap it is told about.                        *)
(***************************************************************************)
EXTENDS Integers, Sequences

CONSTANTS Clients, MaxSequence

VARIABLES latest, cursor, seen, missed

streamVars == <<latest, cursor, seen, missed>>

Init ==
  /\ latest = 0
  /\ cursor = [c \in Clients |-> 0]
  /\ seen = [c \in Clients |-> <<>>]
  /\ missed = [c \in Clients |-> {}]

Append1 ==
  /\ latest < MaxSequence
  /\ latest' = latest + 1
  /\ UNCHANGED <<cursor, seen, missed>>

\* A reader is told that it missed everything up to from and gets from + 1 .. to.
Advance(c) ==
  \E from \in cursor[c] .. latest :
    \E to \in from .. latest :
      /\ cursor' = [cursor EXCEPT ![c] = to]
      /\ missed' = [missed EXCEPT ![c] = @ \cup (cursor[c] + 1 .. from)]
      /\ seen' = [seen EXCEPT ![c] = @ \o [i \in 1 .. to - from |-> from + i]]
      /\ UNCHANGED latest

\* A window that attaches starts over.
Restart(c) ==
  /\ cursor' = [cursor EXCEPT ![c] = 0]
  /\ seen' = [seen EXCEPT ![c] = <<>>]
  /\ missed' = [missed EXCEPT ![c] = {}]
  /\ UNCHANGED latest

Next == Append1 \/ \E c \in Clients : Advance(c) \/ Restart(c)

Spec == Init /\ [][Next]_streamVars
=============================================================================
