-------------------------- MODULE TerminalsProofs --------------------------
(***************************************************************************)
(* Proofs about Terminals, for any terminals, closers and number of slots. *)
(* What is to be shown, TerminalsSound, is not inductive: who takes a      *)
(* terminal off the queue, out of the table or away from its lease acts on *)
(* what it has found out some steps earlier, under another lock.  What is  *)
(* still true of it by then is said here, as four parts of an inductive    *)
(* invariant.                                                              *)
(***************************************************************************)
EXTENDS Terminals, FiniteSetTheorems, TLAPS

\* Who has a terminal in hand, and since when: whatever names a terminal, other
\* than its slot and its lease, comes after it was opened.
Opened ==
  /\ \A t \in Terminals :
       \/ launch[t] = "open"
       \/ /\ t \notin table /\ t \notin retained /\ reader[t] = "none" /\ fin[t] = Unlocked
          /\ state[t] = "running" /\ waiter[t] = "none"
  /\ \A t \in Terminals : popped[t] # Nobody => launch[popped[t]] = "open"
  /\ \A k \in Closers : close[k].step # "idle" =>
       close[k].terminal \in Terminals /\ launch[close[k].terminal] = "open"

\* The slot stays with a terminal until the one who took its permit out gives it
\* back; once it is free nobody puts the terminal on the queue again.
PermitsSound ==
  \A t \in Terminals :
    launch[t] \in {"pruning", "removing", "spawning", "registering"} \/ fin[t].step = "push"
      => t \in slots
PoppedSound ==
  \A t \in Terminals : popped[t] # Nobody =>
    popped[t] \notin slots /\ \A i \in DOMAIN completed : completed[i] # popped[t]
RemovalsSound ==
  \A k \in Closers :
    /\ close[k].step \in {"settle", "remove"} => close[k].terminal \notin slots
    /\ close[k].step = "remove" => close[k].terminal \notin retained
SlotsSound == PermitsSound /\ PoppedSound /\ RemovalsSound

\* A child whose outcome has been reported is gone, and whoever goes on to
\* finalise a terminal knows of its outcome or could not terminate it.
ChildKnown ==
  /\ \A t \in Terminals : Ended(t) => gone[t]
  /\ \A t \in Terminals : reader[t] \in {"exited", "failed"} => gone[t] \/ t \in unsure
  /\ \A k \in Closers : close[k].step = "finalize" => gone[close[k].terminal]

\* The lease of an agent's terminal is there from the launch to the beginning
\* of its finalisation, which comes before the slot is given back.
LeasesSound ==
  /\ \A t \in Terminals : waiter[t] # "none" => t \in AgentTerminals
  /\ \A t \in AgentTerminals :
       launch[t] \in {"pruning", "removing", "spawning", "registering"} => t \in lease
  /\ \A t \in Terminals : fin[t].step # "none" => t \notin lease
  /\ \A t \in Terminals : launch[t] = "open" /\ t \notin slots => t \notin lease

\* The inductive invariant.
IInv == TerminalsSound /\ Opened /\ SlotsSound /\ ChildKnown /\ LeasesSound

-----------------------------------------------------------------------------
(* The completed queue.                                                    *)

\* No entry of the queue comes twice.
Distinct(s) == \A i, j \in DOMAIN s : s[i] = s[j] => i = j

\* Taking the first entry off.
LEMMA TailSound ==
  ASSUME NEW S, NEW s \in Seq(S), s # <<>>, Distinct(s)
  PROVE  /\ Head(s) \in S /\ 1 \in DOMAIN s /\ Head(s) = s[1]
         /\ Tail(s) \in Seq(S) /\ Distinct(Tail(s))
         /\ \A i \in DOMAIN Tail(s) : i + 1 \in DOMAIN s /\ Tail(s)[i] = s[i + 1] /\ Tail(s)[i] # Head(s)
<1>1. /\ Head(s) \in S /\ 1 \in DOMAIN s /\ Head(s) = s[1] /\ Tail(s) \in Seq(S)
      /\ Len(s) \in Nat /\ DOMAIN s = 1 .. Len(s) /\ DOMAIN Tail(s) = 1 .. Len(s) - 1
  OBVIOUS
<1>2. \A i \in DOMAIN Tail(s) : i + 1 \in DOMAIN s /\ Tail(s)[i] = s[i + 1]
  BY <1>1
<1> QED
  BY <1>1, <1>2 DEF Distinct

\* Adding an entry that is not there.
LEMMA AppendSound ==
  ASSUME NEW S, NEW s \in Seq(S), NEW x \in S, Distinct(s), \A i \in DOMAIN s : s[i] # x
  PROVE  /\ Append(s, x) \in Seq(S) /\ Distinct(Append(s, x))
         /\ \A i \in DOMAIN Append(s, x) : Append(s, x)[i] = x \/ \E j \in DOMAIN s : s[j] = Append(s, x)[i]
<1>1. /\ Append(s, x) \in Seq(S) /\ Len(s) \in Nat /\ DOMAIN s = 1 .. Len(s)
      /\ DOMAIN Append(s, x) = 1 .. Len(s) + 1
      /\ Append(s, x)[Len(s) + 1] = x /\ \A i \in 1 .. Len(s) : Append(s, x)[i] = s[i]
  OBVIOUS
<1>2. \A i \in DOMAIN Append(s, x) : i \in DOMAIN s \/ i = Len(s) + 1
  BY <1>1
<1>3. Distinct(Append(s, x))
  BY <1>1, <1>2 DEF Distinct
<1> QED
  BY <1>1, <1>2, <1>3

\* A filter of a queue without the entry is the queue.
LEMMA RetainAll ==
  ASSUME NEW S, NEW s \in Seq(S), NEW t, \A i \in DOMAIN s : s[i] # t
  PROVE  Retain(s, t) = s
<1> DEFINE n == Len(s)
           kept == {i \in DOMAIN s : s[i] # t}
           rank(i) == Cardinality({h \in kept : h <= i})
<1>1. n \in Nat /\ DOMAIN s = 1 .. n /\ kept = 1 .. n
  OBVIOUS
<1>0. \A i \in Nat : Cardinality(1 .. i) = i
  <2> TAKE i \in Nat
  <2> QED
    BY FS_Interval
<1>2. Cardinality(kept) = n
  BY <1>0, <1>1
<1>3. \A i \in 1 .. n : rank(i) = i
  <2> TAKE i \in 1 .. n
  <2>1. {h \in kept : h <= i} = 1 .. i
    BY <1>1
  <2>2. i \in Nat
    BY <1>1
  <2> QED
    BY <1>0, <2>1, <2>2
<1>4. \A j \in 1 .. n : (CHOOSE i \in kept : rank(i) = j) = j
  BY <1>1, <1>3
<1> HIDE DEF kept, rank
<1>5. Retain(s, t) = [j \in 1 .. n |-> s[CHOOSE i \in kept : rank(i) = j]]
  BY <1>2 DEF Retain, kept, rank
<1>6. Retain(s, t) = [j \in 1 .. n |-> s[j]]
  BY <1>4, <1>5
<1> QED
  BY <1>1, <1>6

\* A filter of a queue with the entry at one place p closes the gap.
LEMMA RetainOthers ==
  ASSUME NEW S, NEW s \in Seq(S), NEW t, NEW p \in DOMAIN s, s[p] = t,
         \A i \in DOMAIN s : i # p => s[i] # t
  PROVE  Retain(s, t) = [j \in 1 .. Len(s) - 1 |-> IF j < p THEN s[j] ELSE s[j + 1]]
<1> DEFINE n == Len(s)
           kept == {i \in DOMAIN s : s[i] # t}
           rank(i) == Cardinality({h \in kept : h <= i})
<1>1. n \in Nat /\ DOMAIN s = 1 .. n /\ kept = (1 .. n) \ {p} /\ p \in 1 .. n
  OBVIOUS
<1>2. \A i \in Nat : Cardinality(1 .. i) = i /\ IsFiniteSet(1 .. i)
  <2> TAKE i \in Nat
  <2> QED
    BY FS_Interval
<1>3. \A i \in p .. n : Cardinality((1 .. i) \ {p}) = i - 1
  <2> TAKE i \in p .. n
  <2>1. i \in Nat /\ p \in 1 .. i
    BY <1>1
  <2> QED
    BY <1>2, <2>1, FS_RemoveElement
<1>4. Cardinality(kept) = n - 1
  BY <1>1, <1>3
<1>5. \A i \in kept : rank(i) = IF i < p THEN i ELSE i - 1
  <2> TAKE i \in kept
  <2>0. i \in 1 .. n /\ i # p /\ i \in Nat
    BY <1>1
  <2>1. CASE i < p
    <3>1. {h \in kept : h <= i} = 1 .. i
      BY <1>1, <2>0, <2>1
    <3> QED
      BY <1>2, <2>0, <2>1, <3>1
  <2>2. CASE i > p
    <3>1. {h \in kept : h <= i} = (1 .. i) \ {p}
      BY <1>1, <2>0, <2>2
    <3>2. i \in p .. n
      BY <1>1, <2>0, <2>2
    <3> QED
      BY <1>1, <1>3, <2>0, <2>2, <3>1, <3>2
  <2> QED
    BY <1>1, <2>0, <2>1, <2>2
<1> DEFINE at(j) == IF j < p THEN j ELSE j + 1
<1>6. \A j \in 1 .. n - 1 : at(j) \in kept /\ rank(at(j)) = j /\ \A i \in kept : rank(i) = j => i = at(j)
  <2> HIDE DEF rank, kept
  <2> TAKE j \in 1 .. n - 1
  <2>1. at(j) \in kept /\ at(j) \in 1 .. n
    BY <1>1
  <2>2. rank(at(j)) = j
    BY <1>1, <1>5, <2>1
  <2>3. ASSUME NEW i \in kept, rank(i) = j
        PROVE  i = at(j)
    <3>1. i \in 1 .. n /\ i # p
      BY <1>1
    <3> QED
      BY <1>1, <1>5, <2>3, <3>1
  <2> QED
    BY <2>1, <2>2, <2>3
<1> HIDE DEF kept, rank
<1>7. \A j \in 1 .. n - 1 : (CHOOSE i \in kept : rank(i) = j) = at(j)
  <2> HIDE DEF at
  <2> QED
    BY <1>6
<1>8. Retain(s, t) = [j \in 1 .. n - 1 |-> s[CHOOSE i \in kept : rank(i) = j]]
  BY <1>4 DEF Retain, kept, rank
<1>9. Retain(s, t) = [j \in 1 .. n - 1 |-> s[at(j)]]
  <2> HIDE DEF at
  <2> QED
    BY <1>7, <1>8
<1> QED
  BY <1>9

\* Taking one entry out of a queue that has it at most once.
LEMMA RetainSound ==
  ASSUME NEW S, NEW s \in Seq(S), NEW t, Distinct(s)
  PROVE  /\ Retain(s, t) \in Seq(S) /\ Distinct(Retain(s, t))
         /\ \A i \in DOMAIN Retain(s, t) :
              Retain(s, t)[i] # t /\ \E j \in DOMAIN s : s[j] = Retain(s, t)[i]
<1>1. CASE \A i \in DOMAIN s : s[i] # t
  BY <1>1, RetainAll
<1>2. CASE \E p \in DOMAIN s : s[p] = t
  <2> PICK p \in DOMAIN s : s[p] = t
    BY <1>2
  <2> DEFINE n == Len(s)
             r == [j \in 1 .. n - 1 |-> IF j < p THEN s[j] ELSE s[j + 1]]
  <2>1. n \in Nat /\ DOMAIN s = 1 .. n /\ p \in 1 .. n
    OBVIOUS
  <2>2. Retain(s, t) = r
    BY RetainOthers DEF Distinct
  <2>3. \A j \in 1 .. n - 1 : (IF j < p THEN s[j] ELSE s[j + 1]) \in S
    BY <2>1
  <2>4. r \in Seq(S) /\ DOMAIN r = 1 .. n - 1
    BY <2>1, <2>3
  <2>5. \A i \in DOMAIN r : r[i] # t /\ \E j \in DOMAIN s : s[j] = r[i]
    <3> TAKE i \in DOMAIN r
    <3> DEFINE j == IF i < p THEN i ELSE i + 1
    <3>1. j \in DOMAIN s /\ s[j] = r[i] /\ j # p
      BY <2>1, <2>4
    <3> QED
      BY <3>1 DEF Distinct
  <2>6. Distinct(r)
    <3> SUFFICES ASSUME NEW i \in DOMAIN r, NEW j \in DOMAIN r, r[i] = r[j] PROVE i = j
      BY DEF Distinct
    <3> DEFINE a == IF i < p THEN i ELSE i + 1
               b == IF j < p THEN j ELSE j + 1
    <3>1. a \in DOMAIN s /\ s[a] = r[i] /\ b \in DOMAIN s /\ s[b] = r[j]
      BY <2>1, <2>4
    <3>2. a = b
      <4> HIDE DEF a, b
      <4> QED
        BY <3>1 DEF Distinct
    <3> QED
      BY <2>1, <2>4, <3>2
  <2> QED
    BY <2>2, <2>4, <2>5, <2>6
<1> QED
  BY <1>1, <1>2

-----------------------------------------------------------------------------
(* Facts that several actions use.                                         *)

\* The types of a closer's locals.
CloseSteps == {"idle", "guard", "request", "check", "terminate", "finalize", "note", "settle",
               "remove", "ended"}
CloseState == [terminal : Terminals \cup {Nobody}, step : CloseSteps]

\* Closer k alone goes on, on the same terminal.
CloseMovedTo(k) ==
  /\ close' \in [Closers -> CloseState]
  /\ close'[k].terminal = close[k].terminal
  /\ \A j \in Closers : j # k => close'[j] = close[j]

\* The only closer that a move moves.
LEMMA CloseMoved ==
  ASSUME TypeOK, NEW k \in Closers, NEW from, NEW to \in CloseSteps, CloseMoves(k, from, to)
  PROVE  CloseMovedTo(k) /\ close[k].step = from /\ close'[k].step = to
<1> DEFINE q == [close[k] EXCEPT !.step = to]
<1>1. close \in [Closers -> CloseState] /\ close[k] \in CloseState
  BY DEF TypeOK, CloseState, CloseSteps
<1>2. q \in CloseState /\ q.step = to /\ q.terminal = close[k].terminal
  BY <1>1 DEF CloseState
<1>3. close' = [close EXCEPT ![k] = q]
  BY DEF CloseMoves
<1>4. close[k].step = from
  BY DEF CloseMoves
<1> HIDE DEF q
<1> QED
  BY <1>1, <1>2, <1>3, <1>4 DEF CloseMovedTo

-----------------------------------------------------------------------------
(* The steps.                                                              *)

\* A child ends, and its outcome is reported.
LEMMA ChildStepsInv ==
  ASSUME IInv, NEW t \in Terminals, ChildSteps(t)
  PROVE  IInv'
<1> USE TerminalLimit, NamesDistinct DEF IInv, TerminalsSound, processVars, openVars, tableVars,
   runtimeVars, taskVars, history
<1>1. TypeOK'
  BY DEF ChildSteps, Process!Vanishes, Process!ReportsExit, Process!ReportsFailure, TypeOK,
     TerminalStates, Process!Outcomes, Unlocked, NoClose
<1>2. CompletedSound'
  BY DEF ChildSteps, Process!Vanishes, Process!ReportsExit, Process!ReportsFailure, TypeOK,
     CompletedSound
<1>3. LiveReachable'
  BY DEF ChildSteps, Process!Vanishes, Process!ReportsExit, Process!ReportsFailure, TypeOK,
     LiveReachable
<1>4. LeaseBeforeFinal'
  BY DEF ChildSteps, Process!Vanishes, Process!ReportsExit, Process!ReportsFailure, TypeOK,
     LeaseBeforeFinal
<1>5. Opened'
  BY DEF ChildSteps, Process!Vanishes, Process!ReportsExit, Process!ReportsFailure, TypeOK, Opened,
     Unlocked
<1>6. SlotsSound'
  BY DEF ChildSteps, Process!Vanishes, Process!ReportsExit, Process!ReportsFailure, TypeOK,
     SlotsSound, PermitsSound, PoppedSound, RemovalsSound, Unlocked
<1>7. ChildKnown'
  BY DEF ChildSteps, Process!Vanishes, Process!ReportsExit, Process!ReportsFailure, TypeOK,
     ChildKnown, Ended, Opened
<1>8. LeasesSound'
  BY DEF ChildSteps, Process!Vanishes, Process!ReportsExit, Process!ReportsFailure, TypeOK,
     LeasesSound, Unlocked
<1> QED
  BY <1>1, <1>2, <1>3, <1>4, <1>5, <1>6, <1>7, <1>8

\* A launch takes a slot and brings its lease.
LEMMA PrepareInv ==
  ASSUME IInv, NEW t \in Terminals, Prepare(t)
  PROVE  IInv'
<1> USE TerminalLimit, NamesDistinct DEF IInv, TerminalsSound, processVars, openVars, tableVars,
   runtimeVars, taskVars, history
<1>1. TypeOK'
  BY DEF Prepare, LaunchMoves, TypeOK, TerminalStates, Process!Outcomes, Unlocked, NoClose
<1>2. CompletedSound'
  BY DEF Prepare, LaunchMoves, TypeOK, CompletedSound, Opened, Unlocked
<1>3. LiveReachable'
  BY DEF Prepare, LaunchMoves, TypeOK, LiveReachable
<1>4. LeaseBeforeFinal'
  BY DEF Prepare, LaunchMoves, TypeOK, LeaseBeforeFinal, Opened, Unlocked
<1>5. Opened'
  BY DEF Prepare, LaunchMoves, TypeOK, Opened, Unlocked
<1>6. SlotsSound'
  <2>1. PermitsSound'
    BY DEF Prepare, TypeOK, SlotsSound, PermitsSound, LaunchMoves, Opened, Unlocked
  <2>2. PoppedSound'
    BY DEF Prepare, TypeOK, SlotsSound, PoppedSound, LaunchMoves, Opened, Unlocked
  <2>3. RemovalsSound'
    BY DEF Prepare, TypeOK, SlotsSound, RemovalsSound, LaunchMoves, Opened, Unlocked
  <2> QED
    BY <2>1, <2>2, <2>3 DEF SlotsSound
<1>7. ChildKnown'
  BY DEF Prepare, LaunchMoves, TypeOK, ChildKnown, Ended
<1>8. LeasesSound'
  BY DEF Prepare, LaunchMoves, TypeOK, LeasesSound, Unlocked, Opened, Unlocked
<1> QED
  BY <1>1, <1>2, <1>3, <1>4, <1>5, <1>6, <1>7, <1>8

\* The terminal that completed first leaves the queue.
LEMMA PrunePopsInv ==
  ASSUME IInv, NEW t \in Terminals, PrunePops(t)
  PROVE  IInv'
<1> USE TerminalLimit, NamesDistinct DEF IInv, TerminalsSound, processVars, openVars, tableVars,
   runtimeVars, taskVars, history
<1>q. /\ launch[t] = "pruning"
      /\ \/ /\ launch' = [launch EXCEPT ![t] = "removing"]
            /\ completed' \in Seq(Terminals) /\ Distinct(completed')
            /\ \E u \in Terminals :
                 /\ popped' = [popped EXCEPT ![t] = u] /\ \E j \in DOMAIN completed : completed[j] = u
                 /\ \A i \in DOMAIN completed' :
                      completed'[i] # u /\ \E j \in DOMAIN completed : completed[j] = completed'[i]
         \/ launch' = [launch EXCEPT ![t] = "spawning"] /\ UNCHANGED <<popped, completed>>
  <2>1. completed \in Seq(Terminals) /\ Distinct(completed)
    BY DEF TypeOK, CompletedSound, Distinct
  <2>2. /\ launch[t] = "pruning"
        /\ \/ /\ launch' = [launch EXCEPT ![t] = "removing"] /\ completed # <<>>
              /\ popped' = [popped EXCEPT ![t] = Head(completed)] /\ completed' = Tail(completed)
           \/ launch' = [launch EXCEPT ![t] = "spawning"] /\ UNCHANGED <<popped, completed>>
    BY DEF PrunePops, LaunchMoves
  <2>3. completed # <<>> =>
          /\ Head(completed) \in Terminals /\ \E j \in DOMAIN completed : completed[j] = Head(completed)
          /\ Tail(completed) \in Seq(Terminals) /\ Distinct(Tail(completed))
          /\ \A i \in DOMAIN Tail(completed) :
               /\ Tail(completed)[i] # Head(completed)
               /\ \E j \in DOMAIN completed : completed[j] = Tail(completed)[i]
    BY <2>1, TailSound
  <2> QED
    BY <2>2, <2>3
<1>r. popped' \in [Terminals -> Terminals \cup {Nobody}] /\ completed' \in Seq(Terminals)
  <2>1. popped \in [Terminals -> Terminals \cup {Nobody}] /\ completed \in Seq(Terminals)
    BY DEF TypeOK
  <2> QED
    BY <1>q, <2>1
<1>s. \A u \in Terminals : launch[u] = "open" => launch'[u] = "open"
  BY <1>q DEF TypeOK
<1>u. /\ \A i \in DOMAIN completed' : \E j \in DOMAIN completed : completed[j] = completed'[i]
      /\ \A s \in Terminals : popped'[s] # Nobody =>
           \/ popped'[s] = popped[s]
           \/ /\ \E j \in DOMAIN completed : completed[j] = popped'[s]
              /\ \A i \in DOMAIN completed' : completed'[i] # popped'[s]
  <2>1. popped \in [Terminals -> Terminals \cup {Nobody}]
    BY DEF TypeOK
  <2> QED
    BY <1>q, <2>1
<1>1. TypeOK'
  BY <1>q, <1>r DEF PrunePops, TypeOK
<1>2. CompletedSound'
  BY <1>q DEF PrunePops, CompletedSound, Distinct
<1>3. LiveReachable'
  BY DEF PrunePops, LaunchMoves, TypeOK, LiveReachable
<1>4. LeaseBeforeFinal'
  BY DEF PrunePops, LaunchMoves, TypeOK, LeaseBeforeFinal
<1>5. Opened'
  <2>1. \A s \in Terminals : popped'[s] # Nobody => launch[popped'[s]] = "open" /\ popped'[s] \in Terminals
    BY <1>r, <1>u DEF TypeOK, Opened, CompletedSound
  <2> QED
    BY <1>s, <2>1 DEF PrunePops, LaunchMoves, TypeOK, Opened, Unlocked
<1>6. SlotsSound'
  <2>1. \A s \in Terminals : popped'[s] # Nobody =>
           popped'[s] \notin slots /\ \A i \in DOMAIN completed' : completed'[i] # popped'[s]
    BY <1>u DEF SlotsSound, PoppedSound, CompletedSound
  <2> QED
    BY <2>1 DEF PrunePops, LaunchMoves, TypeOK, SlotsSound, PermitsSound, PoppedSound, RemovalsSound
<1>7. ChildKnown'
  BY DEF PrunePops, LaunchMoves, TypeOK, ChildKnown, Ended
<1>8. LeasesSound'
  BY DEF PrunePops, LaunchMoves, TypeOK, LeasesSound, Unlocked
<1> QED
  BY <1>1, <1>2, <1>3, <1>4, <1>5, <1>6, <1>7, <1>8

\* It leaves the table; its slot has been free all along.
LEMMA PruneRemovesInv ==
  ASSUME IInv, NEW t \in Terminals, PruneRemoves(t)
  PROVE  IInv'
<1> USE TerminalLimit, NamesDistinct DEF IInv, TerminalsSound, processVars, openVars, tableVars,
   runtimeVars, taskVars, history
<1>1. TypeOK'
  BY DEF PruneRemoves, LaunchMoves, TypeOK, TerminalStates, Process!Outcomes, Unlocked, NoClose
<1>2. CompletedSound'
  BY DEF PruneRemoves, LaunchMoves, TypeOK, CompletedSound, SlotsSound, PoppedSound
<1>3. LiveReachable'
  BY DEF PruneRemoves, LaunchMoves, TypeOK, LiveReachable, SlotsSound, PoppedSound
<1>4. LeaseBeforeFinal'
  BY DEF PruneRemoves, LaunchMoves, TypeOK, LeaseBeforeFinal
<1>5. Opened'
  BY DEF PruneRemoves, LaunchMoves, TypeOK, Opened, Unlocked
<1>6. SlotsSound'
  BY DEF PruneRemoves, LaunchMoves, TypeOK, SlotsSound, PermitsSound, PoppedSound, RemovalsSound,
     Unlocked
<1>7. ChildKnown'
  BY DEF PruneRemoves, LaunchMoves, TypeOK, ChildKnown, Ended
<1>8. LeasesSound'
  BY DEF PruneRemoves, LaunchMoves, TypeOK, LeasesSound, Unlocked
<1> QED
  BY <1>1, <1>2, <1>3, <1>4, <1>5, <1>6, <1>7, <1>8

\* A launch that fails gives everything back.
LEMMA OpenFailsInv ==
  ASSUME IInv, NEW t \in Terminals, OpenFails(t)
  PROVE  IInv'
<1> USE TerminalLimit, NamesDistinct DEF IInv, TerminalsSound, processVars, openVars, tableVars,
   runtimeVars, taskVars, history
<1>1. TypeOK'
  BY DEF OpenFails, LaunchMoves, Fault, TypeOK, TerminalStates, Process!Outcomes, Unlocked, NoClose
<1>2. CompletedSound'
  BY DEF OpenFails, LaunchMoves, Fault, TypeOK, CompletedSound
<1>3. LiveReachable'
  BY DEF OpenFails, LaunchMoves, Fault, TypeOK, LiveReachable
<1>4. LeaseBeforeFinal'
  BY DEF OpenFails, LaunchMoves, Fault, TypeOK, LeaseBeforeFinal
<1>5. Opened'
  BY DEF OpenFails, LaunchMoves, Fault, TypeOK, Opened, Unlocked
<1>6. SlotsSound'
  BY DEF OpenFails, LaunchMoves, Fault, TypeOK, SlotsSound, PermitsSound, PoppedSound,
     RemovalsSound, Unlocked, Opened
<1>7. ChildKnown'
  BY DEF OpenFails, LaunchMoves, Fault, TypeOK, ChildKnown, Ended
<1>8. LeasesSound'
  BY DEF OpenFails, LaunchMoves, Fault, TypeOK, LeasesSound, Unlocked
<1> QED
  BY <1>1, <1>2, <1>3, <1>4, <1>5, <1>6, <1>7, <1>8

\* The child is spawned.
LEMMA SpawnInv ==
  ASSUME IInv, NEW t \in Terminals, Spawn(t)
  PROVE  IInv'
<1> USE TerminalLimit, NamesDistinct DEF IInv, TerminalsSound, processVars, openVars, tableVars,
   runtimeVars, taskVars, history
<1>1. TypeOK'
  BY DEF Spawn, LaunchMoves, Process!Begins, TypeOK, TerminalStates, Process!Outcomes, Unlocked,
     NoClose
<1>2. CompletedSound'
  BY DEF Spawn, LaunchMoves, Process!Begins, TypeOK, CompletedSound
<1>3. LiveReachable'
  BY DEF Spawn, LaunchMoves, Process!Begins, TypeOK, LiveReachable
<1>4. LeaseBeforeFinal'
  BY DEF Spawn, LaunchMoves, Process!Begins, TypeOK, LeaseBeforeFinal
<1>5. Opened'
  BY DEF Spawn, LaunchMoves, Process!Begins, TypeOK, Opened, Unlocked
<1>6. SlotsSound'
  BY DEF Spawn, LaunchMoves, Process!Begins, TypeOK, SlotsSound, PermitsSound, PoppedSound,
     RemovalsSound, Unlocked
<1>7. ChildKnown'
  BY DEF Spawn, LaunchMoves, Process!Begins, TypeOK, ChildKnown, Ended
<1>8. LeasesSound'
  BY DEF Spawn, LaunchMoves, Process!Begins, TypeOK, LeasesSound, Unlocked
<1> QED
  BY <1>1, <1>2, <1>3, <1>4, <1>5, <1>6, <1>7, <1>8

\* The terminal opens, with the lease it was launched with.
LEMMA InsertInv ==
  ASSUME IInv, NEW t \in Terminals, Insert(t)
  PROVE  IInv'
<1> USE TerminalLimit, NamesDistinct DEF IInv, TerminalsSound, processVars, openVars, tableVars,
   runtimeVars, taskVars, history
<1>1. TypeOK'
  BY DEF Insert, LaunchMoves, TypeOK, TerminalStates, Process!Outcomes, Unlocked, NoClose
<1>2. CompletedSound'
  BY DEF Insert, LaunchMoves, TypeOK, CompletedSound
<1>3. LiveReachable'
  BY DEF Insert, LaunchMoves, TypeOK, LiveReachable
<1>4. LeaseBeforeFinal'
  BY DEF Insert, LaunchMoves, TypeOK, LeaseBeforeFinal, LeasesSound, Opened
<1>5. Opened'
  BY DEF Insert, LaunchMoves, TypeOK, Opened, Unlocked
<1>6. SlotsSound'
  BY DEF Insert, LaunchMoves, TypeOK, SlotsSound, PermitsSound, PoppedSound, RemovalsSound,
     Unlocked, Opened
<1>7. ChildKnown'
  BY DEF Insert, LaunchMoves, TypeOK, ChildKnown, Ended
<1>8. LeasesSound'
  BY DEF Insert, LaunchMoves, TypeOK, LeasesSound, Unlocked, Opened, SlotsSound, PermitsSound
<1> QED
  BY <1>1, <1>2, <1>3, <1>4, <1>5, <1>6, <1>7, <1>8

\* The row cannot be written.
LEMMA RegistrationFailsInv ==
  ASSUME IInv, NEW t \in Terminals, RegistrationFails(t)
  PROVE  IInv'
<1> USE TerminalLimit, NamesDistinct DEF IInv, TerminalsSound, processVars, openVars, tableVars,
   runtimeVars, taskVars, history
<1>1. TypeOK'
  BY DEF RegistrationFails, LaunchMoves, Fault, TypeOK, TerminalStates, Process!Outcomes, Unlocked,
     NoClose
<1>2. CompletedSound'
  BY DEF RegistrationFails, LaunchMoves, Fault, TypeOK, CompletedSound
<1>3. LiveReachable'
  BY DEF RegistrationFails, LaunchMoves, Fault, TypeOK, LiveReachable
<1>4. LeaseBeforeFinal'
  BY DEF RegistrationFails, LaunchMoves, Fault, TypeOK, LeaseBeforeFinal
<1>5. Opened'
  BY DEF RegistrationFails, LaunchMoves, Fault, TypeOK, Opened, Unlocked
<1>6. SlotsSound'
  BY DEF RegistrationFails, LaunchMoves, Fault, TypeOK, SlotsSound, PermitsSound, PoppedSound,
     RemovalsSound, Unlocked
<1>7. ChildKnown'
  BY DEF RegistrationFails, LaunchMoves, Fault, TypeOK, ChildKnown, Ended
<1>8. LeasesSound'
  BY DEF RegistrationFails, LaunchMoves, Fault, TypeOK, LeasesSound, Unlocked
<1> QED
  BY <1>1, <1>2, <1>3, <1>4, <1>5, <1>6, <1>7, <1>8

\* The rejected terminal never opens.
LEMMA RejectedInv ==
  ASSUME IInv, NEW t \in Terminals, Rejected(t)
  PROVE  IInv'
<1> USE TerminalLimit, NamesDistinct DEF IInv, TerminalsSound, processVars, openVars, tableVars,
   runtimeVars, taskVars, history
<1>1. TypeOK'
  BY DEF Rejected, LaunchMoves, TypeOK, TerminalStates, Process!Outcomes, Unlocked, NoClose
<1>2. CompletedSound'
  BY DEF Rejected, LaunchMoves, TypeOK, CompletedSound
<1>3. LiveReachable'
  BY DEF Rejected, LaunchMoves, TypeOK, LiveReachable
<1>4. LeaseBeforeFinal'
  BY DEF Rejected, LaunchMoves, TypeOK, LeaseBeforeFinal
<1>5. Opened'
  BY DEF Rejected, LaunchMoves, TypeOK, Opened, Unlocked
<1>6. SlotsSound'
  BY DEF Rejected, LaunchMoves, TypeOK, SlotsSound, PermitsSound, PoppedSound, RemovalsSound,
     Unlocked, Opened
<1>7. ChildKnown'
  BY DEF Rejected, LaunchMoves, TypeOK, ChildKnown, Ended
<1>8. LeasesSound'
  BY DEF Rejected, LaunchMoves, TypeOK, LeasesSound, Unlocked
<1> QED
  BY <1>1, <1>2, <1>3, <1>4, <1>5, <1>6, <1>7, <1>8

\* The lease of a rejected terminal ends with its child.
LEMMA ReleaseRetainedInv ==
  ASSUME IInv, NEW t \in Terminals, ReleaseRetained(t)
  PROVE  IInv'
<1> USE TerminalLimit, NamesDistinct DEF IInv, TerminalsSound, processVars, openVars, tableVars,
   runtimeVars, taskVars, history
<1>1. TypeOK'
  BY DEF ReleaseRetained, LaunchMoves, TypeOK, TerminalStates, Process!Outcomes, Unlocked, NoClose
<1>2. CompletedSound'
  BY DEF ReleaseRetained, LaunchMoves, TypeOK, CompletedSound
<1>3. LiveReachable'
  BY DEF ReleaseRetained, LaunchMoves, TypeOK, LiveReachable
<1>4. LeaseBeforeFinal'
  BY DEF ReleaseRetained, LaunchMoves, TypeOK, LeaseBeforeFinal
<1>5. Opened'
  BY DEF ReleaseRetained, LaunchMoves, TypeOK, Opened, Unlocked
<1>6. SlotsSound'
  BY DEF ReleaseRetained, LaunchMoves, TypeOK, SlotsSound, PermitsSound, PoppedSound, RemovalsSound,
     Unlocked
<1>7. ChildKnown'
  BY DEF ReleaseRetained, LaunchMoves, TypeOK, ChildKnown, Ended
<1>8. LeasesSound'
  BY DEF ReleaseRetained, LaunchMoves, TypeOK, LeasesSound, Unlocked
<1> QED
  BY <1>1, <1>2, <1>3, <1>4, <1>5, <1>6, <1>7, <1>8

\* The reader knows of the outcome, or could not terminate the child.
LEMMA ReaderCompletesInv ==
  ASSUME IInv, NEW t \in Terminals, ReaderCompletes(t)
  PROVE  IInv'
<1> USE TerminalLimit, NamesDistinct DEF IInv, TerminalsSound, processVars, openVars, tableVars,
   runtimeVars, taskVars, history
<1>q. reader' \in [Terminals -> {"none", "reading", "exited", "failed", "storing", "done"}]
  BY DEF ReaderCompletes, TypeOK, Ended
<1>r. faults' \in 0 .. MaxFaults /\ unsure' \subseteq Terminals
  BY DEF ReaderCompletes, TypeOK, Fault
<1>1. TypeOK'
  BY <1>q, <1>r DEF ReaderCompletes, TypeOK
<1>2. CompletedSound'
  BY DEF ReaderCompletes, Fault, Ended, Process!Outcomes, TypeOK, CompletedSound
<1>3. LiveReachable'
  BY DEF ReaderCompletes, Fault, Ended, Process!Outcomes, TypeOK, LiveReachable
<1>4. LeaseBeforeFinal'
  BY DEF ReaderCompletes, Fault, Ended, Process!Outcomes, TypeOK, LeaseBeforeFinal
<1>5. Opened'
  BY DEF ReaderCompletes, Fault, Ended, Process!Outcomes, TypeOK, Opened, Unlocked
<1>6. SlotsSound'
  BY DEF ReaderCompletes, Fault, Ended, Process!Outcomes, TypeOK, SlotsSound, PermitsSound,
     PoppedSound, RemovalsSound, Unlocked
<1>7. ChildKnown'
  BY DEF ReaderCompletes, Fault, Ended, Process!Outcomes, TypeOK, ChildKnown, Ended
<1>8. LeasesSound'
  BY DEF ReaderCompletes, Fault, Ended, Process!Outcomes, TypeOK, LeasesSound, Unlocked
<1> QED
  BY <1>1, <1>2, <1>3, <1>4, <1>5, <1>6, <1>7, <1>8

\* The row gets the state of that moment.
LEMMA ReaderStoresInv ==
  ASSUME IInv, NEW t \in Terminals, ReaderStores(t)
  PROVE  IInv'
<1> USE TerminalLimit, NamesDistinct DEF IInv, TerminalsSound, processVars, openVars, tableVars,
   runtimeVars, taskVars, history
<1>1. TypeOK'
  BY DEF ReaderStores, TypeOK, TerminalStates, Process!Outcomes, Unlocked, NoClose
<1>2. CompletedSound'
  BY DEF ReaderStores, TypeOK, CompletedSound
<1>3. LiveReachable'
  BY DEF ReaderStores, TypeOK, LiveReachable
<1>4. LeaseBeforeFinal'
  BY DEF ReaderStores, TypeOK, LeaseBeforeFinal
<1>5. Opened'
  BY DEF ReaderStores, TypeOK, Opened, Unlocked
<1>6. SlotsSound'
  BY DEF ReaderStores, TypeOK, SlotsSound, PermitsSound, PoppedSound, RemovalsSound, Unlocked
<1>7. ChildKnown'
  BY DEF ReaderStores, TypeOK, ChildKnown, Ended
<1>8. LeasesSound'
  BY DEF ReaderStores, TypeOK, LeasesSound, Unlocked
<1> QED
  BY <1>1, <1>2, <1>3, <1>4, <1>5, <1>6, <1>7, <1>8

\* A write or a resize.
LEMMA OperateInv ==
  ASSUME IInv, NEW t \in Terminals, Operate(t)
  PROVE  IInv'
<1> USE TerminalLimit, NamesDistinct DEF IInv, TerminalsSound, processVars, openVars, tableVars,
   runtimeVars, taskVars, history
<1>1. TypeOK'
  BY DEF Operate, TypeOK, TerminalStates, Process!Outcomes, Unlocked, NoClose
<1>2. CompletedSound'
  BY DEF Operate, TypeOK, CompletedSound
<1>3. LiveReachable'
  BY DEF Operate, TypeOK, LiveReachable
<1>4. LeaseBeforeFinal'
  BY DEF Operate, TypeOK, LeaseBeforeFinal
<1>5. Opened'
  BY DEF Operate, TypeOK, Opened, Unlocked
<1>6. SlotsSound'
  BY DEF Operate, TypeOK, SlotsSound, PermitsSound, PoppedSound, RemovalsSound, Unlocked
<1>7. ChildKnown'
  BY DEF Operate, TypeOK, ChildKnown, Ended
<1>8. LeasesSound'
  BY DEF Operate, TypeOK, LeasesSound, Unlocked
<1> QED
  BY <1>1, <1>2, <1>3, <1>4, <1>5, <1>6, <1>7, <1>8

\* It ends.
LEMMA OperationEndsInv ==
  ASSUME IInv, NEW t \in Terminals, OperationEnds(t)
  PROVE  IInv'
<1> USE TerminalLimit, NamesDistinct DEF IInv, TerminalsSound, processVars, openVars, tableVars,
   runtimeVars, taskVars, history
<1>1. TypeOK'
  BY DEF OperationEnds, TypeOK, TerminalStates, Process!Outcomes, Unlocked, NoClose
<1>2. CompletedSound'
  BY DEF OperationEnds, TypeOK, CompletedSound
<1>3. LiveReachable'
  BY DEF OperationEnds, TypeOK, LiveReachable
<1>4. LeaseBeforeFinal'
  BY DEF OperationEnds, TypeOK, LeaseBeforeFinal
<1>5. Opened'
  BY DEF OperationEnds, TypeOK, Opened, Unlocked
<1>6. SlotsSound'
  BY DEF OperationEnds, TypeOK, SlotsSound, PermitsSound, PoppedSound, RemovalsSound, Unlocked
<1>7. ChildKnown'
  BY DEF OperationEnds, TypeOK, ChildKnown, Ended
<1>8. LeasesSound'
  BY DEF OperationEnds, TypeOK, LeasesSound, Unlocked
<1> QED
  BY <1>1, <1>2, <1>3, <1>4, <1>5, <1>6, <1>7, <1>8

\* A request to close an open terminal.
LEMMA CloseBeginsInv ==
  ASSUME IInv, NEW k \in Closers, NEW t \in Terminals, CloseBegins(k, t)
  PROVE  IInv'
<1> USE TerminalLimit, NamesDistinct DEF IInv, TerminalsSound, processVars, openVars, tableVars,
   runtimeVars, taskVars, history
<1>1. TypeOK'
  BY DEF CloseBegins, TypeOK, TerminalStates, Process!Outcomes, Unlocked, NoClose
<1>2. CompletedSound'
  BY DEF CloseBegins, TypeOK, CompletedSound
<1>3. LiveReachable'
  BY DEF CloseBegins, TypeOK, LiveReachable
<1>4. LeaseBeforeFinal'
  BY DEF CloseBegins, TypeOK, LeaseBeforeFinal
<1>5. Opened'
  BY DEF CloseBegins, TypeOK, Opened, Unlocked
<1>6. SlotsSound'
  BY DEF CloseBegins, TypeOK, SlotsSound, PermitsSound, PoppedSound, RemovalsSound, Unlocked
<1>7. ChildKnown'
  BY DEF CloseBegins, TypeOK, ChildKnown, Ended
<1>8. LeasesSound'
  BY DEF CloseBegins, TypeOK, LeasesSound, Unlocked
<1> QED
  BY <1>1, <1>2, <1>3, <1>4, <1>5, <1>6, <1>7, <1>8

\* The table is looked up again.
LEMMA CloseGuardsInv ==
  ASSUME IInv, NEW k \in Closers, CloseGuards(k)
  PROVE  IInv'
<1> USE TerminalLimit, NamesDistinct DEF IInv, TerminalsSound, processVars, openVars, tableVars,
   runtimeVars, taskVars, history
<1>a. close[k].terminal \in Terminals /\ launch[close[k].terminal] = "open" /\ k \in Closers
  BY DEF CloseGuards, CloseMoves, Opened
<1>b. \/ CloseMoves(k, "guard", "request")
      \/ CloseMoves(k, "guard", "ended")
  BY DEF CloseMoves, CloseGuards
<1>c. /\ CloseMovedTo(k)
      /\ \/ close[k].step = "guard" /\ close'[k].step = "request"
         \/ close[k].step = "guard" /\ close'[k].step = "ended"
  BY <1>b, CloseMoved DEF CloseSteps
<1> USE <1>a, <1>c
<1>q. guard' \in [Terminals -> Closers \cup {Nobody, Writer}]
  BY DEF CloseGuards, TypeOK
<1>1. TypeOK'
  BY <1>q DEF CloseGuards, TypeOK, CloseState, CloseSteps, CloseMovedTo
<1>2. CompletedSound'
  BY DEF CloseGuards, CloseMovedTo, TypeOK, CompletedSound
<1>3. LiveReachable'
  BY DEF CloseGuards, CloseMovedTo, TypeOK, LiveReachable
<1>4. LeaseBeforeFinal'
  BY DEF CloseGuards, CloseMovedTo, TypeOK, LeaseBeforeFinal
<1>5. Opened'
  BY DEF CloseGuards, CloseMovedTo, TypeOK, Opened, Unlocked
<1>6. SlotsSound'
  BY DEF CloseGuards, CloseMovedTo, TypeOK, SlotsSound, PermitsSound, PoppedSound, RemovalsSound,
     Unlocked
<1>7. ChildKnown'
  BY DEF CloseGuards, CloseMovedTo, TypeOK, ChildKnown, Ended
<1>8. LeasesSound'
  BY DEF CloseGuards, CloseMovedTo, TypeOK, LeasesSound, Unlocked
<1> QED
  BY <1>1, <1>2, <1>3, <1>4, <1>5, <1>6, <1>7, <1>8

\* A state that is final stays.
LEMMA CloseRequestsInv ==
  ASSUME IInv, NEW k \in Closers, CloseRequests(k)
  PROVE  IInv'
<1> USE TerminalLimit, NamesDistinct DEF IInv, TerminalsSound, processVars, openVars, tableVars,
   runtimeVars, taskVars, history
<1>a. close[k].terminal \in Terminals /\ launch[close[k].terminal] = "open" /\ k \in Closers
  BY DEF CloseRequests, CloseMoves, Opened
<1>b. CloseMoves(k, "request", "check")
  BY DEF CloseMoves, CloseRequests
<1>c. /\ CloseMovedTo(k)
      /\ close[k].step = "request" /\ close'[k].step = "check"
  BY <1>b, CloseMoved DEF CloseSteps
<1> USE <1>a, <1>c
<1>1. TypeOK'
  BY DEF CloseRequests, CloseMovedTo, TypeOK, TerminalStates, Process!Outcomes, Unlocked, NoClose,
     CloseState, CloseSteps
<1>2. CompletedSound'
  BY DEF CloseRequests, CloseMovedTo, TypeOK, CompletedSound
<1>3. LiveReachable'
  BY DEF CloseRequests, CloseMovedTo, TypeOK, LiveReachable
<1>4. LeaseBeforeFinal'
  BY DEF CloseRequests, CloseMovedTo, TypeOK, LeaseBeforeFinal
<1>5. Opened'
  BY DEF CloseRequests, CloseMovedTo, TypeOK, Opened, Unlocked
<1>6. SlotsSound'
  BY DEF CloseRequests, CloseMovedTo, TypeOK, SlotsSound, PermitsSound, PoppedSound, RemovalsSound,
     Unlocked
<1>7. ChildKnown'
  BY DEF CloseRequests, CloseMovedTo, TypeOK, ChildKnown, Ended
<1>8. LeasesSound'
  BY DEF CloseRequests, CloseMovedTo, TypeOK, LeasesSound, Unlocked
<1> QED
  BY <1>1, <1>2, <1>3, <1>4, <1>5, <1>6, <1>7, <1>8

\* A terminal that has been finalised is settled.
LEMMA CloseChecksInv ==
  ASSUME IInv, NEW k \in Closers, CloseChecks(k)
  PROVE  IInv'
<1> USE TerminalLimit, NamesDistinct DEF IInv, TerminalsSound, processVars, openVars, tableVars,
   runtimeVars, taskVars, history
<1>a. close[k].terminal \in Terminals /\ launch[close[k].terminal] = "open" /\ k \in Closers
  BY DEF CloseChecks, Finalized, CloseMoves, Opened
<1>b. \/ CloseMoves(k, "check", "settle") /\ close[k].terminal \notin slots
      \/ CloseMoves(k, "check", "terminate")
  BY DEF CloseMoves, CloseChecks, Finalized
<1>c. /\ CloseMovedTo(k)
      /\ \/ close[k].step = "check" /\ close'[k].step = "settle" /\ close[k].terminal \notin slots
         \/ close[k].step = "check" /\ close'[k].step = "terminate"
  BY <1>b, CloseMoved DEF CloseSteps
<1> USE <1>a, <1>c
<1>1. TypeOK'
  BY DEF CloseChecks, Finalized, CloseMovedTo, TypeOK, TerminalStates, Process!Outcomes, Unlocked,
     NoClose, CloseState, CloseSteps
<1>2. CompletedSound'
  BY DEF CloseChecks, Finalized, CloseMovedTo, TypeOK, CompletedSound
<1>3. LiveReachable'
  BY DEF CloseChecks, Finalized, CloseMovedTo, TypeOK, LiveReachable
<1>4. LeaseBeforeFinal'
  BY DEF CloseChecks, Finalized, CloseMovedTo, TypeOK, LeaseBeforeFinal
<1>5. Opened'
  BY DEF CloseChecks, Finalized, CloseMovedTo, TypeOK, Opened, Unlocked
<1>6. SlotsSound'
  BY DEF CloseChecks, Finalized, CloseMovedTo, TypeOK, SlotsSound, PermitsSound, PoppedSound,
     RemovalsSound, Unlocked
<1>7. ChildKnown'
  BY DEF CloseChecks, Finalized, CloseMovedTo, TypeOK, ChildKnown, Ended
<1>8. LeasesSound'
  BY DEF CloseChecks, Finalized, CloseMovedTo, TypeOK, LeasesSound, Unlocked
<1> QED
  BY <1>1, <1>2, <1>3, <1>4, <1>5, <1>6, <1>7, <1>8

\* The closer goes on to finalise a child that has exited.
LEMMA CloseTerminatesInv ==
  ASSUME IInv, NEW k \in Closers, CloseTerminates(k)
  PROVE  IInv'
<1> USE TerminalLimit, NamesDistinct DEF IInv, TerminalsSound, processVars, openVars, tableVars,
   runtimeVars, taskVars, history
<1>a. close[k].terminal \in Terminals /\ launch[close[k].terminal] = "open" /\ k \in Closers
  BY DEF CloseTerminates, Fault, Process!Outcomes, Ended, CloseMoves, Opened
<1>b. \/ CloseMoves(k, "terminate", "finalize") /\ Ended(close[k].terminal)
      \/ CloseMoves(k, "terminate", "note")
  BY DEF CloseMoves, CloseTerminates, Fault, Process!Outcomes, Ended
<1>c. /\ CloseMovedTo(k)
      /\ \/ close[k].step = "terminate" /\ close'[k].step = "finalize" /\ Ended(close[k].terminal)
         \/ close[k].step = "terminate" /\ close'[k].step = "note"
  BY <1>b, CloseMoved DEF CloseSteps
<1> USE <1>a, <1>c
<1>1. TypeOK'
  BY DEF CloseTerminates, Fault, Process!Outcomes, Ended, CloseMovedTo, TypeOK, TerminalStates,
     Process!Outcomes, Unlocked, NoClose, CloseState, CloseSteps
<1>2. CompletedSound'
  BY DEF CloseTerminates, Fault, Process!Outcomes, Ended, CloseMovedTo, TypeOK, CompletedSound
<1>3. LiveReachable'
  BY DEF CloseTerminates, Fault, Process!Outcomes, Ended, CloseMovedTo, TypeOK, LiveReachable
<1>4. LeaseBeforeFinal'
  BY DEF CloseTerminates, Fault, Process!Outcomes, Ended, CloseMovedTo, TypeOK, LeaseBeforeFinal
<1>5. Opened'
  BY DEF CloseTerminates, Fault, Process!Outcomes, Ended, CloseMovedTo, TypeOK, Opened, Unlocked
<1>6. SlotsSound'
  BY DEF CloseTerminates, Fault, Process!Outcomes, Ended, CloseMovedTo, TypeOK, SlotsSound,
     PermitsSound, PoppedSound, RemovalsSound, Unlocked
<1>7. ChildKnown'
  BY DEF CloseTerminates, Fault, Process!Outcomes, Ended, CloseMovedTo, TypeOK, ChildKnown, Ended
<1>8. LeasesSound'
  BY DEF CloseTerminates, Fault, Process!Outcomes, Ended, CloseMovedTo, TypeOK, LeasesSound,
     Unlocked
<1> QED
  BY <1>1, <1>2, <1>3, <1>4, <1>5, <1>6, <1>7, <1>8

\* A termination that failed.
LEMMA CloseNotesInv ==
  ASSUME IInv, NEW k \in Closers, CloseNotes(k)
  PROVE  IInv'
<1> USE TerminalLimit, NamesDistinct DEF IInv, TerminalsSound, processVars, openVars, tableVars,
   runtimeVars, taskVars, history
<1>a. close[k].terminal \in Terminals /\ launch[close[k].terminal] = "open" /\ k \in Closers
  BY DEF CloseNotes, Finalized, Woken, CloseMoves, Opened
<1>b. \/ CloseMoves(k, "note", "settle") /\ close[k].terminal \notin slots /\ UNCHANGED state
      \/ CloseMoves(k, "note", "ended")
  BY DEF CloseMoves, CloseNotes, Finalized, Woken
<1>c. /\ CloseMovedTo(k)
      /\ \/ close[k].step = "note" /\ close'[k].step = "settle" /\ close[k].terminal \notin slots /\ UNCHANGED state
         \/ close[k].step = "note" /\ close'[k].step = "ended"
  BY <1>b, CloseMoved DEF CloseSteps
<1> USE <1>a, <1>c
<1>p. state' \in [Terminals -> TerminalStates]
  BY DEF CloseNotes, TypeOK, TerminalStates
<1>t. exit' \in [Terminals -> BOOLEAN]
  BY DEF CloseNotes, TypeOK
<1>q. guard' \in [Terminals -> Closers \cup {Nobody, Writer}]
  BY DEF CloseNotes, TypeOK
<1>r. /\ waiter' \in [Terminals -> {"none", "arming", "looking", "sleeping", "notified", "done"}]
      /\ \A t \in Terminals : waiter'[t] = "none" <=> waiter[t] = "none"
  BY DEF CloseNotes, Woken, TypeOK
<1>s. \A t \in Terminals : t # close[k].terminal => state'[t] = state[t]
  BY DEF CloseNotes, TypeOK
<1>1. TypeOK'
  BY <1>p, <1>t, <1>q, <1>r DEF CloseNotes, TypeOK, CloseState, CloseSteps, CloseMovedTo
<1>2. CompletedSound'
  BY DEF CloseNotes, Finalized, Woken, CloseMovedTo, TypeOK, CompletedSound
<1>3. LiveReachable'
  BY DEF CloseNotes, Finalized, Woken, CloseMovedTo, TypeOK, LiveReachable
<1>4. LeaseBeforeFinal'
  BY DEF CloseNotes, Finalized, Woken, CloseMovedTo, TypeOK, LeaseBeforeFinal
<1>5. Opened'
  BY <1>r, <1>s DEF CloseNotes, Opened, Unlocked, CloseMovedTo
<1>6. SlotsSound'
  BY DEF CloseNotes, Finalized, Woken, CloseMovedTo, TypeOK, SlotsSound, PermitsSound, PoppedSound,
     RemovalsSound, Unlocked
<1>7. ChildKnown'
  BY DEF CloseNotes, Finalized, Woken, CloseMovedTo, TypeOK, ChildKnown, Ended
<1>8. LeasesSound'
  BY DEF CloseNotes, Finalized, Woken, CloseMovedTo, TypeOK, LeasesSound, Unlocked
<1> QED
  BY <1>1, <1>2, <1>3, <1>4, <1>5, <1>6, <1>7, <1>8

\* A finalised terminal leaves the queue.
LEMMA CloseSettlesInv ==
  ASSUME IInv, NEW k \in Closers, CloseSettles(k)
  PROVE  IInv'
<1> USE TerminalLimit, NamesDistinct DEF IInv, TerminalsSound, processVars, openVars, tableVars,
   runtimeVars, taskVars, history
<1>a. close[k].terminal \in Terminals /\ launch[close[k].terminal] = "open" /\ k \in Closers
  BY DEF CloseSettles, MarkRemoved, SlotsSound, RemovalsSound, CloseMoves, Opened
<1>b. CloseMoves(k, "settle", "remove") /\ close[k].terminal \notin slots
  BY DEF CloseMoves, CloseSettles, MarkRemoved, SlotsSound, RemovalsSound
<1>c. /\ CloseMovedTo(k)
      /\ close[k].step = "settle" /\ close'[k].step = "remove" /\ close[k].terminal \notin slots
  BY <1>b, CloseMoved DEF CloseSteps
<1> USE <1>a, <1>c
<1>q. /\ completed' \in Seq(Terminals) /\ Distinct(completed')
      /\ \A i \in DOMAIN completed' : completed'[i] # close[k].terminal /\ \E j \in DOMAIN completed : completed[j] = completed'[i]
  <2>1. completed \in Seq(Terminals) /\ Distinct(completed)
    BY DEF TypeOK, CompletedSound, Distinct
  <2>2. completed' = Retain(completed, close[k].terminal)
    BY DEF CloseSettles, MarkRemoved
  <2> QED
    BY <2>1, <2>2, RetainSound
<1>1. TypeOK'
  BY <1>q DEF CloseSettles, MarkRemoved, TypeOK, TerminalStates, CloseState, CloseSteps,
     CloseMovedTo
<1>2. CompletedSound'
  BY <1>q DEF CloseSettles, MarkRemoved, CompletedSound, Distinct
<1>3. LiveReachable'
  BY DEF CloseSettles, MarkRemoved, SlotsSound, RemovalsSound, CloseMovedTo, TypeOK, LiveReachable
<1>4. LeaseBeforeFinal'
  BY DEF CloseSettles, MarkRemoved, SlotsSound, RemovalsSound, CloseMovedTo, TypeOK,
     LeaseBeforeFinal, LeasesSound
<1>5. Opened'
  BY DEF CloseSettles, MarkRemoved, SlotsSound, RemovalsSound, CloseMovedTo, TypeOK, Opened,
     Unlocked
<1>6. SlotsSound'
  <2>1. PermitsSound'
    BY <1>q DEF CloseSettles, TypeOK, SlotsSound, PermitsSound, MarkRemoved, CloseMovedTo, Unlocked
  <2>2. PoppedSound'
    BY <1>q DEF CloseSettles, TypeOK, SlotsSound, PoppedSound, MarkRemoved, CloseMovedTo, Unlocked
  <2>3. RemovalsSound'
    BY <1>q DEF CloseSettles, TypeOK, SlotsSound, RemovalsSound, MarkRemoved, CloseMovedTo, Unlocked
  <2> QED
    BY <2>1, <2>2, <2>3 DEF SlotsSound
<1>7. ChildKnown'
  BY DEF CloseSettles, MarkRemoved, SlotsSound, RemovalsSound, CloseMovedTo, TypeOK, ChildKnown,
     Ended
<1>8. LeasesSound'
  BY DEF CloseSettles, MarkRemoved, SlotsSound, RemovalsSound, CloseMovedTo, TypeOK, LeasesSound,
     Unlocked
<1> QED
  BY <1>1, <1>2, <1>3, <1>4, <1>5, <1>6, <1>7, <1>8

\* It leaves the table.
LEMMA CloseRemovesInv ==
  ASSUME IInv, NEW k \in Closers, CloseRemoves(k)
  PROVE  IInv'
<1> USE TerminalLimit, NamesDistinct DEF IInv, TerminalsSound, processVars, openVars, tableVars,
   runtimeVars, taskVars, history
<1>a. close[k].terminal \in Terminals /\ launch[close[k].terminal] = "open" /\ k \in Closers
  BY DEF CloseRemoves, SlotsSound, RemovalsSound, CloseMoves, Opened
<1>b. CloseMoves(k, "remove", "ended") /\ close[k].terminal \notin slots /\ close[k].terminal \notin retained
  BY DEF CloseMoves, CloseRemoves, SlotsSound, RemovalsSound
<1>c. /\ CloseMovedTo(k)
      /\ close[k].step = "remove" /\ close'[k].step = "ended" /\ close[k].terminal \notin slots /\ close[k].terminal \notin retained
  BY <1>b, CloseMoved DEF CloseSteps
<1> USE <1>a, <1>c
<1>1. TypeOK'
  BY DEF CloseRemoves, SlotsSound, RemovalsSound, CloseMovedTo, TypeOK, TerminalStates,
     Process!Outcomes, Unlocked, NoClose, CloseState, CloseSteps
<1>2. CompletedSound'
  BY DEF CloseRemoves, SlotsSound, RemovalsSound, CloseMovedTo, TypeOK, CompletedSound
<1>3. LiveReachable'
  BY DEF CloseRemoves, SlotsSound, RemovalsSound, CloseMovedTo, TypeOK, LiveReachable
<1>4. LeaseBeforeFinal'
  BY DEF CloseRemoves, SlotsSound, RemovalsSound, CloseMovedTo, TypeOK, LeaseBeforeFinal
<1>5. Opened'
  <2>1. table' \subseteq table
    BY DEF CloseRemoves
  <2>2. UNCHANGED <<launch, popped, retained, reader, fin, state, waiter>>
    BY DEF CloseRemoves
  <2>3. \A j \in Closers : close'[j].step # "idle" => close[j].step # "idle" /\ close'[j].terminal = close[j].terminal
    BY DEF CloseMovedTo
  <2> QED
    BY <2>1, <2>2, <2>3 DEF Opened
<1>6. SlotsSound'
  BY DEF CloseRemoves, SlotsSound, RemovalsSound, CloseMovedTo, TypeOK, SlotsSound, PermitsSound,
     PoppedSound, RemovalsSound, Unlocked
<1>7. ChildKnown'
  BY DEF CloseRemoves, SlotsSound, RemovalsSound, CloseMovedTo, TypeOK, ChildKnown, Ended
<1>8. LeasesSound'
  BY DEF CloseRemoves, SlotsSound, RemovalsSound, CloseMovedTo, TypeOK, LeasesSound, Unlocked
<1> QED
  BY <1>1, <1>2, <1>3, <1>4, <1>5, <1>6, <1>7, <1>8

\* An aborted closer drops the permit it has taken out.
LEMMA CloseDroppedInv ==
  ASSUME IInv, NEW k \in Closers, CloseDropped(k)
  PROVE  IInv'
<1> USE TerminalLimit, NamesDistinct DEF IInv, TerminalsSound, processVars, openVars, tableVars,
   runtimeVars, taskVars, history
<1>q. CloseMovedTo(k) /\ close'[k].step = "ended"
  BY CloseMoved DEF CloseDropped, CloseMoves, CloseSteps
<1>r. /\ guard' \in [Terminals -> Closers \cup {Nobody, Writer}]
      /\ fin' \in [Terminals -> [who : Closers \cup {Nobody, Reader}, step : {"none", "state", "take", "push"}]]
  BY DEF CloseDropped, TypeOK, Unlocked
<1>s. \A t \in Terminals :
        \/ fin'[t].step = "none"
        \/ fin'[t] = fin[t] /\ (t \in slots => t \in slots')
  BY DEF CloseDropped, TypeOK, Unlocked
<1>t. \A t \in slots \ slots' : launch'[t] = "open"
  BY DEF CloseDropped, Opened
<1>1. TypeOK'
  BY <1>q, <1>r DEF CloseDropped, TypeOK, CloseState, CloseSteps, CloseMovedTo
<1>2. CompletedSound'
  BY DEF CloseDropped, TypeOK, CompletedSound
<1>3. LiveReachable'
  BY DEF CloseDropped, TypeOK, LiveReachable
<1>4. LeaseBeforeFinal'
  BY DEF CloseDropped, TypeOK, LeaseBeforeFinal
<1>5. Opened'
  BY DEF CloseDropped, TypeOK, Opened, Unlocked
<1>6. SlotsSound'
  <2>1. PermitsSound'
    BY <1>s, <1>t DEF CloseDropped, TypeOK, SlotsSound, PermitsSound
  <2>2. PoppedSound'
    BY <1>q, <1>r DEF CloseDropped, TypeOK, SlotsSound, PoppedSound, CloseMovedTo, Unlocked
  <2>3. RemovalsSound'
    BY <1>q, <1>r DEF CloseDropped, TypeOK, SlotsSound, RemovalsSound, CloseMovedTo, Unlocked
  <2> QED
    BY <2>1, <2>2, <2>3 DEF SlotsSound
<1>7. ChildKnown'
  BY DEF CloseDropped, TypeOK, ChildKnown, Ended
<1>8. LeasesSound'
  BY DEF CloseDropped, TypeOK, LeasesSound, Unlocked
<1> QED
  BY <1>1, <1>2, <1>3, <1>4, <1>5, <1>6, <1>7, <1>8

\* The monitor of an agent's terminal.
LEMMA ArmInv ==
  ASSUME IInv, NEW t \in Terminals, Arm(t)
  PROVE  IInv'
<1> USE TerminalLimit, NamesDistinct DEF IInv, TerminalsSound, processVars, openVars, tableVars,
   runtimeVars, taskVars, history
<1>1. TypeOK'
  BY DEF Arm, TypeOK, TerminalStates, Process!Outcomes, Unlocked, NoClose
<1>2. CompletedSound'
  BY DEF Arm, TypeOK, CompletedSound
<1>3. LiveReachable'
  BY DEF Arm, TypeOK, LiveReachable
<1>4. LeaseBeforeFinal'
  BY DEF Arm, TypeOK, LeaseBeforeFinal
<1>5. Opened'
  BY DEF Arm, TypeOK, Opened, Unlocked
<1>6. SlotsSound'
  BY DEF Arm, TypeOK, SlotsSound, PermitsSound, PoppedSound, RemovalsSound, Unlocked
<1>7. ChildKnown'
  BY DEF Arm, TypeOK, ChildKnown, Ended
<1>8. LeasesSound'
  BY DEF Arm, TypeOK, LeasesSound, Unlocked
<1> QED
  BY <1>1, <1>2, <1>3, <1>4, <1>5, <1>6, <1>7, <1>8

\* It looks at the state.
LEMMA LookInv ==
  ASSUME IInv, NEW t \in Terminals, Look(t)
  PROVE  IInv'
<1> USE TerminalLimit, NamesDistinct DEF IInv, TerminalsSound, processVars, openVars, tableVars,
   runtimeVars, taskVars, history
<1>1. TypeOK'
  BY DEF Look, TypeOK, TerminalStates, Process!Outcomes, Unlocked, NoClose
<1>2. CompletedSound'
  BY DEF Look, TypeOK, CompletedSound
<1>3. LiveReachable'
  BY DEF Look, TypeOK, LiveReachable
<1>4. LeaseBeforeFinal'
  BY DEF Look, TypeOK, LeaseBeforeFinal
<1>5. Opened'
  BY DEF Look, TypeOK, Opened, Unlocked
<1>6. SlotsSound'
  BY DEF Look, TypeOK, SlotsSound, PermitsSound, PoppedSound, RemovalsSound, Unlocked
<1>7. ChildKnown'
  BY DEF Look, TypeOK, ChildKnown, Ended
<1>8. LeasesSound'
  BY DEF Look, TypeOK, LeasesSound, Unlocked
<1> QED
  BY <1>1, <1>2, <1>3, <1>4, <1>5, <1>6, <1>7, <1>8

\* What whoever finalises t does besides: nothing, or it goes on once the guard
\* is free again.
Finalizer(t) ==
  /\ launch[t] = "open" /\ (gone[t] \/ t \in unsure)
  /\ UNCHANGED <<processVars, openVars, guard, stored, history>>
  /\ reader' \in [Terminals -> {"none", "reading", "exited", "failed", "storing", "done"}]
  /\ \A u \in Terminals : reader'[u] = reader[u] \/ (reader[u] # "none" /\ reader'[u] = "storing")
  /\ close' \in [Closers -> CloseState]
  /\ \A j \in Closers :
       \/ close'[j] = close[j]
       \/ /\ close[j].terminal = t /\ close'[j].terminal = t /\ close[j].step = "finalize"
          /\ close'[j].step = "settle" /\ fin[t].step # "none" /\ fin'[t] = Unlocked

\* The lease goes first, and by then the child is gone.
LEMMA FinLeaseInv ==
  ASSUME IInv, NEW t \in Terminals, NEW who \in Closers \cup {Reader}, Finalizer(t), FinLease(t,
         who)
  PROVE  IInv'
<1> USE TerminalLimit, NamesDistinct DEF IInv, TerminalsSound, processVars, openVars, tableVars,
   runtimeVars, taskVars, history
<1>1. TypeOK'
  BY DEF FinLease, Finalizer, FinMoves, TypeOK, TerminalStates, Process!Outcomes, Unlocked, NoClose,
     CloseState, CloseSteps, Unlocked
<1>2. CompletedSound'
  BY DEF FinLease, Finalizer, FinMoves, TypeOK, CompletedSound
<1>3. LiveReachable'
  BY DEF FinLease, Finalizer, FinMoves, TypeOK, LiveReachable
<1>4. LeaseBeforeFinal'
  BY DEF FinLease, Finalizer, FinMoves, TypeOK, LeaseBeforeFinal, Opened
<1>5. Opened'
  BY DEF FinLease, Finalizer, FinMoves, TypeOK, Opened, Unlocked
<1>6. SlotsSound'
  BY DEF FinLease, Finalizer, FinMoves, TypeOK, SlotsSound, PermitsSound, PoppedSound,
     RemovalsSound, Unlocked, Opened
<1>7. ChildKnown'
  BY DEF FinLease, Finalizer, FinMoves, TypeOK, ChildKnown, Ended
<1>8. LeasesSound'
  BY DEF FinLease, Finalizer, FinMoves, TypeOK, LeasesSound, Unlocked
<1> QED
  BY <1>1, <1>2, <1>3, <1>4, <1>5, <1>6, <1>7, <1>8

\* The final state comes after the lease.
LEMMA FinStateInv ==
  ASSUME IInv, NEW t \in Terminals, NEW who \in Closers \cup {Reader}, NEW ok \in BOOLEAN,
         Finalizer(t), FinState(t, who, ok)
  PROVE  IInv'
<1> USE TerminalLimit, NamesDistinct DEF IInv, TerminalsSound, processVars, openVars, tableVars,
   runtimeVars, taskVars, history
<1>1. TypeOK'
  BY DEF FinState, Finalizer, FinMoves, TypeOK, TerminalStates, Process!Outcomes, Unlocked, NoClose,
     CloseState, CloseSteps, Unlocked
<1>2. CompletedSound'
  BY DEF FinState, Finalizer, FinMoves, TypeOK, CompletedSound
<1>3. LiveReachable'
  BY DEF FinState, Finalizer, FinMoves, TypeOK, LiveReachable
<1>4. LeaseBeforeFinal'
  BY DEF FinState, Finalizer, FinMoves, TypeOK, LeaseBeforeFinal, LeasesSound, Opened
<1>5. Opened'
  BY DEF FinState, Finalizer, FinMoves, TypeOK, Opened, Unlocked
<1>6. SlotsSound'
  BY DEF FinState, Finalizer, FinMoves, TypeOK, SlotsSound, PermitsSound, PoppedSound,
     RemovalsSound, Unlocked
<1>7. ChildKnown'
  BY DEF FinState, Finalizer, FinMoves, TypeOK, ChildKnown, Ended
<1>8. LeasesSound'
  BY DEF FinState, Finalizer, FinMoves, TypeOK, LeasesSound, Unlocked
<1> QED
  BY <1>1, <1>2, <1>3, <1>4, <1>5, <1>6, <1>7, <1>8

\* The permit is taken out once.
LEMMA FinTakeInv ==
  ASSUME IInv, NEW t \in Terminals, NEW who \in Closers \cup {Reader}, Finalizer(t), FinTake(t, who)
  PROVE  IInv'
<1> USE TerminalLimit, NamesDistinct DEF IInv, TerminalsSound, processVars, openVars, tableVars,
   runtimeVars, taskVars, history
<1>f. /\ fin' \in [Terminals -> [who : Closers \cup {Nobody, Reader}, step : {"none", "state", "take", "push"}]]
      /\ \A u \in Terminals : u # t => fin'[u] = fin[u]
      /\ fin[t].step = "take" /\ fin'[t].step \in {"push", "none"}
      /\ fin[t].step # "none" /\ fin'[t] = Unlocked => fin'[t].step = "none"
  BY DEF FinTake, FinMoves, TypeOK, Unlocked
<1>g. fin'[t].step = IF t \in slots THEN "push" ELSE "none"
  BY DEF FinTake, FinMoves, TypeOK, Unlocked
<1>1. TypeOK'
  BY DEF FinTake, Finalizer, FinMoves, Woken, TypeOK, TerminalStates, Process!Outcomes, Unlocked,
     NoClose, CloseState, CloseSteps, Unlocked
<1>2. CompletedSound'
  BY DEF FinTake, Finalizer, FinMoves, Woken, TypeOK, CompletedSound
<1>3. LiveReachable'
  BY DEF FinTake, Finalizer, FinMoves, Woken, TypeOK, LiveReachable
<1>4. LeaseBeforeFinal'
  BY DEF FinTake, Finalizer, FinMoves, Woken, TypeOK, LeaseBeforeFinal
<1>5. Opened'
  BY DEF FinTake, Finalizer, FinMoves, Woken, TypeOK, Opened, Unlocked
<1>6. SlotsSound'
  <2>1. PermitsSound'
    BY <1>f, <1>g DEF FinTake, TypeOK, SlotsSound, PermitsSound, Finalizer, CloseState
  <2>2. PoppedSound'
    BY <1>f, <1>g DEF FinTake, TypeOK, SlotsSound, PoppedSound, Finalizer, CloseState
  <2>3. RemovalsSound'
    BY <1>f, <1>g DEF FinTake, TypeOK, SlotsSound, RemovalsSound, Finalizer, CloseState
  <2> QED
    BY <2>1, <2>2, <2>3 DEF SlotsSound
<1>7. ChildKnown'
  BY DEF FinTake, Finalizer, FinMoves, Woken, TypeOK, ChildKnown, Ended
<1>8. LeasesSound'
  BY DEF FinTake, Finalizer, FinMoves, Woken, TypeOK, LeasesSound, Unlocked
<1> QED
  BY <1>1, <1>2, <1>3, <1>4, <1>5, <1>6, <1>7, <1>8

\* A terminal that can be pruned is in the table, its slot is free and its lease gone.
LEMMA FinPushInv ==
  ASSUME IInv, NEW t \in Terminals, NEW who \in Closers \cup {Reader}, Finalizer(t), FinPush(t, who)
  PROVE  IInv'
<1> USE TerminalLimit, NamesDistinct DEF IInv, TerminalsSound, processVars, openVars, tableVars,
   runtimeVars, taskVars, history
<1>f. /\ fin' \in [Terminals -> [who : Closers \cup {Nobody, Reader}, step : {"none", "state", "take", "push"}]]
      /\ \A u \in Terminals : u # t => fin'[u] = fin[u]
      /\ fin[t].step = "push" /\ fin'[t].step \in {"none"}
      /\ fin[t].step # "none" /\ fin'[t] = Unlocked => fin'[t].step = "none"
  BY DEF FinPush, FinMoves, TypeOK, Unlocked
<1>q. /\ completed' \in Seq(Terminals) /\ Distinct(completed')
      /\ \A i \in DOMAIN completed' :
           (completed'[i] = t /\ t \in retained) \/ \E j \in DOMAIN completed : completed[j] = completed'[i]
  <2>1. completed \in Seq(Terminals) /\ Distinct(completed)
    BY DEF TypeOK, CompletedSound, Distinct
  <2>2. t \in slots /\ \A i \in DOMAIN completed : completed[i] # t
    BY <1>f DEF SlotsSound, PermitsSound, CompletedSound
  <2>3. completed' = IF t \in retained THEN Append(completed, t) ELSE completed
    BY DEF FinPush
  <2> QED
    BY <2>1, <2>2, <2>3, AppendSound
<1>r. t \in slots /\ t \in table /\ t \notin lease
  BY <1>f DEF Finalizer, SlotsSound, PermitsSound, LiveReachable, LeasesSound
<1>1. TypeOK'
  BY <1>f, <1>q DEF Finalizer, FinPush, TypeOK, TerminalStates, CloseState, CloseSteps
<1>2. CompletedSound'
  BY <1>q, <1>r DEF FinPush, CompletedSound, Distinct
<1>3. LiveReachable'
  BY DEF FinPush, Finalizer, FinMoves, TypeOK, LiveReachable
<1>4. LeaseBeforeFinal'
  BY DEF FinPush, Finalizer, FinMoves, TypeOK, LeaseBeforeFinal
<1>5. Opened'
  BY DEF FinPush, Finalizer, FinMoves, TypeOK, Opened, Unlocked
<1>6. SlotsSound'
  BY DEF FinPush, Finalizer, FinMoves, TypeOK, SlotsSound, PermitsSound, PoppedSound, RemovalsSound,
     Unlocked
<1>7. ChildKnown'
  BY DEF FinPush, Finalizer, FinMoves, TypeOK, ChildKnown, Ended
<1>8. LeasesSound'
  BY DEF FinPush, Finalizer, FinMoves, TypeOK, LeasesSound, Unlocked
<1> QED
  BY <1>1, <1>2, <1>3, <1>4, <1>5, <1>6, <1>7, <1>8

\* Whoever finalises, the reader or a closer, knows that the child has ended.
LEMMA ReaderFinalizesInv ==
  ASSUME IInv, NEW t \in Terminals, ReaderFinalizes(t)
  PROVE  IInv'
<1>1. Finalizer(t)
  BY DEF ReaderFinalizes, Finalizer, IInv, TerminalsSound, TypeOK, Opened, ChildKnown, CloseState,
     CloseSteps
<1> DEFINE ok == reader[t] = "exited"
<1>2. ok \in BOOLEAN /\ Finalize(t, Reader, ok)
  BY DEF ReaderFinalizes
<1> HIDE DEF ok
<1> QED
  BY <1>1, <1>2, FinLeaseInv, FinStateInv, FinTakeInv, FinPushInv DEF Finalize

\* See above.
LEMMA CloseFinalizesInv ==
  ASSUME IInv, NEW k \in Closers, CloseFinalizes(k)
  PROVE  IInv'
<1> DEFINE t == close[k].terminal
<1>1. t \in Terminals /\ launch[t] = "open" /\ gone[t] /\ close[k].step = "finalize"
  BY DEF CloseFinalizes, IInv, Opened, ChildKnown
<1>2. close \in [Closers -> CloseState] /\ reader \in [Terminals -> {"none", "reading", "exited", "failed", "storing", "done"}]
  BY DEF IInv, TerminalsSound, TypeOK, CloseState, CloseSteps
<1>3. \/ UNCHANGED close
      \/ /\ fin[t].step # "none" /\ fin'[t] = Unlocked
         /\ close' = [close EXCEPT ![k].step = "settle"]
  BY DEF CloseFinalizes
<1>4. UNCHANGED <<processVars, openVars, reader, guard, stored, history>>
  BY DEF CloseFinalizes
<1>5. Finalizer(t)
  <2> DEFINE q == [close[k] EXCEPT !.step = "settle"]
  <2>1. q \in CloseState /\ q.step = "settle" /\ q.terminal = t
    BY <1>2 DEF CloseState, CloseSteps
  <2>2. close' = close \/ (close' = [close EXCEPT ![k] = q] /\ fin[t].step # "none" /\ fin'[t] = Unlocked)
    BY <1>3
  <2> HIDE DEF q
  <2> QED
    BY <1>1, <1>2, <1>4, <2>1, <2>2 DEF Finalizer
<1>6. Finalize(t, k, TRUE)
  BY DEF CloseFinalizes
<1> HIDE DEF t
<1> QED
  BY <1>1, <1>5, <1>6, FinLeaseInv, FinStateInv, FinTakeInv, FinPushInv DEF Finalize

-----------------------------------------------------------------------------
(* The specification.                                                      *)

\* A specification starts with no terminal, and the invariant holds of that.
LEMMA InitInv == Init => IInv
<1> SUFFICES ASSUME Init PROVE IInv
  OBVIOUS
<1> USE TerminalLimit, NamesDistinct DEF Init, Process!ContractInit, Unlocked, NoClose
<1>1. TypeOK
  BY DEF TypeOK, TerminalStates, Process!Outcomes
<1>2. CompletedSound /\ LiveReachable /\ LeaseBeforeFinal
  BY DEF CompletedSound, LiveReachable, LeaseBeforeFinal
<1>3. Opened /\ SlotsSound /\ ChildKnown /\ LeasesSound
  BY DEF Opened, SlotsSound, PermitsSound, PoppedSound, RemovalsSound, ChildKnown, Ended,
     LeasesSound
<1> QED
  BY <1>1, <1>2, <1>3 DEF IInv, TerminalsSound

\* Every step keeps the invariant.
LEMMA NextInv == IInv /\ [Next]_vars => IInv'
<1> SUFFICES ASSUME IInv, [Next]_vars PROVE IInv'
  OBVIOUS
<1>1. CASE UNCHANGED vars
  BY <1>1 DEF vars, processVars, openVars, tableVars, runtimeVars, taskVars, history, IInv,
     TerminalsSound, TypeOK, CompletedSound, LiveReachable, LeaseBeforeFinal, Opened, SlotsSound,
     PermitsSound, PoppedSound, RemovalsSound, ChildKnown, Ended, LeasesSound
<1>2. ASSUME NEW t \in Terminals, ChildSteps(t) \/ Prepare(t) \/ OpenStep(t)
      PROVE  IInv'
  BY <1>2, ChildStepsInv, PrepareInv, PrunePopsInv, PruneRemovesInv, OpenFailsInv, SpawnInv,
     InsertInv, RegistrationFailsInv, RejectedInv, ReleaseRetainedInv DEF OpenStep
<1>3. ASSUME NEW t \in Terminals,
             ReaderStep(t) \/ Operate(t) \/ OperationEnds(t) \/ Arm(t) \/ Look(t)
      PROVE  IInv'
  BY <1>3, ReaderCompletesInv, ReaderFinalizesInv, ReaderStoresInv, OperateInv, OperationEndsInv,
     ArmInv, LookInv DEF ReaderStep
<1>4. ASSUME NEW k \in Closers, CloseStep(k) \/ CloseDropped(k)
      PROVE  IInv'
  BY <1>4, CloseGuardsInv, CloseRequestsInv, CloseChecksInv, CloseTerminatesInv, CloseFinalizesInv,
     CloseNotesInv, CloseSettlesInv, CloseRemovesInv, CloseDroppedInv DEF CloseStep
<1>5. ASSUME NEW k \in Closers, NEW t \in Terminals, CloseBegins(k, t)
      PROVE  IInv'
  BY <1>5, CloseBeginsInv
<1> QED
  BY <1>1, <1>2, <1>3, <1>4, <1>5 DEF Next

\* The inductive invariant is an invariant of the terminals.
THEOREM Invariance == Spec => []IInv
BY InitInv, NextInv, PTL DEF Spec

\* What the manager's locks and guards are for, for any number of terminals,
\* closers and slots: the queue that prune_completed_for_insert pops from names
\* only terminals that can go, a terminal whose child may run stays in the table,
\* and no terminal is seen at its end while its vendor binding is claimed.
THEOREM ManagerIsSound == Spec => []TerminalsSound
<1>1. IInv => TerminalsSound
  BY DEF IInv
<1> QED
  BY <1>1, Invariance, PTL
=============================================================================
