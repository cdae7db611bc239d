----------------------- MODULE PendingRequestsProofs -----------------------
(***************************************************************************)
(* Proofs about PendingRequests, for any requests, tasks and capacity.     *)
(* The invariants of the runs are not inductive.  That a request is        *)
(* answered once needs to know which tasks are about to write to the child *)
(* (Answering): such a task is the only one for its request, the child     *)
(* still waits, and nobody can claim or expire the request any more.  That *)
(* the eviction queue matches the remembered outcomes needs to know that   *)
(* an open request has none, and the capacity needs finite maps.           *)
(***************************************************************************)
EXTENDS PendingRequests, FiniteSetTheorems, TLAPS

\* The tracker's maps do not overlap.
MapsDisjoint ==
  /\ OpenOnce
  /\ active \cap inFlight = {}
  /\ Open \cap (resolved \cup uncertain) = {}
  /\ resolved \cap uncertain = {}

\* The eviction queue.
QueueSound == HistoryMatches /\ Len(order) <= Capacity

\* The open requests.
OpenBounded ==
  /\ IsFiniteSet(active) /\ IsFiniteSet(inFlight)
  /\ Cardinality(active) + Cardinality(inFlight) <= Capacity

\* What a task carries at each of its steps, and how far the reader is.
Carriers == {"claimed", "written", "unsure", "refused", "expire", "cancel", "action", "force"}
ReaderSteps == {"idle", "read", "set", "failing", "ending", "clearing", "concluding", "done"}
WaitingTargets == {"running", "awaiting_permission", "awaiting_user_input", "interrupting"}
Failures == {"failed", "incompatible"}

TasksPlaced ==
  /\ \A t \in Threads :
       /\ thread[t].pc \in Carriers => thread[t].req \in Requests
       /\ thread[t].pc = "set" => thread[t].next \in WaitingTargets
  /\ thread[Reader].pc \in ReaderSteps
  /\ thread[Reader].pc \in {"idle", "read"} => thread[Reader].next = "none"
  /\ thread[Reader].pc = "failing" => thread[Reader].next \in Failures
  /\ thread[Reader].pc \in {"ending", "clearing", "concluding"}
       => thread[Reader].next \in Failures \cup {"none"}
  /\ thread[Reader].pc \in {"clearing", "concluding", "done"} => finalized
  /\ thread[Reader].pc = "done" => state \in FinalStates

\* A task about to write to the child, or to give its claim back.
Writing(t) == thread[t].pc \in {"claimed", "refused", "cancel", "action"}

\* Where confirm_resolved finds a request.
Known(k) == k \in inFlight \cup resolved \cup uncertain \cup forgotten

Answering ==
  /\ AnsweredOnce
  /\ \A k \in active : KindOf[k] # "gui_action" => phase[k] = "waiting"
  /\ \A t \in Threads : Writing(t) =>
       /\ phase[thread[t].req] = "waiting"
       /\ thread[t].pc = "action" <=> KindOf[thread[t].req] = "gui_action"
       /\ thread[t].pc # "action" => thread[t].req \notin active
       /\ thread[t].pc # "action" /\ ~finalized => Known(thread[t].req)
  /\ \A s, t \in Threads :
       Writing(s) /\ Writing(t) /\ thread[s].req = thread[t].req => s = t
  /\ ReportRecognised

Ledger == MapsDisjoint /\ QueueSound /\ OpenBounded
IInv == TypeOK /\ Ledger /\ TasksPlaced /\ Answering

-----------------------------------------------------------------------------
(* The eviction queue.                                                     *)

Distinct(s) == \A i, j \in 1..Len(s) : s[i] = s[j] => i = j
Listed(s) == {s[i] : i \in 1..Len(s)}

\* Appending a new entry keeps the entries distinct.
LEMMA AppendListed ==
  ASSUME NEW S, NEW s \in Seq(S), NEW k \in S, k \notin Listed(s), Distinct(s)
  PROVE  /\ Append(s, k) \in Seq(S) /\ Distinct(Append(s, k))
         /\ Listed(Append(s, k)) = Listed(s) \cup {k}
         /\ Len(Append(s, k)) = Len(s) + 1
<1> DEFINE a == Append(s, k)
<1>1. /\ a \in Seq(S) /\ Len(a) = Len(s) + 1 /\ Len(s) \in Nat
      /\ a[Len(s) + 1] = k /\ \A i \in 1..Len(s) : a[i] = s[i]
  OBVIOUS
<1>2. Distinct(a)
  <2> SUFFICES ASSUME NEW i \in 1..Len(a), NEW j \in 1..Len(a), a[i] = a[j], i # j PROVE FALSE
    BY DEF Distinct
  <2>1. CASE i \in 1..Len(s) /\ j \in 1..Len(s)
    BY <1>1, <2>1 DEF Distinct
  <2>2. CASE i = Len(s) + 1 \/ j = Len(s) + 1
    BY <1>1, <2>2 DEF Listed
  <2> QED
    BY <1>1, <2>1, <2>2
<1>3. Listed(a) = Listed(s) \cup {k}
  <2>1. ASSUME NEW x \in Listed(a) PROVE x \in Listed(s) \cup {k}
    BY <1>1 DEF Listed
  <2>2. ASSUME NEW x \in Listed(s) PROVE x \in Listed(a)
    <3>1. PICK i \in 1..Len(s) : x = s[i]
      BY DEF Listed
    <3>2. i \in 1..Len(a) /\ x = a[i]
      BY <1>1, <3>1
    <3> QED
      BY <3>2 DEF Listed
  <2>3. k \in Listed(a)
    BY <1>1 DEF Listed
  <2> QED
    BY <2>1, <2>2, <2>3
<1> QED
  BY <1>1, <1>2, <1>3

\* Evicting the oldest entry takes it, and no other, out of the queue.
LEMMA TailListed ==
  ASSUME NEW S, NEW s \in Seq(S), Len(s) > 0, Distinct(s)
  PROVE  /\ Tail(s) \in Seq(S) /\ Distinct(Tail(s))
         /\ Listed(Tail(s)) = Listed(s) \ {Head(s)} /\ Head(s) \in Listed(s)
         /\ Len(Tail(s)) = Len(s) - 1
<1> DEFINE a == Tail(s)
<1>1. /\ a \in Seq(S) /\ Len(a) = Len(s) - 1 /\ Len(s) \in Nat
      /\ Head(s) = s[1] /\ \A i \in 1..Len(a) : a[i] = s[i + 1]
  OBVIOUS
<1>2. Distinct(a)
  <2> SUFFICES ASSUME NEW i \in 1..Len(a), NEW j \in 1..Len(a), a[i] = a[j] PROVE i = j
    BY DEF Distinct
  <2>1. i + 1 \in 1..Len(s) /\ j + 1 \in 1..Len(s) /\ s[i + 1] = s[j + 1]
    BY <1>1
  <2> QED
    BY <2>1 DEF Distinct
<1>3. ASSUME NEW x \in Listed(a) PROVE x \in Listed(s) /\ x # Head(s)
  <2>1. PICK i \in 1..Len(a) : x = a[i]
    BY DEF Listed
  <2>2. x = s[i + 1] /\ i + 1 \in 1..Len(s) /\ i + 1 # 1 /\ 1 \in 1..Len(s)
    BY <1>1, <2>1
  <2> QED
    BY <1>1, <2>2 DEF Listed, Distinct
<1>4. ASSUME NEW x \in Listed(s), x # Head(s) PROVE x \in Listed(a)
  <2>1. PICK i \in 1..Len(s) : x = s[i]
    BY DEF Listed
  <2>2. i - 1 \in 1..Len(a) /\ a[i - 1] = x
    BY <1>1, <1>4, <2>1
  <2> QED
    BY <2>2 DEF Listed
<1>5. Head(s) \in Listed(s)
  <2>1. 1 \in 1..Len(s)
    BY <1>1
  <2> QED
    BY <1>1, <2>1 DEF Listed
<1> QED
  BY <1>1, <1>2, <1>3, <1>4, <1>5

\* What remembering the outcome of k does to the history, either way.
Settled(k) ==
  /\ order' \in Seq(Requests) /\ QueueSound'
  /\ resolved' \subseteq Requests /\ uncertain' \subseteq Requests
  /\ forgotten' \subseteq Requests
  /\ resolved' \cap uncertain' = {}
  /\ resolved' \cup uncertain' \subseteq resolved \cup uncertain \cup {k}
  /\ resolved \cup uncertain \cup forgotten \cup {k} \subseteq resolved' \cup uncertain' \cup forgotten'
  /\ overdue' = overdue \ {k}

\* remember_resolved and remember_delivery_uncertain file a new outcome and
\* evict the oldest one when the queue is full, which is then forgotten.
LEMMA RememberSettles ==
  ASSUME TypeOK, MapsDisjoint, QueueSound, NEW k \in Requests,
         k \notin resolved \cup uncertain, RememberResolved(k) \/ RememberUncertain(k)
  PROVE  Settled(k)
<1> DEFINE s == Append(order, k)
           e == Evicted(s)
<1>1. /\ order' = Kept(s) /\ forgotten' = forgotten \cup e /\ overdue' = overdue \ {k}
      /\ \/ resolved' = (resolved \cup {k}) \ e /\ uncertain' = uncertain \ e
         \/ resolved' = resolved \ e /\ uncertain' = (uncertain \cup {k}) \ e
  BY DEF RememberResolved, RememberUncertain, Pushed
<1>2. order \in Seq(Requests) /\ Distinct(order) /\ Listed(order) = resolved \cup uncertain
  BY DEF TypeOK, QueueSound, HistoryMatches, Distinct, Listed
<1>3. /\ s \in Seq(Requests) /\ Distinct(s) /\ Len(s) = Len(order) + 1 /\ Len(order) \in Nat
      /\ Listed(s) = resolved \cup uncertain \cup {k}
  BY <1>2, AppendListed
<1>4. /\ order' \in Seq(Requests) /\ Distinct(order') /\ Len(order') <= Capacity
      /\ Listed(order') = Listed(s) \ e /\ e \subseteq Listed(s)
  <2>1. CASE Len(s) > Capacity
    <3>1. order' = Tail(s) /\ e = {Head(s)}
      BY <1>1, <2>1 DEF Kept, Evicted
    <3>2. Len(s) > 0
      BY <1>3, <2>1, PendingAssumption
    <3>3. Len(order) <= Capacity
      BY DEF QueueSound
    <3>4. Tail(s) \in Seq(Requests) /\ Distinct(Tail(s)) /\ Len(Tail(s)) = Len(s) - 1
          /\ Listed(Tail(s)) = Listed(s) \ {Head(s)} /\ Head(s) \in Listed(s)
      BY <1>3, <3>2, TailListed
    <3> QED
      BY <1>3, <3>1, <3>3, <3>4, PendingAssumption
  <2>2. CASE ~(Len(s) > Capacity)
    BY <1>1, <1>3, <2>2, PendingAssumption DEF Kept, Evicted
  <2> QED
    BY <2>1, <2>2
<1>5. resolved' \cup uncertain' = (resolved \cup uncertain \cup {k}) \ e
  BY <1>1
<1>6. QueueSound'
  BY <1>3, <1>4, <1>5 DEF QueueSound, HistoryMatches, Distinct, Listed
<1>7. resolved' \cap uncertain' = {}
  BY <1>1 DEF MapsDisjoint
<1>8. e \subseteq Requests /\ resolved' \subseteq Requests /\ uncertain' \subseteq Requests
  BY <1>1, <1>3, <1>4 DEF TypeOK
<1> QED
  BY <1>1, <1>4, <1>5, <1>6, <1>7, <1>8 DEF Settled, TypeOK

-----------------------------------------------------------------------------
(* What the operations of the tracker do to its maps.                      *)

\* Taking an element out of a finite set, or putting one in.
LEMMA Counted ==
  ASSUME NEW S, NEW x, IsFiniteSet(S)
  PROVE  /\ IsFiniteSet(S \ {x}) /\ IsFiniteSet(S \cup {x})
         /\ Cardinality(S) \in Nat
         /\ Cardinality(S \ {x}) = IF x \in S THEN Cardinality(S) - 1 ELSE Cardinality(S)
         /\ Cardinality(S \cup {x}) = IF x \in S THEN Cardinality(S) ELSE Cardinality(S) + 1
BY FS_AddElement, FS_RemoveElement, FS_CardinalityType

\* An open request whose outcome is remembered leaves the map it is in.
LEMMA SettleKeeps ==
  ASSUME TypeOK, Ledger, NEW k \in Open, Settled(k),
         active' = active \ {k}, inFlight' = inFlight \ {k}
  PROVE  Ledger'
<1>1. MapsDisjoint'
  BY DEF Ledger, MapsDisjoint, OpenOnce, Open, Settled
<1>2. /\ IsFiniteSet(active) /\ IsFiniteSet(inFlight)
      /\ Cardinality(active) + Cardinality(inFlight) <= Capacity
  BY DEF Ledger, OpenBounded
<1>3. /\ IsFiniteSet(active') /\ Cardinality(active') <= Cardinality(active)
      /\ Cardinality(active') \in Nat /\ Cardinality(active) \in Nat
  BY <1>2, FS_Subset, FS_CardinalityType
<1>4. /\ IsFiniteSet(inFlight') /\ Cardinality(inFlight') <= Cardinality(inFlight)
      /\ Cardinality(inFlight') \in Nat /\ Cardinality(inFlight) \in Nat
  BY <1>2, FS_Subset, FS_CardinalityType
<1>5. OpenBounded'
  BY <1>2, <1>3, <1>4, PendingAssumption DEF OpenBounded
<1> QED
  BY <1>1, <1>5 DEF Ledger, Settled

\* A claim or a restore moves a request from one map to the other.
LEMMA MoveKeeps ==
  ASSUME TypeOK, Ledger, UNCHANGED history, NEW k,
         \/ k \in active /\ active' = active \ {k} /\ inFlight' = inFlight \cup {k}
         \/ k \in inFlight /\ inFlight' = inFlight \ {k} /\ active' = active \cup {k}
  PROVE  Ledger'
<1>1. MapsDisjoint'
  BY DEF Ledger, MapsDisjoint, OpenOnce, Open, history
<1>2. OpenBounded'
  BY Counted, PendingAssumption DEF Ledger, OpenBounded, MapsDisjoint
<1>3. QueueSound'
  BY DEF Ledger, QueueSound, HistoryMatches, history
<1> QED
  BY <1>1, <1>2, <1>3 DEF Ledger

\* register adds a request when there is room and its identifier is free.
LEMMA RegisterKeeps ==
  ASSUME TypeOK, Ledger, NEW k \in Requests, CanRegister(k), Register(k)
  PROVE  Ledger'
<1>1. MapsDisjoint'
  BY DEF Ledger, MapsDisjoint, OpenOnce, Open, CanRegister, Register
<1>2. QueueSound'
  BY DEF Ledger, QueueSound, HistoryMatches, Register
<1>3. /\ IsFiniteSet(active) /\ IsFiniteSet(inFlight)
      /\ Cardinality(active) + Cardinality(inFlight) < Capacity
      /\ active' = active \cup {k} /\ inFlight' = inFlight
  BY DEF Ledger, OpenBounded, CanRegister, Register
<1>4. /\ IsFiniteSet(active') /\ Cardinality(active') <= Cardinality(active) + 1
      /\ Cardinality(active') \in Nat /\ Cardinality(active) \in Nat
  BY <1>3, Counted, FS_CardinalityType
<1>5. Cardinality(inFlight) \in Nat
  BY <1>3, FS_CardinalityType
<1>6. OpenBounded'
  BY <1>3, <1>4, <1>5, PendingAssumption DEF OpenBounded
<1> QED
  BY <1>1, <1>2, <1>6 DEF Ledger

\* clear_active at the end of the run.
LEMMA ClearKeeps ==
  ASSUME TypeOK, Ledger, UNCHANGED history, active' = {}, inFlight' = {}
  PROVE  Ledger'
<1>1. MapsDisjoint'
  BY DEF Ledger, MapsDisjoint, OpenOnce, Open, history
<1>2. OpenBounded'
  BY FS_EmptySet, PendingAssumption DEF OpenBounded
<1>3. QueueSound'
  BY DEF Ledger, QueueSound, HistoryMatches, history
<1> QED
  BY <1>1, <1>2, <1>3 DEF Ledger

\* confirm_resolved turns an uncertain delivery into a resolved one.
LEMMA ConfirmKeeps ==
  ASSUME TypeOK, Ledger, NEW k \in uncertain \ resolved,
         uncertain' = uncertain \ {k}, resolved' = resolved \cup {k},
         UNCHANGED <<active, inFlight, order>>
  PROVE  Ledger'
<1>1. MapsDisjoint'
  BY DEF Ledger, MapsDisjoint, OpenOnce, Open
<1>2. OpenBounded'
  BY DEF Ledger, OpenBounded
<1>3. resolved' \cup uncertain' = resolved \cup uncertain
  OBVIOUS
<1>4. QueueSound'
  BY <1>3 DEF Ledger, QueueSound, HistoryMatches
<1> QED
  BY <1>1, <1>2, <1>4 DEF Ledger

\* Nothing happens to the maps.
LEMMA SameKeeps ==
  ASSUME Ledger, UNCHANGED <<active, inFlight, resolved, uncertain, order>>
  PROVE  Ledger'
BY DEF Ledger, MapsDisjoint, OpenOnce, Open, QueueSound, HistoryMatches, OpenBounded

-----------------------------------------------------------------------------
(* Effects that many actions share.                                        *)

\* An open request is settled: it leaves its map and its outcome is filed.
Settles(k) ==
  /\ k \in Open /\ Settled(k)
  /\ active' = active \ {k} /\ inFlight' = inFlight \ {k}

\* A remembered outcome of an open request settles it.
LEMMA RememberLeaves ==
  ASSUME IInv, NEW k \in Requests,
         \/ k \in active /\ active' = active \ {k} /\ inFlight' = inFlight
         \/ k \in inFlight /\ inFlight' = inFlight \ {k} /\ active' = active,
         RememberResolved(k) \/ RememberUncertain(k)
  PROVE  Settles(k)
<1>1. k \in Open /\ k \notin resolved \cup uncertain
  BY DEF IInv, Ledger, MapsDisjoint, Open
<1>2. Settled(k)
  BY <1>1, RememberSettles DEF IInv, Ledger
<1>3. active' = active \ {k} /\ inFlight' = inFlight \ {k}
  BY DEF IInv, Ledger, MapsDisjoint
<1> QED
  BY <1>1, <1>2, <1>3 DEF Settles

\* A settled request keeps the maps sound and typed, and stays known.
LEMMA SettlesKeeps ==
  ASSUME IInv, NEW k, Settles(k)
  PROVE  /\ Ledger'
         /\ active' \subseteq active /\ inFlight' \subseteq Requests
         /\ resolved' \subseteq Requests /\ uncertain' \subseteq Requests
         /\ order' \in Seq(Requests) /\ forgotten' \subseteq Requests
         /\ overdue' \subseteq Requests
         /\ \A j \in Requests : Known(j) => Known(j)'
         /\ k \in resolved' \cup uncertain' \cup forgotten'
<1>1. Ledger'
  BY SettleKeeps DEF IInv, Settles
<1> QED
  BY <1>1 DEF IInv, TypeOK, Settles, Settled, Known

\* Task t is given another step; everybody else stays where they are.
Moves(t, pc, req, next) ==
  /\ thread' \in [Threads -> ThreadState]
  /\ thread'[t].pc = pc /\ thread'[t].req = req /\ thread'[t].next = next
  /\ \A s \in Threads : s # t => thread'[s] = thread[s]

\* A task goes on with the request it has.
LEMMA GotoMoves ==
  ASSUME TypeOK, NEW t \in Threads, NEW pc \in {"written", "unsure", "refused", "expire",
           "cancel", "force", "ending", "clearing", "concluding", "done"}, Goto(t, pc)
  PROVE  Moves(t, pc, thread[t].req, thread[t].next)
BY DEF TypeOK, ThreadState, Goto, Moves

\* A task goes on to update_waiting_state and is done with its request.
LEMMA UpdateMoves ==
  ASSUME TypeOK, NEW t \in Threads, Update(t)
  PROVE  Moves(t, "read", NoRequest, thread[t].next)
BY DEF TypeOK, ThreadState, Update, Moves

\* A task returns.
LEMMA RestMoves ==
  ASSUME TypeOK, NEW t \in Threads, Rest(t)
  PROVE  Moves(t, "idle", NoRequest, "none")
BY DEF TypeOK, ThreadState, Rest, Idle, Moves

\* A task begins with a request.
LEMMA BeginMoves ==
  ASSUME TypeOK, NEW t \in Threads, NEW pc \in {"claimed", "expire", "action"},
         NEW k \in Requests,
         thread' = [thread EXCEPT ![t] = [Idle EXCEPT !.pc = pc, !.req = k]]
  PROVE  Moves(t, pc, k, "none")
BY DEF TypeOK, ThreadState, Idle, Moves

\* A task is about to change the session's state.
LEMMA TargetMoves ==
  ASSUME TypeOK, NEW t \in Threads, NEW pc \in {"set", "failing"}, NEW next \in SessionState,
         thread' = [thread EXCEPT ![t].pc = pc, ![t].next = next]
  PROVE  Moves(t, pc, thread[t].req, next)
BY DEF TypeOK, ThreadState, Moves

\* The requests whose outcome a report would find stay known.
KnownKept == ~finalized' => \A k \in Requests : Known(k) => Known(k)'

\* Where no task starts to write, no request is opened and the child is left
\* alone, no answer is endangered.
LEMMA CalmAnswers ==
  ASSUME IInv, \A s \in Threads : Writing(s)' => Writing(s) /\ thread'[s] = thread[s],
         phase' = phase, finalized => finalized', active' \subseteq active, KnownKept
  PROVE  Answering'
<1>1. \A s \in Threads : Writing(s) => thread[s].req \in Requests
  BY DEF Writing, IInv, TasksPlaced, Carriers
<1>2. \A s \in Threads : Writing(s)' =>
         /\ phase'[thread'[s].req] = "waiting"
         /\ thread'[s].pc = "action" <=> KindOf[thread'[s].req] = "gui_action"
         /\ thread'[s].pc # "action" => thread'[s].req \notin active'
         /\ thread'[s].pc # "action" /\ ~finalized' => Known(thread[s].req)'
  BY <1>1 DEF IInv, Answering, KnownKept, Known
<1>3. \A r, s \in Threads : Writing(r)' /\ Writing(s)' /\ thread'[r].req = thread'[s].req => r = s
  BY DEF IInv, Answering
<1>4. AnsweredOnce' /\ (\A k \in active' : KindOf[k] # "gui_action" => phase'[k] = "waiting")
  BY DEF IInv, Answering, AnsweredOnce
<1>5. ReportRecognised'
  BY DEF IInv, Answering, ReportRecognised, KnownKept, Known
<1> QED
  BY <1>2, <1>3, <1>4, <1>5 DEF Answering

\* That is so when a task moves to a step without a write ...
LEMMA QuietAnswers ==
  ASSUME IInv, NEW t \in Threads, NEW pc, NEW req, NEW next, Moves(t, pc, req, next),
         pc \notin {"claimed", "refused", "cancel", "action"},
         phase' = phase, finalized => finalized', active' \subseteq active, KnownKept
  PROVE  Answering'
<1>1. \A s \in Threads : Writing(s)' => Writing(s) /\ thread'[s] = thread[s]
  BY DEF Moves, Writing
<1> QED
  BY <1>1, CalmAnswers

\* ... and when no task moves.
LEMMA StillAnswers ==
  ASSUME IInv, thread' = thread, phase' = phase, finalized => finalized',
         active' \subseteq active, KnownKept
  PROVE  Answering'
<1>1. \A s \in Threads : Writing(s)' => Writing(s) /\ thread'[s] = thread[s]
  BY DEF Writing
<1> QED
  BY <1>1, CalmAnswers

\* A task that is not the reader moves on with what its step needs.
LEMMA TaskPlaced ==
  ASSUME IInv, NEW t \in Threads \ {Reader}, NEW pc, NEW req, NEW next, Moves(t, pc, req, next),
         pc \in Carriers => req \in Requests, pc = "set" => next \in WaitingTargets,
         finalized' = finalized, At(Reader, "done") => state' = state
  PROVE  TasksPlaced'
<1>1. Reader \in Threads /\ thread'[Reader] = thread[Reader]
  BY DEF Threads, Moves
<1> QED
  BY <1>1 DEF IInv, TasksPlaced, Moves, At

\* So does the reader, by the order of its own steps.
LEMMA ReaderPlaced ==
  ASSUME IInv, NEW pc \in ReaderSteps, NEW req, NEW next, Moves(Reader, pc, req, next),
         finalized => finalized',
         pc \in {"idle", "read"} => next = "none",
         pc = "set" => next \in WaitingTargets,
         pc = "failing" => next \in Failures,
         pc \in {"ending", "clearing", "concluding"} => next \in Failures \cup {"none"},
         pc \in {"clearing", "concluding", "done"} => finalized',
         pc = "done" => state' \in FinalStates
  PROVE  TasksPlaced'
<1>1. Reader \in Threads
  BY DEF Threads
<1>2. \A t \in Threads :
         /\ thread'[t].pc \in Carriers => thread'[t].req \in Requests
         /\ thread'[t].pc = "set" => thread'[t].next \in WaitingTargets
  BY <1>1 DEF IInv, TasksPlaced, Moves, Carriers, ReaderSteps
<1> QED
  BY <1>1, <1>2 DEF TasksPlaced, Moves

\* A settled request stays known.
LEMMA SettlesKnown == ASSUME IInv, NEW k, Settles(k) PROVE KnownKept
BY SettlesKeeps DEF KnownKept

\* Maps that are left alone keep it too.
LEMMA SameKnown ==
  ASSUME UNCHANGED <<inFlight, resolved, uncertain, forgotten>> PROVE KnownKept
BY DEF KnownKept, Known

-----------------------------------------------------------------------------
(* The tasks that answer.                                                  *)

\* claim_pending: the claimant is the only one about to write for its request.
LEMMA ClaimInv ==
  ASSUME IInv, NEW r \in Responders, NEW k \in Requests, Claim(r, k)
  PROVE  IInv'
<1> USE DEF tracker, history, child, run
<1>r. r \in Threads \ {Reader}
  BY PendingAssumption DEF Threads
<1>1. Moves(r, "claimed", k, "none")
  BY <1>r, BeginMoves DEF Claim, IInv
<1>2. TypeOK'
  BY <1>1 DEF Claim, IInv, TypeOK, Moves
<1>3. Ledger'
  BY MoveKeeps DEF Claim, IInv
<1>4. TasksPlaced'
  BY <1>r, <1>1, TaskPlaced DEF Claim
<1>5. Answering'
  <2>1. phase[k] = "waiting" /\ k \in active /\ KindOf[k] # "gui_action"
    BY DEF Claim, IInv, Answering
  <2>2. \A s \in Threads : Writing(s) => thread[s].req # k /\ thread[s].req \in Requests
    BY <2>1 DEF IInv, Answering, Writing, TasksPlaced, Carriers
  <2>3. \A s \in Threads : Writing(s)' => s = r \/ (Writing(s) /\ thread'[s] = thread[s])
    BY <1>1 DEF Moves, Writing
  <2>4. \A s \in Threads : Writing(s)' =>
         /\ phase'[thread'[s].req] = "waiting"
         /\ thread'[s].pc = "action" <=> KindOf[thread'[s].req] = "gui_action"
         /\ thread'[s].pc # "action" => thread'[s].req \notin active'
         /\ thread'[s].pc # "action" /\ ~finalized' => Known(thread[s].req)'
    BY <1>1, <2>1, <2>2, <2>3 DEF IInv, Answering, Known, Claim, Moves
  <2>5. \A s, t \in Threads : Writing(s)' /\ Writing(t)' /\ thread'[s].req = thread'[t].req => s = t
    BY <1>1, <2>2, <2>3 DEF IInv, Answering, Moves
  <2>6. AnsweredOnce' /\ (\A j \in active' : KindOf[j] # "gui_action" => phase'[j] = "waiting")
    BY DEF IInv, Answering, AnsweredOnce, Claim
  <2>7. ReportRecognised'
    BY DEF IInv, Answering, ReportRecognised, Claim
  <2> QED
    BY <2>4, <2>5, <2>6, <2>7 DEF Answering
<1> QED
  BY <1>2, <1>3, <1>4, <1>5 DEF IInv

\* The bytes reach a child that waits for them, from the only task that had
\* them to write; what it then owes is known.
LEMMA DeliverAnswers ==
  ASSUME IInv, NEW t \in Threads, Writing(t), NEW pc, NEW req, NEW next,
         Moves(t, pc, req, next), pc \notin {"claimed", "refused", "cancel", "action"},
         Deliver(thread[t].req), UNCHANGED <<active, inFlight, resolved, uncertain, forgotten, finalized>>
  PROVE  Answering' /\ phase' \in [Requests -> {"fresh", "waiting", "owing", "twice"}]
<1> DEFINE k == thread[t].req
<1>1. k \in Requests /\ phase[k] = "waiting"
  BY DEF IInv, TasksPlaced, Carriers, Writing, Answering
<1>2. phase' = [phase EXCEPT ![k] = "owing"] /\ phase \in [Requests -> {"fresh", "waiting", "owing", "twice"}]
  BY <1>1 DEF Deliver, IInv, TypeOK
<1>3. \A s \in Threads : Writing(s)' =>
         /\ s # t /\ Writing(s) /\ thread'[s] = thread[s]
         /\ thread[s].req \in Requests /\ thread[s].req # k
  BY DEF Moves, Writing, IInv, Answering, TasksPlaced, Carriers
<1>4. k \notin active \/ KindOf[k] = "gui_action"
  BY DEF IInv, Answering
<1>5. KindOf[k] # "gui_action" /\ ~finalized => Known(k)
  BY DEF IInv, Answering
<1>6. \A s \in Threads : Writing(s)' =>
         /\ phase'[thread'[s].req] = "waiting"
         /\ thread'[s].pc = "action" <=> KindOf[thread'[s].req] = "gui_action"
         /\ thread'[s].pc # "action" => thread'[s].req \notin active'
         /\ thread'[s].pc # "action" /\ ~finalized' => Known(thread[s].req)'
  BY <1>1, <1>2, <1>3 DEF IInv, Answering, Known
<1>7. \A r, s \in Threads : Writing(r)' /\ Writing(s)' /\ thread'[r].req = thread'[s].req => r = s
  BY <1>3 DEF IInv, Answering
<1>8. AnsweredOnce' /\ (\A j \in active' : KindOf[j] # "gui_action" => phase'[j] = "waiting")
  BY <1>1, <1>2, <1>4 DEF IInv, TypeOK, Answering, AnsweredOnce
<1>9. ReportRecognised'
  BY <1>1, <1>2, <1>5 DEF IInv, Answering, ReportRecognised, Known
<1> QED
  BY <1>2, <1>6, <1>7, <1>8, <1>9 DEF Answering

\* The write of an answer, whether or not the writer learns of it.
LEMMA WriteInv ==
  ASSUME IInv, NEW r \in Responders, WriteDelivered(r) \/ WriteUncertain(r)
  PROVE  IInv'
<1> USE DEF tracker, history, child, run
<1>r. r \in Threads \ {Reader}
  BY PendingAssumption DEF Threads
<1>1. PICK pc \in {"written", "unsure"} : Goto(r, pc)
  BY DEF WriteDelivered, WriteUncertain
<1>2. Moves(r, pc, thread[r].req, thread[r].next)
  BY <1>r, <1>1, GotoMoves DEF IInv
<1>3. Ledger'
  BY SameKeeps DEF WriteDelivered, WriteUncertain, IInv
<1>4. TasksPlaced'
  <2>1. thread[r].req \in Requests
    BY <1>r DEF WriteDelivered, WriteUncertain, At, IInv, TasksPlaced, Carriers
  <2> QED
    BY <1>r, <1>2, <2>1, TaskPlaced DEF WriteDelivered, WriteUncertain
<1>5. Answering' /\ phase' \in [Requests -> {"fresh", "waiting", "owing", "twice"}]
  <2>1. CASE Deliver(thread[r].req)
    BY <1>r, <1>2, <2>1, DeliverAnswers DEF WriteDelivered, WriteUncertain, Writing, At
  <2>2. CASE UNCHANGED child
    <3>1. KnownKept
      BY SameKnown DEF WriteDelivered, WriteUncertain
    <3> QED
      BY <1>r, <1>2, <2>2, <3>1, QuietAnswers DEF WriteDelivered, WriteUncertain, IInv, TypeOK
  <2> QED
    BY <2>1, <2>2 DEF WriteDelivered, WriteUncertain
<1>6. TypeOK'
  BY <1>2, <1>5 DEF WriteDelivered, WriteUncertain, IInv, TypeOK, Moves, Deliver
<1> QED
  BY <1>3, <1>4, <1>5, <1>6 DEF IInv

\* A refused write keeps the claim.
LEMMA WriteRefusedInv ==
  ASSUME IInv, NEW r \in Responders, WriteRefused(r)
  PROVE  IInv'
<1> USE DEF tracker, history, child, run
<1>r. r \in Threads \ {Reader}
  BY PendingAssumption DEF Threads
<1>1. Moves(r, "refused", thread[r].req, thread[r].next)
  BY <1>r, GotoMoves DEF IInv, WriteRefused
<1>2. TypeOK'
  BY <1>1 DEF WriteRefused, IInv, TypeOK, Moves
<1>3. Ledger'
  BY SameKeeps DEF WriteRefused, IInv
<1>4. thread[r].req \in Requests /\ Writing(r) /\ thread[r].pc # "action"
  BY <1>r DEF WriteRefused, At, IInv, TasksPlaced, Carriers, Writing
<1>5. TasksPlaced'
  BY <1>r, <1>1, <1>4, TaskPlaced DEF WriteRefused
<1>6. Answering'
  <2>1. \A s \in Threads : /\ Writing(s)' => Writing(s)
                           /\ thread'[s].req = thread[s].req
                           /\ Writing(s)' => (thread'[s].pc = "action" <=> thread[s].pc = "action")
    BY <1>1, <1>4 DEF Moves, Writing
  <2>2. \A s \in Threads : Writing(s)' =>
         /\ phase'[thread'[s].req] = "waiting"
         /\ thread'[s].pc = "action" <=> KindOf[thread'[s].req] = "gui_action"
         /\ thread'[s].pc # "action" => thread'[s].req \notin active'
         /\ thread'[s].pc # "action" /\ ~finalized' => Known(thread[s].req)'
    BY <2>1 DEF IInv, Answering, Known, WriteRefused
  <2>3. \A s, t \in Threads : Writing(s)' /\ Writing(t)' /\ thread'[s].req = thread'[t].req => s = t
    BY <2>1 DEF IInv, Answering
  <2>4. AnsweredOnce' /\ (\A j \in active' : KindOf[j] # "gui_action" => phase'[j] = "waiting")
    BY DEF IInv, Answering, AnsweredOnce, WriteRefused
  <2>5. ReportRecognised'
    BY DEF IInv, Answering, ReportRecognised, WriteRefused
  <2> QED
    BY <2>2, <2>3, <2>4, <2>5 DEF Answering
<1> QED
  BY <1>2, <1>3, <1>5, <1>6 DEF IInv

\* A task settles a request and goes on to a step without a write.
LEMMA SettleMoves ==
  ASSUME IInv, NEW t \in Threads \ {Reader}, NEW pc \in {"idle", "read"}, NEW req, NEW next,
         Moves(t, pc, req, next), NEW k, Settles(k),
         UNCHANGED <<armed, state, run, child, aborted>>
  PROVE  IInv'
<1> USE DEF run, child
<1>1. TypeOK'
  BY SettlesKeeps DEF IInv, TypeOK, Moves
<1>2. TasksPlaced'
  BY TaskPlaced DEF Carriers
<1>3. Answering'
  BY SettlesKeeps, SettlesKnown, QuietAnswers
<1> QED
  BY <1>1, <1>2, <1>3, SettlesKeeps DEF IInv

\* A task goes on and leaves the tracker and the child alone.
LEMMA PlainMoves ==
  ASSUME IInv, NEW t \in Threads \ {Reader}, NEW pc \in {"idle", "read", "set", "expire", "force"},
         NEW req, NEW next, Moves(t, pc, req, next),
         pc \in {"expire", "force"} => req \in Requests, pc = "set" => next \in WaitingTargets,
         UNCHANGED <<active, inFlight, history, child, finalized>>,
         overdue' \subseteq Requests, armed' \subseteq Requests, aborted' \subseteq Requests,
         state' \in SessionState, At(Reader, "done") => state' = state,
         stopRequested' \in BOOLEAN
  PROVE  IInv'
<1> USE DEF history, child
<1>1. TypeOK'
  BY DEF IInv, TypeOK, Moves
<1>2. TasksPlaced'
  BY TaskPlaced DEF Carriers
<1>3. Answering'
  BY SameKnown, QuietAnswers
<1> QED
  BY <1>1, <1>2, <1>3, SameKeeps DEF IInv

\* complete_pending and mark_delivery_uncertain file the outcome of the write,
\* unless the child's report came first.
LEMMA OutcomeInv ==
  ASSUME IInv, NEW r \in Responders, CompletePending(r) \/ MarkUncertain(r)
  PROVE  IInv'
<1> USE DEF tracker, run, child
<1> DEFINE k == thread[r].req
<1>r. r \in Threads \ {Reader} /\ k \in Requests
  BY PendingAssumption DEF Threads, CompletePending, MarkUncertain, At, IInv, TasksPlaced, Carriers
<1>1. PICK pc, next : Moves(r, pc, NoRequest, next) /\ pc \in {"idle", "read"}
  BY <1>r, UpdateMoves, RestMoves DEF CompletePending, MarkUncertain, IInv
<1>2. CASE UNCHANGED tracker
  BY <1>r, <1>1, <1>2, PlainMoves DEF CompletePending, MarkUncertain, IInv, TypeOK
<1>3. CASE /\ k \in inFlight /\ inFlight' = inFlight \ {k} /\ active' = active
           /\ RememberResolved(k) \/ RememberUncertain(k)
  BY <1>r, <1>1, <1>3, RememberLeaves, SettleMoves DEF CompletePending, MarkUncertain
<1> QED
  BY <1>2, <1>3 DEF CompletePending, MarkUncertain

\* restore_pending gives the claim back; the child has seen nothing of it.
LEMMA RestorePendingInv ==
  ASSUME IInv, NEW r \in Responders, RestorePending(r)
  PROVE  IInv'
<1> USE DEF tracker, run, child
<1> DEFINE k == thread[r].req
<1>r. r \in Threads \ {Reader} /\ k \in Requests /\ Writing(r) /\ thread[r].pc # "action"
  BY PendingAssumption DEF Threads, RestorePending, At, IInv, TasksPlaced, Carriers, Writing
<1>1. CASE k \notin inFlight
  <2>1. Moves(r, "idle", NoRequest, "none")
    BY <1>r, <1>1, RestMoves DEF RestorePending, IInv
  <2> QED
    BY <1>r, <1>1, <2>1, PlainMoves DEF RestorePending, IInv, TypeOK
<1>2. CASE k \in inFlight
  <2>1. PICK pc, req, next : /\ Moves(r, pc, req, next) /\ pc \in {"idle", "expire"}
                             /\ pc = "expire" => req \in Requests
    BY <1>r, <1>2, RestMoves, GotoMoves DEF RestorePending, IInv
  <2>2. inFlight' = inFlight \ {k} /\ active' = active \cup {k} /\ UNCHANGED history
    BY <1>2 DEF RestorePending
  <2>3. TypeOK'
    BY <1>r, <2>1, <2>2 DEF RestorePending, IInv, TypeOK, Moves, history
  <2>4. Ledger'
    BY <1>2, <2>2, MoveKeeps DEF IInv
  <2>5. TasksPlaced'
    BY <1>r, <2>1, TaskPlaced DEF RestorePending, Carriers
  <2>6. Answering'
    <3>1. phase[k] = "waiting" /\ phase' = phase /\ finalized' = finalized
      BY <1>r DEF IInv, Answering, RestorePending
    <3>2. \A s \in Threads : Writing(s)' =>
            /\ s # r /\ Writing(s) /\ thread'[s] = thread[s]
            /\ thread[s].req # k /\ thread[s].req \in Requests
      BY <1>r, <2>1 DEF Moves, Writing, IInv, Answering, TasksPlaced, Carriers
    <3>3. \A s \in Threads : Writing(s)' =>
            /\ phase'[thread'[s].req] = "waiting"
            /\ thread'[s].pc = "action" <=> KindOf[thread'[s].req] = "gui_action"
            /\ thread'[s].pc # "action" => thread'[s].req \notin active'
            /\ thread'[s].pc # "action" /\ ~finalized' => Known(thread[s].req)'
      BY <2>2, <3>1, <3>2 DEF IInv, Answering, Known, history
    <3>4. \A s, t \in Threads : Writing(s)' /\ Writing(t)' /\ thread'[s].req = thread'[t].req => s = t
      BY <3>2 DEF IInv, Answering
    <3>5. AnsweredOnce' /\ (\A j \in active' : KindOf[j] # "gui_action" => phase'[j] = "waiting")
      BY <2>2, <3>1 DEF IInv, Answering, AnsweredOnce
    <3>6. ReportRecognised'
      BY <2>2, <3>1 DEF IInv, Answering, ReportRecognised, history
    <3> QED
      BY <3>3, <3>4, <3>5, <3>6 DEF Answering
  <2> QED
    BY <2>3, <2>4, <2>5, <2>6 DEF IInv
<1> QED
  BY <1>1, <1>2

\* force_resolve after a failed write of an action.
LEMMA ForceResolveInv ==
  ASSUME IInv, NEW r \in Responders, ForceResolve(r)
  PROVE  IInv'
<1> USE DEF tracker, run, child
<1> DEFINE k == thread[r].req
<1>r. r \in Threads \ {Reader} /\ k \in Requests
  BY PendingAssumption DEF Threads, ForceResolve, At, IInv, TasksPlaced, Carriers
<1>1. Moves(r, "idle", NoRequest, "none")
  BY <1>r, RestMoves DEF ForceResolve, IInv
<1>2. CASE UNCHANGED tracker
  BY <1>r, <1>1, <1>2, PlainMoves DEF ForceResolve, IInv, TypeOK
<1>3. CASE k \in active /\ active' = active \ {k} /\ RememberResolved(k) /\ UNCHANGED inFlight
  BY <1>r, <1>1, <1>3, RememberLeaves, SettleMoves DEF ForceResolve
<1> QED
  BY <1>2, <1>3 DEF ForceResolve

\* The write of an action.
LEMMA WriteActionInv ==
  ASSUME IInv, NEW r \in Responders, WriteAction(r)
  PROVE  IInv'
<1> USE DEF tracker, run, child
<1> DEFINE k == thread[r].req
<1>r. r \in Threads \ {Reader} /\ k \in Requests /\ Writing(r)
  BY PendingAssumption DEF Threads, WriteAction, At, IInv, TasksPlaced, Carriers, Writing
<1>1. PICK pc, req, next : /\ Moves(r, pc, req, next) /\ pc \in {"idle", "force"}
                           /\ pc = "force" => req \in Requests
  BY <1>r, RestMoves, GotoMoves DEF WriteAction, IInv
<1>2. CASE UNCHANGED child
  BY <1>r, <1>1, <1>2, PlainMoves DEF WriteAction, IInv, TypeOK
<1>3. CASE Deliver(k)
  <2>1. Answering' /\ phase' \in [Requests -> {"fresh", "waiting", "owing", "twice"}]
    BY <1>r, <1>1, <1>3, DeliverAnswers DEF WriteAction, history
  <2>2. TypeOK'
    BY <1>1, <1>3, <2>1 DEF WriteAction, IInv, TypeOK, Moves, Deliver, history
  <2>3. Ledger'
    BY SameKeeps DEF WriteAction, IInv, history
  <2>4. TasksPlaced'
    BY <1>r, <1>1, TaskPlaced DEF WriteAction, Carriers
  <2> QED
    BY <2>1, <2>2, <2>3, <2>4 DEF IInv
<1> QED
  BY <1>2, <1>3 DEF WriteAction

\* stop is about to move the session to Interrupting.
LEMMA StopInv ==
  ASSUME IInv, NEW r \in Responders, Stop(r)
  PROVE  IInv'
<1>r. r \in Threads \ {Reader} /\ "interrupting" \in SessionState
  BY PendingAssumption DEF Threads, SessionState
<1>1. Moves(r, "set", thread[r].req, "interrupting")
  BY <1>r, TargetMoves DEF Stop, IInv
<1> QED
  BY <1>r, <1>1, PlainMoves DEF Stop, IInv, TypeOK, WaitingTargets, tracker, child

\* An aborted task leaves its request where it was.
LEMMA AbortInv ==
  ASSUME IInv, NEW r \in Responders, Abort(r)
  PROVE  IInv'
<1>r. r \in Threads \ {Reader}
  BY PendingAssumption DEF Threads
<1>1. Moves(r, "idle", NoRequest, "none")
  BY <1>r, RestMoves DEF Abort, IInv
<1>2. aborted' \subseteq Requests
  BY DEF Abort, IInv, TypeOK, Open
<1> QED
  BY <1>r, <1>1, <1>2, PlainMoves DEF Abort, IInv, TypeOK, tracker, child, run

-----------------------------------------------------------------------------
(* Timers.                                                                 *)

\* A deadline that passes touches no map.
LEMMA DeadlinePassesInv ==
  ASSUME IInv, NEW k \in Requests, DeadlinePasses(k)
  PROVE  IInv'
<1> USE DEF DeadlinePasses, run, child, history
<1>1. TypeOK'
  BY DEF IInv, TypeOK
<1>2. TasksPlaced'
  BY DEF IInv, TasksPlaced
<1>3. Answering'
  BY SameKnown, StillAnswers
<1> QED
  BY <1>1, <1>2, <1>3, SameKeeps DEF IInv

\* A timer that fires hands its request to a task, or finds the run finalized.
LEMMA TimerFiresInv ==
  ASSUME IInv, NEW e \in Expirers, NEW k \in Requests, TimerFires(e, k)
  PROVE  IInv'
<1> USE DEF TimerFires, tracker, run, child
<1>r. e \in Threads \ {Reader}
  BY PendingAssumption DEF Threads
<1>1. CASE finalized
  <2>1. TypeOK'
    BY <1>1 DEF IInv, TypeOK, history
  <2>2. TasksPlaced'
    BY <1>1 DEF IInv, TasksPlaced
  <2>3. Answering'
    BY <1>1, SameKnown, StillAnswers DEF history
  <2> QED
    BY <2>1, <2>2, <2>3, SameKeeps DEF IInv, history
<1>2. CASE ~finalized
  <2>1. Moves(e, "expire", k, "none")
    BY <1>r, <1>2, BeginMoves DEF IInv
  <2> QED
    BY <1>r, <2>1, PlainMoves DEF IInv, TypeOK
<1> QED
  BY <1>1, <1>2

\* Only the reader is ever at a step of the reader, and it never expires or
\* cancels a request.
LEMMA ExpiryNotReader ==
  ASSUME IInv, NEW t \in Threads, At(t, "expire") \/ At(t, "cancel")
  PROVE  t \in Threads \ {Reader} /\ thread[t].req \in Requests
BY DEF At, IInv, TasksPlaced, ReaderSteps, Carriers

\* expire_request takes an overdue request that nobody has claimed; its task is
\* the only one left to tell the child.
LEMMA ExpireInv ==
  ASSUME IInv, NEW t \in Threads, Expire(t)
  PROVE  IInv'
<1> USE DEF tracker, run, child
<1> DEFINE k == thread[t].req
<1>r. t \in Threads \ {Reader} /\ k \in Requests
  BY ExpiryNotReader DEF Expire
<1>1. CASE UNCHANGED tracker /\ Rest(t)
  BY <1>r, <1>1, RestMoves, PlainMoves DEF Expire, IInv, TypeOK
<1>2. CASE k \in active /\ active' = active \ {k} /\ RememberResolved(k) /\ UNCHANGED inFlight
           /\ KindOf[k] = "gui_action" /\ Update(t)
  <2>1. Moves(t, "read", NoRequest, thread[t].next)
    BY <1>r, <1>2, UpdateMoves DEF IInv
  <2> QED
    BY <1>r, <1>2, <2>1, RememberLeaves, SettleMoves DEF Expire
<1>3. CASE k \in active /\ active' = active \ {k} /\ RememberResolved(k) /\ UNCHANGED inFlight
           /\ KindOf[k] # "gui_action" /\ Goto(t, "cancel")
  <2>1. Moves(t, "cancel", k, thread[t].next)
    BY <1>r, <1>3, GotoMoves DEF IInv
  <2>2. Settles(k)
    BY <1>r, <1>3, RememberLeaves
  <2>3. TypeOK'
    BY <2>1, <2>2, SettlesKeeps DEF Expire, IInv, TypeOK, Moves
  <2>4. TasksPlaced'
    BY <1>r, <2>1, TaskPlaced DEF Expire
  <2>5. Answering'
    <3>1. phase[k] = "waiting" /\ phase' = phase /\ finalized' = finalized
      BY <1>3 DEF IInv, Answering, Expire
    <3>2. \A s \in Threads : Writing(s) => thread[s].req # k /\ thread[s].req \in Requests
      BY <1>3 DEF IInv, Answering, Writing, TasksPlaced, Carriers
    <3>3. \A s \in Threads : Writing(s)' => s = t \/ (Writing(s) /\ thread'[s] = thread[s])
      BY <2>1 DEF Moves, Writing
    <3>4. active' = active \ {k} /\ (\A j \in Requests : Known(j) => Known(j)')
          /\ k \in resolved' \cup uncertain' \cup forgotten'
      BY <2>2, SettlesKeeps DEF Settles
    <3>5. \A s \in Threads : Writing(s)' =>
            /\ phase'[thread'[s].req] = "waiting"
            /\ thread'[s].pc = "action" <=> KindOf[thread'[s].req] = "gui_action"
            /\ thread'[s].pc # "action" => thread'[s].req \notin active'
            /\ thread'[s].pc # "action" /\ ~finalized' => Known(thread[s].req)'
      BY <1>3, <2>1, <3>1, <3>2, <3>3, <3>4 DEF IInv, Answering, Known, Moves
    <3>6. \A r, s \in Threads : Writing(r)' /\ Writing(s)' /\ thread'[r].req = thread'[s].req => r = s
      BY <2>1, <3>2, <3>3 DEF IInv, Answering, Moves
    <3>7. AnsweredOnce' /\ (\A j \in active' : KindOf[j] # "gui_action" => phase'[j] = "waiting")
      BY <3>1, <3>4 DEF IInv, Answering, AnsweredOnce
    <3>8. ReportRecognised'
      BY <3>1, <3>4 DEF IInv, Answering, ReportRecognised, Known
    <3> QED
      BY <3>5, <3>6, <3>7, <3>8 DEF Answering
  <2> QED
    BY <2>2, <2>3, <2>4, <2>5, SettlesKeeps DEF IInv
<1> QED
  BY <1>1, <1>2, <1>3 DEF Expire

\* The cancel of an expired request.
LEMMA WriteCancelInv ==
  ASSUME IInv, NEW t \in Threads, WriteCancel(t)
  PROVE  IInv'
<1> USE DEF tracker, run, child
<1> DEFINE k == thread[t].req
<1>r. t \in Threads \ {Reader} /\ k \in Requests /\ Writing(t)
  BY ExpiryNotReader DEF WriteCancel, Writing, At
<1>1. Moves(t, "read", NoRequest, thread[t].next)
  BY <1>r, UpdateMoves DEF WriteCancel, IInv
<1>2. CASE UNCHANGED child
  BY <1>r, <1>1, <1>2, PlainMoves DEF WriteCancel, IInv, TypeOK
<1>3. CASE Deliver(k)
  <2>1. Answering' /\ phase' \in [Requests -> {"fresh", "waiting", "owing", "twice"}]
    BY <1>r, <1>1, <1>3, DeliverAnswers DEF WriteCancel, history
  <2>2. TypeOK'
    BY <1>1, <1>3, <2>1 DEF WriteCancel, IInv, TypeOK, Moves, Deliver, history
  <2>3. Ledger'
    BY SameKeeps DEF WriteCancel, IInv, history
  <2>4. TasksPlaced'
    BY <1>r, <1>1, TaskPlaced DEF WriteCancel, Carriers
  <2> QED
    BY <2>1, <2>2, <2>3, <2>4 DEF IInv
<1> QED
  BY <1>2, <1>3 DEF WriteCancel

-----------------------------------------------------------------------------
(* update_waiting_state.                                                   *)

\* What the tracker shows is a state the waiting update may aim for.
LEMMA WaitingTyped == WaitingState \in WaitingTargets /\ WaitingTargets \subseteq SessionState
BY DEF WaitingState, WaitingTargets, SessionState

\* A refused move changes nothing, an accepted one leads to its target.
LEMMA SetStateTyped ==
  ASSUME NEW from \in SessionState, NEW to \in SessionState
  PROVE  SetState(from, to) \in SessionState
BY DEF SetState

\* set_state lets none of the targets of a late update replace a final state.
LEMMA FinalRefuses ==
  ASSUME NEW from \in FinalStates, NEW to \in WaitingTargets
  PROVE  SetState(from, to) = from
BY DEF SetState, CanTransitionTo, NextStates, Bridged, FinalStates, WaitingTargets

\* The tracker is read for the state to show.
LEMMA ReadWaitingInv ==
  ASSUME IInv, NEW t \in Threads, ReadWaiting(t)
  PROVE  IInv'
<1> USE DEF tracker, run, child
<1>1. Moves(t, "set", thread[t].req, WaitingState) /\ WaitingState \in WaitingTargets
  BY WaitingTyped, TargetMoves DEF ReadWaiting, IInv
<1>2. TypeOK'
  BY <1>1 DEF ReadWaiting, IInv, TypeOK, Moves, history
<1>3. TasksPlaced'
  <2>1. CASE t = Reader
    BY <1>1, <2>1, ReaderPlaced DEF ReadWaiting, ReaderSteps
  <2>2. CASE t # Reader
    BY <1>1, <2>2, TaskPlaced DEF ReadWaiting, Carriers
  <2> QED
    BY <2>1, <2>2
<1>4. Answering'
  BY <1>1, SameKnown, QuietAnswers DEF ReadWaiting, history
<1> QED
  BY <1>2, <1>3, <1>4, SameKeeps DEF IInv, ReadWaiting, history

\* The state is set under its own lock, perhaps after the run has ended.
LEMMA ApplyStateInv ==
  ASSUME IInv, NEW t \in Threads, ApplyState(t)
  PROVE  IInv' /\ (At(Reader, "done") => state' = state)
<1> USE DEF tracker, run, child
<1>1. Moves(t, "idle", NoRequest, "none")
  BY RestMoves DEF ApplyState, IInv
<1>2. thread[t].next \in WaitingTargets /\ state \in SessionState
  BY DEF ApplyState, At, IInv, TasksPlaced, TypeOK
<1>3. state' \in SessionState /\ (At(Reader, "done") => state' = state)
  BY <1>2, WaitingTyped, SetStateTyped, FinalRefuses DEF ApplyState, At, IInv, TasksPlaced
<1>4. TypeOK'
  BY <1>1, <1>3 DEF ApplyState, IInv, TypeOK, Moves, history
<1>5. TasksPlaced'
  <2>1. CASE t = Reader
    BY <1>1, <2>1, ReaderPlaced DEF ApplyState, ReaderSteps
  <2>2. CASE t # Reader
    BY <1>1, <1>3, <2>2, TaskPlaced DEF ApplyState, Carriers
  <2> QED
    BY <2>1, <2>2
<1>6. Answering'
  BY <1>1, SameKnown, QuietAnswers DEF ApplyState, history
<1> QED
  BY <1>3, <1>4, <1>5, <1>6, SameKeeps DEF IInv, ApplyState, history

-----------------------------------------------------------------------------
(* New requests.                                                           *)

\* A request that is opened was fresh: no task is writing for it.
LEMMA RegisterAnswers ==
  ASSUME IInv, NEW k \in Requests, phase[k] = "fresh", Register(k), finalized' = finalized,
         NEW t \in Threads, NEW pc, NEW req, NEW next, Moves(t, pc, req, next),
         \/ pc \notin {"claimed", "refused", "cancel", "action"}
         \/ pc = "action" /\ req = k /\ KindOf[k] = "gui_action"
  PROVE  Answering'
<1>1. \A s \in Threads : Writing(s) => thread[s].req # k /\ thread[s].req \in Requests
  BY DEF IInv, Answering, Writing, TasksPlaced, Carriers
<1>2. \A s \in Threads : Writing(s)' => \/ s = t /\ pc = "action" /\ req = k /\ KindOf[k] = "gui_action"
                                        \/ s # t /\ Writing(s) /\ thread'[s] = thread[s]
  BY DEF Moves, Writing
<1>3. /\ phase'[k] = "waiting" /\ \A j \in Requests \ {k} : phase'[j] = phase[j]
      /\ active' = active \cup {k}
      /\ \A j \in Requests \ {k} : Known(j) => Known(j)'
  BY DEF Register, IInv, TypeOK, Known
<1>4. \A s \in Threads : Writing(s)' =>
        /\ phase'[thread'[s].req] = "waiting"
        /\ thread'[s].pc = "action" <=> KindOf[thread'[s].req] = "gui_action"
        /\ thread'[s].pc # "action" => thread'[s].req \notin active'
        /\ thread'[s].pc # "action" /\ ~finalized' => Known(thread[s].req)'
  BY <1>1, <1>2, <1>3 DEF IInv, Answering, Moves, Known
<1>5. \A r, s \in Threads : Writing(r)' /\ Writing(s)' /\ thread'[r].req = thread'[s].req => r = s
  BY <1>1, <1>2 DEF IInv, Answering, Moves
<1>6. AnsweredOnce' /\ (\A j \in active' : KindOf[j] # "gui_action" => phase'[j] = "waiting")
  BY <1>3 DEF IInv, TypeOK, Answering, AnsweredOnce
<1>7. ReportRecognised'
  BY <1>3 DEF IInv, Answering, ReportRecognised, Known
<1> QED
  BY <1>4, <1>5, <1>6, <1>7 DEF Answering

\* send_gui_action opens an action and goes on to write it.
LEMMA SendActionInv ==
  ASSUME IInv, NEW r \in Responders, NEW k \in Requests, SendAction(r, k)
  PROVE  IInv'
<1> USE DEF run
<1>r. r \in Threads \ {Reader}
  BY PendingAssumption DEF Threads
<1>1. Moves(r, "action", k, "none")
  BY <1>r, BeginMoves DEF SendAction, IInv
<1>2. TypeOK'
  BY <1>1 DEF SendAction, Register, IInv, TypeOK, Moves
<1>3. Ledger'
  BY RegisterKeeps DEF SendAction, IInv
<1>4. TasksPlaced'
  BY <1>r, <1>1, TaskPlaced DEF SendAction, Carriers
<1>5. Answering'
  BY <1>r, <1>1, RegisterAnswers DEF SendAction
<1> QED
  BY <1>2, <1>3, <1>4, <1>5 DEF IInv

-----------------------------------------------------------------------------
(* The reader.                                                             *)

\* The reader is one of the tasks.
LEMMA ReaderIsTask == Reader \in Threads
BY DEF Threads

\* A frame that fails the run is remembered with the reader.
LEMMA FailMoves ==
  ASSUME IInv, NEW f \in Failures, Fail(f)
  PROVE  Moves(Reader, "failing", thread[Reader].req, f)
<1>1. f \in SessionState
  BY DEF Failures, SessionState
<1> QED
  BY <1>1, ReaderIsTask, TargetMoves DEF Fail, IInv

\* The child opens a request, or overflows the tracker and fails the run.
LEMMA ChildAsksInv ==
  ASSUME IInv, NEW k \in Requests, ChildAsks(k)
  PROVE  IInv'
<1> USE ReaderIsTask DEF run, tracker, child
<1>1. CASE CanRegister(k) /\ Register(k)
  <2>1. PICK next \in WaitingTargets : Moves(Reader, "set", thread[Reader].req, next)
    <3> DEFINE n == IF KindOf[k] = "permission" THEN "awaiting_permission" ELSE "awaiting_user_input"
    <3>1. n \in WaitingTargets /\ n \in SessionState
      BY DEF WaitingTargets, SessionState
    <3>2. thread' = [thread EXCEPT ![Reader].pc = "set", ![Reader].next = n]
      BY <1>1 DEF ChildAsks
    <3>3. Moves(Reader, "set", thread[Reader].req, n)
      BY <3>1, <3>2, TargetMoves DEF IInv
    <3> QED
      BY <3>1, <3>3
  <2>2. TypeOK'
    BY <1>1, <2>1 DEF ChildAsks, Register, IInv, TypeOK, Moves
  <2>3. TasksPlaced'
    BY <2>1, ReaderPlaced DEF ChildAsks, ReaderSteps
  <2>4. Answering'
    BY <1>1, <2>1, RegisterAnswers DEF ChildAsks
  <2> QED
    BY <1>1, <2>2, <2>3, <2>4, RegisterKeeps DEF IInv
<1>2. CASE ~CanRegister(k) /\ Fail("failed") /\ UNCHANGED <<tracker, armed, child, aborted>>
  <2>1. Moves(Reader, "failing", thread[Reader].req, "failed")
    BY <1>2, FailMoves DEF Failures
  <2>2. TypeOK'
    BY <1>2, <2>1 DEF ChildAsks, IInv, TypeOK, Moves, history
  <2>3. TasksPlaced'
    BY <2>1, ReaderPlaced DEF ChildAsks, ReaderSteps, Failures
  <2>4. Answering'
    BY <1>2, <2>1, SameKnown, QuietAnswers DEF ChildAsks, history
  <2> QED
    BY <1>2, <2>2, <2>3, <2>4, SameKeeps DEF IInv, history
<1> QED
  BY <1>1, <1>2 DEF ChildAsks

\* The child is done with a request: it owes nothing, and waits for nothing.
LEMMA DoneAnswers ==
  ASSUME IInv, NEW k \in Requests, phase[k] = "owing", phase' = [phase EXCEPT ![k] = "fresh"],
         active' \subseteq active, KindOf[k] = "gui_action" \/ k \notin active',
         finalized' = finalized, KnownKept,
         \/ thread' = thread
         \/ \E pc, req, next : /\ Moves(Reader, pc, req, next)
                               /\ pc \notin {"claimed", "refused", "cancel", "action"}
  PROVE  Answering'
<1>1. \A s \in Threads : Writing(s)' => Writing(s) /\ thread'[s] = thread[s]
  BY DEF Moves, Writing
<1>2. \A s \in Threads : Writing(s) => thread[s].req # k /\ thread[s].req \in Requests
  BY DEF IInv, Answering, Writing, TasksPlaced, Carriers
<1>3. phase'[k] = "fresh" /\ \A j \in Requests \ {k} : phase'[j] = phase[j]
  BY DEF IInv, TypeOK
<1>4. \A s \in Threads : Writing(s)' =>
        /\ phase'[thread'[s].req] = "waiting"
        /\ thread'[s].pc = "action" <=> KindOf[thread'[s].req] = "gui_action"
        /\ thread'[s].pc # "action" => thread'[s].req \notin active'
        /\ thread'[s].pc # "action" /\ ~finalized' => Known(thread[s].req)'
  BY <1>1, <1>2, <1>3 DEF IInv, Answering, Known, KnownKept
<1>5. \A r, s \in Threads : Writing(r)' /\ Writing(s)' /\ thread'[r].req = thread'[s].req => r = s
  BY <1>1 DEF IInv, Answering
<1>6. AnsweredOnce' /\ (\A j \in active' : KindOf[j] # "gui_action" => phase'[j] = "waiting")
  BY <1>3 DEF IInv, TypeOK, Answering, AnsweredOnce
<1>7. ReportRecognised'
  BY <1>3 DEF IInv, Answering, ReportRecognised, Known, KnownKept
<1> QED
  BY <1>4, <1>5, <1>6, <1>7 DEF Answering

\* confirm_resolved settles what the child reports on, or fails the run.
LEMMA ChildReportsInv ==
  ASSUME IInv, NEW k \in Requests, ChildReports(k)
  PROVE  IInv'
<1> USE ReaderIsTask DEF run, tracker, history
<1>1. phase[k] = "owing" /\ k \notin active /\ phase' = [phase EXCEPT ![k] = "fresh"]
  BY DEF ChildReports, IInv, Answering
<1>2. PICK pc, req, next : /\ Moves(Reader, pc, req, next)
                           /\ \/ pc = "read" /\ next = "none"
                              \/ pc = "failing" /\ next = "failed"
  <2>1. thread[Reader].next = "none"
    BY DEF ChildReports, At, IInv, TasksPlaced
  <2> QED
    BY <2>1, UpdateMoves, FailMoves DEF ChildReports, IInv, Failures
<1>3. TasksPlaced'
  BY <1>2, ReaderPlaced DEF ChildReports, ReaderSteps, Failures
<1>4. /\ Ledger' /\ KnownKept /\ active' \subseteq active
      /\ resolved' \subseteq Requests /\ uncertain' \subseteq Requests /\ forgotten' \subseteq Requests
      /\ inFlight' \subseteq Requests /\ order' \in Seq(Requests) /\ overdue' \subseteq Requests
  <2>1. CASE UNCHANGED tracker
    BY <2>1, SameKeeps, SameKnown DEF IInv, TypeOK
  <2>2. CASE k \in uncertain \ resolved /\ uncertain' = uncertain \ {k} /\ resolved' = resolved \cup {k}
             /\ UNCHANGED <<active, inFlight, overdue, order, forgotten>>
    <3>1. KnownKept
      BY <2>2 DEF KnownKept, Known
    <3> QED
      BY <2>2, <3>1, ConfirmKeeps DEF IInv, TypeOK
  <2>3. CASE k \in inFlight /\ inFlight' = inFlight \ {k} /\ RememberResolved(k) /\ UNCHANGED active
    BY <2>3, RememberLeaves, SettlesKeeps, SettlesKnown
  <2> QED
    BY <2>1, <2>2, <2>3 DEF ChildReports
<1>5. TypeOK'
  BY <1>1, <1>2, <1>4 DEF ChildReports, IInv, TypeOK, Moves
<1>6. Answering'
  BY <1>1, <1>2, <1>4, DoneAnswers DEF ChildReports
<1> QED
  BY <1>3, <1>4, <1>5, <1>6 DEF IInv

\* The end of handle_frame leads to a state of the session.
LEMMA LeaveStartingTyped ==
  ASSUME IInv, NEW kind \in {"ready", "running"}
  PROVE  LeaveStarting(kind) \in SessionState
<1>1. kind \in SessionState /\ state \in SessionState
  BY DEF IInv, TypeOK, SessionState
<1> QED
  BY <1>1, SetStateTyped DEF LeaveStarting

\* action_ack settles an action that is open and in time, or fails the run.
LEMMA ChildAcksInv ==
  ASSUME IInv, NEW k \in Requests, ChildAcks(k)
  PROVE  IInv'
<1> USE ReaderIsTask DEF run, tracker, history
<1>1. /\ phase[k] = "owing" /\ KindOf[k] = "gui_action" /\ phase' = [phase EXCEPT ![k] = "fresh"]
      /\ thread[Reader].pc = "idle" /\ thread[Reader].next = "none"
  BY DEF ChildAcks, At, IInv, TasksPlaced
<1>2. CASE /\ k \in active /\ active' = active \ {k} /\ RememberResolved(k)
           /\ state' = LeaveStarting("running") /\ UNCHANGED <<inFlight, thread>>
  <2>1. Settles(k) /\ state' \in SessionState
    BY <1>2, RememberLeaves, LeaveStartingTyped
  <2>2. TypeOK'
    BY <1>1, <1>2, <2>1, SettlesKeeps DEF ChildAcks, IInv, TypeOK
  <2>3. TasksPlaced'
    BY <1>1, <1>2 DEF ChildAcks, IInv, TasksPlaced
  <2>4. Answering'
    BY <1>1, <1>2, <2>1, SettlesKeeps, SettlesKnown, DoneAnswers DEF ChildAcks
  <2> QED
    BY <2>1, <2>2, <2>3, <2>4, SettlesKeeps DEF IInv
<1>3. CASE UNCHANGED <<tracker, state>> /\ Fail("failed")
  <2>1. Moves(Reader, "failing", thread[Reader].req, "failed")
    BY <1>3, FailMoves DEF Failures
  <2>2. TypeOK'
    BY <1>1, <1>3, <2>1 DEF ChildAcks, IInv, TypeOK, Moves
  <2>3. TasksPlaced'
    BY <2>1, ReaderPlaced DEF ChildAcks, ReaderSteps, Failures
  <2>4. Answering'
    <3>1. KnownKept /\ active' = active /\ finalized' = finalized
      BY <1>3, SameKnown DEF ChildAcks
    <3>2. \E pc, req, next : /\ Moves(Reader, pc, req, next)
                             /\ pc \notin {"claimed", "refused", "cancel", "action"}
      BY <2>1
    <3> QED
      BY <1>1, <3>1, <3>2, DoneAnswers
  <2> QED
    BY <1>3, <2>2, <2>3, <2>4, SameKeeps DEF IInv
<1> QED
  BY <1>2, <1>3 DEF ChildAcks

\* Frames and exits that move no task and touch no map.
LEMMA ChildFrameInv ==
  ASSUME IInv, (\E kind \in {"ready", "running"} : ChildFrame(kind)) \/ ChildExits
  PROVE  IInv'
<1> USE DEF run, tracker, history, child
<1>1. /\ UNCHANGED <<tracker, armed, run, thread, phase, aborted>>
      /\ state' \in SessionState /\ childAlive' \in BOOLEAN
  BY LeaveStartingTyped DEF ChildFrame, ChildExits, IInv, TypeOK
<1>2. TypeOK'
  BY <1>1 DEF IInv, TypeOK
<1>3. TasksPlaced'
  BY <1>1 DEF ChildFrame, ChildExits, At, IInv, TasksPlaced
<1>4. Answering'
  BY <1>1, SameKnown, StillAnswers
<1> QED
  BY <1>1, <1>2, <1>3, <1>4, SameKeeps DEF IInv

\* The reader goes on without touching the maps or the child's requests.
LEMMA ReaderMoves ==
  ASSUME IInv, NEW pc \in ReaderSteps \ {"idle", "read", "set"}, NEW next,
         Moves(Reader, pc, thread[Reader].req, next),
         UNCHANGED <<tracker, armed, stopRequested, phase, aborted>>,
         finalized => finalized', finalized' \in BOOLEAN, childAlive' \in BOOLEAN,
         state' \in SessionState,
         pc = "failing" => next \in Failures,
         pc \in {"ending", "clearing", "concluding"} => next \in Failures \cup {"none"},
         pc \in {"clearing", "concluding", "done"} => finalized',
         pc = "done" => state' \in FinalStates
  PROVE  IInv'
<1> USE ReaderIsTask DEF tracker, history
<1>1. TypeOK'
  BY DEF IInv, TypeOK, Moves
<1>2. TasksPlaced'
  BY ReaderPlaced
<1>3. Answering'
  BY SameKnown, QuietAnswers DEF ReaderSteps
<1> QED
  BY <1>1, <1>2, <1>3, SameKeeps DEF IInv

\* A frame the reader refuses.
LEMMA BadFrameInv ==
  ASSUME IInv, NEW f \in Failures, BadFrame(f)
  PROVE  IInv'
<1>1. Moves(Reader, "failing", thread[Reader].req, f)
  BY FailMoves DEF BadFrame
<1> QED
  BY <1>1, ReaderMoves DEF BadFrame, IInv, TypeOK, ReaderSteps, run, child

\* The reader's way to the end of the run: the failure or the end of the
\* output, the finalized flag, the emptied maps, the final state.
LEMMA ReaderStepInv ==
  ASSUME IInv, ReaderStep
  PROVE  IInv'
<1> USE ReaderIsTask DEF run, child
<1> DEFINE n == thread[Reader].next
           q == thread[Reader].req
<1>1. CASE RecordFailure
  <2>1. Moves(Reader, "ending", q, n) /\ n \in Failures
    BY <1>1, GotoMoves DEF RecordFailure, At, IInv, TasksPlaced
  <2>2. state' \in SessionState
    BY <1>1, <2>1 DEF RecordFailure, Failures, SessionState
  <2>3. "ending" \in ReaderSteps \ {"idle", "read", "set"}
    BY DEF ReaderSteps
  <2>4. /\ UNCHANGED <<tracker, armed, stopRequested, phase, aborted>>
        /\ finalized' = finalized /\ finalized \in BOOLEAN /\ childAlive' = FALSE
    BY <1>1 DEF RecordFailure, IInv, TypeOK
  <2> QED
    BY <2>1, <2>2, <2>3, <2>4, ReaderMoves
<1>2. CASE EndOfOutput
  <2>1. Moves(Reader, "ending", q, n) /\ n = "none"
    BY <1>2, GotoMoves DEF EndOfOutput, At, IInv, TasksPlaced
  <2> QED
    BY <1>2, <2>1, ReaderMoves DEF EndOfOutput, IInv, TypeOK, ReaderSteps
<1>3. CASE Finalize
  <2>1. Moves(Reader, "clearing", q, n) /\ n \in Failures \cup {"none"}
    BY <1>3, GotoMoves DEF Finalize, At, IInv, TasksPlaced
  <2> QED
    BY <1>3, <2>1, ReaderMoves DEF Finalize, IInv, TypeOK, ReaderSteps
<1>4. CASE ClearActive
  <2>1. Moves(Reader, "concluding", q, n) /\ n \in Failures \cup {"none"} /\ finalized
    BY <1>4, GotoMoves DEF ClearActive, At, IInv, TasksPlaced
  <2>2. TypeOK'
    BY <1>4, <2>1 DEF ClearActive, IInv, TypeOK, Moves, history
  <2>3. TasksPlaced'
    BY <1>4, <2>1, ReaderPlaced DEF ClearActive, ReaderSteps
  <2>4. Answering'
    BY <1>4, <2>1, QuietAnswers DEF ClearActive, KnownKept
  <2> QED
    BY <1>4, <2>2, <2>3, <2>4, ClearKeeps DEF ClearActive, IInv
<1>5. CASE Conclude
  <2>1. Moves(Reader, "done", q, n) /\ n \in Failures \cup {"none"} /\ finalized
    BY <1>5, GotoMoves DEF Conclude, At, IInv, TasksPlaced
  <2>2. state' \in FinalStates
    BY <1>5, <2>1 DEF Conclude, FinalStates, Failures
  <2>3. state' \in SessionState
    BY <2>2 DEF FinalStates, SessionState
  <2>4. "done" \in ReaderSteps \ {"idle", "read", "set"}
    BY DEF ReaderSteps
  <2>5. /\ UNCHANGED <<tracker, armed, stopRequested, phase, aborted>>
        /\ finalized' = finalized /\ childAlive' = childAlive
        /\ finalized \in BOOLEAN /\ childAlive \in BOOLEAN
    BY <1>5 DEF Conclude, IInv, TypeOK
  <2> QED
    BY <2>1, <2>2, <2>3, <2>4, <2>5, ReaderMoves
<1> QED
  BY <1>1, <1>2, <1>3, <1>4, <1>5 DEF ReaderStep

-----------------------------------------------------------------------------
\* A run starts with an empty tracker and idle tasks.
LEMMA InitInv == Init => IInv
<1> SUFFICES ASSUME Init PROVE IInv
  OBVIOUS
<1> USE ReaderIsTask, PendingAssumption DEF Init
<1>1. TypeOK
  <2>1. Idle \in ThreadState
    BY DEF ThreadState, Idle
  <2>2. <<>> \in Seq(Requests) /\ "starting" \in SessionState
    BY DEF SessionState
  <2> QED
    BY <2>1, <2>2 DEF TypeOK
<1>2. MapsDisjoint
  BY DEF MapsDisjoint, OpenOnce, Open
<1>3. QueueSound
  BY DEF QueueSound, HistoryMatches
<1>4. OpenBounded
  BY FS_EmptySet DEF OpenBounded
<1>5. TasksPlaced
  BY DEF TasksPlaced, Idle, Carriers, ReaderSteps
<1>6. Answering
  BY DEF Answering, AnsweredOnce, ReportRecognised, Writing, Idle
<1> QED
  BY <1>1, <1>2, <1>3, <1>4, <1>5, <1>6 DEF IInv, Ledger

\* Every step of every task keeps the invariant.
LEMMA StepInv == IInv /\ [Next]_vars => IInv'
<1> SUFFICES ASSUME IInv, [Next]_vars PROVE IInv'
  OBVIOUS
<1>1. CASE UNCHANGED vars
  <2> USE <1>1 DEF vars, tracker, history, run, child
  <2>1. TypeOK'
    BY DEF IInv, TypeOK
  <2>2. TasksPlaced'
    BY DEF IInv, TasksPlaced
  <2>3. Answering'
    BY SameKnown, StillAnswers
  <2> QED
    BY <2>1, <2>2, <2>3, SameKeeps DEF IInv
<1>2. ASSUME NEW r \in Responders,
             \/ \E k \in Requests : Claim(r, k) \/ SendAction(r, k)
             \/ ResponderStep(r) \/ Stop(r) \/ Abort(r)
      PROVE  IInv'
  BY <1>2, ClaimInv, SendActionInv, WriteInv, WriteRefusedInv, OutcomeInv, RestorePendingInv,
     WriteActionInv, ForceResolveInv, StopInv, AbortInv DEF ResponderStep
<1>3. ASSUME NEW t \in Threads, ExpiryStep(t) \/ WaitingStep(t)
      PROVE  IInv'
  BY <1>3, ExpireInv, WriteCancelInv, ReadWaitingInv, ApplyStateInv DEF ExpiryStep, WaitingStep
<1> QED
  BY <1>1, <1>2, <1>3, DeadlinePassesInv, TimerFiresInv, ChildAsksInv, ChildReportsInv,
     ChildAcksInv, ChildFrameInv, BadFrameInv, ReaderStepInv DEF Next, Failures

\* The invariant is one, however the tasks interleave, are aborted or time out.
THEOREM Invariance == Spec => []IInv
BY InitInv, StepInv, PTL DEF Spec

-----------------------------------------------------------------------------
(* The properties.                                                         *)

\* The five collections of PendingTracker stay consistent and within
\* pending_requests (fake_session.rs).
THEOREM TrackerIsConsistent == Spec => []TrackerConsistent
<1>1. IInv => TrackerConsistent
  BY DEF IInv, Ledger, MapsDisjoint, QueueSound, OpenBounded, WithinCapacity, TrackerConsistent
<1> QED
  BY <1>1, Invariance, PTL

\* No request is answered twice: claims, cancels and retries never both reach
\* the child ("single-use" in respond_permission's doc comment).
THEOREM SingleUse == Spec => []AnsweredOnce
<1>1. IInv => AnsweredOnce
  BY DEF IInv, Answering
<1> QED
  BY <1>1, Invariance, PTL

\* confirm_resolved knows every report a child owes while its run lives, up to
\* the outcomes that fell out of the history.
THEOREM ReportsAreRecognised == Spec => []ReportRecognised
<1>1. IInv => ReportRecognised
  BY DEF IInv, Answering
<1> QED
  BY <1>1, Invariance, PTL

\* No late task replaces the state finalize_run has stored.
THEOREM FinalStateKept == Spec => FinalStateSticks
<1>1. ASSUME IInv, [Next]_vars PROVE [At(Reader, "done") => state' = state]_vars
  <2> SUFFICES ASSUME At(Reader, "done"), Next PROVE state' = state
    BY <1>1
  <2> USE <1>1
  <2>1. ASSUME NEW r \in Responders,
               \/ \E k \in Requests : Claim(r, k) \/ SendAction(r, k)
               \/ ResponderStep(r) \/ Stop(r) \/ Abort(r)
        PROVE  state' = state
    BY <2>1 DEF Claim, SendAction, ResponderStep, WriteDelivered, WriteUncertain, WriteRefused,
       CompletePending, MarkUncertain, RestorePending, WriteAction, ForceResolve, Stop, Abort
  <2>2. ASSUME NEW t \in Threads, ExpiryStep(t) \/ WaitingStep(t)
        PROVE  state' = state
    BY <2>2, ApplyStateInv DEF ExpiryStep, WaitingStep, Expire, WriteCancel, ReadWaiting
  <2>3. ASSUME NEW k \in Requests, DeadlinePasses(k) \/ \E e \in Expirers : TimerFires(e, k)
        PROVE  state' = state
    BY <2>3 DEF DeadlinePasses, TimerFires
  <2> QED
    BY <2>1, <2>2, <2>3 DEF Next, At, ChildAsks, ChildReports, ChildAcks, ChildFrame, BadFrame,
       ChildExits, ReaderStep, RecordFailure, EndOfOutput, Finalize, ClearActive, Conclude
<1> QED
  BY <1>1, Invariance, PTL DEF Spec, FinalStateSticks
=============================================================================
