-------------------------- MODULE PendingRequests --------------------------
(***************************************************************************)
(* The requests one structured run leaves open: permission and user-input  *)
(* requests asked by the child, GUI actions sent to it.  The tracker of    *)
(* the run (PendingTracker) is shared by                                   *)
(*   - Responders: IPC request tasks that deliver an answer, send a GUI    *)
(*     action or stop the run, and may be aborted at any await;            *)
(*   - Expirers: the timer tasks started by register_pending;              *)
(*   - Reader: the task of supervise_run, which reads the child's frames   *)
(*     and finalizes the run.                                              *)
(* Every step of a task between two lock acquisitions is one action.       *)
(***************************************************************************)
EXTENDS Integers, Sequences, FiniteSets, SessionStates

CONSTANTS Requests,       \* the (id, kind) pairs that can be used
          IdOf, KindOf,   \* their identifier and their PendingKind
          Responders, Expirers, Reader, NoRequest,
          Capacity        \* limits.pending_requests

Kinds == {"permission", "user_input", "gui_action"}

ASSUME PendingAssumption ==
  /\ DOMAIN IdOf = Requests
  /\ KindOf \in [Requests -> Kinds]
  /\ NoRequest \notin Requests
  /\ Capacity \in Nat \ {0}
  /\ Responders \cap Expirers = {}
  /\ Reader \notin Responders \cup Expirers

Threads == Responders \cup Expirers \cup {Reader}

VARIABLES active, inFlight,     \* open requests, and those being answered
          overdue,              \* the entries whose deadline has passed
          resolved, uncertain,  \* remembered outcomes ...
          order,                \* ... and the order they were learnt in
          armed,                \* the timers still asleep
          state,                \* SessionData.state
          finalized, stopRequested,
          thread,               \* where each task is
          childAlive, phase,    \* the child, and what it is doing about a request
          forgotten,            \* history: outcomes that fell out of the order
          aborted               \* history: requests whose task was aborted

history == <<resolved, uncertain, order, forgotten>>
tracker == <<active, inFlight, overdue, history>>
child   == <<childAlive, phase>>
run     == <<finalized, stopRequested>>
vars == <<tracker, armed, state, run, thread, child, aborted>>

Open == active \cup inFlight
Idle == [pc |-> "idle", req |-> NoRequest, next |-> "none"]

Init ==
  /\ active = {} /\ inFlight = {} /\ resolved = {} /\ uncertain = {}
  /\ order = <<>> /\ forgotten = {}
  /\ overdue = {} /\ armed = {}
  /\ state = "starting"
  /\ finalized = FALSE /\ stopRequested = FALSE
  /\ thread = [t \in Threads |-> Idle]
  /\ childAlive = TRUE
  /\ phase = [k \in Requests |-> "fresh"]
  /\ aborted = {}

-----------------------------------------------------------------------------
(* PendingTracker *)

WaitingState ==
  IF \E k \in Open : KindOf[k] = "permission" THEN "awaiting_permission"
  ELSE IF \E k \in Open : KindOf[k] = "user_input" THEN "awaiting_user_input"
  ELSE "running"

\* Mutant of CanRegister: the capacity test admits one request too many.
CanRegisterOneMore(k) ==
  /\ Cardinality(active) + Cardinality(inFlight) <= Capacity
  /\ \A o \in Open : IdOf[o] # IdOf[k]
  /\ k \notin resolved \cup uncertain

CanRegister(k) ==
  /\ Cardinality(active) + Cardinality(inFlight) < Capacity
  /\ \A o \in Open : IdOf[o] # IdOf[k]
  /\ k \notin resolved \cup uncertain

\* register, and the timer register_pending starts.  From here on the child
\* waits for (or is about to be sent) what k is about.
Register(k) ==
  /\ active' = active \cup {k}
  /\ armed' = armed \cup {k}
  /\ forgotten' = forgotten \ {k}
  /\ aborted' = aborted \ {k}
  /\ phase' = [phase EXCEPT ![k] = "waiting"]
  /\ UNCHANGED <<inFlight, overdue, resolved, uncertain, order, childAlive>>

\* The bounded FIFO behind remember_resolved and remember_delivery_uncertain.
\* It holds at most Capacity entries beforehand, so the eviction loop turns at
\* most once.
Pushed(k, known) == IF k \in known THEN order ELSE Append(order, k)
Kept(s) == IF Len(s) > Capacity THEN Tail(s) ELSE s
Evicted(s) == IF Len(s) > Capacity THEN {Head(s)} ELSE {}

RememberResolved(k) ==
  LET s == Pushed(k, resolved)
  IN  /\ order' = Kept(s)
      /\ resolved' = (resolved \cup {k}) \ Evicted(s)
      /\ uncertain' = uncertain \ Evicted(s)
      /\ forgotten' = forgotten \cup Evicted(s)
      /\ overdue' = overdue \ {k}

RememberUncertain(k) ==
  LET s == Pushed(k, uncertain)
  IN  /\ order' = Kept(s)
      /\ resolved' = resolved \ Evicted(s)
      /\ uncertain' = (uncertain \cup {k}) \ Evicted(s)
      /\ forgotten' = forgotten \cup Evicted(s)
      /\ overdue' = overdue \ {k}

Goto(t, pc) == thread' = [thread EXCEPT ![t].pc = pc]
Update(t) == thread' = [thread EXCEPT ![t].pc = "read", ![t].req = NoRequest]
Rest(t) == thread' = [thread EXCEPT ![t] = Idle]
At(t, pc) == thread[t].pc = pc

\* The child reads an answer to k, and owes a report; a second answer to the
\* same request is remembered as such.
Deliver(k) ==
  /\ phase' = [phase EXCEPT ![k] = IF @ = "waiting" THEN "owing" ELSE "twice"]
  /\ UNCHANGED childAlive

AcceptsInput == ~finalized /\ ~stopRequested

-----------------------------------------------------------------------------
(* deliver_pending_response *)

\* Mutant of Claim: the entry is copied to in_flight instead of moved.
ClaimCopied(r, k) ==
  /\ At(r, "idle")
  /\ KindOf[k] # "gui_action"
  /\ k \in active /\ k \notin overdue
  /\ inFlight' = inFlight \cup {k}
  /\ thread' = [thread EXCEPT ![r] = [Idle EXCEPT !.pc = "claimed", !.req = k]]
  /\ UNCHANGED <<active, overdue, history, armed, state, run, child, aborted>>

\* claim_pending: the request leaves active, so nobody else can answer it.
Claim(r, k) ==
  /\ At(r, "idle")
  /\ KindOf[k] # "gui_action"
  /\ k \in active /\ k \notin overdue
  /\ active' = active \ {k}
  /\ inFlight' = inFlight \cup {k}
  /\ thread' = [thread EXCEPT ![r] = [Idle EXCEPT !.pc = "claimed", !.req = k]]
  /\ UNCHANGED <<overdue, history, armed, state, run, child, aborted>>

WriteDelivered(r) ==
  /\ At(r, "claimed") /\ AcceptsInput /\ childAlive
  /\ Deliver(thread[r].req)
  /\ Goto(r, "written")
  /\ UNCHANGED <<tracker, armed, state, run, aborted>>

\* A failed write may or may not have reached the child.
WriteUncertain(r) ==
  /\ At(r, "claimed") /\ AcceptsInput
  /\ \/ childAlive /\ Deliver(thread[r].req)
     \/ UNCHANGED child
  /\ Goto(r, "unsure")
  /\ UNCHANGED <<tracker, armed, state, run, aborted>>

\* The value does not fit, or the run no longer accepts input.
WriteRefused(r) ==
  /\ At(r, "claimed")
  /\ Goto(r, "refused")
  /\ UNCHANGED <<tracker, armed, state, run, child, aborted>>

\* resolve_in_flight; without an in-flight entry the task returns its error.
CompletePending(r) ==
  LET k == thread[r].req IN
  /\ At(r, "written")
  /\ \/ /\ k \in resolved
        /\ Update(r) /\ UNCHANGED tracker
     \/ /\ k \notin resolved /\ k \in inFlight
        /\ inFlight' = inFlight \ {k} /\ RememberResolved(k)
        /\ Update(r) /\ UNCHANGED active
     \/ /\ k \notin resolved /\ k \notin inFlight
        /\ Rest(r) /\ UNCHANGED tracker
  /\ UNCHANGED <<armed, state, run, child, aborted>>

\* Mutant of MarkUncertain: the uncertain delivery is dropped, not remembered.
MarkUncertainForgets(r) ==
  LET k == thread[r].req IN
  /\ At(r, "unsure")
  /\ inFlight' = inFlight \ {k}
  /\ Update(r)
  /\ UNCHANGED <<active, overdue, history, armed, state, run, child, aborted>>

MarkUncertain(r) ==
  LET k == thread[r].req IN
  /\ At(r, "unsure")
  /\ \/ /\ k \notin resolved /\ k \in inFlight
        /\ inFlight' = inFlight \ {k} /\ RememberUncertain(k)
        /\ UNCHANGED active
     \/ /\ k \in resolved \/ k \notin inFlight
        /\ UNCHANGED tracker
  /\ Update(r)
  /\ UNCHANGED <<armed, state, run, child, aborted>>

\* Mutant of RestorePending: the request is restored, its expiry not retried.
RestoreOnly(r) ==
  LET k == thread[r].req IN
  /\ At(r, "refused")
  /\ inFlight' = inFlight \ {k}
  /\ active' = active \cup ({k} \cap inFlight)
  /\ Rest(r)
  /\ UNCHANGED <<overdue, history, armed, state, run, child, aborted>>

\* restore_in_flight, then expire_request: the timer may have fired meanwhile.
RestorePending(r) ==
  LET k == thread[r].req IN
  /\ At(r, "refused")
  /\ \/ /\ k \in inFlight
        /\ inFlight' = inFlight \ {k} /\ active' = active \cup {k}
        /\ IF finalized THEN Rest(r) ELSE Goto(r, "expire")
     \/ /\ k \notin inFlight
        /\ Rest(r) /\ UNCHANGED <<active, inFlight>>
  /\ UNCHANGED <<overdue, history, armed, state, run, child, aborted>>

-----------------------------------------------------------------------------
(* Timers and expire_request *)

DeadlinePasses(k) ==
  /\ k \in Open /\ k \notin overdue
  /\ overdue' = overdue \cup {k}
  /\ UNCHANGED <<active, inFlight, history, armed, state, run, thread, child, aborted>>

\* The sleep ends and expire_request loads finalized.  A timer whose request
\* has settled finds no active entry and is left out.
TimerFires(e, k) ==
  /\ At(e, "idle")
  /\ k \in armed /\ k \in overdue
  /\ armed' = armed \ {k}
  /\ thread' = IF finalized THEN thread
               ELSE [thread EXCEPT ![e] = [Idle EXCEPT !.pc = "expire", !.req = k]]
  /\ UNCHANGED <<tracker, state, run, child, aborted>>

\* Mutant of Expire: a request somebody is answering expires as well.
ExpireInFlight(t) ==
  LET k == thread[t].req IN
  /\ At(t, "expire")
  /\ \/ /\ k \in Open /\ k \in overdue
        /\ active' = active \ {k} /\ inFlight' = inFlight \ {k}
        /\ RememberResolved(k)
        /\ IF KindOf[k] = "gui_action" THEN Update(t) ELSE Goto(t, "cancel")
     \/ /\ k \notin Open \/ k \notin overdue
        /\ Rest(t) /\ UNCHANGED tracker
  /\ UNCHANGED <<armed, state, run, child, aborted>>

Expire(t) ==
  LET k == thread[t].req IN
  /\ At(t, "expire")
  /\ \/ /\ k \in active /\ k \in overdue
        /\ active' = active \ {k} /\ RememberResolved(k)
        /\ UNCHANGED inFlight
        /\ IF KindOf[k] = "gui_action" THEN Update(t) ELSE Goto(t, "cancel")
     \/ /\ k \notin active \/ k \notin overdue
        /\ Rest(t) /\ UNCHANGED tracker
  /\ UNCHANGED <<armed, state, run, child, aborted>>

\* The child is told "cancel" or null; a failed write is ignored.
WriteCancel(t) ==
  /\ At(t, "cancel")
  /\ \/ AcceptsInput /\ childAlive /\ Deliver(thread[t].req)
     \/ UNCHANGED child
  /\ Update(t)
  /\ UNCHANGED <<tracker, armed, state, run, aborted>>

-----------------------------------------------------------------------------
(* update_waiting_state: the tracker is read under one lock, the state set  *)
(* under another.                                                           *)

ReadWaiting(t) ==
  /\ At(t, "read")
  /\ thread' = [thread EXCEPT ![t].pc = "set", ![t].next = WaitingState]
  /\ UNCHANGED <<tracker, armed, state, run, child, aborted>>

\* Mutant of ApplyState: set_state stores its target without validating the move.
ApplyUnchecked(t) ==
  /\ At(t, "set")
  /\ state' = thread[t].next
  /\ Rest(t)
  /\ UNCHANGED <<tracker, armed, run, child, aborted>>

ApplyState(t) ==
  /\ At(t, "set")
  /\ state' = SetState(state, thread[t].next)
  /\ Rest(t)
  /\ UNCHANGED <<tracker, armed, run, child, aborted>>

-----------------------------------------------------------------------------
(* send_gui_action and stop *)

\* Action ids are fresh UUIDs: a reused element stands for a new one, so no
\* task may still hold it.
SendAction(r, k) ==
  /\ At(r, "idle")
  /\ KindOf[k] = "gui_action"
  /\ phase[k] = "fresh" /\ \A t \in Threads : thread[t].req # k
  /\ CanRegister(k) /\ Register(k)
  /\ thread' = [thread EXCEPT ![r] = [Idle EXCEPT !.pc = "action", !.req = k]]
  /\ UNCHANGED <<state, run>>

\* A write error is answered with force_resolve even when the bytes got through.
WriteAction(r) ==
  /\ At(r, "action")
  /\ \/ AcceptsInput /\ childAlive /\ Deliver(thread[r].req) /\ Rest(r)
     \/ /\ \/ AcceptsInput /\ childAlive /\ Deliver(thread[r].req)
           \/ UNCHANGED child
        /\ Goto(r, "force")
  /\ UNCHANGED <<tracker, armed, state, run, aborted>>

ForceResolve(r) ==
  LET k == thread[r].req IN
  /\ At(r, "force")
  /\ \/ /\ k \in active
        /\ active' = active \ {k} /\ RememberResolved(k) /\ UNCHANGED inFlight
     \/ /\ k \notin active /\ UNCHANGED tracker
  /\ Rest(r)
  /\ UNCHANGED <<armed, state, run, child, aborted>>

\* stop sets its flag and moves to Interrupting; the termination it then waits
\* for is ChildExits.
Stop(r) ==
  /\ At(r, "idle") /\ ~finalized /\ ~stopRequested
  /\ stopRequested' = TRUE
  /\ thread' = [thread EXCEPT ![r].pc = "set", ![r].next = "interrupting"]
  /\ UNCHANGED <<tracker, armed, state, finalized, child, aborted>>

\* A failed read or write on its connection aborts the request task.
Abort(r) ==
  /\ ~At(r, "idle")
  /\ aborted' = aborted \cup ({thread[r].req} \cap Open)
  /\ Rest(r)
  /\ UNCHANGED <<tracker, armed, state, run, child>>

-----------------------------------------------------------------------------
(* handle_frame and the end of supervise_run.  The child is a well-behaved  *)
(* fixture: it reports on requests it got an answer for, and does not reuse *)
(* an identifier it is still busy with; BadFrame is everything else.        *)

Fail(failure) ==
  thread' = [thread EXCEPT ![Reader].pc = "failing", ![Reader].next = failure]

ChildAsks(k) ==
  /\ At(Reader, "idle") /\ childAlive
  /\ KindOf[k] # "gui_action" /\ phase[k] = "fresh"
  /\ \/ /\ CanRegister(k) /\ Register(k)
        /\ thread' = [thread EXCEPT ![Reader].pc = "set", ![Reader].next =
             IF KindOf[k] = "permission" THEN "awaiting_permission"
                                         ELSE "awaiting_user_input"]
     \/ /\ ~CanRegister(k) /\ Fail("failed")
        /\ UNCHANGED <<tracker, armed, child, aborted>>
  /\ UNCHANGED <<state, run>>

\* confirm_resolved
ChildReports(k) ==
  /\ At(Reader, "idle") /\ childAlive
  /\ KindOf[k] # "gui_action" /\ phase[k] = "owing"
  /\ \/ /\ k \in resolved /\ UNCHANGED tracker /\ Update(Reader)
     \/ /\ k \in uncertain \ resolved
        /\ uncertain' = uncertain \ {k} /\ resolved' = resolved \cup {k}
        /\ UNCHANGED <<active, inFlight, overdue, order, forgotten>>
        /\ Update(Reader)
     \/ /\ k \in inFlight \ (resolved \cup uncertain)
        /\ inFlight' = inFlight \ {k} /\ RememberResolved(k)
        /\ UNCHANGED active /\ Update(Reader)
     \/ /\ k \notin resolved \cup uncertain \cup inFlight
        /\ UNCHANGED tracker /\ Fail("failed")
  /\ phase' = [phase EXCEPT ![k] = "fresh"]
  /\ UNCHANGED <<armed, state, run, childAlive, aborted>>

\* The end of handle_frame: any frame but "ready" takes Starting to Running.
LeaveStarting(kind) == IF state = "starting" THEN SetState(state, kind) ELSE state

\* action_ack: resolve_active refuses an action that already expired.
ChildAcks(k) ==
  /\ At(Reader, "idle") /\ childAlive
  /\ KindOf[k] = "gui_action" /\ phase[k] = "owing"
  /\ \/ /\ k \in active /\ k \notin overdue
        /\ active' = active \ {k} /\ RememberResolved(k)
        /\ state' = LeaveStarting("running")
        /\ UNCHANGED <<inFlight, thread>>
     \/ /\ k \notin active \/ k \in overdue
        /\ UNCHANGED <<tracker, state>> /\ Fail("failed")
  /\ phase' = [phase EXCEPT ![k] = "fresh"]
  /\ UNCHANGED <<armed, run, childAlive, aborted>>

\* The frames that leave the tracker alone.
ChildFrame(kind) ==
  /\ At(Reader, "idle") /\ childAlive
  /\ state' = LeaveStarting(kind)
  /\ UNCHANGED <<tracker, armed, run, thread, child, aborted>>

BadFrame(failure) ==
  /\ At(Reader, "idle") /\ childAlive
  /\ Fail(failure)
  /\ UNCHANGED <<tracker, armed, state, run, child, aborted>>

\* record_protocol_failure, then terminate.
RecordFailure ==
  /\ At(Reader, "failing")
  /\ state' = thread[Reader].next
  /\ childAlive' = FALSE
  /\ Goto(Reader, "ending")
  /\ UNCHANGED <<tracker, armed, run, phase, aborted>>

ChildExits ==
  /\ childAlive
  /\ childAlive' = FALSE
  /\ UNCHANGED <<tracker, armed, state, run, thread, phase, aborted>>

EndOfOutput ==
  /\ At(Reader, "idle") /\ ~childAlive
  /\ Goto(Reader, "ending")
  /\ UNCHANGED <<tracker, armed, state, run, child, aborted>>

\* finalize_run, at its three locks.
Finalize ==
  /\ At(Reader, "ending")
  /\ finalized' = TRUE
  /\ Goto(Reader, "clearing")
  /\ UNCHANGED <<tracker, armed, state, stopRequested, child, aborted>>

ClearActive ==
  /\ At(Reader, "clearing")
  /\ active' = {} /\ inFlight' = {} /\ overdue' = {}
  /\ Goto(Reader, "concluding")
  /\ UNCHANGED <<history, armed, state, run, child, aborted>>

\* Mutant of Conclude: the completion is stored without being classified.
ConcludeUnclassified ==
  /\ At(Reader, "concluding")
  /\ state' = thread[Reader].next
  /\ Goto(Reader, "done")
  /\ UNCHANGED <<tracker, armed, run, child, aborted>>

Conclude ==
  /\ At(Reader, "concluding")
  /\ state' \in CASE stopRequested                  -> {"stopped"}
                   [] thread[Reader].next # "none"   -> {thread[Reader].next}
                   [] OTHER                          -> {"completed", "failed"}
  /\ Goto(Reader, "done")
  /\ UNCHANGED <<tracker, armed, run, child, aborted>>

-----------------------------------------------------------------------------
ResponderStep(r) ==
  \/ WriteDelivered(r) \/ WriteUncertain(r) \/ WriteRefused(r)
  \/ CompletePending(r) \/ MarkUncertain(r) \/ RestorePending(r)
  \/ WriteAction(r) \/ ForceResolve(r)

ExpiryStep(t) == Expire(t) \/ WriteCancel(t)
WaitingStep(t) == ReadWaiting(t) \/ ApplyState(t)

ReaderStep == RecordFailure \/ EndOfOutput \/ Finalize \/ ClearActive \/ Conclude

Next ==
  \/ \E r \in Responders :
       \/ \E k \in Requests : Claim(r, k) \/ SendAction(r, k)
       \/ ResponderStep(r) \/ Stop(r) \/ Abort(r)
  \/ \E k \in Requests : DeadlinePasses(k)
  \/ \E e \in Expirers, k \in Requests : TimerFires(e, k)
  \/ \E t \in Threads : ExpiryStep(t) \/ WaitingStep(t)
  \/ \E k \in Requests : ChildAsks(k) \/ ChildReports(k) \/ ChildAcks(k)
  \/ \E kind \in {"ready", "running"} : ChildFrame(kind)
  \/ \E f \in {"failed", "incompatible"} : BadFrame(f)
  \/ ChildExits
  \/ ReaderStep

Spec == Init /\ [][Next]_vars

\* The daemon's tasks are polled, its clock advances and its sleeps end; a
\* user need not answer and a child need not speak.
Fairness ==
  /\ \A r \in Responders : WF_vars(ResponderStep(r))
  /\ \A t \in Threads : WF_vars(ExpiryStep(t)) /\ WF_vars(WaitingStep(t))
  /\ \A k \in Requests : WF_vars(DeadlinePasses(k))
  /\ \A k \in Requests : WF_vars(\E e \in Expirers : TimerFires(e, k))
  /\ WF_vars(ReaderStep)

FairSpec == Spec /\ Fairness
-----------------------------------------------------------------------------
(* Properties *)

ThreadState ==
  [pc : {"idle", "claimed", "written", "unsure", "refused", "expire", "cancel",
         "read", "set", "action", "force", "failing", "ending", "clearing",
         "concluding", "done"},
   req : Requests \cup {NoRequest},
   next : SessionState \cup {"none"}]

\* Every variable has its type.
TypeOK ==
  /\ active \subseteq Requests /\ inFlight \subseteq Requests
  /\ resolved \subseteq Requests /\ uncertain \subseteq Requests
  /\ order \in Seq(Requests) /\ forgotten \subseteq Requests
  /\ overdue \subseteq Requests /\ armed \subseteq Requests
  /\ state \in SessionState
  /\ finalized \in BOOLEAN /\ stopRequested \in BOOLEAN
  /\ thread \in [Threads -> ThreadState]
  /\ childAlive \in BOOLEAN
  /\ phase \in [Requests -> {"fresh", "waiting", "owing", "twice"}]
  /\ aborted \subseteq Requests

\* The tracker's maps stay consistent through every interleaving of claims,
\* restores, expiries and reports: an identifier is open at most once and in
\* one map, an open request has no remembered outcome, an outcome is either
\* resolved or uncertain, the eviction queue lists exactly the remembered
\* outcomes, each once, and pending_requests bounds both the open requests and
\* the outcomes, also after a refused delivery moved a request back to active
\* (PendingTracker's five collections).  Every variable keeps its type.
OpenOnce == \A j, k \in Open : IdOf[j] = IdOf[k] => j = k
HistoryMatches ==
  /\ {order[i] : i \in 1..Len(order)} = resolved \cup uncertain
  /\ \A i, j \in 1..Len(order) : order[i] = order[j] => i = j
WithinCapacity ==
  /\ Cardinality(active) + Cardinality(inFlight) <= Capacity
  /\ Len(order) <= Capacity
TrackerConsistent ==
  /\ TypeOK
  /\ OpenOnce
  /\ active \cap inFlight = {}
  /\ Open \cap (resolved \cup uncertain) = {}
  /\ resolved \cap uncertain = {}
  /\ HistoryMatches
  /\ WithinCapacity

\* A request is answered at most once ("single-use" in respond_permission's
\* doc comment): two users, a user and the timer's cancel, a restored request
\* and a retry never both reach the child.
AnsweredOnce == \A k \in Requests : phase[k] # "twice"

\* While the run lives, the result a child owes for an answer it got is
\* recognised by confirm_resolved, whichever of the writer's bookkeeping, the
\* timer and the report comes first; the one exception is an outcome pushed
\* out of the history by Capacity later ones.
ReportRecognised ==
  \A k \in Requests :
    (phase[k] = "owing" /\ KindOf[k] # "gui_action" /\ ~finalized)
      => k \in inFlight \cup resolved \cup uncertain \cup forgotten

\* Once finalize_run has stored the final state, no task still on its way to
\* set_state (a late responder, timer or stop) moves the session out of it.
FinalStateSticks == [][At(Reader, "done") => state' = state]_vars

\* An open request does not stay open: it is answered, reported, cancelled at
\* its deadline or cleared with the run, unless its request task was aborted
\* between claim_pending and the end of the delivery.
RequestsSettle ==
  \A k \in Requests :
    k \in Open ~> (k \notin Open \/ k \in aborted \/ finalized)

\* A session with an open permission or user-input request shows that it needs
\* attention whenever no task is about to update its state.
AttentionShown ==
  (/\ \A t \in Threads : thread[t].pc \notin {"read", "set", "cancel"}
   /\ At(Reader, "idle") /\ ~stopRequested
   /\ \E k \in Open : KindOf[k] # "gui_action")
  => state \in {"awaiting_permission", "awaiting_user_input"}
=============================================================================
