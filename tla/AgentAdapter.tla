---------------------------- MODULE AgentAdapter ----------------------------
(***************************************************************************)
(* The reference implementation of the adapter contract                    *)
(* (maestro-adapter/src/fake.rs): structured sessions and TUI plans claim  *)
(* the vendor binding they write to, answer two single-use requests and    *)
(* queue events.  Every method holds the lock of the session's state;      *)
(* stop_run gives it up before it returns the claim.  A refused call       *)
(* changes nothing and is no step.  Only the kind of an event is kept; the *)
(* fixture's clock stands still, so no request expires.                    *)
(***************************************************************************)
EXTENDS Naturals, Sequences

CONSTANTS Runs,           \* process runs; a run is launched at most once
          Bindings,       \* vendor session ids
          NoRun,          \* no claim on a binding
          NoBinding,      \* a TUI launched without a binding
          MaxOperations   \* bound on the events queued by operations

VARIABLES
  claims,      \* binding_claims
  handle,      \* per run: the session or the TUI plan its caller owns
  releasing,   \* per run: stop_run calls that are about to return the claim
  events,      \* per run: FakeSessionState.events
  taken,       \* per run: what next_event returned
  answered,    \* per run: requests in DeliveryState::Resolved
  operations   \* events queued by operations so far

vars == <<claims, handle, releasing, events, taken, answered, operations>>

RequestKinds == {"permission", "user_input"}
Unused == [kind |-> "none", binding |-> NoBinding, stopped |-> FALSE]

Init ==
  /\ claims = [b \in Bindings |-> NoRun]
  /\ handle = [r \in Runs |-> Unused]
  /\ releasing = [r \in Runs |-> 0]
  /\ events = [r \in Runs |-> <<>>]
  /\ taken = [r \in Runs |-> <<>>]
  /\ answered = [r \in Runs |-> {}]
  /\ operations = 0

-----------------------------------------------------------------------------
(* Claims.                                                                 *)

ClaimBinding(b, r) ==
  /\ claims[b] = NoRun
  /\ claims' = [claims EXCEPT ![b] = r]

\* A slip: whoever lets go of a binding frees it.
ReleaseBlindly(b, r) ==
  claims' = IF b = NoBinding THEN claims ELSE [claims EXCEPT ![b] = NoRun]

\* Only the run that holds the claim returns it.
ReleaseBindingClaim(b, r) ==
  claims' = IF b # NoBinding /\ claims[b] = r
            THEN [claims EXCEPT ![b] = NoRun] ELSE claims

-----------------------------------------------------------------------------
(* Launches.                                                               *)

\* start_session with the binding of its session id, resume_session with the
\* caller's: both claim it and queue the ready event.
Session(r, b) ==
  /\ handle[r].kind = "none"
  /\ ClaimBinding(b, r)
  /\ handle' = [handle EXCEPT ![r] = [kind |-> "session", binding |-> b, stopped |-> FALSE]]
  /\ events' = [events EXCEPT ![r] = <<"ready">>]
  /\ UNCHANGED <<releasing, taken, answered, operations>>

\* A TUI plan holds a lease when it continues a binding.
LaunchTui(r) ==
  /\ handle[r].kind = "none"
  /\ \E b \in Bindings \cup {NoBinding} :
       /\ IF b = NoBinding THEN UNCHANGED claims ELSE ClaimBinding(b, r)
       /\ handle' = [handle EXCEPT ![r] = [kind |-> "tui", binding |-> b, stopped |-> FALSE]]
  /\ UNCHANGED <<releasing, events, taken, answered, operations>>

-----------------------------------------------------------------------------
(* Operations of a session.                                                *)

EnsureOpen(r) == handle[r].kind = "session" /\ ~handle[r].stopped

Operation(r, queued) ==
  /\ EnsureOpen(r)
  /\ operations < MaxOperations /\ operations' = operations + 1
  /\ events' = [events EXCEPT ![r] = @ \o queued]
  /\ UNCHANGED <<claims, handle, releasing, taken>>

SendTurn(r) == Operation(r, <<"console", "accepted">>) /\ UNCHANGED answered

\* steer_or_follow_up, interrupt, invoke_feature of an invokable capability.
Annotate(r) == Operation(r, <<"console">>) /\ UNCHANGED answered

\* resolve_permission and respond_user_input with the request's own context;
\* the claim and its confirmation are made under one lock.
Resolve(r) ==
  \E k \in RequestKinds \ answered[r] :
    /\ Operation(r, <<k>>)
    /\ answered' = [answered EXCEPT ![r] = @ \cup {k}]

NextEvent(r) ==
  /\ handle[r].kind = "session" /\ events[r] # <<>>
  /\ taken' = [taken EXCEPT ![r] = Append(@, Head(events[r]))]
  /\ events' = [events EXCEPT ![r] = Tail(@)]
  /\ UNCHANGED <<claims, handle, releasing, answered, operations>>

\* stop_run may be called again, and by two tasks at once.
StopBegins(r) ==
  /\ handle[r].kind = "session" /\ releasing[r] < 2
  /\ handle' = [handle EXCEPT ![r].stopped = TRUE]
  /\ events' = IF handle[r].stopped THEN events ELSE [events EXCEPT ![r] = Append(@, "stopped")]
  /\ releasing' = [releasing EXCEPT ![r] = @ + 1]
  /\ UNCHANGED <<claims, taken, answered, operations>>

StopReleases(r) ==
  /\ releasing[r] > 0
  /\ ReleaseBindingClaim(handle[r].binding, r)
  /\ releasing' = [releasing EXCEPT ![r] = @ - 1]
  /\ UNCHANGED <<handle, events, taken, answered, operations>>

\* FakeAdapterSession and FakeBindingLease return the claim when they are
\* dropped; nobody can be inside a method then.
Drop(r) ==
  /\ handle[r].kind \in {"session", "tui"} /\ releasing[r] = 0
  /\ ReleaseBindingClaim(handle[r].binding, r)
  /\ handle' = [handle EXCEPT ![r].kind = "dropped"]
  /\ UNCHANGED <<releasing, events, taken, answered, operations>>

Next ==
  \E r \in Runs :
    \/ \E b \in Bindings : Session(r, b)
    \/ LaunchTui(r)
    \/ SendTurn(r)
    \/ Annotate(r)
    \/ Resolve(r)
    \/ NextEvent(r)
    \/ StopBegins(r)
    \/ StopReleases(r)
    \/ Drop(r)

-----------------------------------------------------------------------------
(* Properties.                                                             *)

Writes(r, b) ==
  /\ handle[r].kind \in {"session", "tui"} /\ ~handle[r].stopped
  /\ handle[r].binding = b

\* A run that can still write to a binding holds its claim, so two never do,
\* and a claim belongs to a run whose handle has yet to return it: late and
\* repeated stops and drops of an earlier run leave the claim of its successor.
WriterClaims ==
  \A b \in Bindings :
    /\ \A r \in Runs : Writes(r, b) => claims[b] = r
    /\ claims[b] # NoRun =>
         \/ Writes(claims[b], b)
         \/ handle[claims[b]].binding = b /\ releasing[claims[b]] > 0

\* A stream begins with ready, tells of each answered request once, and has
\* nothing after stopped.
Places(stream, k) == {i \in DOMAIN stream : stream[i] = k}
InOrder(stream, stopped, replies) ==
  /\ Places(stream, "ready") = {1}
  /\ Places(stream, "stopped") = IF stopped THEN {Len(stream)} ELSE {}
  /\ \A k \in RequestKinds :
       IF k \in replies THEN \E i \in DOMAIN stream : Places(stream, k) = {i}
       ELSE Places(stream, k) = {}

\* A session's stream is in order, however its callers race with stop_run.
Stream(r) == taken[r] \o events[r]
StreamInOrder ==
  \A r \in Runs : Stream(r) # <<>> => InOrder(Stream(r), handle[r].stopped, answered[r])

\* Both of the above: one writer for each binding, and a stream in order.
AdapterSound == WriterClaims /\ StreamInOrder

-----------------------------------------------------------------------------
(* What makes it inductive.                                                *)

EventKinds == RequestKinds \cup {"ready", "console", "accepted", "stopped"}
TypeOK ==
  /\ claims \in [Bindings -> Runs \cup {NoRun}]
  /\ handle \in [Runs -> [kind : {"none", "session", "tui", "dropped"},
                         binding : Bindings \cup {NoBinding}, stopped : BOOLEAN]]
  /\ releasing \in [Runs -> Nat]
  /\ events \in [Runs -> Seq(EventKinds)] /\ taken \in [Runs -> Seq(EventKinds)]
  /\ answered \in [Runs -> SUBSET RequestKinds]

\* A run has a stream once its session has begun, and returns its claim in
\* stop_run only once it has stopped.
Begun ==
  \A r \in Runs :
    /\ handle[r].kind = "none" =>
         /\ handle[r] = Unused /\ releasing[r] = 0
         /\ events[r] = <<>> /\ taken[r] = <<>> /\ answered[r] = {}
    /\ handle[r].kind = "tui" => events[r] = <<>> /\ taken[r] = <<>>
    /\ handle[r].kind = "session" => Stream(r) # <<>>
    /\ releasing[r] > 0 => handle[r].stopped

IInv == TypeOK /\ Begun /\ AdapterSound
=============================================================================
