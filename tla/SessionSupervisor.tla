-------------------------- MODULE SessionSupervisor --------------------------
(***************************************************************************)
(* FakeSessionSupervisor: which run is the active one of a logical session *)
(* and which run writes to a vendor binding.  A Run is one launch attempt   *)
(* (a start or a resume), the lease token it draws and, if it gets so far,  *)
(* the child process it spawns and the task that supervises it.  Attempts   *)
(* run in IPC request tasks, which are aborted when their connection fails. *)
(* One action is what a task does between two awaits that others can see.   *)
(***************************************************************************)
EXTENDS Integers, FiniteSets, SessionStates

CONSTANTS Runs, Sessions, Bindings, NoRun, NoSession, NoBinding,
          MaximumSessions   \* limits.maximum_sessions

ASSUME SupervisorAssumption ==
  /\ NoRun \notin Runs /\ NoSession \notin Sessions /\ NoBinding \notin Bindings
  /\ MaximumSessions \in Nat

VARIABLES known,      \* the sessions map
          returned,   \* the sessions whose identifier a client was given
          launching, state, binding, activeRun,  \* per session
          writers,    \* binding_writers: the token that leases a binding
          pc, session, want,  \* per run: progress, session, requested binding
          leased,     \* RunControl.leased_binding
          process     \* "none", "alive", or "gone": exited or sent SIGKILL

sessionsMap == <<known, returned>>
records == <<known, launching, state, binding, activeRun>>
attempt == <<session, want>>
child == <<leased, process>>
vars == <<records, returned, writers, pc, attempt, child>>

Init ==
  /\ known = {} /\ returned = {}
  /\ launching = [s \in Sessions |-> FALSE]
  /\ state = [s \in Sessions |-> "created"]
  /\ binding = [s \in Sessions |-> NoBinding]
  /\ activeRun = [s \in Sessions |-> NoRun]
  /\ writers = [b \in Bindings |-> NoRun]
  /\ pc = [l \in Runs |-> "new"]
  /\ session = [l \in Runs |-> NoSession]
  /\ want = [l \in Runs |-> NoBinding]
  /\ leased = [l \in Runs |-> NoBinding]
  /\ process = [l \in Runs |-> "none"]

At(l, p) == pc[l] = p
Goto(l, p) == pc' = [pc EXCEPT ![l] = p]

-----------------------------------------------------------------------------
(* binding_writers *)

\* claim_binding
CanClaim(b) == b \in Bindings => writers[b] = NoRun

\* Mutant of Claimed: the entry names the session instead of the token.
ClaimedBySession(b, l) ==
  [x \in Bindings |-> IF x = b THEN session[l] ELSE writers[x]]

Claimed(b, l) == [x \in Bindings |-> IF x = b THEN l ELSE writers[x]]

\* release_binding: only the token that holds the lease gives it back.
Released(b, l) ==
  [x \in Bindings |-> IF x = b /\ writers[x] = l THEN NoRun ELSE writers[x]]

-----------------------------------------------------------------------------
(* start, resume and launch *)

Start(l, s, b) ==
  /\ At(l, "new") /\ s \notin known /\ state[s] = "created"
  /\ Cardinality(known) < MaximumSessions
  /\ known' = known \cup {s}
  /\ session' = [session EXCEPT ![l] = s]
  /\ want' = [want EXCEPT ![l] = b]
  /\ Goto(l, "launch")
  /\ UNCHANGED <<returned, launching, state, binding, activeRun, writers, child>>

\* The session has no active run; a stored binding wins, and a different
\* requested one is refused.
Resume(l, s, b) ==
  /\ At(l, "new") /\ s \in returned
  /\ activeRun[s] = NoRun
  /\ binding[s] = NoBinding \/ b \in {NoBinding, binding[s]}
  /\ session' = [session EXCEPT ![l] = s]
  /\ want' = [want EXCEPT ![l] = IF binding[s] = NoBinding THEN b ELSE binding[s]]
  /\ Goto(l, "launch")
  /\ UNCHANGED <<records, returned, writers, child>>

\* Mutant of BeginLaunch: two launches of one session may overlap.
BeginOverlapping(l) ==
  /\ At(l, "launch")
  /\ launching' = [launching EXCEPT ![session[l]] = TRUE]
  /\ Goto(l, "claim")
  /\ UNCHANGED <<sessionsMap, state, binding, activeRun, writers, attempt, child>>

\* The compare-exchange on launching.
BeginLaunch(l) ==
  /\ At(l, "launch")
  /\ \/ /\ ~launching[session[l]]
        /\ launching' = [launching EXCEPT ![session[l]] = TRUE]
        /\ Goto(l, "claim")
     \/ /\ launching[session[l]]
        /\ Goto(l, "refused") /\ UNCHANGED launching
  /\ UNCHANGED <<sessionsMap, state, binding, activeRun, writers, attempt, child>>

ClaimBinding(l) ==
  /\ At(l, "claim")
  /\ \/ /\ CanClaim(want[l])
        /\ writers' = Claimed(want[l], l)
        /\ Goto(l, "guarded") /\ UNCHANGED launching
     \/ /\ ~CanClaim(want[l])
        /\ launching' = [launching EXCEPT ![session[l]] = FALSE]
        /\ Goto(l, "refused") /\ UNCHANGED writers
  /\ UNCHANGED <<sessionsMap, state, binding, activeRun, attempt, child>>

\* The tail of start: a session that never left Created is forgotten.
Forget(l) ==
  /\ At(l, "refused")
  /\ known' = known \ {s \in {session[l]} : state[s] = "created"}
  /\ Goto(l, "over")
  /\ UNCHANGED <<returned, launching, state, binding, activeRun, writers, attempt,
                 child>>

SetStarting(l) ==
  /\ At(l, "guarded")
  /\ state' = [state EXCEPT ![session[l]] = SetState(@, "starting")]
  /\ Goto(l, "resetting")
  /\ UNCHANGED <<sessionsMap, launching, binding, activeRun, writers, attempt, child>>

ResetData(l) ==
  /\ At(l, "resetting")
  /\ binding' = [binding EXCEPT ![session[l]] =
                   IF want[l] = NoBinding THEN @ ELSE want[l]]
  /\ Goto(l, "spawning")
  /\ UNCHANGED <<sessionsMap, launching, state, activeRun, writers, attempt, child>>

Spawned(l) ==
  /\ At(l, "spawning")
  /\ process' = [process EXCEPT ![l] = "alive"]
  /\ leased' = [leased EXCEPT ![l] = want[l]]
  /\ Goto(l, "spawned")
  /\ UNCHANGED <<records, returned, writers, attempt>>

\* LaunchGuard::drop before the launch is committed.
DropGuard(l) ==
  /\ launching' = [launching EXCEPT ![session[l]] = FALSE]
  /\ writers' = Released(want[l], l)

\* record_launch_failure stores Failed without looking at the current state.
SpawnFails(l) ==
  /\ At(l, "spawning")
  /\ state' = [state EXCEPT ![session[l]] = "failed"]
  /\ DropGuard(l)
  /\ Goto(l, "refused")
  /\ UNCHANGED <<sessionsMap, binding, activeRun, attempt, child>>

\* Mutant of Commit: the run is installed whoever is active.
CommitBlindly(l) ==
  /\ At(l, "spawned")
  /\ activeRun' = [activeRun EXCEPT ![session[l]] = l]
  /\ Goto(l, "installed")
  /\ UNCHANGED <<sessionsMap, launching, state, binding, writers, attempt, child>>

\* Under the data lock: the run becomes the active one, or is terminated
\* because another got there first.
Commit(l) ==
  LET s == session[l] IN
  /\ At(l, "spawned")
  /\ \/ /\ activeRun[s] = NoRun
        /\ activeRun' = [activeRun EXCEPT ![s] = l]
        /\ Goto(l, "installed")
        /\ UNCHANGED <<launching, writers, process>>
     \/ /\ activeRun[s] # NoRun
        /\ process' = [process EXCEPT ![l] = "gone"]
        /\ DropGuard(l)
        /\ Goto(l, "refused") /\ UNCHANGED activeRun
  /\ UNCHANGED <<sessionsMap, state, binding, attempt, leased>>

\* committed = true and drop(guard).
CommitGuard(l) ==
  /\ At(l, "installed")
  /\ launching' = [launching EXCEPT ![session[l]] = FALSE]
  /\ Goto(l, "announcing")
  /\ UNCHANGED <<sessionsMap, state, binding, activeRun, writers, attempt, child>>

Supervise(l) ==
  /\ At(l, "announcing")
  /\ returned' = returned \cup {session[l]}
  /\ Goto(l, "supervised")
  /\ UNCHANGED <<records, writers, attempt, child>>

LaunchStep(l) ==
  \/ BeginLaunch(l) \/ ClaimBinding(l) \/ Forget(l) \/ SetStarting(l)
  \/ ResetData(l) \/ Spawned(l) \/ SpawnFails(l) \/ Commit(l)
  \/ CommitGuard(l) \/ Supervise(l)

\* Mutant of AbortLaunch: without the guard nothing is given back.
AbortUnguarded(l) ==
  /\ pc[l] \in {"launch", "refused", "guarded", "resetting", "spawning", "spawned"}
  /\ process' = [process EXCEPT ![l] = IF @ = "alive" THEN "gone" ELSE @]
  /\ Goto(l, "over")
  /\ UNCHANGED <<records, returned, writers, attempt, leased>>

\* The request task is dropped at an await: so are the guard, if there is one,
\* and the process, if it is not yet the active run's.  Once the run is
\* installed it lives on without anyone supervising it.
AbortLaunch(l) ==
  /\ pc[l] \in {"launch", "refused", "guarded", "resetting", "spawning",
                "spawned", "installed", "announcing"}
  /\ IF pc[l] \in {"guarded", "resetting", "spawning", "spawned", "installed"}
     THEN DropGuard(l) ELSE UNCHANGED <<launching, writers>>
  /\ process' = [process EXCEPT ![l] = IF At(l, "spawned") THEN "gone" ELSE @]
  /\ Goto(l, IF pc[l] \in {"installed", "announcing"} THEN "orphaned" ELSE "over")
  /\ UNCHANGED <<sessionsMap, state, binding, activeRun, attempt, leased>>

-----------------------------------------------------------------------------
(* The run *)

\* A "binding" or "resumed" frame: the first one leases the binding; a refused
\* or a different one is a protocol failure, which terminates the run.
BindingFrame(l, b) ==
  LET s == session[l]
      fails == IF leased[l] = NoBinding THEN ~CanClaim(b) ELSE leased[l] # b
  IN
  /\ At(l, "supervised") /\ process[l] = "alive"
  /\ \/ /\ ~fails
        /\ writers' = IF leased[l] = NoBinding THEN Claimed(b, l) ELSE writers
        /\ leased' = [leased EXCEPT ![l] = b]
        /\ binding' = [binding EXCEPT ![s] = b]
        /\ state' = [state EXCEPT ![s] = IF @ = "starting" THEN "running" ELSE @]
        /\ UNCHANGED process
     \/ /\ fails
        /\ state' = [state EXCEPT ![s] = "failed"]
        /\ process' = [process EXCEPT ![l] = "gone"]
        /\ UNCHANGED <<writers, leased, binding>>
  /\ UNCHANGED <<sessionsMap, launching, activeRun, pc, attempt>>

\* The child exits by itself or is stopped.
Exits(l) ==
  /\ process[l] = "alive"
  /\ process' = [process EXCEPT ![l] = "gone"]
  /\ UNCHANGED <<records, returned, writers, pc, attempt, leased>>

\* Mutant of FreeLease: the lease goes before the process has been reaped.
FreeEarly(l) ==
  /\ At(l, "supervised")
  /\ writers' = Released(leased[l], l)
  /\ leased' = leased
  /\ Goto(l, "concluding")
  /\ UNCHANGED <<records, returned, attempt, process>>

\* Mutant of FreeLease: the run is finalized, its lease kept.
FreeNothing(l) ==
  /\ At(l, "supervised") /\ process[l] = "gone"
  /\ Goto(l, "concluding")
  /\ UNCHANGED <<records, returned, writers, attempt, child>>

\* finalize_run: the lease is given back after the process is gone ...
FreeLease(l) ==
  /\ At(l, "supervised") /\ process[l] = "gone"
  /\ writers' = Released(leased[l], l)
  /\ leased' = [leased EXCEPT ![l] = NoBinding]
  /\ Goto(l, "concluding")
  /\ UNCHANGED <<records, returned, attempt, process>>

\* ... and then the session has no active run.
Conclude(l) ==
  LET s == session[l] IN
  /\ At(l, "concluding")
  /\ activeRun' = [activeRun EXCEPT ![s] = IF @ = l THEN NoRun ELSE @]
  /\ \E final \in FinalStates : state' = [state EXCEPT ![s] = final]
  /\ Goto(l, "over")
  /\ UNCHANGED <<sessionsMap, launching, binding, writers, attempt, child>>

RunStep(l) == FreeLease(l) \/ Conclude(l)

Next ==
  \E l \in Runs :
    \/ \E s \in Sessions, b \in Bindings \cup {NoBinding} :
         Start(l, s, b) \/ Resume(l, s, b)
    \/ LaunchStep(l) \/ AbortLaunch(l)
    \/ \E b \in Bindings : BindingFrame(l, b)
    \/ Exits(l) \/ RunStep(l)

Spec == Init /\ [][Next]_vars

\* The runtime polls the tasks; a child may run for ever.
FairSpec == Spec /\ \A l \in Runs : WF_vars(LaunchStep(l)) /\ WF_vars(RunStep(l))
-----------------------------------------------------------------------------
(* Properties *)

Progress ==
  {"new", "launch", "claim", "refused", "guarded", "resetting", "spawning",
   "spawned", "installed", "announcing", "supervised", "orphaned",
   "concluding", "over"}

\* Every variable has its type.
TypeOK ==
  /\ known \subseteq Sessions /\ returned \subseteq Sessions
  /\ launching \in [Sessions -> BOOLEAN]
  /\ state \in [Sessions -> SessionState]
  /\ binding \in [Sessions -> Bindings \cup {NoBinding}]
  /\ activeRun \in [Sessions -> Runs \cup {NoRun}]
  /\ writers \in [Bindings -> Runs \cup {NoRun}]
  /\ pc \in [Runs -> Progress]
  /\ session \in [Runs -> Sessions \cup {NoSession}]
  /\ want \in [Runs -> Bindings \cup {NoBinding}]
  /\ leased \in [Runs -> Bindings \cup {NoBinding}]
  /\ process \in [Runs -> {"none", "alive", "gone"}]

\* One active writer per vendor binding: two children that are alive never
\* write to the same binding, across sessions, resumes and aborted requests.
\* The exception is a run orphaned by an abort right after it was installed,
\* whose guard gives the lease back while the child lives on.
OneWriter ==
  \A l, m \in Runs :
    (/\ l # m /\ leased[l] # NoBinding /\ leased[l] = leased[m]
     /\ process[l] = "alive" /\ process[m] = "alive")
    => At(l, "orphaned") \/ At(m, "orphaned")

\* One supervised run per session: a run that is installed and not concluded
\* is the active run of its session, so no other of the session is.
OneActiveRun ==
  \A s \in Sessions, l \in Runs :
    activeRun[s] = l <=>
      session[l] = s /\ pc[l] \in {"installed", "announcing", "supervised",
                                   "orphaned", "concluding"}

\* No lease outlives its holder: a leased binding belongs to a launch that is
\* under way or to a run that has not been finalized, so a binding is not lost
\* to a failed, refused, aborted or finished launch.
NoLeaseLeak ==
  \A b \in Bindings : writers[b] # NoRun =>
    LET l == writers[b] IN
    \/ pc[l] \in {"guarded", "resetting", "spawning"} /\ want[l] = b
    \/ pc[l] \in {"spawned", "installed", "announcing", "supervised", "orphaned"}
         /\ leased[l] = b

\* The launching flag of a session is up exactly while one launch of it is
\* between its compare-exchange and its guard's end: it neither lets two
\* launches overlap nor stays up and locks the session.
Inside(s) ==
  {l \in Runs : /\ session[l] = s
                /\ pc[l] \in {"claim", "guarded", "resetting", "spawning",
                              "spawned", "installed"}}
LaunchExclusive ==
  \A s \in Sessions :
    /\ \A l, m \in Inside(s) : l = m
    /\ launching[s] <=> Inside(s) # {}

\* A supervised run whose child is gone frees its binding and its session.
RunsEnd ==
  \A l \in Runs :
    (At(l, "supervised") /\ process[l] = "gone") ~>
      (/\ \A b \in Bindings : writers[b] # l
       /\ \A s \in Sessions : activeRun[s] # l)
=============================================================================
