--------------------------- MODULE OwnedProcesses ---------------------------
(***************************************************************************)
(* Children that the daemon owns (crate maestro-process, and the process   *)
(* lock of a run in fake_session.rs).  A spawn waits for a permit, starts  *)
(* the leader of a new process group, and hands it to a supervisor that    *)
(* observes the leader's exit without reaping it, seals the group (a last  *)
(* SIGKILL, then no signal ever), reaps the leader, drops the permit and   *)
(* publishes the outcome.  Callers terminate a child meanwhile: SIGTERM, a *)
(* grace period, then they seal the group themselves.  While the leader is *)
(* not reaped its process id cannot be reused, and every signal is sent    *)
(* under the identity lock.                                                *)
(***************************************************************************)
EXTENDS Naturals, FiniteSets

CONSTANTS Children,    \* spawn attempts
          Callers,     \* tasks that terminate a child
          Limit,       \* permits of the ProcessSpawner
          MaxFaults    \* bound on failing system calls

ASSUME ProcessAssumption ==
  /\ Limit \in Nat \ {0} /\ MaxFaults \in Nat
  /\ "nobody" \notin Children \cup Callers /\ {"supervisor", "writer"} \cap Callers = {}

VARIABLES
  form,      \* "none", "structured" (pipes) or "pty"
  stage,     \* progress of the spawn
  permit,    \* the child's permit of the spawner is held
  leader,    \* group leader: "none", "live", "zombie", "reaped"
  members,   \* other processes of its group are alive
  active,    \* GroupIdentity.active
  sealer,    \* who holds the identity lock inside seal, or Nobody
  sup,       \* program counter of supervise_child
  verdict,   \* TRUE while nothing has failed in supervise_child
  outcome,   \* the lifecycle watch channel
  handle,    \* "held" or "dropped": the StructuredProcess or PtyProcess
  mutex,     \* holder of the run's process lock, or Nobody
  call,      \* of each caller, its child and step
  faults,    \* failed system calls so far
  stray,     \* history: children whose group id was signalled after the reap
  unsent     \* history: children whose seal could not send its signal

spawnVars == <<form, stage, permit>>
groupVars == <<leader, members, active, sealer>>
supVars == <<sup, verdict, outcome>>
ownerVars == <<handle, mutex, call>>
history == <<faults, stray, unsent>>
vars == <<spawnVars, groupVars, supVars, ownerVars, history>>

Nobody == "nobody"
Supervisor == "supervisor"
Writer == "writer"
NoCall == [child |-> Nobody, step |-> "idle"]

Init ==
  /\ form = [c \in Children |-> "none"]
  /\ stage = [c \in Children |-> "absent"]
  /\ permit = [c \in Children |-> FALSE]
  /\ leader = [c \in Children |-> "none"]
  /\ members = [c \in Children |-> FALSE]
  /\ active = [c \in Children |-> FALSE]
  /\ sealer = [c \in Children |-> Nobody]
  /\ sup = [c \in Children |-> "none"]
  /\ verdict = [c \in Children |-> TRUE]
  /\ outcome = [c \in Children |-> "absent"]
  /\ handle = [c \in Children |-> "none"]
  /\ mutex = [c \in Children |-> Nobody]
  /\ call = [k \in Callers |-> NoCall]
  /\ faults = 0 /\ stray = {} /\ unsent = {}

Fault == faults < MaxFaults /\ faults' = faults + 1

-----------------------------------------------------------------------------
(* Admission and spawn.                                                    *)

ActiveCount == Cardinality({c \in Children : permit[c]})

Acquire(c) ==
  /\ stage[c] = "absent" /\ ActiveCount < Limit
  /\ permit' = [permit EXCEPT ![c] = TRUE]
  /\ stage' = [stage EXCEPT ![c] = "admitted"]
  /\ \E f \in {"structured", "pty"} : form' = [form EXCEPT ![c] = f]
  /\ UNCHANGED <<groupVars, supVars, ownerVars, history>>

\* The command or the PTY cannot be started: the permit goes with the error.
SpawnFails(c) ==
  /\ stage[c] = "admitted" /\ Fault
  /\ stage' = [stage EXCEPT ![c] = "refused"]
  /\ permit' = [permit EXCEPT ![c] = FALSE]
  /\ UNCHANGED <<form, groupVars, supVars, ownerVars, stray, unsent>>

\* The child runs, its group is claimed and its supervisor started.
Spawned(c) ==
  /\ stage[c] = "admitted"
  /\ stage' = [stage EXCEPT ![c] = "owned"]
  /\ leader' = [leader EXCEPT ![c] = "live"]
  /\ active' = [active EXCEPT ![c] = TRUE]
  /\ sup' = [sup EXCEPT ![c] = "observing"]
  /\ outcome' = [outcome EXCEPT ![c] = "running"]
  /\ handle' = [handle EXCEPT ![c] = "held"]
  /\ UNCHANGED <<form, permit, members, sealer, verdict, mutex, call, history>>

\* The group cannot be claimed, or a PTY stream cannot be taken: the group is
\* killed.  A PTY child is also waited for; a structured one is left to the
\* runtime (kill_on_drop), and its permit is free before it is reaped.
ClaimFails(c) ==
  /\ stage[c] = "admitted" /\ Fault
  /\ stage' = [stage EXCEPT ![c] = "refused"]
  /\ permit' = [permit EXCEPT ![c] = FALSE]
  /\ leader' = [leader EXCEPT ![c] = IF form[c] = "pty" THEN "reaped" ELSE "zombie"]
  /\ UNCHANGED <<form, members, active, sealer, supVars, ownerVars, stray, unsent>>

-----------------------------------------------------------------------------
(* What the children and the kernel do.                                    *)

LeaderExits(c) ==
  /\ leader[c] = "live"
  /\ leader' = [leader EXCEPT ![c] = "zombie"]
  /\ UNCHANGED <<spawnVars, members, active, sealer, supVars, ownerVars, history>>

LeaderForks(c) ==
  /\ leader[c] = "live" /\ ~members[c]
  /\ members' = [members EXCEPT ![c] = TRUE]
  /\ UNCHANGED <<spawnVars, leader, active, sealer, supVars, ownerVars, history>>

\* The runtime reaps a child that nobody supervises.
RuntimeReaps(c) ==
  /\ leader[c] = "zombie" /\ (stage[c] = "refused" \/ sup[c] = "dropped")
  /\ leader' = [leader EXCEPT ![c] = "reaped"]
  /\ UNCHANGED <<spawnVars, members, active, sealer, supVars, ownerVars, history>>

\* killpg with SIGKILL: everything in the group dies, the leader stays as a
\* zombie.  With the leader reaped the id may belong to a stranger.
Killed(c) ==
  /\ leader' = [leader EXCEPT ![c] = IF @ = "live" THEN "zombie" ELSE @]
  /\ members' = [members EXCEPT ![c] = FALSE]
  /\ stray' = IF leader[c] = "reaped" THEN stray \cup {c} ELSE stray

-----------------------------------------------------------------------------
(* OwnedProcessGroup.                                                      *)

\* A slip: signals do not look at the gate.
Ungated(c) == TRUE

Gated(c) == active[c]

\* seal: under the identity lock, the last signal (or a failed attempt) ...
SealSignals(c, who) ==
  /\ sealer[c] = Nobody /\ Gated(c)
  /\ sealer' = [sealer EXCEPT ![c] = who]
  /\ \/ Killed(c) /\ UNCHANGED <<faults, unsent>>
     \/ Fault /\ unsent' = unsent \cup {c} /\ UNCHANGED <<leader, members, stray>>
  /\ UNCHANGED active

\* ... and then no signal any more, even if this one was not sent.
SealCloses(c, who) ==
  /\ sealer[c] = who
  /\ sealer' = [sealer EXCEPT ![c] = Nobody]
  /\ active' = [active EXCEPT ![c] = FALSE]

\* try_seal: gives up when the identity lock is held.
TrySeal(c) ==
  IF sealer[c] = Nobody /\ active[c]
  THEN /\ Killed(c)
       /\ active' = [active EXCEPT ![c] = FALSE]
  ELSE UNCHANGED <<leader, members, active, stray>>

-----------------------------------------------------------------------------
(* supervise_child.                                                        *)

SupMoves(c, from, to) == sup[c] = from /\ sup' = [sup EXCEPT ![c] = to]

Observe(c) ==
  /\ SupMoves(c, "observing", "sealing")
  /\ \/ leader[c] = "zombie" /\ UNCHANGED <<verdict, faults>>
     \/ Fault /\ verdict' = [verdict EXCEPT ![c] = FALSE]
  /\ UNCHANGED <<spawnVars, groupVars, outcome, ownerVars, stray, unsent>>

SupSeals(c) ==
  /\ \/ SupMoves(c, "sealing", "closing") /\ SealSignals(c, Supervisor)
     \/ /\ sealer[c] = Nobody /\ ~active[c]
        /\ SupMoves(c, "sealing", "reaping")
        /\ UNCHANGED <<groupVars, faults, stray, unsent>>
  /\ UNCHANGED <<spawnVars, verdict, outcome, ownerVars>>

\* A seal that could not signal makes the outcome a failure and kills the leader.
SupCloses(c) ==
  /\ SupMoves(c, "closing", "reaping")
  /\ SealCloses(c, Supervisor)
  /\ verdict' = [verdict EXCEPT ![c] = @ /\ c \notin unsent]
  /\ leader' = [leader EXCEPT ![c] = IF @ = "live" THEN "zombie" ELSE @]
  /\ UNCHANGED <<spawnVars, members, outcome, ownerVars, history>>

Reap(c) ==
  /\ SupMoves(c, "reaping", "reaped")
  /\ leader[c] = "zombie"
  /\ leader' = [leader EXCEPT ![c] = "reaped"]
  /\ \/ UNCHANGED <<verdict, faults>>
     \/ Fault /\ verdict' = [verdict EXCEPT ![c] = FALSE]
  /\ UNCHANGED <<spawnVars, members, active, sealer, outcome, ownerVars, stray, unsent>>

DropPermit(c) ==
  /\ SupMoves(c, "reaped", "reporting")
  /\ permit' = [permit EXCEPT ![c] = FALSE]
  /\ UNCHANGED <<form, stage, groupVars, verdict, outcome, ownerVars, history>>

\* A slip: the outcome is reported as soon as the group is sealed.
ReportUnreaped(c) ==
  /\ SupMoves(c, "reaping", "done")
  /\ outcome' = [outcome EXCEPT ![c] = "exited"]
  /\ UNCHANGED <<spawnVars, groupVars, verdict, ownerVars, history>>

Report(c) ==
  /\ SupMoves(c, "reporting", "done")
  /\ outcome' = [outcome EXCEPT ![c] = IF verdict[c] THEN "exited" ELSE "failed"]
  /\ UNCHANGED <<spawnVars, groupVars, verdict, ownerVars, history>>

\* The runtime drops the supervisor of a structured child at an await: its
\* guard seals the group, kill_on_drop kills the leader, the permit and the
\* sender of the outcome are gone.
SupervisorDropped(c) ==
  /\ form[c] = "structured" /\ handle[c] = "dropped"
  /\ sup[c] \in {"observing", "reaping"}
  /\ sup' = [sup EXCEPT ![c] = "dropped"]
  /\ permit' = [permit EXCEPT ![c] = FALSE]
  /\ outcome' = [outcome EXCEPT ![c] = "failed"]
  /\ TrySeal(c)
  /\ UNCHANGED <<form, stage, sealer, verdict, ownerVars, faults, unsent>>

-----------------------------------------------------------------------------
(* Callers of terminate, writers, and the owner's drop.                    *)

InUse(c) == mutex[c] # Nobody \/ \E k \in Callers : call[k].child = c /\ call[k].step # "ended"

StopRequested(c) == \E k \in Callers : call[k].child = c

Step(k, from, to) ==
  call[k].step = from /\ call' = [call EXCEPT ![k].step = to]

\* FakeSessionSupervisor::stop refuses a second stop and waits for the run's
\* process lock; a terminal calls PtyProcess::terminate through a shared handle.
TerminateBegins(k, c) ==
  /\ call[k] = NoCall /\ handle[c] = "held"
  /\ form[c] = "structured" => ~StopRequested(c)
  /\ call' = [call EXCEPT ![k] = [child |-> c,
                step |-> IF form[c] = "structured" THEN "locking" ELSE "checking"]]
  /\ UNCHANGED <<spawnVars, groupVars, supVars, handle, mutex, history>>

TakeLock(k) ==
  LET c == call[k].child IN
  /\ Step(k, "locking", "checking")
  /\ mutex[c] = Nobody /\ mutex' = [mutex EXCEPT ![c] = k]
  /\ UNCHANGED <<spawnVars, groupVars, supVars, handle, history>>

\* The call returns: Ok or Err, the lock is given back.
Returned(k) ==
  /\ call' = [call EXCEPT ![k].step = "ended"]
  /\ mutex' = [c \in Children |-> IF mutex[c] = k THEN Nobody ELSE mutex[c]]

CheckCompleted(k) ==
  /\ call[k].step = "checking"
  /\ \/ outcome[call[k].child] = "running" /\ Step(k, "checking", "signalling") /\ UNCHANGED mutex
     \/ outcome[call[k].child] # "running" /\ Returned(k)
  /\ UNCHANGED <<spawnVars, groupVars, supVars, handle, history>>

\* SIGTERM to the group, if its identity is still active.  What it does to
\* the children is left to them (LeaderExits); it may fail.
SendTerm(k) ==
  LET c == call[k].child IN
  /\ call[k].step = "signalling" /\ sealer[c] = Nobody
  /\ \/ /\ Step(k, "signalling", "grace")
        /\ stray' = IF Gated(c) /\ leader[c] = "reaped" THEN stray \cup {c} ELSE stray
        /\ UNCHANGED <<mutex, faults>>
     \/ /\ Gated(c) /\ Fault
        /\ Returned(k) /\ UNCHANGED stray
  /\ UNCHANGED <<spawnVars, groupVars, supVars, handle, unsent>>

\* A slip: nobody waits for the outcome after the seal.
OutcomeInGrace(k) ==
  /\ call[k].step = "grace" /\ outcome[call[k].child] # "running"
  /\ Returned(k)
  /\ UNCHANGED <<spawnVars, groupVars, supVars, handle, history>>

\* The outcome arrives within the grace period or after the seal.
OutcomeArrives(k) ==
  /\ call[k].step \in {"grace", "waiting"} /\ outcome[call[k].child] # "running"
  /\ Returned(k)
  /\ UNCHANGED <<spawnVars, groupVars, supVars, handle, history>>

GraceExpires(k) ==
  /\ Step(k, "grace", "sealing") /\ outcome[call[k].child] = "running"
  /\ UNCHANGED <<spawnVars, groupVars, supVars, handle, mutex, history>>

Escalate(k) ==
  LET c == call[k].child IN
  /\ \/ Step(k, "sealing", "closing") /\ SealSignals(c, k)
     \/ /\ Step(k, "sealing", "waiting")
        /\ sealer[c] = Nobody /\ ~active[c]
        /\ UNCHANGED <<groupVars, faults, stray, unsent>>
  /\ UNCHANGED <<spawnVars, supVars, handle, mutex>>

EscalationCloses(k) ==
  LET c == call[k].child IN
  /\ call[k].step = "closing" /\ SealCloses(c, k)
  /\ \/ c \notin unsent /\ Step(k, "closing", "waiting") /\ UNCHANGED mutex
     \/ c \in unsent /\ Returned(k)
  /\ UNCHANGED <<spawnVars, leader, members, supVars, handle, history>>

\* write_json_bytes holds the process lock until the child has read the bytes.
WriteBegins(c) ==
  /\ form[c] = "structured" /\ handle[c] = "held" /\ mutex[c] = Nobody
  /\ ~StopRequested(c)
  /\ mutex' = [mutex EXCEPT ![c] = Writer]
  /\ UNCHANGED <<spawnVars, groupVars, supVars, handle, call, history>>

\* The child reads, its end of the pipe closes, or the request is aborted.
WriteEnds(c) ==
  /\ mutex[c] = Writer /\ mutex' = [mutex EXCEPT ![c] = Nobody]
  /\ UNCHANGED <<spawnVars, groupVars, supVars, handle, call, history>>

PipeCloses(c) == leader[c] # "live" /\ ~members[c] /\ WriteEnds(c)

\* Drop of the handle: a child that still runs is killed.
DropHandle(c) ==
  /\ handle[c] = "held" /\ ~InUse(c)
  /\ handle' = [handle EXCEPT ![c] = "dropped"]
  /\ IF outcome[c] = "running" THEN TrySeal(c)
     ELSE UNCHANGED <<leader, members, active, stray>>
  /\ UNCHANGED <<spawnVars, sealer, supVars, mutex, call, faults, unsent>>

SupervisorStep(c) == \/ Observe(c) \/ SupSeals(c) \/ SupCloses(c)
                     \/ Reap(c) \/ DropPermit(c) \/ Report(c)
CallerStep(k) == \/ TakeLock(k) \/ CheckCompleted(k) \/ SendTerm(k)
                 \/ OutcomeArrives(k) \/ GraceExpires(k)
                 \/ Escalate(k) \/ EscalationCloses(k)

Next ==
  \/ \E c \in Children :
       \/ Acquire(c) \/ SpawnFails(c) \/ Spawned(c) \/ ClaimFails(c)
       \/ LeaderExits(c) \/ LeaderForks(c) \/ RuntimeReaps(c)
       \/ SupervisorStep(c) \/ SupervisorDropped(c)
       \/ WriteBegins(c) \/ WriteEnds(c) \/ DropHandle(c)
  \/ \E k \in Callers : CallerStep(k) \/ \E c \in Children : TerminateBegins(k, c)

Spec == Init /\ [][Next]_vars

\* The daemon's tasks, its blocking threads and its timers make progress, and a
\* pipe whose readers are gone fails the write; nothing makes a child read.
Fairness == /\ \A c \in Children : /\ WF_vars(SupervisorStep(c))
                                   /\ WF_vars(PipeCloses(c))
            /\ \A k \in Callers : /\ SF_vars(TakeLock(k))
                                  /\ WF_vars(CallerStep(k))
FairSpec == Spec /\ Fairness

-----------------------------------------------------------------------------
Steps == {"idle", "locking", "checking", "signalling", "grace", "sealing",
          "closing", "waiting", "ended"}

\* Every variable keeps its type.
TypeOK ==
  /\ form \in [Children -> {"none", "structured", "pty"}]
  /\ stage \in [Children -> {"absent", "admitted", "owned", "refused"}]
  /\ permit \in [Children -> BOOLEAN] /\ active \in [Children -> BOOLEAN]
  /\ leader \in [Children -> {"none", "live", "zombie", "reaped"}]
  /\ members \in [Children -> BOOLEAN] /\ verdict \in [Children -> BOOLEAN]
  /\ sealer \in [Children -> Callers \cup {Nobody, Supervisor}]
  /\ sup \in [Children -> {"none", "observing", "sealing", "closing", "reaping",
                           "reaped", "reporting", "done", "dropped"}]
  /\ outcome \in [Children -> {"absent", "running", "exited", "failed"}]
  /\ handle \in [Children -> {"none", "held", "dropped"}]
  /\ mutex \in [Children -> Callers \cup {Nobody, Writer}]
  /\ call \in [Callers -> [child : Children \cup {Nobody}, step : Steps]]
  /\ faults \in 0..MaxFaults /\ stray \subseteq Children /\ unsent \subseteq Children

\* No signal is sent to a group id whose leader has been reaped, whichever of
\* supervisor, callers and drops comes first: the number may name a stranger's
\* group by then (the promise of OwnedProcessGroup's identity gate).
NoStraySignal == stray = {}

\* The identity gate closes before the leader is reaped.
GateBeforeReap == \A c \in Children : leader[c] = "reaped" => ~active[c]

\* A child reported as exited leaves nothing behind: its leader is reaped, its
\* permit is free and no process of its group is alive, unless a seal of this
\* group could not send its signal.
NothingSurvives ==
  \A c \in Children : outcome[c] = "exited" =>
    leader[c] = "reaped" /\ ~permit[c] /\ (members[c] => c \in unsent)

\* Supervised children that the kernel still knows never exceed the limit: a
\* permit is given back only after its child has been reaped.
WithinLimit ==
  Cardinality({c \in Children : /\ leader[c] \in {"live", "zombie"}
                                /\ sup[c] \notin {"none", "dropped"}}) <= Limit

\* All of the above, of variables that keep their types: no signal goes
\* astray, nothing outlives its report, the limit holds.
ProcessesContained == TypeOK /\ NoStraySignal /\ GateBeforeReap /\ NothingSurvives /\ WithinLimit

\* The lifecycle channel keeps the contract the daemon relies on.
Contract == INSTANCE ProcessContract WITH
              gone <- [c \in Children |-> outcome[c] # "absent" /\ leader[c] = "reaped"]
ContractKept == Contract!ContractSpec

\* A terminate call that has got hold of its child returns, whatever the child
\* does with SIGTERM: the escalation ends it.  Only a seal that could not send
\* its signal may leave a second caller waiting, the gate being closed by then.
TerminateReturns ==
  \A k \in Callers : call[k].step \notin {"idle", "locking"}
                       ~> (call[k].step = "ended" \/ call[k].child \in unsent)

\* A stop of a structured run gets through to the process tree.
StopTerminates ==
  \A k \in Callers : call[k].step = "locking" ~> call[k].step = "ended"
=============================================================================
