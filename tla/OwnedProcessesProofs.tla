------------------------ MODULE OwnedProcessesProofs ------------------------
(***************************************************************************)
(* Proofs about OwnedProcesses, for any children, callers and limit.       *)
(* ProcessesContained is not inductive: that no signal goes astray needs   *)
(* to know who can hold the identity lock at each stage of the supervisor  *)
(* (SealHeld), that nobody uses a dropped handle (DroppedUnused), and that *)
(* a closed gate leaves nothing alive (SealedDead).                        *)
(***************************************************************************)
EXTENDS OwnedProcesses, FiniteSetTheorems, TLAPS

\* A child that was not spawned has no process that runs and no gate.
Unspawned ==
  \A c \in Children :
    /\ stage[c] # "owned" => /\ handle[c] = "none" /\ leader[c] # "live"
                             /\ ~members[c] /\ ~active[c]
    /\ stage[c] \in {"absent", "admitted"} => leader[c] = "none"
    /\ stage[c] = "owned" => leader[c] # "none"

\* What has happened by each stage of supervise_child.
SupervisorStage ==
  \A c \in Children :
    /\ sup[c] = "none" <=> stage[c] # "owned"
    /\ outcome[c] = "absent" <=> sup[c] = "none"
    /\ outcome[c] = "running" <=> sup[c] \notin {"none", "done", "dropped"}
    /\ outcome[c] = "exited" => sup[c] = "done"
    /\ sup[c] \in {"reaping", "reaped", "reporting", "done", "dropped"} => ~active[c]
    /\ sup[c] \in {"reaped", "reporting", "done"} => leader[c] = "reaped"

\* A permit is held from admission until the supervisor has reaped its child.
PermitHeld ==
  \A c \in Children :
    permit[c] <=> \/ stage[c] = "admitted"
                  \/ sup[c] \in {"observing", "sealing", "closing", "reaping", "reaped"}

\* The identity lock is held inside seal only, and the gate is open meanwhile.
SealHeld ==
  \A c \in Children :
    /\ sealer[c] # Nobody => active[c]
    /\ sealer[c] = Supervisor <=> sup[c] = "closing"
    /\ \A k \in Callers : sealer[c] = k <=> call[k].child = c /\ call[k].step = "closing"

\* A call that has begun has a child.
CallPlaced == \A k \in Callers : call[k].step # "idle" => call[k].child \in Children

\* A handle is dropped only when no call uses it, and is then used by none.
DroppedUnused ==
  \A c \in Children, k \in Callers :
    handle[c] = "dropped" /\ call[k].child = c => call[k].step = "ended"

\* Behind the last signal of a seal nothing of the group is alive.
SealedDead ==
  \A c \in Children :
    stage[c] = "owned" /\ (~active[c] \/ sealer[c] # Nobody) /\ c \notin unsent
      => leader[c] # "live" /\ ~members[c]

\* The permits that are out are within the semaphore.
PermitsBounded ==
  /\ IsFiniteSet({c \in Children : permit[c]})
  /\ ActiveCount <= Limit

\* The parts by what they are about.
Gate == NoStraySignal /\ GateBeforeReap /\ SealHeld /\ SealedDead
Supervision == Unspawned /\ SupervisorStage /\ PermitHeld
Owners == CallPlaced /\ DroppedUnused

LocalInv == TypeOK /\ Gate /\ Supervision /\ Owners
IInv == LocalInv /\ PermitsBounded

-----------------------------------------------------------------------------
(* Operators that several actions use.                                     *)

\* A failing call stays within the bound on faults.
LEMMA FaultCounted ==
  ASSUME TypeOK, Fault
  PROVE  faults' \in 0..MaxFaults
BY ProcessAssumption DEF TypeOK, Fault

\* The first half of seal changes the group and the lock within their types.
LEMMA SealTyped ==
  ASSUME TypeOK, NEW c \in Children, NEW who \in Callers \cup {Supervisor}, SealSignals(c, who)
  PROVE  /\ sealer' \in [Children -> Callers \cup {Nobody, Supervisor}]
         /\ leader' \in [Children -> {"none", "live", "zombie", "reaped"}]
         /\ members' \in [Children -> BOOLEAN] /\ active' = active
         /\ faults' \in 0..MaxFaults /\ stray' \subseteq Children /\ unsent' \subseteq Children
<1>1. sealer' = [sealer EXCEPT ![c] = who] /\ active' = active
  BY DEF SealSignals
<1>2. CASE Killed(c) /\ UNCHANGED <<faults, unsent>>
  BY <1>1, <1>2 DEF Killed, TypeOK
<1>3. CASE Fault /\ unsent' = unsent \cup {c} /\ UNCHANGED <<leader, members, stray>>
  BY <1>1, <1>3, FaultCounted DEF TypeOK
<1> QED
  BY <1>2, <1>3 DEF SealSignals

\* So does try_seal.
LEMMA TrySealTyped ==
  ASSUME TypeOK, NEW c \in Children, TrySeal(c)
  PROVE  /\ leader' \in [Children -> {"none", "live", "zombie", "reaped"}]
         /\ members' \in [Children -> BOOLEAN] /\ active' \in [Children -> BOOLEAN]
         /\ stray' \subseteq Children
<1>1. CASE sealer[c] = Nobody /\ active[c]
  <2>1. Killed(c) /\ active' = [active EXCEPT ![c] = FALSE]
    BY <1>1 DEF TrySeal
  <2>2. stray' = stray \/ stray' = stray \cup {c}
    BY <2>1 DEF Killed
  <2> QED
    BY <2>1, <2>2 DEF Killed, TypeOK
<1>2. CASE ~(sealer[c] = Nobody /\ active[c])
  BY <1>2 DEF TrySeal, TypeOK
<1> QED
  BY <1>1, <1>2

\* A call under way that moves on still has its child, whose handle is held.
LEMMA StepOwners ==
  ASSUME TypeOK, Owners, NEW k \in Callers, NEW from \in Steps \ {"idle", "ended"},
         NEW to \in Steps, Step(k, from, to), handle' = handle
  PROVE  Owners'
BY DEF TypeOK, Owners, CallPlaced, DroppedUnused, Step

\* A call that returns has ended.
LEMMA ReturnedOwners ==
  ASSUME TypeOK, Owners, NEW k \in Callers, call[k].step # "idle", Returned(k), handle' = handle
  PROVE  Owners'
BY DEF TypeOK, Owners, CallPlaced, DroppedUnused, Returned

-----------------------------------------------------------------------------
(* Every action keeps the parts that speak of one child.                   *)

\* A spawn that takes a permit (ProcessSpawner's semaphore).
LEMMA AcquireKeeps ==
  ASSUME LocalInv, NEW c \in Children, Acquire(c) PROVE LocalInv'
<1> USE ProcessAssumption DEF LocalInv, TypeOK, Nobody, Supervisor, Writer, NoCall, Steps,
        spawnVars, groupVars, supVars, ownerVars, history
<1>1. TypeOK'
  BY DEF Acquire, Owners, CallPlaced
<1>2. Gate'
  BY DEF Acquire, Gate, NoStraySignal, GateBeforeReap, SealHeld, SealedDead, Supervision,
     Unspawned, SupervisorStage, Owners, CallPlaced, DroppedUnused
<1>3. Supervision'
  BY DEF Acquire, Gate, GateBeforeReap, SealHeld, Supervision, Unspawned, SupervisorStage,
     PermitHeld, Owners, CallPlaced, DroppedUnused
<1>4. Owners'
  BY DEF Acquire, Owners, CallPlaced, DroppedUnused, Supervision, Unspawned
<1> QED
  BY <1>1, <1>2, <1>3, <1>4

\* A command that cannot be started gives its permit back.
LEMMA SpawnFailsKeeps ==
  ASSUME LocalInv, NEW c \in Children, SpawnFails(c) PROVE LocalInv'
<1> USE ProcessAssumption DEF LocalInv, TypeOK, Nobody, Supervisor, Writer, NoCall, Steps,
        spawnVars, groupVars, supVars, ownerVars, history
<1>1. TypeOK'
  BY DEF SpawnFails, Fault, Owners, CallPlaced
<1>2. Gate'
  BY DEF SpawnFails, Fault, Gate, NoStraySignal, GateBeforeReap, SealHeld, SealedDead,
     Supervision, Unspawned, SupervisorStage, Owners, CallPlaced, DroppedUnused
<1>3. Supervision'
  BY DEF SpawnFails, Fault, Gate, GateBeforeReap, SealHeld, Supervision, Unspawned,
     SupervisorStage, PermitHeld, Owners, CallPlaced, DroppedUnused
<1>4. Owners'
  BY DEF SpawnFails, Owners, CallPlaced, DroppedUnused, Supervision, Unspawned
<1> QED
  BY <1>1, <1>2, <1>3, <1>4

\* A spawned leader has an open gate and a supervisor that observes it.
LEMMA SpawnedKeeps ==
  ASSUME LocalInv, NEW c \in Children, Spawned(c) PROVE LocalInv'
<1> USE ProcessAssumption DEF LocalInv, TypeOK, Nobody, Supervisor, Writer, NoCall, Steps,
        spawnVars, groupVars, supVars, ownerVars, history
<1>1. TypeOK'
  BY DEF Spawned, Owners, CallPlaced
<1>2. Gate'
  BY DEF Spawned, Gate, NoStraySignal, GateBeforeReap, SealHeld, SealedDead, Supervision,
     Unspawned, SupervisorStage, Owners, CallPlaced, DroppedUnused
<1>3. Supervision'
  BY DEF Spawned, Gate, GateBeforeReap, SealHeld, Supervision, Unspawned, SupervisorStage,
     PermitHeld, Owners, CallPlaced, DroppedUnused
<1>4. Owners'
  BY DEF Spawned, Owners, CallPlaced, DroppedUnused, Supervision, Unspawned
<1> QED
  BY <1>1, <1>2, <1>3, <1>4

\* A group that cannot be claimed is killed before it has an owner.
LEMMA ClaimFailsKeeps ==
  ASSUME LocalInv, NEW c \in Children, ClaimFails(c) PROVE LocalInv'
<1> USE ProcessAssumption DEF LocalInv, TypeOK, Nobody, Supervisor, Writer, NoCall, Steps,
        spawnVars, groupVars, supVars, ownerVars, history
<1>1. TypeOK'
  BY DEF ClaimFails, Fault, Owners, CallPlaced
<1>2. Gate'
  BY DEF ClaimFails, Fault, Gate, NoStraySignal, GateBeforeReap, SealHeld, SealedDead,
     Supervision, Unspawned, SupervisorStage, Owners, CallPlaced, DroppedUnused
<1>3. Supervision'
  BY DEF ClaimFails, Fault, Gate, GateBeforeReap, SealHeld, Supervision, Unspawned,
     SupervisorStage, PermitHeld, Owners, CallPlaced, DroppedUnused
<1>4. Owners'
  BY DEF ClaimFails, Owners, CallPlaced, DroppedUnused, Supervision, Unspawned
<1> QED
  BY <1>1, <1>2, <1>3, <1>4

\* A leader that exits by itself becomes a zombie.
LEMMA LeaderExitsKeeps ==
  ASSUME LocalInv, NEW c \in Children, LeaderExits(c) PROVE LocalInv'
<1> USE ProcessAssumption DEF LocalInv, TypeOK, Nobody, Supervisor, Writer, NoCall, Steps,
        spawnVars, groupVars, supVars, ownerVars, history
<1>1. TypeOK'
  BY DEF LeaderExits, Owners, CallPlaced
<1>2. Gate'
  BY DEF LeaderExits, Gate, NoStraySignal, GateBeforeReap, SealHeld, SealedDead,
     Supervision, Unspawned, SupervisorStage, Owners, CallPlaced, DroppedUnused
<1>3. Supervision'
  BY DEF LeaderExits, Gate, GateBeforeReap, SealHeld, Supervision, Unspawned,
     SupervisorStage, PermitHeld, Owners, CallPlaced, DroppedUnused
<1>4. Owners'
  BY DEF LeaderExits, Owners, CallPlaced, DroppedUnused, Supervision, Unspawned
<1> QED
  BY <1>1, <1>2, <1>3, <1>4

\* Only a live leader adds members to its group.
LEMMA LeaderForksKeeps ==
  ASSUME LocalInv, NEW c \in Children, LeaderForks(c) PROVE LocalInv'
<1> USE ProcessAssumption DEF LocalInv, TypeOK, Nobody, Supervisor, Writer, NoCall, Steps,
        spawnVars, groupVars, supVars, ownerVars, history
<1>1. TypeOK'
  BY DEF LeaderForks, Owners, CallPlaced
<1>2. Gate'
  BY DEF LeaderForks, Gate, NoStraySignal, GateBeforeReap, SealHeld, SealedDead,
     Supervision, Unspawned, SupervisorStage, Owners, CallPlaced, DroppedUnused
<1>3. Supervision'
  BY DEF LeaderForks, Gate, GateBeforeReap, SealHeld, Supervision, Unspawned,
     SupervisorStage, PermitHeld, Owners, CallPlaced, DroppedUnused
<1>4. Owners'
  BY DEF LeaderForks, Owners, CallPlaced, DroppedUnused, Supervision, Unspawned
<1> QED
  BY <1>1, <1>2, <1>3, <1>4

\* A child nobody supervises is reaped behind a gate that is closed.
LEMMA RuntimeReapsKeeps ==
  ASSUME LocalInv, NEW c \in Children, RuntimeReaps(c) PROVE LocalInv'
<1> USE ProcessAssumption DEF LocalInv, TypeOK, Nobody, Supervisor, Writer, NoCall, Steps,
        spawnVars, groupVars, supVars, ownerVars, history
<1>1. TypeOK'
  BY DEF RuntimeReaps, Owners, CallPlaced
<1>2. Gate'
  BY DEF RuntimeReaps, Gate, NoStraySignal, GateBeforeReap, SealHeld, SealedDead,
     Supervision, Unspawned, SupervisorStage, Owners, CallPlaced, DroppedUnused
<1>3. Supervision'
  BY DEF RuntimeReaps, Gate, GateBeforeReap, SealHeld, Supervision, Unspawned,
     SupervisorStage, PermitHeld, Owners, CallPlaced, DroppedUnused
<1>4. Owners'
  BY DEF RuntimeReaps, Owners, CallPlaced, DroppedUnused, Supervision, Unspawned
<1> QED
  BY <1>1, <1>2, <1>3, <1>4

\* The supervisor sees the exit, or fails to, without reaping.
LEMMA ObserveKeeps ==
  ASSUME LocalInv, NEW c \in Children, Observe(c) PROVE LocalInv'
<1> USE ProcessAssumption DEF LocalInv, TypeOK, Nobody, Supervisor, Writer, NoCall, Steps,
        spawnVars, groupVars, supVars, ownerVars, history
<1>1. TypeOK'
  <2>1. CASE leader[c] = "zombie" /\ UNCHANGED <<verdict, faults>>
    BY <2>1 DEF Observe, SupMoves
  <2>2. CASE Fault /\ verdict' = [verdict EXCEPT ![c] = FALSE]
    BY <2>2, FaultCounted DEF Observe, SupMoves
  <2> QED
    BY <2>1, <2>2 DEF Observe
<1>2. Gate'
  BY DEF Observe, SupMoves, Fault, Gate, NoStraySignal, GateBeforeReap, SealHeld,
     SealedDead, Supervision, Unspawned, SupervisorStage, Owners, CallPlaced, DroppedUnused
<1>3. Supervision'
  BY DEF Observe, SupMoves, Fault, Gate, GateBeforeReap, SealHeld, Supervision, Unspawned,
     SupervisorStage, PermitHeld, Owners, CallPlaced, DroppedUnused
<1>4. Owners'
  BY DEF Observe, SupMoves, Owners, CallPlaced, DroppedUnused, Supervision, Unspawned
<1> QED
  BY <1>1, <1>2, <1>3, <1>4

\* The supervisor takes the identity lock for its last signal, or finds the
\* gate closed already.
LEMMA SupSealsKeeps ==
  ASSUME LocalInv, NEW c \in Children, SupSeals(c) PROVE LocalInv'
<1> USE ProcessAssumption DEF LocalInv, TypeOK, Nobody, Supervisor, Writer, NoCall, Steps,
        spawnVars, groupVars, supVars, ownerVars, history
<1>1. TypeOK'
  <2>1. CASE SupMoves(c, "sealing", "closing") /\ SealSignals(c, Supervisor)
    BY <2>1, SealTyped DEF SupSeals, SupMoves
  <2>2. CASE SupMoves(c, "sealing", "reaping") /\ UNCHANGED <<groupVars, faults, stray, unsent>>
    BY <2>2 DEF SupSeals, SupMoves
  <2> QED
    BY <2>1, <2>2 DEF SupSeals
<1>2. Gate'
  BY DEF SupSeals, SupMoves, SealSignals, Gated, Killed, Fault, Gate, NoStraySignal,
     GateBeforeReap, SealHeld, SealedDead, Supervision, Unspawned, SupervisorStage, Owners,
     CallPlaced, DroppedUnused
<1>3. Supervision'
  BY DEF SupSeals, SupMoves, SealSignals, Gated, Killed, Fault, Gate, GateBeforeReap,
     SealHeld, Supervision, Unspawned, SupervisorStage, PermitHeld, Owners, CallPlaced,
     DroppedUnused
<1>4. Owners'
  BY DEF SupSeals, SupMoves, Owners, CallPlaced, DroppedUnused, Supervision, Unspawned
<1> QED
  BY <1>1, <1>2, <1>3, <1>4

\* The supervisor closes the gate; from here on nothing signals the group.
LEMMA SupClosesKeeps ==
  ASSUME LocalInv, NEW c \in Children, SupCloses(c) PROVE LocalInv'
<1> USE ProcessAssumption DEF LocalInv, TypeOK, Nobody, Supervisor, Writer, NoCall, Steps,
        spawnVars, groupVars, supVars, ownerVars, history
<1>1. TypeOK'
  BY DEF SupCloses, SupMoves, SealCloses, Owners, CallPlaced
<1>2. Gate'
  BY DEF SupCloses, SupMoves, SealCloses, Gate, NoStraySignal, GateBeforeReap, SealHeld,
     SealedDead, Supervision, Unspawned, SupervisorStage, Owners, CallPlaced, DroppedUnused
<1>3. Supervision'
  BY DEF SupCloses, SupMoves, SealCloses, Gate, GateBeforeReap, SealHeld, Supervision,
     Unspawned, SupervisorStage, PermitHeld, Owners, CallPlaced, DroppedUnused
<1>4. Owners'
  BY DEF SupCloses, SupMoves, Owners, CallPlaced, DroppedUnused, Supervision, Unspawned
<1> QED
  BY <1>1, <1>2, <1>3, <1>4

\* The reap comes behind a closed gate: the id may be reused from now on.
LEMMA ReapKeeps ==
  ASSUME LocalInv, NEW c \in Children, Reap(c) PROVE LocalInv'
<1> USE ProcessAssumption DEF LocalInv, TypeOK, Nobody, Supervisor, Writer, NoCall, Steps,
        spawnVars, groupVars, supVars, ownerVars, history
<1>1. TypeOK'
  <2>1. CASE UNCHANGED <<verdict, faults>>
    BY <2>1 DEF Reap, SupMoves
  <2>2. CASE Fault /\ verdict' = [verdict EXCEPT ![c] = FALSE]
    BY <2>2, FaultCounted DEF Reap, SupMoves
  <2> QED
    BY <2>1, <2>2 DEF Reap
<1>2. Gate'
  BY DEF Reap, SupMoves, Fault, Gate, NoStraySignal, GateBeforeReap, SealHeld, SealedDead,
     Supervision, Unspawned, SupervisorStage, Owners, CallPlaced, DroppedUnused
<1>3. Supervision'
  BY DEF Reap, SupMoves, Fault, Gate, GateBeforeReap, SealHeld, Supervision, Unspawned,
     SupervisorStage, PermitHeld, Owners, CallPlaced, DroppedUnused
<1>4. Owners'
  BY DEF Reap, SupMoves, Owners, CallPlaced, DroppedUnused, Supervision, Unspawned
<1> QED
  BY <1>1, <1>2, <1>3, <1>4

\* The permit is free only after the reap.
LEMMA DropPermitKeeps ==
  ASSUME LocalInv, NEW c \in Children, DropPermit(c) PROVE LocalInv'
<1> USE ProcessAssumption DEF LocalInv, TypeOK, Nobody, Supervisor, Writer, NoCall, Steps,
        spawnVars, groupVars, supVars, ownerVars, history
<1>1. TypeOK'
  BY DEF DropPermit, SupMoves, Owners, CallPlaced
<1>2. Gate'
  BY DEF DropPermit, SupMoves, Gate, NoStraySignal, GateBeforeReap, SealHeld, SealedDead,
     Supervision, Unspawned, SupervisorStage, Owners, CallPlaced, DroppedUnused
<1>3. Supervision'
  BY DEF DropPermit, SupMoves, Gate, GateBeforeReap, SealHeld, Supervision, Unspawned,
     SupervisorStage, PermitHeld, Owners, CallPlaced, DroppedUnused
<1>4. Owners'
  BY DEF DropPermit, SupMoves, Owners, CallPlaced, DroppedUnused, Supervision, Unspawned
<1> QED
  BY <1>1, <1>2, <1>3, <1>4

\* The outcome is published after the reap and the permit.
LEMMA ReportKeeps ==
  ASSUME LocalInv, NEW c \in Children, Report(c) PROVE LocalInv'
<1> USE ProcessAssumption DEF LocalInv, TypeOK, Nobody, Supervisor, Writer, NoCall, Steps,
        spawnVars, groupVars, supVars, ownerVars, history
<1>1. TypeOK'
  BY DEF Report, SupMoves, Owners, CallPlaced
<1>2. Gate'
  BY DEF Report, SupMoves, Gate, NoStraySignal, GateBeforeReap, SealHeld, SealedDead,
     Supervision, Unspawned, SupervisorStage, Owners, CallPlaced, DroppedUnused
<1>3. Supervision'
  BY DEF Report, SupMoves, Gate, GateBeforeReap, SealHeld, Supervision, Unspawned,
     SupervisorStage, PermitHeld, Owners, CallPlaced, DroppedUnused
<1>4. Owners'
  BY DEF Report, SupMoves, Owners, CallPlaced, DroppedUnused, Supervision, Unspawned
<1> QED
  BY <1>1, <1>2, <1>3, <1>4

\* A dropped supervisor seals what it can; a held lock cannot be its own, and
\* no caller is left to hold it.
LEMMA SupervisorDroppedKeeps ==
  ASSUME LocalInv, NEW c \in Children, SupervisorDropped(c) PROVE LocalInv'
<1> USE ProcessAssumption DEF LocalInv, TypeOK, Nobody, Supervisor, Writer, NoCall, Steps,
        spawnVars, groupVars, supVars, ownerVars, history
<1>1. TypeOK'
  BY TrySealTyped DEF SupervisorDropped
<1>2. Gate'
  <2>1. sealer[c] = Nobody
    BY DEF SupervisorDropped, Gate, SealHeld, Owners, DroppedUnused
  <2>2. CASE active[c]
    BY <2>1, <2>2 DEF SupervisorDropped, TrySeal, Killed, Gate, NoStraySignal, GateBeforeReap,
       SealHeld, SealedDead, Supervision, SupervisorStage
  <2>3. CASE ~active[c]
    BY <2>1, <2>3 DEF SupervisorDropped, TrySeal, Gate, NoStraySignal, GateBeforeReap,
       SealHeld, SealedDead, Supervision, SupervisorStage
  <2> QED
    BY <2>2, <2>3
<1>3. Supervision'
  BY DEF SupervisorDropped, TrySeal, Killed, Gate, GateBeforeReap, SealHeld, Supervision,
     Unspawned, SupervisorStage, PermitHeld, Owners, CallPlaced, DroppedUnused
<1>4. Owners'
  BY DEF SupervisorDropped, Owners, CallPlaced, DroppedUnused, Supervision, Unspawned
<1> QED
  BY <1>1, <1>2, <1>3, <1>4

\* A write only takes the run's process lock.
LEMMA WriteBeginsKeeps ==
  ASSUME LocalInv, NEW c \in Children, WriteBegins(c) PROVE LocalInv'
<1> USE ProcessAssumption DEF LocalInv, TypeOK, Nobody, Supervisor, Writer, NoCall, Steps,
        spawnVars, groupVars, supVars, ownerVars, history
<1>1. TypeOK'
  BY DEF WriteBegins, Owners, CallPlaced
<1>2. Gate'
  BY DEF WriteBegins, Gate, NoStraySignal, GateBeforeReap, SealHeld, SealedDead,
     Supervision, Unspawned, SupervisorStage, Owners, CallPlaced, DroppedUnused
<1>3. Supervision'
  BY DEF WriteBegins, Gate, GateBeforeReap, SealHeld, Supervision, Unspawned,
     SupervisorStage, PermitHeld, Owners, CallPlaced, DroppedUnused
<1>4. Owners'
  BY DEF WriteBegins, Owners, CallPlaced, DroppedUnused, Supervision, Unspawned
<1> QED
  BY <1>1, <1>2, <1>3, <1>4

\* A write that ends only gives it back.
LEMMA WriteEndsKeeps ==
  ASSUME LocalInv, NEW c \in Children, WriteEnds(c) PROVE LocalInv'
<1> USE ProcessAssumption DEF LocalInv, TypeOK, Nobody, Supervisor, Writer, NoCall, Steps,
        spawnVars, groupVars, supVars, ownerVars, history
<1>1. TypeOK'
  BY DEF WriteEnds, Owners, CallPlaced
<1>2. Gate'
  BY DEF WriteEnds, Gate, NoStraySignal, GateBeforeReap, SealHeld, SealedDead, Supervision,
     Unspawned, SupervisorStage, Owners, CallPlaced, DroppedUnused
<1>3. Supervision'
  BY DEF WriteEnds, Gate, GateBeforeReap, SealHeld, Supervision, Unspawned, SupervisorStage,
     PermitHeld, Owners, CallPlaced, DroppedUnused
<1>4. Owners'
  BY DEF WriteEnds, Owners, CallPlaced, DroppedUnused, Supervision, Unspawned
<1> QED
  BY <1>1, <1>2, <1>3, <1>4

\* The drop of an unused handle kills a child that still runs.
LEMMA DropHandleKeeps ==
  ASSUME LocalInv, NEW c \in Children, DropHandle(c) PROVE LocalInv'
<1> USE ProcessAssumption DEF LocalInv, TypeOK, Nobody, Supervisor, Writer, NoCall, Steps,
        spawnVars, groupVars, supVars, ownerVars, history
<1>1. TypeOK'
  <2>1. CASE outcome[c] = "running"
    BY <2>1, TrySealTyped DEF DropHandle
  <2>2. CASE outcome[c] # "running"
    BY <2>2 DEF DropHandle
  <2> QED
    BY <2>1, <2>2
<1>2. Gate'
  BY DEF DropHandle, InUse, TrySeal, Killed, Gate, NoStraySignal, GateBeforeReap, SealHeld,
     SealedDead, Supervision, Unspawned, SupervisorStage, Owners, CallPlaced, DroppedUnused
<1>3. Supervision'
  BY DEF DropHandle, InUse, TrySeal, Killed, Gate, GateBeforeReap, SealHeld, Supervision,
     Unspawned, SupervisorStage, PermitHeld, Owners, CallPlaced, DroppedUnused
<1>4. Owners'
  BY DEF DropHandle, InUse, Owners, CallPlaced, DroppedUnused, Supervision, Unspawned
<1> QED
  BY <1>1, <1>2, <1>3, <1>4

\* A stop takes the run's process lock and goes on.
LEMMA TakeLockKeeps ==
  ASSUME LocalInv, NEW k \in Callers, TakeLock(k) PROVE LocalInv'
<1> USE ProcessAssumption DEF LocalInv, TypeOK, Nobody, Supervisor, Writer, NoCall, Steps,
        spawnVars, groupVars, supVars, ownerVars, history
<1>1. TypeOK'
  <2>1. call[k].child \in Children
    BY DEF TakeLock, Step, Owners, CallPlaced
  <2> QED
    BY <2>1 DEF TakeLock, Step
<1>2. Gate'
  BY DEF TakeLock, Step, Gate, NoStraySignal, GateBeforeReap, SealHeld, SealedDead,
     Supervision, Unspawned, SupervisorStage, Owners, CallPlaced, DroppedUnused
<1>3. Supervision'
  BY DEF TakeLock, Step, Gate, GateBeforeReap, SealHeld, Supervision, Unspawned,
     SupervisorStage, PermitHeld, Owners, CallPlaced, DroppedUnused
<1>4. Owners'
  BY DEF TakeLock, Step, Owners, CallPlaced, DroppedUnused, Supervision, Unspawned
<1> QED
  BY <1>1, <1>2, <1>3, <1>4

\* terminate looks at the outcome first.
LEMMA CheckCompletedKeeps ==
  ASSUME LocalInv, NEW k \in Callers, CheckCompleted(k) PROVE LocalInv'
<1> USE ProcessAssumption DEF LocalInv, TypeOK, Nobody, Supervisor, Writer, NoCall, Steps,
        spawnVars, groupVars, supVars, ownerVars, history
<1>1. TypeOK'
  BY DEF CheckCompleted, Step, Returned, Owners, CallPlaced
<1>2. Gate'
  BY DEF CheckCompleted, Step, Returned, Gate, NoStraySignal, GateBeforeReap, SealHeld,
     SealedDead, Supervision, Unspawned, SupervisorStage, Owners, CallPlaced, DroppedUnused
<1>3. Supervision'
  BY DEF CheckCompleted, Step, Returned, Gate, GateBeforeReap, SealHeld, Supervision,
     Unspawned, SupervisorStage, PermitHeld, Owners, CallPlaced, DroppedUnused
<1>4. Owners'
  BY DEF CheckCompleted, Step, Returned, Owners, CallPlaced, DroppedUnused, Supervision,
     Unspawned
<1> QED
  BY <1>1, <1>2, <1>3, <1>4

\* SIGTERM goes out under the identity lock, through an open gate.
LEMMA SendTermKeeps ==
  ASSUME LocalInv, NEW k \in Callers, SendTerm(k) PROVE LocalInv'
<1> USE ProcessAssumption DEF LocalInv, TypeOK, Nobody, Supervisor, Writer, NoCall, Steps,
        spawnVars, groupVars, supVars, ownerVars, history
<1>1. TypeOK'
  BY DEF SendTerm, Step, Returned, Gated, Fault, Owners, CallPlaced
<1>2. Gate'
  BY DEF SendTerm, Step, Returned, Gated, Fault, Gate, NoStraySignal, GateBeforeReap,
     SealHeld, SealedDead, Supervision, Unspawned, SupervisorStage, Owners, CallPlaced,
     DroppedUnused
<1>3. Supervision'
  BY DEF SendTerm, Step, Returned, Gated, Fault, Gate, GateBeforeReap, SealHeld,
     Supervision, Unspawned, SupervisorStage, PermitHeld, Owners, CallPlaced, DroppedUnused
<1>4. Owners'
  <2>1. CASE Step(k, "signalling", "grace")
    BY <2>1, StepOwners DEF SendTerm
  <2>2. CASE Returned(k)
    BY <2>2, ReturnedOwners DEF SendTerm
  <2> QED
    BY <2>1, <2>2 DEF SendTerm
<1> QED
  BY <1>1, <1>2, <1>3, <1>4

\* A call that sees the outcome returns.
LEMMA OutcomeArrivesKeeps ==
  ASSUME LocalInv, NEW k \in Callers, OutcomeArrives(k) PROVE LocalInv'
<1> USE ProcessAssumption DEF LocalInv, TypeOK, Nobody, Supervisor, Writer, NoCall, Steps,
        spawnVars, groupVars, supVars, ownerVars, history
<1>1. TypeOK'
  BY DEF OutcomeArrives, Returned, Owners, CallPlaced
<1>2. Gate'
  BY DEF OutcomeArrives, Returned, Gate, NoStraySignal, GateBeforeReap, SealHeld,
     SealedDead, Supervision, Unspawned, SupervisorStage, Owners, CallPlaced, DroppedUnused
<1>3. Supervision'
  BY DEF OutcomeArrives, Returned, Gate, GateBeforeReap, SealHeld, Supervision, Unspawned,
     SupervisorStage, PermitHeld, Owners, CallPlaced, DroppedUnused
<1>4. Owners'
  BY DEF OutcomeArrives, Returned, Owners, CallPlaced, DroppedUnused, Supervision, Unspawned
<1> QED
  BY <1>1, <1>2, <1>3, <1>4

\* The grace period ends while the child is running.
LEMMA GraceExpiresKeeps ==
  ASSUME LocalInv, NEW k \in Callers, GraceExpires(k) PROVE LocalInv'
<1> USE ProcessAssumption DEF LocalInv, TypeOK, Nobody, Supervisor, Writer, NoCall, Steps,
        spawnVars, groupVars, supVars, ownerVars, history
<1>1. TypeOK'
  BY DEF GraceExpires, Step, Owners, CallPlaced
<1>2. Gate'
  BY DEF GraceExpires, Step, Gate, NoStraySignal, GateBeforeReap, SealHeld, SealedDead,
     Supervision, Unspawned, SupervisorStage, Owners, CallPlaced, DroppedUnused
<1>3. Supervision'
  BY DEF GraceExpires, Step, Gate, GateBeforeReap, SealHeld, Supervision, Unspawned,
     SupervisorStage, PermitHeld, Owners, CallPlaced, DroppedUnused
<1>4. Owners'
  BY DEF GraceExpires, Step, Owners, CallPlaced, DroppedUnused, Supervision, Unspawned
<1> QED
  BY <1>1, <1>2, <1>3, <1>4

\* A caller takes the identity lock for the last signal, or finds the gate
\* closed.
LEMMA EscalateKeeps ==
  ASSUME LocalInv, NEW k \in Callers, Escalate(k) PROVE LocalInv'
<1> USE ProcessAssumption DEF LocalInv, TypeOK, Nobody, Supervisor, Writer, NoCall, Steps,
        spawnVars, groupVars, supVars, ownerVars, history
<1>1. TypeOK'
  <2>1. call[k].child \in Children
    BY DEF Escalate, Step, Owners, CallPlaced
  <2>2. CASE Step(k, "sealing", "closing") /\ SealSignals(call[k].child, k)
    BY <2>1, <2>2, SealTyped DEF Escalate, Step
  <2>3. CASE Step(k, "sealing", "waiting") /\ UNCHANGED <<groupVars, faults, stray, unsent>>
    BY <2>3 DEF Escalate, Step
  <2> QED
    BY <2>2, <2>3 DEF Escalate
<1>2. Gate'
  <2>1. call[k].child \in Children
    BY DEF Escalate, Step, Owners, CallPlaced
  <2>2. CASE Step(k, "sealing", "closing") /\ SealSignals(call[k].child, k)
    <3>1. SealHeld'
      BY <2>1, <2>2 DEF Escalate, Step, SealSignals, Gated, Gate, SealHeld
    <3>2. NoStraySignal' /\ GateBeforeReap' /\ SealedDead'
      BY <2>1, <2>2 DEF Escalate, SealSignals, Gated, Killed, Fault, Gate, NoStraySignal,
         GateBeforeReap, SealedDead
    <3> QED
      BY <3>1, <3>2 DEF Gate
  <2>3. CASE Step(k, "sealing", "waiting") /\ UNCHANGED <<groupVars, faults, stray, unsent>>
    BY <2>1, <2>3 DEF Escalate, Step, Gate, NoStraySignal, GateBeforeReap, SealHeld, SealedDead
  <2> QED
    BY <2>2, <2>3 DEF Escalate
<1>3. Supervision'
  BY DEF Escalate, Step, SealSignals, Gated, Killed, Fault, Gate, GateBeforeReap, SealHeld,
     Supervision, Unspawned, SupervisorStage, PermitHeld, Owners, CallPlaced, DroppedUnused
<1>4. Owners'
  <2>1. PICK to \in Steps : Step(k, "sealing", to)
    BY DEF Escalate
  <2> QED
    BY <2>1, StepOwners DEF Escalate
<1> QED
  BY <1>1, <1>2, <1>3, <1>4

\* A caller closes the gate it holds.
LEMMA EscalationClosesKeeps ==
  ASSUME LocalInv, NEW k \in Callers, EscalationCloses(k) PROVE LocalInv'
<1> USE ProcessAssumption DEF LocalInv, TypeOK, Nobody, Supervisor, Writer, NoCall, Steps,
        spawnVars, groupVars, supVars, ownerVars, history
<1>1. TypeOK'
  BY DEF EscalationCloses, Step, SealCloses, Returned, Owners, CallPlaced
<1>2. Gate'
  BY DEF EscalationCloses, Step, SealCloses, Returned, Gate, NoStraySignal, GateBeforeReap,
     SealHeld, SealedDead, Supervision, Unspawned, SupervisorStage, Owners, CallPlaced,
     DroppedUnused
<1>3. Supervision'
  BY DEF EscalationCloses, Step, SealCloses, Returned, Gate, GateBeforeReap, SealHeld,
     Supervision, Unspawned, SupervisorStage, PermitHeld, Owners, CallPlaced, DroppedUnused
<1>4. Owners'
  <2>1. CASE Step(k, "closing", "waiting") /\ UNCHANGED mutex
    BY <2>1, StepOwners DEF EscalationCloses
  <2>2. CASE Returned(k)
    BY <2>2, ReturnedOwners DEF EscalationCloses
  <2> QED
    BY <2>1, <2>2 DEF EscalationCloses
<1> QED
  BY <1>1, <1>2, <1>3, <1>4

\* A call begins on a handle that is held, never on a dropped one.
LEMMA TerminateBeginsKeeps ==
  ASSUME LocalInv, NEW k \in Callers, NEW c \in Children, TerminateBegins(k, c) PROVE LocalInv'
<1> USE ProcessAssumption DEF LocalInv, TypeOK, Nobody, Supervisor, Writer, NoCall, Steps,
        spawnVars, groupVars, supVars, ownerVars, history
<1>1. TypeOK'
  BY DEF TerminateBegins, Owners, CallPlaced
<1>2. Gate'
  BY DEF TerminateBegins, Gate, NoStraySignal, GateBeforeReap, SealHeld, SealedDead,
     Supervision, Unspawned, SupervisorStage, Owners, CallPlaced, DroppedUnused
<1>3. Supervision'
  BY DEF TerminateBegins, Gate, GateBeforeReap, SealHeld, Supervision, Unspawned,
     SupervisorStage, PermitHeld, Owners, CallPlaced, DroppedUnused
<1>4. Owners'
  BY DEF TerminateBegins, Owners, CallPlaced, DroppedUnused, Supervision, Unspawned
<1> QED
  BY <1>1, <1>2, <1>3, <1>4

-----------------------------------------------------------------------------
(* The permits.                                                            *)

\* acquire is the only step that takes a permit, and it finds one free.
LEMMA AcquireBounded ==
  ASSUME TypeOK, PermitsBounded, NEW c \in Children, Acquire(c)
  PROVE  PermitsBounded'
<1> DEFINE P == {d \in Children : permit[d]}
<1>1. {d \in Children : permit'[d]} = P \cup {c}
  BY DEF Acquire, TypeOK
<1>2. IsFiniteSet(P \cup {c}) /\ Cardinality(P \cup {c}) <= Cardinality(P) + 1
  BY FS_AddElement, FS_CardinalityType DEF PermitsBounded
<1>3. Cardinality(P) \in Nat /\ Cardinality(P) < Limit
  BY FS_CardinalityType DEF Acquire, ActiveCount, PermitsBounded
<1>4. Cardinality(P \cup {c}) \in Nat
  BY <1>2, FS_CardinalityType
<1> QED
  BY <1>1, <1>2, <1>3, <1>4, ProcessAssumption DEF PermitsBounded, ActiveCount

\* No other step raises the number of permits that are out.
LEMMA ShrinkBounded ==
  ASSUME PermitsBounded, \A c \in Children : permit'[c] => permit[c]
  PROVE  PermitsBounded'
<1> DEFINE P == {d \in Children : permit[d]}
           Q == {d \in Children : permit'[d]}
<1>1. Q \in SUBSET P
  OBVIOUS
<1>2. IsFiniteSet(P) /\ Cardinality(P) <= Limit
  BY DEF PermitsBounded, ActiveCount
<1>3. IsFiniteSet(Q) /\ Cardinality(Q) <= Cardinality(P)
  BY <1>1, <1>2, FS_Subset
<1>4. Cardinality(P) \in Nat /\ Cardinality(Q) \in Nat
  BY <1>2, <1>3, FS_CardinalityType
<1> QED
  BY <1>2, <1>3, <1>4, ProcessAssumption DEF PermitsBounded, ActiveCount

-----------------------------------------------------------------------------
\* The invariant holds before any child is asked for.
LEMMA InitInv == Init => IInv
<1> SUFFICES ASSUME Init PROVE IInv
  OBVIOUS
<1>1. LocalInv
  BY ProcessAssumption
  DEF Init, LocalInv, TypeOK, Gate, NoStraySignal, GateBeforeReap, SealHeld, SealedDead,
      Supervision, Unspawned, SupervisorStage, PermitHeld, Owners, CallPlaced, DroppedUnused,
      NoCall, Nobody, Supervisor, Writer, Steps
<1>2. {c \in Children : permit[c]} = {}
  BY DEF Init
<1> QED
  BY <1>1, <1>2, FS_EmptySet, ProcessAssumption DEF IInv, PermitsBounded, ActiveCount

\* Every step keeps it.
LEMMA StepInv == IInv /\ [Next]_vars => IInv'
<1> SUFFICES ASSUME IInv, [Next]_vars PROVE IInv'
  OBVIOUS
<1> USE DEF IInv
<1>1. CASE UNCHANGED vars
  <2>1. LocalInv'
    BY <1>1
    DEF vars, spawnVars, groupVars, supVars, ownerVars, history, LocalInv, TypeOK, Gate,
        NoStraySignal, GateBeforeReap, SealHeld, SealedDead, Supervision, Unspawned,
        SupervisorStage, PermitHeld, Owners, CallPlaced, DroppedUnused
  <2> QED
    BY <1>1, <2>1, ShrinkBounded DEF vars, spawnVars
<1>2. ASSUME NEW c \in Children, Acquire(c) PROVE IInv'
  BY <1>2, AcquireKeeps, AcquireBounded DEF LocalInv
<1>3. ASSUME NEW c \in Children,
             SpawnFails(c) \/ ClaimFails(c) \/ DropPermit(c) \/ SupervisorDropped(c)
      PROVE  IInv'
  <2>1. \A d \in Children : permit'[d] => permit[d]
    BY <1>3 DEF SpawnFails, ClaimFails, DropPermit, SupervisorDropped, LocalInv, TypeOK
  <2> QED
    BY <1>3, <2>1, ShrinkBounded, SpawnFailsKeeps, ClaimFailsKeeps, DropPermitKeeps,
       SupervisorDroppedKeeps
<1>4. ASSUME NEW c \in Children,
             \/ Spawned(c) \/ LeaderExits(c) \/ LeaderForks(c) \/ RuntimeReaps(c)
             \/ WriteBegins(c) \/ WriteEnds(c) \/ DropHandle(c)
      PROVE  IInv'
  <2>1. permit' = permit
    BY <1>4 DEF Spawned, LeaderExits, LeaderForks, RuntimeReaps, WriteBegins, WriteEnds,
       DropHandle, spawnVars
  <2> QED
    BY <1>4, <2>1, ShrinkBounded, SpawnedKeeps, LeaderExitsKeeps, LeaderForksKeeps,
       RuntimeReapsKeeps, WriteBeginsKeeps, WriteEndsKeeps, DropHandleKeeps
<1>5. ASSUME NEW c \in Children, Observe(c) \/ SupSeals(c) \/ SupCloses(c) \/ Reap(c) \/ Report(c)
      PROVE  IInv'
  <2>1. permit' = permit
    BY <1>5 DEF Observe, SupSeals, SupCloses, Reap, Report, spawnVars
  <2> QED
    BY <1>5, <2>1, ShrinkBounded, ObserveKeeps, SupSealsKeeps, SupClosesKeeps, ReapKeeps,
       ReportKeeps
<1>6. ASSUME NEW k \in Callers, CallerStep(k)
      PROVE  IInv'
  <2>1. permit' = permit
    BY <1>6 DEF CallerStep, TakeLock, CheckCompleted, SendTerm, OutcomeArrives, GraceExpires,
       Escalate, EscalationCloses, spawnVars
  <2> QED
    BY <1>6, <2>1, ShrinkBounded, TakeLockKeeps, CheckCompletedKeeps, SendTermKeeps,
       OutcomeArrivesKeeps, GraceExpiresKeeps, EscalateKeeps, EscalationClosesKeeps
    DEF CallerStep
<1>7. ASSUME NEW k \in Callers, NEW c \in Children, TerminateBegins(k, c)
      PROVE  IInv'
  <2>1. permit' = permit
    BY <1>7 DEF TerminateBegins, spawnVars
  <2> QED
    BY <1>7, <2>1, ShrinkBounded, TerminateBeginsKeeps
<1> QED
  BY <1>1, <1>2, <1>3, <1>4, <1>5, <1>6, <1>7 DEF Next, SupervisorStep

\* The invariant is one: whatever supervisors, callers and drops do.
THEOREM Invariance == Spec => []IInv
BY InitInv, StepInv, PTL DEF Spec

-----------------------------------------------------------------------------
(* What follows from it.                                                   *)

\* A child that the kernel still knows and a supervisor watches has a permit,
\* and there are no more permits than the semaphore gives out.
LEMMA LimitKept == IInv => WithinLimit
<1> SUFFICES ASSUME IInv PROVE WithinLimit
  OBVIOUS
<1> DEFINE P == {c \in Children : permit[c]}
           Q == {c \in Children : /\ leader[c] \in {"live", "zombie"}
                                  /\ sup[c] \notin {"none", "dropped"}}
<1>1. Q \in SUBSET P
  BY DEF IInv, LocalInv, TypeOK, Supervision, SupervisorStage, PermitHeld
<1>2. IsFiniteSet(P) /\ Cardinality(P) <= Limit
  BY DEF IInv, PermitsBounded, ActiveCount
<1>3. IsFiniteSet(Q) /\ Cardinality(Q) <= Cardinality(P)
  BY <1>1, <1>2, FS_Subset
<1>4. Cardinality(P) \in Nat /\ Cardinality(Q) \in Nat
  BY <1>2, <1>3, FS_CardinalityType
<1> QED
  BY <1>2, <1>3, <1>4, ProcessAssumption DEF WithinLimit

\* A child that is reported as exited has been reaped behind a closed gate.
LEMMA ExitedIsDead == IInv => NothingSurvives
BY DEF IInv, LocalInv, TypeOK, Gate, SealedDead, Supervision, SupervisorStage, PermitHeld,
   NothingSurvives

\* No signal reaches a group whose leader has been reaped, nothing outlives
\* the report of its exit, and the children under supervision stay within the
\* limit (process_group.rs, structured.rs, pty.rs).
THEOREM Containment == Spec => []ProcessesContained
<1>1. IInv => ProcessesContained
  BY LimitKept, ExitedIsDead DEF IInv, LocalInv, Gate, ProcessesContained
<1> QED
  BY <1>1, Invariance, PTL

-----------------------------------------------------------------------------
(* The refinement of ProcessContract: a child is gone when a spawned leader *)
(* has been reaped.                                                        *)

Gone == [c \in Children |-> outcome[c] # "absent" /\ leader[c] = "reaped"]

\* A step that reports nothing and reaps no spawned child is not seen.
LEMMA Unseen ==
  ASSUME outcome' = outcome, Gone' = Gone
  PROVE  UNCHANGED Contract!contractVars
BY DEF Contract!contractVars, Gone

\* A leader that is killed, or whose group is left alone, is not reaped by it.
LEMMA KilledNotReaped ==
  ASSUME TypeOK, NEW c \in Children, Killed(c) \/ leader' = leader
  PROVE  \A d \in Children : leader'[d] = "reaped" <=> leader[d] = "reaped"
BY DEF TypeOK, Killed

\* The same of the first half of seal, and of try_seal.
LEMMA SealNotReaped ==
  ASSUME TypeOK, NEW c \in Children, NEW who, SealSignals(c, who) \/ TrySeal(c)
  PROVE  \A d \in Children : leader'[d] = "reaped" <=> leader[d] = "reaped"
<1>1. Killed(c) \/ leader' = leader
  BY DEF SealSignals, TrySeal
<1> QED
  BY <1>1, KilledNotReaped

\* Where the outcome stands and the same leaders are reaped, nobody new is gone.
LEMMA GoneKept ==
  ASSUME outcome' = outcome,
         \A d \in Children : leader'[d] = "reaped" <=> leader[d] = "reaped"
  PROVE  UNCHANGED Contract!contractVars
<1>1. Gone' = Gone
  BY DEF Gone
<1> QED
  BY <1>1, Unseen

\* What a spawn publishes is the start of the contract: its leader is alive.
LEMMA SpawnedMaps ==
  ASSUME IInv, NEW c \in Children, Spawned(c)
  PROVE  Contract!Begins(c)
<1> USE DEF IInv, LocalInv, TypeOK, Supervision, Unspawned, SupervisorStage
<1>1. outcome[c] = "absent" /\ outcome' = [outcome EXCEPT ![c] = "running"]
  BY DEF Spawned
<1>2. Gone' = Gone
  BY <1>1 DEF Spawned, Gone
<1> QED
  BY <1>1, <1>2 DEF Contract!Begins, Gone

\* A spawned leader that is reaped, by its supervisor or by the runtime after
\* the supervisor was dropped, has no final outcome other than a failure.
LEMMA ReapedMaps ==
  ASSUME IInv, NEW c \in Children, outcome[c] \in {"running", "failed"}, leader[c] = "zombie",
         leader' = [leader EXCEPT ![c] = "reaped"], outcome' = outcome
  PROVE  Contract!Vanishes(c)
<1>1. Gone' = [Gone EXCEPT ![c] = TRUE] /\ ~Gone[c]
  BY DEF Gone, IInv, LocalInv, TypeOK
<1> QED
  BY <1>1 DEF Contract!Vanishes, Gone

\* What report publishes after the reap is an exit or a failure.
LEMMA ReportMaps ==
  ASSUME IInv, NEW c \in Children, Report(c)
  PROVE  Contract!ReportsExit(c) \/ Contract!ReportsFailure(c)
<1> USE DEF IInv, LocalInv, TypeOK, Supervision, SupervisorStage
<1>1. outcome[c] = "running" /\ leader[c] = "reaped" /\ leader' = leader
  BY DEF Report, SupMoves, groupVars
<1>2. Gone[c] /\ Gone' = Gone
  BY <1>1 DEF Report, Gone
<1>3. outcome' = [outcome EXCEPT ![c] = "exited"] \/ outcome' = [outcome EXCEPT ![c] = "failed"]
  BY DEF Report
<1> QED
  BY <1>1, <1>2, <1>3 DEF Contract!ReportsExit, Contract!ReportsFailure, Gone

\* A supervisor that is dropped leaves a failure and a leader not yet reaped.
LEMMA DroppedMaps ==
  ASSUME IInv, NEW c \in Children, SupervisorDropped(c)
  PROVE  Contract!ReportsFailure(c)
<1> USE DEF IInv, LocalInv, TypeOK, Supervision, SupervisorStage
<1>1. outcome[c] = "running" /\ outcome' = [outcome EXCEPT ![c] = "failed"]
  BY DEF SupervisorDropped
<1>2. \A d \in Children : leader'[d] = "reaped" <=> leader[d] = "reaped"
  BY SealNotReaped DEF SupervisorDropped
<1>3. Gone' = Gone
  BY <1>1, <1>2 DEF Gone
<1> QED
  BY <1>1, <1>3 DEF Contract!ReportsFailure, Gone

\* Every step of the implementation is a step of the contract or is not seen.
LEMMA StepMaps ==
  IInv /\ [Next]_vars => [Contract!ContractNext]_(Contract!contractVars)
<1> SUFFICES ASSUME IInv, [Next]_vars
             PROVE  Contract!ContractNext \/ UNCHANGED Contract!contractVars
  OBVIOUS
<1> USE DEF spawnVars, groupVars, supVars, ownerVars
<1>a. TypeOK /\ Unspawned /\ SupervisorStage
  BY DEF IInv, LocalInv, Supervision
<1>1. CASE UNCHANGED vars
  BY <1>1, GoneKept DEF vars
<1>2. ASSUME NEW c \in Children, Spawned(c) \/ Report(c) \/ SupervisorDropped(c)
      PROVE  Contract!ContractNext
  BY <1>2, SpawnedMaps, ReportMaps, DroppedMaps DEF Contract!ContractNext
<1>3. ASSUME NEW c \in Children, Reap(c)
      PROVE  Contract!ContractNext
  <2>1. outcome[c] = "running"
    BY <1>3, <1>a DEF Reap, SupMoves, SupervisorStage
  <2> QED
    BY <1>3, <2>1, ReapedMaps DEF Reap, Contract!ContractNext
<1>4. ASSUME NEW c \in Children, RuntimeReaps(c)
      PROVE  Contract!ContractNext \/ UNCHANGED Contract!contractVars
  <2>1. CASE stage[c] = "refused"
    <3>1. outcome[c] = "absent" /\ outcome' = outcome
      BY <1>4, <1>a, <2>1 DEF RuntimeReaps, SupervisorStage
    <3>2. Gone' = Gone
      BY <1>4, <1>a, <3>1 DEF RuntimeReaps, Gone, TypeOK
    <3> QED
      BY <3>1, <3>2, Unseen
  <2>2. CASE sup[c] = "dropped"
    <3>1. outcome[c] = "failed"
      BY <1>a, <2>2 DEF SupervisorStage, TypeOK
    <3> QED
      BY <1>4, <3>1, ReapedMaps DEF RuntimeReaps, Contract!ContractNext
  <2> QED
    BY <1>4, <2>1, <2>2 DEF RuntimeReaps
<1>5. ASSUME NEW c \in Children, ClaimFails(c)
      PROVE  UNCHANGED Contract!contractVars
  <2>1. outcome[c] = "absent" /\ outcome' = outcome
    BY <1>5, <1>a DEF ClaimFails, SupervisorStage
  <2>2. Gone' = Gone
    BY <1>5, <1>a, <2>1 DEF ClaimFails, Gone, TypeOK
  <2> QED
    BY <2>1, <2>2, Unseen
<1>6. ASSUME NEW c \in Children,
             Acquire(c) \/ SpawnFails(c) \/ LeaderForks(c) \/ Observe(c) \/ DropPermit(c)
             \/ WriteBegins(c) \/ WriteEnds(c)
      PROVE  UNCHANGED Contract!contractVars
  <2>1. leader' = leader /\ outcome' = outcome
    BY <1>6 DEF Acquire, SpawnFails, LeaderForks, Observe, DropPermit, WriteBegins, WriteEnds
  <2> QED
    BY <2>1, GoneKept
<1>7. ASSUME NEW c \in Children, LeaderExits(c) \/ SupCloses(c)
      PROVE  UNCHANGED Contract!contractVars
  <2>1. outcome' = outcome /\ \A d \in Children : leader'[d] = "reaped" <=> leader[d] = "reaped"
    BY <1>7, <1>a DEF LeaderExits, SupCloses, TypeOK
  <2> QED
    BY <2>1, GoneKept
<1>8. ASSUME NEW c \in Children, SupSeals(c) \/ DropHandle(c)
      PROVE  UNCHANGED Contract!contractVars
  <2>1. outcome' = outcome /\ (SealSignals(c, Supervisor) \/ TrySeal(c) \/ leader' = leader)
    BY <1>8 DEF SupSeals, DropHandle
  <2>2. \A d \in Children : leader'[d] = "reaped" <=> leader[d] = "reaped"
    BY <1>a, <2>1, SealNotReaped, KilledNotReaped
  <2> QED
    BY <2>1, <2>2, GoneKept
<1>9. ASSUME NEW k \in Callers, CallerStep(k) \/ \E c \in Children : TerminateBegins(k, c)
      PROVE  UNCHANGED Contract!contractVars
  <2>1. CASE Escalate(k)
    <3>1. outcome' = outcome /\ (SealSignals(call[k].child, k) \/ leader' = leader)
      BY <2>1 DEF Escalate
    <3>2. call[k].child \in Children
      BY <2>1 DEF Escalate, Step, IInv, LocalInv, Owners, CallPlaced
    <3>3. \A d \in Children : leader'[d] = "reaped" <=> leader[d] = "reaped"
      BY <1>a, <3>1, <3>2, SealNotReaped
    <3> QED
      BY <3>1, <3>3, GoneKept
  <2>2. CASE ~Escalate(k)
    <3>1. leader' = leader /\ outcome' = outcome
      BY <1>9, <2>2 DEF CallerStep, TakeLock, CheckCompleted, SendTerm, OutcomeArrives,
         GraceExpires, EscalationCloses, TerminateBegins
    <3> QED
      BY <3>1, GoneKept
  <2> QED
    BY <2>1, <2>2
<1> QED
  BY <1>1, <1>2, <1>3, <1>4, <1>5, <1>6, <1>7, <1>8, <1>9 DEF Next, SupervisorStep

\* The lifecycle channel keeps its contract: "running" once the child is
\* spawned, then one final outcome for ever, and an exit only of a leader that
\* has been reaped (lifecycle.rs, structured.rs, pty.rs).
THEOREM ContractImplemented == Spec => ContractKept
<1>1. Init => Contract!ContractInit
  BY DEF Init, Contract!ContractInit
<1> QED
  BY <1>1, StepMaps, Invariance, PTL DEF Spec, ContractKept, Contract!ContractSpec
=============================================================================
