---------------------- MODULE SessionSupervisorProofs ----------------------
(***************************************************************************)
(* Proofs about SessionSupervisor, for any number of runs, sessions and    *)
(* bindings.  OneWriter is not inductive: it needs LeaseHeld, which ties   *)
(* every stage of a launch and of a run to the entry of binding_writers    *)
(* that protects it, and ChildPlaced, which says at which stages a child   *)
(* can be alive at all.                                                    *)
(***************************************************************************)
EXTENDS SessionSupervisor, TLAPS

\* Only an attempt that has not begun has no session.
Placed ==
  \A l \in Runs : pc[l] = "new" <=> session[l] = NoSession

\* A child exists only where the code holds a handle to it.
ChildPlaced ==
  \A l \in Runs : process[l] = "alive" =>
    pc[l] \in {"spawned", "installed", "announcing", "supervised", "orphaned"}

\* The lease of a guarded launch, of a spawned child and of a supervised run
\* is the one in binding_writers; up to the guard's end it is the one asked for.
LeaseHeld ==
  \A l \in Runs :
    /\ pc[l] \in {"guarded", "resetting", "spawning"} /\ want[l] # NoBinding
         => writers[want[l]] = l
    /\ pc[l] \in {"spawned", "installed", "announcing", "supervised"}
         /\ leased[l] # NoBinding => writers[leased[l]] = l
    /\ pc[l] \in {"spawned", "installed"} => leased[l] = want[l]

IInv ==
  /\ TypeOK /\ Placed /\ ChildPlaced /\ LeaseHeld
  /\ OneActiveRun /\ NoLeaseLeak /\ LaunchExclusive

-----------------------------------------------------------------------------
\* The invariant holds of a supervisor without sessions.
LEMMA InitInv == Init => IInv
BY SupervisorAssumption
DEF Init, IInv, TypeOK, Placed, ChildPlaced, LeaseHeld, OneActiveRun, NoLeaseLeak,
    LaunchExclusive, Inside, SessionState, Progress

\* set_state keeps to the lifecycle states.
LEMMA SetStateType ==
  ASSUME NEW from \in SessionState, NEW to \in SessionState
  PROVE  SetState(from, to) \in SessionState
BY DEF SetState

\* An attempt under way belongs to a session.
LEMMA SessionPlaced ==
  ASSUME TypeOK, Placed, NEW l \in Runs, pc[l] # "new"
  PROVE  session[l] \in Sessions
BY DEF TypeOK, Placed

\* Every action keeps the types.
LEMMA StepType ==
  ASSUME TypeOK, Placed, [Next]_vars
  PROVE  TypeOK'
<1> USE SupervisorAssumption DEF At, Goto, records, sessionsMap, attempt, child
<1>1. CASE UNCHANGED vars
  BY <1>1 DEF vars, TypeOK
<1>2. ASSUME NEW l \in Runs, \E s \in Sessions, b \in Bindings \cup {NoBinding} :
               Start(l, s, b)
      PROVE  TypeOK'
  BY <1>2
  DEF Start, TypeOK, Progress
<1>3. ASSUME NEW l \in Runs, \E s \in Sessions, b \in Bindings \cup {NoBinding} :
               Resume(l, s, b)
      PROVE  TypeOK'
  BY <1>3
  DEF Resume, TypeOK, Progress
<1>4. ASSUME NEW l \in Runs, BeginLaunch(l)
      PROVE  TypeOK'
  <2>1. session[l] \in Sessions
    BY <1>4, SessionPlaced DEF BeginLaunch
  <2>2. \/ launching' = [launching EXCEPT ![session[l]] = TRUE]
        \/ launching' = launching
    BY <1>4 DEF BeginLaunch
  <2>3. launching' \in [Sessions -> BOOLEAN]
    BY <2>1, <2>2 DEF TypeOK
  <2>4. writers' \in [Bindings -> Runs \cup {NoRun}]
    BY <1>4 DEF BeginLaunch, TypeOK
  <2>5. /\ activeRun' \in [Sessions -> Runs \cup {NoRun}]
        /\ process' \in [Runs -> {"none", "alive", "gone"}]
        /\ pc' \in [Runs -> Progress]
    BY <1>4, <2>1 DEF BeginLaunch, TypeOK, Progress
  <2> QED
    BY <1>4, <2>3, <2>4, <2>5 DEF BeginLaunch, TypeOK
<1>5. ASSUME NEW l \in Runs, ClaimBinding(l)
      PROVE  TypeOK'
  <2>1. session[l] \in Sessions
    BY <1>5, SessionPlaced DEF ClaimBinding
  <2>2. \/ launching' = [launching EXCEPT ![session[l]] = FALSE]
        \/ launching' = launching
    BY <1>5 DEF ClaimBinding
  <2>3. launching' \in [Sessions -> BOOLEAN]
    BY <2>1, <2>2 DEF TypeOK
  <2>4. writers' \in [Bindings -> Runs \cup {NoRun}]
    BY <1>5 DEF ClaimBinding, Claimed, TypeOK
  <2>5. /\ activeRun' \in [Sessions -> Runs \cup {NoRun}]
        /\ process' \in [Runs -> {"none", "alive", "gone"}]
        /\ pc' \in [Runs -> Progress]
    BY <1>5, <2>1 DEF ClaimBinding, TypeOK, Progress
  <2> QED
    BY <1>5, <2>3, <2>4, <2>5 DEF ClaimBinding, TypeOK
<1>6. ASSUME NEW l \in Runs, Forget(l)
      PROVE  TypeOK'
  BY <1>6, SessionPlaced
  DEF Forget, TypeOK, Progress
<1>7. ASSUME NEW l \in Runs, SetStarting(l)
      PROVE  TypeOK'
  BY <1>7, SetStateType, SessionPlaced
  DEF SetStarting, TypeOK, Progress, SessionState
<1>8. ASSUME NEW l \in Runs, ResetData(l)
      PROVE  TypeOK'
  BY <1>8, SessionPlaced
  DEF ResetData, TypeOK, Progress
<1>9. ASSUME NEW l \in Runs, Spawned(l)
      PROVE  TypeOK'
  BY <1>9, SessionPlaced
  DEF Spawned, TypeOK, Progress
<1>10. ASSUME NEW l \in Runs, SpawnFails(l)
      PROVE  TypeOK'
  BY <1>10, SessionPlaced
  DEF SpawnFails, DropGuard, Released, TypeOK, Progress, SessionState
<1>11. ASSUME NEW l \in Runs, Commit(l)
      PROVE  TypeOK'
  <2>1. session[l] \in Sessions
    BY <1>11, SessionPlaced DEF Commit
  <2>2. \/ launching' = [launching EXCEPT ![session[l]] = FALSE]
        \/ launching' = launching
    BY <1>11 DEF Commit, DropGuard
  <2>3. launching' \in [Sessions -> BOOLEAN]
    BY <2>1, <2>2 DEF TypeOK
  <2>4. writers' \in [Bindings -> Runs \cup {NoRun}]
    BY <1>11 DEF Commit, DropGuard, Released, TypeOK
  <2>5. /\ activeRun' \in [Sessions -> Runs \cup {NoRun}]
        /\ process' \in [Runs -> {"none", "alive", "gone"}]
        /\ pc' \in [Runs -> Progress]
    BY <1>11, <2>1 DEF Commit, TypeOK, Progress
  <2> QED
    BY <1>11, <2>3, <2>4, <2>5 DEF Commit, TypeOK
<1>12. ASSUME NEW l \in Runs, CommitGuard(l)
      PROVE  TypeOK'
  BY <1>12, SessionPlaced
  DEF CommitGuard, TypeOK, Progress
<1>13. ASSUME NEW l \in Runs, Supervise(l)
      PROVE  TypeOK'
  BY <1>13, SessionPlaced
  DEF Supervise, TypeOK, Progress
<1>14. ASSUME NEW l \in Runs, AbortLaunch(l)
      PROVE  TypeOK'
  <2>1. session[l] \in Sessions
    BY <1>14, SessionPlaced DEF AbortLaunch
  <2>2. \/ launching' = [launching EXCEPT ![session[l]] = FALSE]
        \/ launching' = launching
    BY <1>14 DEF AbortLaunch, DropGuard
  <2>3. launching' \in [Sessions -> BOOLEAN]
    BY <2>1, <2>2 DEF TypeOK
  <2>4. writers' \in [Bindings -> Runs \cup {NoRun}]
    BY <1>14 DEF AbortLaunch, DropGuard, Released, TypeOK
  <2>5. /\ activeRun' \in [Sessions -> Runs \cup {NoRun}]
        /\ process' \in [Runs -> {"none", "alive", "gone"}]
        /\ pc' \in [Runs -> Progress]
    BY <1>14, <2>1 DEF AbortLaunch, TypeOK, Progress
  <2> QED
    BY <1>14, <2>3, <2>4, <2>5 DEF AbortLaunch, TypeOK
<1>15. ASSUME NEW l \in Runs, \E b \in Bindings : BindingFrame(l, b)
      PROVE  TypeOK'
  BY <1>15, SessionPlaced
  DEF BindingFrame, Claimed, TypeOK, Progress, SessionState
<1>16. ASSUME NEW l \in Runs, Exits(l)
      PROVE  TypeOK'
  BY <1>16, SessionPlaced
  DEF Exits, TypeOK, Progress
<1>17. ASSUME NEW l \in Runs, FreeLease(l)
      PROVE  TypeOK'
  BY <1>17, SessionPlaced
  DEF FreeLease, Released, TypeOK, Progress
<1>18. ASSUME NEW l \in Runs, Conclude(l)
      PROVE  TypeOK'
  BY <1>18, SessionPlaced
  DEF Conclude, TypeOK, Progress, SessionState, FinalStates
<1> QED
  BY <1>1, <1>2, <1>3, <1>4, <1>5, <1>6, <1>7, <1>8, <1>9, <1>10, <1>11,
     <1>12, <1>13, <1>14, <1>15, <1>16, <1>17, <1>18 DEF Next, LaunchStep,
     RunStep

\* Start and Resume place an attempt, nothing displaces it.
LEMMA StepPlaced ==
  ASSUME IInv, [Next]_vars
  PROVE  Placed'
<1> USE SupervisorAssumption
    DEF IInv, TypeOK, At, Goto, records, sessionsMap, attempt, child
<1>1. CASE UNCHANGED vars
  BY <1>1 DEF vars, Placed
<1>2. ASSUME NEW l \in Runs, \E s \in Sessions, b \in Bindings \cup {NoBinding} :
               Start(l, s, b)
      PROVE  Placed'
  BY <1>2 DEF Start, Placed
<1>3. ASSUME NEW l \in Runs, \E s \in Sessions, b \in Bindings \cup {NoBinding} :
               Resume(l, s, b)
      PROVE  Placed'
  BY <1>3 DEF Resume, Placed
<1>4. ASSUME NEW l \in Runs, BeginLaunch(l)
      PROVE  Placed'
  BY <1>4 DEF BeginLaunch, Placed
<1>5. ASSUME NEW l \in Runs, ClaimBinding(l)
      PROVE  Placed'
  BY <1>5 DEF ClaimBinding, CanClaim, Claimed, Placed
<1>6. ASSUME NEW l \in Runs, Forget(l)
      PROVE  Placed'
  BY <1>6 DEF Forget, Placed
<1>7. ASSUME NEW l \in Runs, SetStarting(l)
      PROVE  Placed'
  BY <1>7 DEF SetStarting, Placed
<1>8. ASSUME NEW l \in Runs, ResetData(l)
      PROVE  Placed'
  BY <1>8 DEF ResetData, Placed
<1>9. ASSUME NEW l \in Runs, Spawned(l)
      PROVE  Placed'
  BY <1>9 DEF Spawned, Placed
<1>10. ASSUME NEW l \in Runs, SpawnFails(l)
      PROVE  Placed'
  BY <1>10 DEF SpawnFails, DropGuard, Released, Placed
<1>11. ASSUME NEW l \in Runs, Commit(l)
      PROVE  Placed'
  BY <1>11 DEF Commit, DropGuard, Released, Placed
<1>12. ASSUME NEW l \in Runs, CommitGuard(l)
      PROVE  Placed'
  BY <1>12 DEF CommitGuard, Placed
<1>13. ASSUME NEW l \in Runs, Supervise(l)
      PROVE  Placed'
  BY <1>13 DEF Supervise, Placed
<1>14. ASSUME NEW l \in Runs, AbortLaunch(l)
      PROVE  Placed'
  BY <1>14 DEF AbortLaunch, DropGuard, Released, Placed
<1>15. ASSUME NEW l \in Runs, \E b \in Bindings : BindingFrame(l, b)
      PROVE  Placed'
  BY <1>15 DEF BindingFrame, CanClaim, Claimed, Placed
<1>16. ASSUME NEW l \in Runs, Exits(l)
      PROVE  Placed'
  BY <1>16 DEF Exits, Placed
<1>17. ASSUME NEW l \in Runs, FreeLease(l)
      PROVE  Placed'
  BY <1>17 DEF FreeLease, Released, Placed
<1>18. ASSUME NEW l \in Runs, Conclude(l)
      PROVE  Placed'
  BY <1>18 DEF Conclude, Placed
<1> QED
  BY <1>1, <1>2, <1>3, <1>4, <1>5, <1>6, <1>7, <1>8, <1>9, <1>10, <1>11,
     <1>12, <1>13, <1>14, <1>15, <1>16, <1>17, <1>18 DEF Next, LaunchStep,
     RunStep

\* A child is gone before its run leaves the stages with a handle.
LEMMA StepChild ==
  ASSUME IInv, [Next]_vars
  PROVE  ChildPlaced'
<1> USE SupervisorAssumption
    DEF IInv, TypeOK, At, Goto, records, sessionsMap, attempt, child
<1>1. CASE UNCHANGED vars
  BY <1>1 DEF vars, ChildPlaced
<1>2. ASSUME NEW l \in Runs, \E s \in Sessions, b \in Bindings \cup {NoBinding} :
               Start(l, s, b)
      PROVE  ChildPlaced'
  BY <1>2 DEF Start, ChildPlaced
<1>3. ASSUME NEW l \in Runs, \E s \in Sessions, b \in Bindings \cup {NoBinding} :
               Resume(l, s, b)
      PROVE  ChildPlaced'
  BY <1>3 DEF Resume, ChildPlaced
<1>4. ASSUME NEW l \in Runs, BeginLaunch(l)
      PROVE  ChildPlaced'
  BY <1>4 DEF BeginLaunch, ChildPlaced
<1>5. ASSUME NEW l \in Runs, ClaimBinding(l)
      PROVE  ChildPlaced'
  BY <1>5 DEF ClaimBinding, CanClaim, Claimed, ChildPlaced
<1>6. ASSUME NEW l \in Runs, Forget(l)
      PROVE  ChildPlaced'
  BY <1>6 DEF Forget, ChildPlaced
<1>7. ASSUME NEW l \in Runs, SetStarting(l)
      PROVE  ChildPlaced'
  BY <1>7 DEF SetStarting, ChildPlaced
<1>8. ASSUME NEW l \in Runs, ResetData(l)
      PROVE  ChildPlaced'
  BY <1>8 DEF ResetData, ChildPlaced
<1>9. ASSUME NEW l \in Runs, Spawned(l)
      PROVE  ChildPlaced'
  BY <1>9 DEF Spawned, ChildPlaced
<1>10. ASSUME NEW l \in Runs, SpawnFails(l)
      PROVE  ChildPlaced'
  BY <1>10 DEF SpawnFails, DropGuard, Released, ChildPlaced
<1>11. ASSUME NEW l \in Runs, Commit(l)
      PROVE  ChildPlaced'
  BY <1>11 DEF Commit, DropGuard, Released, ChildPlaced
<1>12. ASSUME NEW l \in Runs, CommitGuard(l)
      PROVE  ChildPlaced'
  BY <1>12 DEF CommitGuard, ChildPlaced
<1>13. ASSUME NEW l \in Runs, Supervise(l)
      PROVE  ChildPlaced'
  BY <1>13 DEF Supervise, ChildPlaced
<1>14. ASSUME NEW l \in Runs, AbortLaunch(l)
      PROVE  ChildPlaced'
  BY <1>14 DEF AbortLaunch, DropGuard, Released, ChildPlaced
<1>15. ASSUME NEW l \in Runs, \E b \in Bindings : BindingFrame(l, b)
      PROVE  ChildPlaced'
  BY <1>15 DEF BindingFrame, CanClaim, Claimed, ChildPlaced
<1>16. ASSUME NEW l \in Runs, Exits(l)
      PROVE  ChildPlaced'
  BY <1>16 DEF Exits, ChildPlaced
<1>17. ASSUME NEW l \in Runs, FreeLease(l)
      PROVE  ChildPlaced'
  BY <1>17 DEF FreeLease, Released, ChildPlaced
<1>18. ASSUME NEW l \in Runs, Conclude(l)
      PROVE  ChildPlaced'
  BY <1>18 DEF Conclude, ChildPlaced
<1> QED
  BY <1>1, <1>2, <1>3, <1>4, <1>5, <1>6, <1>7, <1>8, <1>9, <1>10, <1>11,
     <1>12, <1>13, <1>14, <1>15, <1>16, <1>17, <1>18 DEF Next, LaunchStep,
     RunStep

\* Leases are taken when free and given back only by their holder.
LEMMA StepLease ==
  ASSUME IInv, [Next]_vars
  PROVE  LeaseHeld'
<1> USE SupervisorAssumption
    DEF IInv, TypeOK, At, Goto, records, sessionsMap, attempt, child
<1>1. CASE UNCHANGED vars
  BY <1>1 DEF vars, LeaseHeld, Placed
<1>2. ASSUME NEW l \in Runs, \E s \in Sessions, b \in Bindings \cup {NoBinding} :
               Start(l, s, b)
      PROVE  LeaseHeld'
  BY <1>2 DEF Start, LeaseHeld, Placed
<1>3. ASSUME NEW l \in Runs, \E s \in Sessions, b \in Bindings \cup {NoBinding} :
               Resume(l, s, b)
      PROVE  LeaseHeld'
  BY <1>3 DEF Resume, LeaseHeld, Placed
<1>4. ASSUME NEW l \in Runs, BeginLaunch(l)
      PROVE  LeaseHeld'
  BY <1>4 DEF BeginLaunch, LeaseHeld, Placed
<1>5. ASSUME NEW l \in Runs, ClaimBinding(l)
      PROVE  LeaseHeld'
  BY <1>5 DEF ClaimBinding, CanClaim, Claimed, LeaseHeld, Placed
<1>6. ASSUME NEW l \in Runs, Forget(l)
      PROVE  LeaseHeld'
  BY <1>6 DEF Forget, LeaseHeld, Placed
<1>7. ASSUME NEW l \in Runs, SetStarting(l)
      PROVE  LeaseHeld'
  BY <1>7 DEF SetStarting, LeaseHeld, Placed
<1>8. ASSUME NEW l \in Runs, ResetData(l)
      PROVE  LeaseHeld'
  BY <1>8 DEF ResetData, LeaseHeld, Placed
<1>9. ASSUME NEW l \in Runs, Spawned(l)
      PROVE  LeaseHeld'
  BY <1>9 DEF Spawned, LeaseHeld, Placed
<1>10. ASSUME NEW l \in Runs, SpawnFails(l)
      PROVE  LeaseHeld'
  BY <1>10 DEF SpawnFails, DropGuard, Released, LeaseHeld, Placed
<1>11. ASSUME NEW l \in Runs, Commit(l)
      PROVE  LeaseHeld'
  BY <1>11 DEF Commit, DropGuard, Released, LeaseHeld, Placed
<1>12. ASSUME NEW l \in Runs, CommitGuard(l)
      PROVE  LeaseHeld'
  BY <1>12 DEF CommitGuard, LeaseHeld, Placed
<1>13. ASSUME NEW l \in Runs, Supervise(l)
      PROVE  LeaseHeld'
  BY <1>13 DEF Supervise, LeaseHeld, Placed
<1>14. ASSUME NEW l \in Runs, AbortLaunch(l)
      PROVE  LeaseHeld'
  BY <1>14 DEF AbortLaunch, DropGuard, Released, LeaseHeld, Placed
<1>15. ASSUME NEW l \in Runs, \E b \in Bindings : BindingFrame(l, b)
      PROVE  LeaseHeld'
  BY <1>15 DEF BindingFrame, CanClaim, Claimed, LeaseHeld, Placed
<1>16. ASSUME NEW l \in Runs, Exits(l)
      PROVE  LeaseHeld'
  BY <1>16 DEF Exits, LeaseHeld, Placed
<1>17. ASSUME NEW l \in Runs, FreeLease(l)
      PROVE  LeaseHeld'
  BY <1>17 DEF FreeLease, Released, LeaseHeld, Placed
<1>18. ASSUME NEW l \in Runs, Conclude(l)
      PROVE  LeaseHeld'
  BY <1>18 DEF Conclude, LeaseHeld, Placed
<1> QED
  BY <1>1, <1>2, <1>3, <1>4, <1>5, <1>6, <1>7, <1>8, <1>9, <1>10, <1>11,
     <1>12, <1>13, <1>14, <1>15, <1>16, <1>17, <1>18 DEF Next, LaunchStep,
     RunStep

\* Commit installs a run only in a session without one.
LEMMA StepActive ==
  ASSUME IInv, [Next]_vars
  PROVE  OneActiveRun'
<1> USE SupervisorAssumption
    DEF IInv, TypeOK, At, Goto, records, sessionsMap, attempt, child
<1>1. CASE UNCHANGED vars
  BY <1>1 DEF vars, OneActiveRun, Placed
<1>2. ASSUME NEW l \in Runs, \E s \in Sessions, b \in Bindings \cup {NoBinding} :
               Start(l, s, b)
      PROVE  OneActiveRun'
  BY <1>2 DEF Start, OneActiveRun, Placed
<1>3. ASSUME NEW l \in Runs, \E s \in Sessions, b \in Bindings \cup {NoBinding} :
               Resume(l, s, b)
      PROVE  OneActiveRun'
  BY <1>3 DEF Resume, OneActiveRun, Placed
<1>4. ASSUME NEW l \in Runs, BeginLaunch(l)
      PROVE  OneActiveRun'
  BY <1>4 DEF BeginLaunch, OneActiveRun, Placed
<1>5. ASSUME NEW l \in Runs, ClaimBinding(l)
      PROVE  OneActiveRun'
  BY <1>5 DEF ClaimBinding, CanClaim, Claimed, OneActiveRun, Placed
<1>6. ASSUME NEW l \in Runs, Forget(l)
      PROVE  OneActiveRun'
  BY <1>6 DEF Forget, OneActiveRun, Placed
<1>7. ASSUME NEW l \in Runs, SetStarting(l)
      PROVE  OneActiveRun'
  BY <1>7 DEF SetStarting, OneActiveRun, Placed
<1>8. ASSUME NEW l \in Runs, ResetData(l)
      PROVE  OneActiveRun'
  BY <1>8 DEF ResetData, OneActiveRun, Placed
<1>9. ASSUME NEW l \in Runs, Spawned(l)
      PROVE  OneActiveRun'
  BY <1>9 DEF Spawned, OneActiveRun, Placed
<1>10. ASSUME NEW l \in Runs, SpawnFails(l)
      PROVE  OneActiveRun'
  BY <1>10 DEF SpawnFails, DropGuard, Released, OneActiveRun, Placed
<1>11. ASSUME NEW l \in Runs, Commit(l)
      PROVE  OneActiveRun'
  BY <1>11 DEF Commit, DropGuard, Released, OneActiveRun, Placed
<1>12. ASSUME NEW l \in Runs, CommitGuard(l)
      PROVE  OneActiveRun'
  BY <1>12 DEF CommitGuard, OneActiveRun, Placed
<1>13. ASSUME NEW l \in Runs, Supervise(l)
      PROVE  OneActiveRun'
  BY <1>13 DEF Supervise, OneActiveRun, Placed
<1>14. ASSUME NEW l \in Runs, AbortLaunch(l)
      PROVE  OneActiveRun'
  BY <1>14 DEF AbortLaunch, DropGuard, Released, OneActiveRun, Placed
<1>15. ASSUME NEW l \in Runs, \E b \in Bindings : BindingFrame(l, b)
      PROVE  OneActiveRun'
  BY <1>15 DEF BindingFrame, CanClaim, Claimed, OneActiveRun, Placed
<1>16. ASSUME NEW l \in Runs, Exits(l)
      PROVE  OneActiveRun'
  BY <1>16 DEF Exits, OneActiveRun, Placed
<1>17. ASSUME NEW l \in Runs, FreeLease(l)
      PROVE  OneActiveRun'
  BY <1>17 DEF FreeLease, Released, OneActiveRun, Placed
<1>18. ASSUME NEW l \in Runs, Conclude(l)
      PROVE  OneActiveRun'
  BY <1>18 DEF Conclude, OneActiveRun, Placed
<1> QED
  BY <1>1, <1>2, <1>3, <1>4, <1>5, <1>6, <1>7, <1>8, <1>9, <1>10, <1>11,
     <1>12, <1>13, <1>14, <1>15, <1>16, <1>17, <1>18 DEF Next, LaunchStep,
     RunStep

\* Every way out of a launch or a run gives the lease back.
LEMMA StepLeak ==
  ASSUME IInv, [Next]_vars
  PROVE  NoLeaseLeak'
<1> USE SupervisorAssumption
    DEF IInv, TypeOK, At, Goto, records, sessionsMap, attempt, child
<1>1. CASE UNCHANGED vars
  BY <1>1 DEF vars, NoLeaseLeak, Placed, LeaseHeld
<1>2. ASSUME NEW l \in Runs, \E s \in Sessions, b \in Bindings \cup {NoBinding} :
               Start(l, s, b)
      PROVE  NoLeaseLeak'
  BY <1>2 DEF Start, NoLeaseLeak, Placed, LeaseHeld
<1>3. ASSUME NEW l \in Runs, \E s \in Sessions, b \in Bindings \cup {NoBinding} :
               Resume(l, s, b)
      PROVE  NoLeaseLeak'
  BY <1>3 DEF Resume, NoLeaseLeak, Placed, LeaseHeld
<1>4. ASSUME NEW l \in Runs, BeginLaunch(l)
      PROVE  NoLeaseLeak'
  BY <1>4 DEF BeginLaunch, NoLeaseLeak, Placed, LeaseHeld
<1>5. ASSUME NEW l \in Runs, ClaimBinding(l)
      PROVE  NoLeaseLeak'
  BY <1>5 DEF ClaimBinding, CanClaim, Claimed, NoLeaseLeak, Placed, LeaseHeld
<1>6. ASSUME NEW l \in Runs, Forget(l)
      PROVE  NoLeaseLeak'
  BY <1>6 DEF Forget, NoLeaseLeak, Placed, LeaseHeld
<1>7. ASSUME NEW l \in Runs, SetStarting(l)
      PROVE  NoLeaseLeak'
  BY <1>7 DEF SetStarting, NoLeaseLeak, Placed, LeaseHeld
<1>8. ASSUME NEW l \in Runs, ResetData(l)
      PROVE  NoLeaseLeak'
  BY <1>8 DEF ResetData, NoLeaseLeak, Placed, LeaseHeld
<1>9. ASSUME NEW l \in Runs, Spawned(l)
      PROVE  NoLeaseLeak'
  BY <1>9 DEF Spawned, NoLeaseLeak, Placed, LeaseHeld
<1>10. ASSUME NEW l \in Runs, SpawnFails(l)
      PROVE  NoLeaseLeak'
  BY <1>10 DEF SpawnFails, DropGuard, Released, NoLeaseLeak, Placed, LeaseHeld
<1>11. ASSUME NEW l \in Runs, Commit(l)
      PROVE  NoLeaseLeak'
  BY <1>11 DEF Commit, DropGuard, Released, NoLeaseLeak, Placed, LeaseHeld
<1>12. ASSUME NEW l \in Runs, CommitGuard(l)
      PROVE  NoLeaseLeak'
  BY <1>12 DEF CommitGuard, NoLeaseLeak, Placed, LeaseHeld
<1>13. ASSUME NEW l \in Runs, Supervise(l)
      PROVE  NoLeaseLeak'
  BY <1>13 DEF Supervise, NoLeaseLeak, Placed, LeaseHeld
<1>14. ASSUME NEW l \in Runs, AbortLaunch(l)
      PROVE  NoLeaseLeak'
  BY <1>14 DEF AbortLaunch, DropGuard, Released, NoLeaseLeak, Placed, LeaseHeld
<1>15. ASSUME NEW l \in Runs, \E b \in Bindings : BindingFrame(l, b)
      PROVE  NoLeaseLeak'
  BY <1>15 DEF BindingFrame, CanClaim, Claimed, NoLeaseLeak, Placed, LeaseHeld
<1>16. ASSUME NEW l \in Runs, Exits(l)
      PROVE  NoLeaseLeak'
  BY <1>16 DEF Exits, NoLeaseLeak, Placed, LeaseHeld
<1>17. ASSUME NEW l \in Runs, FreeLease(l)
      PROVE  NoLeaseLeak'
  BY <1>17 DEF FreeLease, Released, NoLeaseLeak, Placed, LeaseHeld
<1>18. ASSUME NEW l \in Runs, Conclude(l)
      PROVE  NoLeaseLeak'
  BY <1>18 DEF Conclude, NoLeaseLeak, Placed, LeaseHeld
<1> QED
  BY <1>1, <1>2, <1>3, <1>4, <1>5, <1>6, <1>7, <1>8, <1>9, <1>10, <1>11,
     <1>12, <1>13, <1>14, <1>15, <1>16, <1>17, <1>18 DEF Next, LaunchStep,
     RunStep

\* The flag is taken by one launch and dropped with its guard.
LEMMA StepLaunch ==
  ASSUME IInv, [Next]_vars
  PROVE  LaunchExclusive'
<1> USE SupervisorAssumption
    DEF IInv, TypeOK, At, Goto, records, sessionsMap, attempt, child
<1>1. CASE UNCHANGED vars
  BY <1>1 DEF vars, LaunchExclusive, Inside, Placed
<1>2. ASSUME NEW l \in Runs, \E s \in Sessions, b \in Bindings \cup {NoBinding} :
               Start(l, s, b)
      PROVE  LaunchExclusive'
  BY <1>2 DEF Start, LaunchExclusive, Inside, Placed
<1>3. ASSUME NEW l \in Runs, \E s \in Sessions, b \in Bindings \cup {NoBinding} :
               Resume(l, s, b)
      PROVE  LaunchExclusive'
  BY <1>3 DEF Resume, LaunchExclusive, Inside, Placed
<1>4. ASSUME NEW l \in Runs, BeginLaunch(l)
      PROVE  LaunchExclusive'
  BY <1>4 DEF BeginLaunch, LaunchExclusive, Inside, Placed
<1>5. ASSUME NEW l \in Runs, ClaimBinding(l)
      PROVE  LaunchExclusive'
  BY <1>5 DEF ClaimBinding, CanClaim, Claimed, LaunchExclusive, Inside, Placed
<1>6. ASSUME NEW l \in Runs, Forget(l)
      PROVE  LaunchExclusive'
  BY <1>6 DEF Forget, LaunchExclusive, Inside, Placed
<1>7. ASSUME NEW l \in Runs, SetStarting(l)
      PROVE  LaunchExclusive'
  BY <1>7 DEF SetStarting, LaunchExclusive, Inside, Placed
<1>8. ASSUME NEW l \in Runs, ResetData(l)
      PROVE  LaunchExclusive'
  BY <1>8 DEF ResetData, LaunchExclusive, Inside, Placed
<1>9. ASSUME NEW l \in Runs, Spawned(l)
      PROVE  LaunchExclusive'
  BY <1>9 DEF Spawned, LaunchExclusive, Inside, Placed
<1>10. ASSUME NEW l \in Runs, SpawnFails(l)
      PROVE  LaunchExclusive'
  BY <1>10 DEF SpawnFails, DropGuard, Released, LaunchExclusive, Inside, Placed
<1>11. ASSUME NEW l \in Runs, Commit(l)
      PROVE  LaunchExclusive'
  BY <1>11 DEF Commit, DropGuard, Released, LaunchExclusive, Inside, Placed
<1>12. ASSUME NEW l \in Runs, CommitGuard(l)
      PROVE  LaunchExclusive'
  BY <1>12 DEF CommitGuard, LaunchExclusive, Inside, Placed
<1>13. ASSUME NEW l \in Runs, Supervise(l)
      PROVE  LaunchExclusive'
  BY <1>13 DEF Supervise, LaunchExclusive, Inside, Placed
<1>14. ASSUME NEW l \in Runs, AbortLaunch(l)
      PROVE  LaunchExclusive'
  BY <1>14 DEF AbortLaunch, DropGuard, Released, LaunchExclusive, Inside, Placed
<1>15. ASSUME NEW l \in Runs, \E b \in Bindings : BindingFrame(l, b)
      PROVE  LaunchExclusive'
  BY <1>15 DEF BindingFrame, CanClaim, Claimed, LaunchExclusive, Inside, Placed
<1>16. ASSUME NEW l \in Runs, Exits(l)
      PROVE  LaunchExclusive'
  BY <1>16 DEF Exits, LaunchExclusive, Inside, Placed
<1>17. ASSUME NEW l \in Runs, FreeLease(l)
      PROVE  LaunchExclusive'
  BY <1>17 DEF FreeLease, Released, LaunchExclusive, Inside, Placed
<1>18. ASSUME NEW l \in Runs, Conclude(l)
      PROVE  LaunchExclusive'
  BY <1>18 DEF Conclude, LaunchExclusive, Inside, Placed
<1> QED
  BY <1>1, <1>2, <1>3, <1>4, <1>5, <1>6, <1>7, <1>8, <1>9, <1>10, <1>11,
     <1>12, <1>13, <1>14, <1>15, <1>16, <1>17, <1>18 DEF Next, LaunchStep,
     RunStep

\* The inductive invariant holds in every reachable state.
THEOREM Invariance == Spec => []IInv
<1>1. IInv /\ [Next]_vars => IInv'
  BY StepType, StepPlaced, StepChild, StepLease, StepActive, StepLeak, StepLaunch
  DEF IInv
<1> QED
  BY InitInv, <1>1, PTL DEF Spec

\* Two holders of one lease would both be the entry of binding_writers.
LEMMA LeaseExcludes == IInv => OneWriter
<1> SUFFICES ASSUME IInv, NEW l \in Runs, NEW m \in Runs, l # m,
                    leased[l] # NoBinding, leased[l] = leased[m],
                    process[l] = "alive", process[m] = "alive",
                    pc[l] # "orphaned", pc[m] # "orphaned"
             PROVE  FALSE
  BY DEF OneWriter, At
<1>1. /\ pc[l] \in {"spawned", "installed", "announcing", "supervised"}
      /\ pc[m] \in {"spawned", "installed", "announcing", "supervised"}
  BY DEF IInv, ChildPlaced
<1>2. writers[leased[l]] = l /\ writers[leased[m]] = m
  BY <1>1 DEF IInv, LeaseHeld
<1> QED
  BY <1>2

\* claim_binding and release_binding enforce one active writer per vendor
\* binding, whatever starts, resumes, failures and aborts are interleaved, up
\* to runs orphaned by an abort.
THEOREM WriterExclusion == Spec => []OneWriter
BY Invariance, LeaseExcludes, PTL

\* At any time a session has at most one run that is installed and not
\* concluded, and activeRun names it.
THEOREM ActiveRunUnique == Spec => []OneActiveRun
<1>1. IInv => OneActiveRun
  BY DEF IInv
<1> QED
  BY <1>1, Invariance, PTL

\* A lease is held only by a launch under way or a run not yet finalized.
THEOREM LeasesReturned == Spec => []NoLeaseLeak
<1>1. IInv => NoLeaseLeak
  BY DEF IInv
<1> QED
  BY <1>1, Invariance, PTL

\* The launching flag excludes overlapping launches and never stays up.
THEOREM LaunchesExclude == Spec => []LaunchExclusive
<1>1. IInv => LaunchExclusive
  BY DEF IInv
<1> QED
  BY <1>1, Invariance, PTL
=============================================================================
