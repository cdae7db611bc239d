------------------------- MODULE DaemonServerProofs -------------------------
(***************************************************************************)
(* Proofs about DaemonServer, for any clients, requests and limits: the    *)
(* counters that is_idle reads agree with what exists.  A counter and what *)
(* it counts change in one step everywhere but in one place: PersistFails  *)
(* ends a run without looking whether it has a monitor.                    *)
(***************************************************************************)
EXTENDS DaemonServer, FiniteSetTheorems, TLAPS

\* Whom each counter counts.
Counted == {c \in Clients : conn[c] \in Guarded}
Monitored == {r \in Requests : work[r] \in {"monitored", "exited"}}

\* The types of the variables other than the counters.
ControlTyped ==
  /\ loop \in {"bound", "select", "handling", "maintenance", "terminals",
               "joining", "aborting"} \cup Stopped
  /\ idle \in BOOLEAN /\ permit \in BOOLEAN /\ silent \in BOOLEAN
  /\ woken \in {"no", "one", "all"}
  /\ flag \in BOOLEAN /\ watch \in 0..2
  /\ seen \in [Clients \cup {LoopReceiver} -> 0..2]
  /\ conn \in [Clients -> Guarded \cup {"off", "backlog", "turned_away", "ended", "reaped"}]
  /\ req \in [Requests -> {"off", "running", "detached", "ready", "answered",
                           "refused", "aborted", "over"}]
  /\ work \in [Requests -> {"none", "spawned", "monitored", "exited", "orphan", "over"}]

\* The first shutdown is requested and the second one is the loop's own, after
\* which nobody sends a third.
OneSent == loop \in {"bound", "select", "handling"} => watch <= 1

\* A handler that may still fail has not started a monitor: PersistFails never
\* takes away a run that is counted as a session.
NotYetMonitored ==
  \A r \in Requests : req[r] \in {"off", "running", "detached"} => r \notin Monitored

Control == ControlTyped /\ OneSent /\ NotYetMonitored

\* The counters.
Counts ==
  /\ clients = Cardinality(Counted)
  /\ sessions = Cardinality(Monitored)
  /\ processes = Cardinality(Live)

\* The inductive invariant.
IInv == Control /\ Counts

-----------------------------------------------------------------------------
(* Counting.                                                               *)

\* Subsets of clients and of requests have a cardinality.
LEMMA Countable ==
  /\ \A S \in SUBSET Clients :
       IsFiniteSet(S) /\ Cardinality(S) \in Nat /\ Cardinality(S) <= Cardinality(Clients)
  /\ \A S \in SUBSET Requests :
       IsFiniteSet(S) /\ Cardinality(S) \in Nat /\ Cardinality(S) <= Cardinality(Requests)
<1>1. ASSUME NEW U, IsFiniteSet(U), NEW S \in SUBSET U
      PROVE  IsFiniteSet(S) /\ Cardinality(S) \in Nat /\ Cardinality(S) <= Cardinality(U)
  BY <1>1, FS_Subset, FS_CardinalityType
<1> QED
  BY <1>1, DaemonAssumption

\* One more, one less, and all of W less.
LEMMA CountMoves ==
  ASSUME NEW S, IsFiniteSet(S)
  PROVE  /\ Cardinality(S) \in Nat
         /\ \A x : x \notin S => Cardinality(S \cup {x}) = Cardinality(S) + 1
         /\ \A x : x \in S => Cardinality(S \ {x}) = Cardinality(S) - 1
         /\ \A W \in SUBSET S : Cardinality(S \ W) = Cardinality(S) - Cardinality(W)
<1>1. Cardinality(S) \in Nat
  BY FS_CardinalityType
<1>2. ASSUME NEW x, x \notin S PROVE Cardinality(S \cup {x}) = Cardinality(S) + 1
  BY <1>2, FS_AddElement
<1>3. ASSUME NEW x, x \in S PROVE Cardinality(S \ {x}) = Cardinality(S) - 1
  BY <1>3, FS_RemoveElement
<1>4. ASSUME NEW W \in SUBSET S PROVE Cardinality(S \ W) = Cardinality(S) - Cardinality(W)
  <2>1. IsFiniteSet(W) /\ IsFiniteSet(S \ W)
    BY FS_Subset
  <2>2. Cardinality(S) = Cardinality(W) + Cardinality(S \ W)
    <3>1. W \cup (S \ W) = S /\ W \cap (S \ W) = {}
      OBVIOUS
    <3>2. Cardinality(W \cup (S \ W))
            = Cardinality(W) + Cardinality(S \ W) - Cardinality(W \cap (S \ W))
      BY <2>1, FS_Union
    <3>3. Cardinality(W) \in Nat /\ Cardinality(S \ W) \in Nat /\ Cardinality({}) = 0
      BY <2>1, FS_CardinalityType, FS_EmptySet
    <3>4. Cardinality(W \cup (S \ W)) = Cardinality(S) /\ Cardinality(W \cap (S \ W)) = Cardinality({})
      BY <3>1, Zenon
    <3> QED
      BY <3>2, <3>3, <3>4
  <2> QED
    BY <2>1, <2>2, FS_CardinalityType
<1> QED
  BY <1>1, <1>2, <1>3, <1>4

\* The sets that are counted are finite, and the work of a request is counted
\* at most once.
LEMMA CountedFinite ==
  /\ Counted \subseteq Clients /\ IsFiniteSet(Counted)
  /\ Monitored \subseteq Requests /\ IsFiniteSet(Monitored)
  /\ Live \subseteq Requests /\ IsFiniteSet(Live)
BY Countable DEF Counted, Monitored, Live

\* The counters stay while nobody enters or leaves what they count.
LEMMA ConnectionsCounted ==
  ASSUME Counts, UNCHANGED clients, Counted' = Counted
  PROVE  clients' = Cardinality(Counted')
BY DEF Counts

\* See above.
LEMMA WorkCounted ==
  ASSUME Counts, UNCHANGED <<sessions, processes>>, Monitored' = Monitored, Live' = Live
  PROVE  sessions' = Cardinality(Monitored') /\ processes' = Cardinality(Live')
BY DEF Counts

\* An aborted handler leaves what it has started, counted as before.
LEMMA OrphansCounted ==
  ASSUME Control, NEW c \in Clients, Aborted(c), Orphaned(c)
  PROVE  /\ req' \in [Requests -> {"off", "running", "detached", "ready", "answered",
                                   "refused", "aborted", "over"}]
         /\ work' \in [Requests -> {"none", "spawned", "monitored", "exited", "orphan", "over"}]
         /\ Monitored' = Monitored /\ Live' = Live /\ NotYetMonitored'
<1>1. \A r \in Requests : req'[r] = req[r] \/ req'[r] = "aborted"
  BY DEF Aborted
<1>2. \A r \in Requests : work'[r] = work[r] \/ (work[r] = "spawned" /\ work'[r] = "orphan")
  BY DEF Orphaned
<1>3. Monitored' = Monitored /\ Live' = Live
  BY <1>2 DEF Monitored, Live
<1> QED
  BY <1>1, <1>3 DEF Control, ControlTyped, NotYetMonitored, Aborted, Orphaned

\* What has exited is no longer a process; its monitor is still a session.
LEMMA ExitsCounted ==
  ASSUME Control, Counts, NEW W \in SUBSET Live, Exits(W)
  PROVE  /\ work' \in [Requests -> {"none", "spawned", "monitored", "exited", "orphan", "over"}]
         /\ permit' \in BOOLEAN /\ woken' \in {"no", "one", "all"} /\ silent' \in BOOLEAN
         /\ Monitored' = Monitored /\ processes' = Cardinality(Live')
<1> USE DEF Control, ControlTyped
<1>1. /\ work' \in [Requests -> {"none", "spawned", "monitored", "exited", "orphan", "over"}]
      /\ \A r \in Requests \ W : work'[r] = work[r]
      /\ \A r \in W : work'[r] = IF work[r] = "monitored" THEN "exited" ELSE "over"
  BY DEF Exits, Live
<1>2. permit' \in BOOLEAN /\ woken' \in {"no", "one", "all"} /\ silent' \in BOOLEAN
  BY DEF Exits, NotifyOne
<1>3. Monitored' = Monitored
  BY <1>1 DEF Monitored, Live
<1>4. Live' = Live \ W
  BY <1>1 DEF Live
<1>5. processes' = processes - Cardinality(W)
  BY DEF Exits
<1> QED
  BY <1>1, <1>2, <1>3, <1>4, <1>5, CountedFinite, CountMoves DEF Counts

-----------------------------------------------------------------------------
(* The steps.                                                              *)

\* The loop subscribes.
LEMMA RunInv ==
  ASSUME IInv, Run
  PROVE  IInv'
<1> USE DaemonAssumption DEF IInv, notify, channel, counters
<1>1. ControlTyped' /\ OneSent'
  BY DEF Run, Control, ControlTyped, OneSent, Stopped, Guarded
<1>2. NotYetMonitored'
  BY DEF Run, Control, ControlTyped, NotYetMonitored, Monitored
<1>3. clients' = Cardinality(Counted')
  BY ConnectionsCounted DEF Run, Control, ControlTyped, Counted, Guarded
<1>4. sessions' = Cardinality(Monitored') /\ processes' = Cardinality(Live')
  BY WorkCounted DEF Run, Monitored, Live
<1> QED
  BY <1>1, <1>2, <1>3, <1>4 DEF Control, Counts

\* It waits again.
LEMMA ResumeInv ==
  ASSUME IInv, Resume
  PROVE  IInv'
<1> USE DaemonAssumption DEF IInv, notify, channel, counters
<1>1. ControlTyped' /\ OneSent'
  BY DEF Resume, Control, ControlTyped, OneSent, Stopped, Guarded
<1>2. NotYetMonitored'
  BY DEF Resume, Control, ControlTyped, NotYetMonitored, Monitored
<1>3. clients' = Cardinality(Counted')
  BY ConnectionsCounted DEF Resume, Control, ControlTyped, Counted, Guarded
<1>4. sessions' = Cardinality(Monitored') /\ processes' = Cardinality(Live')
  BY WorkCounted DEF Resume, Monitored, Live
<1> QED
  BY <1>1, <1>2, <1>3, <1>4 DEF Control, Counts

\* It looks at the counters.
LEMMA WakeInv ==
  ASSUME IInv, Wake
  PROVE  IInv'
<1> USE DaemonAssumption DEF IInv, notify, channel, counters
<1>1. ControlTyped' /\ OneSent'
  BY DEF Wake, IsIdle, Control, ControlTyped, OneSent, Stopped, Guarded
<1>2. NotYetMonitored'
  BY DEF Wake, IsIdle, Control, ControlTyped, NotYetMonitored, Monitored
<1>3. clients' = Cardinality(Counted')
  BY ConnectionsCounted DEF Wake, IsIdle, Control, ControlTyped, Counted, Guarded
<1>4. sessions' = Cardinality(Monitored') /\ processes' = Cardinality(Live')
  BY WorkCounted DEF Wake, IsIdle, Monitored, Live
<1> QED
  BY <1>1, <1>2, <1>3, <1>4 DEF Control, Counts

\* It hears of a shutdown, which was the only one so far.
LEMMA SeeShutdownInv ==
  ASSUME IInv, SeeShutdown
  PROVE  IInv'
<1> USE DaemonAssumption DEF IInv, notify, channel, counters
<1>1. ControlTyped' /\ OneSent'
  BY DEF SeeShutdown, Break, Unheard, Control, ControlTyped, OneSent, Stopped, Guarded
<1>2. NotYetMonitored'
  BY DEF SeeShutdown, Break, Unheard, Control, ControlTyped, NotYetMonitored, Monitored
<1>3. clients' = Cardinality(Counted')
  BY ConnectionsCounted DEF SeeShutdown, Break, Unheard, Control, ControlTyped, Counted, Guarded
<1>4. sessions' = Cardinality(Monitored') /\ processes' = Cardinality(Live')
  BY WorkCounted DEF SeeShutdown, Break, Unheard, Monitored, Live
<1> QED
  BY <1>1, <1>2, <1>3, <1>4 DEF Control, Counts

\* The idle deadline.
LEMMA DeadlinePassesInv ==
  ASSUME IInv, DeadlinePasses
  PROVE  IInv'
<1> USE DaemonAssumption DEF IInv, notify, channel, counters
<1>p. idle' \in BOOLEAN /\ loop = "select" /\ watch' \in {watch, watch + 1} /\ UNCHANGED <<seen, conn, req, work>>
      /\ (watch' = watch \/ loop' = "maintenance") /\ loop' \in {"maintenance", "handling"}
  BY DEF DeadlinePasses, Break, Unheard, Control, ControlTyped, IsIdle
<1>q. flag' \in BOOLEAN /\ permit' \in BOOLEAN /\ woken' \in {"no", "one", "all"} /\ silent' \in BOOLEAN
  BY DEF DeadlinePasses, Break, Unheard, Control, ControlTyped
<1>1. ControlTyped' /\ OneSent'
  BY <1>p, <1>q DEF DeadlinePasses, Break, Unheard, Control, ControlTyped, OneSent, Stopped, Guarded
<1>2. NotYetMonitored'
  BY DEF DeadlinePasses, Break, Unheard, Control, ControlTyped, NotYetMonitored, Monitored
<1>3. clients' = Cardinality(Counted')
  BY ConnectionsCounted DEF DeadlinePasses, Break, Unheard, Control, ControlTyped, Counted, Guarded
<1>4. sessions' = Cardinality(Monitored') /\ processes' = Cardinality(Live')
  BY WorkCounted DEF DeadlinePasses, Break, Unheard, Monitored, Live
<1> QED
  BY <1>1, <1>2, <1>3, <1>4 DEF Control, Counts

\* A connection is counted when its permit is taken.
LEMMA AcceptInv ==
  ASSUME IInv, NEW c \in Clients, Accept(c)
  PROVE  IInv'
<1> USE DaemonAssumption DEF IInv, notify, channel, counters
<1>1. ControlTyped' /\ OneSent'
  BY DEF Accept, Unheard, Control, ControlTyped, OneSent, Stopped, Guarded
<1>2. NotYetMonitored'
  BY DEF Accept, Unheard, Control, ControlTyped, NotYetMonitored, Monitored
<1>3. clients' = Cardinality(Counted')
  <2>1. CASE clients' = clients /\ conn' = [conn EXCEPT ![c] = "turned_away"]
    <3>1. Counted' = Counted
      BY <2>1 DEF Accept, Control, ControlTyped, Counted, Guarded
    <3> QED
      BY <2>1, <3>1 DEF Counts
  <2>2. CASE clients' = clients + 1 /\ conn' = [conn EXCEPT ![c] = "hello"]
    <3>1. Counted' = Counted \cup {c} /\ c \notin Counted
      BY <2>2 DEF Accept, Control, ControlTyped, Counted, Guarded
    <3> QED
      BY <2>2, <3>1, CountedFinite, CountMoves DEF Counts
  <2> QED
    BY <2>1, <2>2 DEF Accept
<1>4. sessions' = Cardinality(Monitored') /\ processes' = Cardinality(Live')
  BY WorkCounted DEF Accept, Unheard, Monitored, Live
<1> QED
  BY <1>1, <1>2, <1>3, <1>4 DEF Control, Counts

\* An error of the listener ends the loop.
LEMMA AcceptFailsInv ==
  ASSUME IInv, AcceptFails
  PROVE  IInv'
<1> USE DaemonAssumption DEF IInv, notify, channel, counters
<1>1. ControlTyped' /\ OneSent'
  BY DEF AcceptFails, Unheard, Control, ControlTyped, OneSent, Stopped, Guarded
<1>2. NotYetMonitored'
  BY DEF AcceptFails, Unheard, Control, ControlTyped, NotYetMonitored, Monitored
<1>3. clients' = Cardinality(Counted')
  BY ConnectionsCounted DEF AcceptFails, Unheard, Control, ControlTyped, Counted, Guarded
<1>4. sessions' = Cardinality(Monitored') /\ processes' = Cardinality(Live')
  BY WorkCounted DEF AcceptFails, Unheard, Monitored, Live
<1> QED
  BY <1>1, <1>2, <1>3, <1>4 DEF Control, Counts

\* The task of a connection that is no longer counted.
LEMMA JoinTaskInv ==
  ASSUME IInv, NEW c \in Clients, JoinTask(c)
  PROVE  IInv'
<1> USE DaemonAssumption DEF IInv, notify, channel, counters
<1>1. ControlTyped' /\ OneSent'
  BY DEF JoinTask, Unheard, Control, ControlTyped, OneSent, Stopped, Guarded
<1>2. NotYetMonitored'
  BY DEF JoinTask, Unheard, Control, ControlTyped, NotYetMonitored, Monitored
<1>3. clients' = Cardinality(Counted')
  BY ConnectionsCounted DEF JoinTask, Unheard, Control, ControlTyped, Counted, Guarded
<1>4. sessions' = Cardinality(Monitored') /\ processes' = Cardinality(Live')
  BY WorkCounted DEF JoinTask, Unheard, Monitored, Live
<1> QED
  BY <1>1, <1>2, <1>3, <1>4 DEF Control, Counts

\* The terminals are closed next.
LEMMA MaintenanceEndsInv ==
  ASSUME IInv, MaintenanceEnds
  PROVE  IInv'
<1> USE DaemonAssumption DEF IInv, notify, channel, counters
<1>1. ControlTyped' /\ OneSent'
  BY DEF MaintenanceEnds, Control, ControlTyped, OneSent, Stopped, Guarded
<1>2. NotYetMonitored'
  BY DEF MaintenanceEnds, Control, ControlTyped, NotYetMonitored, Monitored
<1>3. clients' = Cardinality(Counted')
  BY ConnectionsCounted DEF MaintenanceEnds, Control, ControlTyped, Counted, Guarded
<1>4. sessions' = Cardinality(Monitored') /\ processes' = Cardinality(Live')
  BY WorkCounted DEF MaintenanceEnds, Monitored, Live
<1> QED
  BY <1>1, <1>2, <1>3, <1>4 DEF Control, Counts

\* Every terminal's process ends.
LEMMA CloseAllTerminalsInv ==
  ASSUME IInv, CloseAllTerminals
  PROVE  IInv'
<1> USE DaemonAssumption DEF IInv, notify, channel, counters
<1>p. /\ work' \in [Requests -> {"none", "spawned", "monitored", "exited", "orphan", "over"}]
      /\ permit' \in BOOLEAN /\ woken' \in {"no", "one", "all"} /\ silent' \in BOOLEAN
      /\ Monitored' = Monitored /\ processes' = Cardinality(Live')
  BY ExitsCounted DEF CloseAllTerminals, LiveTerminals, Live
<1>1. ControlTyped' /\ OneSent'
  BY <1>p DEF CloseAllTerminals, Control, ControlTyped, OneSent, Stopped, Guarded
<1>2. NotYetMonitored'
  BY <1>p DEF CloseAllTerminals, Control, NotYetMonitored, ControlTyped
<1>3. clients' = Cardinality(Counted')
  BY ConnectionsCounted DEF CloseAllTerminals, Control, ControlTyped, Counted, Guarded
<1>4. sessions' = Cardinality(Monitored') /\ processes' = Cardinality(Live')
  BY <1>p DEF CloseAllTerminals, Counts
<1> QED
  BY <1>1, <1>2, <1>3, <1>4 DEF Control, Counts

\* What is left is aborted.
LEMMA GraceExpiresInv ==
  ASSUME IInv, GraceExpires
  PROVE  IInv'
<1> USE DaemonAssumption DEF IInv, notify, channel, counters
<1>1. ControlTyped' /\ OneSent'
  BY DEF GraceExpires, Control, ControlTyped, OneSent, Stopped, Guarded
<1>2. NotYetMonitored'
  BY DEF GraceExpires, Control, ControlTyped, NotYetMonitored, Monitored
<1>3. clients' = Cardinality(Counted')
  BY ConnectionsCounted DEF GraceExpires, Control, ControlTyped, Counted, Guarded
<1>4. sessions' = Cardinality(Monitored') /\ processes' = Cardinality(Live')
  BY WorkCounted DEF GraceExpires, Monitored, Live
<1> QED
  BY <1>1, <1>2, <1>3, <1>4 DEF Control, Counts

\* The loop is done.
LEMMA RemoveSocketInv ==
  ASSUME IInv, RemoveSocket
  PROVE  IInv'
<1> USE DaemonAssumption DEF IInv, notify, channel, counters
<1>1. ControlTyped' /\ OneSent'
  BY DEF RemoveSocket, Control, ControlTyped, OneSent, Stopped, Guarded
<1>2. NotYetMonitored'
  BY DEF RemoveSocket, Control, ControlTyped, NotYetMonitored, Monitored
<1>3. clients' = Cardinality(Counted')
  BY ConnectionsCounted DEF RemoveSocket, Control, ControlTyped, Counted, Guarded
<1>4. sessions' = Cardinality(Monitored') /\ processes' = Cardinality(Live')
  BY WorkCounted DEF RemoveSocket, Monitored, Live
<1> QED
  BY <1>1, <1>2, <1>3, <1>4 DEF Control, Counts

\* A connection task that is aborted still drops its guard.
LEMMA AbortTaskInv ==
  ASSUME IInv, NEW c \in Clients, AbortTask(c)
  PROVE  IInv'
<1> USE DaemonAssumption DEF IInv, notify, channel, counters
<1>p. /\ req' \in [Requests -> {"off", "running", "detached", "ready", "answered",
                                "refused", "aborted", "over"}]
      /\ work' \in [Requests -> {"none", "spawned", "monitored", "exited", "orphan", "over"}]
      /\ Monitored' = Monitored /\ Live' = Live /\ NotYetMonitored'
  BY OrphansCounted DEF AbortTask
<1>1. ControlTyped' /\ OneSent'
  BY <1>p DEF AbortTask, Control, ControlTyped, OneSent, Stopped, Guarded
<1>2. NotYetMonitored'
  BY <1>p
<1>3. clients' = Cardinality(Counted')
  BY ConnectionsCounted DEF AbortTask, Control, ControlTyped, Counted, Guarded
<1>4. sessions' = Cardinality(Monitored') /\ processes' = Cardinality(Live')
  BY <1>p, WorkCounted DEF AbortTask
<1> QED
  BY <1>1, <1>2, <1>3, <1>4 DEF Control, Counts

\* A client in the backlog is not counted yet.
LEMMA ConnectInv ==
  ASSUME IInv, NEW c \in Clients, Connect(c)
  PROVE  IInv'
<1> USE DaemonAssumption DEF IInv, notify, channel, counters
<1>1. ControlTyped' /\ OneSent'
  BY DEF Connect, Control, ControlTyped, OneSent, Stopped, Guarded
<1>2. NotYetMonitored'
  BY DEF Connect, Control, ControlTyped, NotYetMonitored, Monitored
<1>3. clients' = Cardinality(Counted')
  BY ConnectionsCounted DEF Connect, Control, ControlTyped, Counted, Guarded
<1>4. sessions' = Cardinality(Monitored') /\ processes' = Cardinality(Live')
  BY WorkCounted DEF Connect, Monitored, Live
<1> QED
  BY <1>1, <1>2, <1>3, <1>4 DEF Control, Counts

\* The connection subscribes.
LEMMA AuthenticateInv ==
  ASSUME IInv, NEW c \in Clients, Authenticate(c)
  PROVE  IInv'
<1> USE DaemonAssumption DEF IInv, notify, channel, counters
<1>1. ControlTyped' /\ OneSent'
  BY DEF Authenticate, Control, ControlTyped, OneSent, Stopped, Guarded
<1>2. NotYetMonitored'
  BY DEF Authenticate, Control, ControlTyped, NotYetMonitored, Monitored
<1>3. clients' = Cardinality(Counted')
  BY ConnectionsCounted DEF Authenticate, Control, ControlTyped, Counted, Guarded
<1>4. sessions' = Cardinality(Monitored') /\ processes' = Cardinality(Live')
  BY WorkCounted DEF Authenticate, Monitored, Live
<1> QED
  BY <1>1, <1>2, <1>3, <1>4 DEF Control, Counts

\* A connection that was never authenticated is counted until its guard goes.
LEMMA HelloFailsInv ==
  ASSUME IInv, NEW c \in Clients, HelloFails(c)
  PROVE  IInv'
<1> USE DaemonAssumption DEF IInv, notify, channel, counters
<1>1. ControlTyped' /\ OneSent'
  BY DEF HelloFails, Control, ControlTyped, OneSent, Stopped, Guarded
<1>2. NotYetMonitored'
  BY DEF HelloFails, Control, ControlTyped, NotYetMonitored, Monitored
<1>3. clients' = Cardinality(Counted')
  BY ConnectionsCounted DEF HelloFails, Control, ControlTyped, Counted, Guarded
<1>4. sessions' = Cardinality(Monitored') /\ processes' = Cardinality(Live')
  BY WorkCounted DEF HelloFails, Monitored, Live
<1> QED
  BY <1>1, <1>2, <1>3, <1>4 DEF Control, Counts

\* The flag decides whether it serves.
LEMMA CheckFlagInv ==
  ASSUME IInv, NEW c \in Clients, CheckFlag(c)
  PROVE  IInv'
<1> USE DaemonAssumption DEF IInv, notify, channel, counters
<1>1. ControlTyped' /\ OneSent'
  BY DEF CheckFlag, Control, ControlTyped, OneSent, Stopped, Guarded
<1>2. NotYetMonitored'
  BY DEF CheckFlag, Control, ControlTyped, NotYetMonitored, Monitored
<1>3. clients' = Cardinality(Counted')
  BY ConnectionsCounted DEF CheckFlag, Control, ControlTyped, Counted, Guarded
<1>4. sessions' = Cardinality(Monitored') /\ processes' = Cardinality(Live')
  BY WorkCounted DEF CheckFlag, Monitored, Live
<1> QED
  BY <1>1, <1>2, <1>3, <1>4 DEF Control, Counts

\* It drains.
LEMMA HearShutdownInv ==
  ASSUME IInv, NEW c \in Clients, HearShutdown(c)
  PROVE  IInv'
<1> USE DaemonAssumption DEF IInv, notify, channel, counters
<1>1. ControlTyped' /\ OneSent'
  BY DEF HearShutdown, Control, ControlTyped, OneSent, Stopped, Guarded
<1>2. NotYetMonitored'
  BY DEF HearShutdown, Control, ControlTyped, NotYetMonitored, Monitored
<1>3. clients' = Cardinality(Counted')
  BY ConnectionsCounted DEF HearShutdown, Control, ControlTyped, Counted, Guarded
<1>4. sessions' = Cardinality(Monitored') /\ processes' = Cardinality(Live')
  BY WorkCounted DEF HearShutdown, Monitored, Live
<1> QED
  BY <1>1, <1>2, <1>3, <1>4 DEF Control, Counts

\* A request that is read has not started anything.
LEMMA ReadRequestInv ==
  ASSUME IInv, NEW r \in Requests, ReadRequest(r)
  PROVE  IInv'
<1> USE DaemonAssumption DEF IInv, notify, channel, counters
<1>p. SenderOf[r] \in Clients
  OBVIOUS
<1>1. ControlTyped' /\ OneSent'
  BY <1>p DEF ReadRequest, Control, ControlTyped, OneSent, Stopped, Guarded
<1>2. NotYetMonitored'
  BY DEF ReadRequest, Control, ControlTyped, NotYetMonitored, Monitored
<1>3. clients' = Cardinality(Counted')
  BY ConnectionsCounted DEF ReadRequest, Control, ControlTyped, Counted, Guarded
<1>4. sessions' = Cardinality(Monitored') /\ processes' = Cardinality(Live')
  BY WorkCounted DEF ReadRequest, Monitored, Live
<1> QED
  BY <1>1, <1>2, <1>3, <1>4 DEF Control, Counts

\* Its answer is written.
LEMMA WriteResponseInv ==
  ASSUME IInv, NEW r \in Requests, WriteResponse(r)
  PROVE  IInv'
<1> USE DaemonAssumption DEF IInv, notify, channel, counters
<1>p. SenderOf[r] \in Clients
  OBVIOUS
<1>1. ControlTyped' /\ OneSent'
  BY <1>p DEF WriteResponse, Control, ControlTyped, OneSent, Stopped, Guarded
<1>2. NotYetMonitored'
  BY DEF WriteResponse, Control, ControlTyped, NotYetMonitored, Monitored
<1>3. clients' = Cardinality(Counted')
  BY ConnectionsCounted DEF WriteResponse, Control, ControlTyped, Counted, Guarded
<1>4. sessions' = Cardinality(Monitored') /\ processes' = Cardinality(Live')
  BY WorkCounted DEF WriteResponse, Monitored, Live
<1> QED
  BY <1>1, <1>2, <1>3, <1>4 DEF Control, Counts

\* What had been asked for goes on.
LEMMA ReadEndsInv ==
  ASSUME IInv, NEW c \in Clients, ReadEnds(c)
  PROVE  IInv'
<1> USE DaemonAssumption DEF IInv, notify, channel, counters
<1>1. ControlTyped' /\ OneSent'
  BY DEF ReadEnds, InFlight, Control, ControlTyped, OneSent, Stopped, Guarded
<1>2. NotYetMonitored'
  BY DEF ReadEnds, InFlight, Control, ControlTyped, NotYetMonitored, Monitored
<1>3. clients' = Cardinality(Counted')
  BY ConnectionsCounted DEF ReadEnds, InFlight, Control, ControlTyped, Counted, Guarded
<1>4. sessions' = Cardinality(Monitored') /\ processes' = Cardinality(Live')
  BY WorkCounted DEF ReadEnds, InFlight, Monitored, Live
<1> QED
  BY <1>1, <1>2, <1>3, <1>4 DEF Control, Counts

\* The connection and its requests go, its guard later.
LEMMA ConnectionFailsInv ==
  ASSUME IInv, NEW c \in Clients, ConnectionFails(c)
  PROVE  IInv'
<1> USE DaemonAssumption DEF IInv, notify, channel, counters
<1>p. /\ req' \in [Requests -> {"off", "running", "detached", "ready", "answered",
                                "refused", "aborted", "over"}]
      /\ work' \in [Requests -> {"none", "spawned", "monitored", "exited", "orphan", "over"}]
      /\ Monitored' = Monitored /\ Live' = Live /\ NotYetMonitored'
  BY OrphansCounted DEF ConnectionFails
<1>1. ControlTyped' /\ OneSent'
  BY <1>p DEF ConnectionFails, Control, ControlTyped, OneSent, Stopped, Guarded
<1>2. NotYetMonitored'
  BY <1>p
<1>3. clients' = Cardinality(Counted')
  BY ConnectionsCounted DEF ConnectionFails, Control, ControlTyped, Counted, Guarded
<1>4. sessions' = Cardinality(Monitored') /\ processes' = Cardinality(Live')
  BY <1>p, WorkCounted DEF ConnectionFails
<1> QED
  BY <1>1, <1>2, <1>3, <1>4 DEF Control, Counts

\* The same at the end of a drain.
LEMMA DrainInv ==
  ASSUME IInv, NEW c \in Clients, Drain(c)
  PROVE  IInv'
<1> USE DaemonAssumption DEF IInv, notify, channel, counters
<1>p. /\ req' \in [Requests -> {"off", "running", "detached", "ready", "answered",
                                "refused", "aborted", "over"}]
      /\ work' \in [Requests -> {"none", "spawned", "monitored", "exited", "orphan", "over"}]
      /\ Monitored' = Monitored /\ Live' = Live /\ NotYetMonitored'
  BY OrphansCounted DEF Drain
<1>1. ControlTyped' /\ OneSent'
  BY <1>p DEF Drain, Control, ControlTyped, OneSent, Stopped, Guarded
<1>2. NotYetMonitored'
  BY <1>p
<1>3. clients' = Cardinality(Counted')
  BY ConnectionsCounted DEF Drain, Control, ControlTyped, Counted, Guarded
<1>4. sessions' = Cardinality(Monitored') /\ processes' = Cardinality(Live')
  BY <1>p, WorkCounted DEF Drain
<1> QED
  BY <1>1, <1>2, <1>3, <1>4 DEF Control, Counts

\* The guard of a connection is dropped once.
LEMMA ClientLeavesInv ==
  ASSUME IInv, NEW c \in Clients, ClientLeaves(c)
  PROVE  IInv'
<1> USE DaemonAssumption DEF IInv, notify, channel, counters
<1>1. ControlTyped' /\ OneSent'
  BY DEF ClientLeaves, NotifyOne, Control, ControlTyped, OneSent, Stopped, Guarded
<1>2. NotYetMonitored'
  BY DEF ClientLeaves, NotifyOne, Control, ControlTyped, NotYetMonitored, Monitored
<1>3. clients' = Cardinality(Counted')
  <2>1. Counted' = Counted \ {c} /\ c \in Counted /\ clients' = clients - 1
    BY DEF ClientLeaves, Control, ControlTyped, Counted, Guarded
  <2> QED
    BY <2>1, CountedFinite, CountMoves DEF Counts
<1>4. sessions' = Cardinality(Monitored') /\ processes' = Cardinality(Live')
  BY WorkCounted DEF ClientLeaves, NotifyOne, Monitored, Live
<1> QED
  BY <1>1, <1>2, <1>3, <1>4 DEF Control, Counts

\* A process is counted when it has been spawned.
LEMMA SpawnWorkInv ==
  ASSUME IInv, NEW r \in Requests, SpawnWork(r)
  PROVE  IInv'
<1> USE DaemonAssumption DEF IInv, notify, channel, counters
<1>1. ControlTyped' /\ OneSent'
  BY DEF SpawnWork, NotifyOne, Control, ControlTyped, OneSent, Stopped, Guarded
<1>2. NotYetMonitored'
  BY DEF SpawnWork, NotifyOne, Control, ControlTyped, NotYetMonitored, Monitored
<1>3. clients' = Cardinality(Counted')
  BY ConnectionsCounted DEF SpawnWork, NotifyOne, Control, ControlTyped, Counted, Guarded
<1>4. sessions' = Cardinality(Monitored') /\ processes' = Cardinality(Live')
  <2>1. Live' = Live \cup {r} /\ r \notin Live /\ Monitored' = Monitored
    BY DEF SpawnWork, Control, ControlTyped, Live, Monitored
  <2>2. processes' = processes + 1 /\ sessions' = sessions
    BY DEF SpawnWork
  <2> QED
    BY <2>1, <2>2, CountedFinite, CountMoves DEF Counts
<1> QED
  BY <1>1, <1>2, <1>3, <1>4 DEF Control, Counts

\* A session is counted when its monitor starts, whatever its process does.
LEMMA StartMonitorInv ==
  ASSUME IInv, NEW r \in Requests, StartMonitor(r)
  PROVE  IInv'
<1> USE DaemonAssumption DEF IInv, notify, channel, counters
<1>1. ControlTyped' /\ OneSent'
  BY DEF StartMonitor, NotifyWaiters, Handling, Control, ControlTyped, OneSent, Stopped, Guarded
<1>2. NotYetMonitored'
  BY DEF StartMonitor, NotifyWaiters, Handling, Control, ControlTyped, NotYetMonitored, Monitored
<1>3. clients' = Cardinality(Counted')
  BY ConnectionsCounted DEF StartMonitor, NotifyWaiters, Handling, Control, ControlTyped, Counted,
     Guarded
<1>4. sessions' = Cardinality(Monitored') /\ processes' = Cardinality(Live')
  <2>1. Monitored' = Monitored \cup {r} /\ r \notin Monitored /\ Live' = Live
    BY DEF StartMonitor, Control, ControlTyped, Live, Monitored
  <2>2. sessions' = sessions + 1 /\ processes' = processes
    BY DEF StartMonitor
  <2> QED
    BY <2>1, <2>2, CountedFinite, CountMoves DEF Counts
<1> QED
  BY <1>1, <1>2, <1>3, <1>4 DEF Control, Counts

\* A handler returns.
LEMMA FinishInv ==
  ASSUME IInv, NEW r \in Requests, Finish(r)
  PROVE  IInv'
<1> USE DaemonAssumption DEF IInv, notify, channel, counters
<1>1. ControlTyped' /\ OneSent'
  BY DEF Finish, Handling, Control, ControlTyped, OneSent, Stopped, Guarded
<1>2. NotYetMonitored'
  BY DEF Finish, Handling, Control, ControlTyped, NotYetMonitored, Monitored
<1>3. clients' = Cardinality(Counted')
  BY ConnectionsCounted DEF Finish, Handling, Control, ControlTyped, Counted, Guarded
<1>4. sessions' = Cardinality(Monitored') /\ processes' = Cardinality(Live')
  BY WorkCounted DEF Finish, Handling, Monitored, Live
<1> QED
  BY <1>1, <1>2, <1>3, <1>4 DEF Control, Counts

\* The run that is stopped has no monitor yet.
LEMMA PersistFailsInv ==
  ASSUME IInv, NEW r \in Requests, PersistFails(r)
  PROVE  IInv'
<1> USE DaemonAssumption DEF IInv, notify, channel, counters
<1>1. ControlTyped' /\ OneSent'
  BY DEF PersistFails, NotifyOne, Handling, Control, ControlTyped, OneSent, Stopped, Guarded
<1>2. NotYetMonitored'
  BY DEF PersistFails, NotifyOne, Handling, Control, ControlTyped, NotYetMonitored, Monitored
<1>3. clients' = Cardinality(Counted')
  BY ConnectionsCounted DEF PersistFails, NotifyOne, Handling, Control, ControlTyped, Counted,
     Guarded
<1>4. sessions' = Cardinality(Monitored') /\ processes' = Cardinality(Live')
  <2>1. Live' = Live \ {r} /\ r \in Live /\ Monitored' = Monitored
    BY DEF PersistFails, Handling, Control, ControlTyped, NotYetMonitored, Live, Monitored
  <2>2. processes' = processes - 1 /\ sessions' = sessions
    BY DEF PersistFails
  <2> QED
    BY <2>1, <2>2, CountedFinite, CountMoves DEF Counts
<1> QED
  BY <1>1, <1>2, <1>3, <1>4 DEF Control, Counts

\* Every process that is registered ends.
LEMMA StopAllWorkInv ==
  ASSUME IInv, NEW r \in Requests, StopAllWork(r)
  PROVE  IInv'
<1> USE DaemonAssumption DEF IInv, notify, channel, counters
<1>p. /\ work' \in [Requests -> {"none", "spawned", "monitored", "exited", "orphan", "over"}]
      /\ permit' \in BOOLEAN /\ woken' \in {"no", "one", "all"} /\ silent' \in BOOLEAN
      /\ Monitored' = Monitored /\ processes' = Cardinality(Live')
  BY ExitsCounted DEF StopAllWork, Live
<1>1. ControlTyped' /\ OneSent'
  BY <1>p DEF StopAllWork, Control, ControlTyped, OneSent, Stopped, Guarded
<1>2. NotYetMonitored'
  BY <1>p DEF StopAllWork, Control, NotYetMonitored, ControlTyped
<1>3. clients' = Cardinality(Counted')
  BY ConnectionsCounted DEF StopAllWork, Control, ControlTyped, Counted, Guarded
<1>4. sessions' = Cardinality(Monitored') /\ processes' = Cardinality(Live')
  BY <1>p DEF StopAllWork, Counts
<1> QED
  BY <1>1, <1>2, <1>3, <1>4 DEF Control, Counts

\* A process ends on its own.
LEMMA ProcessExitsInv ==
  ASSUME IInv, NEW r \in Requests, ProcessExits(r)
  PROVE  IInv'
<1> USE DaemonAssumption DEF IInv, notify, channel, counters
<1>p. /\ work' \in [Requests -> {"none", "spawned", "monitored", "exited", "orphan", "over"}]
      /\ permit' \in BOOLEAN /\ woken' \in {"no", "one", "all"} /\ silent' \in BOOLEAN
      /\ Monitored' = Monitored /\ processes' = Cardinality(Live')
  BY ExitsCounted DEF ProcessExits, Live
<1>1. ControlTyped' /\ OneSent'
  BY <1>p DEF ProcessExits, Control, ControlTyped, OneSent, Stopped, Guarded
<1>2. NotYetMonitored'
  BY <1>p DEF ProcessExits, Control, NotYetMonitored, ControlTyped
<1>3. clients' = Cardinality(Counted')
  BY ConnectionsCounted DEF ProcessExits, Control, ControlTyped, Counted, Guarded
<1>4. sessions' = Cardinality(Monitored') /\ processes' = Cardinality(Live')
  BY <1>p DEF ProcessExits, Counts
<1> QED
  BY <1>1, <1>2, <1>3, <1>4 DEF Control, Counts

\* A session is counted until its monitor ends.
LEMMA MonitorEndsInv ==
  ASSUME IInv, NEW r \in Requests, MonitorEnds(r)
  PROVE  IInv'
<1> USE DaemonAssumption DEF IInv, notify, channel, counters
<1>1. ControlTyped' /\ OneSent'
  BY DEF MonitorEnds, NotifyWaiters, Control, ControlTyped, OneSent, Stopped, Guarded
<1>2. NotYetMonitored'
  BY DEF MonitorEnds, NotifyWaiters, Control, ControlTyped, NotYetMonitored, Monitored
<1>3. clients' = Cardinality(Counted')
  BY ConnectionsCounted DEF MonitorEnds, NotifyWaiters, Control, ControlTyped, Counted, Guarded
<1>4. sessions' = Cardinality(Monitored') /\ processes' = Cardinality(Live')
  <2>1. Monitored' = Monitored \ {r} /\ r \in Monitored /\ Live' = Live
    BY DEF MonitorEnds, Control, ControlTyped, Live, Monitored
  <2>2. sessions' = sessions - 1 /\ processes' = processes
    BY DEF MonitorEnds
  <2> QED
    BY <2>1, <2>2, CountedFinite, CountMoves DEF Counts
<1> QED
  BY <1>1, <1>2, <1>3, <1>4 DEF Control, Counts

\* The flag of a shutdown.
LEMMA RequestShutdownInv ==
  ASSUME IInv, RequestShutdown
  PROVE  IInv'
<1> USE DaemonAssumption DEF IInv, notify, channel, counters
<1>1. ControlTyped' /\ OneSent'
  BY DEF RequestShutdown, Control, ControlTyped, OneSent, Stopped, Guarded
<1>2. NotYetMonitored'
  BY DEF RequestShutdown, Control, ControlTyped, NotYetMonitored, Monitored
<1>3. clients' = Cardinality(Counted')
  BY ConnectionsCounted DEF RequestShutdown, Control, ControlTyped, Counted, Guarded
<1>4. sessions' = Cardinality(Monitored') /\ processes' = Cardinality(Live')
  BY WorkCounted DEF RequestShutdown, Monitored, Live
<1> QED
  BY <1>1, <1>2, <1>3, <1>4 DEF Control, Counts

\* The only shutdown that is sent from outside the loop.
LEMMA SendShutdownInv ==
  ASSUME IInv, SendShutdown
  PROVE  IInv'
<1> USE DaemonAssumption DEF IInv, notify, channel, counters
<1>1. ControlTyped' /\ OneSent'
  BY DEF SendShutdown, Control, ControlTyped, OneSent, Stopped, Guarded
<1>2. NotYetMonitored'
  BY DEF SendShutdown, Control, ControlTyped, NotYetMonitored, Monitored
<1>3. clients' = Cardinality(Counted')
  BY ConnectionsCounted DEF SendShutdown, Control, ControlTyped, Counted, Guarded
<1>4. sessions' = Cardinality(Monitored') /\ processes' = Cardinality(Live')
  BY WorkCounted DEF SendShutdown, Monitored, Live
<1> QED
  BY <1>1, <1>2, <1>3, <1>4 DEF Control, Counts

-----------------------------------------------------------------------------
(* The specification.                                                      *)

\* Nothing exists at the start, and nothing is counted.
LEMMA InitInv == Init => IInv
<1> SUFFICES ASSUME Init PROVE IInv
  OBVIOUS
<1>1. ControlTyped /\ OneSent
  <2>1. seen \in [Clients \cup {LoopReceiver} -> 0..2]
    BY DEF Init
  <2>2. conn \in [Clients -> Guarded \cup {"off", "backlog", "turned_away", "ended", "reaped"}]
    BY DEF Init
  <2>3. idle \in BOOLEAN /\ permit \in BOOLEAN /\ silent \in BOOLEAN /\ flag \in BOOLEAN
    BY Zenon DEF Init
  <2>4. watch \in 0 .. 2 /\ OneSent
    BY DEF Init, OneSent
  <2>5. /\ req \in [Requests -> {"off", "running", "detached", "ready", "answered",
                              "refused", "aborted", "over"}]
        /\ work \in [Requests -> {"none", "spawned", "monitored", "exited", "orphan", "over"}]
    BY DEF Init
  <2>6. loop = "bound" /\ woken = "no"
    BY DEF Init
  <2> QED
    BY <2>1, <2>2, <2>3, <2>4, <2>5, <2>6 DEF ControlTyped
<1>2. Counted = {} /\ Monitored = {} /\ Live = {}
  BY DEF Init, Counted, Monitored, Live, Guarded
<1>3. NotYetMonitored
  BY <1>2 DEF NotYetMonitored
<1> QED
  BY <1>1, <1>2, <1>3, FS_EmptySet DEF Init, IInv, Control, Counts

\* Every step keeps the invariant.
LEMMA NextInv == IInv /\ [Next]_vars => IInv'
<1> SUFFICES ASSUME IInv, [Next]_vars PROVE IInv'
  OBVIOUS
<1>1. CASE UNCHANGED vars
  BY <1>1 DEF vars, IInv, Control, ControlTyped, OneSent, NotYetMonitored, Counts, Counted,
     Monitored, Live
<1>2. CASE LoopStep \/ AcceptFails
  BY <1>2, RunInv, ResumeInv, WakeInv, SeeShutdownInv, DeadlinePassesInv, AcceptInv, AcceptFailsInv,
     JoinTaskInv, MaintenanceEndsInv, CloseAllTerminalsInv, GraceExpiresInv, AbortTaskInv,
     RemoveSocketInv DEF LoopStep
<1>3. ASSUME NEW c \in Clients,
             ConnectionStep(c) \/ Connect(c) \/ HelloFails(c) \/ ReadEnds(c) \/ ConnectionFails(c)
      PROVE  IInv'
  BY <1>3, ConnectInv, AuthenticateInv, HelloFailsInv, CheckFlagInv, HearShutdownInv, ReadEndsInv,
     WriteResponseInv, ConnectionFailsInv, DrainInv, ClientLeavesInv DEF ConnectionStep
<1>4. ASSUME NEW r \in Requests,
             ReadRequest(r) \/ RequestStep(r) \/ ProcessExits(r) \/ MonitorEnds(r)
      PROVE  IInv'
  BY <1>4, ReadRequestInv, SpawnWorkInv, StartMonitorInv, FinishInv, PersistFailsInv,
     StopAllWorkInv,
     ProcessExitsInv, MonitorEndsInv DEF RequestStep
<1>5. CASE RequestShutdown \/ SendShutdown
  BY <1>5, RequestShutdownInv, SendShutdownInv
<1> QED
  BY <1>1, <1>2, <1>3, <1>4, <1>5 DEF Next

\* The counters are within the bounds of what there is to count.
LEMMA CountersBounded == IInv => CountersAgree
<1> SUFFICES ASSUME IInv PROVE CountersAgree
  OBVIOUS
<1>1. /\ clients \in 0 .. Cardinality(Clients)
      /\ sessions \in 0 .. Cardinality(Requests) /\ processes \in 0 .. Cardinality(Requests)
  <2>1. Cardinality(Clients) \in Nat /\ Cardinality(Requests) \in Nat
    BY DaemonAssumption, FS_CardinalityType
  <2> QED
    BY <2>1, CountedFinite, Countable DEF IInv, Counts
<1> QED
  BY <1>1 DEF IInv, Control, ControlTyped, Counts, CountersAgree, TypeOK, Counted, Monitored

\* The inductive invariant is an invariant of the daemon.
THEOREM Invariance == Spec => []IInv
BY InitInv, NextInv, PTL DEF Spec

\* What is_idle reads agrees with what exists, for any number of clients and
\* requests, whoever is aborted, detached or ends between two steps: the daemon
\* is idle exactly when no connection, session or process is there.
THEOREM CountersHold == Spec => []CountersAgree
BY Invariance, CountersBounded, PTL
=============================================================================
