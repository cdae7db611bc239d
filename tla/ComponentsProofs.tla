-------------------------- MODULE ComponentsProofs --------------------------
(***************************************************************************)
(* Proofs about SessionPersistence and the components beside it, for any   *)
(* values of the constants.  The parts share no state: each keeps the      *)
(* inductive invariant of its own module, and the last section puts them   *)
(* together.                                                               *)
(*                                                                         *)
(* SessionPersistence comes first.  What the database says of a run is a   *)
(* copy of the session's state and last exit, taken without looking at the *)
(* run they are about, so the proofs rest on what these two can be while a *)
(* run of the session lives (ExitSound) and on what the snapshots in       *)
(* flight have kept of it (SnapshotsSound).  That no event is skipped      *)
(* rests on where a run's events can be in the stream before its monitor   *)
(* subscribes (CursorsSound).                                              *)
(***************************************************************************)
EXTENDS Components, SequenceTheorems, FiniteSetTheorems, WellFoundedInduction, TLAPS

\* Runs that a launch of the session would collide with, before and after the
\* run is installed.
Launching == {"begun", "spawning", "unlaunched"}
Active == {"running", "failing", "reported"}

\* The run has been installed and the daemon still knows of it.
Installed(r) == request[r] \in {"launched", "halfway", "recorded"} \/ monitor[r].pc # "off"

\* A request, the run it launches and the run's monitor come in this order,
\* and one run at a time is launched or active.
RunsOrdered ==
  /\ \A r \in Runs :
       /\ active = r <=> run[r] \in Active
       /\ Ended(r) => run[r] \in {"concluded", "over"}
       /\ Installed(r) => active = r \/ Ended(r)
       /\ request[r] = "new" => run[r] = "new"
       /\ request[r] = "asked" => run[r] \in {"new"} \cup Launching
       /\ run[r] \in Launching => request[r] = "asked"
       /\ request[r] # "over" => monitor[r].pc = "off" /\ dbExit[r] = NoRun
  /\ \A q, r \in Runs :
       run[q] \in Launching \cup Active /\ run[r] \in Launching \cup Active => q = r

\* The last exit is the one of a run that has ended, in the state the session
\* is in, until the next launch; that launch forgets it before its run begins.
ExitSound ==
  /\ exit # NoRun => Ended(exit) /\ state \in {fate[exit], "starting"}
  /\ \A r \in Runs :
       /\ run[r] \in {"spawning", "unlaunched"} \cup Active => exit = NoRun
       /\ run[r] \in Launching \cup Active => state \notin {"completed", "stopped"}

\* What a monitor has read of the session and not yet written.
SnapshotSound(r) ==
  /\ monitor[r].pc \in {"updating", "finishing", "halfway"} => monitor[r].seen # "none"
  /\ monitor[r].pc \in {"finishing", "halfway"} =>
       /\ monitor[r].seen \in {"completed", "stopped"} \/ monitor[r].exit # NoRun => Ended(r)
       /\ monitor[r].exit = r => monitor[r].seen \in {fate[r], "starting"}
SnapshotsSound == \A r \in Runs : SnapshotSound(r)

\* A run that may be monitored has its row, and no row names a state that only
\* a later daemon gives.
RowsSound ==
  /\ \A r \in Runs : request[r] = "recorded" \/ monitor[r].pc # "off" => dbRun[r] # "none"
  /\ state # "recoverable" /\ dbState # "recoverable"
  /\ \A r \in Runs : dbRun[r] # "recoverable" /\ monitor[r].seen # "recoverable"

\* A run has no events before it is installed, so none behind after_sequence;
\* a subscribed monitor is within the stream.
CursorSound(r) ==
  /\ run[r] \in {"new"} \cup Launching => \A n \in 1 .. Latest : stream[n] # r
  /\ monitor[r].pc \in {"off", "started"} =>
       monitor[r].next <= Latest /\ \A n \in 1 .. monitor[r].next : stream[n] # r
  /\ monitor[r].pc \in {"waiting", "looking", "updating"} => monitor[r].next \in 1 .. Latest + 1
  /\ monitor[r].pc = "storing" => monitor[r].next \in 1 .. Latest
  /\ monitor[r].pc \in {"closing", "finishing", "halfway", "done"} => monitor[r].next = 0
CursorsSound == \A r \in Runs : CursorSound(r)

\* The events of its run that a monitor has passed are stored.
HasStored(r) ==
  ~At(r, "off") /\ ~At(r, "started") =>
    \A n \in monitor[r].cut + 1 .. monitor[r].next - 1 : stream[n] = r => n \in dbEvents
PassedStored == faults = 0 => \A r \in Runs : HasStored(r)

\* The parts by what they are about.
Control == RunsOrdered /\ ExitSound /\ SnapshotsSound /\ RowsSound
Database == NoPrematureEnd /\ ExitMatchesState
Journal == CursorsSound /\ PassedStored

IInv == TypeOK /\ Control /\ Database /\ RecoveredClean /\ Journal

-----------------------------------------------------------------------------
(* Facts that several actions use.                                         *)

\* The types of a task's locals.
MonitorState ==
  [pc : {"off", "started", "waiting", "storing", "looking", "updating", "closing",
         "finishing", "halfway", "done"},
   next : Nat, replay : Nat, cut : Nat,
   last : SessionState \cup {"none"}, seen : SessionState \cup {"none"},
   exit : Runs \cup {NoRun}]

\* Monitor r alone goes on, to locals of their types.
Advances(r) ==
  /\ monitor' \in [Runs -> MonitorState]
  /\ \A s \in Runs : s # r => monitor'[s] = monitor[s]

\* A task's locals are what the type invariant says they are.
LEMMA LocalsTyped ==
  ASSUME TypeOK, NEW r \in Runs
  PROVE  monitor[r] \in MonitorState
BY DEF TypeOK, MonitorState

\* The only monitor that an update of one entry moves.
LEMMA AdvanceTo ==
  ASSUME TypeOK, NEW r \in Runs, NEW q \in MonitorState, monitor' = [monitor EXCEPT ![r] = q]
  PROVE  Advances(r) /\ monitor'[r] = q
BY DEF TypeOK, MonitorState, Advances

\* A failing statement stays within the bound on faults.
LEMMA FaultCounted ==
  ASSUME TypeOK, Fault
  PROVE  faults' \in 0 .. MaxFaults /\ faults' # 0
BY PersistenceAssumption DEF TypeOK, Fault

\* Publishing appends one event behind those that are there.
LEMMA PublishAppends ==
  ASSUME TypeOK, NEW x \in Runs \cup {NoRun}, Publish(x)
  PROVE  /\ stream' \in Seq(Runs \cup {NoRun})
         /\ Latest \in Nat /\ Latest' = Latest + 1 /\ stream'[Latest + 1] = x
         /\ \A n \in 1 .. Latest : stream'[n] = stream[n]
BY DEF TypeOK, Publish, Latest

\* An event published by a run that is installed, or that names none, moves no
\* monitor out of the stream and is not behind one.
LEMMA PublishJournal ==
  ASSUME TypeOK, Journal, NEW x \in Runs \cup {NoRun}, Publish(x),
         UNCHANGED <<monitor, dbEvents, faults>>,
         \A r \in Runs : run'[r] \in {"new"} \cup Launching =>
                           run[r] \in {"new"} \cup Launching /\ x # r
  PROVE  Journal'
<1> USE PublishAppends DEF Journal
<1>1. \A r \in Runs : monitor[r].next \in Nat /\ monitor[r].cut \in Nat
  BY DEF TypeOK
<1>2. CursorsSound'
  BY <1>1 DEF CursorsSound, CursorSound
<1>3. \A r \in Runs : monitor[r].next <= Latest + 1
  <2> SUFFICES ASSUME NEW r \in Runs PROVE monitor[r].next <= Latest + 1
    OBVIOUS
  <2>1. monitor[r].pc \in {"off", "started", "waiting", "storing", "looking", "updating",
                           "closing", "finishing", "halfway", "done"}
    BY DEF TypeOK
  <2>2. Latest \in Nat
    OBVIOUS
  <2> QED
    BY <1>1, <2>1, <2>2 DEF CursorsSound, CursorSound
<1>4. \A r \in Runs : \A n \in monitor[r].cut + 1 .. monitor[r].next - 1 : n \in 1 .. Latest
  BY <1>1, <1>3
<1>5. PassedStored'
  BY <1>4 DEF PassedStored, HasStored, At
<1> QED
  BY <1>2, <1>5

\* Steps that leave the stream, the monitors and the stored events alone.
LEMMA StillJournal ==
  ASSUME TypeOK, Journal, UNCHANGED <<stream, monitor, dbEvents>>, faults' = 0 => faults = 0,
         \A r \in Runs : run'[r] \in {"new"} \cup Launching => run[r] \in {"new"} \cup Launching
  PROVE  Journal'
BY DEF Journal, CursorsSound, CursorSound, PassedStored, HasStored, Latest, At

\* A monitor that moves along the stream on its own.
LEMMA MonitorJournal ==
  ASSUME TypeOK, Journal, NEW r \in Runs, Advances(r), UNCHANGED <<stream, run>>,
         dbEvents \subseteq dbEvents', faults' = 0 => faults = 0,
         CursorSound(r)', faults' = 0 => HasStored(r)'
  PROVE  Journal'
<1>1. \A s \in Runs : s # r => CursorSound(s)'
  BY DEF Journal, CursorsSound, CursorSound, Advances, Latest
<1>2. faults' = 0 => \A s \in Runs : s # r => HasStored(s)'
  BY DEF Journal, PassedStored, HasStored, Advances, At
<1> QED
  BY <1>1, <1>2 DEF Journal, CursorsSound, PassedStored

\* Locals that are dropped have nothing behind them.
LEMMA DroppedJournal ==
  ASSUME TypeOK, Journal, NEW r \in Runs, Advances(r), UNCHANGED <<stream, run>>,
         dbEvents = dbEvents', faults' = 0 => faults = 0,
         monitor'[r].next = 0, monitor'[r].pc \in {"closing", "finishing", "halfway", "done"}
  PROVE  Journal'
<1>1. Latest' = Latest /\ Latest \in Nat
  BY DEF Latest, TypeOK
<1>2. CursorSound(r)'
  BY <1>1 DEF CursorSound, Journal, CursorsSound
<1>3. monitor'[r].cut \in Nat
  BY DEF Advances, MonitorState
<1>4. HasStored(r)'
  BY <1>3 DEF HasStored
<1> QED
  BY <1>2, <1>4, MonitorJournal

\* Locals other than the cursor do not matter to it.
LEMMA SameCursor ==
  ASSUME TypeOK, Journal, NEW r \in Runs, Advances(r), UNCHANGED <<stream, run>>,
         dbEvents = dbEvents', faults' = 0 => faults = 0,
         monitor'[r].next = monitor[r].next, monitor'[r].cut = monitor[r].cut,
         monitor[r].pc \in {"looking", "updating"}, monitor'[r].pc \in {"updating", "waiting"}
  PROVE  Journal'
<1>1. CursorSound(r)'
  BY DEF CursorSound, Journal, CursorsSound, Latest
<1>2. faults' = 0 => HasStored(r)'
  BY DEF HasStored, Journal, PassedStored, At
<1> QED
  BY <1>1, <1>2, MonitorJournal

\* A monitor that has been started goes on and touches at most the session's row.
LEMMA MonitorControl ==
  ASSUME TypeOK, Control, Database, NEW r \in Runs, Advances(r),
         UNCHANGED <<session, life, request, dbRun, dbExit>>, dbState' # "recoverable",
         monitor[r].pc # "off", monitor'[r].seen # "recoverable", SnapshotSound(r)'
  PROVE  Control' /\ Database'
<1> USE DEF session, life
<1>1. RunsOrdered'
  BY DEF Control, RunsOrdered, Installed, Ended, Advances
<1>2. ExitSound'
  BY DEF Control, ExitSound, Ended
<1>3. SnapshotsSound'
  BY DEF Control, SnapshotsSound, SnapshotSound, Ended, Advances
<1>4. RowsSound'
  BY DEF Control, RowsSound, Advances
<1>5. Database'
  BY DEF Database, NoPrematureEnd, ExitMatchesState, Ended
<1> QED
  BY <1>1, <1>2, <1>3, <1>4, <1>5 DEF Control

\* launch stores Starting; no other run is launched or active.
LEMMA BeginInv ==
  ASSUME TypeOK, Control, Database, Journal, NEW r \in Runs, Begin(r)
  PROVE  TypeOK' /\ Control' /\ Database' /\ Journal'
<1> USE PersistenceAssumption DEF session, life, rows
<1>1. TypeOK'
  BY DEF Begin, Lives, SetState, TypeOK, SessionState, FinalStates
<1>2. Control' /\ Database'
  BY DEF Begin, Lives, SetState, TypeOK, SessionState, FinalStates, Control, RunsOrdered,
     ExitSound, SnapshotsSound, SnapshotSound, RowsSound, Installed, Ended, Launching,
     Active, Database, NoPrematureEnd, ExitMatchesState
<1>3. Journal'
  BY StillJournal DEF Begin, Lives, SetState, Launching, TypeOK
<1> QED
  BY <1>1, <1>2, <1>3

\* The last exit is forgotten before the run begins.
LEMMA ResetInv ==
  ASSUME TypeOK, Control, Database, Journal, NEW r \in Runs, Reset(r)
  PROVE  TypeOK' /\ Control' /\ Database' /\ Journal'
<1> USE PersistenceAssumption DEF session, life, rows
<1>1. TypeOK'
  BY DEF Reset, Lives, TypeOK, SessionState, FinalStates
<1>2. Control' /\ Database'
  <2>1. RunsOrdered'
    BY DEF Reset, Lives, TypeOK, Control, RunsOrdered, Installed, Ended, Launching, Active
  <2>2. ExitSound'
    BY DEF Reset, Lives, TypeOK, SessionState, FinalStates, Control, RunsOrdered, Installed,
       Ended, Launching, Active, ExitSound
  <2>3. SnapshotsSound' /\ RowsSound'
    BY DEF Reset, Lives, TypeOK, SessionState, FinalStates, Control, RunsOrdered, Installed,
       Ended, Launching, Active, SnapshotsSound, SnapshotSound, RowsSound
  <2>4. Database'
    BY DEF Reset, Lives, TypeOK, FinalStates, Control, RunsOrdered, Installed, Ended,
       Launching, Active, SnapshotsSound, SnapshotSound, Database, NoPrematureEnd,
       ExitMatchesState
  <2> QED
    BY <2>1, <2>2, <2>3, <2>4 DEF Control
<1>3. Journal'
  BY StillJournal DEF Reset, Lives, Launching, TypeOK
<1> QED
  BY <1>1, <1>2, <1>3

\* The run becomes the active one and publishes its first event.
LEMMA InstallInv ==
  ASSUME TypeOK, Control, Database, Journal, NEW r \in Runs, Install(r)
  PROVE  TypeOK' /\ Control' /\ Database' /\ Journal'
<1> USE PersistenceAssumption DEF session, life, rows
<1>1. TypeOK'
  BY PublishAppends DEF Install, Lives, Asks, TypeOK, SessionState, FinalStates
<1>2. Control' /\ Database'
  <2>1. RunsOrdered'
    BY DEF Install, Lives, Asks, TypeOK, Control, RunsOrdered, Installed, Ended, Launching,
       Active
  <2>2. ExitSound'
    BY DEF Install, Lives, Asks, TypeOK, SessionState, FinalStates, Control, RunsOrdered,
       Installed, Ended, Launching, Active, ExitSound
  <2>3. SnapshotsSound' /\ RowsSound'
    BY DEF Install, Lives, Asks, TypeOK, SessionState, FinalStates, Control, RunsOrdered,
       Installed, Ended, Launching, Active, SnapshotsSound, SnapshotSound, RowsSound
  <2>4. Database'
    BY DEF Install, Lives, Asks, TypeOK, FinalStates, Control, RunsOrdered, Installed,
       Ended, Launching, Active, SnapshotsSound, SnapshotSound, Database, NoPrematureEnd,
       ExitMatchesState
  <2> QED
    BY <2>1, <2>2, <2>3, <2>4 DEF Control
<1>3. Journal'
  BY PublishJournal DEF Install, Lives, Asks, Launching, TypeOK, Control, RunsOrdered,
     Active
<1> QED
  BY <1>1, <1>2, <1>3

\* A process that does not start leaves the session failed.
LEMMA LaunchFailsInv ==
  ASSUME TypeOK, Control, Database, Journal, NEW r \in Runs, LaunchFails(r)
  PROVE  TypeOK' /\ Control' /\ Database' /\ Journal'
<1> USE PersistenceAssumption DEF session, life, rows
<1>1. TypeOK'
  BY DEF LaunchFails, Lives, TypeOK, SessionState, FinalStates
<1>2. Control' /\ Database'
  BY DEF LaunchFails, Lives, TypeOK, SessionState, FinalStates, Control, RunsOrdered,
     ExitSound, SnapshotsSound, SnapshotSound, RowsSound, Installed, Ended, Launching,
     Active, Database, NoPrematureEnd, ExitMatchesState
<1>3. Journal'
  BY StillJournal DEF LaunchFails, Lives, Launching, TypeOK
<1> QED
  BY <1>1, <1>2, <1>3

\* Its report names no run.
LEMMA ReportLaunchInv ==
  ASSUME TypeOK, Control, Database, Journal, NEW r \in Runs, ReportLaunch(r)
  PROVE  TypeOK' /\ Control' /\ Database' /\ Journal'
<1> USE PersistenceAssumption DEF session, life, rows
<1>1. TypeOK'
  BY PublishAppends DEF ReportLaunch, Lives, Asks, TypeOK, SessionState, FinalStates
<1>2. Control' /\ Database'
  BY DEF ReportLaunch, Lives, Asks, TypeOK, SessionState, FinalStates, Control, RunsOrdered,
     ExitSound, SnapshotsSound, SnapshotSound, RowsSound, Installed, Ended, Launching,
     Active, Database, NoPrematureEnd, ExitMatchesState
<1>3. Journal'
  BY PublishJournal DEF ReportLaunch, Lives, Asks, Launching, TypeOK, Control, RunsOrdered,
     Active
<1> QED
  BY <1>1, <1>2, <1>3

\* An aborted request leaves what it has done.
LEMMA AbortRequestInv ==
  ASSUME TypeOK, Control, Database, Journal, NEW r \in Runs, AbortRequest(r)
  PROVE  TypeOK' /\ Control' /\ Database' /\ Journal'
<1> USE PersistenceAssumption DEF session, life, rows
<1>1. TypeOK'
  BY DEF AbortRequest, Lives, Asks, TypeOK, SessionState, FinalStates
<1>2. Control' /\ Database'
  BY DEF AbortRequest, Lives, Asks, TypeOK, SessionState, FinalStates, Control, RunsOrdered,
     ExitSound, SnapshotsSound, SnapshotSound, RowsSound, Installed, Ended, Launching,
     Active, Database, NoPrematureEnd, ExitMatchesState
<1>3. Journal'
  BY StillJournal DEF AbortRequest, Lives, Asks, Launching, TypeOK
<1> QED
  BY <1>1, <1>2, <1>3

\* An event of the active run.
LEMMA EmitInv ==
  ASSUME TypeOK, Control, Database, Journal, NEW r \in Runs, Emit(r)
  PROVE  TypeOK' /\ Control' /\ Database' /\ Journal'
<1> USE PersistenceAssumption DEF session, life, rows
<1>1. TypeOK'
  BY PublishAppends DEF Emit, TypeOK, SessionState, FinalStates
<1>2. Control' /\ Database'
  BY DEF Emit, TypeOK, SessionState, FinalStates, Control, RunsOrdered, ExitSound,
     SnapshotsSound, SnapshotSound, RowsSound, Installed, Ended, Launching, Active,
     Database, NoPrematureEnd, ExitMatchesState
<1>3. Journal'
  BY PublishJournal DEF Emit, Launching, TypeOK, Control, RunsOrdered, Active
<1> QED
  BY <1>1, <1>2, <1>3

\* Frames and answers never end a session.
LEMMA MoveInv ==
  ASSUME TypeOK, Control, Database, Journal, NEW r \in Runs, NEW to \in Moves, Move(r, to)
  PROVE  TypeOK' /\ Control' /\ Database' /\ Journal'
<1> USE PersistenceAssumption DEF session, life, rows
<1>1. TypeOK'
  BY DEF Move, SetState, TypeOK, SessionState, FinalStates
<1>2. Control' /\ Database'
  <2>1. /\ run[r] \in Active /\ state' \in {state, to}
        /\ to \notin {"completed", "stopped", "recoverable"}
    BY DEF Move, SetState, Active
  <2>2. UNCHANGED <<active, exit, run, fate, request, monitor, dbState, dbRun, dbExit>>
    BY DEF Move
  <2>3. RunsOrdered' /\ SnapshotsSound' /\ Database'
    BY <2>2 DEF Control, RunsOrdered, Installed, Ended, SnapshotsSound, SnapshotSound, Database,
       NoPrematureEnd, ExitMatchesState
  <2>4. ExitSound' /\ RowsSound'
    BY <2>1, <2>2 DEF Control, ExitSound, RowsSound, Ended
  <2> QED
    BY <2>3, <2>4 DEF Control
<1>3. Journal'
  BY StillJournal DEF Move, SetState, Launching, TypeOK
<1> QED
  BY <1>1, <1>2, <1>3

\* A protocol failure is not the end of the run yet.
LEMMA FailProtocolInv ==
  ASSUME TypeOK, Control, Database, Journal, NEW r \in Runs, NEW final \in Failures, FailProtocol(r,
         final)
  PROVE  TypeOK' /\ Control' /\ Database' /\ Journal'
<1> USE PersistenceAssumption DEF session, life, rows
<1>1. TypeOK'
  BY DEF FailProtocol, Lives, TypeOK, SessionState, FinalStates
<1>2. Control' /\ Database'
  <2>1. RunsOrdered'
    BY DEF FailProtocol, Lives, TypeOK, Control, RunsOrdered, Installed, Ended, Launching,
       Active
  <2>2. ExitSound'
    BY DEF FailProtocol, Lives, TypeOK, SessionState, FinalStates, Control, RunsOrdered,
       Installed, Ended, Launching, Active, ExitSound
  <2>3. SnapshotsSound' /\ RowsSound'
    BY DEF FailProtocol, Lives, TypeOK, SessionState, FinalStates, Control, RunsOrdered,
       Installed, Ended, Launching, Active, SnapshotsSound, SnapshotSound, RowsSound
  <2>4. Database'
    BY DEF FailProtocol, Lives, TypeOK, FinalStates, Control, RunsOrdered, Installed, Ended,
       Launching, Active, SnapshotsSound, SnapshotSound, Database, NoPrematureEnd,
       ExitMatchesState
  <2> QED
    BY <2>1, <2>2, <2>3, <2>4 DEF Control
<1>3. Journal'
  BY StillJournal DEF FailProtocol, Lives, Launching, TypeOK
<1> QED
  BY <1>1, <1>2, <1>3

\* It is published before the run concludes.
LEMMA ReportFailureInv ==
  ASSUME TypeOK, Control, Database, Journal, NEW r \in Runs, ReportFailure(r)
  PROVE  TypeOK' /\ Control' /\ Database' /\ Journal'
<1> USE PersistenceAssumption DEF session, life, rows
<1>1. TypeOK'
  BY PublishAppends DEF ReportFailure, Lives, TypeOK, SessionState, FinalStates
<1>2. Control' /\ Database'
  BY DEF ReportFailure, Lives, TypeOK, SessionState, FinalStates, Control, RunsOrdered,
     ExitSound, SnapshotsSound, SnapshotSound, RowsSound, Installed, Ended, Launching,
     Active, Database, NoPrematureEnd, ExitMatchesState
<1>3. Journal'
  BY PublishJournal DEF ReportFailure, Lives, Launching, TypeOK, Control, RunsOrdered,
     Active
<1> QED
  BY <1>1, <1>2, <1>3

\* finalize_run stores the final state and whose exit it is.
LEMMA ConcludeInv ==
  ASSUME TypeOK, Control, Database, Journal, NEW r \in Runs, NEW final \in FinalStates, Conclude(r,
         final)
  PROVE  TypeOK' /\ Control' /\ Database' /\ Journal'
<1> USE PersistenceAssumption DEF session, life, rows
<1>1. TypeOK'
  BY DEF Conclude, Lives, TypeOK, SessionState, FinalStates
<1>2. Control' /\ Database'
  <2>1. /\ run[r] \in {"running", "reported"} /\ run'[r] \in {"concluded", "over"}
        /\ \A s \in Runs : s # r => run'[s] = run[s] /\ fate'[s] = fate[s]
        /\ fate[r] = "none" /\ fate'[r] = final /\ final # "none"
        /\ active = r /\ active' = NoRun /\ exit' = r /\ state' = final
    BY DEF Conclude, Lives, TypeOK, FinalStates, Control, RunsOrdered, Ended, Active
  <2>2. \A s \in Runs : s # r => run[s] \notin Launching \cup Active
    BY <2>1 DEF Control, RunsOrdered, Active
  <2>3. UNCHANGED <<request, monitor, dbState, dbRun, dbExit>>
    BY DEF Conclude
  <2>4. RunsOrdered'
    BY <2>1, <2>2, <2>3 DEF Control, RunsOrdered, Installed, Ended, Launching, Active
  <2>5. ExitSound'
    BY <2>1, <2>2 DEF ExitSound, Ended, Launching, Active
  <2>6. SnapshotsSound' /\ RowsSound'
    BY <2>1, <2>3 DEF Control, SnapshotsSound, SnapshotSound, RowsSound, FinalStates, Ended
  <2>7. Database'
    BY <2>1, <2>3 DEF Database, NoPrematureEnd, ExitMatchesState, Ended
  <2> QED
    BY <2>4, <2>5, <2>6, <2>7 DEF Control
<1>3. Journal'
  BY StillJournal DEF Conclude, Lives, Launching, TypeOK
<1> QED
  BY <1>1, <1>2, <1>3

\* The last event of the run.
LEMMA FinalEventInv ==
  ASSUME TypeOK, Control, Database, Journal, NEW r \in Runs, FinalEvent(r)
  PROVE  TypeOK' /\ Control' /\ Database' /\ Journal'
<1> USE PersistenceAssumption DEF session, life, rows
<1>1. TypeOK'
  BY PublishAppends DEF FinalEvent, Lives, TypeOK, SessionState, FinalStates
<1>2. Control' /\ Database'
  BY DEF FinalEvent, Lives, TypeOK, SessionState, FinalStates, Control, RunsOrdered,
     ExitSound, SnapshotsSound, SnapshotSound, RowsSound, Installed, Ended, Launching,
     Active, Database, NoPrematureEnd, ExitMatchesState
<1>3. Journal'
  BY PublishJournal DEF FinalEvent, Lives, Launching, TypeOK, Control, RunsOrdered, Active
<1> QED
  BY <1>1, <1>2, <1>3

\* The session's row.
LEMMA RecordSessionInv ==
  ASSUME TypeOK, Control, Database, Journal, NEW r \in Runs, RecordSession(r)
  PROVE  TypeOK' /\ Control' /\ Database' /\ Journal'
<1> USE PersistenceAssumption DEF session, life, rows
<1>1. TypeOK'
  BY DEF RecordSession, Asks, TypeOK, SessionState, FinalStates
<1>2. Control' /\ Database'
  BY DEF RecordSession, Asks, TypeOK, SessionState, FinalStates, Control, RunsOrdered,
     ExitSound, SnapshotsSound, SnapshotSound, RowsSound, Installed, Ended, Launching,
     Active, Database, NoPrematureEnd, ExitMatchesState
<1>3. Journal'
  BY StillJournal DEF RecordSession, Asks, Launching, TypeOK
<1> QED
  BY <1>1, <1>2, <1>3

\* The run's row, which has no exit yet.
LEMMA RecordRunInv ==
  ASSUME TypeOK, Control, Database, Journal, NEW r \in Runs, RecordRun(r)
  PROVE  TypeOK' /\ Control' /\ Database' /\ Journal'
<1> USE PersistenceAssumption DEF session, life, rows
<1>1. TypeOK'
  BY DEF RecordRun, Asks, TypeOK, SessionState, FinalStates
<1>2. Control' /\ Database'
  BY DEF RecordRun, Asks, TypeOK, SessionState, FinalStates, Control, RunsOrdered,
     ExitSound, SnapshotsSound, SnapshotSound, RowsSound, Installed, Ended, Launching,
     Active, Database, NoPrematureEnd, ExitMatchesState
<1>3. Journal'
  BY StillJournal DEF RecordRun, Asks, Launching, TypeOK
<1> QED
  BY <1>1, <1>2, <1>3

\* A statement of the two fails.
LEMMA RecordFailsInv ==
  ASSUME TypeOK, Control, Database, Journal, NEW r \in Runs, RecordFails(r)
  PROVE  TypeOK' /\ Control' /\ Database' /\ Journal'
<1> USE PersistenceAssumption DEF session, life, rows
<1>1. TypeOK'
  BY DEF RecordFails, Asks, Fault, TypeOK, SessionState, FinalStates
<1>2. Control' /\ Database'
  BY DEF RecordFails, Asks, Fault, TypeOK, SessionState, FinalStates, Control, RunsOrdered,
     ExitSound, SnapshotsSound, SnapshotSound, RowsSound, Installed, Ended, Launching,
     Active, Database, NoPrematureEnd, ExitMatchesState
<1>3. Journal'
  BY StillJournal DEF RecordFails, Asks, Fault, Launching, TypeOK
<1> QED
  BY <1>1, <1>2, <1>3

-----------------------------------------------------------------------------
(* The monitor.                                                            *)

\* A request begins: the run has no events yet, so none up to the last one.
LEMMA AskInv ==
  ASSUME TypeOK, Control, Database, Journal, NEW r \in Runs, Ask(r)
  PROVE  TypeOK' /\ Control' /\ Database' /\ Journal'
<1> USE DEF session, life, rows
<1>0. Latest \in Nat /\ Latest' = Latest
  BY DEF Latest, TypeOK, Ask
<1>1. /\ Advances(r) /\ monitor'[r].pc = monitor[r].pc /\ monitor'[r].next = Latest
      /\ monitor'[r].seen = monitor[r].seen /\ monitor'[r].exit = monitor[r].exit
  <2> DEFINE q == [monitor[r] EXCEPT !.next = Latest]
  <2>1. q \in MonitorState /\ monitor[r] \in MonitorState
    BY <1>0, LocalsTyped DEF MonitorState
  <2>2. monitor' = [monitor EXCEPT ![r] = q]
    BY DEF Ask
  <2>3. Advances(r) /\ monitor'[r] = q
    BY <2>1, <2>2, AdvanceTo
  <2> QED
    BY <2>1, <2>3 DEF MonitorState
<1>2. monitor[r].pc = "off" /\ run[r] = "new" /\ request[r] = "new"
  BY DEF Ask, Control, RunsOrdered
<1>3. TypeOK'
  BY <1>1 DEF Ask, Asks, TypeOK, Advances, MonitorState
<1>4. Control' /\ Database'
  BY <1>1, <1>2 DEF Ask, Asks, TypeOK, Advances, Control, RunsOrdered, Installed, Ended, Launching,
     Active, ExitSound, SnapshotsSound, SnapshotSound, RowsSound, Database, NoPrematureEnd,
     ExitMatchesState
<1>5. CursorSound(r)' /\ HasStored(r)'
  BY <1>0, <1>1, <1>2 DEF Ask, Journal, CursorsSound, CursorSound, HasStored, At
<1> QED
  BY <1>1, <1>3, <1>4, <1>5, MonitorJournal DEF Ask

\* The monitor of a recorded run is started where its request left off.
LEMMA StartMonitorInv ==
  ASSUME TypeOK, Control, Database, Journal, NEW r \in Runs, StartMonitor(r)
  PROVE  TypeOK' /\ Control' /\ Database' /\ Journal'
<1> USE DEF session, life, rows
<1>1. /\ Advances(r) /\ monitor'[r].pc = "started" /\ monitor'[r].next = monitor[r].next
      /\ monitor'[r].seen = monitor[r].seen /\ monitor'[r].exit = monitor[r].exit
  <2> DEFINE q == [monitor[r] EXCEPT !.pc = "started"]
  <2>1. q \in MonitorState /\ monitor[r] \in MonitorState
    BY LocalsTyped DEF MonitorState
  <2>2. monitor' = [monitor EXCEPT ![r] = q]
    BY DEF StartMonitor
  <2>3. Advances(r) /\ monitor'[r] = q
    BY <2>1, <2>2, AdvanceTo
  <2> QED
    BY <2>1, <2>3 DEF MonitorState
<1>2. monitor[r].pc = "off" /\ request[r] = "recorded"
  BY DEF StartMonitor, Control, RunsOrdered
<1>3. TypeOK'
  BY <1>1 DEF StartMonitor, Asks, TypeOK, Advances, MonitorState
<1>4. Control' /\ Database'
  BY <1>1, <1>2 DEF StartMonitor, Asks, TypeOK, Advances, Control, RunsOrdered, Installed, Ended,
     Launching, Active, ExitSound, SnapshotsSound, SnapshotSound, RowsSound, Database,
     NoPrematureEnd, ExitMatchesState
<1>5. CursorSound(r)' /\ HasStored(r)'
  BY <1>1, <1>2 DEF StartMonitor, Journal, CursorsSound, CursorSound, HasStored, At, Latest
<1> QED
  BY <1>1, <1>3, <1>4, <1>5, MonitorJournal DEF StartMonitor

\* Subscribe leaves a gap only in front of cut, where the log has evicted, and
\* at most events of other runs between cut and after_sequence.
LEMMA SubscribeInv ==
  ASSUME TypeOK, Control, Database, Journal, NEW r \in Runs, Subscribe(r)
  PROVE  TypeOK' /\ Control' /\ Database' /\ Journal'
<1> USE DEF session, life, rows
<1> DEFINE m == monitor[r]
           cursor == IF m.next > Dropped THEN m.next ELSE Dropped
<1>1. /\ Latest \in Nat /\ Dropped \in 0 .. Latest /\ m.next \in Nat /\ m.next <= Latest
      /\ \A n \in 1 .. m.next : stream[n] # r
  BY PersistenceAssumption
  DEF Latest, Dropped, TypeOK, Subscribe, At, Journal, CursorsSound, CursorSound
<1>2. cursor \in 0 .. Latest /\ Latest - cursor \in Nat /\ cursor + 1 \in Nat
  BY <1>1
<1>3. /\ Advances(r) /\ monitor'[r].pc = "waiting" /\ monitor'[r].next = cursor + 1
      /\ monitor'[r].cut = Dropped /\ monitor'[r].seen = m.seen
  <2> DEFINE n == cursor + 1
             k == Latest - cursor
             q == [monitor[r] EXCEPT !.pc = "waiting", !.cut = Dropped, !.next = n, !.replay = k]
  <2>1. n \in Nat /\ k \in Nat /\ Dropped \in Nat /\ monitor[r] \in MonitorState
    BY <1>1, <1>2, LocalsTyped
  <2>2. monitor' = [monitor EXCEPT ![r] = q]
    BY DEF Subscribe
  <2>3. /\ q \in MonitorState /\ q.pc = "waiting" /\ q.next = n /\ q.cut = Dropped
        /\ q.seen = monitor[r].seen
    <3> HIDE DEF n, k
    <3> QED
      BY <2>1 DEF MonitorState
  <2>4. Advances(r) /\ monitor'[r] = q
    BY <2>2, <2>3, AdvanceTo
  <2> QED
    BY <2>3, <2>4
<1>4. TypeOK'
  BY <1>3 DEF Subscribe, TypeOK, Advances, MonitorState
<1>5. Control' /\ Database'
  BY <1>3, MonitorControl DEF Subscribe, At, SnapshotSound, Control, RowsSound
<1>6. CursorSound(r)'
  BY <1>1, <1>2, <1>3 DEF Subscribe, CursorSound, Journal, CursorsSound, Latest
<1>7. HasStored(r)'
  <2>0. stream' = stream
    BY DEF Subscribe
  <2>1. \A n \in Dropped + 1 .. cursor : stream[n] # r
    BY <1>1
  <2>2. cursor + 1 - 1 = cursor
    BY <1>2
  <2>3. \A n \in monitor'[r].cut + 1 .. monitor'[r].next - 1 : stream'[n] # r
    <3> HIDE DEF cursor
    <3> QED
      BY <1>1, <1>2, <1>3, <2>0, <2>1, <2>2
  <2> QED
    BY <2>3 DEF HasStored
<1> QED
  BY <1>3, <1>4, <1>5, <1>6, <1>7, MonitorJournal DEF Subscribe

\* A receiver within the channel has its next event; one that lags ends.
LEMMA ReceiveInv ==
  ASSUME TypeOK, Control, Database, Journal, NEW r \in Runs, Receive(r)
  PROVE  TypeOK' /\ Control' /\ Database' /\ Journal'
<1> USE DEF session, life, rows
<1>1. /\ Advances(r)
      /\ \/ /\ monitor'[r].pc = "closing" /\ monitor'[r].next = 0 /\ monitor'[r].seen = "none"
         \/ /\ monitor'[r].pc = "storing" /\ monitor'[r].next = monitor[r].next
            /\ monitor'[r].cut = monitor[r].cut /\ monitor'[r].seen = monitor[r].seen
  <2> DEFINE p == [Off EXCEPT !.pc = "closing"]
             q == [monitor[r] EXCEPT !.pc = "storing"]
  <2>1. p \in MonitorState /\ q \in MonitorState /\ monitor[r] \in MonitorState
    BY PersistenceAssumption, LocalsTyped DEF MonitorState, Off
  <2>2. monitor' = [monitor EXCEPT ![r] = p] \/ monitor' = [monitor EXCEPT ![r] = q]
    BY DEF Receive
  <2>3. p.pc = "closing" /\ p.next = 0 /\ p.seen = "none"
    BY DEF Off
  <2>4. Advances(r) /\ (monitor'[r] = p \/ monitor'[r] = q)
    BY <2>1, <2>2, AdvanceTo
  <2> QED
    BY <2>1, <2>3, <2>4 DEF MonitorState
<1>2. TypeOK'
  BY <1>1 DEF Receive, TypeOK, Advances, MonitorState
<1>3. Control' /\ Database'
  BY <1>1, MonitorControl DEF Receive, At, SnapshotSound, Control, RowsSound
<1>4. CASE monitor'[r].pc = "closing"
  BY <1>1, <1>2, <1>3, <1>4, DroppedJournal DEF Receive
<1>5. CASE monitor'[r].pc = "storing"
  <2>1. CursorSound(r)'
    BY <1>1, <1>5 DEF Receive, At, CursorSound, Journal, CursorsSound, Latest, TypeOK
  <2>2. faults' = 0 => HasStored(r)'
    BY <1>1, <1>5 DEF Receive, At, HasStored, Journal, PassedStored
  <2> QED
    BY <1>1, <1>2, <1>3, <2>1, <2>2, MonitorJournal DEF Receive
<1> QED
  BY <1>1, <1>4, <1>5

\* The monitor is past an event of the stream, and looks at the session next.
LEMMA PassedAdvances ==
  ASSUME TypeOK, Control, Journal, NEW r \in Runs, At(r, "storing"), Passed(r)
  PROVE  /\ Advances(r) /\ monitor'[r].pc = "looking" /\ monitor'[r].next = monitor[r].next + 1
         /\ monitor'[r].cut = monitor[r].cut /\ monitor'[r].seen = monitor[r].seen
         /\ monitor[r].next \in 1 .. Latest /\ Latest \in Nat /\ monitor[r].cut \in Nat
<1>1. /\ monitor[r].next \in Nat /\ monitor[r].replay \in Nat /\ monitor[r].cut \in Nat
      /\ monitor[r].next \in 1 .. Latest /\ Latest \in Nat
  BY DEF TypeOK, At, Journal, CursorsSound, CursorSound, Latest
<1>2. (IF monitor[r].replay = 0 THEN 0 ELSE monitor[r].replay - 1) \in Nat
  BY <1>1
<1> DEFINE n == monitor[r].next + 1
           k == IF monitor[r].replay = 0 THEN 0 ELSE monitor[r].replay - 1
           q == [monitor[r] EXCEPT !.pc = "looking", !.next = n, !.replay = k]
<1>3. n \in Nat /\ k \in Nat /\ monitor[r] \in MonitorState
  BY <1>1, <1>2, LocalsTyped
<1>4. monitor' = [monitor EXCEPT ![r] = q]
  BY DEF Passed
<1>5. Advances(r) /\ monitor'[r] = q
  <2> HIDE DEF n, k
  <2>1. q \in MonitorState
    BY <1>3 DEF MonitorState
  <2> QED
    BY <1>4, <2>1, AdvanceTo
<1>6. /\ q.pc = "looking" /\ q.next = n /\ q.cut = monitor[r].cut /\ q.seen = monitor[r].seen
  <2> HIDE DEF n, k
  <2> QED
    BY <1>3 DEF MonitorState
<1> QED
  BY <1>1, <1>5, <1>6

\* append_event accepts an event of the monitor's own run: the run has its row.
LEMMA StoreInv ==
  ASSUME TypeOK, Control, Database, Journal, NEW r \in Runs, Store(r)
  PROVE  TypeOK' /\ Control' /\ Database' /\ Journal'
<1> USE DEF session, life, rows
<1> DEFINE n == monitor[r].next
<1>1. /\ Advances(r) /\ monitor'[r].pc = "looking" /\ monitor'[r].next = n + 1
      /\ monitor'[r].cut = monitor[r].cut /\ monitor'[r].seen = monitor[r].seen
      /\ n \in 1 .. Latest /\ Latest \in Nat /\ monitor[r].cut \in Nat
  BY PassedAdvances DEF Store
<1>2. dbEvents \subseteq dbEvents' /\ dbEvents' \subseteq dbEvents \cup {n}
  BY DEF Store
<1>3. stream[n] = r => n \in dbEvents'
  BY PersistenceAssumption DEF Store, At, Control, RowsSound
<1>4. TypeOK'
  BY <1>1, <1>2 DEF Store, TypeOK, Advances, MonitorState
<1>5. Control' /\ Database'
  BY <1>1, MonitorControl DEF Store, At, SnapshotSound, Control, RowsSound
<1>6. CursorSound(r)'
  BY <1>1 DEF Store, CursorSound, Journal, CursorsSound, Latest
<1>7. faults' = 0 => HasStored(r)'
  <2> SUFFICES ASSUME faults = 0, NEW i \in monitor[r].cut + 1 .. n, stream[i] = r
               PROVE  i \in dbEvents'
    BY <1>1 DEF Store, HasStored
  <2>1. CASE i = n
    BY <1>3, <2>1
  <2>2. CASE i # n
    <3>1. i \in monitor[r].cut + 1 .. n - 1
      BY <1>1, <2>2
    <3> QED
      BY <1>2, <3>1 DEF Store, At, Journal, PassedStored, HasStored
  <2> QED
    BY <2>1, <2>2
<1> QED
  BY <1>1, <1>2, <1>4, <1>5, <1>6, <1>7, MonitorJournal DEF Store

\* An event that is not stored is one for which a statement failed.
LEMMA StoreFailsInv ==
  ASSUME TypeOK, Control, Database, Journal, NEW r \in Runs, StoreFails(r)
  PROVE  TypeOK' /\ Control' /\ Database' /\ Journal'
<1> USE DEF session, life, rows
<1>1. /\ Advances(r) /\ monitor'[r].pc = "looking" /\ monitor'[r].next = monitor[r].next + 1
      /\ monitor'[r].cut = monitor[r].cut /\ monitor'[r].seen = monitor[r].seen
      /\ monitor[r].next \in 1 .. Latest /\ Latest \in Nat /\ monitor[r].cut \in Nat
  BY PassedAdvances DEF StoreFails
<1>2. faults' \in 0 .. MaxFaults /\ faults' # 0
  BY FaultCounted DEF StoreFails
<1>3. TypeOK'
  BY <1>1, <1>2 DEF StoreFails, TypeOK, Advances, MonitorState
<1>4. Control' /\ Database'
  BY <1>1, MonitorControl DEF StoreFails, At, SnapshotSound, Control, RowsSound
<1>5. CursorSound(r)'
  BY <1>1 DEF StoreFails, CursorSound, Journal, CursorsSound, Latest
<1> QED
  BY <1>1, <1>2, <1>3, <1>4, <1>5, MonitorJournal DEF StoreFails

\* The snapshot after an event ends the loop of a run that is not active.
LEMMA LookInv ==
  ASSUME TypeOK, Control, Database, Journal, NEW r \in Runs, Look(r)
  PROVE  TypeOK' /\ Control' /\ Database' /\ Journal'
<1> USE DEF session, life, rows
<1>1. /\ Advances(r)
      /\ \/ /\ monitor'[r].pc = "closing" /\ monitor'[r].next = 0 /\ monitor'[r].seen = "none"
         \/ /\ monitor'[r].next = monitor[r].next /\ monitor'[r].cut = monitor[r].cut
            /\ \/ monitor'[r].pc = "updating" /\ monitor'[r].seen = state
               \/ monitor'[r].pc = "waiting" /\ monitor'[r].seen = monitor[r].seen
  <2> DEFINE p == [Off EXCEPT !.pc = "closing"]
             q == [monitor[r] EXCEPT !.pc = "updating", !.seen = state]
             w == [monitor[r] EXCEPT !.pc = "waiting"]
  <2>0. state \in SessionState
    BY DEF TypeOK
  <2>1. p \in MonitorState /\ q \in MonitorState /\ w \in MonitorState /\ monitor[r] \in MonitorState
    BY <2>0, PersistenceAssumption, LocalsTyped DEF MonitorState, Off
  <2>2. \/ monitor' = [monitor EXCEPT ![r] = p] \/ monitor' = [monitor EXCEPT ![r] = q]
        \/ monitor' = [monitor EXCEPT ![r] = w]
    BY DEF Look
  <2>3. p.pc = "closing" /\ p.next = 0 /\ p.seen = "none"
    BY DEF Off
  <2>4. Advances(r) /\ (monitor'[r] = p \/ monitor'[r] = q \/ monitor'[r] = w)
    BY <2>1, <2>2, AdvanceTo
  <2> QED
    BY <2>1, <2>3, <2>4 DEF MonitorState
<1>2. TypeOK'
  BY <1>1 DEF Look, TypeOK, Advances, MonitorState
<1>3. state \in SessionState /\ "none" \notin SessionState
  BY DEF TypeOK, SessionState
<1>4. Control' /\ Database'
  BY <1>1, <1>3, MonitorControl DEF Look, At, SnapshotSound, Control, RowsSound
<1>5. Journal'
  BY <1>1, DroppedJournal, SameCursor DEF Look, At
<1> QED
  BY <1>2, <1>4, <1>5

\* The session's row gets the state that was seen, or the statement fails.
LEMMA UpdateInv ==
  ASSUME TypeOK, Control, Database, Journal, NEW r \in Runs, UpdateState(r) \/ UpdateFails(r)
  PROVE  TypeOK' /\ Control' /\ Database' /\ Journal'
<1> USE DEF session, life, rows
<1>1. /\ Advances(r) /\ monitor'[r].pc = "waiting" /\ monitor'[r].seen = "none"
      /\ monitor'[r].next = monitor[r].next /\ monitor'[r].cut = monitor[r].cut
  <2> DEFINE p == [monitor[r] EXCEPT !.pc = "waiting", !.last = monitor[r].seen, !.seen = "none"]
             q == [monitor[r] EXCEPT !.pc = "waiting", !.seen = "none"]
  <2>1. p \in MonitorState /\ q \in MonitorState /\ monitor[r] \in MonitorState
    BY LocalsTyped DEF MonitorState
  <2>2. monitor' = [monitor EXCEPT ![r] = p] \/ monitor' = [monitor EXCEPT ![r] = q]
    BY DEF UpdateState, UpdateFails
  <2>3. Advances(r) /\ (monitor'[r] = p \/ monitor'[r] = q)
    BY <2>1, <2>2, AdvanceTo
  <2> QED
    BY <2>1, <2>3 DEF MonitorState
<1>2. faults' \in 0 .. MaxFaults /\ (faults' = 0 => faults = 0)
  BY FaultCounted DEF UpdateState, UpdateFails, TypeOK
<1>3. dbState' \in {dbState, monitor[r].seen}
  BY DEF UpdateState, UpdateFails
<1>4. TypeOK'
  BY <1>1, <1>2, <1>3 DEF UpdateState, UpdateFails, TypeOK, Advances, MonitorState
<1>5. Control' /\ Database'
  BY <1>1, <1>3, MonitorControl DEF UpdateState, UpdateFails, At, SnapshotSound, Control, RowsSound
<1>6. Journal'
  BY <1>1, <1>2, SameCursor DEF UpdateState, UpdateFails, At
<1> QED
  BY <1>4, <1>5, <1>6

\* The last snapshot: a run that has not ended is still the active one, so the
\* session is not at an end and has no exit; the run's own exit comes with the
\* state it ended in, or with the Starting of the next launch.
LEMMA CloseInv ==
  ASSUME TypeOK, Control, Database, Journal, NEW r \in Runs, Close(r)
  PROVE  TypeOK' /\ Control' /\ Database' /\ Journal'
<1> USE DEF session, life, rows
<1>1. /\ Advances(r) /\ monitor'[r].pc = "finishing" /\ monitor'[r].seen = state
      /\ monitor'[r].exit = exit /\ monitor'[r].next = monitor[r].next
  <2> DEFINE q == [monitor[r] EXCEPT !.pc = "finishing", !.seen = state, !.exit = exit]
  <2>0. state \in SessionState /\ exit \in Runs \cup {NoRun}
    BY DEF TypeOK
  <2>1. q \in MonitorState /\ monitor[r] \in MonitorState
    BY <2>0, LocalsTyped DEF MonitorState
  <2>2. monitor' = [monitor EXCEPT ![r] = q]
    BY DEF Close
  <2>3. Advances(r) /\ monitor'[r] = q
    BY <2>1, <2>2, AdvanceTo
  <2> QED
    BY <2>1, <2>3 DEF MonitorState
<1>2. TypeOK'
  BY <1>1 DEF Close, TypeOK, Advances, MonitorState
<1>3. state \in SessionState /\ "none" \notin SessionState
  BY DEF TypeOK, SessionState
<1>4. active = r \/ Ended(r)
  BY DEF Close, At, Control, RunsOrdered, Installed
<1>5. state \in {"completed", "stopped"} \/ exit # NoRun => Ended(r)
  BY <1>4 DEF Control, RunsOrdered, ExitSound
<1>6. exit = r => state \in {fate[r], "starting"}
  BY PersistenceAssumption DEF Control, ExitSound
<1>7. SnapshotSound(r)'
  BY <1>1, <1>3, <1>5, <1>6 DEF Close, SnapshotSound, Ended
<1>8. Control' /\ Database'
  BY <1>1, <1>7, MonitorControl DEF Close, At, Control, RowsSound
<1>9. Journal'
  <2>1. monitor'[r].next = 0
    BY <1>1 DEF Close, At, Journal, CursorsSound, CursorSound
  <2> QED
    BY <1>1, <2>1, DroppedJournal DEF Close
<1> QED
  BY <1>2, <1>8, <1>9

\* finish_session: the session's row gets the snapshot.
LEMMA FinishSessionInv ==
  ASSUME TypeOK, Control, Database, Journal, NEW r \in Runs, FinishSession(r)
  PROVE  TypeOK' /\ Control' /\ Database' /\ Journal'
<1> USE DEF session, life, rows
<1>1. /\ Advances(r) /\ monitor'[r].pc = "halfway" /\ monitor'[r].seen = monitor[r].seen
      /\ monitor'[r].exit = monitor[r].exit /\ monitor'[r].next = monitor[r].next
  <2> DEFINE q == [monitor[r] EXCEPT !.pc = "halfway"]
  <2>1. q \in MonitorState /\ monitor[r] \in MonitorState
    BY LocalsTyped DEF MonitorState
  <2>2. monitor' = [monitor EXCEPT ![r] = q]
    BY DEF FinishSession
  <2>3. Advances(r) /\ monitor'[r] = q
    BY <2>1, <2>2, AdvanceTo
  <2> QED
    BY <2>1, <2>3 DEF MonitorState
<1>2. TypeOK'
  BY <1>1 DEF FinishSession, TypeOK, Advances, MonitorState
<1>3. SnapshotSound(r)'
  BY <1>1 DEF FinishSession, At, SnapshotSound, Control, SnapshotsSound, Ended
<1>4. Control' /\ Database'
  BY <1>1, <1>3, MonitorControl DEF FinishSession, At, Control, RowsSound
<1>5. Journal'
  <2>1. monitor'[r].next = 0
    BY <1>1 DEF FinishSession, At, Journal, CursorsSound, CursorSound
  <2> QED
    BY <1>1, <2>1, DroppedJournal DEF FinishSession
<1> QED
  BY <1>2, <1>4, <1>5

\* The run's row gets the snapshot and its exit.
LEMMA FinishRunInv ==
  ASSUME TypeOK, Control, Database, Journal, NEW r \in Runs, FinishRun(r)
  PROVE  TypeOK' /\ Control' /\ Database' /\ Journal'
<1> USE DEF session, life, rows
<1>1. /\ Advances(r) /\ monitor'[r].pc = "done" /\ monitor'[r].next = 0 /\ monitor'[r].seen = "none"
  BY PersistenceAssumption DEF FinishRun, Off, TypeOK, Advances, MonitorState
<1>2. /\ dbRun'[r] = monitor[r].seen /\ dbExit'[r] = monitor[r].exit
      /\ \A s \in Runs : s # r => dbRun'[s] = dbRun[s] /\ dbExit'[s] = dbExit[s]
  BY DEF FinishRun, TypeOK
<1>3. SnapshotSound(r) /\ monitor[r].pc = "halfway" /\ request[r] = "over"
  BY DEF FinishRun, At, Control, SnapshotsSound, RunsOrdered
<1>4. TypeOK'
  BY <1>1 DEF FinishRun, TypeOK, Advances, MonitorState
<1>5. RunsOrdered' /\ ExitSound'
  BY <1>1, <1>2, <1>3 DEF FinishRun, Advances, Control, RunsOrdered, Installed, Ended, ExitSound
<1>6. SnapshotsSound' /\ RowsSound'
  BY <1>1, <1>2, <1>3 DEF FinishRun, Advances, Control, SnapshotsSound, SnapshotSound, RowsSound,
     Ended
<1>7. Database'
  BY <1>2, <1>3 DEF FinishRun, SnapshotSound, Database, NoPrematureEnd, ExitMatchesState, Ended
<1>8. Journal'
  BY <1>1, DroppedJournal DEF FinishRun
<1> QED
  BY <1>4, <1>5, <1>6, <1>7, <1>8 DEF Control

\* A statement of the two fails, and the monitor ends.
LEMMA FinishFailsInv ==
  ASSUME TypeOK, Control, Database, Journal, NEW r \in Runs, FinishFails(r)
  PROVE  TypeOK' /\ Control' /\ Database' /\ Journal'
<1> USE DEF session, life, rows
<1>1. /\ Advances(r) /\ monitor'[r].pc = "done" /\ monitor'[r].next = 0 /\ monitor'[r].seen = "none"
  BY PersistenceAssumption DEF FinishFails, Off, TypeOK, Advances, MonitorState
<1>2. faults' \in 0 .. MaxFaults /\ (faults' = 0 => faults = 0)
  BY FaultCounted DEF FinishFails
<1>3. TypeOK'
  BY <1>1, <1>2 DEF FinishFails, TypeOK, Advances, MonitorState
<1>4. Control' /\ Database'
  BY <1>1, MonitorControl DEF FinishFails, At, SnapshotSound, Control, RowsSound
<1>5. Journal'
  BY <1>1, <1>2, DroppedJournal DEF FinishFails
<1> QED
  BY <1>3, <1>4, <1>5

-----------------------------------------------------------------------------
(* The daemon.                                                             *)

\* A crash forgets everything but the rows and how runs have ended.
LEMMA CrashInv ==
  ASSUME IInv, Crash
  PROVE  IInv'
<1> USE PersistenceAssumption DEF IInv, rows
<1>1. TypeOK'
  BY DEF Crash, TypeOK, SessionState, Off
<1>2. Control'
  BY DEF Crash, TypeOK, Control, RunsOrdered, Installed, Ended, Launching, Active, ExitSound,
     SnapshotsSound, SnapshotSound, RowsSound, Off
<1>3. Database'
  BY DEF Crash, Database, NoPrematureEnd, ExitMatchesState, Ended
<1>4. Journal'
  <2>1. Latest' = 0
    BY DEF Crash, Latest
  <2> QED
    BY <2>1 DEF Crash, Journal, CursorsSound, CursorSound, PassedStored, HasStored, At, Off,
       Launching
<1>5. RecoveredClean'
  BY DEF Crash, RecoveredClean
<1> QED
  BY <1>1, <1>2, <1>3, <1>4, <1>5

\* The next daemon marks what was under way, and that is all that was not final.
LEMMA RecoverInv ==
  ASSUME IInv, Recover
  PROVE  IInv'
<1> USE DEF IInv, session, life
<1>1. TypeOK'
  BY DEF Recover, TypeOK, SessionState
<1>2. Control'
  BY DEF Recover, TypeOK, Control, RunsOrdered, Installed, Ended, ExitSound, SnapshotsSound,
     SnapshotSound, RowsSound
<1>3. Database'
  BY DEF Recover, TypeOK, Database, NoPrematureEnd, ExitMatchesState, Ended
<1>4. Journal'
  BY StillJournal DEF Recover
<1>5. RecoveredClean'
  <2> DEFINE Clean == {"none", "interrupted"} \cup FinalStates
  <2>1. \A s \in (SessionState \cup {"none"}) \ {"recoverable"} :
           (IF s \in UnderWay THEN "interrupted" ELSE s) \in Clean
    BY DEF SessionState, FinalStates, UnderWay
  <2>2. /\ dbState \in (SessionState \cup {"none"}) \ {"recoverable"}
        /\ \A r \in Runs : dbRun[r] \in (SessionState \cup {"none"}) \ {"recoverable"}
    BY DEF TypeOK, Control, RowsSound
  <2>3. dbState' \in Clean /\ \A r \in Runs : dbRun'[r] \in Clean
    BY <2>1, <2>2 DEF Recover
  <2> QED
    BY <2>3 DEF RecoveredClean
<1> QED
  BY <1>1, <1>2, <1>3, <1>4, <1>5

-----------------------------------------------------------------------------
\* A session starts with nothing in memory and nothing in the database.
LEMMA InitInv == Init => IInv
<1> SUFFICES ASSUME Init PROVE IInv
  OBVIOUS
<1> USE PersistenceAssumption DEF Init
<1>1. TypeOK
  BY DEF TypeOK, SessionState, Off
<1>2. Control /\ Database /\ RecoveredClean
  BY DEF Control, RunsOrdered, Installed, Ended, Launching, Active, ExitSound, SnapshotsSound,
     SnapshotSound, RowsSound, Off, Database, NoPrematureEnd, ExitMatchesState, RecoveredClean
<1>3. Journal
  <2>1. Latest = 0
    BY DEF Latest
  <2> QED
    BY <2>1 DEF Journal, CursorsSound, CursorSound, PassedStored, HasStored, At, Off, Launching
<1> QED
  BY <1>1, <1>2, <1>3 DEF IInv

\* Every step of requests, runs, monitors and daemons keeps the invariant.
LEMMA StepInv == IInv /\ [Next]_vars => IInv'
<1> SUFFICES ASSUME IInv, [Next]_vars PROVE IInv'
  OBVIOUS
<1>1. CASE UNCHANGED vars
  <2> USE <1>1 DEF vars, session, life, rows, IInv
  <2>1. TypeOK'
    BY DEF TypeOK
  <2>2. Control'
    BY DEF Control, RunsOrdered, Installed, Ended, ExitSound, SnapshotsSound, SnapshotSound,
       RowsSound
  <2>3. Database' /\ RecoveredClean'
    BY DEF Database, NoPrematureEnd, ExitMatchesState, Ended, RecoveredClean
  <2> QED
    BY <2>1, <2>2, <2>3, StillJournal
<1>2. ASSUME NEW r \in Runs,
             \/ Ask(r) \/ RequestStep(r) \/ LaunchFails(r) \/ ReportLaunch(r)
             \/ RecordFails(r) \/ AbortRequest(r)
      PROVE  TypeOK' /\ Control' /\ Database' /\ Journal'
  BY <1>2, AskInv, BeginInv, ResetInv, InstallInv, RecordSessionInv, RecordRunInv, StartMonitorInv,
     LaunchFailsInv, ReportLaunchInv, RecordFailsInv, AbortRequestInv DEF IInv, RequestStep
<1>3. ASSUME NEW r \in Runs, RunStep(r)
      PROVE  TypeOK' /\ Control' /\ Database' /\ Journal'
  BY <1>3, EmitInv, ReportFailureInv, FinalEventInv, MoveInv, FailProtocolInv, ConcludeInv
  DEF IInv, RunStep
<1>4. ASSUME NEW r \in Runs, MonitorStep(r) \/ StoreFails(r) \/ UpdateFails(r) \/ FinishFails(r)
      PROVE  TypeOK' /\ Control' /\ Database' /\ Journal'
  BY <1>4, SubscribeInv, ReceiveInv, StoreInv, StoreFailsInv, LookInv, UpdateInv, CloseInv,
     FinishSessionInv, FinishRunInv, FinishFailsInv DEF IInv, MonitorStep
<1>5. ASSUME NEW r \in Runs, daemon = "up",
             \/ Ask(r) \/ RequestStep(r) \/ LaunchFails(r) \/ ReportLaunch(r)
             \/ RecordFails(r) \/ AbortRequest(r) \/ RunStep(r) \/ MonitorStep(r)
             \/ StoreFails(r) \/ UpdateFails(r) \/ FinishFails(r)
      PROVE  RecoveredClean'
  <2>1. daemon' = daemon
    BY <1>5 DEF Ask, RequestStep, Begin, Reset, Install, RecordSession, RecordRun, StartMonitor,
       LaunchFails, ReportLaunch, RecordFails, AbortRequest, RunStep, Emit, ReportFailure,
       FinalEvent, Move, FailProtocol, Conclude, MonitorStep, Subscribe, Receive, Store, Look,
       UpdateState, Close, FinishSession, FinishRun, StoreFails, UpdateFails, FinishFails
  <2> QED
    BY <1>5, <2>1 DEF RecoveredClean
<1>6. CASE Crash \/ Recover
  BY <1>6, CrashInv, RecoverInv
<1> QED
  BY <1>1, <1>2, <1>3, <1>4, <1>5, <1>6 DEF Next, IInv

\* The invariant is one, over restarts and whichever monitors are still at work.
THEOREM Invariance == Spec => []IInv
BY InitInv, StepInv, PTL DEF Spec

-----------------------------------------------------------------------------
(* The properties.                                                         *)

\* No event of a run is lost between replay and channel, to the monitor of the
\* run before or to the foreign key (persist_session_events).
THEOREM EventsStored == Spec => []NothingSkipped
<1>1. IInv => NothingSkipped
  BY DEF IInv, Journal, PassedStored, HasStored, NothingSkipped
<1> QED
  BY <1>1, Invariance, PTL

\* A run's row says that it has come to its end only when it has.
THEOREM EndsAreReal == Spec => []NoPrematureEnd
<1>1. IInv => NoPrematureEnd
  BY DEF IInv, Database
<1> QED
  BY <1>1, Invariance, PTL

\* The exit in a run's row, if it is the run's own, comes with the run's state.
THEOREM ExitsMatch == Spec => []ExitMatchesState
<1>1. IInv => ExitMatchesState
  BY DEF IInv, Database
<1> QED
  BY <1>1, Invariance, PTL

\* recover_interrupted_work leaves nothing that claims to be under way.
THEOREM RecoveryCleans == Spec => []RecoveredClean
<1>1. IInv => RecoveredClean
  BY DEF IInv
<1> QED
  BY <1>1, Invariance, PTL

-----------------------------------------------------------------------------
(* Numbers: the least of a set, and induction over a set of them.  What a  *)
(* recursive function returns is proved with the set of indices for which  *)
(* the statement holds.                                                    *)

\* A set of numbers that is not empty has a least one.
LEMMA LeastLength ==
  ASSUME NEW T \in SUBSET Nat, T # {}
  PROVE  \E n \in T : \A m \in T : ~(m < n)
<1>1. PICK n \in T : \A m \in T : ~(<<m, n>> \in OpToRel(<, Nat))
  BY WFMin, NatLessThanWellFounded
<1> QED
  BY <1>1 DEF OpToRel

\* What holds of 0, and of n + 1 with n, holds of every number.
LEMMA FromZero ==
  ASSUME NEW S \in SUBSET Nat, 0 \in S, \A n \in S : n + 1 \in S
  PROVE  S = Nat
<1> SUFFICES ASSUME Nat \ S # {} PROVE FALSE
  OBVIOUS
<1>1. PICK n \in Nat \ S : \A m \in Nat \ S : ~(m < n)
  BY LeastLength
<1>2. n - 1 \in Nat /\ n - 1 < n /\ n - 1 \notin Nat \ S
  BY <1>1
<1> QED
  BY <1>1, <1>2

-----------------------------------------------------------------------------
(* DaemonStartup.  Its slots: x1 keyring, x2 envelope, x3 token, x4 socket, *)
(* x5 db, x6 wal, x7 pc, x8 storage, x9 key, x10 mine, x11 window,         *)
(* x12 crashes.                                                            *)

\* An open that fails: startup goes on without storage, an unlock can be tried
\* again.
LEMMA OpenFailsSound ==
  ASSUME Startup!IInv, NEW d \in Daemons, x7[d] \in Startup!Opening, Startup!OpenFails(d)
  PROVE  Startup!IInv'
<1>1. Startup!TypeOK'
  BY DEF Startup!OpenFails, Startup!Goto, Startup!Holds, Startup!IInv, Startup!StartupSafe,
     Startup!TypeOK, Startup!Opening, Startup!Starting, Startup!disk
<1>2. Startup!EnvelopeOpens'
  BY DEF Startup!OpenFails, Startup!Goto, Startup!Holds, Startup!IInv, Startup!StartupSafe,
     Startup!TypeOK, Startup!EnvelopeOpens, Startup!Connected, Startup!disk
<1>3. Startup!TokenAccepted'
  BY DEF Startup!OpenFails, Startup!Goto, Startup!Holds, Startup!IInv, Startup!StartupSafe,
     Startup!TypeOK, Startup!TokenAccepted, Startup!disk
<1>4. Startup!Places'
  BY DEF Startup!OpenFails, Startup!Goto, Startup!Holds, Startup!IInv, Startup!StartupSafe,
     Startup!TypeOK, Startup!Places, Startup!Connected, Startup!Bound, Startup!Opening, Startup!disk
<1>5. Startup!Custody'
  BY DEF Startup!OpenFails, Startup!Goto, Startup!Holds, Startup!IInv, Startup!StartupSafe,
     Startup!TypeOK, Startup!Places, Startup!Custody, Startup!Connected, Startup!Bound,
     Startup!Opening, Startup!disk
<1>6. Startup!OneToken'
  BY DEF Startup!OpenFails, Startup!Goto, Startup!Holds, Startup!IInv, Startup!StartupSafe,
     Startup!TypeOK, Startup!OneToken, Startup!Bound, Startup!Opening, Startup!disk
<1> QED
  BY <1>1, <1>2, <1>3, <1>4, <1>5, <1>6 DEF Startup!IInv, Startup!StartupSafe

\* A window looks for a daemon, and starts one when it finds none.
LEMMA LaunchSound ==
  ASSUME Startup!IInv, NEW d \in Daemons, Startup!Launch(d)
  PROVE  Startup!IInv'
<1>1. Startup!TypeOK'
  BY DEF Startup!Launch, Startup!Goto, Startup!Reachable, Startup!Answer, Startup!Listening,
     Startup!IInv, Startup!StartupSafe, Startup!TypeOK, Startup!Opening, Startup!Starting,
     Startup!disk
<1>2. Startup!EnvelopeOpens'
  BY DEF Startup!Launch, Startup!Goto, Startup!Reachable, Startup!Answer, Startup!Listening,
     Startup!IInv, Startup!StartupSafe, Startup!TypeOK, Startup!EnvelopeOpens, Startup!Connected,
     Startup!disk
<1>3. Startup!TokenAccepted'
  BY DEF Startup!Launch, Startup!Goto, Startup!Reachable, Startup!Answer, Startup!Listening,
     Startup!IInv, Startup!StartupSafe, Startup!TypeOK, Startup!TokenAccepted, Startup!Places,
     Startup!OneToken, Startup!Connected, Startup!Bound, Startup!Opening, Startup!disk
<1>4. Startup!Places'
  BY DEF Startup!Launch, Startup!Goto, Startup!Reachable, Startup!Answer, Startup!Listening,
     Startup!IInv, Startup!StartupSafe, Startup!TypeOK, Startup!Places, Startup!Connected,
     Startup!Bound, Startup!Opening, Startup!disk
<1>5. Startup!Custody'
  BY DEF Startup!Launch, Startup!Goto, Startup!Reachable, Startup!Answer, Startup!Listening,
     Startup!IInv, Startup!StartupSafe, Startup!TypeOK, Startup!Custody, Startup!Opening,
     Startup!disk
<1>6. Startup!OneToken'
  BY DEF Startup!Launch, Startup!Goto, Startup!Reachable, Startup!Answer, Startup!Listening,
     Startup!IInv, Startup!StartupSafe, Startup!TypeOK, Startup!OneToken, Startup!Bound,
     Startup!Opening, Startup!disk
<1> QED
  BY <1>1, <1>2, <1>3, <1>4, <1>5, <1>6 DEF Startup!IInv, Startup!StartupSafe

\* The launcher connects to the daemon that came up.
LEMMA RetrySound ==
  ASSUME Startup!IInv, NEW d \in Daemons, Startup!Retry(d)
  PROVE  Startup!IInv'
<1>1. Startup!TypeOK'
  BY DEF Startup!Retry, Startup!Reachable, Startup!Answer, Startup!Listening, Startup!IInv,
     Startup!StartupSafe, Startup!TypeOK, Startup!Opening, Startup!Starting, Startup!disk
<1>2. Startup!EnvelopeOpens'
  BY DEF Startup!Retry, Startup!Reachable, Startup!Answer, Startup!Listening, Startup!IInv,
     Startup!StartupSafe, Startup!TypeOK, Startup!EnvelopeOpens, Startup!Connected, Startup!disk
<1>3. Startup!TokenAccepted'
  BY DEF Startup!Retry, Startup!Reachable, Startup!Answer, Startup!Listening, Startup!IInv,
     Startup!StartupSafe, Startup!TypeOK, Startup!TokenAccepted, Startup!Places, Startup!OneToken,
     Startup!Connected, Startup!Bound, Startup!Opening, Startup!disk
<1>4. Startup!Places'
  BY DEF Startup!Retry, Startup!Reachable, Startup!Answer, Startup!Listening, Startup!IInv,
     Startup!StartupSafe, Startup!TypeOK, Startup!Places, Startup!Connected, Startup!Bound,
     Startup!Opening, Startup!disk
<1>5. Startup!Custody'
  BY DEF Startup!Retry, Startup!Reachable, Startup!Answer, Startup!Listening, Startup!IInv,
     Startup!StartupSafe, Startup!TypeOK, Startup!Custody, Startup!Opening, Startup!disk
<1>6. Startup!OneToken'
  BY DEF Startup!Retry, Startup!Reachable, Startup!Answer, Startup!Listening, Startup!IInv,
     Startup!StartupSafe, Startup!TypeOK, Startup!OneToken, Startup!Bound, Startup!Opening,
     Startup!disk
<1> QED
  BY <1>1, <1>2, <1>3, <1>4, <1>5, <1>6 DEF Startup!IInv, Startup!StartupSafe

\* The launcher gives up.
LEMMA StartupDeadlineSound ==
  ASSUME Startup!IInv, NEW d \in Daemons, Startup!StartupDeadline(d)
  PROVE  Startup!IInv'
<1>1. Startup!TypeOK'
  BY DEF Startup!StartupDeadline, Startup!IInv, Startup!StartupSafe, Startup!TypeOK,
     Startup!Opening, Startup!Starting, Startup!disk
<1>2. Startup!EnvelopeOpens'
  BY DEF Startup!StartupDeadline, Startup!IInv, Startup!StartupSafe, Startup!TypeOK,
     Startup!EnvelopeOpens, Startup!Connected, Startup!disk
<1>3. Startup!TokenAccepted'
  BY DEF Startup!StartupDeadline, Startup!IInv, Startup!StartupSafe, Startup!TypeOK,
     Startup!TokenAccepted, Startup!disk
<1>4. Startup!Places'
  BY DEF Startup!StartupDeadline, Startup!IInv, Startup!StartupSafe, Startup!TypeOK, Startup!Places,
     Startup!Connected, Startup!Bound, Startup!Opening, Startup!disk
<1>5. Startup!Custody'
  BY DEF Startup!StartupDeadline, Startup!IInv, Startup!StartupSafe, Startup!TypeOK,
     Startup!Custody, Startup!Opening, Startup!disk
<1>6. Startup!OneToken'
  BY DEF Startup!StartupDeadline, Startup!IInv, Startup!StartupSafe, Startup!TypeOK,
     Startup!OneToken, Startup!Bound, Startup!Opening, Startup!disk
<1> QED
  BY <1>1, <1>2, <1>3, <1>4, <1>5, <1>6 DEF Startup!IInv, Startup!StartupSafe

\* The user tries again.
LEMMA ReopenSound ==
  ASSUME Startup!IInv, NEW d \in Daemons, Startup!Reopen(d)
  PROVE  Startup!IInv'
<1>1. Startup!TypeOK'
  BY DEF Startup!Reopen, Startup!IInv, Startup!StartupSafe, Startup!TypeOK, Startup!Opening,
     Startup!Starting, Startup!disk
<1>2. Startup!EnvelopeOpens'
  BY DEF Startup!Reopen, Startup!IInv, Startup!StartupSafe, Startup!TypeOK, Startup!EnvelopeOpens,
     Startup!Connected, Startup!disk
<1>3. Startup!TokenAccepted'
  BY DEF Startup!Reopen, Startup!IInv, Startup!StartupSafe, Startup!TypeOK, Startup!TokenAccepted,
     Startup!disk
<1>4. Startup!Places'
  BY DEF Startup!Reopen, Startup!IInv, Startup!StartupSafe, Startup!TypeOK, Startup!Places,
     Startup!Connected, Startup!Bound, Startup!Opening, Startup!disk
<1>5. Startup!Custody'
  BY DEF Startup!Reopen, Startup!IInv, Startup!StartupSafe, Startup!TypeOK, Startup!Custody,
     Startup!Opening, Startup!disk
<1>6. Startup!OneToken'
  BY DEF Startup!Reopen, Startup!IInv, Startup!StartupSafe, Startup!TypeOK, Startup!OneToken,
     Startup!Bound, Startup!Opening, Startup!disk
<1> QED
  BY <1>1, <1>2, <1>3, <1>4, <1>5, <1>6 DEF Startup!IInv, Startup!StartupSafe

\* initialize_persistent, up to the answer of the keyring.
LEMMA ReadKeySound ==
  ASSUME Startup!IInv, NEW d \in Daemons, Startup!ReadKey(d)
  PROVE  Startup!IInv'
<1>1. Startup!TypeOK'
  BY DEF Startup!ReadKey, Startup!Goto, Startup!Holds, Startup!IInv, Startup!StartupSafe,
     Startup!TypeOK, Startup!Opening, Startup!Starting, Startup!disk
<1>2. Startup!EnvelopeOpens'
  BY StartupAssumption DEF Startup!ReadKey, Startup!Goto, Startup!Holds, Startup!IInv,
     Startup!StartupSafe, Startup!TypeOK, Startup!EnvelopeOpens, Startup!Places, Startup!Connected,
     Startup!Bound, Startup!Opening, Startup!disk
<1>3. Startup!TokenAccepted'
  BY DEF Startup!ReadKey, Startup!Goto, Startup!Holds, Startup!IInv, Startup!StartupSafe,
     Startup!TypeOK, Startup!TokenAccepted, Startup!disk
<1>4. Startup!Places'
  BY DEF Startup!ReadKey, Startup!Goto, Startup!Holds, Startup!IInv, Startup!StartupSafe,
     Startup!TypeOK, Startup!Places, Startup!Connected, Startup!Bound, Startup!Opening, Startup!disk
<1>5. Startup!Custody'
  BY DEF Startup!ReadKey, Startup!Goto, Startup!Holds, Startup!IInv, Startup!StartupSafe,
     Startup!TypeOK, Startup!Custody, Startup!Opening, Startup!disk
<1>6. Startup!OneToken'
  BY DEF Startup!ReadKey, Startup!Goto, Startup!Holds, Startup!IInv, Startup!StartupSafe,
     Startup!TypeOK, Startup!Places, Startup!OneToken, Startup!Connected, Startup!Bound,
     Startup!Opening, Startup!disk
<1> QED
  BY <1>1, <1>2, <1>3, <1>4, <1>5, <1>6 DEF Startup!IInv, Startup!StartupSafe

\* The keyring takes the new key: only a keyring that works is asked, and then
\* there is no envelope.
LEMMA SetKeySound ==
  ASSUME Startup!IInv, NEW d \in Daemons, Startup!SetKey(d)
  PROVE  Startup!IInv'
<1>1. Startup!TypeOK'
  BY DEF Startup!SetKey, Startup!Goto, Startup!IInv, Startup!StartupSafe, Startup!TypeOK,
     Startup!Opening, Startup!Starting, Startup!disk
<1>2. Startup!EnvelopeOpens'
  BY StartupAssumption DEF Startup!SetKey, Startup!Goto, Startup!IInv, Startup!StartupSafe,
     Startup!TypeOK, Startup!EnvelopeOpens, Startup!Places, Startup!Connected, Startup!Bound,
     Startup!Opening, Startup!disk
<1>3. Startup!TokenAccepted'
  BY DEF Startup!SetKey, Startup!Goto, Startup!IInv, Startup!StartupSafe, Startup!TypeOK,
     Startup!TokenAccepted, Startup!disk
<1>4. Startup!Places'
  BY DEF Startup!SetKey, Startup!Goto, Startup!IInv, Startup!StartupSafe, Startup!TypeOK,
     Startup!Places, Startup!Connected, Startup!Bound, Startup!Opening, Startup!disk
<1>5. Startup!Custody'
  BY DEF Startup!SetKey, Startup!Goto, Startup!IInv, Startup!StartupSafe, Startup!TypeOK,
     Startup!Custody, Startup!Opening, Startup!disk
<1>6. Startup!OneToken'
  BY DEF Startup!SetKey, Startup!Goto, Startup!IInv, Startup!StartupSafe, Startup!TypeOK,
     Startup!Places, Startup!OneToken, Startup!Connected, Startup!Bound, Startup!Opening,
     Startup!disk
<1> QED
  BY <1>1, <1>2, <1>3, <1>4, <1>5, <1>6 DEF Startup!IInv, Startup!StartupSafe

\* load_or_create_token: a token that exists is read, none makes one of two
\* daemons the writer.
LEMMA LoadTokenSound ==
  ASSUME Startup!IInv, NEW d \in Daemons, Startup!LoadToken(d)
  PROVE  Startup!IInv'
<1>1. Startup!TypeOK'
  BY DEF Startup!LoadToken, Startup!Goto, Startup!IInv, Startup!StartupSafe, Startup!TypeOK,
     Startup!Opening, Startup!Starting, Startup!disk
<1>2. Startup!EnvelopeOpens'
  BY DEF Startup!LoadToken, Startup!Goto, Startup!IInv, Startup!StartupSafe, Startup!TypeOK,
     Startup!EnvelopeOpens, Startup!Connected, Startup!disk
<1>3. Startup!TokenAccepted'
  BY DEF Startup!LoadToken, Startup!Goto, Startup!IInv, Startup!StartupSafe, Startup!TypeOK,
     Startup!TokenAccepted, Startup!disk
<1>4. Startup!Places'
  BY DEF Startup!LoadToken, Startup!Goto, Startup!IInv, Startup!StartupSafe, Startup!TypeOK,
     Startup!Places, Startup!Connected, Startup!Bound, Startup!Opening, Startup!disk
<1>5. Startup!Custody'
  BY DEF Startup!LoadToken, Startup!Goto, Startup!IInv, Startup!StartupSafe, Startup!TypeOK,
     Startup!Custody, Startup!Opening, Startup!disk
<1>6. Startup!OneToken'
  BY StartupAssumption DEF Startup!LoadToken, Startup!Goto, Startup!IInv, Startup!StartupSafe,
     Startup!TypeOK, Startup!OneToken, Startup!Bound, Startup!Opening, Startup!disk
<1> QED
  BY <1>1, <1>2, <1>3, <1>4, <1>5, <1>6 DEF Startup!IInv, Startup!StartupSafe

\* The one writer of the token.
LEMMA WriteTokenSound ==
  ASSUME Startup!IInv, NEW d \in Daemons, Startup!WriteToken(d)
  PROVE  Startup!IInv'
<1>1. Startup!TypeOK'
  BY DEF Startup!WriteToken, Startup!Goto, Startup!IInv, Startup!StartupSafe, Startup!TypeOK,
     Startup!Opening, Startup!Starting, Startup!disk
<1>2. Startup!EnvelopeOpens'
  BY DEF Startup!WriteToken, Startup!Goto, Startup!IInv, Startup!StartupSafe, Startup!TypeOK,
     Startup!EnvelopeOpens, Startup!Connected, Startup!disk
<1>3. Startup!TokenAccepted'
  BY DEF Startup!WriteToken, Startup!Goto, Startup!IInv, Startup!StartupSafe, Startup!TypeOK,
     Startup!TokenAccepted, Startup!disk
<1>4. Startup!Places'
  BY DEF Startup!WriteToken, Startup!Goto, Startup!IInv, Startup!StartupSafe, Startup!TypeOK,
     Startup!Places, Startup!Connected, Startup!Bound, Startup!Opening, Startup!disk
<1>5. Startup!Custody'
  BY DEF Startup!WriteToken, Startup!Goto, Startup!IInv, Startup!StartupSafe, Startup!TypeOK,
     Startup!Custody, Startup!Opening, Startup!disk
<1>6. Startup!OneToken'
  BY StartupAssumption DEF Startup!WriteToken, Startup!Goto, Startup!IInv, Startup!StartupSafe,
     Startup!TypeOK, Startup!OneToken, Startup!Bound, Startup!Opening, Startup!disk
<1> QED
  BY <1>1, <1>2, <1>3, <1>4, <1>5, <1>6 DEF Startup!IInv, Startup!StartupSafe

\* A daemon that has the token binds the socket.
LEMMA BindSound ==
  ASSUME Startup!IInv, NEW d \in Daemons, Startup!Bind(d)
  PROVE  Startup!IInv'
<1>1. Startup!TypeOK'
  BY DEF Startup!Bind, Startup!Goto, Startup!IInv, Startup!StartupSafe, Startup!TypeOK,
     Startup!Opening, Startup!Starting, Startup!disk
<1>2. Startup!EnvelopeOpens'
  BY DEF Startup!Bind, Startup!Goto, Startup!IInv, Startup!StartupSafe, Startup!TypeOK,
     Startup!EnvelopeOpens, Startup!Connected, Startup!disk
<1>3. Startup!TokenAccepted'
  BY DEF Startup!Bind, Startup!Goto, Startup!IInv, Startup!StartupSafe, Startup!TypeOK,
     Startup!TokenAccepted, Startup!disk
<1>4. Startup!Places'
  BY DEF Startup!Bind, Startup!Goto, Startup!IInv, Startup!StartupSafe, Startup!TypeOK,
     Startup!Places, Startup!Connected, Startup!Bound, Startup!Opening, Startup!disk
<1>5. Startup!Custody'
  BY DEF Startup!Bind, Startup!Goto, Startup!IInv, Startup!StartupSafe, Startup!TypeOK,
     Startup!Custody, Startup!Opening, Startup!disk
<1>6. Startup!OneToken'
  BY DEF Startup!Bind, Startup!Goto, Startup!IInv, Startup!StartupSafe, Startup!TypeOK,
     Startup!OneToken, Startup!Bound, Startup!Opening, Startup!disk
<1> QED
  BY <1>1, <1>2, <1>3, <1>4, <1>5, <1>6 DEF Startup!IInv, Startup!StartupSafe

\* The path is taken: is there a daemon behind it?
LEMMA ConnectSelfSound ==
  ASSUME Startup!IInv, NEW d \in Daemons, Startup!ConnectSelf(d)
  PROVE  Startup!IInv'
<1>1. Startup!TypeOK'
  BY DEF Startup!ConnectSelf, Startup!Goto, Startup!IInv, Startup!StartupSafe, Startup!TypeOK,
     Startup!Opening, Startup!Starting, Startup!disk
<1>2. Startup!EnvelopeOpens'
  BY DEF Startup!ConnectSelf, Startup!Goto, Startup!IInv, Startup!StartupSafe, Startup!TypeOK,
     Startup!EnvelopeOpens, Startup!Connected, Startup!disk
<1>3. Startup!TokenAccepted'
  BY DEF Startup!ConnectSelf, Startup!Goto, Startup!IInv, Startup!StartupSafe, Startup!TypeOK,
     Startup!TokenAccepted, Startup!disk
<1>4. Startup!Places'
  BY DEF Startup!ConnectSelf, Startup!Goto, Startup!IInv, Startup!StartupSafe, Startup!TypeOK,
     Startup!Places, Startup!Connected, Startup!Bound, Startup!Opening, Startup!disk
<1>5. Startup!Custody'
  BY DEF Startup!ConnectSelf, Startup!Goto, Startup!IInv, Startup!StartupSafe, Startup!TypeOK,
     Startup!Custody, Startup!Opening, Startup!disk
<1>6. Startup!OneToken'
  BY DEF Startup!ConnectSelf, Startup!Goto, Startup!IInv, Startup!StartupSafe, Startup!TypeOK,
     Startup!OneToken, Startup!Bound, Startup!Opening, Startup!disk
<1> QED
  BY <1>1, <1>2, <1>3, <1>4, <1>5, <1>6 DEF Startup!IInv, Startup!StartupSafe

\* A socket file that nobody answers at goes.
LEMMA RemoveStaleSound ==
  ASSUME Startup!IInv, NEW d \in Daemons, Startup!RemoveStale(d)
  PROVE  Startup!IInv'
<1>1. Startup!TypeOK'
  BY DEF Startup!RemoveStale, Startup!Goto, Startup!IInv, Startup!StartupSafe, Startup!TypeOK,
     Startup!Opening, Startup!Starting, Startup!disk
<1>2. Startup!EnvelopeOpens'
  BY DEF Startup!RemoveStale, Startup!Goto, Startup!IInv, Startup!StartupSafe, Startup!TypeOK,
     Startup!EnvelopeOpens, Startup!Connected, Startup!disk
<1>3. Startup!TokenAccepted'
  BY DEF Startup!RemoveStale, Startup!Goto, Startup!IInv, Startup!StartupSafe, Startup!TypeOK,
     Startup!TokenAccepted, Startup!disk
<1>4. Startup!Places'
  BY StartupAssumption DEF Startup!RemoveStale, Startup!Goto, Startup!IInv, Startup!StartupSafe,
     Startup!TypeOK, Startup!Places, Startup!Connected, Startup!Bound, Startup!Opening, Startup!disk
<1>5. Startup!Custody'
  BY DEF Startup!RemoveStale, Startup!Goto, Startup!IInv, Startup!StartupSafe, Startup!TypeOK,
     Startup!Custody, Startup!Opening, Startup!disk
<1>6. Startup!OneToken'
  BY DEF Startup!RemoveStale, Startup!Goto, Startup!IInv, Startup!StartupSafe, Startup!TypeOK,
     Startup!OneToken, Startup!Bound, Startup!Opening, Startup!disk
<1> QED
  BY <1>1, <1>2, <1>3, <1>4, <1>5, <1>6 DEF Startup!IInv, Startup!StartupSafe

\* A daemon stops and closes what it holds.
LEMMA StopSound ==
  ASSUME Startup!IInv, NEW d \in Daemons, Startup!Stop(d)
  PROVE  Startup!IInv'
<1>1. Startup!TypeOK'
  BY DEF Startup!Stop, Startup!Gone, Startup!Goto, Startup!Closed, Startup!IInv,
     Startup!StartupSafe, Startup!TypeOK, Startup!Opening, Startup!Starting, Startup!disk
<1>2. Startup!EnvelopeOpens'
  BY StartupAssumption DEF Startup!Stop, Startup!Gone, Startup!Goto, Startup!Closed, Startup!IInv,
     Startup!StartupSafe, Startup!TypeOK, Startup!EnvelopeOpens, Startup!Connected, Startup!disk
<1>3. Startup!TokenAccepted'
  BY DEF Startup!Stop, Startup!Gone, Startup!Goto, Startup!Closed, Startup!IInv,
     Startup!StartupSafe, Startup!TypeOK, Startup!TokenAccepted, Startup!disk
<1>4. Startup!Places'
  BY StartupAssumption DEF Startup!Stop, Startup!Gone, Startup!Goto, Startup!Closed, Startup!IInv,
     Startup!StartupSafe, Startup!TypeOK, Startup!Places, Startup!Connected, Startup!Bound,
     Startup!Opening, Startup!disk
<1>5. Startup!Custody'
  BY StartupAssumption DEF Startup!Stop, Startup!Gone, Startup!Goto, Startup!Closed, Startup!IInv,
     Startup!StartupSafe, Startup!TypeOK, Startup!Custody, Startup!Opening, Startup!disk
<1>6. Startup!OneToken'
  BY DEF Startup!Stop, Startup!Gone, Startup!Goto, Startup!Closed, Startup!IInv,
     Startup!StartupSafe, Startup!TypeOK, Startup!OneToken, Startup!Bound, Startup!Opening,
     Startup!disk
<1> QED
  BY <1>1, <1>2, <1>3, <1>4, <1>5, <1>6 DEF Startup!IInv, Startup!StartupSafe

\* A daemon that could not bind ends.
LEMMA BindFailedSound ==
  ASSUME Startup!IInv, NEW d \in Daemons, Startup!BindFailed(d)
  PROVE  Startup!IInv'
<1>1. Startup!TypeOK'
  BY DEF Startup!BindFailed, Startup!Gone, Startup!Goto, Startup!IInv, Startup!StartupSafe,
     Startup!TypeOK, Startup!Opening, Startup!Starting, Startup!disk
<1>2. Startup!EnvelopeOpens'
  BY StartupAssumption DEF Startup!BindFailed, Startup!Gone, Startup!Goto, Startup!IInv,
     Startup!StartupSafe, Startup!TypeOK, Startup!EnvelopeOpens, Startup!Connected, Startup!disk
<1>3. Startup!TokenAccepted'
  BY DEF Startup!BindFailed, Startup!Gone, Startup!Goto, Startup!IInv, Startup!StartupSafe,
     Startup!TypeOK, Startup!TokenAccepted, Startup!disk
<1>4. Startup!Places'
  BY StartupAssumption DEF Startup!BindFailed, Startup!Gone, Startup!Goto, Startup!IInv,
     Startup!StartupSafe, Startup!TypeOK, Startup!Places, Startup!Connected, Startup!Bound,
     Startup!Opening, Startup!disk
<1>5. Startup!Custody'
  BY StartupAssumption DEF Startup!BindFailed, Startup!Gone, Startup!Goto, Startup!IInv,
     Startup!StartupSafe, Startup!TypeOK, Startup!Custody, Startup!Opening, Startup!disk
<1>6. Startup!OneToken'
  BY DEF Startup!BindFailed, Startup!Gone, Startup!Goto, Startup!IInv, Startup!StartupSafe,
     Startup!TypeOK, Startup!OneToken, Startup!Bound, Startup!Opening, Startup!disk
<1> QED
  BY <1>1, <1>2, <1>3, <1>4, <1>5, <1>6 DEF Startup!IInv, Startup!StartupSafe

\* A daemon dies between any two steps.
LEMMA CrashSound ==
  ASSUME Startup!IInv, NEW d \in Daemons, Startup!Crash(d)
  PROVE  Startup!IInv'
<1>1. Startup!TypeOK'
  BY StartupAssumption DEF Startup!Crash, Startup!Gone, Startup!Goto, Startup!IInv,
     Startup!StartupSafe, Startup!TypeOK, Startup!Opening, Startup!Starting, Startup!disk
<1>2. Startup!EnvelopeOpens'
  BY StartupAssumption DEF Startup!Crash, Startup!Gone, Startup!Goto, Startup!IInv,
     Startup!StartupSafe, Startup!TypeOK, Startup!EnvelopeOpens, Startup!Connected, Startup!disk
<1>3. Startup!TokenAccepted'
  BY DEF Startup!Crash, Startup!Gone, Startup!Goto, Startup!IInv, Startup!StartupSafe,
     Startup!TypeOK, Startup!TokenAccepted, Startup!disk
<1>4. Startup!Places'
  BY StartupAssumption DEF Startup!Crash, Startup!Gone, Startup!Goto, Startup!IInv,
     Startup!StartupSafe, Startup!TypeOK, Startup!Places, Startup!Connected, Startup!Bound,
     Startup!Opening, Startup!disk
<1>5. Startup!Custody'
  BY StartupAssumption DEF Startup!Crash, Startup!Gone, Startup!Goto, Startup!IInv,
     Startup!StartupSafe, Startup!TypeOK, Startup!Custody, Startup!Opening, Startup!disk
<1>6. Startup!OneToken'
  BY DEF Startup!Crash, Startup!Gone, Startup!Goto, Startup!IInv, Startup!StartupSafe,
     Startup!TypeOK, Startup!OneToken, Startup!Bound, Startup!Opening, Startup!disk
<1> QED
  BY <1>1, <1>2, <1>3, <1>4, <1>5, <1>6 DEF Startup!IInv, Startup!StartupSafe

\* The backup before the database is opened.
LEMMA TakeSnapshotSound ==
  ASSUME Startup!IInv, NEW d \in Daemons, Startup!TakeSnapshot(d)
  PROVE  Startup!IInv'
<1>0. x7[d] \in Startup!Opening
  BY DEF Startup!TakeSnapshot, Startup!Opening
<1>1. CASE Startup!OpenFails(d)
  BY <1>0, <1>1, OpenFailsSound
<1>2. CASE Startup!Goto(d, "probe") /\ UNCHANGED <<Startup!disk, x8, x9, x10, x11, x12>>
  <2>1. Startup!TypeOK'
    BY <1>0, <1>2 DEF Startup!Goto, Startup!IInv, Startup!StartupSafe, Startup!TypeOK,
       Startup!Opening, Startup!Starting, Startup!disk
  <2>2. Startup!EnvelopeOpens'
    BY <1>0, <1>2 DEF Startup!Goto, Startup!IInv, Startup!StartupSafe, Startup!TypeOK,
       Startup!EnvelopeOpens, Startup!Connected, Startup!disk
  <2>3. Startup!TokenAccepted'
    BY <1>0, <1>2 DEF Startup!Goto, Startup!IInv, Startup!StartupSafe, Startup!TypeOK,
       Startup!TokenAccepted, Startup!disk
  <2>4. Startup!Places'
    BY <1>0, <1>2 DEF Startup!Goto, Startup!IInv, Startup!StartupSafe, Startup!TypeOK,
       Startup!Places, Startup!Connected, Startup!Bound, Startup!Opening, Startup!disk
  <2>5. Startup!Custody'
    BY <1>0, <1>2 DEF Startup!Goto, Startup!IInv, Startup!StartupSafe, Startup!TypeOK,
       Startup!Custody, Startup!Opening, Startup!disk
  <2>6. Startup!OneToken'
    BY <1>0, <1>2 DEF Startup!Goto, Startup!IInv, Startup!StartupSafe, Startup!TypeOK,
       Startup!OneToken, Startup!Bound, Startup!Opening, Startup!disk
  <2> QED
    BY <2>1, <2>2, <2>3, <2>4, <2>5, <2>6 DEF Startup!IInv, Startup!StartupSafe
<1> QED
  BY <1>1, <1>2 DEF Startup!TakeSnapshot

\* probe_schema_compatibility.
LEMMA ProbeSound ==
  ASSUME Startup!IInv, NEW d \in Daemons, Startup!Probe(d)
  PROVE  Startup!IInv'
<1>0. x7[d] \in Startup!Opening
  BY DEF Startup!Probe, Startup!Opening
<1>1. CASE Startup!OpenFails(d)
  BY <1>0, <1>1, OpenFailsSound
<1>2. CASE Startup!Goto(d, "migrate") /\ UNCHANGED <<Startup!disk, x8, x9, x10, x11, x12>>
  <2>1. Startup!TypeOK'
    BY <1>0, <1>2 DEF Startup!Goto, Startup!IInv, Startup!StartupSafe, Startup!TypeOK,
       Startup!Opening, Startup!Starting, Startup!disk
  <2>2. Startup!EnvelopeOpens'
    BY <1>0, <1>2 DEF Startup!Goto, Startup!IInv, Startup!StartupSafe, Startup!TypeOK,
       Startup!EnvelopeOpens, Startup!Connected, Startup!disk
  <2>3. Startup!TokenAccepted'
    BY <1>0, <1>2 DEF Startup!Goto, Startup!IInv, Startup!StartupSafe, Startup!TypeOK,
       Startup!TokenAccepted, Startup!disk
  <2>4. Startup!Places'
    BY <1>0, <1>2 DEF Startup!Goto, Startup!IInv, Startup!StartupSafe, Startup!TypeOK,
       Startup!Places, Startup!Connected, Startup!Bound, Startup!Opening, Startup!disk
  <2>5. Startup!Custody'
    BY <1>0, <1>2 DEF Startup!Goto, Startup!IInv, Startup!StartupSafe, Startup!TypeOK,
       Startup!Custody, Startup!Opening, Startup!disk
  <2>6. Startup!OneToken'
    BY <1>0, <1>2 DEF Startup!Goto, Startup!IInv, Startup!StartupSafe, Startup!TypeOK,
       Startup!OneToken, Startup!Bound, Startup!Opening, Startup!disk
  <2> QED
    BY <2>1, <2>2, <2>3, <2>4, <2>5, <2>6 DEF Startup!IInv, Startup!StartupSafe
<1> QED
  BY <1>1, <1>2 DEF Startup!Probe

\* Connection::open creates the database, or migrate brings it up to date.
LEMMA MigrateSound ==
  ASSUME Startup!IInv, NEW d \in Daemons, Startup!Migrate(d)
  PROVE  Startup!IInv'
<1>0. x7[d] = "migrate" /\ x9[d] \in Daemons /\ x8[d] \in {None, "create", "unlock"}
      /\ UNCHANGED <<x1, x2, x3, x4, x9, x10, x11, x12>>
  BY DEF Startup!Migrate, Startup!OpenFails, Startup!disk, Startup!IInv, Startup!Places,
     Startup!Opening
<1>1. ASSUME NEW n \in Startup!Databases, n.key = x9[d], n.version = 3, x5' = n, x6' \in BOOLEAN,
             x7' = [x7 EXCEPT ![d] = "recover"], x8' = x8,
             x5 = None \/ (x5.key = n.key)
      PROVE  Startup!IInv'
  <2>0. n # None
    BY StartupAssumption
  <2>1. Startup!TypeOK'
    BY <1>0, <1>1 DEF Startup!IInv, Startup!StartupSafe, Startup!TypeOK, Startup!Opening
  <2>2. Startup!EnvelopeOpens'
    <3>1. x2' # None => n.key = x2'.key
      BY <1>0, <1>1 DEF Startup!IInv, Startup!Custody, Startup!Opening
    <3>2. \A e \in Daemons : Startup!Connected(e)' => e = d \/ Startup!Connected(e)
      BY <1>0, <1>1 DEF Startup!Connected, Startup!IInv, Startup!StartupSafe, Startup!TypeOK
    <3> QED
      BY <1>0, <1>1, <2>0, <3>1, <3>2 DEF Startup!IInv, Startup!StartupSafe, Startup!EnvelopeOpens
  <2>3. Startup!Places'
    <3>1. \A e \in Daemons : e # d => x7'[e] = x7[e]
      BY <1>0, <1>1 DEF Startup!IInv, Startup!StartupSafe, Startup!TypeOK
    <3>2. x7'[d] = "recover"
      BY <1>0, <1>1 DEF Startup!IInv, Startup!StartupSafe, Startup!TypeOK
    <3> QED
      BY <1>0, <1>1, <3>1, <3>2 DEF Startup!IInv, Startup!Places, Startup!Bound, Startup!Opening,
         Startup!Current
  <2>4. Startup!Custody'
    BY <1>0, <1>1 DEF Startup!IInv, Startup!StartupSafe, Startup!TypeOK, Startup!Custody,
       Startup!Opening
  <2>5. Startup!OneToken'
    BY <1>0, <1>1 DEF Startup!IInv, Startup!StartupSafe, Startup!TypeOK, Startup!OneToken,
       Startup!Bound, Startup!Opening
  <2> QED
    BY <1>0, <2>1, <2>2, <2>3, <2>4, <2>5 DEF Startup!IInv, Startup!StartupSafe,
       Startup!TokenAccepted
<1>2. CASE x5 = None /\ ~Startup!OpenFails(d)
  <2> DEFINE n == [key |-> x9[d], version |-> Startup!Current, run |-> "none", owner |-> None]
  <2>1. x5' = n /\ x6' = TRUE /\ x7' = [x7 EXCEPT ![d] = "recover"] /\ x8' = x8
    BY <1>2 DEF Startup!Migrate, Startup!Goto
  <2>2. n \in Startup!Databases /\ n.key = x9[d] /\ n.version = 3
    BY <1>0 DEF Startup!Databases, Startup!Current
  <2> HIDE DEF n
  <2> QED
    BY <1>1, <1>2, <2>1, <2>2
<1>3. CASE x5 # None /\ ~Startup!OpenFails(d)
  <2> DEFINE n == [x5 EXCEPT !.version = Startup!Current]
  <2>1. /\ x5' = n /\ x7' = [x7 EXCEPT ![d] = "recover"] /\ x8' = x8 /\ x5.key = x9[d]
        /\ x6' \in BOOLEAN
    BY <1>3 DEF Startup!Migrate, Startup!Goto, Startup!IInv, Startup!StartupSafe, Startup!TypeOK
  <2>2. n \in Startup!Databases /\ n.key = x9[d] /\ n.version = 3
    BY <1>3, <2>1 DEF Startup!Databases, Startup!Current, Startup!IInv, Startup!StartupSafe,
       Startup!TypeOK
  <2> HIDE DEF n
  <2> QED
    BY <1>1, <1>3, <2>1, <2>2
<1>4. CASE Startup!OpenFails(d)
  <2>1. x7[d] \in Startup!Opening
    BY <1>0 DEF Startup!Opening
  <2> QED
    BY <1>4, <2>1, OpenFailsSound
<1> QED
  BY <1>2, <1>3, <1>4 DEF Startup!Migrate, Startup!OpenFails

\* Recover and StartRun write the runs of a database that is in use.
LEMMA RunsWritten ==
  ASSUME Startup!IInv, NEW d \in Daemons, Startup!Connected(d), NEW n \in Startup!Databases,
         n.key = x5.key, x5' = n, UNCHANGED <<x2, x9>>,
         \A e \in Daemons : Startup!Connected(e)' => Startup!Connected(e)
  PROVE  x5 # None /\ x5' # None /\ Startup!EnvelopeOpens'
<1>1. x5 # None /\ Startup!EnvelopeOpens
  BY DEF Startup!IInv, Startup!StartupSafe, Startup!EnvelopeOpens
<1>2. n # None
  BY StartupAssumption
<1> QED
  BY <1>1, <1>2 DEF Startup!EnvelopeOpens

\* ready_database: work that is under way cannot have survived.
LEMMA RecoverSound ==
  ASSUME Startup!IInv, NEW d \in Daemons, Startup!Recover(d)
  PROVE  Startup!IInv'
<1> DEFINE n == [x5 EXCEPT !.run = IF @ = "running" THEN "interrupted" ELSE @]
<1>0. /\ x7[d] = "recover" /\ Startup!Connected(d) /\ x5' = n
      /\ x7' = [x7 EXCEPT ![d] = IF x8[d] = None THEN "token" ELSE "serving"]
      /\ x8' = [x8 EXCEPT ![d] = "ready"] /\ x6' \in BOOLEAN
      /\ UNCHANGED <<x1, x2, x3, x4, x9, x10, x11, x12>>
  BY DEF Startup!Recover, Startup!Goto, Startup!Holds, Startup!Connected, Startup!IInv,
     Startup!StartupSafe, Startup!TypeOK
<1>1. n \in Startup!Databases /\ n.key = x5.key /\ n.version = x5.version
  BY <1>0 DEF Startup!Databases, Startup!IInv, Startup!StartupSafe, Startup!TypeOK,
     Startup!EnvelopeOpens
<1> HIDE DEF n
<1>2. \A e \in Daemons : Startup!Connected(e)' => Startup!Connected(e)
  BY <1>0 DEF Startup!Connected, Startup!IInv, Startup!StartupSafe, Startup!TypeOK
<1>3. Startup!TypeOK'
  BY <1>0, <1>1 DEF Startup!Starting, Startup!Opening, Startup!IInv, Startup!StartupSafe,
     Startup!TypeOK
<1>4. Startup!EnvelopeOpens' /\ x5 # None /\ x5' # None
  BY <1>0, <1>1, <1>2, RunsWritten
<1>5. Startup!Places'
  BY <1>0, <1>1, <1>2, <1>4 DEF Startup!IInv, Startup!StartupSafe, Startup!TypeOK, Startup!Places,
     Startup!Connected, Startup!Bound, Startup!Opening, Startup!disk
<1>6. Startup!Custody'
  BY <1>0, <1>1, <1>4 DEF Startup!IInv, Startup!StartupSafe, Startup!TypeOK, Startup!Custody,
     Startup!Opening, Startup!disk
<1>7. Startup!OneToken'
  BY <1>0, <1>1, <1>4 DEF Startup!IInv, Startup!StartupSafe, Startup!TypeOK, Startup!OneToken,
     Startup!Bound, Startup!Opening, Startup!disk
<1> QED
  BY <1>0, <1>3, <1>4, <1>5, <1>6, <1>7 DEF Startup!IInv, Startup!StartupSafe, Startup!TokenAccepted

\* A run is recorded by a daemon that works on the database.
LEMMA StartRunSound ==
  ASSUME Startup!IInv, NEW d \in Daemons, Startup!StartRun(d)
  PROVE  Startup!IInv'
<1> DEFINE n == [x5 EXCEPT !.run = "running", !.owner = d]
<1>0. /\ x7[d] = "serving" /\ Startup!Connected(d) /\ x5' = n /\ x6' = TRUE
      /\ UNCHANGED <<x1, x2, x3, x4, x7, x8, x9, x10, x11, x12>>
  BY DEF Startup!StartRun, Startup!Connected
<1>1. n \in Startup!Databases /\ n.key = x5.key /\ n.version = x5.version
  BY <1>0 DEF Startup!Databases, Startup!IInv, Startup!StartupSafe, Startup!TypeOK,
     Startup!EnvelopeOpens
<1> HIDE DEF n
<1>2. \A e \in Daemons : Startup!Connected(e)' => Startup!Connected(e)
  BY <1>0 DEF Startup!Connected
<1>3. Startup!TypeOK'
  BY <1>0, <1>1 DEF Startup!IInv, Startup!StartupSafe, Startup!TypeOK
<1>4. Startup!EnvelopeOpens' /\ x5 # None /\ x5' # None
  BY <1>0, <1>1, <1>2, RunsWritten
<1>5. Startup!Places' /\ Startup!Custody' /\ Startup!OneToken'
  BY <1>0, <1>1, <1>2, <1>4 DEF Startup!IInv, Startup!Places, Startup!Custody, Startup!OneToken,
     Startup!Bound
<1> QED
  BY <1>0, <1>3, <1>4, <1>5 DEF Startup!IInv, Startup!StartupSafe, Startup!TokenAccepted

\* StorageUnlock.
LEMMA UnlockSound ==
  ASSUME Startup!IInv, NEW d \in Daemons, NEW pass \in Passphrases, Startup!Unlock(d, pass)
  PROVE  Startup!IInv'
<1>0. /\ x7[d] = "serving" /\ x8[d] \in {"create", "unlock"}
      /\ UNCHANGED <<x1, x2, x3, x4, x5, x6, x8, x10, x11, x12>>
  BY DEF Startup!Unlock, Startup!disk
<1>1. CASE x2 = None
  <2>1. x7' = [x7 EXCEPT ![d] = "publish"] /\ x9' = x9
    BY <1>0, <1>1 DEF Startup!Unlock, Startup!Goto
  <2>2. Startup!TypeOK'
    BY <1>0, <2>1 DEF Startup!IInv, Startup!StartupSafe, Startup!TypeOK
  <2>3. Startup!EnvelopeOpens' /\ Startup!TokenAccepted'
    BY <1>0, <2>1 DEF Startup!IInv, Startup!StartupSafe, Startup!TypeOK, Startup!EnvelopeOpens,
       Startup!TokenAccepted, Startup!Connected, Startup!disk
  <2>4. Startup!Places'
    BY <1>0, <2>1 DEF Startup!IInv, Startup!StartupSafe, Startup!TypeOK, Startup!Places,
       Startup!Connected, Startup!Bound, Startup!Opening, Startup!disk
  <2>5. Startup!Custody' /\ Startup!OneToken'
    BY <1>0, <2>1 DEF Startup!IInv, Startup!StartupSafe, Startup!TypeOK, Startup!Custody,
       Startup!OneToken, Startup!Bound, Startup!Opening, Startup!disk
  <2> QED
    BY <2>2, <2>3, <2>4, <2>5 DEF Startup!IInv, Startup!StartupSafe
<1>2. CASE x2 # None /\ x2.pass = pass
  <2>1. x7' = [x7 EXCEPT ![d] = "snapshot"] /\ x9' = [x9 EXCEPT ![d] = x2.key]
    BY <1>0, <1>2 DEF Startup!Unlock, Startup!Goto
  <2>0. x2.key \in Daemons
    BY <1>2 DEF Startup!IInv, Startup!StartupSafe, Startup!TypeOK, Startup!Envelopes
  <2>2. Startup!TypeOK'
    BY <1>0, <2>0, <2>1 DEF Startup!IInv, Startup!StartupSafe, Startup!TypeOK, Startup!Opening
  <2>3. Startup!EnvelopeOpens' /\ Startup!TokenAccepted'
    BY <1>0, <2>0, <2>1 DEF Startup!IInv, Startup!StartupSafe, Startup!TypeOK,
       Startup!EnvelopeOpens, Startup!TokenAccepted, Startup!Connected, Startup!disk
  <2>4. Startup!Places'
    BY <1>0, <2>0, <2>1, StartupAssumption DEF Startup!IInv, Startup!StartupSafe, Startup!TypeOK,
       Startup!Places, Startup!Connected, Startup!Bound, Startup!Opening, Startup!disk
  <2>5. Startup!Custody' /\ Startup!OneToken'
    BY <1>0, <1>2, <2>1 DEF Startup!IInv, Startup!StartupSafe, Startup!TypeOK, Startup!Custody,
       Startup!OneToken, Startup!Bound, Startup!Opening, Startup!disk
  <2> QED
    BY <2>2, <2>3, <2>4, <2>5 DEF Startup!IInv, Startup!StartupSafe
<1>3. CASE x2 # None /\ x2.pass # pass
  <2>1. UNCHANGED <<x7, x9>>
    BY <1>3 DEF Startup!Unlock
  <2> QED
    BY <1>0, <2>1 DEF Startup!IInv, Startup!StartupSafe, Startup!TypeOK, Startup!EnvelopeOpens,
       Startup!TokenAccepted, Startup!Places, Startup!Custody, Startup!OneToken, Startup!Connected,
       Startup!Bound, Startup!Opening, Startup!Starting, Startup!disk
<1> QED
  BY <1>1, <1>2, <1>3

\* The envelope is published, or found published.
LEMMA PublishSound ==
  ASSUME Startup!IInv, NEW d \in Daemons, NEW pass \in Passphrases, Startup!Publish(d, pass)
  PROVE  Startup!IInv'
<1>0. /\ x7[d] = "publish" /\ x8[d] \in {"create", "unlock"}
      /\ UNCHANGED <<x1, x3, x4, x5, x6, x8, x10, x11, x12>>
  BY DEF Startup!Publish, Startup!IInv, Startup!Places
<1>1. CASE x2 = None
  <2> DEFINE n == [key |-> d, pass |-> pass]
  <2>1. x7' = [x7 EXCEPT ![d] = "snapshot"] /\ x9' = [x9 EXCEPT ![d] = d] /\ x2' = n
    BY <1>0, <1>1 DEF Startup!Publish, Startup!Goto
  <2>0. n \in Startup!Envelopes /\ n.key = d
    BY DEF Startup!Envelopes
  <2> HIDE DEF n
  <2>2. Startup!TypeOK'
    BY <1>0, <2>0, <2>1 DEF Startup!IInv, Startup!StartupSafe, Startup!TypeOK, Startup!Opening
  <2>3. ~x1.works /\ x5 = None
    BY <1>0, <1>1 DEF Startup!IInv, Startup!Custody
  <2>4. Startup!EnvelopeOpens' /\ Startup!TokenAccepted'
    BY <1>0, <2>0, <2>1, <2>3 DEF Startup!IInv, Startup!StartupSafe, Startup!TypeOK,
       Startup!EnvelopeOpens, Startup!TokenAccepted, Startup!Connected, Startup!disk
  <2>5. Startup!Places'
    BY <1>0, <2>0, <2>1, <2>3, StartupAssumption DEF Startup!IInv, Startup!StartupSafe,
       Startup!TypeOK, Startup!Places, Startup!Connected, Startup!Bound, Startup!Opening,
       Startup!disk
  <2>6. Startup!Custody'
    BY <1>0, <1>1, <2>0, <2>1, <2>3, StartupAssumption DEF Startup!IInv, Startup!StartupSafe,
       Startup!TypeOK, Startup!Custody, Startup!Opening, Startup!disk
  <2>7. Startup!OneToken'
    BY <1>0, <2>0, <2>1, <2>3 DEF Startup!IInv, Startup!StartupSafe, Startup!TypeOK,
       Startup!OneToken, Startup!Bound, Startup!Opening, Startup!disk
  <2> QED
    BY <2>2, <2>4, <2>5, <2>6, <2>7 DEF Startup!IInv, Startup!StartupSafe
<1>2. CASE x2 # None /\ x2.pass = pass
  <2>1. x7' = [x7 EXCEPT ![d] = "snapshot"] /\ x9' = [x9 EXCEPT ![d] = x2.key] /\ x2' = x2
    BY <1>0, <1>2 DEF Startup!Publish, Startup!Goto
  <2>0. x2.key \in Daemons
    BY <1>2 DEF Startup!IInv, Startup!StartupSafe, Startup!TypeOK, Startup!Envelopes
  <2>2. Startup!TypeOK'
    BY <1>0, <2>0, <2>1 DEF Startup!IInv, Startup!StartupSafe, Startup!TypeOK, Startup!Opening
  <2>3. Startup!EnvelopeOpens' /\ Startup!TokenAccepted'
    BY <1>0, <2>0, <2>1 DEF Startup!IInv, Startup!StartupSafe, Startup!TypeOK,
       Startup!EnvelopeOpens, Startup!TokenAccepted, Startup!Connected, Startup!disk
  <2>4. Startup!Places'
    BY <1>0, <2>0, <2>1, StartupAssumption DEF Startup!IInv, Startup!StartupSafe, Startup!TypeOK,
       Startup!Places, Startup!Connected, Startup!Bound, Startup!Opening, Startup!disk
  <2>5. Startup!Custody' /\ Startup!OneToken'
    BY <1>0, <1>2, <2>1 DEF Startup!IInv, Startup!StartupSafe, Startup!TypeOK, Startup!Custody,
       Startup!OneToken, Startup!Bound, Startup!Opening, Startup!disk
  <2> QED
    BY <2>2, <2>3, <2>4, <2>5 DEF Startup!IInv, Startup!StartupSafe
<1>3. CASE x2 # None /\ x2.pass # pass
  <2>1. x7' = [x7 EXCEPT ![d] = "serving"] /\ x9' = x9 /\ x2' = x2
    BY <1>0, <1>3 DEF Startup!Publish, Startup!Goto
  <2>2. Startup!TypeOK'
    BY <1>0, <2>1 DEF Startup!IInv, Startup!StartupSafe, Startup!TypeOK
  <2>3. Startup!EnvelopeOpens' /\ Startup!TokenAccepted' /\ Startup!Places'
    BY <1>0, <2>1 DEF Startup!IInv, Startup!StartupSafe, Startup!TypeOK, Startup!EnvelopeOpens,
       Startup!TokenAccepted, Startup!Places, Startup!Connected, Startup!Bound, Startup!Opening,
       Startup!disk
  <2>4. Startup!Custody' /\ Startup!OneToken'
    BY <1>0, <2>1 DEF Startup!IInv, Startup!StartupSafe, Startup!TypeOK, Startup!Custody,
       Startup!OneToken, Startup!Bound, Startup!Opening, Startup!disk
  <2> QED
    BY <2>2, <2>3, <2>4 DEF Startup!IInv, Startup!StartupSafe
<1> QED
  BY <1>1, <1>2, <1>3


\* First launch, or a directory that an earlier daemon has left behind.
LEMMA StartupInit ==
  Startup!Init => Startup!IInv
<1> SUFFICES ASSUME Startup!Init PROVE Startup!IInv
  OBVIOUS
<1>1. Startup!TypeOK
  <2>1. \A d \in Daemons, v \in {1, Startup!Current + 1} :
          [key |-> d, version |-> v, run |-> "none", owner |-> None] \in Startup!Databases
    BY DEF Startup!Databases, Startup!Current
  <2>2. x5 \in Startup!Databases \cup {None}
    BY <2>1 DEF Startup!Init
  <2>3. x1 \in [works : BOOLEAN, entry : Daemons \cup {None}]
    <3>1. [works : BOOLEAN, entry : {None}] \subseteq [works : BOOLEAN, entry : Daemons \cup {None}]
      OBVIOUS
    <3>2. \A d \in Daemons : [works |-> TRUE, entry |-> d] \in [works : BOOLEAN, entry : Daemons \cup {None}]
      OBVIOUS
    <3> QED
      BY <3>1, <3>2 DEF Startup!Init
  <2>4. /\ x2 = None /\ x3 = None /\ x6 = FALSE /\ x4 \in {None, "stale", "foreign"} /\ x12 = 0
        /\ x7 = [d \in Daemons |-> "off"] /\ x8 = [d \in Daemons |-> None]
        /\ x9 = [d \in Daemons |-> None] /\ x10 = [d \in Daemons |-> None]
        /\ x11 = [d \in Daemons |-> "idle"]
    BY DEF Startup!Init
  <2>5. /\ x2 \in Startup!Envelopes \cup {None} /\ x3 \in Daemons \cup {None, "empty"}
        /\ x4 \in Daemons \cup {None, "stale", "foreign"} /\ x6 \in BOOLEAN
    BY <2>4, Zenon
  <2>7. x12 \in 0..MaxCrashes
    BY <2>4, StartupAssumption
  <2>6. /\ x7 \in [Daemons -> Startup!Opening \cup Startup!Starting \cup {"off", "serving", "publish", "failed"}]
        /\ x8 \in [Daemons -> {None, "ready", "create", "unlock", "unavailable"}]
        /\ x9 \in [Daemons -> Daemons \cup {None}] /\ x10 \in [Daemons -> Daemons \cup {None}]
        /\ x11 \in [Daemons -> {"idle", "waiting", "connected", "rejected", "timed_out"}]
    BY <2>4
  <2> QED
    BY <2>2, <2>3, <2>5, <2>6, <2>7 DEF Startup!TypeOK
<1>2. Startup!EnvelopeOpens /\ Startup!TokenAccepted
  BY StartupAssumption DEF Startup!Init, Startup!EnvelopeOpens, Startup!TokenAccepted,
     Startup!Connected
<1>3. Startup!Places
  BY StartupAssumption
     DEF Startup!Init, Startup!Places, Startup!Connected, Startup!Opening
<1>4. Startup!Custody
  BY StartupAssumption DEF Startup!Init, Startup!Custody, Startup!Opening
<1>5. Startup!OneToken
  BY DEF Startup!Init, Startup!OneToken, Startup!Bound, Startup!Opening
<1> QED
  BY <1>1, <1>2, <1>3, <1>4, <1>5 DEF Startup!IInv, Startup!StartupSafe

\* Every step of a daemon, a launcher or a user.
LEMMA StartupInductive ==
  /\ Startup!Init => Startup!IInv
  /\ Startup!IInv /\ [Startup!Next]_(Startup!vars) => Startup!IInv'
<1>1. ASSUME Startup!IInv, Startup!Next PROVE Startup!IInv'
  <2>1. PICK d \in Daemons :
          \/ Startup!Launch(d) \/ Startup!Retry(d) \/ Startup!StartupDeadline(d) \/ Startup!Reopen(d)
          \/ Startup!ReadKey(d) \/ Startup!SetKey(d) \/ Startup!TakeSnapshot(d) \/ Startup!Probe(d)
          \/ Startup!Migrate(d) \/ Startup!Recover(d)
          \/ \E pass \in Passphrases : Startup!Unlock(d, pass) \/ Startup!Publish(d, pass)
          \/ Startup!LoadToken(d) \/ Startup!WriteToken(d) \/ Startup!Bind(d) \/ Startup!ConnectSelf(d)
          \/ Startup!RemoveStale(d)
          \/ Startup!StartRun(d) \/ Startup!Stop(d) \/ Startup!BindFailed(d) \/ Startup!Crash(d)
    BY <1>1 DEF Startup!Next
  <2> QED
    BY <1>1, <2>1, LaunchSound, RetrySound, StartupDeadlineSound, ReopenSound, ReadKeySound,
       SetKeySound,
       TakeSnapshotSound, ProbeSound, MigrateSound, RecoverSound, UnlockSound, PublishSound,
       LoadTokenSound, WriteTokenSound, BindSound, ConnectSelfSound, RemoveStaleSound, StartRunSound,
       StopSound, BindFailedSound, CrashSound
<1>2. ASSUME Startup!IInv, UNCHANGED Startup!vars PROVE Startup!IInv'
  BY <1>2 DEF Startup!vars, Startup!disk, Startup!IInv, Startup!StartupSafe, Startup!TypeOK,
     Startup!EnvelopeOpens, Startup!TokenAccepted, Startup!Places, Startup!Custody, Startup!OneToken,
     Startup!Connected, Startup!Bound
<1> QED
  BY <1>1, <1>2, StartupInit

\* Only migration, recovery and a new run write a database that exists, all
\* of a daemon that holds its key, and none of a newer schema.
LEMMA DatabaseKept ==
  ASSUME Startup!IInv, Startup!Next
  PROVE  Startup!DatabaseStep
<1> SUFFICES ASSUME x5 # None
             PROVE  /\ x5' # None /\ x5'.key = x5.key /\ x5'.version >= x5.version
                    /\ (x5.version > Startup!Current => x5' = x5)
  BY DEF Startup!DatabaseStep
<1>0. x5 \in Startup!Databases /\ x5.version \in Nat /\ Startup!Current \in Nat
  BY DEF Startup!IInv, Startup!StartupSafe, Startup!TypeOK, Startup!Databases, Startup!Current
<1>1. PICK d \in Daemons : Startup!Migrate(d) \/ Startup!Recover(d) \/ Startup!StartRun(d) \/ x5' = x5
  BY DEF Startup!Next, Startup!Launch, Startup!Retry, Startup!StartupDeadline, Startup!Reopen,
     Startup!ReadKey, Startup!SetKey, Startup!OpenFails, Startup!TakeSnapshot, Startup!Probe,
     Startup!Unlock, Startup!Publish, Startup!LoadToken, Startup!WriteToken, Startup!Bind,
     Startup!ConnectSelf, Startup!RemoveStale, Startup!Stop, Startup!BindFailed, Startup!Crash,
     Startup!disk
<1>2. CASE x5' = x5
  BY <1>0, <1>2
<1>3. ASSUME NEW n \in Startup!Databases, x5' = n, n.key = x5.key, n.version = Startup!Current,
             x5.version <= Startup!Current
      PROVE  /\ x5' # None /\ x5'.key = x5.key /\ x5'.version >= x5.version
             /\ (x5.version > Startup!Current => x5' = x5)
  BY <1>0, <1>3, StartupAssumption
<1>4. CASE Startup!Migrate(d)
  <2>1. x5' = x5 \/ (x5.version <= Startup!Current /\ x5' = [x5 EXCEPT !.version = Startup!Current])
    BY <1>4 DEF Startup!Migrate, Startup!OpenFails, Startup!disk
  <2>2. /\ [x5 EXCEPT !.version = Startup!Current] \in Startup!Databases
        /\ [x5 EXCEPT !.version = Startup!Current].key = x5.key
        /\ [x5 EXCEPT !.version = Startup!Current].version = Startup!Current
    BY <1>0 DEF Startup!Databases, Startup!Current
  <2> QED
    BY <1>2, <1>3, <2>1, <2>2
<1>5. CASE Startup!Recover(d) \/ Startup!StartRun(d)
  <2>1. x5.version = Startup!Current
    BY <1>5 DEF Startup!Recover, Startup!StartRun, Startup!IInv, Startup!Places, Startup!Connected
  <2>2. \E work \in {"none", "running", "interrupted"}, owner \in Daemons \cup {None} :
          x5' = [x5 EXCEPT !.run = work, !.owner = owner]
    <3>1. CASE Startup!StartRun(d)
      BY <3>1 DEF Startup!StartRun
    <3>2. CASE Startup!Recover(d)
      <4>1. x5' = [x5 EXCEPT !.run = IF @ = "running" THEN "interrupted" ELSE @]
        BY <3>2 DEF Startup!Recover
      <4>2. \E work \in {"none", "running", "interrupted"} : x5' = [x5 EXCEPT !.run = work]
        BY <1>0, <4>1 DEF Startup!Databases
      <4>3. \A work : [x5 EXCEPT !.run = work] = [x5 EXCEPT !.run = work, !.owner = x5.owner]
        BY <1>0 DEF Startup!Databases
      <4>4. x5.owner \in Daemons \cup {None}
        BY <1>0 DEF Startup!Databases
      <4> QED
        BY <4>2, <4>3, <4>4
    <3> QED
      BY <1>5, <3>1, <3>2
  <2>3. PICK n : /\ x5' = n /\ n \in Startup!Databases /\ n.key = x5.key /\ n.version = Startup!Current
    <3>1. \A work \in {"none", "running", "interrupted"}, owner \in Daemons \cup {None} :
            /\ [x5 EXCEPT !.run = work, !.owner = owner] \in Startup!Databases
            /\ [x5 EXCEPT !.run = work, !.owner = owner].key = x5.key
            /\ [x5 EXCEPT !.run = work, !.owner = owner].version = x5.version
      BY <1>0 DEF Startup!Databases
    <3> QED
      BY <2>1, <2>2, <3>1
  <2> QED
    BY <1>0, <1>3, <2>1, <2>3
<1> QED
  BY <1>1, <1>2, <1>4, <1>5

-----------------------------------------------------------------------------
(* StorageMaintenance.  Its slots: x1 today, x2 written, x3 faults,        *)
(* x4 segments, x5 files, x6 lock, x7 writer, x8 keeper, x9 snapshots,     *)
(* x10 leftovers.                                                          *)

\* A writer moves on: its other fields, and the other writers, stay.
LEMMA WriterMoves ==
  ASSUME Storage!TypeOK, NEW t \in Tabs, NEW place \in {"idle", "writing", "written", "appended",
         "releasing"},
         Storage!Move(t, place)
  PROVE  /\ x7' \in [Tabs -> Storage!Writers]
         /\ x7'[t] = [x7[t] EXCEPT !.at = place]
         /\ x7'[t].at = place /\ x7'[t].id = x7[t].id /\ x7'[t].bytes = x7[t].bytes
         /\ x7'[t].released = x7[t].released
         /\ \A u \in Tabs : u # t => x7'[u] = x7[u]
<1> DEFINE w == [x7[t] EXCEPT !.at = place]
<1>1. /\ w \in Storage!Writers
      /\ w.at = place /\ w.id = x7[t].id /\ w.bytes = x7[t].bytes /\ w.released = x7[t].released
  BY DEF Storage!TypeOK, Storage!Writers
<1>2. x7' = [x7 EXCEPT ![t] = w]
  BY DEF Storage!Move
<1> HIDE DEF w
<1>3. x7'[t] = w /\ \A u \in Tabs : u # t => x7'[u] = x7[u]
  BY <1>2 DEF Storage!TypeOK, Storage!Writers
<1>4. x7' \in [Tabs -> Storage!Writers]
  BY <1>1, <1>2 DEF Storage!TypeOK, Storage!Writers
<1> QED
  BY <1>1, <1>3, <1>4 DEF w

\* What a writer at work knows: nobody else is at work.
LEMMA AloneAtWork ==
  ASSUME Storage!FilesSound, NEW t \in Tabs, Storage!Working(t)
  PROVE  /\ x6 = t /\ x8.at \in {"idle", "closed"}
         /\ \A u \in Tabs : u # t => x7[u].at \in {"idle", "releasing"}
BY StorageAssumption DEF Storage!FilesSound, Storage!LockHeld, Storage!TypeOK, Storage!Writers,
   Storage!Working

\* write_encrypted_segment.
LEMMA WriteSegmentSound ==
  ASSUME Storage!FilesSound, NEW t \in Tabs, Storage!WriteSegment(t)
  PROVE  Storage!FilesSound'
<1>0. /\ x7[t].at = "writing" /\ x7[t].id \in (1..x2) \ Storage!Ids(x4)
      /\ x6 = t /\ x8.at \in {"idle", "closed"} /\ UNCHANGED <<x1, x2, x4, x8, x9>>
      /\ \A u \in Tabs : u # t => x7[u].at \in {"idle", "releasing"}
  BY AloneAtWork DEF Storage!WriteSegment, Storage!Working, Storage!FilesSound, Storage!LockHeld
<1>1. PICK place \in {"idle", "written"} :
        /\ Storage!Move(t, place)
        /\ place = "written" => x5' = x5 \cup {x7[t].id} /\ x6' = x6
        /\ place = "idle" => x5' = x5 /\ x6' = "free"
  BY DEF Storage!WriteSegment
<1>2. /\ x7' \in [Tabs -> Storage!Writers]
      /\ x7'[t].at = place /\ x7'[t].id = x7[t].id /\ x7'[t].bytes = x7[t].bytes
      /\ \A u \in Tabs : u # t => x7'[u] = x7[u]
  BY <1>1, WriterMoves DEF Storage!FilesSound
<1>3. Storage!TypeOK'
  BY <1>0, <1>1, <1>2 DEF Storage!FilesSound, Storage!TypeOK, Storage!Writers
<1>4. Storage!RowsHaveFiles'
  BY <1>0, <1>1 DEF Storage!FilesSound, Storage!RowsHaveFiles
<1>5. Storage!LockHeld'
  BY <1>0, <1>1, <1>2 DEF Storage!FilesSound, Storage!LockHeld, Storage!Working, Storage!Ids
<1>6. Storage!ReleasedIsLoose'
  BY <1>0, <1>1, <1>2 DEF Storage!FilesSound, Storage!ReleasedIsLoose, Storage!Loose, Storage!Unborn,
     Storage!Ids
<1> QED
  BY <1>3, <1>4, <1>5, <1>6 DEF Storage!FilesSound

\* The row, or the removal of the file that has none.
LEMMA AppendRowSound ==
  ASSUME Storage!FilesSound, NEW t \in Tabs, Storage!AppendRow(t)
  PROVE  Storage!FilesSound'
<1> DEFINE row == [id |-> x7[t].id, owner |-> t, bytes |-> x7[t].bytes, day |-> x1]
<1>0. /\ x7[t].at = "written" /\ x7[t].id \in (1..x2) \ Storage!Ids(x4) /\ x7[t].id \in x5
      /\ x6 = t /\ x8.at \in {"idle", "closed"} /\ UNCHANGED <<x1, x2, x8, x9>>
      /\ \A u \in Tabs : u # t => x7[u].at \in {"idle", "releasing"}
  BY AloneAtWork DEF Storage!AppendRow, Storage!Working, Storage!FilesSound, Storage!LockHeld
<1>1. PICK place \in {"idle", "appended"} :
        /\ Storage!Move(t, place)
        /\ place = "appended" => x4' = x4 \cup {row} /\ x5' = x5 /\ x6' = x6
        /\ place = "idle" => x4' = x4 /\ x5' = x5 \ {x7[t].id} /\ x6' = "free"
  BY DEF Storage!AppendRow
<1>2. /\ x7' \in [Tabs -> Storage!Writers]
      /\ x7'[t].at = place /\ x7'[t].id = x7[t].id /\ x7'[t].bytes = x7[t].bytes
      /\ \A u \in Tabs : u # t => x7'[u] = x7[u]
  BY <1>1, WriterMoves DEF Storage!FilesSound
<1>3. Storage!TypeOK'
  <2>0. x7[t].bytes \in SegmentSizes
    BY <1>0 DEF Storage!FilesSound, Storage!LockHeld, Storage!Working
  <2>1. row \in [id : 1..x2, owner : Tabs \cup {"raw"}, bytes : SegmentSizes, day : 1..MaxDay]
    BY <1>0, <2>0 DEF Storage!FilesSound, Storage!TypeOK, Storage!Writers
  <2> QED
    BY <1>0, <1>1, <1>2, <2>1 DEF Storage!FilesSound, Storage!TypeOK, Storage!Writers
<1>4. Storage!RowsHaveFiles'
  BY <1>0, <1>1 DEF Storage!FilesSound, Storage!RowsHaveFiles, Storage!Ids
<1>5. Storage!Ids(x4)' \subseteq Storage!Ids(x4) \cup {x7[t].id}
  BY <1>1 DEF Storage!Ids
<1>6. Storage!LockHeld'
  BY <1>0, <1>1, <1>2 DEF Storage!FilesSound, Storage!LockHeld, Storage!Working
<1>7. Storage!ReleasedIsLoose'
  BY <1>0, <1>1, <1>2, <1>5 DEF Storage!FilesSound, Storage!ReleasedIsLoose, Storage!Loose, Storage!Unborn
<1> QED
  BY <1>3, <1>4, <1>6, <1>7 DEF Storage!FilesSound

\* prune_terminal_segments: what it releases were rows, and are no more.
LEMMA PruneRowsSound ==
  ASSUME Storage!FilesSound, NEW t \in Tabs, Storage!PruneRows(t)
  PROVE  Storage!FilesSound'
<1>0. /\ x7[t].at = "appended" /\ x6' = "free" /\ x8.at \in {"idle", "closed"}
      /\ UNCHANGED <<x1, x2, x5, x8, x9>>
      /\ \A u \in Tabs : u # t => x7[u].at \in {"idle", "releasing"}
  BY AloneAtWork DEF Storage!PruneRows, Storage!Working
<1>1. CASE Storage!Move(t, "idle") /\ x4' = x4
  <2>1. /\ x7' \in [Tabs -> Storage!Writers]
        /\ x7'[t].at = "idle" /\ \A u \in Tabs : u # t => x7'[u] = x7[u]
    BY <1>1, WriterMoves DEF Storage!FilesSound
  <2>2. Storage!TypeOK' /\ Storage!RowsHaveFiles'
    BY <1>0, <1>1, <2>1 DEF Storage!FilesSound, Storage!TypeOK, Storage!Writers, Storage!RowsHaveFiles
  <2>3. Storage!LockHeld' /\ Storage!ReleasedIsLoose'
    BY <1>0, <1>1, <2>1 DEF Storage!FilesSound, Storage!LockHeld, Storage!Working,
       Storage!ReleasedIsLoose,
       Storage!Loose, Storage!Unborn
  <2> QED
    BY <2>2, <2>3 DEF Storage!FilesSound
<1>2. CASE /\ x4' = Storage!Without(Storage!Expired(t))
           /\ x7' = [x7 EXCEPT ![t].at = "releasing", ![t].released = Storage!Expired(t)]
  <2> DEFINE gone == Storage!Expired(t)
             w == [x7[t] EXCEPT !.at = "releasing", !.released = gone]
  <2>1. gone \subseteq Storage!Ids(x4)
    BY DEF Storage!Expired, Storage!Ids, Storage!OwnedBy
  <2>2. x4' = {r \in x4 : r.id \notin gone} /\ x7' = [x7 EXCEPT ![t] = w]
    BY <1>2 DEF Storage!Without
  <2> HIDE DEF gone
  <2>3. gone \subseteq 1..x2 /\ gone \cap Storage!Ids(x4)' = {}
    BY <2>1, <2>2 DEF Storage!Ids, Storage!FilesSound, Storage!TypeOK, Storage!Writers
  <2>4. /\ w \in Storage!Writers
        /\ w.at = "releasing" /\ w.released = gone
    BY <2>3 DEF Storage!FilesSound, Storage!TypeOK, Storage!Writers
  <2> HIDE DEF w
  <2>5. x7'[t] = w /\ \A u \in Tabs : u # t => x7'[u] = x7[u]
    BY <2>2 DEF Storage!FilesSound, Storage!TypeOK, Storage!Writers
  <2>6. Storage!TypeOK' /\ Storage!RowsHaveFiles'
    BY <1>0, <2>2, <2>4 DEF Storage!FilesSound, Storage!TypeOK, Storage!Writers, Storage!RowsHaveFiles
  <2>7. Storage!LockHeld'
    BY <1>0, <2>4, <2>5 DEF Storage!FilesSound, Storage!LockHeld, Storage!Working
  <2>8. Storage!Unborn' = {} /\ Storage!Ids(x4)' \subseteq Storage!Ids(x4)
    BY <1>0, <2>2, <2>4, <2>5 DEF Storage!Unborn, Storage!Ids
  <2>9. Storage!ReleasedIsLoose'
    BY <1>0, <2>3, <2>4, <2>5, <2>8 DEF Storage!FilesSound, Storage!ReleasedIsLoose, Storage!Loose
  <2> QED
    BY <2>6, <2>7, <2>9 DEF Storage!FilesSound
<1> QED
  BY <1>1, <1>2 DEF Storage!PruneRows

\* remove_released_files of a writer.
LEMMA RemovePrunedSound ==
  ASSUME Storage!FilesSound, NEW t \in Tabs, Storage!RemovePruned(t)
  PROVE  Storage!FilesSound'
<1>0. x7[t].at = "releasing" /\ UNCHANGED <<x1, x2, x4, x6, x8, x9>>
  BY DEF Storage!RemovePruned
<1>1. CASE Storage!Move(t, "idle") /\ x5' = x5
  <2>1. /\ x7' \in [Tabs -> Storage!Writers]
        /\ x7'[t].at = "idle" /\ \A u \in Tabs : u # t => x7'[u] = x7[u]
    BY <1>1, WriterMoves DEF Storage!FilesSound
  <2>2. Storage!TypeOK' /\ Storage!RowsHaveFiles'
    BY <1>0, <1>1, <2>1 DEF Storage!FilesSound, Storage!TypeOK, Storage!Writers, Storage!RowsHaveFiles
  <2>3. Storage!LockHeld'
    BY <1>0, <1>1, <2>1 DEF Storage!FilesSound, Storage!LockHeld, Storage!Working
  <2>4. Storage!Unborn' = Storage!Unborn
    BY <1>0, <2>1 DEF Storage!Unborn
  <2>5. Storage!ReleasedIsLoose'
    BY <1>0, <2>1, <2>4 DEF Storage!FilesSound, Storage!ReleasedIsLoose, Storage!Loose
  <2> QED
    BY <2>2, <2>3, <2>5 DEF Storage!FilesSound
<1>2. ASSUME NEW f \in x7[t].released, x5' = x5 \ {f},
             x7' = [x7 EXCEPT ![t].released = @ \ {f}]
      PROVE  Storage!FilesSound'
  <2> DEFINE w == [x7[t] EXCEPT !.released = @ \ {f}]
  <2>1. /\ w \in Storage!Writers
        /\ w.at = "releasing" /\ w.released \subseteq x7[t].released
    BY <1>0 DEF Storage!FilesSound, Storage!TypeOK, Storage!Writers
  <2>2. x7' = [x7 EXCEPT ![t] = w]
    BY <1>2
  <2> HIDE DEF w
  <2>3. x7'[t] = w /\ \A u \in Tabs : u # t => x7'[u] = x7[u]
    BY <2>2 DEF Storage!FilesSound, Storage!TypeOK, Storage!Writers
  <2>4. f \notin Storage!Ids(x4) /\ f \notin Storage!Unborn
    BY <1>0 DEF Storage!FilesSound, Storage!ReleasedIsLoose, Storage!Loose
  <2>5. Storage!TypeOK'
    BY <1>0, <1>2, <2>1, <2>2 DEF Storage!FilesSound, Storage!TypeOK, Storage!Writers
  <2>6. Storage!RowsHaveFiles'
    BY <1>0, <1>2, <2>4 DEF Storage!FilesSound, Storage!RowsHaveFiles, Storage!Ids
  <2>7. Storage!LockHeld'
    BY <1>0, <1>2, <2>1, <2>3, <2>4 DEF Storage!FilesSound, Storage!LockHeld, Storage!Working,
       Storage!Unborn
  <2>8. Storage!Unborn' = Storage!Unborn
    BY <1>0, <2>1, <2>3 DEF Storage!Unborn
  <2>9. Storage!ReleasedIsLoose'
    BY <1>0, <2>1, <2>3, <2>8 DEF Storage!FilesSound, Storage!ReleasedIsLoose, Storage!Loose
  <2> QED
    BY <2>5, <2>6, <2>7, <2>9 DEF Storage!FilesSound
<1> QED
  BY <1>1, <1>2 DEF Storage!RemovePruned

\* A writer takes the lock, and an id that nothing has had.
LEMMA PersistBeginsSound ==
  ASSUME Storage!FilesSound, NEW t \in Tabs, NEW n \in SegmentSizes, Storage!PersistBegins(t, n)
  PROVE  Storage!FilesSound'
<1> DEFINE w == [Storage!Quiet EXCEPT !.at = "writing", !.id = x2 + 1, !.bytes = n]
<1>0. /\ x6 = "free" /\ x6' = t /\ x2' = x2 + 1 /\ UNCHANGED <<x1, x4, x5, x8, x9>>
      /\ x7' = [x7 EXCEPT ![t] = w]
      /\ x2' \in 0..MaxRows
  BY StorageAssumption DEF Storage!PersistBegins, Storage!FilesSound, Storage!TypeOK
<1>1. /\ w \in Storage!Writers'
      /\ w.at = "writing" /\ w.id = x2 + 1 /\ w.bytes = n
  <2>1. Storage!Quiet \in Storage!Writers'
    BY <1>0 DEF Storage!Quiet, Storage!FilesSound, Storage!TypeOK, Storage!Writers
  <2>2. x2 + 1 \in 0..x2'
    BY <1>0 DEF Storage!FilesSound, Storage!TypeOK, Storage!Writers
  <2> QED
    BY <2>1, <2>2 DEF Storage!Writers
<1> HIDE DEF w
<1>2. x7'[t] = w /\ \A u \in Tabs : u # t => x7'[u] = x7[u]
  BY <1>0 DEF Storage!FilesSound, Storage!TypeOK, Storage!Writers
<1>3. x8.at \in {"idle", "closed"} /\ \A u \in Tabs : x7[u].at \in {"idle", "releasing"}
  BY <1>0, StorageAssumption DEF Storage!FilesSound, Storage!TypeOK, Storage!Writers, Storage!LockHeld,
     Storage!Working
<1>4. x2 + 1 \notin Storage!Ids(x4) /\ 1..x2 \subseteq 1..x2' /\ x2 + 1 \in 1..x2' /\ x2 + 1 \notin 1..x2
  BY <1>0 DEF Storage!FilesSound, Storage!TypeOK, Storage!Writers, Storage!Ids
<1>5. Storage!TypeOK'
  <2>1. \A u \in Tabs : x7'[u] \in Storage!Writers'
    <3>1. 0..x2 \subseteq 0..x2'
      BY <1>0 DEF Storage!FilesSound, Storage!TypeOK, Storage!Writers
    <3>2. \A u \in Tabs : x7[u] \in Storage!Writers'
      BY <1>4, <3>1 DEF Storage!FilesSound, Storage!TypeOK, Storage!Writers
    <3> QED
      BY <1>1, <1>2, <3>2
  <2>2. x7' \in [Tabs -> Storage!Writers']
    BY <1>0, <2>1 DEF Storage!FilesSound, Storage!TypeOK, Storage!Writers
  <2>3. x4' \subseteq [id : 1..x2', owner : Tabs \cup {"raw"}, bytes : SegmentSizes, day : 1..MaxDay]
    BY <1>0, <1>4 DEF Storage!FilesSound, Storage!TypeOK, Storage!Writers
  <2>4. x5' \subseteq 1..x2' /\ x6' \in Tabs \cup {"keeper", "free"}
    BY <1>0, <1>4 DEF Storage!FilesSound, Storage!TypeOK
  <2> QED
    BY <1>0, <2>2, <2>3, <2>4 DEF Storage!FilesSound, Storage!TypeOK
<1>6. Storage!RowsHaveFiles'
  BY <1>0 DEF Storage!FilesSound, Storage!RowsHaveFiles
<1>7. Storage!LockHeld'
  BY <1>0, <1>1, <1>2, <1>3, <1>4 DEF Storage!LockHeld, Storage!Working
<1>8. Storage!Unborn' \subseteq {x2 + 1}
  BY <1>1, <1>2, <1>3 DEF Storage!Unborn
<1>9. Storage!ReleasedIsLoose'
  BY <1>0, <1>1, <1>2, <1>3, <1>4, <1>8 DEF Storage!FilesSound, Storage!ReleasedIsLoose, Storage!Loose
<1> QED
  BY <1>5, <1>6, <1>7, <1>9 DEF Storage!FilesSound

\* execute_retention_batch: what it releases were rows, and are no more.
LEMMA DeleteBatchSound ==
  ASSUME Storage!FilesSound, Storage!DeleteBatch
  PROVE  Storage!FilesSound'
<1>0. x8.at = "batch" /\ x6 = "keeper" /\ UNCHANGED <<x1, x2, x5, x7, x9>>
  BY DEF Storage!DeleteBatch, Storage!FilesSound, Storage!LockHeld
<1>1. ASSUME NEW batch, x4' = {r \in x4 : r.id \notin batch}, x6' = x6,
             x8' = [x8 EXCEPT !.at = "release", !.plan = @ \ batch,
                              !.released = batch \cap Storage!Ids(x4)]
      PROVE  Storage!FilesSound'
  <2> DEFINE gone == batch \cap Storage!Ids(x4)
  <2>1. gone \subseteq 1..x2 /\ gone \cap Storage!Ids(x4)' = {} /\ Storage!Ids(x4)' \subseteq Storage!Ids(x4)
    BY <1>1 DEF Storage!Ids, Storage!FilesSound, Storage!TypeOK, Storage!Writers
  <2>2. x8' = [at |-> "release", opening |-> x8.opening, plan |-> x8.plan \ batch, released |-> gone]
    BY <1>1 DEF Storage!FilesSound, Storage!TypeOK, Storage!Writers
  <2> HIDE DEF gone
  <2>3. Storage!TypeOK' /\ Storage!RowsHaveFiles'
    BY <1>0, <1>1, <2>2 DEF Storage!FilesSound, Storage!TypeOK, Storage!Writers, Storage!RowsHaveFiles
  <2>4. Storage!LockHeld'
    BY <1>0, <1>1, <2>1, <2>2 DEF Storage!FilesSound, Storage!LockHeld, Storage!Working
  <2>5. Storage!Unborn' = {}
    BY <1>0, StorageAssumption DEF Storage!FilesSound, Storage!TypeOK, Storage!Writers, Storage!LockHeld,
       Storage!Working, Storage!Unborn
  <2>6. Storage!ReleasedIsLoose'
    BY <1>0, <2>1, <2>2, <2>5 DEF Storage!FilesSound, Storage!ReleasedIsLoose, Storage!Loose
  <2> QED
    BY <2>3, <2>4, <2>6 DEF Storage!FilesSound
<1>2. CASE Storage!GivesUp /\ x4' = x4
  <2>1. \E place \in {"idle", "closed"} :
          x8' = [at |-> place, opening |-> x8.opening, plan |-> x8.plan, released |-> x8.released]
    BY <1>2 DEF Storage!GivesUp, Storage!KeeperAt, Storage!FilesSound, Storage!TypeOK, Storage!Writers
  <2> QED
    BY <1>0, <1>2, <2>1, StorageAssumption
       DEF Storage!GivesUp, Storage!FilesSound, Storage!TypeOK, Storage!Writers, Storage!RowsHaveFiles, Storage!LockHeld,
           Storage!Working, Storage!ReleasedIsLoose, Storage!Loose, Storage!Unborn
<1> QED
  BY <1>1, <1>2 DEF Storage!DeleteBatch, Storage!Without
\* The keeper goes on with the lock, or gives it up and is done.
LEMMA KeeperGoesOn ==
  ASSUME Storage!FilesSound, x8.at \notin {"idle", "closed"}, NEW place, NEW plan,
         place # "release",
         x8' = [at |-> place, opening |-> x8.opening, plan |-> plan, released |-> x8.released],
         \/ x6' = x6
         \/ x6' = "free" /\ place \in {"idle", "closed"},
         x9' \in [1..MaxDay -> {"none", "good", "bad"}],
         UNCHANGED <<x1, x2, x4, x5, x7>>
  PROVE  Storage!FilesSound'
<1>1. x6 = "keeper" /\ \A t \in Tabs : ~Storage!Working(t)
  BY StorageAssumption DEF Storage!FilesSound, Storage!TypeOK, Storage!LockHeld
<1>2. Storage!TypeOK' /\ Storage!RowsHaveFiles'
  BY DEF Storage!FilesSound, Storage!TypeOK, Storage!Writers, Storage!RowsHaveFiles
<1>3. Storage!LockHeld'
  BY <1>1 DEF Storage!FilesSound, Storage!LockHeld, Storage!Working, Storage!Ids
<1>4. Storage!ReleasedIsLoose'
  BY DEF Storage!FilesSound, Storage!ReleasedIsLoose, Storage!Loose, Storage!Ids, Storage!Unborn
<1> QED
  BY <1>2, <1>3, <1>4 DEF Storage!FilesSound

\* The keeper's steps on its way to the batches.
LEMMA KeeperStepsSound ==
  ASSUME Storage!FilesSound,
         \/ Storage!Tidy \/ Storage!CheckExisting \/ Storage!CopyDatabase \/ Storage!PublishSnapshot
         \/ Storage!Rotate \/ Storage!Plan \/ Storage!MaintainEnds
  PROVE  Storage!FilesSound'
<1> DEFINE at(place, plan) == [at |-> place, opening |-> x8.opening, plan |-> plan, released |-> x8.released]
<1>1. \A place : [x8 EXCEPT !.at = place] = at(place, x8.plan)
  BY DEF Storage!FilesSound, Storage!TypeOK
<1>2. x9' \in [1..MaxDay -> {"none", "good", "bad"}]
  BY DEF Storage!Tidy, Storage!CheckExisting, Storage!CopyDatabase, Storage!PublishSnapshot,
     Storage!Rotate,
         Storage!Plan, Storage!MaintainEnds, Storage!FilesSound, Storage!TypeOK
<1>3. UNCHANGED <<x1, x2, x4, x5, x7>> /\ x8.at \notin {"idle", "closed"}
  BY DEF Storage!Tidy, Storage!CheckExisting, Storage!CopyDatabase, Storage!PublishSnapshot,
     Storage!Rotate,
         Storage!Plan, Storage!MaintainEnds
<1>4. CASE Storage!Plan
  <2>1. \E plan : x8' = [x8 EXCEPT !.at = "batch", !.plan = plan]
    BY <1>4 DEF Storage!Plan
  <2>2. \E plan : x8' = at("batch", plan)
    BY <2>1 DEF Storage!FilesSound, Storage!TypeOK
  <2> QED
    BY <1>2, <1>3, <1>4, <2>2, KeeperGoesOn DEF Storage!Plan
<1>5. CASE ~Storage!Plan
  <2>1. \E place \in {"check", "copy", "publish", "rotate", "plan", "idle", "closed"} :
          /\ x8' = [x8 EXCEPT !.at = place] \/ (x8' = x8 /\ place = x8.at)
          /\ x6' = x6 \/ (x6' = "free" /\ place \in {"idle", "closed"})
    BY <1>5 DEF Storage!Tidy, Storage!CheckExisting, Storage!CopyDatabase, Storage!PublishSnapshot,
       Storage!Rotate,
         Storage!MaintainEnds, Storage!GivesUp, Storage!KeeperAt
  <2>2. x8 = at(x8.at, x8.plan)
    BY DEF Storage!FilesSound, Storage!TypeOK
  <2> HIDE DEF at
  <2>3. \E place \in {"check", "copy", "publish", "rotate", "plan", "idle", "closed"} :
          /\ x8' = at(place, x8.plan)
          /\ x6' = x6 \/ (x6' = "free" /\ place \in {"idle", "closed"})
    BY <1>1, <2>1, <2>2
  <2> QED
    BY <1>2, <1>3, <2>3, KeeperGoesOn DEF at
<1> QED
  BY <1>4, <1>5

\* upsert_raw_protocol_capture.
LEMMA StoreCaptureSound ==
  ASSUME Storage!FilesSound, NEW n \in SegmentSizes, Storage!StoreCapture(n)
  PROVE  Storage!FilesSound'
<1> DEFINE row == [id |-> x2 + 1, owner |-> "raw", bytes |-> n, day |-> x1]
<1>0. /\ x6 = "free" /\ x2' = x2 + 1 /\ x4' = x4 \cup {row} /\ UNCHANGED <<x1, x5, x6, x7, x8, x9>>
      /\ x2' \in 0..MaxRows
  BY StorageAssumption DEF Storage!StoreCapture, Storage!FilesSound, Storage!TypeOK
<1>1. \A t \in Tabs : ~Storage!Working(t)
  BY <1>0, StorageAssumption DEF Storage!FilesSound, Storage!TypeOK, Storage!LockHeld
<1>2. /\ row \in [id : 1..x2', owner : Tabs \cup {"raw"}, bytes : SegmentSizes, day : 1..MaxDay]
      /\ row.id = x2 + 1 /\ row.owner \notin Tabs
  BY <1>0, StorageAssumption DEF Storage!FilesSound, Storage!TypeOK
<1> HIDE DEF row
<1>3. 1..x2 \subseteq 1..x2' /\ 0..x2 \subseteq 0..x2' /\ x2' \in Nat /\ x2 + 1 \notin 1..x2
  BY <1>0 DEF Storage!FilesSound, Storage!TypeOK
<1>4. Storage!TypeOK'
  <2>1. \A t \in Tabs : x7[t] \in Storage!Writers'
    BY <1>3 DEF Storage!FilesSound, Storage!TypeOK, Storage!Writers
  <2>2. x7' \in [Tabs -> Storage!Writers']
    BY <1>0, <2>1 DEF Storage!FilesSound, Storage!TypeOK
  <2> QED
    BY <1>0, <1>2, <1>3, <2>2 DEF Storage!FilesSound, Storage!TypeOK
<1>5. Storage!RowsHaveFiles'
  BY <1>0, <1>2 DEF Storage!FilesSound, Storage!RowsHaveFiles
<1>6. Storage!LockHeld'
  BY <1>0, <1>1 DEF Storage!FilesSound, Storage!LockHeld, Storage!Working
<1>7. Storage!Unborn' = {} /\ Storage!Ids(x4)' \subseteq Storage!Ids(x4) \cup {x2 + 1}
  BY <1>0, <1>1, <1>2 DEF Storage!Unborn, Storage!Working, Storage!Ids
<1>8. Storage!ReleasedIsLoose'
  BY <1>0, <1>3, <1>7 DEF Storage!FilesSound, Storage!ReleasedIsLoose, Storage!Loose
<1> QED
  BY <1>4, <1>5, <1>6, <1>8 DEF Storage!FilesSound

\* remove_released_files of a retention batch.
LEMMA RemoveReleasedSound ==
  ASSUME Storage!FilesSound, Storage!RemoveReleased
  PROVE  Storage!FilesSound'
<1>0. /\ x8.at = "release" /\ x6 = "keeper" /\ UNCHANGED <<x1, x2, x4, x7, x9>>
      /\ \A t \in Tabs : ~Storage!Working(t)
  BY StorageAssumption DEF Storage!RemoveReleased, Storage!FilesSound, Storage!TypeOK, Storage!LockHeld
<1>1. \A place : [x8 EXCEPT !.at = place]
                   = [at |-> place, opening |-> x8.opening, plan |-> x8.plan, released |-> x8.released]
  BY DEF Storage!FilesSound, Storage!TypeOK
<1>2. CASE \/ Storage!KeeperAt("batch") /\ x5' = x5 /\ x6' = x6
           \/ Storage!GivesUp /\ x5' = x5
  <2>1. \E place \in {"batch", "idle", "closed"} :
          /\ x8' = [at |-> place, opening |-> x8.opening, plan |-> x8.plan, released |-> x8.released]
          /\ x6' = x6 \/ (x6' = "free" /\ place \in {"idle", "closed"})
    BY <1>1, <1>2 DEF Storage!KeeperAt, Storage!GivesUp
  <2>2. x9' \in [1..MaxDay -> {"none", "good", "bad"}]
    BY <1>0 DEF Storage!FilesSound, Storage!TypeOK
  <2> QED
    BY <1>0, <1>2, <2>1, <2>2, KeeperGoesOn
<1>3. ASSUME NEW f \in x8.released, x5' = x5 \ {f}, x6' = x6, x8' = [x8 EXCEPT !.released = @ \ {f}]
      PROVE  Storage!FilesSound'
  <2>1. x8' = [at |-> "release", opening |-> x8.opening, plan |-> x8.plan, released |-> x8.released \ {f}]
    BY <1>0, <1>3 DEF Storage!FilesSound, Storage!TypeOK
  <2>2. f \notin Storage!Ids(x4)
    BY <1>0 DEF Storage!FilesSound, Storage!ReleasedIsLoose, Storage!Loose
  <2>3. Storage!TypeOK'
    BY <1>0, <1>3, <2>1 DEF Storage!FilesSound, Storage!TypeOK, Storage!Writers
  <2>4. Storage!RowsHaveFiles'
    BY <1>0, <1>3, <2>2 DEF Storage!FilesSound, Storage!RowsHaveFiles, Storage!Ids
  <2>5. Storage!LockHeld'
    BY <1>0, <1>3 DEF Storage!LockHeld, Storage!Working
  <2>6. Storage!ReleasedIsLoose'
    BY <1>0, <2>1 DEF Storage!FilesSound, Storage!ReleasedIsLoose, Storage!Loose, Storage!Unborn
  <2> QED
    BY <2>3, <2>4, <2>5, <2>6 DEF Storage!FilesSound
<1> QED
  BY <1>2, <1>3 DEF Storage!RemoveReleased

\* Maintenance begins, and the daemon starts again after a crash.
LEMMA KeeperStartsSound ==
  ASSUME Storage!FilesSound, Storage!MaintainBegins \/ Storage!Crash
  PROVE  Storage!FilesSound'
<1>1. /\ x6' = "keeper" /\ UNCHANGED <<x1, x2, x4, x5, x9>>
      /\ \E opening : x8' = [at |-> "tidy", opening |-> opening, plan |-> {}, released |-> {}]
  BY DEF Storage!MaintainBegins, Storage!Crash, Storage!Startup
<1>2. /\ x7' \in [Tabs -> Storage!Writers] /\ \A t \in Tabs : x7'[t].at \in {"idle", "releasing"}
      /\ \A t \in Tabs : x7'[t].at = "releasing" => x7'[t] = x7[t]
  <2>1. CASE Storage!MaintainBegins
    BY <2>1, StorageAssumption
       DEF Storage!MaintainBegins, Storage!FilesSound, Storage!TypeOK, Storage!LockHeld, Storage!Working, Storage!Writers
  <2>2. CASE Storage!Crash
    BY <2>2 DEF Storage!Crash, Storage!Quiet, Storage!FilesSound, Storage!TypeOK, Storage!Writers
  <2> QED
    BY <2>1, <2>2
<1>3. Storage!TypeOK' /\ Storage!RowsHaveFiles'
  BY <1>1, <1>2 DEF Storage!FilesSound, Storage!TypeOK, Storage!Writers, Storage!RowsHaveFiles
<1>4. Storage!LockHeld'
  BY <1>1, <1>2 DEF Storage!LockHeld, Storage!Working
<1>5. Storage!Unborn' = {}
  BY <1>2 DEF Storage!Unborn
<1>6. Storage!ReleasedIsLoose'
  BY <1>1, <1>2, <1>5 DEF Storage!FilesSound, Storage!ReleasedIsLoose, Storage!Loose
<1> QED
  BY <1>3, <1>4, <1>6 DEF Storage!FilesSound

\* The world moves: neither rows nor files are concerned.
LEMMA WorldSound ==
  ASSUME Storage!FilesSound, Storage!DayPasses \/ \E d \in 1..MaxDay : Storage!Damage(d)
  PROVE  Storage!FilesSound'
<1>1. UNCHANGED <<x2, x4, x5, x6, x7, x8>> /\ x1' \in 1..MaxDay /\ x9' \in [1..MaxDay -> {"none", "good", "bad"}]
  <2>1. CASE Storage!DayPasses
    BY <2>1, StorageAssumption DEF Storage!DayPasses, Storage!storeVars, Storage!FilesSound, Storage!TypeOK
  <2>2. ASSUME NEW d \in 1..MaxDay, Storage!Damage(d)
        PROVE  /\ UNCHANGED <<x1, x2, x4, x5, x6, x7, x8>>
               /\ x9' \in [1..MaxDay -> {"none", "good", "bad"}]
    BY <2>2 DEF Storage!Damage, Storage!FilesSound, Storage!TypeOK
  <2>3. x1 \in 1..MaxDay
    BY DEF Storage!FilesSound, Storage!TypeOK
  <2> QED
    BY <2>1, <2>2, <2>3
<1> QED
  BY <1>1 DEF Storage!FilesSound, Storage!TypeOK, Storage!Writers, Storage!RowsHaveFiles,
     Storage!LockHeld,
     Storage!Working, Storage!ReleasedIsLoose, Storage!Loose, Storage!Unborn

\* A set of days that is not empty has a last one.
LEMMA LastDay ==
  ASSUME MaxDay \in Nat, NEW S \in SUBSET (1..MaxDay), S # {}
  PROVE  \E d \in S : \A e \in S : d >= e
<1> DEFINE T == {MaxDay - d : d \in S}
<1>1. T \subseteq Nat /\ T # {}
  <2>1. \A d \in S : MaxDay - d \in Nat
    OBVIOUS
  <2> QED
    BY <2>1
<1>2. PICK n \in T : \A m \in T : ~(<<m, n>> \in OpToRel(<, Nat))
  BY <1>1, WFMin, NatLessThanWellFounded
<1>3. \A m \in T : ~(m < n)
  BY <1>1, <1>2 DEF OpToRel
<1>4. PICK d \in S : n = MaxDay - d
  BY <1>2
<1>5. \A e \in S : ~(MaxDay - e < MaxDay - d)
  BY <1>3, <1>4
<1> QED
  BY <1>5

\* rotate is the only step that removes a snapshot, and it removes the newest
\* that is good and has enough newer good ones.
LEMMA SnapshotsKept ==
  ASSUME Storage!FilesSound, Storage!Next
  PROVE  Storage!SnapshotStep
<1>1. SUFFICES ASSUME NEW d \in 1..MaxDay, x9[d] # "none", x9'[d] = "none"
               PROVE  /\ x9[d] = "good"
                      /\ Storage!Cardinality({e \in Storage!Newer(d) : x9'[e] = "good"}) >= DailySnapshots
  BY DEF Storage!SnapshotStep
<1>2. /\ Storage!Rotate /\ Storage!Surplus # {}
      /\ x9' = [x9 EXCEPT ![Storage!Max(Storage!Surplus)] = "none"]
  <2>1. Storage!PublishSnapshot => x9'[d] # "none"
    BY <1>1 DEF Storage!PublishSnapshot, Storage!FilesSound, Storage!TypeOK
  <2>2. \A e \in 1..MaxDay : Storage!Damage(e) => x9'[d] # "none"
    BY <1>1 DEF Storage!Damage, Storage!FilesSound, Storage!TypeOK
  <2>3. x9' # x9
    BY <1>1
  <2>4. Storage!Rotate
    BY <1>1, <2>1, <2>2, <2>3
       DEF Storage!Next, Storage!PersistBegins, Storage!WriteSegment, Storage!AppendRow, Storage!PruneRows,
           Storage!RemovePruned, Storage!StoreCapture, Storage!MaintainBegins, Storage!Tidy,
           Storage!CheckExisting, Storage!CopyDatabase, Storage!Plan, Storage!DeleteBatch,
           Storage!RemoveReleased, Storage!MaintainEnds, Storage!Crash, Storage!DayPasses, Storage!storeVars
  <2> QED
    BY <2>3, <2>4 DEF Storage!Rotate
<1>3. Storage!Surplus \subseteq 1..MaxDay
  BY DEF Storage!Surplus, Storage!Verified, Storage!FilesSound, Storage!TypeOK
<1>4. Storage!Max(Storage!Surplus) \in Storage!Surplus
  <2>1. \E e \in Storage!Surplus : \A f \in Storage!Surplus : e >= f
    BY <1>2, <1>3, LastDay, StorageAssumption
  <2> QED
    BY <2>1 DEF Storage!Max
<1>5. d = Storage!Max(Storage!Surplus)
  BY <1>1, <1>2, <1>3, <1>4 DEF Storage!FilesSound, Storage!TypeOK
<1>6. d \in Storage!Verified /\ Storage!Cardinality(Storage!Newer(d)) >= DailySnapshots
  BY <1>4, <1>5 DEF Storage!Surplus
<1>7. {e \in Storage!Newer(d) : x9'[e] = "good"} = Storage!Newer(d)
  <2>1. \A e \in Storage!Newer(d) : e \in 1..MaxDay /\ e > d /\ x9[e] = "good"
    BY DEF Storage!Newer, Storage!Verified, Storage!FilesSound, Storage!TypeOK
  <2>2. \A e \in Storage!Newer(d) : x9'[e] = "good"
    BY <1>2, <1>5, <2>1 DEF Storage!FilesSound, Storage!TypeOK
  <2> QED
    BY <2>2
<1> QED
  BY <1>6, <1>7 DEF Storage!Verified

\* A set of rows, each with its own id.
AreRows(group) ==
  /\ \A r \in group : r.id \in 1..MaxRows /\ r.bytes \in Nat
  /\ \A r, s \in group : r.id = s.id => r = s

LEMMA BytesOfRow ==
  ASSUME NEW group, AreRows(group), NEW id
  PROVE  /\ Storage!BytesOf(group, id) \in Nat
         /\ id \notin Storage!Ids(group) => Storage!BytesOf(group, id) = 0
         /\ \A r \in group : r.id = id => Storage!BytesOf(group, id) = r.bytes
<1>1. CASE id \notin Storage!Ids(group)
  BY <1>1 DEF Storage!BytesOf, Storage!Ids
<1>2. CASE id \in Storage!Ids(group)
  <2>1. PICK r \in group : r.id = id
    BY <1>2 DEF Storage!Ids
  <2>2. (CHOOSE s \in group : s.id = id) = r
    BY <2>1 DEF AreRows
  <2> QED
    BY <1>2, <2>1, <2>2 DEF Storage!BytesOf, AreRows
<1> QED
  BY <1>1, <1>2

\* The sums of the rows up to an id.
Totals(group, n) ==
  CHOOSE g : g = [id \in 0..n |-> IF id = 0 THEN 0 ELSE g[id - 1] + Storage!BytesOf(group, id)]

LEMMA TotalsExist ==
  ASSUME NEW group
  PROVE  \A n \in Nat :
           \E g : g = [id \in 0..n |-> IF id = 0 THEN 0 ELSE g[id - 1] + Storage!BytesOf(group, id)]
<1> DEFINE T(g, n) == g = [id \in 0..n |-> IF id = 0 THEN 0 ELSE g[id - 1] + Storage!BytesOf(group, id)]
           S == {n \in Nat : \E g : T(g, n)}
<1>1. 0 \in S
  <2> DEFINE g == [id \in 0..0 |-> 0]
  <2>1. g = [id \in 0..0 |-> IF id = 0 THEN 0 ELSE g[id - 1] + Storage!BytesOf(group, id)]
    OBVIOUS
  <2>2. T(g, 0)
    BY <2>1
  <2> QED
    BY <2>2
<1>2. ASSUME NEW n \in S PROVE n + 1 \in S
  <2>0. n \in Nat
    OBVIOUS
  <2>1. PICK f : T(f, n)
    OBVIOUS
  <2> DEFINE g == [id \in 0..n + 1 |-> IF id = n + 1 THEN f[n] + Storage!BytesOf(group, n + 1) ELSE f[id]]
  <2>2. ASSUME NEW id \in 0..n + 1
        PROVE  g[id] = IF id = 0 THEN 0 ELSE g[id - 1] + Storage!BytesOf(group, id)
    <3>1. CASE id = n + 1
      BY <3>1
    <3>2. CASE id \in 0..n
      <4>1. g[id] = f[id] /\ (id # 0 => g[id - 1] = f[id - 1])
        BY <2>0, <3>2
      <4>2. f[id] = IF id = 0 THEN 0 ELSE f[id - 1] + Storage!BytesOf(group, id)
        BY <2>1, <3>2
      <4> HIDE DEF g
      <4> QED
        BY <4>1, <4>2
    <3> QED
      BY <3>1, <3>2
  <2>3. T(g, n + 1)
    BY <2>2
  <2> HIDE DEF T, g
  <2> QED
    BY <2>3
<1>3. S = Nat
  <2> HIDE DEF S
  <2> QED
    BY <1>1, <1>2, FromZero DEF S
<1> QED
  BY <1>3

LEMMA TotalsAddUp ==
  ASSUME NEW group, AreRows(group)
  PROVE  /\ Totals(group, MaxRows)[0] = 0
         /\ \A id \in 1..MaxRows : Totals(group, MaxRows)[id]
               = Totals(group, MaxRows)[id - 1] + Storage!BytesOf(group, id)
         /\ \A id \in 0..MaxRows : Totals(group, MaxRows)[id] \in Nat
         /\ Storage!Sum(group) = Totals(group, MaxRows)[MaxRows]
         /\ Storage!Sum(group) \in Nat
<1> DEFINE g == Totals(group, MaxRows)
<1>0. MaxRows \in Nat
  BY StorageAssumption
<1>1. g = [id \in 0..MaxRows |-> IF id = 0 THEN 0 ELSE g[id - 1] + Storage!BytesOf(group, id)]
  BY <1>0, TotalsExist DEF Totals
<1>2. Storage!Sum(group) = g[MaxRows]
  BY DEF Storage!Sum, Totals
<1> HIDE DEF g
<1>3. g[0] = 0 /\ \A id \in 1..MaxRows : g[id] = g[id - 1] + Storage!BytesOf(group, id)
  BY <1>0, <1>1
<1> DEFINE S == {n \in Nat : n <= MaxRows => g[n] \in Nat}
<1>4. 0 \in S
  BY <1>3
<1>5. ASSUME NEW n \in S PROVE n + 1 \in S
  <2>1. CASE n + 1 <= MaxRows
    <3>1. n + 1 \in 1..MaxRows /\ (n + 1) - 1 = n /\ n \in Nat /\ n <= MaxRows
      BY <1>0, <2>1
    <3>2. g[n + 1] = g[n] + Storage!BytesOf(group, n + 1) /\ g[n] \in Nat
      BY <1>3, <3>1
    <3> QED
      BY <3>1, <3>2, BytesOfRow
  <2>2. CASE ~(n + 1 <= MaxRows)
    BY <2>2
  <2> QED
    BY <2>1, <2>2
<1>6. S = Nat
  <2> HIDE DEF S
  <2> QED
    BY <1>4, <1>5, FromZero DEF S
<1>7. \A id \in 0..MaxRows : g[id] \in Nat
  BY <1>0, <1>6
<1> QED
  BY <1>0, <1>2, <1>3, <1>7 DEF g

LEMMA SumOfNone == Storage!Sum({}) = 0
<1> DEFINE g == Totals({}, MaxRows)
           S == {n \in Nat : n <= MaxRows => g[n] = 0}
<1>0. AreRows({}) /\ MaxRows \in Nat /\ \A id : Storage!BytesOf({}, id) = 0
  BY StorageAssumption DEF AreRows, Storage!BytesOf, Storage!Ids
<1> HIDE DEF g
<1>1. g[0] = 0 /\ \A id \in 1..MaxRows : g[id] = g[id - 1] + 0
  BY <1>0, TotalsAddUp DEF g
<1>2. 0 \in S /\ \A n \in S : n + 1 \in S
  <2>1. ASSUME NEW n \in S, n + 1 <= MaxRows PROVE g[n + 1] = 0
    <3>1. n + 1 \in 1..MaxRows /\ (n + 1) - 1 = n /\ n <= MaxRows
      BY <1>0, <2>1
    <3> QED
      BY <1>1, <3>1
  <2> QED
    BY <1>1, <2>1
<1>3. S = Nat
  <2> HIDE DEF S
  <2> QED
    BY <1>2, FromZero DEF S
<1> QED
  BY <1>0, <1>3, TotalsAddUp DEF g

\* More rows have no fewer bytes.
LEMMA SumOfMore ==
  ASSUME NEW more, AreRows(more), NEW group \in SUBSET more
  PROVE  Storage!Sum(group) <= Storage!Sum(more)
<1> DEFINE f == Totals(group, MaxRows)
           g == Totals(more, MaxRows)
           S == {n \in Nat : n <= MaxRows => f[n] <= g[n]}
<1>0. MaxRows \in Nat /\ AreRows(group)
  BY StorageAssumption DEF AreRows
<1>1. \A id : /\ Storage!BytesOf(group, id) <= Storage!BytesOf(more, id)
              /\ Storage!BytesOf(group, id) \in Nat /\ Storage!BytesOf(more, id) \in Nat
  <2> TAKE id
  <2>0. Storage!BytesOf(group, id) \in Nat /\ Storage!BytesOf(more, id) \in Nat
    BY <1>0, BytesOfRow
  <2>1. CASE id \notin Storage!Ids(group)
    BY <1>0, <2>0, <2>1, BytesOfRow
  <2>2. CASE id \in Storage!Ids(group)
    <3>1. PICK r \in group : r.id = id
      BY <2>2 DEF Storage!Ids
    <3>2. r \in more
      OBVIOUS
    <3>3. Storage!BytesOf(group, id) = r.bytes /\ Storage!BytesOf(more, id) = r.bytes
      BY <1>0, <3>1, <3>2, BytesOfRow
    <3> QED
      BY <2>0, <3>3
  <2> QED
    BY <2>1, <2>2
<1> HIDE DEF f, g
<1>2. /\ f[0] = 0 /\ g[0] = 0
      /\ \A id \in 1..MaxRows : /\ f[id] = f[id - 1] + Storage!BytesOf(group, id)
                                /\ g[id] = g[id - 1] + Storage!BytesOf(more, id)
      /\ \A id \in 0..MaxRows : f[id] \in Nat /\ g[id] \in Nat
  BY <1>0, TotalsAddUp DEF f, g
<1>3. 0 \in S /\ \A n \in S : n + 1 \in S
  <2>1. ASSUME NEW n \in S, n + 1 <= MaxRows PROVE f[n + 1] <= g[n + 1]
    <3>1. n + 1 \in 1..MaxRows /\ (n + 1) - 1 = n /\ n \in 0..MaxRows /\ f[n] <= g[n]
      BY <1>0, <2>1
    <3>2. f[n] \in Nat /\ g[n] \in Nat
      BY <1>2, <3>1
    <3>3. f[n + 1] = f[n] + Storage!BytesOf(group, n + 1) /\ g[n + 1] = g[n] + Storage!BytesOf(more, n + 1)
      BY <1>2, <3>1
    <3> QED
      BY <1>1, <3>1, <3>2, <3>3
  <2> QED
    BY <1>2, <2>1
<1>4. S = Nat
  <2> HIDE DEF S
  <2> QED
    BY <1>3, FromZero DEF S
<1> QED
  BY <1>0, <1>4, TotalsAddUp DEF f, g

\* One more row adds its bytes.
LEMMA SumOfOneMore ==
  ASSUME NEW group, NEW r, AreRows(group \cup {r}), r \notin group
  PROVE  Storage!Sum(group \cup {r}) = Storage!Sum(group) + r.bytes
<1> DEFINE more == group \cup {r}
           f == Totals(group, MaxRows)
           g == Totals(more, MaxRows)
           S == {n \in Nat : n <= MaxRows => g[n] = f[n] + (IF n < r.id THEN 0 ELSE r.bytes)}
<1>0. /\ MaxRows \in Nat /\ AreRows(group) /\ AreRows(more)
      /\ r.id \in 1..MaxRows /\ r.bytes \in Nat /\ r.id \notin Storage!Ids(group)
  BY StorageAssumption DEF AreRows, Storage!Ids
<1>1. ASSUME NEW id
      PROVE  /\ id # r.id => Storage!BytesOf(more, id) = Storage!BytesOf(group, id)
             /\ id = r.id => Storage!BytesOf(more, id) = r.bytes /\ Storage!BytesOf(group, id) = 0
             /\ Storage!BytesOf(group, id) \in Nat
  <2>0. Storage!BytesOf(group, id) \in Nat
    BY <1>0, BytesOfRow
  <2>1. CASE id = r.id
    BY <1>0, <2>0, <2>1, BytesOfRow
  <2>2. CASE id # r.id /\ id \notin Storage!Ids(group)
    <3>1. id \notin Storage!Ids(more)
      BY <2>2 DEF Storage!Ids
    <3> QED
      BY <1>0, <2>0, <2>2, <3>1, BytesOfRow
  <2>3. CASE id # r.id /\ id \in Storage!Ids(group)
    <3>1. PICK s \in group : s.id = id
      BY <2>3 DEF Storage!Ids
    <3>2. s \in more
      OBVIOUS
    <3> HIDE DEF more
    <3>3. Storage!BytesOf(group, id) = s.bytes /\ Storage!BytesOf(more, id) = s.bytes
      BY <1>0, <3>1, <3>2, BytesOfRow
    <3> QED
      BY <2>0, <2>3, <3>3
  <2> QED
    BY <2>1, <2>2, <2>3
<1> HIDE DEF f, g, more
<1>2. /\ f[0] = 0 /\ g[0] = 0
      /\ \A id \in 1..MaxRows : /\ f[id] = f[id - 1] + Storage!BytesOf(group, id)
                                /\ g[id] = g[id - 1] + Storage!BytesOf(more, id)
      /\ \A id \in 0..MaxRows : f[id] \in Nat /\ g[id] \in Nat
  BY <1>0, TotalsAddUp DEF f, g
<1>3. 0 \in S /\ \A n \in S : n + 1 \in S
  <2>1. ASSUME NEW n \in S, n + 1 <= MaxRows
        PROVE  g[n + 1] = f[n + 1] + (IF n + 1 < r.id THEN 0 ELSE r.bytes)
    <3>1. n + 1 \in 1..MaxRows /\ (n + 1) - 1 = n /\ n \in 0..MaxRows
      BY <1>0, <2>1
    <3>2. /\ f[n] \in Nat /\ g[n] \in Nat /\ f[n + 1] \in Nat
          /\ g[n] = f[n] + (IF n < r.id THEN 0 ELSE r.bytes)
      BY <1>2, <3>1
    <3>3. f[n + 1] = f[n] + Storage!BytesOf(group, n + 1) /\ g[n + 1] = g[n] + Storage!BytesOf(more, n + 1)
      BY <1>2, <3>1
    <3>4. CASE n + 1 = r.id
      BY <1>0, <1>1, <3>2, <3>3, <3>4
    <3>5. CASE n + 1 # r.id
      <4>1. n + 1 < r.id <=> n < r.id
        BY <1>0, <3>1, <3>5
      <4>2. Storage!BytesOf(more, n + 1) = Storage!BytesOf(group, n + 1) /\ Storage!BytesOf(group, n + 1) \in Nat
        BY <1>1, <3>5
      <4> QED
        BY <1>0, <3>2, <3>3, <4>1, <4>2
    <3> QED
      BY <3>4, <3>5
  <2>2. 0 \in S
    BY <1>0, <1>2
  <2> QED
    BY <2>1, <2>2
<1>4. S = Nat
  <2> HIDE DEF S
  <2> QED
    BY <1>3, FromZero DEF S
<1>5. g[MaxRows] = f[MaxRows] + r.bytes
  <2>1. MaxRows \in S /\ ~(MaxRows < r.id)
    BY <1>0, <1>4
  <2> QED
    BY <1>0, <2>1
<1> QED
  BY <1>0, <1>5, TotalsAddUp DEF f, g, more
\* Parts of the rows are rows.
LEMMA PartsAreRows ==
  ASSUME NEW more, AreRows(more), NEW group \in SUBSET more
  PROVE  AreRows(group)
BY DEF AreRows

\* The rows from an id on that prune_terminal_segments keeps.
KeptFrom(from, group, id) ==
  IF id = MaxRows + 1 THEN {}
  ELSE from[id + 1] \cup {r \in group : r.id = id /\ Storage!Fits(from[id + 1], r)}

LEMMA KeptExists ==
  ASSUME NEW group
  PROVE  \E g : g = [id \in 1..MaxRows + 1 |-> KeptFrom(g, group, id)]
<1> DEFINE K(g, n) == g = [id \in MaxRows + 1 - n..MaxRows + 1 |-> KeptFrom(g, group, id)]
           S == {n \in Nat : n <= MaxRows => \E g : K(g, n)}
<1>0. MaxRows \in Nat
  BY StorageAssumption
<1>1. 0 \in S
  <2> DEFINE g == [id \in MaxRows + 1 - 0..MaxRows + 1 |-> {}]
  <2>1. \A id \in MaxRows + 1 - 0..MaxRows + 1 : KeptFrom(g, group, id) = {}
    BY <1>0 DEF KeptFrom
  <2>2. K(g, 0)
    BY <2>1
  <2> HIDE DEF K, g
  <2> QED
    BY <2>2
<1>2. ASSUME NEW n \in S PROVE n + 1 \in S
  <2>0. n \in Nat
    OBVIOUS
  <2>1. SUFFICES ASSUME n + 1 <= MaxRows PROVE \E g : K(g, n + 1)
    BY <2>0
  <2>2. PICK f : K(f, n)
    BY <1>0, <2>0, <2>1
  <2> DEFINE last == MaxRows + 1 - (n + 1)
             g == [id \in last..MaxRows + 1 |-> IF id = last THEN KeptFrom(f, group, last) ELSE f[id]]
  <2>3. ASSUME NEW id \in last..MaxRows + 1 PROVE g[id] = KeptFrom(g, group, id)
    <3>1. ASSUME id # MaxRows + 1 PROVE g[id + 1] = f[id + 1]
      <4>1. id + 1 \in last..MaxRows + 1 /\ id + 1 # last
        BY <1>0, <2>0, <2>1, <3>1
      <4> HIDE DEF last
      <4> QED
        BY <4>1
    <3>2. KeptFrom(g, group, id) = KeptFrom(f, group, id)
      <4> HIDE DEF g
      <4> QED
        BY <3>1 DEF KeptFrom
    <3>3. CASE id = last
      BY <3>2, <3>3
    <3>4. CASE id # last
      <4>1. id \in MaxRows + 1 - n..MaxRows + 1
        BY <1>0, <2>0, <2>1, <3>4
      <4>2. f[id] = KeptFrom(f, group, id)
        BY <2>2, <4>1
      <4> QED
        BY <3>2, <3>4, <4>2
    <3> QED
      BY <3>3, <3>4
  <2>4. K(g, n + 1)
    BY <2>3
  <2> HIDE DEF K, g
  <2> QED
    BY <2>4
<1>3. S = Nat
  <2> HIDE DEF S
  <2> QED
    BY <1>1, <1>2, FromZero DEF S
<1>4. PICK g : K(g, MaxRows)
  <2>1. MaxRows \in S /\ MaxRows <= MaxRows
    <3> HIDE DEF S
    <3> QED
      BY <1>0, <1>3
  <2>2. ASSUME NEW n \in S PROVE n <= MaxRows => \E g : K(g, n)
    <3> HIDE DEF K
    <3> QED
      OBVIOUS
  <2> HIDE DEF S
  <2>3. MaxRows <= MaxRows => \E g : K(g, MaxRows)
    BY <2>1, <2>2
  <2> HIDE DEF K
  <2> QED
    BY <2>1, <2>3
<1> QED
  <2>1. MaxRows + 1 - MaxRows = 1
    BY <1>0
  <2> QED
    BY <1>4, <2>1

\* What a pruning keeps fits the budget.
LEMMA KeptFits ==
  ASSUME NEW group, AreRows(group)
  PROVE  /\ Storage!Kept(group) \subseteq group
         /\ Storage!Sum(Storage!Kept(group)) <= MaxBytes
<1> DEFINE from == CHOOSE g : g = [id \in 1..MaxRows + 1 |-> KeptFrom(g, group, id)]
           Good(set, id) == /\ set \subseteq group
                            /\ \A r \in set : r.id >= id
                            /\ Storage!Sum(set) <= MaxBytes
           S == {n \in Nat : n <= MaxRows => Good(from[MaxRows + 1 - n], MaxRows + 1 - n)}
<1>0. MaxRows \in Nat /\ MaxBytes \in Nat
  BY StorageAssumption
<1>1. from = [id \in 1..MaxRows + 1 |-> KeptFrom(from, group, id)]
  BY KeptExists
<1>2. Storage!Kept(group) = from[1]
  BY DEF Storage!Kept, KeptFrom
<1> HIDE DEF from
<1>3. 0 \in S
  <2>1. from[MaxRows + 1] = {}
    BY <1>0, <1>1 DEF KeptFrom
  <2>2. MaxRows + 1 - 0 = MaxRows + 1
    BY <1>0
  <2> QED
    BY <1>0, <2>1, <2>2, SumOfNone
<1>4. ASSUME NEW n \in S PROVE n + 1 \in S
  <2>0. n \in Nat
    OBVIOUS
  <2>1. SUFFICES ASSUME n + 1 <= MaxRows
                 PROVE  Good(from[MaxRows + 1 - (n + 1)], MaxRows + 1 - (n + 1))
    BY <2>0
  <2> DEFINE id == MaxRows + 1 - (n + 1)
             kept == from[id + 1]
             new == {r \in group : r.id = id /\ Storage!Fits(kept, r)}
  <2>2. id \in 1..MaxRows /\ id + 1 = MaxRows + 1 - n /\ id # MaxRows + 1
    BY <1>0, <2>0, <2>1
  <2>3. Good(kept, id + 1)
    <3>1. n <= MaxRows
      BY <1>0, <2>0, <2>1
    <3> QED
      BY <2>2, <3>1
  <2>4. from[id] = kept \cup new
    <3>1. id \in 1..MaxRows + 1
      BY <1>0, <2>2
    <3>2. from[id] = KeptFrom(from, group, id)
      BY <1>1, <3>1
    <3> HIDE DEF id
    <3> QED
      BY <2>2, <3>2 DEF KeptFrom
  <2>5. (kept \cup new) \subseteq group /\ \A r \in kept \cup new : r.id >= id
    <3>1. \A r \in kept : r \in group /\ r.id >= id + 1 /\ r.id \in Nat
      BY <2>3 DEF AreRows
    <3>2. \A r \in new : r \in group /\ r.id = id
      OBVIOUS
    <3> HIDE DEF new, kept
    <3> QED
      BY <2>2, <3>1, <3>2
  <2>6. Storage!Sum(kept \cup new) <= MaxBytes
    <3>1. CASE new = {}
      BY <2>3, <3>1
    <3>2. CASE new # {}
      <4>1. PICK r \in new : TRUE
        BY <3>2
      <4>2. r \in group /\ r.id = id /\ Storage!Sum(kept) + r.bytes <= MaxBytes
        BY DEF Storage!Fits
      <4>3. new = {r}
        BY <4>2 DEF AreRows
      <4>4. r \notin kept
        <5> SUFFICES ASSUME r \in kept PROVE FALSE
          OBVIOUS
        <5>1. r.id >= id + 1
          BY <2>3
        <5> QED
          BY <2>2, <4>2, <5>1
      <4> HIDE DEF kept
      <4>5. AreRows(kept \cup {r})
        BY <2>5, <4>3, PartsAreRows
      <4> QED
        BY <4>2, <4>3, <4>4, <4>5, SumOfOneMore
    <3> QED
      BY <3>1, <3>2
  <2> QED
    BY <2>4, <2>5, <2>6
<1>5. S = Nat
  <2> HIDE DEF S
  <2> QED
    BY <1>3, <1>4, FromZero DEF S
<1>6. MaxRows + 1 - MaxRows = 1 /\ MaxRows \in S
  BY <1>0, <1>5
<1> QED
  BY <1>0, <1>2, <1>6

\* When the rows over the budget are gone, the others are within it.
LEMMA RestInBudget ==
  ASSUME NEW group, AreRows(group)
  PROVE  Storage!Sum(group \ Storage!OverBudget(group)) <= MaxBytes
<1> DEFINE left == group \ Storage!OverBudget(group)
<1>0. MaxBytes \in Nat
  BY StorageAssumption
<1>1. CASE left = {}
  BY <1>0, <1>1, SumOfNone
<1>2. CASE left # {}
  <2> DEFINE T == {r.id : r \in left}
  <2>1. T \subseteq Nat /\ T # {}
    BY <1>2 DEF AreRows
  <2>2. PICK n \in T : \A m \in T : ~(m < n)
    BY <2>1, LeastLength
  <2>3. PICK r \in left : r.id = n
    BY <2>2
  <2>4. left \subseteq Storage!From(group, r)
    <3> SUFFICES ASSUME NEW s \in left PROVE s.id >= r.id
      BY DEF Storage!From
    <3>1. ~(s.id < n) /\ s.id \in Nat /\ n \in Nat
      BY <2>1, <2>2
    <3> QED
      BY <2>3, <3>1
  <2>5. Storage!From(group, r) \subseteq group
    BY DEF Storage!From
  <2>6. AreRows(Storage!From(group, r))
    BY <2>5, PartsAreRows
  <2>7. Storage!Sum(Storage!From(group, r)) \in Nat /\ ~(Storage!Sum(Storage!From(group, r)) > MaxBytes)
    <3>1. r \in group /\ r \notin Storage!OverBudget(group)
      OBVIOUS
    <3> QED
      BY <2>6, <3>1, TotalsAddUp DEF Storage!OverBudget
  <2>8. Storage!Sum(left) <= Storage!Sum(Storage!From(group, r))
    BY <2>4, <2>6, SumOfMore
  <2>9. Storage!Sum(left) \in Nat
    BY PartsAreRows, TotalsAddUp
  <2> HIDE DEF left
  <2> QED
    BY <1>0, <2>7, <2>8, <2>9 DEF left
<1> QED
  BY <1>1, <1>2
LEMMA RowsAreRows ==
  ASSUME Storage!TypeOK, Storage!IdsUnique
  PROVE  AreRows(x4)
BY StorageAssumption DEF Storage!TypeOK, Storage!IdsUnique, AreRows

\* A new row has an id that no row has had.
LEMMA IdsStayUnique ==
  ASSUME Storage!FilesSound, Storage!IdsUnique, Storage!Next
  PROVE  Storage!IdsUnique'
<1>1. ASSUME NEW row, row.id \notin Storage!Ids(x4), x4' = x4 \cup {row}
      PROVE  Storage!IdsUnique'
  BY <1>1 DEF Storage!IdsUnique, Storage!Ids
<1>2. ASSUME x4' \subseteq x4 PROVE Storage!IdsUnique'
  BY <1>2 DEF Storage!IdsUnique
<1>3. ASSUME NEW t \in Tabs, Storage!AppendRow(t) PROVE Storage!IdsUnique'
  <2> DEFINE row == [id |-> x7[t].id, owner |-> t, bytes |-> x7[t].bytes, day |-> x1]
  <2>1. row.id \notin Storage!Ids(x4)
    BY <1>3 DEF Storage!AppendRow, Storage!FilesSound, Storage!LockHeld
  <2>2. x4' = x4 \cup {row} \/ x4' = x4
    BY <1>3 DEF Storage!AppendRow
  <2> HIDE DEF row
  <2> QED
    BY <1>1, <1>2, <2>1, <2>2
<1>4. ASSUME NEW n \in SegmentSizes, Storage!StoreCapture(n) PROVE Storage!IdsUnique'
  <2> DEFINE row == [id |-> x2 + 1, owner |-> "raw", bytes |-> n, day |-> x1]
  <2>1. row.id \notin Storage!Ids(x4)
    BY DEF Storage!FilesSound, Storage!TypeOK, Storage!Ids
  <2>2. x4' = x4 \cup {row}
    BY <1>4 DEF Storage!StoreCapture
  <2> HIDE DEF row
  <2> QED
    BY <1>1, <2>1, <2>2
<1>5. \/ x4' \subseteq x4
      \/ \E t \in Tabs : Storage!AppendRow(t)
      \/ \E n \in SegmentSizes : Storage!StoreCapture(n)
  BY DEF Storage!Next, Storage!PersistBegins, Storage!WriteSegment, Storage!PruneRows,
         Storage!RemovePruned, Storage!MaintainBegins, Storage!Tidy,
         Storage!CheckExisting, Storage!CopyDatabase, Storage!PublishSnapshot, Storage!Rotate,
         Storage!Plan, Storage!DeleteBatch, Storage!RemoveReleased, Storage!MaintainEnds,
         Storage!Crash, Storage!Damage, Storage!DayPasses, Storage!storeVars, Storage!Without
<1> QED
  BY <1>2, <1>3, <1>4, <1>5

\* plan_retention: when the planned rows are gone, what is left is within the
\* limits.
LEMMA PlannedSuffices ==
  ASSUME Storage!TypeOK, Storage!IdsUnique
  PROVE  Storage!WithinLimits(Storage!Without(Storage!Planned))
<1> DEFINE old == {r \in x4 : Storage!TooOld(r)}
           left == Storage!Without(Storage!Planned)
<1>1. ASSUME NEW r \in left
      PROVE  /\ r \in x4 /\ ~Storage!TooOld(r)
             /\ \A o \in Tabs \cup {"raw"} : r \notin Storage!OverBudget(Storage!OwnedBy(o) \ old)
  BY DEF Storage!Without, Storage!Planned, Storage!Ids
<1>2. ASSUME NEW o \in Tabs \cup {"raw"}
      PROVE  Storage!Sum({r \in left : r.owner = o}) <= MaxBytes
  <2> DEFINE group == Storage!OwnedBy(o) \ old
             kept == group \ Storage!OverBudget(group)
  <2>1. group \subseteq x4
    BY DEF Storage!OwnedBy
  <2>2. AreRows(group) /\ AreRows(kept)
    BY <2>1, RowsAreRows, PartsAreRows
  <2>3. {r \in left : r.owner = o} \subseteq kept
    BY <1>1 DEF Storage!OwnedBy
  <2>4. Storage!Sum(kept) <= MaxBytes
    BY <2>2, RestInBudget
  <2>5. AreRows({r \in left : r.owner = o})
    <3> HIDE DEF left, kept
    <3> QED
      BY <2>2, <2>3, PartsAreRows
  <2> DEFINE mine == {r \in left : r.owner = o}
  <2>6. Storage!Sum(mine) \in Nat /\ Storage!Sum(kept) \in Nat /\ Storage!Sum(mine) <= Storage!Sum(kept)
    BY <2>2, <2>3, <2>5, TotalsAddUp, SumOfMore
  <2>7. MaxBytes \in Nat
    BY StorageAssumption
  <2> HIDE DEF mine, kept
  <2>8. Storage!Sum(mine) <= MaxBytes
    BY <2>4, <2>6, <2>7
  <2> QED
    BY <2>8 DEF mine
<1> QED
  BY <1>1, <1>2 DEF Storage!WithinLimits

\* While a plan is carried out nobody adds rows, and no row grows old.
LEMMA PlanStaysSufficient ==
  ASSUME Storage!IInv, Storage!Next
  PROVE  Storage!PlanSuffices'
<1>0. Storage!TypeOK /\ Storage!LockHeld /\ Storage!IdsUnique
  BY DEF Storage!IInv, Storage!FilesSound
<1>1. CASE UNCHANGED <<x1, x4, x8>>
  BY <1>1 DEF Storage!IInv, Storage!PlanSuffices, Storage!WithinLimits, Storage!Without, Storage!TooOld
<1>2. CASE x8'.at \notin {"batch", "release"}
  BY <1>2 DEF Storage!PlanSuffices
<1>3. CASE Storage!Plan
  <2>1. x8'.at = "batch" /\ x8'.plan = Storage!Planned /\ UNCHANGED <<x1, x4>>
    BY <1>0, <1>3 DEF Storage!Plan, Storage!TypeOK
  <2>2. Storage!Without(x8.plan)' = Storage!Without(Storage!Planned)
    BY <2>1 DEF Storage!Without
  <2>3. Storage!WithinLimits(Storage!Without(Storage!Planned))
    BY <1>0, PlannedSuffices
  <2> QED
    BY <2>1, <2>2, <2>3 DEF Storage!PlanSuffices, Storage!WithinLimits, Storage!TooOld
<1>4. CASE /\ Storage!DeleteBatch
           /\ x8' = [x8 EXCEPT !.at = "release", !.plan = @ \ Storage!BatchOf(x8.plan),
                               !.released = Storage!BatchOf(x8.plan) \cap Storage!Ids(x4)]
           /\ x4' = Storage!Without(Storage!BatchOf(x8.plan))
  <2> DEFINE batch == Storage!BatchOf(x8.plan)
  <2>1. batch \subseteq x8.plan
    BY DEF Storage!BatchOf
  <2>2. x8'.plan = x8.plan \ batch /\ x4' = {r \in x4 : r.id \notin batch} /\ x1' = x1
    BY <1>0, <1>4 DEF Storage!DeleteBatch, Storage!Without, Storage!TypeOK
  <2> HIDE DEF batch
  <2>3. Storage!Without(x8.plan)' = Storage!Without(x8.plan)
    BY <2>1, <2>2 DEF Storage!Without
  <2>4. Storage!WithinLimits(Storage!Without(x8.plan))
    BY <1>4 DEF Storage!DeleteBatch, Storage!IInv, Storage!PlanSuffices
  <2> QED
    BY <2>2, <2>3, <2>4 DEF Storage!PlanSuffices, Storage!WithinLimits, Storage!TooOld
<1>5. CASE /\ Storage!RemoveReleased
           /\ x8'.plan = x8.plan
  BY <1>5 DEF Storage!RemoveReleased, Storage!IInv, Storage!PlanSuffices, Storage!WithinLimits,
              Storage!Without, Storage!TooOld
<1>6. Storage!DeleteBatch => x8'.at \notin {"batch", "release"} \/
           /\ x8' = [x8 EXCEPT !.at = "release", !.plan = @ \ Storage!BatchOf(x8.plan),
                               !.released = Storage!BatchOf(x8.plan) \cap Storage!Ids(x4)]
           /\ x4' = Storage!Without(Storage!BatchOf(x8.plan))
  BY <1>0 DEF Storage!DeleteBatch, Storage!GivesUp, Storage!KeeperAt, Storage!TypeOK
<1>7. Storage!RemoveReleased => x8'.plan = x8.plan
  BY <1>0 DEF Storage!RemoveReleased, Storage!GivesUp, Storage!KeeperAt, Storage!TypeOK
<1>8. ASSUME NEW t \in Tabs,
             \/ \E n \in SegmentSizes : Storage!PersistBegins(t, n)
             \/ Storage!WriteSegment(t) \/ Storage!AppendRow(t) \/ Storage!PruneRows(t)
             \/ Storage!RemovePruned(t)
      PROVE  x8'.at \notin {"batch", "release"} \/ UNCHANGED <<x1, x4, x8>>
  <2>1. CASE Storage!RemovePruned(t)
    BY <2>1 DEF Storage!RemovePruned
  <2>2. CASE \E n \in SegmentSizes : Storage!PersistBegins(t, n)
    BY <1>0, <2>2 DEF Storage!PersistBegins, Storage!LockHeld
  <2>3. CASE Storage!WriteSegment(t) \/ Storage!AppendRow(t) \/ Storage!PruneRows(t)
    <3>1. Storage!Working(t) /\ x8' = x8
      BY <2>3 DEF Storage!WriteSegment, Storage!AppendRow, Storage!PruneRows, Storage!Working
    <3>2. x6 = t /\ t # "keeper"
      BY <1>0, <3>1, StorageAssumption DEF Storage!LockHeld
    <3> QED
      BY <1>0, <3>1, <3>2 DEF Storage!LockHeld
  <2> QED
    BY <1>8, <2>1, <2>2, <2>3
<1>9. ASSUME \/ \E n \in SegmentSizes : Storage!StoreCapture(n)
             \/ Storage!DayPasses
      PROVE  x8'.at \notin {"batch", "release"}
  BY <1>0, <1>9 DEF Storage!StoreCapture, Storage!DayPasses, Storage!storeVars, Storage!LockHeld
<1>10. ASSUME \/ Storage!MaintainBegins \/ Storage!Tidy \/ Storage!CheckExisting
              \/ Storage!CopyDatabase \/ Storage!PublishSnapshot \/ Storage!Rotate
              \/ Storage!MaintainEnds \/ Storage!Crash
       PROVE  x8'.at \notin {"batch", "release"}
  BY <1>0, <1>10
     DEF Storage!MaintainBegins, Storage!Tidy, Storage!CheckExisting, Storage!CopyDatabase,
         Storage!PublishSnapshot, Storage!Rotate, Storage!MaintainEnds, Storage!Crash,
         Storage!GivesUp, Storage!KeeperAt, Storage!Startup, Storage!TypeOK
<1>11. ASSUME NEW d \in 1..MaxDay, Storage!Damage(d) PROVE UNCHANGED <<x1, x4, x8>>
  BY <1>11 DEF Storage!Damage
<1> QED
  BY <1>1, <1>2, <1>3, <1>4, <1>5, <1>6, <1>7, <1>8, <1>9, <1>10, <1>11 DEF Storage!Next

\* Maintenance ends when its plan has been carried out, and a pruning keeps
\* what fits.
LEMMA RetentionHolds ==
  ASSUME Storage!IInv, Storage!Next
  PROVE  Storage!RetentionStep
<1>0. /\ Storage!TypeOK /\ Storage!LockHeld /\ Storage!IdsUnique /\ x3 \in Nat
      /\ Storage!FilesSound
  BY DEF Storage!IInv, Storage!FilesSound
<1>1. ASSUME x8.at = "batch", x8'.at = "idle", x3' = x3 PROVE Storage!WithinLimits(x4)
  <2>1. x6 = "keeper" /\ x8' # x8
    BY <1>0, <1>1 DEF Storage!LockHeld
  <2>2. Storage!MaintainEnds
    <3>1. \A t \in Tabs : ~Storage!Working(t)
      BY <1>0, <2>1, StorageAssumption DEF Storage!LockHeld
    <3>2. ~Storage!DeleteBatch
      <4>1. ~Storage!Fault
        BY <1>0, <1>1 DEF Storage!Fault
      <4>2. \A batch : x8' # [x8 EXCEPT !.at = "release", !.plan = @ \ batch,
                                        !.released = batch \cap Storage!Ids(x4)]
        BY <1>0, <1>1 DEF Storage!TypeOK
      <4> QED
        BY <4>1, <4>2 DEF Storage!DeleteBatch
    <3>3. ~Storage!Crash
      BY <1>0, <1>1 DEF Storage!Crash, Storage!Fault
    <3>4. \A t \in Tabs : /\ \A n \in SegmentSizes : ~Storage!PersistBegins(t, n)
                          /\ ~Storage!WriteSegment(t) /\ ~Storage!AppendRow(t)
                          /\ ~Storage!PruneRows(t) /\ ~Storage!RemovePruned(t)
      BY <2>1 DEF Storage!PersistBegins, Storage!WriteSegment, Storage!AppendRow,
                  Storage!PruneRows, Storage!RemovePruned
    <3>5. /\ \A n \in SegmentSizes : ~Storage!StoreCapture(n)
          /\ ~Storage!DayPasses /\ \A d \in 1..MaxDay : ~Storage!Damage(d)
      BY <2>1 DEF Storage!StoreCapture, Storage!DayPasses, Storage!storeVars, Storage!Damage
    <3>6. /\ ~Storage!MaintainBegins /\ ~Storage!Tidy /\ ~Storage!CheckExisting
          /\ ~Storage!CopyDatabase /\ ~Storage!PublishSnapshot /\ ~Storage!Rotate
          /\ ~Storage!Plan /\ ~Storage!RemoveReleased
      BY <1>1 DEF Storage!MaintainBegins, Storage!Tidy, Storage!CheckExisting,
                  Storage!CopyDatabase, Storage!PublishSnapshot, Storage!Rotate, Storage!Plan,
                  Storage!RemoveReleased
    <3> QED
      BY <3>2, <3>3, <3>4, <3>5, <3>6 DEF Storage!Next
  <2>3. Storage!Without(x8.plan) = x4
    BY <2>2 DEF Storage!MaintainEnds, Storage!Without
  <2> QED
    BY <1>1, <2>3 DEF Storage!IInv, Storage!PlanSuffices
<1>2. ASSUME NEW t \in Tabs, x7[t].at = "appended", x7'[t].at = "releasing"
      PROVE  Storage!Sum({r \in x4' : r.owner = t}) <= MaxBytes
  <2>1. Storage!PruneRows(t)
    <3>1. x6 = t /\ x8.at \in {"idle", "closed"}
          /\ \A u \in Tabs : u # t => x7[u].at \in {"idle", "releasing"}
      BY <1>0, <1>2, AloneAtWork DEF Storage!Working
    <3>2. x7' # x7
      BY <1>2
    <3>3. ASSUME NEW u \in Tabs, u # t, NEW f, x7' = [x7 EXCEPT ![u] = f] PROVE FALSE
      BY <1>0, <1>2, <3>3 DEF Storage!TypeOK
    <3>4. ASSUME NEW u \in Tabs, \E n \in SegmentSizes : Storage!PersistBegins(u, n) PROVE FALSE
      BY <3>1, <3>4, StorageAssumption DEF Storage!PersistBegins
    <3>5. ASSUME NEW u \in Tabs, Storage!WriteSegment(u) \/ Storage!AppendRow(u) PROVE FALSE
      BY <1>2, <3>1, <3>5 DEF Storage!WriteSegment, Storage!AppendRow
    <3>6. ASSUME NEW u \in Tabs, Storage!PruneRows(u) PROVE u = t
      BY <3>1, <3>6 DEF Storage!PruneRows
    <3>7. ASSUME NEW u \in Tabs, Storage!RemovePruned(u) PROVE FALSE
      <4>1. u # t
        BY <1>2, <3>7 DEF Storage!RemovePruned
      <4>2. x7'[t] = x7[t]
        BY <1>0, <3>7, <4>1 DEF Storage!RemovePruned, Storage!Move, Storage!TypeOK
      <4> QED
        BY <1>2, <4>2
    <3>8. ~Storage!Crash
      BY <1>2 DEF Storage!Crash, Storage!Quiet
    <3> QED
      BY <3>2, <3>4, <3>5, <3>6, <3>7, <3>8
         DEF Storage!Next, Storage!StoreCapture, Storage!MaintainBegins, Storage!Tidy,
             Storage!CheckExisting, Storage!CopyDatabase, Storage!PublishSnapshot,
             Storage!Rotate, Storage!Plan, Storage!DeleteBatch, Storage!RemoveReleased,
             Storage!MaintainEnds, Storage!DayPasses, Storage!storeVars, Storage!Damage
  <2> DEFINE mine == Storage!OwnedBy(t)
             kept == Storage!Kept(mine)
  <2>2. mine \subseteq x4 /\ AreRows(x4) /\ AreRows(mine)
    BY <1>0, RowsAreRows, PartsAreRows DEF Storage!OwnedBy
  <2>3. kept \subseteq mine /\ Storage!Sum(kept) <= MaxBytes
    BY <2>2, KeptFits
  <2>4. x4' = Storage!Without(Storage!Expired(t))
    <3>1. ~Storage!Move(t, "idle")
      <4> SUFFICES ASSUME Storage!Move(t, "idle") PROVE FALSE
        OBVIOUS
      <4>1. x7'[t].at = "idle"
        BY <1>0, WriterMoves
      <4> QED
        BY <1>2, <4>1
    <3> QED
      BY <2>1, <3>1 DEF Storage!PruneRows
  <2>5. {r \in x4' : r.owner = t} = kept
    <3> HIDE DEF kept
    <3>1. Storage!Expired(t) = Storage!Ids(mine \ kept)
      BY DEF Storage!Expired, kept
    <3>2. ASSUME NEW r \in x4 PROVE r.id \in Storage!Ids(mine \ kept) <=> r \in mine \ kept
      BY <2>2 DEF Storage!Ids, AreRows
    <3>3. \A r \in x4 : r.owner = t <=> r \in mine
      BY DEF Storage!OwnedBy
    <3> HIDE DEF mine
    <3> QED
      BY <2>2, <2>3, <2>4, <3>1, <3>2, <3>3 DEF Storage!Without
  <2> QED
    BY <2>3, <2>5
<1> QED
  BY <1>1, <1>2 DEF Storage!RetentionStep

\* The store that is found empty, and each step after it.
LEMMA StorageInductive ==
  /\ Storage!Init => Storage!IInv
  /\ Storage!IInv /\ [Storage!Next]_(Storage!vars) => Storage!IInv'
<1>1. ASSUME Storage!Init PROVE Storage!IInv
  <2>1. Storage!TypeOK
    BY <1>1, StorageAssumption
       DEF Storage!Init, Storage!Quiet, Storage!Startup, Storage!TypeOK, Storage!Writers
  <2>2. Storage!RowsHaveFiles /\ Storage!LockHeld /\ Storage!ReleasedIsLoose
    BY <1>1 DEF Storage!Init, Storage!Quiet, Storage!Startup, Storage!RowsHaveFiles,
       Storage!LockHeld,
       Storage!Working, Storage!ReleasedIsLoose
  <2>3. Storage!IdsUnique /\ Storage!PlanSuffices /\ x3 \in Nat
    BY <1>1 DEF Storage!Init, Storage!Startup, Storage!IdsUnique, Storage!PlanSuffices
  <2> QED
    BY <2>1, <2>2, <2>3 DEF Storage!IInv, Storage!FilesSound
<1>2. ASSUME Storage!IInv, Storage!Next PROVE Storage!IInv'
  <2>1. Storage!FilesSound'
    BY <1>2, PersistBeginsSound, WriteSegmentSound, AppendRowSound, PruneRowsSound, RemovePrunedSound,
       StoreCaptureSound, KeeperStartsSound, KeeperStepsSound, DeleteBatchSound, RemoveReleasedSound,
       WorldSound
       DEF Storage!IInv, Storage!Next
  <2>2. Storage!IdsUnique'
    BY <1>2, IdsStayUnique DEF Storage!IInv
  <2>3. Storage!PlanSuffices'
    BY <1>2, PlanStaysSufficient
  <2>4. x3' = x3 \/ x3' = x3 + 1
    BY <1>2 DEF Storage!Next, Storage!PersistBegins, Storage!WriteSegment, Storage!AppendRow,
       Storage!PruneRows, Storage!RemovePruned, Storage!StoreCapture, Storage!MaintainBegins,
       Storage!Tidy, Storage!CheckExisting, Storage!CopyDatabase, Storage!PublishSnapshot,
       Storage!Rotate, Storage!Plan, Storage!DeleteBatch, Storage!RemoveReleased,
       Storage!MaintainEnds, Storage!Crash, Storage!Damage, Storage!DayPasses, Storage!Fault,
       Storage!Works
  <2>5. x3' \in Nat
    BY <1>2, <2>4 DEF Storage!IInv
  <2> QED
    BY <2>1, <2>2, <2>3, <2>5 DEF Storage!IInv
<1>3. ASSUME Storage!IInv, UNCHANGED Storage!vars PROVE Storage!IInv'
  BY <1>3 DEF Storage!vars, Storage!storeVars, Storage!IInv, Storage!FilesSound, Storage!TypeOK,
     Storage!Writers, Storage!RowsHaveFiles, Storage!LockHeld, Storage!Working,
     Storage!ReleasedIsLoose, Storage!Loose, Storage!Ids, Storage!Unborn, Storage!IdsUnique,
     Storage!PlanSuffices, Storage!WithinLimits, Storage!Without, Storage!TooOld
<1> QED
  BY <1>1, <1>2, <1>3

-----------------------------------------------------------------------------
(* FrameChannel.  Its slots: x1 caller, x2 got, x3 outbound, x4 pending,   *)
(* x5 tasks, x6 finished, x7 side, x8 wire.                                *)

\* What a channel holds after one more is sent, and after one is received.
LEMMA ChannelElements ==
  ASSUME NEW S, NEW s \in Seq(S), NEW k \in S
  PROVE  /\ Append(s, k) \in Seq(S)
         /\ Frames!Range(s) \subseteq S
         /\ Frames!Range(Append(s, k)) = Frames!Range(s) \cup {k}
         /\ s # <<>> => /\ Head(s) \in S /\ Tail(s) \in Seq(S)
                        /\ Frames!Range(s) = Frames!Range(Tail(s)) \cup {Head(s)}
<1>1. Frames!Range(s) \subseteq S
  BY DEF Frames!Range
<1>2. Append(s, k) \in Seq(S) /\ Frames!Range(Append(s, k)) = Frames!Range(s) \cup {k}
  <2> DEFINE a == Append(s, k)
  <2>1. /\ a \in Seq(S) /\ DOMAIN s = 1 .. Len(s) /\ DOMAIN a = 1 .. Len(s) + 1 /\ Len(s) \in Nat
        /\ a[Len(s) + 1] = k /\ \A i \in 1 .. Len(s) : a[i] = s[i]
    OBVIOUS
  <2>2. \A i \in 1 .. Len(s) + 1 : i \in 1 .. Len(s) \/ i = Len(s) + 1
    BY <2>1
  <2>3. 1 .. Len(s) \subseteq 1 .. Len(s) + 1 /\ Len(s) + 1 \in 1 .. Len(s) + 1
    BY <2>1
  <2> HIDE DEF a
  <2>4. Frames!Range(a) = Frames!Range(s) \cup {k}
    BY <2>1, <2>2, <2>3 DEF Frames!Range
  <2> QED
    BY <2>1, <2>4 DEF a
<1>3. ASSUME s # <<>>
      PROVE  /\ Head(s) \in S /\ Tail(s) \in Seq(S)
             /\ Frames!Range(s) = Frames!Range(Tail(s)) \cup {Head(s)}
  <2> DEFINE t == Tail(s)  h == Head(s)
  <2>1. /\ t \in Seq(S) /\ DOMAIN s = 1 .. Len(s) /\ DOMAIN t = 1 .. Len(s) - 1 /\ Len(s) \in Nat
        /\ Len(s) > 0 /\ h = s[1] /\ h \in S /\ \A i \in 1 .. Len(s) - 1 : t[i] = s[i + 1]
    BY <1>3
  <2> HIDE DEF t, h
  <2>2. ASSUME NEW i \in 1 .. Len(s), i # 1
        PROVE  \E j \in 1 .. Len(s) - 1 : t[j] = s[i]
    <3>1. i - 1 \in 1 .. Len(s) - 1 /\ (i - 1) + 1 = i
      BY <2>1, <2>2
    <3> QED
      BY <2>1, <3>1
  <2>3. \A i \in 1 .. Len(s) - 1 : i + 1 \in 1 .. Len(s)
    BY <2>1
  <2>4. 1 \in 1 .. Len(s)
    BY <2>1
  <2>5. Frames!Range(s) = Frames!Range(t) \cup {h}
    <3>1. Frames!Range(s) = {s[i] : i \in 1 .. Len(s)}
          /\ Frames!Range(t) = {t[j] : j \in 1 .. Len(s) - 1}
      BY <2>1 DEF Frames!Range
    <3>2. {s[i] : i \in 1 .. Len(s)} \subseteq {t[j] : j \in 1 .. Len(s) - 1} \cup {h}
      BY <2>1, <2>2
    <3>3. {t[j] : j \in 1 .. Len(s) - 1} \cup {h} \subseteq {s[i] : i \in 1 .. Len(s)}
      BY <2>1, <2>3, <2>4
    <3> QED
      BY <3>1, <3>2, <3>3
  <2> QED
    BY <2>1, <2>5 DEF t, h
<1> QED
  BY <1>1, <1>2, <1>3

\* A step that leaves the callers alone.
LEMMA CallersKept ==
  ASSUME Frames!IInv, UNCHANGED <<x1, x2, x3, x4>>, Frames!TypeOK',
         x7'["client"].at # "closed" => x7["client"].at # "closed"
  PROVE  Frames!IInv'
BY DEF Frames!IInv, Frames!OnceKnown, Frames!AnswersMatch

\* request_correlated.
LEMMA SendSound ==
  ASSUME Frames!IInv, NEW r \in Requests, Frames!Send(r)
  PROVE  Frames!IInv'
<1>1. /\ x1[r] = "new" /\ x7["client"].at # "closed" /\ x1' = [x1 EXCEPT ![r] = "waiting"]
      /\ x3' = Append(x3, r) /\ UNCHANGED <<x2, x4, x5, x6, x7, x8>>
      /\ x3 \in Seq(Requests)
  BY DEF Frames!Send, Frames!IInv, Frames!TypeOK
<1>2. x3' \in Seq(Requests) /\ Frames!Range(x3') = Frames!Range(x3) \cup {r}
      /\ Frames!Range(x3) \subseteq Requests
  BY <1>1, ChannelElements
<1>3. Frames!TypeOK'
  BY <1>1, <1>2 DEF Frames!IInv, Frames!TypeOK
<1>4. /\ x1'[r] = "waiting" /\ \A q \in Requests : q # r => x1'[q] = x1[q]
      /\ r \notin x4 /\ r \notin Frames!Range(x3)
  BY <1>1 DEF Frames!IInv, Frames!TypeOK, Frames!OnceKnown
<1>5. Frames!OnceKnown'
  <2>1. \A i, j \in DOMAIN x3' : x3'[i] = x3'[j] => i = j
    <3>1. /\ DOMAIN x3 = 1 .. Len(x3) /\ DOMAIN x3' = 1 .. Len(x3) + 1 /\ Len(x3) \in Nat
          /\ x3'[Len(x3) + 1] = r /\ \A i \in 1 .. Len(x3) : x3'[i] = x3[i]
      BY <1>1
    <3>2. \A i \in 1 .. Len(x3) : x3[i] # r
      BY <1>4, <3>1 DEF Frames!Range
    <3>3. \A i \in 1 .. Len(x3) + 1 : i \in 1 .. Len(x3) \/ i = Len(x3) + 1
      BY <3>1
    <3> QED
      BY <3>1, <3>2, <3>3 DEF Frames!IInv, Frames!OnceKnown
  <2>2. x4' \cap Frames!Range(x3)' = {}
    BY <1>1, <1>2, <1>4 DEF Frames!IInv, Frames!OnceKnown
  <2>3. \A q \in x4' \cup Frames!Range(x3)' : x1'[q] = "waiting"
    BY <1>1, <1>2, <1>4 DEF Frames!IInv, Frames!OnceKnown, Frames!TypeOK
  <2> QED
    BY <2>1, <2>2, <2>3 DEF Frames!OnceKnown
<1>6. Frames!AnswersMatch'
  <2>1. {q \in Requests : x1'[q] = "waiting"} = x4' \cup Frames!Range(x3)'
    BY <1>1, <1>2, <1>4 DEF Frames!IInv, Frames!AnswersMatch
  <2>2. \A q \in Requests : (x1'[q] = "done" <=> x2'[q] = q) /\ x2'[q] \in {"none", q}
    BY <1>1, <1>4 DEF Frames!IInv, Frames!AnswersMatch
  <2> QED
    BY <2>1, <2>2 DEF Frames!AnswersMatch
<1> QED
  BY <1>3, <1>5, <1>6 DEF Frames!IInv

\* The states of a task are well typed after each change of them.
LEMMA TaskTypes ==
  /\ Frames!Selecting \in Frames!TaskStates /\ Frames!Closed \in Frames!TaskStates
  /\ Frames!Selecting.at = "select" /\ Frames!Closed.at = "closed"
  /\ \A r \in Requests : /\ [Frames!Selecting EXCEPT !.at = "write", !.frame = r] \in Frames!TaskStates
                         /\ [Frames!Selecting EXCEPT !.at = "write", !.frame = r].at = "write"
  /\ \A s \in Frames!TaskStates :
       /\ s.at = "select" => /\ [s EXCEPT !.at = "swallow"] \in Frames!TaskStates
                             /\ [s EXCEPT !.taken = @ + 1] \in Frames!TaskStates
       /\ s.at = "write" => /\ s.frame \in Requests /\ s.sent + 1 \in Nat
                            /\ [s EXCEPT !.sent = @ + 1] \in Frames!TaskStates
                            /\ [s EXCEPT !.sent = @ + 1].at = "write"
  /\ "client" \in Frames!Sides /\ "server" \in Frames!Sides
<1>1. /\ Frames!Selecting \in Frames!TaskStates /\ Frames!Closed \in Frames!TaskStates
      /\ Frames!Selecting.at = "select" /\ Frames!Closed.at = "closed"
  BY DEF Frames!Selecting, Frames!Closed, Frames!TaskStates
<1>2. ASSUME NEW r \in Requests
      PROVE  /\ [Frames!Selecting EXCEPT !.at = "write", !.frame = r] \in Frames!TaskStates
             /\ [Frames!Selecting EXCEPT !.at = "write", !.frame = r].at = "write"
  BY DEF Frames!Selecting, Frames!TaskStates
<1>3. ASSUME NEW s \in Frames!TaskStates, s.at = "select"
      PROVE  /\ [s EXCEPT !.at = "swallow"] \in Frames!TaskStates
             /\ [s EXCEPT !.taken = @ + 1] \in Frames!TaskStates
  BY <1>3 DEF Frames!TaskStates
<1>4. ASSUME NEW s \in Frames!TaskStates, s.at = "write"
      PROVE  /\ s.frame \in Requests /\ s.sent + 1 \in Nat
             /\ [s EXCEPT !.sent = @ + 1] \in Frames!TaskStates
             /\ [s EXCEPT !.sent = @ + 1].at = "write"
  BY <1>4 DEF Frames!TaskStates
<1> QED
  BY <1>1, <1>2, <1>3, <1>4 DEF Frames!Sides

\* The driver takes the next request.
LEMMA TakeRequestSound ==
  ASSUME Frames!IInv, Frames!TakeRequest
  PROVE  Frames!IInv'
<1> DEFINE h == Head(x3)  t == Tail(x3)
<1>1. /\ x7["client"].at # "closed" /\ x3 # <<>> /\ x3' = t /\ x4' = x4 \cup {h}
      /\ x7' = Frames!Writes("client", h) /\ UNCHANGED <<x1, x2, x5, x6, x8>>
      /\ x3 \in Seq(Requests) /\ x4 \subseteq Requests
  BY DEF Frames!TakeRequest, Frames!IInv, Frames!TypeOK
<1>2. h \in Requests /\ t \in Seq(Requests) /\ Frames!Range(x3) = Frames!Range(t) \cup {h}
  BY <1>1, ChannelElements
<1>3. h \notin Frames!Range(t)
  <2>1. /\ DOMAIN x3 = 1 .. Len(x3) /\ DOMAIN t = 1 .. Len(x3) - 1 /\ Len(x3) \in Nat
        /\ h = x3[1] /\ \A i \in 1 .. Len(x3) - 1 : t[i] = x3[i + 1]
    BY <1>1
  <2>2. \A i \in 1 .. Len(x3) - 1 : i + 1 \in DOMAIN x3 /\ 1 \in DOMAIN x3 /\ i + 1 # 1
    BY <2>1
  <2> HIDE DEF h, t
  <2> QED
    BY <2>1, <2>2 DEF Frames!Range, Frames!IInv, Frames!OnceKnown
<1>4. Frames!TypeOK'
  <2>1. x7' \in [Frames!Sides -> Frames!TaskStates]
    BY <1>1, <1>2, TaskTypes DEF Frames!Writes, Frames!IInv, Frames!TypeOK
  <2> HIDE DEF h, t
  <2> QED
    BY <1>1, <1>2, <2>1 DEF Frames!IInv, Frames!TypeOK
<1>5. x4' \cup Frames!Range(x3)' = x4 \cup Frames!Range(x3)
  BY <1>1, <1>2
<1>6. Frames!OnceKnown'
  <2>1. \A i, j \in DOMAIN x3' : x3'[i] = x3'[j] => i = j
    <3>1. /\ DOMAIN x3 = 1 .. Len(x3) /\ DOMAIN t = 1 .. Len(x3) - 1 /\ Len(x3) \in Nat
          /\ \A i \in 1 .. Len(x3) - 1 : t[i] = x3[i + 1]
      BY <1>1
    <3>2. \A i \in 1 .. Len(x3) - 1 : i + 1 \in DOMAIN x3
      BY <3>1
    <3> HIDE DEF t
    <3>3. ASSUME NEW i \in 1 .. Len(x3) - 1, NEW j \in 1 .. Len(x3) - 1, t[i] = t[j]
          PROVE  i = j
      <4>1. x3[i + 1] = x3[j + 1]
        BY <3>1, <3>3
      <4>2. i + 1 = j + 1
        BY <3>2, <4>1 DEF Frames!IInv, Frames!OnceKnown
      <4> QED
        BY <3>1, <4>2
    <3> QED
      BY <1>1, <3>1, <3>3
  <2>2. x4' \cap Frames!Range(x3)' = {}
    BY <1>1, <1>2, <1>3 DEF Frames!IInv, Frames!OnceKnown
  <2>3. \A q \in x4' \cup Frames!Range(x3)' : x1'[q] = "waiting"
    BY <1>1, <1>5 DEF Frames!IInv, Frames!OnceKnown
  <2> QED
    BY <2>1, <2>2, <2>3 DEF Frames!OnceKnown
<1>7. Frames!AnswersMatch'
  BY <1>1, <1>5 DEF Frames!IInv, Frames!AnswersMatch
<1> QED
  BY <1>4, <1>6, <1>7 DEF Frames!IInv

\* Either side ends.
LEMMA EndsSound ==
  ASSUME Frames!IInv, NEW x \in Frames!Sides, Frames!Ends(x)
  PROVE  Frames!IInv'
<1>1. x7' \in [Frames!Sides -> Frames!TaskStates] /\ x8' \in [Frames!Sides -> Seq(Frames!WireUnits)]
  <2>1. x7' = [x7 EXCEPT ![x] = Frames!Closed] /\ x8' = [x8 EXCEPT ![x] = <<>>]
    BY DEF Frames!Ends, Frames!ClientEnds, Frames!ServerEnds, Frames!Sides
  <2>2. <<>> \in Seq(Frames!WireUnits)
    OBVIOUS
  <2> QED
    BY <2>1, <2>2, TaskTypes DEF Frames!IInv, Frames!TypeOK
<1>2. CASE x = "client"
  <2>1. /\ x1' = [r \in Requests |-> IF x1[r] = "waiting" THEN "failed" ELSE x1[r]]
        /\ x3' = <<>> /\ x4' = {} /\ x7' = [x7 EXCEPT !["client"] = Frames!Closed]
        /\ UNCHANGED <<x2, x5, x6>>
    BY <1>2 DEF Frames!Ends, Frames!ClientEnds
  <2>2. Frames!TypeOK'
    <3>1. x1' \in [Requests -> {"new", "waiting", "done", "failed"}]
      BY <2>1 DEF Frames!IInv, Frames!TypeOK
    <3>2. <<>> \in Seq(Requests)
      OBVIOUS
    <3> QED
      BY <1>1, <2>1, <3>1, <3>2 DEF Frames!IInv, Frames!TypeOK
  <2>3. Frames!OnceKnown'
    BY <2>1 DEF Frames!OnceKnown, Frames!Range
  <2>4. x7'["client"].at = "closed"
    BY <2>1, TaskTypes DEF Frames!IInv, Frames!TypeOK
  <2>5. \A r \in Requests : x1'[r] = "done" <=> x1[r] = "done"
    BY <2>1
  <2> QED
    BY <2>1, <2>2, <2>3, <2>4, <2>5 DEF Frames!IInv, Frames!AnswersMatch
<1>3. CASE x = "server"
  <2>1. /\ x5' = {} /\ x6' = {} /\ UNCHANGED <<x1, x2, x3, x4>>
        /\ x7' = [x7 EXCEPT !["server"] = Frames!Closed]
    BY <1>3 DEF Frames!Ends, Frames!ServerEnds
  <2>2. Frames!TypeOK'
    BY <1>1, <2>1 DEF Frames!IInv, Frames!TypeOK
  <2>3. x7'["client"] = x7["client"]
    BY <2>1 DEF Frames!IInv, Frames!TypeOK, Frames!Sides
  <2> QED
    BY <2>1, <2>2, <2>3, CallersKept
<1> QED
  BY <1>2, <1>3 DEF Frames!Sides

\* Reading and writing of units.
LEMMA UnitsSound ==
  ASSUME Frames!IInv, NEW x \in Frames!Sides,
         Frames!WriteUnit(x) \/ Frames!TakeUnit(x) \/ Frames!Misread(x) \/ Frames!Swallow(x)
  PROVE  Frames!IInv'
<1> DEFINE y == Frames!Other(x)
<1>0. /\ x7[x] \in Frames!TaskStates /\ x8[x] \in Seq(Frames!WireUnits) /\ y \in Frames!Sides
      /\ x8[y] \in Seq(Frames!WireUnits) /\ x7 \in [Frames!Sides -> Frames!TaskStates]
      /\ x8 \in [Frames!Sides -> Seq(Frames!WireUnits)] /\ "client" \in Frames!Sides
  BY DEF Frames!IInv, Frames!TypeOK, Frames!Other, Frames!Sides
<1> HIDE DEF y
\* It is enough that the open task stays typed, and with it the wire.
<1>1. ASSUME NEW s \in Frames!TaskStates, x7' = [x7 EXCEPT ![x] = s], x7[x].at # "closed",
             x8' \in [Frames!Sides -> Seq(Frames!WireUnits)], UNCHANGED <<x1, x2, x3, x4, x5, x6>>
      PROVE  Frames!IInv'
  <2>1. Frames!TypeOK'
    BY <1>0, <1>1 DEF Frames!IInv, Frames!TypeOK
  <2>2. x7'["client"].at # "closed" => x7["client"].at # "closed"
    BY <1>0, <1>1
  <2> QED
    BY <1>1, <2>1, <2>2, CallersKept
<1>2. CASE Frames!WriteUnit(x)
  <2> DEFINE u == [frame |-> x7[x].frame, unit |-> x7[x].sent + 1]
             s == IF x7[x].sent + 1 = Units THEN Frames!Selecting ELSE [x7[x] EXCEPT !.sent = @ + 1]
  <2>1. /\ x7[x].at = "write" /\ x8' = [x8 EXCEPT ![y] = Append(x8[y], u)]
        /\ x7' = [x7 EXCEPT ![x] = s] /\ UNCHANGED <<x1, x2, x3, x4, x5, x6>>
    BY <1>2 DEF Frames!WriteUnit, y
  <2>2. u \in Frames!WireUnits /\ s \in Frames!TaskStates
    BY <1>0, <2>1, TaskTypes DEF Frames!WireUnits
  <2> HIDE DEF u, s
  <2>3. Append(x8[y], u) \in Seq(Frames!WireUnits)
    BY <1>0, <2>2
  <2> QED
    BY <1>0, <1>1, <2>1, <2>2, <2>3
<1>3. ASSUME x8[x] # <<>>, x8' = [x8 EXCEPT ![x] = Tail(@)]
      PROVE  x8' \in [Frames!Sides -> Seq(Frames!WireUnits)]
  <2>1. Tail(x8[x]) \in Seq(Frames!WireUnits)
    BY <1>0, <1>3
  <2> QED
    BY <1>0, <1>3, <2>1
<1>4. CASE Frames!TakeUnit(x)
  <2>1. /\ x7[x].at = "select" /\ x8[x] # <<>> /\ x8' = [x8 EXCEPT ![x] = Tail(@)]
        /\ x7' = [x7 EXCEPT ![x] = [x7[x] EXCEPT !.taken = @ + 1]]
        /\ UNCHANGED <<x1, x2, x3, x4, x5, x6>>
    BY <1>4 DEF Frames!TakeUnit, Frames!Reading
  <2>2. [x7[x] EXCEPT !.taken = @ + 1] \in Frames!TaskStates
    BY <1>0, <2>1, TaskTypes
  <2> QED
    BY <1>1, <1>3, <2>1, <2>2
<1>5. CASE Frames!Swallow(x)
  <2>1. /\ x7[x].at = "swallow" /\ x8[x] # <<>> /\ x8' = [x8 EXCEPT ![x] = Tail(@)]
        /\ UNCHANGED <<x1, x2, x3, x4, x5, x6, x7>>
    BY <1>5 DEF Frames!Swallow
  <2>2. x7' = [x7 EXCEPT ![x] = x7[x]]
    BY <1>0, <2>1
  <2> QED
    BY <1>0, <1>1, <1>3, <2>1, <2>2
<1>6. CASE Frames!Misread(x) /\ Frames!Ends(x)
  BY <1>6, EndsSound
<1>7. CASE Frames!Misread(x) /\ ~Frames!Ends(x)
  <2>1. /\ x7[x].at = "select" /\ UNCHANGED <<x1, x2, x3, x4, x5, x6, x8>>
        /\ x7' = [x7 EXCEPT ![x] = [x7[x] EXCEPT !.at = "swallow"]]
    BY <1>7 DEF Frames!Misread, Frames!Reading
  <2>2. [x7[x] EXCEPT !.at = "swallow"] \in Frames!TaskStates
    BY <1>0, <2>1, TaskTypes
  <2> QED
    BY <1>0, <1>1, <2>1, <2>2
<1> QED
  BY <1>2, <1>4, <1>5, <1>6, <1>7

\* The daemon finishes, answers and reads requests.
LEMMA ServerSound ==
  ASSUME Frames!IInv,
         (\E r \in Requests : Frames!Finish(r) \/ Frames!JoinTask(r)) \/ Frames!ReadRequest
  PROVE  Frames!IInv'
<1>0. /\ x7 \in [Frames!Sides -> Frames!TaskStates] /\ "client" \in Frames!Sides
      /\ "server" \in Frames!Sides /\ x8 \in [Frames!Sides -> Seq(Frames!WireUnits)]
  BY TaskTypes DEF Frames!IInv, Frames!TypeOK
\* It is enough that what the daemon holds stays typed.
<1>1. ASSUME NEW s \in Frames!TaskStates, x7' = [x7 EXCEPT !["server"] = s],
             UNCHANGED <<x1, x2, x3, x4>>, x5' \subseteq Requests, x6' \subseteq Requests,
             x8' \in [Frames!Sides -> Seq(Frames!WireUnits)]
      PROVE  Frames!IInv'
  <2>1. Frames!TypeOK'
    BY <1>0, <1>1 DEF Frames!IInv, Frames!TypeOK
  <2>2. x7'["client"] = x7["client"]
    BY <1>0, <1>1
  <2> QED
    BY <1>1, <2>1, <2>2, CallersKept
<1>2. x5 \subseteq Requests /\ x6 \subseteq Requests /\ x7["server"] \in Frames!TaskStates
      /\ x7 = [x7 EXCEPT !["server"] = x7["server"]]
  BY <1>0 DEF Frames!IInv, Frames!TypeOK
<1>3. ASSUME NEW r \in Requests, Frames!Finish(r)
      PROVE  Frames!IInv'
  <2>1. /\ x5' = x5 \ {r} /\ x6' = x6 \cup {r} /\ UNCHANGED <<x1, x2, x3, x4, x7, x8>>
    BY <1>3 DEF Frames!Finish
  <2> QED
    BY <1>0, <1>1, <1>2, <2>1
<1>4. ASSUME NEW r \in Requests, Frames!JoinTask(r)
      PROVE  Frames!IInv'
  <2> DEFINE s == [Frames!Selecting EXCEPT !.at = "write", !.frame = r]
  <2>1. x7' = [x7 EXCEPT !["server"] = s] /\ x6' = x6 \ {r} /\ UNCHANGED <<x1, x2, x3, x4, x5, x8>>
    BY <1>4 DEF Frames!JoinTask, Frames!Writes
  <2>2. s \in Frames!TaskStates
    BY TaskTypes
  <2> QED
    BY <1>0, <1>1, <1>2, <2>1, <2>2
<1>5. CASE Frames!ReadRequest
  <2> DEFINE w == x8["server"]  h == Head(w).frame
             s == [Frames!Selecting EXCEPT !.at = "write", !.frame = h]
  <2>1. /\ w # <<>> /\ x8' = [x8 EXCEPT !["server"] = Tail(w)] /\ UNCHANGED <<x1, x2, x3, x4, x6>>
        /\ \/ x7' = [x7 EXCEPT !["server"] = s] /\ UNCHANGED x5
           \/ x7' = [x7 EXCEPT !["server"] = Frames!Selecting] /\ x5' = x5 \cup {h}
    BY <1>5 DEF Frames!ReadRequest, Frames!Complete, Frames!Reading, Frames!Writes
  <2>2. w \in Seq(Frames!WireUnits)
    BY <1>0
  <2>3. Head(w) \in Frames!WireUnits /\ Tail(w) \in Seq(Frames!WireUnits)
    BY <2>1, <2>2
  <2>4. h \in Requests
    BY <2>3 DEF Frames!WireUnits
  <2>5. x8' \in [Frames!Sides -> Seq(Frames!WireUnits)]
    BY <1>0, <2>1, <2>3
  <2> HIDE DEF h
  <2>6. s \in Frames!TaskStates
    BY <2>4, TaskTypes
  <2> HIDE DEF s
  <2> QED
    BY <1>1, <1>2, <2>1, <2>4, <2>5, <2>6, TaskTypes
<1> QED
  BY <1>3, <1>4, <1>5

\* The driver completes the request that a response belongs to.
LEMMA ReadResponseSound ==
  ASSUME Frames!IInv, Frames!ReadResponse
  PROVE  Frames!IInv'
<1> DEFINE w == x8["client"]  r == Head(w).frame  c == {r} \cap x4
<1>1. /\ w # <<>> /\ x8' = [x8 EXCEPT !["client"] = Tail(w)] /\ UNCHANGED <<x3, x5, x6>>
      /\ x7["client"].at = "select" /\ x7' = [x7 EXCEPT !["client"] = Frames!Selecting]
      /\ x4' = x4 \ c /\ x1' = [q \in Requests |-> IF q \in c THEN "done" ELSE x1[q]]
      /\ x2' = [q \in Requests |-> IF q \in c THEN r ELSE x2[q]]
  BY DEF Frames!ReadResponse, Frames!Complete, Frames!Reading, Frames!Completes
<1>2. x8' \in [Frames!Sides -> Seq(Frames!WireUnits)] /\ r \in Requests
  <2>1. w \in Seq(Frames!WireUnits)
    BY TaskTypes DEF Frames!IInv, Frames!TypeOK
  <2>2. Head(w) \in Frames!WireUnits /\ Tail(w) \in Seq(Frames!WireUnits)
    BY <1>1, <2>1
  <2> QED
    BY <1>1, <2>2 DEF Frames!WireUnits, Frames!IInv, Frames!TypeOK
<1> HIDE DEF r
<1>3. Frames!TypeOK'
  <2>1. x7' \in [Frames!Sides -> Frames!TaskStates]
    BY <1>1, TaskTypes DEF Frames!IInv, Frames!TypeOK
  <2>2. x1' \in [Requests -> {"new", "waiting", "done", "failed"}]
        /\ x2' \in [Requests -> Requests \cup {"none"}]
    BY <1>1, <1>2 DEF Frames!IInv, Frames!TypeOK
  <2> QED
    BY <1>1, <1>2, <2>1, <2>2 DEF Frames!IInv, Frames!TypeOK
<1>4. c \subseteq Requests /\ c \cap Frames!Range(x3) = {} /\ \A q \in c : q = r /\ x1[q] = "waiting"
  BY DEF Frames!IInv, Frames!TypeOK, Frames!OnceKnown
<1> HIDE DEF c, w
<1>5. Frames!OnceKnown'
  <2>1. \A q \in x4' \cup Frames!Range(x3)' : x1'[q] = "waiting"
    <3>1. \A q \in x4' \cup Frames!Range(x3)' : q \in Requests /\ q \notin c
      BY <1>1, <1>4, ChannelElements DEF Frames!IInv, Frames!TypeOK, Frames!Range
    <3> QED
      BY <1>1, <3>1 DEF Frames!IInv, Frames!OnceKnown, Frames!Range
  <2> QED
    BY <1>1, <2>1 DEF Frames!IInv, Frames!OnceKnown, Frames!Range
<1>6. Frames!AnswersMatch'
  <2>1. \A q \in Requests : (x1'[q] = "done" <=> x2'[q] = q) /\ x2'[q] \in {"none", q}
    BY <1>1, <1>4 DEF Frames!IInv, Frames!AnswersMatch
  <2>2. {q \in Requests : x1[q] = "waiting"} = x4 \cup Frames!Range(x3)
    BY <1>1 DEF Frames!IInv, Frames!AnswersMatch
  <2>3. {q \in Requests : x1'[q] = "waiting"} = {q \in Requests : x1[q] = "waiting"} \ c
    BY <1>1, <1>4
  <2>4. x4' \cup Frames!Range(x3)' = (x4 \cup Frames!Range(x3)) \ c
    BY <1>1, <1>4 DEF Frames!Range
  <2> QED
    BY <2>1, <2>2, <2>3, <2>4 DEF Frames!AnswersMatch
<1> QED
  BY <1>3, <1>5, <1>6 DEF Frames!IInv

\* The connection's invariant holds in its initial states and is kept by its steps.
LEMMA FramesInductive ==
  /\ Frames!Init => Frames!IInv
  /\ Frames!IInv /\ [Frames!Next]_(Frames!vars) => Frames!IInv'
<1>1. ASSUME Frames!Init PROVE Frames!IInv
  <2>1. Frames!TypeOK
    <3>1. <<>> \in Seq(Requests) /\ <<>> \in Seq(Frames!WireUnits)
      OBVIOUS
    <3> QED
      BY <1>1, <3>1, TaskTypes DEF Frames!Init, Frames!TypeOK
  <2>2. x4 \cup Frames!Range(x3) = {} /\ DOMAIN x3 = {}
    BY <1>1 DEF Frames!Init, Frames!Range
  <2>3. Frames!OnceKnown
    BY <2>2 DEF Frames!OnceKnown
  <2>4. Frames!AnswersMatch
    BY <1>1, <2>2, FramesAssumption DEF Frames!Init, Frames!AnswersMatch
  <2> QED
    BY <2>1, <2>3, <2>4 DEF Frames!IInv
<1>2. ASSUME Frames!IInv, [Frames!Next]_(Frames!vars) PROVE Frames!IInv'
  <2>1. CASE UNCHANGED Frames!vars
    BY <1>2, <2>1 DEF Frames!vars, Frames!IInv, Frames!TypeOK, Frames!OnceKnown,
       Frames!AnswersMatch, Frames!Range
  <2>2. ASSUME NEW x \in Frames!Sides, Frames!Step(x) \/ Frames!Close(x)
        PROVE  Frames!IInv'
    <3>1. \/ Frames!Ends(x)
          \/ Frames!WriteUnit(x) \/ Frames!TakeUnit(x) \/ Frames!Misread(x) \/ Frames!Swallow(x)
      BY <2>2 DEF Frames!Step, Frames!Close, Frames!PeerGone
    <3> QED
      BY <1>2, <3>1, EndsSound, UnitsSound
  <2> QED
    BY <1>2, <2>1, <2>2, SendSound, TakeRequestSound, ServerSound, ReadResponseSound DEF Frames!Next
<1> QED
  BY <1>1, <1>2

-----------------------------------------------------------------------------
(* ProjectFiles.  Its slots: x1 nodes, x2 name, x3 temporary, x4 save,     *)
(* x5 read, x6 writer, x7 writes.                                          *)

\* A text is read in two parts.
LEMMA TwoParts ==
  ASSUME NEW t \in Files!Texts
  PROVE  /\ t[1] \in Values /\ t[2] \in Values
         /\ <<t[1]>> \in Seq(Values) /\ Append(<<t[1]>>, t[2]) = t
<1>1. PICK v \in Values, w \in Values : t = <<v, w>>
  BY DEF Files!Texts
<1>2. t[1] = v /\ t[2] = w /\ <<v>> \in Seq(Values) /\ t \in Seq(Values) /\ Len(t) = 2
  BY <1>1
<1> DEFINE a == Append(<<v>>, w)
<1>3. a \in Seq(Values) /\ Len(a) = 2 /\ a[1] = v /\ a[2] = w
  BY <1>2
<1> HIDE DEF a
<1>4. \A i \in 1 .. Len(a) : a[i] = t[i]
  BY <1>2, <1>3
<1>5. a = t
  BY <1>2, <1>3, <1>4, SeqEqual
<1> QED
  BY <1>2, <1>5 DEF a

\* Another program writes a part of a text in place.
LEMMA StoreSound ==
  ASSUME Files!IInv, NEW n \in DOMAIN x1, NEW text \in Files!Texts, Files!Store(n, text),
         x6' = <<>> \/ \E v \in Values : x6' = <<[node |-> n, value |-> v]>>
  PROVE  Files!IInv'
<1> DEFINE node == [text |-> text, mtime |-> x1[n].mtime + 1]
<1>1. /\ x1' = [x1 EXCEPT ![n] = node] /\ x4' = (IF n = x2 THEN Files!Slip(text) ELSE x4)
      /\ x5' = Files!Hold(n, text) /\ UNCHANGED <<x2, x3>>
      /\ x1 \in Seq(Files!Nodes) /\ x2 \in DOMAIN x1
  BY DEF Files!Store, Files!IInv, Files!TypeOK
<1>2. x1[n] \in Files!Nodes /\ x1[n].mtime \in Nat /\ x1[n].text \in Files!Texts
  <2>1. x1[n] \in Files!Nodes
    BY <1>1
  <2> QED
    BY <2>1 DEF Files!Nodes
<1>3. node \in Files!Nodes /\ node.text = text /\ node.mtime = x1[n].mtime + 1
  BY <1>2 DEF Files!Nodes
<1> HIDE DEF node
<1>4. /\ x1' \in Seq(Files!Nodes) /\ DOMAIN x1' = DOMAIN x1 /\ x1'[n] = node
      /\ \A m \in DOMAIN x1 : m # n => x1'[m] = x1[m]
  BY <1>1, <1>3
<1>5. /\ x4' \in [Savers -> Files!Saves]
      /\ \A c \in Savers : /\ x4'[c].at = x4[c].at /\ x4'[c].text = x4[c].text
                           /\ x4'[c].expected = x4[c].expected
                           /\ x4'[c].slipped = IF n = x2 /\ x4[c].at = "renaming"
                                               THEN x4[c].slipped \cup {text} ELSE x4[c].slipped
  <2>1. x4 \in [Savers -> Files!Saves]
    BY DEF Files!IInv, Files!TypeOK
  <2>2. CASE n = x2
    <3>1. x4' = [c \in Savers |-> IF x4[c].at = "renaming"
                                  THEN [x4[c] EXCEPT !.slipped = @ \cup {text}] ELSE x4[c]]
      BY <1>1, <2>2 DEF Files!Slip
    <3>2. ASSUME NEW s \in Files!Saves
          PROVE  LET z == [s EXCEPT !.slipped = @ \cup {text}]
                 IN /\ z \in Files!Saves /\ z.at = s.at /\ z.text = s.text
                    /\ z.expected = s.expected /\ z.slipped = s.slipped \cup {text}
      BY DEF Files!Saves
    <3> QED
      BY <2>1, <2>2, <3>1, <3>2
  <2>3. CASE n # x2
    BY <1>1, <2>1, <2>3
  <2> QED
    BY <2>2, <2>3
<1>6. /\ x5'.at = x5.at /\ x5'.node = x5.node /\ x5'.seen = x5.seen /\ x5'.text = x5.text
      /\ x5'.held = IF x5.node = n THEN x5.held \cup {text} ELSE x5.held
      /\ x5.seen \in Nat
      /\ x5' \in [at : Files!UnderWay \cup {"idle", "read", "refused"}, node : Nat, seen : Nat,
                  text : Seq(Values), held : SUBSET Files!Texts]
  BY <1>1 DEF Files!Hold, Files!IInv, Files!TypeOK
<1>7. Files!TypeOK'
  BY <1>1, <1>4, <1>5, <1>6 DEF Files!IInv, Files!TypeOK
<1>8. Files!ReadSoFar'
  <2>1. CASE x5.node # n
    BY <1>4, <1>6, <2>1 DEF Files!IInv, Files!ReadSoFar, Files!Unchanged
  <2>2. CASE x5.node = n
    <3>1. x5.at \in Files!UnderWay => x5.seen <= x1[n].mtime
      BY <2>2 DEF Files!IInv, Files!ReadSoFar
    <3>2. x5.at \in Files!UnderWay => ~Files!Unchanged(x5.node, x5.seen)' /\ x5'.seen <= x1'[n].mtime
      BY <1>2, <1>3, <1>4, <1>6, <2>2, <3>1 DEF Files!Unchanged
    <3>3. "second" \in Files!UnderWay /\ "checking" \in Files!UnderWay
      BY DEF Files!UnderWay
    <3> QED
      BY <1>1, <1>3, <1>4, <1>6, <2>2, <3>2, <3>3
         DEF Files!IInv, Files!ReadSoFar, Files!Unchanged
  <2> QED
    BY <2>1, <2>2
<1>9. Files!FileKept'
  <2>1. Files!ReadWhole'
    BY <1>6 DEF Files!IInv, Files!FileKept, Files!ReadWhole
  <2>2. Files!Contents' = IF n = x2 THEN text ELSE Files!Contents
    BY <1>1, <1>3, <1>4 DEF Files!Contents
  <2>3. Files!SaveGuarded'
    BY <1>1, <1>5, <2>2 DEF Files!IInv, Files!FileKept, Files!SaveGuarded
  <2> QED
    BY <2>1, <2>3 DEF Files!FileKept
<1> QED
  BY <1>7, <1>8, <1>9 DEF Files!IInv

\* A step of the read changes nothing but the read.
LEMMA ReadingSound ==
  ASSUME Files!IInv, NEW r, Files!Reading(r), Files!TypeOK', Files!ReadSoFar',
         r.at = "read" => r.text \in r.held
  PROVE  Files!IInv'
BY DEF Files!IInv, Files!Reading, Files!FileKept, Files!ReadWhole, Files!SaveGuarded, Files!Contents

\* read_text.
LEMMA ReadSound ==
  ASSUME Files!IInv,
         \/ Files!ReadOpens \/ Files!ReadFirst \/ Files!ReadSecond \/ Files!ReadRechecks
         \/ Files!ReadReopens
  PROVE  Files!IInv'
<1> DEFINE R == [at : Files!UnderWay \cup {"idle", "read", "refused"}, node : Nat, seen : Nat,
                 text : Seq(Values), held : SUBSET Files!Texts]
           n == x5.node
<1>0. /\ x1 \in Seq(Files!Nodes) /\ x2 \in DOMAIN x1 /\ x5 \in R /\ DOMAIN x1 \subseteq Nat
      /\ \A m \in DOMAIN x1 : x1[m].text \in Files!Texts /\ x1[m].mtime \in Nat
  <2>1. x1 \in Seq(Files!Nodes) /\ x2 \in DOMAIN x1 /\ x5 \in R
    BY DEF Files!IInv, Files!TypeOK
  <2>2. DOMAIN x1 \subseteq Nat /\ \A m \in DOMAIN x1 : x1[m] \in Files!Nodes
    BY <2>1
  <2> QED
    BY <2>1, <2>2 DEF Files!Nodes
\* It is enough that the read's own state is as it should be.
<1>1. ASSUME NEW r \in R, Files!Reading(r), r.at \notin Files!UnderWay,
             r.at = "read" => r.text \in r.held
      PROVE  Files!IInv'
  <2>1. x5' = r /\ UNCHANGED <<x1, x2, x3, x4, x6>>
    BY <1>1 DEF Files!Reading
  <2>2. Files!TypeOK'
    BY <2>1 DEF Files!IInv, Files!TypeOK
  <2>3. Files!ReadSoFar'
    BY <1>1, <2>1 DEF Files!ReadSoFar, Files!UnderWay
  <2> QED
    BY <1>1, <2>2, <2>3, ReadingSound
<1>2. ASSUME NEW r \in R, Files!Reading(r), r.at \in Files!UnderWay,
             r.node \in DOMAIN x1, x1[r.node].text \in r.held, r.seen <= x1[r.node].mtime,
             r.at = "second" /\ x1[r.node].mtime = r.seen => r.text = <<x1[r.node].text[1]>>,
             r.at = "checking" /\ x1[r.node].mtime = r.seen => r.text = x1[r.node].text,
             r.at = "reopening" => r.text \in r.held
      PROVE  Files!IInv'
  <2>1. x5' = r /\ UNCHANGED <<x1, x2, x3, x4, x6>>
    BY <1>2 DEF Files!Reading
  <2>2. Files!TypeOK'
    BY <2>1 DEF Files!IInv, Files!TypeOK
  <2>3. Files!ReadSoFar'
    BY <1>2, <2>1 DEF Files!ReadSoFar, Files!Unchanged
  <2>4. r.at # "read"
    BY <1>2 DEF Files!UnderWay
  <2> QED
    BY <1>2, <2>2, <2>3, <2>4, ReadingSound
<1>3. Files!NoRead("refused", <<>>, {}) \in R /\ Files!NoRead("refused", <<>>, {}).at = "refused"
      /\ "refused" \notin Files!UnderWay
  BY DEF Files!NoRead, Files!UnderWay
<1>4. Files!Reading(Files!NoRead("refused", <<>>, {})) => Files!IInv'
  BY <1>1, <1>3
<1>5. CASE Files!ReadOpens
  <2> DEFINE r == [at |-> "first", node |-> x2, seen |-> x1[x2].mtime, text |-> <<>>,
                   held |-> {Files!Contents}]
  <2>1. Files!Reading(r) \/ Files!Reading(Files!NoRead("refused", <<>>, {}))
    BY <1>5 DEF Files!ReadOpens
  <2>2. r \in R /\ r.at = "first" /\ r.node = x2 /\ r.seen = x1[x2].mtime
        /\ x1[x2].text \in r.held
    BY <1>0 DEF Files!Contents, Files!UnderWay
  <2>3. r.seen <= x1[x2].mtime /\ "first" \in Files!UnderWay
    BY <1>0, <2>2 DEF Files!UnderWay
  <2> HIDE DEF r, R
  <2> QED
    BY <1>0, <1>2, <1>4, <2>1, <2>2, <2>3
<1>6. x5.at \in Files!UnderWay =>
        /\ n \in DOMAIN x1 /\ x1[n].text \in x5.held /\ x5.seen <= x1[n].mtime
        /\ x1[n].text[2] \in Values /\ <<x1[n].text[1]>> \in Seq(Values)
        /\ Append(<<x1[n].text[1]>>, x1[n].text[2]) = x1[n].text
  BY <1>0, TwoParts DEF Files!IInv, Files!ReadSoFar
<1>7. CASE Files!ReadFirst
  <2> DEFINE r == [x5 EXCEPT !.at = "second", !.text = <<x1[n].text[1]>>]
  <2>1. x5.at = "first" /\ Files!Reading(r)
    BY <1>7 DEF Files!ReadFirst
  <2>2. x5.at \in Files!UnderWay /\ "second" \in Files!UnderWay
    BY <2>1 DEF Files!UnderWay
  <2>3. r \in R /\ r.at = "second" /\ r.node = n /\ r.seen = x5.seen /\ r.held = x5.held
        /\ r.text = <<x1[n].text[1]>>
    BY <1>0, <1>6, <2>2
  <2> HIDE DEF r, R
  <2> QED
    BY <1>2, <1>6, <2>1, <2>2, <2>3
<1>8. CASE Files!ReadSecond
  <2> DEFINE t == Append(x5.text, x1[n].text[2])  r == [x5 EXCEPT !.at = "checking", !.text = t]
  <2>1. x5.at = "second" /\ Files!Reading(r)
    BY <1>8 DEF Files!ReadSecond
  <2>2. x5.at \in Files!UnderWay /\ "checking" \in Files!UnderWay
    BY <2>1 DEF Files!UnderWay
  <2>3. x1[n].mtime = x5.seen => t = x1[n].text
    BY <1>6, <2>1, <2>2 DEF Files!IInv, Files!ReadSoFar, Files!Unchanged
  <2>4. t \in Seq(Values)
    BY <1>0, <1>6, <2>2
  <2> HIDE DEF t
  <2>5. r \in R /\ r.at = "checking" /\ r.node = n /\ r.seen = x5.seen /\ r.held = x5.held
        /\ r.text = t
    BY <1>0, <1>6, <2>2, <2>4
  <2> HIDE DEF r, R
  <2> QED
    BY <1>2, <1>6, <2>1, <2>2, <2>3, <2>5
<1>9. CASE Files!ReadRechecks
  <2> DEFINE r == [x5 EXCEPT !.at = "reopening", !.seen = x1[n].mtime]
  <2>1. x5.at = "checking"
        /\ \/ Files!Unchanged(n, x5.seen) /\ Files!Reading(r)
           \/ Files!Reading(Files!NoRead("refused", <<>>, {}))
    BY <1>9 DEF Files!ReadRechecks
  <2>2. x5.at \in Files!UnderWay /\ "reopening" \in Files!UnderWay
    BY <2>1 DEF Files!UnderWay
  <2>3. Files!Unchanged(n, x5.seen) => x5.text \in x5.held
    BY <1>6, <2>1, <2>2 DEF Files!IInv, Files!ReadSoFar
  <2>4. x1[n].mtime \in Nat /\ x1[n].mtime <= x1[n].mtime
    BY <1>0, <1>6, <2>2
  <2>5. r \in R /\ r.at = "reopening" /\ r.node = n /\ r.seen = x1[n].mtime /\ r.held = x5.held
        /\ r.text = x5.text
    BY <1>0, <2>2, <2>4
  <2> HIDE DEF r, R
  <2> QED
    BY <1>2, <1>4, <1>6, <2>1, <2>2, <2>3, <2>4, <2>5
<1>10. CASE Files!ReadReopens
  <2> DEFINE r == Files!NoRead("read", x5.text, x5.held)
  <2>1. x5.at = "reopening" /\ (Files!Reading(r) \/ Files!Reading(Files!NoRead("refused", <<>>, {})))
    BY <1>10 DEF Files!ReadReopens
  <2>2. x5.text \in x5.held
    BY <2>1 DEF Files!IInv, Files!ReadSoFar
  <2>3. r \in R /\ r.at = "read" /\ r.text \in r.held /\ "read" \notin Files!UnderWay
    BY <1>0, <2>2 DEF Files!NoRead, Files!UnderWay
  <2> HIDE DEF r, R
  <2> QED
    BY <1>1, <1>4, <2>1, <2>3
<1> QED
  BY <1>5, <1>7, <1>8, <1>9, <1>10

\* A step of one save that leaves the file alone.
LEMMA SavingSound ==
  ASSUME Files!IInv, NEW c \in Savers, NEW s \in Files!Saves, Files!Saving(c, s),
         x3' \subseteq x3 \cup {c}, c \in x3' => s.at \in Files!WithTemporary,
         s.at \notin Files!Ended => s.text \in Files!Texts,
         s.at = "renaming" => Files!Contents \in {s.expected} \cup s.slipped
  PROVE  Files!IInv'
<1>1. /\ x4' = [x4 EXCEPT ![c] = s] /\ UNCHANGED <<x1, x2, x5, x6>> /\ x4 \in [Savers -> Files!Saves]
  BY DEF Files!Saving, Files!IInv, Files!TypeOK
<1>2. x4' \in [Savers -> Files!Saves] /\ x4'[c] = s /\ \A d \in Savers : d # c => x4'[d] = x4[d]
  BY <1>1
<1>3. \A d \in x3' : d \in Savers /\ (d # c => d \in x3)
  BY DEF Files!IInv, Files!TypeOK
<1>4. Files!TypeOK'
  BY <1>1, <1>2, <1>3 DEF Files!IInv, Files!TypeOK
<1>5. Files!SaveGuarded'
  <2>1. \A e \in Files!Ended : e \notin Files!WithTemporary
    BY DEF Files!Ended, Files!WithTemporary
  <2>2. ASSUME NEW d \in Savers
        PROVE  /\ x4'[d].at = "renaming" => Files!Contents' \in {x4'[d].expected} \cup x4'[d].slipped
               /\ d \in x3' => x4'[d].at \notin {"idle", "saved", "conflict", "failed"}
    <3>1. CASE d = c
      BY <1>1, <1>2, <2>1, <3>1 DEF Files!Contents, Files!Ended
    <3>2. CASE d # c
      BY <1>1, <1>2, <1>3, <3>2
         DEF Files!Contents, Files!IInv, Files!FileKept, Files!SaveGuarded
    <3> QED
      BY <3>1, <3>2
  <2> QED
    BY <2>2 DEF Files!SaveGuarded
<1> QED
  BY <1>1, <1>4, <1>5 DEF Files!IInv, Files!ReadSoFar, Files!FileKept, Files!ReadWhole,
     Files!Unchanged

\* A save that ends forgets its call.
LEMMA SaveEnds ==
  ASSUME Files!IInv, NEW c \in Savers, NEW outcome \in Files!Ended,
         Files!Saving(c, Files!NoSave(outcome)), x3' \subseteq x3, c \notin x3'
  PROVE  Files!IInv'
<1>1. /\ Files!NoSave(outcome) \in Files!Saves /\ Files!NoSave(outcome).at = outcome
  BY DEF Files!NoSave, Files!Saves
<1>2. outcome # "renaming"
  BY DEF Files!Ended
<1> QED
  BY <1>1, <1>2, SavingSound

\* A save goes on to another place.
LEMMA StepSound ==
  ASSUME Files!IInv, NEW c \in Savers, NEW from, NEW to, Files!Step(c, from, to),
         from \notin Files!Ended,
         to \in Files!WithTemporary \cup {"comparing", "creating", "syncing"},
         x3' \subseteq x3 \cup {c}, c \in x3' => to \in Files!WithTemporary,
         to = "renaming" => Files!Matches(c)
  PROVE  Files!IInv'
<1> DEFINE s == [x4[c] EXCEPT !.at = to]
<1>1. x4[c].at = from /\ Files!Saving(c, s) /\ x4[c] \in Files!Saves /\ x4[c].text \in Files!Texts
  BY DEF Files!Step, Files!IInv, Files!TypeOK
<1>2. s \in Files!Saves /\ s.at = to /\ s.text = x4[c].text /\ s.expected = x4[c].expected
  BY <1>1 DEF Files!Saves
<1> HIDE DEF s
<1>3. to = "renaming" => Files!Contents \in {s.expected} \cup s.slipped
  BY <1>2 DEF Files!Matches
<1> QED
  BY <1>1, <1>2, <1>3, SavingSound

\* save_text, but for the rename.
LEMMA SaveSound ==
  ASSUME Files!IInv, NEW c \in Savers,
         \/ \E v \in Values, t \in Values : Files!SaveBegins(c, v, Files!Text(t))
         \/ Files!SaveCompares(c) \/ Files!SaveCreates(c) \/ Files!SaveWrites(c)
         \/ Files!SaveRechecks(c) \/ Files!SaveSyncs(c) \/ Files!SaveUnlinks(c)
  PROVE  Files!IInv'
<1>0. c \in x3 => x4[c].at \in Files!WithTemporary
  BY DEF Files!IInv, Files!TypeOK
<1>1. /\ {"conflict", "failed", "saved"} \subseteq Files!Ended
      /\ \A from \in {"comparing", "creating", "syncing"} :
           from \notin Files!Ended /\ from \notin Files!WithTemporary
      /\ \A from \in Files!WithTemporary : from \notin Files!Ended
      /\ {"writing", "rechecking", "renaming", "conflicting"} \subseteq Files!WithTemporary
      /\ "idle" \in Files!Ended
  BY DEF Files!Ended, Files!WithTemporary
<1>2. ASSUME NEW v \in Values, NEW t \in Values, Files!SaveBegins(c, v, Files!Text(t))
      PROVE  Files!IInv'
  <2> DEFINE s == [at |-> "comparing", text |-> Files!Text(v), expected |-> Files!Text(t),
                   slipped |-> {}]
  <2>1. x4[c].at = "idle" /\ Files!Saving(c, s) /\ x3' = x3
    BY <1>2 DEF Files!SaveBegins
  <2>2. Files!Text(v) \in Files!Texts /\ Files!Text(t) \in Files!Texts
    BY DEF Files!Text, Files!Texts
  <2>3. s \in Files!Saves /\ s.at = "comparing" /\ s.text \in Files!Texts
    BY <2>2 DEF Files!Saves
  <2> HIDE DEF s
  <2>4. c \notin x3
    BY <1>0, <1>1, <2>1
  <2> QED
    BY <2>1, <2>3, <2>4, SavingSound
<1>3. CASE Files!SaveCompares(c)
  <2>1. x4[c].at = "comparing" /\ x3' = x3
        /\ \/ Files!Step(c, "comparing", "creating")
           \/ Files!Saving(c, Files!NoSave("conflict"))
           \/ Files!Saving(c, Files!NoSave("failed"))
    BY <1>3 DEF Files!SaveCompares
  <2>2. c \notin x3
    BY <1>0, <1>1, <2>1
  <2> QED
    BY <1>1, <2>1, <2>2, SaveEnds, StepSound
<1>4. CASE Files!SaveCreates(c)
  <2>1. x4[c].at = "creating"
        /\ \/ Files!Step(c, "creating", "writing") /\ x3' = x3 \cup {c}
           \/ Files!Saving(c, Files!NoSave("failed")) /\ x3' = x3
    BY <1>4 DEF Files!SaveCreates
  <2>2. c \notin x3
    BY <1>0, <1>1, <2>1
  <2> QED
    BY <1>1, <2>1, <2>2, SaveEnds, StepSound
<1>5. CASE Files!SaveWrites(c)
  <2>1. Files!Step(c, "writing", "rechecking") /\ x3' = x3
    BY <1>5 DEF Files!SaveWrites
  <2> QED
    BY <1>1, <2>1, StepSound
<1>6. CASE Files!SaveRechecks(c)
  <2>1. x3' = x3 /\ \/ Files!Matches(c) /\ Files!Step(c, "rechecking", "renaming")
                    \/ Files!Step(c, "rechecking", "conflicting")
    BY <1>6 DEF Files!SaveRechecks
  <2> QED
    BY <1>1, <2>1, StepSound
<1>7. CASE Files!SaveSyncs(c)
  <2>1. x4[c].at = "syncing" /\ x3' = x3
        /\ (Files!Saving(c, Files!NoSave("saved")) \/ Files!Saving(c, Files!NoSave("failed")))
    BY <1>7 DEF Files!SaveSyncs
  <2>2. c \notin x3
    BY <1>0, <1>1, <2>1
  <2> QED
    BY <1>1, <2>1, <2>2, SaveEnds
<1>8. CASE Files!SaveUnlinks(c)
  <2>1. x3' = x3 \ {c}
        /\ (Files!Saving(c, Files!NoSave("conflict")) \/ Files!Saving(c, Files!NoSave("failed")))
    BY <1>8 DEF Files!SaveUnlinks
  <2> QED
    BY <1>1, <2>1, SaveEnds
<1> QED
  BY <1>2, <1>3, <1>4, <1>5, <1>6, <1>7, <1>8

\* renameat puts the temporary file's inode under the name.
LEMMA RenameSound ==
  ASSUME Files!IInv, NEW c \in Savers, Files!SaveRenames(c)
  PROVE  Files!IInv'
<1> DEFINE text == x4[c].text  k == Len(x1) + 1  node == [text |-> text, mtime |-> 0]
<1>1. /\ x4[c].at = "renaming" /\ x1' = Append(x1, node) /\ x2' = k /\ x3' = x3 \ {c}
      /\ x4' = [Files!Slip(text) EXCEPT ![c].at = "syncing"] /\ UNCHANGED <<x5, x6>>
      /\ x1 \in Seq(Files!Nodes) /\ x4 \in [Savers -> Files!Saves]
  BY DEF Files!SaveRenames, Files!IInv, Files!TypeOK
<1>2. text \in Files!Texts
  <2>1. "renaming" \notin Files!Ended
    BY DEF Files!Ended
  <2> QED
    BY <1>1, <2>1 DEF Files!IInv, Files!TypeOK
<1>3. node \in Files!Nodes
  BY <1>2 DEF Files!Nodes
<1> HIDE DEF text
<1>4. /\ x1' \in Seq(Files!Nodes) /\ k \in DOMAIN x1' /\ x1'[k].text = text
      /\ \A m \in DOMAIN x1 : m \in DOMAIN x1' /\ x1'[m] = x1[m]
  <2>1. node.text = text
    OBVIOUS
  <2> HIDE DEF node
  <2>2. /\ x1' \in Seq(Files!Nodes) /\ k \in DOMAIN x1' /\ x1'[k] = node
        /\ \A m \in DOMAIN x1 : m \in DOMAIN x1' /\ x1'[m] = x1[m]
    BY <1>1, <1>3
  <2> QED
    BY <2>1, <2>2
<1> HIDE DEF k, node
<1>5. /\ x4' \in [Savers -> Files!Saves] /\ x4'[c].at = "syncing" /\ x4'[c].text = text
      /\ \A d \in Savers : d # c =>
           /\ x4'[d].at = x4[d].at /\ x4'[d].text = x4[d].text /\ x4'[d].expected = x4[d].expected
           /\ x4'[d].slipped = IF x4[d].at = "renaming" THEN x4[d].slipped \cup {text} ELSE x4[d].slipped
  <2> DEFINE z(d) == IF x4[d].at = "renaming" THEN [x4[d] EXCEPT !.slipped = @ \cup {text}] ELSE x4[d]
  <2>1. ASSUME NEW d \in Savers
        PROVE  /\ z(d) \in Files!Saves /\ z(d).at = x4[d].at /\ z(d).text = x4[d].text
               /\ z(d).expected = x4[d].expected
               /\ z(d).slipped = IF x4[d].at = "renaming" THEN x4[d].slipped \cup {text}
                                                          ELSE x4[d].slipped
    <3>1. x4[d] \in Files!Saves
      BY <1>1
    <3> QED
      BY <1>2, <3>1 DEF Files!Saves
  <2>2. Files!Slip(text) = [d \in Savers |-> z(d)]
    BY DEF Files!Slip
  <2>3. x4' = [[d \in Savers |-> z(d)] EXCEPT ![c] = [z(c) EXCEPT !.at = "syncing"]]
    BY <1>1, <2>2
  <2> HIDE DEF z
  <2>4. [z(c) EXCEPT !.at = "syncing"] \in Files!Saves
        /\ [z(c) EXCEPT !.at = "syncing"].at = "syncing"
        /\ [z(c) EXCEPT !.at = "syncing"].text = x4[c].text
    BY <2>1 DEF Files!Saves
  <2>5. x4'[c] = [z(c) EXCEPT !.at = "syncing"] /\ \A d \in Savers : d # c => x4'[d] = z(d)
    BY <2>3
  <2>6. x4' \in [Savers -> Files!Saves]
    BY <2>1, <2>3, <2>4
  <2> QED
    BY <2>1, <2>4, <2>5, <2>6 DEF text
<1>6. Files!TypeOK'
  <2>1. x3' \subseteq {d \in Savers : x4'[d].at \in Files!WithTemporary}
    BY <1>1, <1>5 DEF Files!IInv, Files!TypeOK
  <2>2. \A d \in Savers : x4'[d].at \notin Files!Ended => x4'[d].text \in Files!Texts
    BY <1>2, <1>5 DEF Files!IInv, Files!TypeOK
  <2>3. x6' = <<>> \/ \E n \in DOMAIN x1', v \in Values : x6' = <<[node |-> n, value |-> v]>>
    BY <1>1, <1>4 DEF Files!IInv, Files!TypeOK
  <2> QED
    BY <1>1, <1>4, <1>5, <2>1, <2>2, <2>3 DEF Files!IInv, Files!TypeOK
<1>7. Files!ReadSoFar'
  <2>1. "second" \in Files!UnderWay /\ "checking" \in Files!UnderWay
    BY DEF Files!UnderWay
  <2>2. x5.at \in Files!UnderWay => x5.node \in DOMAIN x1
    BY DEF Files!IInv, Files!ReadSoFar
  <2> QED
    BY <1>1, <1>4, <2>1, <2>2 DEF Files!IInv, Files!ReadSoFar, Files!Unchanged
<1>8. Files!FileKept'
  <2>1. Files!Contents' = text
    BY <1>1, <1>4 DEF Files!Contents
  <2>2. ASSUME NEW d \in Savers
        PROVE  /\ x4'[d].at = "renaming" => text \in {x4'[d].expected} \cup x4'[d].slipped
               /\ d \in x3' => x4'[d].at \notin {"idle", "saved", "conflict", "failed"}
    BY <1>1, <1>5 DEF Files!IInv, Files!FileKept, Files!SaveGuarded
  <2> QED
    BY <1>1, <2>1, <2>2 DEF Files!IInv, Files!FileKept, Files!SaveGuarded, Files!ReadWhole
<1> QED
  BY <1>6, <1>7, <1>8 DEF Files!IInv

\* The file's invariant holds in its initial states and is kept by its steps.
LEMMA FilesInductive ==
  /\ Files!Init => Files!IInv
  /\ Files!IInv /\ [Files!Next]_(Files!vars) => Files!IInv'
<1>1. ASSUME Files!Init PROVE Files!IInv
  <2>1. PICK v \in Values : x1 = <<[text |-> Files!Text(v), mtime |-> 0]>>
    BY <1>1 DEF Files!Init
  <2>2. [text |-> Files!Text(v), mtime |-> 0] \in Files!Nodes
    BY DEF Files!Nodes, Files!Text, Files!Texts
  <2>3. x1 \in Seq(Files!Nodes) /\ 1 \in DOMAIN x1
    BY <2>1, <2>2
  <2>4. Files!NoSave("idle") \in Files!Saves /\ Files!NoSave("idle").at = "idle"
        /\ "idle" \in Files!Ended
    BY DEF Files!NoSave, Files!Saves, Files!Ended
  <2>5. /\ Files!NoRead("idle", <<>>, {}).at = "idle" /\ "idle" \notin Files!UnderWay
        /\ Files!NoRead("idle", <<>>, {})
             \in [at : Files!UnderWay \cup {"idle", "read", "refused"}, node : Nat, seen : Nat,
                  text : Seq(Values), held : SUBSET Files!Texts]
    <3>1. <<>> \in Seq(Values)
      OBVIOUS
    <3> QED
      BY <3>1 DEF Files!NoRead, Files!UnderWay
  <2>6. Files!TypeOK
    BY <1>1, <2>3, <2>4, <2>5 DEF Files!Init, Files!TypeOK
  <2>7. Files!ReadSoFar /\ Files!FileKept
    BY <1>1, <2>4, <2>5 DEF Files!Init, Files!ReadSoFar, Files!FileKept, Files!ReadWhole,
       Files!SaveGuarded, Files!UnderWay
  <2> QED
    BY <2>6, <2>7 DEF Files!IInv
<1>2. ASSUME Files!IInv, [Files!Next]_(Files!vars) PROVE Files!IInv'
  <2>0. x1 \in Seq(Files!Nodes) /\ x2 \in DOMAIN x1
        /\ \A n \in DOMAIN x1 : x1[n].text[1] \in Values /\ x1[n].text[2] \in Values
    <3>1. x1 \in Seq(Files!Nodes) /\ x2 \in DOMAIN x1
      BY <1>2 DEF Files!IInv, Files!TypeOK
    <3>2. \A n \in DOMAIN x1 : x1[n] \in Files!Nodes
      BY <3>1
    <3> QED
      BY <3>1, <3>2, TwoParts DEF Files!Nodes
  <2>1. CASE UNCHANGED Files!vars
    BY <1>2, <2>1 DEF Files!vars, Files!IInv, Files!TypeOK, Files!ReadSoFar, Files!FileKept,
       Files!ReadWhole, Files!SaveGuarded, Files!Contents, Files!Unchanged
  <2>2. ASSUME NEW v \in Values, Files!WriteFirst(v)
        PROVE  Files!IInv'
    <3>1. /\ Files!Store(x2, <<v, Files!Contents[2]>>)
          /\ x6' = <<[node |-> x2, value |-> v]>>
      BY <2>2 DEF Files!WriteFirst
    <3>2. <<v, Files!Contents[2]>> \in Files!Texts
      BY <2>0 DEF Files!Contents, Files!Texts
    <3> QED
      BY <1>2, <2>0, <3>1, <3>2, StoreSound
  <2>3. CASE Files!WriteSecond
    <3>1. x6 # <<>> /\ x6' = <<>>
          /\ Files!Store(x6[1].node, <<x1[x6[1].node].text[1], x6[1].value>>)
      BY <2>3 DEF Files!WriteSecond
    <3>2. x6[1].node \in DOMAIN x1 /\ x6[1].value \in Values
      BY <1>2, <3>1 DEF Files!IInv, Files!TypeOK
    <3>3. <<x1[x6[1].node].text[1], x6[1].value>> \in Files!Texts
      BY <2>0, <3>2 DEF Files!Texts
    <3> QED
      BY <1>2, <3>1, <3>2, <3>3, StoreSound
  <2> QED
    BY <1>2, <2>1, <2>2, <2>3, ReadSound, SaveSound, RenameSound DEF Files!Next
<1> QED
  BY <1>1, <1>2

-----------------------------------------------------------------------------
(* ProjectTree.  Its slots: x1 tree, x2 changes, x3 listing, x4 search,    *)
(* x5 active.                                                              *)

\* One page more of a sequence that is shown up to n.
LEMMA NextPage ==
  ASSUME NEW S, NEW s \in Seq(S), NEW n \in Nat, NEW m \in Nat, n <= m, m <= Len(s)
  PROVE  /\ SubSeq(s, n + 1, m) \in Seq(S) /\ Len(SubSeq(s, n + 1, m)) = m - n
         /\ SubSeq(s, 1, n) \o SubSeq(s, n + 1, m) = SubSeq(s, 1, m)
         /\ SubSeq(s, 1, Len(s)) = s
OBVIOUS

\* Taking a file out or putting one in front leaves a sequence of files.
LEMMA ChangedTree ==
  ASSUME NEW S, NEW s \in Seq(S), NEW e \in S
  PROVE  /\ \A k \in DOMAIN s : SubSeq(s, 1, k - 1) \o SubSeq(s, k + 1, Len(s)) \in Seq(S)
         /\ <<e>> \o s \in Seq(S)
<1>1. ASSUME NEW k \in 1 .. Len(s)
      PROVE  SubSeq(s, 1, k - 1) \o SubSeq(s, k + 1, Len(s)) \in Seq(S)
  <2>1. SubSeq(s, 1, k - 1) \in Seq(S) /\ SubSeq(s, k + 1, Len(s)) \in Seq(S)
    OBVIOUS
  <2> QED
    BY <2>1, ConcatProperties
<1>2. <<e>> \o s \in Seq(S)
  <2>1. <<e>> \in Seq(S)
    OBVIOUS
  <2> QED
    BY <2>1, ConcatProperties
<1>3. DOMAIN s = 1 .. Len(s)
  OBVIOUS
<1> QED
  BY <1>1, <1>2, <1>3

\* Other programs change the directory.
LEMMA ChangeSound ==
  ASSUME Tree!IInv, Tree!Change
  PROVE  Tree!IInv'
<1>1. x1 \in Seq(Tree!Files) /\ x2 \in Nat /\ x2' = x2 + 1 /\ UNCHANGED <<x3, x4, x5>>
  BY DEF Tree!Change, Tree!IInv, Tree!TypeOK
<1>2. x1' \in Seq(Tree!Files)
  <2> DEFINE e == [name |-> MaxFiles + x2 + 1, matches |-> 1]
  <2>1. e \in Tree!Files
    BY <1>1, TreeAssumption DEF Tree!Files
  <2>2. \/ \E k \in DOMAIN x1 : x1' = SubSeq(x1, 1, k - 1) \o SubSeq(x1, k + 1, Len(x1))
        \/ x1' = <<e>> \o x1
    BY DEF Tree!Change
  <2> HIDE DEF e
  <2> QED
    BY <1>1, <2>1, <2>2, ChangedTree
<1>3. x3.since \in Nat /\ x3.since <= x2 /\ x3.since # x2' /\ x3.since <= x2'
  BY <1>1 DEF Tree!IInv, Tree!TypeOK, Tree!PagesSoFar
<1> QED
  BY <1>1, <1>2, <1>3 DEF Tree!IInv, Tree!TypeOK, Tree!PagesSoFar, Tree!SearchSoFar,
     Tree!TreeReported, Tree!PagesComplete, Tree!SearchHonest

\* DirectoryService::list.
LEMMA ListingSound ==
  ASSUME Tree!IInv, Tree!ListBegins \/ Tree!ListPage \/ Tree!ListFails
  PROVE  Tree!IInv'
<1>0. UNCHANGED <<x1, x2, x4, x5>>
  BY DEF Tree!ListBegins, Tree!ListPage, Tree!ListFails
<1>1. CASE Tree!ListBegins
  <2>1. x1 \in Seq(Tree!Files) /\ x2 \in Nat
        /\ x3' = [at |-> "paging", cursor |-> 0, shown |-> <<>>, since |-> x2]
    BY <1>1 DEF Tree!ListBegins, Tree!IInv, Tree!TypeOK, Tree!NoListing
  <2>2. SubSeq(x1, 1, 0) = <<>> /\ <<>> \in Seq(Tree!Files)
    OBVIOUS
  <2> QED
    BY <1>0, <2>1, <2>2 DEF Tree!IInv, Tree!TypeOK, Tree!PagesSoFar, Tree!SearchSoFar,
       Tree!TreeReported, Tree!PagesComplete, Tree!SearchHonest
<1>2. CASE Tree!ListFails
  BY <1>2 DEF Tree!ListFails, Tree!IInv, Tree!TypeOK, Tree!PagesSoFar, Tree!SearchSoFar,
     Tree!TreeReported, Tree!PagesComplete, Tree!SearchHonest
<1>3. CASE Tree!ListPage
  <2> DEFINE n == x3.cursor  m == Tree!PageEnd(n)  page == Tree!PageFrom(n)
  <2>1. /\ x1 \in Seq(Tree!Files) /\ x2 \in Nat /\ n \in Nat /\ x3.since \in Nat
        /\ x3.shown \in Seq(Tree!Files) /\ x3.at = "paging"
        /\ x3' = [at |-> IF Tree!More(n) THEN "paging" ELSE "listed", cursor |-> n + Len(page),
                  shown |-> x3.shown \o page, since |-> x3.since]
    BY <1>3 DEF Tree!ListPage, Tree!IInv, Tree!TypeOK
  <2>2. m \in Nat /\ m <= Len(x1) /\ page = SubSeq(x1, n + 1, m)
        /\ (n <= Len(x1) => n <= m) /\ (~Tree!More(n) => m = Len(x1))
    BY <2>1, TreeAssumption DEF Tree!PageEnd, Tree!PageFrom, Tree!More
  <2> HIDE DEF n, m, page
  <2>3. page \in Seq(Tree!Files) /\ Len(page) \in Nat
    BY <2>1, <2>2
  <2>4. x3.shown \o page \in Seq(Tree!Files)
    BY <2>1, <2>3, ConcatProperties
  <2>5. Tree!TypeOK'
    BY <1>0, <2>1, <2>3, <2>4 DEF Tree!IInv, Tree!TypeOK
  <2>6. x3.since = x2 => /\ n + Len(page) = m /\ x3.shown \o page = SubSeq(x1, 1, m)
                         /\ SubSeq(x1, 1, Len(x1)) = x1
    <3>1. SUFFICES ASSUME x3.since = x2
                   PROVE  /\ n + Len(page) = m /\ x3.shown \o page = SubSeq(x1, 1, m)
                          /\ SubSeq(x1, 1, Len(x1)) = x1
      OBVIOUS
    <3>2. n <= Len(x1) /\ x3.shown = SubSeq(x1, 1, n)
      BY <2>1, <3>1 DEF Tree!IInv, Tree!PagesSoFar, n
    <3>3. /\ Len(SubSeq(x1, n + 1, m)) = m - n
          /\ SubSeq(x1, 1, n) \o SubSeq(x1, n + 1, m) = SubSeq(x1, 1, m)
          /\ SubSeq(x1, 1, Len(x1)) = x1
      BY <2>1, <2>2, <3>2, NextPage
    <3>4. n \in Nat /\ m \in Nat /\ page = SubSeq(x1, n + 1, m)
      BY <2>1, <2>2
    <3>5. n + Len(page) = m
      BY <3>3, <3>4
    <3>6. x3.shown \o page = SubSeq(x1, 1, m)
      BY <3>2, <3>3, <3>4
    <3> QED
      BY <3>3, <3>5, <3>6
  <2>7. Tree!PagesSoFar'
    BY <1>0, <2>1, <2>2, <2>6 DEF Tree!IInv, Tree!PagesSoFar
  <2>8. Tree!PagesComplete'
    BY <1>0, <2>1, <2>2, <2>6 DEF Tree!PagesComplete
  <2> QED
    BY <1>0, <2>5, <2>7, <2>8 DEF Tree!IInv, Tree!SearchSoFar, Tree!TreeReported, Tree!SearchHonest
<1> QED
  BY <1>1, <1>2, <1>3

\* ProjectManager::search and RepositorySearch::run.
LEMMA SearchSound ==
  ASSUME Tree!IInv,
         Tree!SearchBegins \/ Tree!Walk \/ Tree!WalkFails \/ Tree!Match \/ Tree!SearchEnds
  PROVE  Tree!IInv'
<1>0. UNCHANGED <<x1, x2, x3>> /\ x1 \in Seq(Tree!Files) /\ MaximumResults \in Nat
  BY TreeAssumption DEF Tree!SearchBegins, Tree!Walk, Tree!WalkFails, Tree!Match, Tree!SearchEnds,
     Tree!Searching, Tree!IInv, Tree!TypeOK
<1>1. Tree!PagesSoFar' /\ Tree!PagesComplete'
  BY <1>0 DEF Tree!IInv, Tree!PagesSoFar, Tree!TreeReported, Tree!PagesComplete
<1>2. SUFFICES Tree!TypeOK' /\ Tree!SearchSoFar' /\ Tree!SearchHonest'
  BY <1>1 DEF Tree!IInv, Tree!TreeReported
<1>3. CASE Tree!SearchBegins
  <2>1. /\ x4' \in Tree!Searches /\ x4'.at = "walking" /\ x4'.left = 0 /\ x4'.matches = 0
        /\ x4'.limit = FALSE
    BY <1>0, <1>3 DEF Tree!SearchBegins, Tree!Searching, Tree!NoSearch, Tree!Searches
  <2> QED
    BY <1>0, <2>1 DEF Tree!IInv, Tree!TypeOK, Tree!SearchSoFar, Tree!SearchHonest
<1>4. CASE Tree!Walk
  <2> DEFINE s == x4
  <2>0. s \in Tree!Searches /\ s.at = "walking" /\ s.left = 0 /\ s.limit = FALSE
        /\ s.matches <= MaximumResults
    BY <1>4 DEF Tree!Walk, Tree!IInv, Tree!TypeOK, Tree!SearchSoFar, Tree!Searches
  <2>1. ASSUME s.walker # <<>>
        PROVE  /\ Tail(s.walker) \in Seq(Tree!Files) /\ s.walker[1].matches \in Nat
    <3>1. s.walker \in Seq(Tree!Files)
      BY <2>0 DEF Tree!Searches
    <3>2. Tail(s.walker) \in Seq(Tree!Files) /\ s.walker[1] \in Tree!Files
      BY <2>1, <3>1
    <3> QED
      BY <3>2 DEF Tree!Files
  <2>2. CASE s.walker = <<>> \/ Tree!Flagged
    <3>1. /\ x4' \in Tree!Searches /\ x4'.at = "ending" /\ x4'.limit = FALSE /\ x4'.left = 0
          /\ x4'.matches = s.matches /\ x4'.walker = s.walker
          /\ s.walker = <<>> \/ x4'.cancelled = TRUE
      BY <1>4, <2>0, <2>2 DEF Tree!Walk, Tree!Searching, Tree!Stop, Tree!Searches
    <3> QED
      BY <1>0, <2>0, <3>1 DEF Tree!IInv, Tree!TypeOK, Tree!SearchSoFar, Tree!SearchHonest
  <2>3. CASE s.walker # <<>> /\ ~Tree!Flagged
    <3>1. \/ x4' = [s EXCEPT !.walker = Tail(s.walker), !.at = "matching", !.left = s.walker[1].matches]
          \/ x4' = [s EXCEPT !.walker = Tail(s.walker), !.skipped = s.skipped + 1]
      BY <1>4, <2>0, <2>3 DEF Tree!Walk, Tree!Searching, Tree!Searches
    <3>2. /\ x4' \in Tree!Searches /\ x4'.limit = FALSE /\ x4'.matches = s.matches
          /\ (x4'.at = "walking" /\ x4'.left = 0) \/ x4'.at = "matching"
      <4> DEFINE w == Tail(s.walker)  k == s.walker[1].matches
      <4>1. w \in Seq(Tree!Files) /\ k \in Nat /\ s.skipped + 1 \in Nat
        BY <2>0, <2>1, <2>3 DEF Tree!Searches
      <4>2. \/ x4' = [s EXCEPT !.walker = w, !.at = "matching", !.left = k]
            \/ x4' = [s EXCEPT !.walker = w, !.skipped = s.skipped + 1]
        BY <3>1
      <4> HIDE DEF w, k
      <4> QED
        BY <2>0, <4>1, <4>2 DEF Tree!Searches
    <3> QED
      BY <1>0, <2>0, <3>2 DEF Tree!IInv, Tree!TypeOK, Tree!SearchSoFar, Tree!SearchHonest
  <2> QED
    BY <2>2, <2>3
<1>5. CASE Tree!WalkFails \/ Tree!SearchEnds
  BY <1>0, <1>5 DEF Tree!WalkFails, Tree!SearchEnds, Tree!Searching, Tree!IInv, Tree!TypeOK,
     Tree!Searches, Tree!SearchSoFar, Tree!SearchHonest, Tree!TreeReported
<1>6. CASE Tree!Match
  <2> DEFINE s == x4
  <2>1. s \in Tree!Searches /\ s.at = "matching" /\ s.limit = FALSE /\ s.matches <= MaximumResults
        /\ s.matches \in Nat /\ s.left \in Nat
    BY <1>6 DEF Tree!Match, Tree!IInv, Tree!TypeOK, Tree!SearchSoFar, Tree!Searches
  <2>2. /\ x4' \in Tree!Searches /\ x4'.matches <= MaximumResults
        /\ \/ x4'.at = "ending" /\ x4'.cancelled = TRUE /\ x4'.limit = FALSE
           \/ x4'.at = "walking" /\ x4'.left = 0 /\ x4'.limit = FALSE
           \/ x4'.at = "ending" /\ x4'.limit = TRUE /\ x4'.matches = MaximumResults /\ x4'.left > 0
           \/ x4'.at = "matching" /\ x4'.limit = FALSE
    <3>1. \/ x4' = [s EXCEPT !.at = "ending", !.cancelled = TRUE]
          \/ x4' = [s EXCEPT !.at = "walking"] /\ s.left = 0
          \/ x4' = [s EXCEPT !.at = "ending", !.limit = TRUE] /\ s.left # 0
             /\ s.matches = MaximumResults
          \/ x4' = [s EXCEPT !.left = s.left - 1, !.matches = s.matches + 1] /\ s.left # 0
             /\ s.matches # MaximumResults
      BY <1>6, <2>1 DEF Tree!Match, Tree!Searching, Tree!Stop, Tree!AtLimit, Tree!Searches
    <3>2. CASE x4' = [s EXCEPT !.at = "ending", !.cancelled = TRUE]
      BY <2>1, <3>2 DEF Tree!Searches
    <3>3. CASE x4' = [s EXCEPT !.at = "walking"] /\ s.left = 0
      BY <2>1, <3>3 DEF Tree!Searches
    <3>4. CASE x4' = [s EXCEPT !.at = "ending", !.limit = TRUE] /\ s.left # 0
               /\ s.matches = MaximumResults
      <4>1. s.left > 0 /\ s.matches <= MaximumResults
        BY <2>1, <3>4
      <4> QED
        BY <2>1, <3>4, <4>1 DEF Tree!Searches
    <3>5. CASE x4' = [s EXCEPT !.left = s.left - 1, !.matches = s.matches + 1] /\ s.left # 0
               /\ s.matches # MaximumResults
      <4>1. s.left - 1 \in Nat /\ s.matches + 1 \in Nat /\ s.matches + 1 <= MaximumResults
        BY <1>0, <2>1, <3>5
      <4> QED
        BY <2>1, <3>5, <4>1 DEF Tree!Searches
    <3> QED
      BY <3>1, <3>2, <3>3, <3>4, <3>5
  <2> QED
    BY <1>0, <2>2 DEF Tree!IInv, Tree!TypeOK, Tree!SearchSoFar, Tree!SearchHonest
<1> QED
  BY <1>3, <1>4, <1>5, <1>6

\* The tree's invariant holds in its initial states and is kept by its steps.
LEMMA TreeInductive ==
  /\ Tree!Init => Tree!IInv
  /\ Tree!IInv /\ [Tree!Next]_(Tree!vars) => Tree!IInv'
<1>1. ASSUME Tree!Init PROVE Tree!IInv
  <2>0. PICK n \in 0 .. MaxFiles : \E f \in [1 .. n -> 0 .. 2] :
          x1 = [k \in 1 .. n |-> [name |-> k, matches |-> f[k]]]
    BY <1>1 DEF Tree!Init
  <2>1. PICK f \in [1 .. n -> 0 .. 2] : x1 = [k \in 1 .. n |-> [name |-> k, matches |-> f[k]]]
    BY <2>0
  <2>2. n \in Nat /\ \A k \in 1 .. n : [name |-> k, matches |-> f[k]] \in Tree!Files
    BY TreeAssumption DEF Tree!Files
  <2>3. x1 \in Seq(Tree!Files)
    BY <2>1, <2>2
  <2>4. <<>> \in Seq(Tree!Files)
    OBVIOUS
  <2> QED
    BY <1>1, <2>3, <2>4, TreeAssumption DEF Tree!Init, Tree!NoListing, Tree!NoSearch, Tree!IInv,
       Tree!TypeOK, Tree!Searches, Tree!PagesSoFar, Tree!SearchSoFar, Tree!TreeReported, Tree!PagesComplete,
       Tree!SearchHonest
<1>2. ASSUME Tree!IInv, [Tree!Next]_(Tree!vars) PROVE Tree!IInv'
  <2>1. CASE UNCHANGED Tree!vars \/ Tree!CancelSearch
    BY <1>2, <2>1 DEF Tree!vars, Tree!CancelSearch, Tree!IInv, Tree!TypeOK, Tree!PagesSoFar,
       Tree!SearchSoFar, Tree!TreeReported, Tree!PagesComplete, Tree!SearchHonest
  <2> QED
    BY <1>2, <2>1, ChangeSound, ListingSound, SearchSound DEF Tree!Next
<1> QED
  BY <1>1, <1>2

-----------------------------------------------------------------------------
(* AgentAdapter.  Its slots: x1 claims, x2 handle, x3 releasing, x4 events, *)
(* x5 taken, x6 answered, x7 operations.                                   *)

\* Where the events of a stream are after one more.
LEMMA PlacesAppend ==
  ASSUME NEW S, NEW s \in Seq(S), NEW k \in S, NEW j
  PROVE  /\ Append(s, k) \in Seq(S) /\ Append(s, k) # <<>> /\ Len(Append(s, k)) = Len(s) + 1
         /\ Adapter!Places(s, j) \subseteq 1 .. Len(s)
         /\ Adapter!Places(Append(s, k), j)
              = Adapter!Places(s, j) \cup IF j = k THEN {Len(s) + 1} ELSE {}
<1> DEFINE a == Append(s, k)
<1>1. /\ a \in Seq(S) /\ Len(a) = Len(s) + 1 /\ Len(s) \in Nat /\ DOMAIN s = 1 .. Len(s)
      /\ DOMAIN a = 1 .. Len(s) + 1
      /\ a[Len(s) + 1] = k /\ \A i \in 1 .. Len(s) : a[i] = s[i]
  OBVIOUS
<1>2. \A i \in 1 .. Len(s) + 1 : i \in 1 .. Len(s) \/ i = Len(s) + 1
  BY <1>1
<1> HIDE DEF a
<1>3. Adapter!Places(a, j) = Adapter!Places(s, j) \cup IF j = k THEN {Len(s) + 1} ELSE {}
  BY <1>1, <1>2 DEF Adapter!Places
<1>4. a # <<>>
  BY <1>1
<1>5. Adapter!Places(s, j) \subseteq 1 .. Len(s)
  BY <1>1 DEF Adapter!Places
<1> QED
  BY <1>1, <1>3, <1>4, <1>5 DEF a

\* An event that is neither ready nor stopped keeps a stream in order.
LEMMA OrderedAppend ==
  ASSUME NEW s \in Seq(Adapter!EventKinds), s # <<>>,
         NEW replies \in SUBSET Adapter!RequestKinds, NEW k \in Adapter!EventKinds,
         Adapter!InOrder(s, FALSE, replies), k \notin {"ready", "stopped"}, k \notin replies
  PROVE  Adapter!InOrder(Append(s, k), FALSE, replies \cup ({k} \cap Adapter!RequestKinds))
<1> DEFINE a == Append(s, k)
<1>1. \A j : /\ a \in Seq(Adapter!EventKinds) /\ a # <<>> /\ Len(a) = Len(s) + 1
             /\ Adapter!Places(s, j) \subseteq 1 .. Len(s)
             /\ Adapter!Places(a, j) = Adapter!Places(s, j) \cup IF j = k THEN {Len(s) + 1} ELSE {}
  BY PlacesAppend
<1>2. Adapter!Places(a, "ready") = {1} /\ Adapter!Places(a, "stopped") = {}
  BY <1>1 DEF Adapter!InOrder
<1>3. ASSUME NEW j \in Adapter!RequestKinds
      PROVE  IF j \in replies \cup {k} THEN \E i \in DOMAIN a : Adapter!Places(a, j) = {i}
             ELSE Adapter!Places(a, j) = {}
  <2>1. CASE j = k
    <3>1. Adapter!Places(s, j) = {}
      BY <2>1 DEF Adapter!InOrder
    <3>2. Adapter!Places(a, j) = {Len(s) + 1} /\ Len(s) + 1 \in DOMAIN a
      BY <1>1, <2>1, <3>1
    <3> QED
      BY <2>1, <3>2
  <2>2. CASE j # k
    <3>1. Adapter!Places(a, j) = Adapter!Places(s, j)
      BY <1>1, <2>2
    <3>2. DOMAIN s \subseteq DOMAIN a
      BY <1>1
    <3> QED
      BY <2>2, <3>1, <3>2 DEF Adapter!InOrder
  <2> QED
    BY <2>1, <2>2
<1> HIDE DEF a
<1>4. \A j \in Adapter!RequestKinds :
        j \in replies \cup ({k} \cap Adapter!RequestKinds) <=> j \in replies \cup {k}
  OBVIOUS
<1>5. Adapter!InOrder(a, FALSE, replies \cup ({k} \cap Adapter!RequestKinds))
  BY <1>2, <1>3, <1>4 DEF Adapter!InOrder
<1> QED
  BY <1>5 DEF a

\* Stopped is the last event.
LEMMA OrderedStop ==
  ASSUME NEW s \in Seq(Adapter!EventKinds), s # <<>>,
         NEW replies \in SUBSET Adapter!RequestKinds, Adapter!InOrder(s, FALSE, replies)
  PROVE  Adapter!InOrder(Append(s, "stopped"), TRUE, replies)
<1> DEFINE a == Append(s, "stopped")
<1>0. "stopped" \in Adapter!EventKinds /\ "stopped" \notin Adapter!RequestKinds
  BY DEF Adapter!EventKinds, Adapter!RequestKinds
<1>1. \A j : /\ a \in Seq(Adapter!EventKinds) /\ a # <<>> /\ Len(a) = Len(s) + 1
             /\ Adapter!Places(a, j) = Adapter!Places(s, j)
                  \cup IF j = "stopped" THEN {Len(s) + 1} ELSE {}
  BY <1>0, PlacesAppend
<1>2. DOMAIN s \subseteq DOMAIN a
  BY <1>1
<1> HIDE DEF a
<1>3. Adapter!Places(a, "ready") = {1} /\ Adapter!Places(a, "stopped") = {Len(a)}
  BY <1>1 DEF Adapter!InOrder
<1>4. \A j \in Adapter!RequestKinds : Adapter!Places(a, j) = Adapter!Places(s, j)
  BY <1>0, <1>1
<1>5. Adapter!InOrder(a, TRUE, replies)
  BY <1>2, <1>3, <1>4 DEF Adapter!InOrder
<1> QED
  BY <1>5 DEF a
\* What is appended to the end of a sequence is appended to the whole.
LEMMA Regrouped ==
  ASSUME NEW S, NEW s \in Seq(S), NEW t \in Seq(S), NEW u \in Seq(S)
  PROVE  s \o (t \o u) = (s \o t) \o u
BY ConcatAssociative

\* The streams are sequences of events.
LEMMA StreamTyped ==
  ASSUME Adapter!TypeOK, NEW r \in AdapterRuns
  PROVE  /\ x5[r] \in Seq(Adapter!EventKinds) /\ x4[r] \in Seq(Adapter!EventKinds)
         /\ Adapter!Stream(r) \in Seq(Adapter!EventKinds)
         /\ x6[r] \in SUBSET Adapter!RequestKinds
<1>1. x5[r] \in Seq(Adapter!EventKinds) /\ x4[r] \in Seq(Adapter!EventKinds)
  BY DEF Adapter!TypeOK
<1>2. x5[r] \o x4[r] \in Seq(Adapter!EventKinds)
  BY <1>1, ConcatProperties
<1>3. x6[r] \in SUBSET Adapter!RequestKinds
  BY DEF Adapter!TypeOK
<1> QED
  BY <1>1, <1>2, <1>3 DEF Adapter!Stream

\* A step that leaves claims and handles alone leaves the writers alone.
LEMMA ClaimsKept ==
  ASSUME Adapter!WriterClaims, UNCHANGED <<x1, x2, x3>>
  PROVE  Adapter!WriterClaims'
BY DEF Adapter!WriterClaims, Adapter!Writes

\* An operation queues events, in order, to an open session.
LEMMA OperationSound ==
  ASSUME Adapter!IInv, NEW r \in AdapterRuns, NEW queued \in Seq(Adapter!EventKinds),
         Adapter!Operation(r, queued),
         NEW replies \in SUBSET Adapter!RequestKinds, x6' = [x6 EXCEPT ![r] = replies],
         Adapter!InOrder(Adapter!Stream(r) \o queued, FALSE, replies)
  PROVE  Adapter!IInv'
<1>1. /\ x2[r].kind = "session" /\ x2[r].stopped = FALSE
      /\ x4' = [x4 EXCEPT ![r] = x4[r] \o queued] /\ UNCHANGED <<x1, x2, x3, x5>>
  BY DEF Adapter!Operation, Adapter!EnsureOpen, Adapter!IInv, Adapter!TypeOK
<1>2. Adapter!TypeOK'
  <2>1. x4[r] \o queued \in Seq(Adapter!EventKinds)
    BY StreamTyped, ConcatProperties DEF Adapter!IInv
  <2> QED
    BY <1>1, <2>1 DEF Adapter!IInv, Adapter!TypeOK
<1>3. /\ Adapter!Stream(r)' = Adapter!Stream(r) \o queued /\ Adapter!Stream(r)' # <<>>
      /\ x4'[r] = x4[r] \o queued
  <2>1. x4'[r] = x4[r] \o queued /\ x5'[r] = x5[r]
    BY <1>1 DEF Adapter!IInv, Adapter!TypeOK
  <2>2. x5[r] \o (x4[r] \o queued) = (x5[r] \o x4[r]) \o queued
    <3> DEFINE S == Adapter!EventKinds  t == x5[r]  u == x4[r]
    <3>1. t \in Seq(S) /\ u \in Seq(S) /\ queued \in Seq(S)
      BY StreamTyped DEF Adapter!IInv
    <3> HIDE DEF S, t, u
    <3>2. t \o (u \o queued) = (t \o u) \o queued
      BY <3>1, Regrouped
    <3> QED
      BY <3>2 DEF t, u
  <2>3. Adapter!Stream(r) \o queued # <<>>
    BY <1>1, StreamTyped, ConcatEqualIffEmpty DEF Adapter!IInv, Adapter!Begun
  <2> QED
    BY <2>1, <2>2, <2>3 DEF Adapter!Stream
<1>4. \A q \in AdapterRuns : q # r =>
        /\ x4'[q] = x4[q] /\ x5'[q] = x5[q] /\ x6'[q] = x6[q]
        /\ Adapter!Stream(q)' = Adapter!Stream(q)
  BY <1>1 DEF Adapter!Stream, Adapter!IInv, Adapter!TypeOK
<1>5. Adapter!Begun'
  BY <1>1, <1>3, <1>4 DEF Adapter!IInv, Adapter!Begun, Adapter!Unused
<1>6. Adapter!StreamInOrder'
  <2>1. x6'[r] = replies /\ x2'[r].stopped = FALSE
    BY <1>1 DEF Adapter!IInv, Adapter!TypeOK
  <2>2. Adapter!InOrder(Adapter!Stream(r)', x2'[r].stopped, x6'[r])
    BY <1>3, <2>1
  <2>3. ASSUME NEW q \in AdapterRuns, q # r, Adapter!Stream(q)' # <<>>
        PROVE  Adapter!InOrder(Adapter!Stream(q)', x2'[q].stopped, x6'[q])
    BY <1>1, <1>4, <2>3 DEF Adapter!IInv, Adapter!AdapterSound, Adapter!StreamInOrder
  <2> QED
    BY <2>2, <2>3 DEF Adapter!StreamInOrder
<1> QED
  BY <1>1, <1>2, <1>5, <1>6, ClaimsKept DEF Adapter!IInv, Adapter!AdapterSound

\* send_turn, the annotating operations and the answers.
LEMMA OperationsSound ==
  ASSUME Adapter!IInv, NEW r \in AdapterRuns,
         Adapter!SendTurn(r) \/ Adapter!Annotate(r) \/ Adapter!Resolve(r)
  PROVE  Adapter!IInv'
<1> DEFINE s == Adapter!Stream(r)
<1>1. /\ s \in Seq(Adapter!EventKinds) /\ s # <<>> /\ x6[r] \in SUBSET Adapter!RequestKinds
      /\ x6 = [x6 EXCEPT ![r] = x6[r]] /\ Adapter!InOrder(s, FALSE, x6[r])
  <2>1. x2[r].kind = "session" /\ x2[r].stopped = FALSE
    BY DEF Adapter!SendTurn, Adapter!Annotate, Adapter!Resolve, Adapter!Operation,
           Adapter!EnsureOpen, Adapter!IInv, Adapter!TypeOK
  <2>2. s # <<>> /\ Adapter!InOrder(s, FALSE, x6[r])
    BY <2>1 DEF Adapter!IInv, Adapter!Begun, Adapter!AdapterSound, Adapter!StreamInOrder
  <2>3. x6 = [x6 EXCEPT ![r] = x6[r]]
    BY DEF Adapter!IInv, Adapter!TypeOK
  <2> QED
    BY <2>2, <2>3, StreamTyped DEF Adapter!IInv
<1>2. \A k \in {"console", "accepted"} : k \in Adapter!EventKinds /\ k \notin Adapter!RequestKinds
  BY DEF Adapter!EventKinds, Adapter!RequestKinds
<1> HIDE DEF s
<1>3. /\ Adapter!InOrder(Append(s, "console"), FALSE, x6[r])
      /\ Append(s, "console") \in Seq(Adapter!EventKinds) /\ Append(s, "console") # <<>>
  <2>1. x6[r] \cup ({"console"} \cap Adapter!RequestKinds) = x6[r] /\ "console" \notin x6[r]
    BY <1>1, <1>2
  <2>2. Adapter!InOrder(Append(s, "console"), FALSE, x6[r])
    <3>1. "console" \in Adapter!EventKinds /\ "console" \notin {"ready", "stopped"}
      BY <1>2
    <3>2. Adapter!InOrder(Append(s, "console"), FALSE,
                          x6[r] \cup ({"console"} \cap Adapter!RequestKinds))
      BY <1>1, <2>1, <3>1, OrderedAppend
    <3> QED
      BY <2>1, <3>2
  <2>3. "console" \in Adapter!EventKinds
    BY <1>2
  <2>4. Append(s, "console") \in Seq(Adapter!EventKinds) /\ Append(s, "console") # <<>>
    BY <1>1, <2>3, PlacesAppend
  <2> QED
    BY <2>2, <2>4
<1>4. CASE Adapter!SendTurn(r)
  <2> DEFINE t == Append(s, "console")
  <2>1. x6[r] \cup ({"accepted"} \cap Adapter!RequestKinds) = x6[r] /\ "accepted" \notin x6[r]
    BY <1>1, <1>2
  <2>2. Adapter!InOrder(Append(t, "accepted"), FALSE, x6[r])
    <3>1. "accepted" \in Adapter!EventKinds /\ "accepted" \notin {"ready", "stopped"}
      BY <1>2
    <3>2. t \in Seq(Adapter!EventKinds) /\ t # <<>> /\ Adapter!InOrder(t, FALSE, x6[r])
      BY <1>3
    <3> HIDE DEF t
    <3>3. Adapter!InOrder(Append(t, "accepted"), FALSE,
                          x6[r] \cup ({"accepted"} \cap Adapter!RequestKinds))
      BY <1>1, <2>1, <3>1, <3>2, OrderedAppend
    <3> QED
      BY <2>1, <3>3
  <2>3. Append(t, "accepted") = s \o <<"console", "accepted">>
    BY <1>1, <1>2
  <2>4. <<"console", "accepted">> \in Seq(Adapter!EventKinds)
    BY <1>2
  <2>5. Adapter!Operation(r, <<"console", "accepted">>) /\ x6' = [x6 EXCEPT ![r] = x6[r]]
    BY <1>1, <1>4 DEF Adapter!SendTurn
  <2>6. Adapter!InOrder(s \o <<"console", "accepted">>, FALSE, x6[r])
    BY <2>2, <2>3
  <2> QED
    BY <1>1, <2>4, <2>5, <2>6, OperationSound DEF s
<1>5. CASE Adapter!Annotate(r)
  <2>1. Adapter!Operation(r, <<"console">>) /\ x6' = [x6 EXCEPT ![r] = x6[r]]
    BY <1>1, <1>5 DEF Adapter!Annotate
  <2>2. <<"console">> \in Seq(Adapter!EventKinds)
    BY <1>2
  <2>3. Adapter!InOrder(s \o <<"console">>, FALSE, x6[r])
    <3>1. Append(s, "console") = s \o <<"console">>
      BY <1>1, <1>2, AppendIsConcat
    <3> QED
      BY <1>3, <3>1
  <2> QED
    BY <1>1, <2>1, <2>2, <2>3, OperationSound DEF s
<1>6. CASE Adapter!Resolve(r)
  <2>1. PICK k \in Adapter!RequestKinds \ x6[r] :
          Adapter!Operation(r, <<k>>) /\ x6' = [x6 EXCEPT ![r] = x6[r] \cup {k}]
    BY <1>6 DEF Adapter!Resolve
  <2>2. /\ k \in Adapter!EventKinds /\ k \notin {"ready", "stopped"}
        /\ x6[r] \cup ({k} \cap Adapter!RequestKinds) = x6[r] \cup {k}
        /\ x6[r] \cup {k} \in SUBSET Adapter!RequestKinds
    BY <1>1 DEF Adapter!EventKinds, Adapter!RequestKinds
  <2>3. Adapter!InOrder(Append(s, k), FALSE, x6[r] \cup {k})
    BY <1>1, <2>2, OrderedAppend
  <2>4. Append(s, k) = s \o <<k>> /\ <<k>> \in Seq(Adapter!EventKinds)
    BY <1>1, <2>2, AppendIsConcat
  <2>5. Adapter!InOrder(s \o <<k>>, FALSE, x6[r] \cup {k})
    BY <2>3, <2>4
  <2> QED
    BY <2>1, <2>2, <2>4, <2>5, OperationSound DEF s
<1> QED
  BY <1>4, <1>5, <1>6

\* start_session and resume_session.
LEMMA SessionSound ==
  ASSUME Adapter!IInv, NEW r \in AdapterRuns, NEW b \in Bindings, Adapter!Session(r, b)
  PROVE  Adapter!IInv'
<1> DEFINE h == [kind |-> "session", binding |-> b, stopped |-> FALSE]
<1>1. /\ x1[b] = NoRun /\ x1' = [x1 EXCEPT ![b] = r] /\ x2' = [x2 EXCEPT ![r] = h]
      /\ x4' = [x4 EXCEPT ![r] = <<"ready">>] /\ UNCHANGED <<x3, x5, x6>>
      /\ x2[r] = Adapter!Unused /\ x3[r] = 0 /\ x5[r] = <<>> /\ x6[r] = {}
  BY DEF Adapter!Session, Adapter!ClaimBinding, Adapter!IInv, Adapter!Begun
<1>2. Adapter!TypeOK'
  <2>1. <<"ready">> \in Seq(Adapter!EventKinds)
    BY DEF Adapter!EventKinds
  <2> QED
    BY <1>1, <2>1 DEF Adapter!IInv, Adapter!TypeOK
<1>3. /\ x1'[b] = r /\ \A c \in Bindings : c # b => x1'[c] = x1[c]
      /\ x2'[r] = h /\ \A q \in AdapterRuns : q # r => x2'[q] = x2[q]
      /\ x4'[r] = <<"ready">> /\ \A q \in AdapterRuns : q # r => x4'[q] = x4[q]
  BY <1>1 DEF Adapter!IInv, Adapter!TypeOK
<1>4. /\ Adapter!Stream(r)' = <<"ready">> /\ <<"ready">> # <<>>
      /\ \A q \in AdapterRuns : q # r => Adapter!Stream(q)' = Adapter!Stream(q)
  <2>1. <<>> \o <<"ready">> = <<"ready">> /\ <<"ready">> # <<>>
    OBVIOUS
  <2>2. Adapter!Stream(r)' = <<>> \o <<"ready">>
    BY <1>1, <1>3 DEF Adapter!Stream
  <2> QED
    BY <1>1, <1>3, <2>1, <2>2 DEF Adapter!Stream
<1>5. Adapter!Begun'
  <2>1. x2'[r].kind = "session" /\ x3'[r] = 0
    BY <1>1, <1>3
  <2>2. ASSUME NEW q \in AdapterRuns, q # r
        PROVE  /\ x2'[q] = x2[q] /\ x3'[q] = x3[q] /\ x4'[q] = x4[q] /\ x5'[q] = x5[q]
               /\ x6'[q] = x6[q] /\ Adapter!Stream(q)' = Adapter!Stream(q)
    BY <1>1, <1>3, <1>4, <2>2
  <2>3. ASSUME NEW q \in AdapterRuns
        PROVE  /\ x2'[q].kind = "none" =>
                    /\ x2'[q] = Adapter!Unused /\ x3'[q] = 0
                    /\ x4'[q] = <<>> /\ x5'[q] = <<>> /\ x6'[q] = {}
               /\ x2'[q].kind = "tui" => x4'[q] = <<>> /\ x5'[q] = <<>>
               /\ x2'[q].kind = "session" => Adapter!Stream(q)' # <<>>
               /\ x3'[q] > 0 => x2'[q].stopped
    <3>1. CASE q = r
      <4>1. Adapter!Stream(q)' # <<>>
        BY <1>4, <3>1 DEF Adapter!Stream
      <4>2. x2'[q].kind = "session" /\ ~(x3'[q] > 0)
        BY <2>1, <3>1
      <4> QED
        BY <4>1, <4>2
    <3>2. CASE q # r
      BY <2>2, <3>2 DEF Adapter!IInv, Adapter!Begun
    <3> QED
      BY <3>1, <3>2
  <2> QED
    BY <2>3 DEF Adapter!Begun, Adapter!Unused
<1>6. Adapter!StreamInOrder'
  <2>1. Adapter!InOrder(<<"ready">>, FALSE, {}) /\ x2'[r].stopped = FALSE /\ x6'[r] = {}
    BY <1>1, <1>3 DEF Adapter!InOrder, Adapter!Places, Adapter!RequestKinds
  <2>2. Adapter!InOrder(Adapter!Stream(r)', x2'[r].stopped, x6'[r])
    BY <1>1, <1>3, <1>4, <2>1
  <2>3. ASSUME NEW q \in AdapterRuns, q # r, Adapter!Stream(q)' # <<>>
        PROVE  Adapter!InOrder(Adapter!Stream(q)', x2'[q].stopped, x6'[q])
    BY <1>1, <1>3, <1>4, <2>3 DEF Adapter!IInv, Adapter!AdapterSound, Adapter!StreamInOrder
  <2> QED
    BY <2>2, <2>3 DEF Adapter!StreamInOrder
<1>7. Adapter!WriterClaims'
  BY <1>1, <1>3, AdapterAssumption
     DEF Adapter!IInv, Adapter!AdapterSound, Adapter!WriterClaims, Adapter!Writes,
         Adapter!Unused, Adapter!TypeOK
<1> QED
  BY <1>2, <1>5, <1>6, <1>7 DEF Adapter!IInv, Adapter!AdapterSound

\* A step that changes the handle of one run at most, and no stream or answer.
LEMMA StreamsKept ==
  ASSUME Adapter!IInv, NEW r \in AdapterRuns, UNCHANGED <<x4, x5, x6>>,
         NEW h, x2' = [x2 EXCEPT ![r] = h], h.stopped = x2[r].stopped
  PROVE  Adapter!StreamInOrder'
<1>1. ASSUME NEW q \in AdapterRuns, Adapter!Stream(q)' # <<>>
      PROVE  Adapter!InOrder(Adapter!Stream(q)', x2'[q].stopped, x6'[q])
  <2>1. Adapter!Stream(q)' = Adapter!Stream(q)
    BY DEF Adapter!Stream
  <2>2. x2'[q].stopped = x2[q].stopped
    BY DEF Adapter!IInv, Adapter!TypeOK
  <2> QED
    BY <1>1, <2>1, <2>2
       DEF Adapter!IInv, Adapter!AdapterSound, Adapter!StreamInOrder
<1> QED
  BY <1>1 DEF Adapter!StreamInOrder

\* build_tui_launch_plan.
LEMMA TuiSound ==
  ASSUME Adapter!IInv, NEW r \in AdapterRuns, Adapter!LaunchTui(r)
  PROVE  Adapter!IInv'
<1>1. PICK b \in Bindings \cup {NoBinding} :
        /\ IF b = NoBinding THEN UNCHANGED x1 ELSE Adapter!ClaimBinding(b, r)
        /\ x2' = [x2 EXCEPT ![r] = [kind |-> "tui", binding |-> b, stopped |-> FALSE]]
  BY DEF Adapter!LaunchTui
<1>2. /\ UNCHANGED <<x3, x4, x5, x6>> /\ x2[r] = Adapter!Unused
      /\ x3[r] = 0 /\ x4[r] = <<>> /\ x5[r] = <<>>
  BY DEF Adapter!LaunchTui, Adapter!IInv, Adapter!Begun
<1> DEFINE h == [kind |-> "tui", binding |-> b, stopped |-> FALSE]
<1>3. x2' = [x2 EXCEPT ![r] = h] /\ x2'[r] = h /\ \A q \in AdapterRuns : q # r => x2'[q] = x2[q]
  BY <1>1 DEF Adapter!IInv, Adapter!TypeOK
<1>4. Adapter!TypeOK'
  BY <1>1, <1>2 DEF Adapter!IInv, Adapter!TypeOK, Adapter!ClaimBinding
<1>5. Adapter!Begun'
  BY <1>2, <1>3 DEF Adapter!IInv, Adapter!Begun, Adapter!Stream, Adapter!Unused
<1>6. Adapter!StreamInOrder'
  <2>1. h.stopped = x2[r].stopped
    BY <1>2 DEF Adapter!Unused
  <2> HIDE DEF h
  <2> QED
    BY <1>2, <1>3, <2>1, StreamsKept
<1>7. Adapter!WriterClaims'
  <2>1. CASE b = NoBinding
    BY <1>1, <1>2, <1>3, <2>1, AdapterAssumption
       DEF Adapter!IInv, Adapter!AdapterSound, Adapter!WriterClaims, Adapter!Writes,
           Adapter!Unused, Adapter!TypeOK
  <2>2. CASE b # NoBinding
    <3>1. b \in Bindings /\ x1[b] = NoRun /\ x1' = [x1 EXCEPT ![b] = r]
      BY <1>1, <2>2 DEF Adapter!ClaimBinding
    <3>2. x1'[b] = r /\ \A c \in Bindings : c # b => x1'[c] = x1[c]
      BY <3>1 DEF Adapter!IInv, Adapter!TypeOK
    <3> QED
      BY <1>2, <1>3, <3>1, <3>2, AdapterAssumption
         DEF Adapter!IInv, Adapter!AdapterSound, Adapter!WriterClaims, Adapter!Writes,
             Adapter!Unused, Adapter!TypeOK
  <2> QED
    BY <2>1, <2>2
<1> QED
  BY <1>4, <1>5, <1>6, <1>7 DEF Adapter!IInv, Adapter!AdapterSound

\* What moves from one end of a stream to the other leaves the stream.
LEMMA MovedAcross ==
  ASSUME NEW S, NEW s \in Seq(S), NEW t \in Seq(S), t # <<>>
  PROVE  Append(s, Head(t)) \in Seq(S) /\ Tail(t) \in Seq(S)
         /\ Append(s, Head(t)) \o Tail(t) = s \o t
<1>1. Head(t) \in S /\ Tail(t) \in Seq(S) /\ t = <<Head(t)>> \o Tail(t)
  OBVIOUS
<1> DEFINE h == Head(t)  u == Tail(t)
<1>2. Append(s, h) = s \o <<h>> /\ <<h>> \in Seq(S) /\ Append(s, h) \in Seq(S)
  BY <1>1, AppendIsConcat
<1>3. u \in Seq(S) /\ t = <<h>> \o u
  BY <1>1
<1> HIDE DEF h, u
<1>4. s \o (<<h>> \o u) = (s \o <<h>>) \o u
  BY <1>2, <1>3, Regrouped
<1> QED
  BY <1>2, <1>3, <1>4 DEF h, u

\* next_event.
LEMMA NextEventSound ==
  ASSUME Adapter!IInv, NEW r \in AdapterRuns, Adapter!NextEvent(r)
  PROVE  Adapter!IInv'
<1> DEFINE S == Adapter!EventKinds  t == x5[r]  u == x4[r]
<1>1. /\ x2[r].kind = "session" /\ u # <<>> /\ x5' = [x5 EXCEPT ![r] = Append(t, Head(u))]
      /\ x4' = [x4 EXCEPT ![r] = Tail(u)] /\ UNCHANGED <<x1, x2, x3, x6>>
      /\ t \in Seq(S) /\ u \in Seq(S)
  BY StreamTyped DEF Adapter!NextEvent, Adapter!IInv
<1>2. Append(t, Head(u)) \in Seq(S) /\ Tail(u) \in Seq(S) /\ Append(t, Head(u)) \o Tail(u) = t \o u
  <2> HIDE DEF S, t, u
  <2> QED
    BY <1>1, MovedAcross
<1>3. Adapter!TypeOK'
  BY <1>1, <1>2 DEF Adapter!IInv, Adapter!TypeOK
<1>4. \A q \in AdapterRuns : Adapter!Stream(q)' = Adapter!Stream(q)
  <2>1. x5'[r] = Append(t, Head(u)) /\ x4'[r] = Tail(u)
    BY <1>1 DEF Adapter!IInv, Adapter!TypeOK
  <2>2. Adapter!Stream(r)' = Adapter!Stream(r)
    BY <1>2, <2>1 DEF Adapter!Stream
  <2>3. \A q \in AdapterRuns : q # r => x5'[q] = x5[q] /\ x4'[q] = x4[q]
    BY <1>1 DEF Adapter!IInv, Adapter!TypeOK
  <2> QED
    BY <2>2, <2>3 DEF Adapter!Stream
<1>5. Adapter!Begun'
  <2>1. \A q \in AdapterRuns : q # r => x5'[q] = x5[q] /\ x4'[q] = x4[q]
    BY <1>1 DEF Adapter!IInv, Adapter!TypeOK
  <2> QED
    BY <1>1, <1>4, <2>1 DEF Adapter!IInv, Adapter!Begun
<1>6. Adapter!StreamInOrder'
  BY <1>1, <1>4 DEF Adapter!IInv, Adapter!AdapterSound, Adapter!StreamInOrder
<1> QED
  BY <1>1, <1>3, <1>5, <1>6, ClaimsKept DEF Adapter!IInv, Adapter!AdapterSound

\* stop_run, up to the release of the claim.
LEMMA StopBeginsSound ==
  ASSUME Adapter!IInv, NEW r \in AdapterRuns, Adapter!StopBegins(r)
  PROVE  Adapter!IInv'
<1> DEFINE h == [x2[r] EXCEPT !.stopped = TRUE]
           u == IF x2[r].stopped THEN x4[r] ELSE Append(x4[r], "stopped")
<1>1. /\ x2[r].kind = "session" /\ x2' = [x2 EXCEPT ![r] = h] /\ x4' = [x4 EXCEPT ![r] = u]
      /\ x3' = [x3 EXCEPT ![r] = x3[r] + 1] /\ UNCHANGED <<x1, x5, x6>>
  BY DEF Adapter!StopBegins, Adapter!IInv, Adapter!TypeOK
<1>2. /\ h.kind = "session" /\ h.stopped = TRUE /\ h.binding = x2[r].binding
      /\ h \in [kind : {"none", "session", "tui", "dropped"},
                binding : Bindings \cup {NoBinding}, stopped : BOOLEAN]
  BY <1>1 DEF Adapter!IInv, Adapter!TypeOK
<1> DEFINE S == Adapter!EventKinds  s == Adapter!Stream(r)
<1>3. /\ s \in Seq(S) /\ s # <<>> /\ x5[r] \in Seq(S) /\ x4[r] \in Seq(S) /\ "stopped" \in S
      /\ x6[r] \in SUBSET Adapter!RequestKinds /\ x2[r].stopped \in BOOLEAN
      /\ Adapter!InOrder(s, x2[r].stopped, x6[r])
  <2>1. s # <<>>
    BY <1>1 DEF Adapter!IInv, Adapter!Begun
  <2>2. Adapter!InOrder(s, x2[r].stopped, x6[r])
    BY <2>1 DEF Adapter!IInv, Adapter!AdapterSound, Adapter!StreamInOrder
  <2>3. "stopped" \in S /\ x2[r].stopped \in BOOLEAN
    BY DEF Adapter!EventKinds, Adapter!IInv, Adapter!TypeOK
  <2> QED
    BY <2>1, <2>2, <2>3, StreamTyped DEF Adapter!IInv
<1>4. u \in Seq(S)
  BY <1>3
<1>5. /\ x2'[r] = h /\ x4'[r] = u /\ x5'[r] = x5[r] /\ x3'[r] = x3[r] + 1 /\ x3[r] \in Nat
      /\ \A q \in AdapterRuns : q # r => x2'[q] = x2[q] /\ x3'[q] = x3[q] /\ x4'[q] = x4[q]
                                          /\ Adapter!Stream(q)' = Adapter!Stream(q)
  BY <1>1 DEF Adapter!IInv, Adapter!TypeOK, Adapter!Stream
<1> HIDE DEF h
<1>6. Adapter!TypeOK'
  BY <1>1, <1>2, <1>4, <1>5 DEF Adapter!IInv, Adapter!TypeOK
<1>7. Adapter!Stream(r)' # <<>> /\ Adapter!InOrder(Adapter!Stream(r)', TRUE, x6[r])
  <2>1. CASE x2[r].stopped
    <3>1. Adapter!Stream(r)' = s
      BY <1>5, <2>1 DEF Adapter!Stream
    <3>2. x2[r].stopped = TRUE
      BY <1>3, <2>1
    <3> QED
      BY <1>3, <3>1, <3>2
  <2>2. CASE ~x2[r].stopped
    <3> DEFINE e == x5[r]  f == x4[r]
    <3>1. e \in Seq(S) /\ f \in Seq(S) /\ "stopped" \in S /\ s = e \o f
          /\ Adapter!Stream(r)' = e \o Append(f, "stopped")
      BY <1>3, <1>5, <2>2 DEF Adapter!Stream
    <3>0. s \in Seq(S) /\ s # <<>> /\ x6[r] \in SUBSET Adapter!RequestKinds
          /\ Adapter!InOrder(s, x2[r].stopped, x6[r])
      BY <1>3
    <3> HIDE DEF e, f, S, s
    <3>2. <<"stopped">> \in Seq(S) /\ Append(f, "stopped") = f \o <<"stopped">>
          /\ Append(s, "stopped") = s \o <<"stopped">>
      BY <3>0, <3>1, AppendIsConcat
    <3>3. e \o (f \o <<"stopped">>) = (e \o f) \o <<"stopped">>
      BY <3>1, <3>2, Regrouped
    <3>4. Adapter!Stream(r)' = Append(s, "stopped")
      BY <3>1, <3>2, <3>3
    <3>5. x2[r].stopped = FALSE
      BY <1>3, <2>2
    <3>6. Adapter!InOrder(Append(s, "stopped"), TRUE, x6[r])
      BY <3>0, <3>5, OrderedStop DEF S
    <3>7. Append(s, "stopped") # <<>>
      BY <3>0, <3>1, PlacesAppend
    <3> QED
      BY <3>4, <3>6, <3>7
  <2> QED
    BY <2>1, <2>2
<1>8. Adapter!Begun'
  BY <1>1, <1>2, <1>5, <1>7 DEF Adapter!IInv, Adapter!Begun
<1>9. Adapter!StreamInOrder'
  <2>1. x2'[r].stopped = TRUE /\ x6'[r] = x6[r]
    BY <1>1, <1>2, <1>5
  <2>2. Adapter!InOrder(Adapter!Stream(r)', x2'[r].stopped, x6'[r])
    BY <1>7, <2>1
  <2>3. ASSUME NEW q \in AdapterRuns, q # r, Adapter!Stream(q)' # <<>>
        PROVE  Adapter!InOrder(Adapter!Stream(q)', x2'[q].stopped, x6'[q])
    BY <1>1, <1>5, <2>3 DEF Adapter!IInv, Adapter!AdapterSound, Adapter!StreamInOrder
  <2> QED
    BY <2>2, <2>3 DEF Adapter!StreamInOrder
<1>10. Adapter!WriterClaims'
  BY <1>1, <1>2, <1>5, AdapterAssumption
     DEF Adapter!IInv, Adapter!AdapterSound, Adapter!WriterClaims, Adapter!Writes, Adapter!TypeOK
<1> QED
  BY <1>6, <1>8, <1>9, <1>10 DEF Adapter!IInv, Adapter!AdapterSound

\* A run that no longer writes gives its claim back, if it still has it.
LEMMA ReleaseSound ==
  ASSUME Adapter!IInv, NEW r \in AdapterRuns,
         Adapter!ReleaseBindingClaim(x2[r].binding, r),
         \A q \in AdapterRuns : q # r => x2'[q] = x2[q] /\ x3'[q] = x3[q],
         \A b \in Bindings : ~Adapter!Writes(r, b)'
  PROVE  Adapter!WriterClaims' /\ x1' \in [Bindings -> AdapterRuns \cup {NoRun}]
<1>1. x1' \in [Bindings -> AdapterRuns \cup {NoRun}]
  BY DEF Adapter!IInv, Adapter!TypeOK, Adapter!ReleaseBindingClaim
<1>2. ASSUME NEW b \in Bindings
      PROVE  x1'[b] = IF x1[b] = r THEN NoRun ELSE x1[b]
  <2>1. x1[b] = r => x2[r].binding = b
    BY AdapterAssumption DEF Adapter!IInv, Adapter!AdapterSound, Adapter!WriterClaims,
       Adapter!Writes
  <2> QED
    BY <2>1, AdapterAssumption DEF Adapter!IInv, Adapter!TypeOK, Adapter!ReleaseBindingClaim
<1>3. Adapter!WriterClaims'
  <2>1. ASSUME NEW b \in Bindings, NEW q \in AdapterRuns, Adapter!Writes(q, b)'
        PROVE  x1'[b] = q
    <3>1. q # r
      BY <2>1
    <3>2. Adapter!Writes(q, b)
      BY <2>1, <3>1 DEF Adapter!Writes
    <3> QED
      BY <1>2, <3>1, <3>2 DEF Adapter!IInv, Adapter!AdapterSound, Adapter!WriterClaims
  <2>2. ASSUME NEW b \in Bindings, NEW q, x1'[b] = q, q # NoRun
        PROVE  Adapter!Writes(q, b)' \/ (x2'[q].binding = b /\ x3'[q] > 0)
    <3>1. x1[b] = q /\ q # r /\ q \in AdapterRuns
      BY <1>2, <2>2 DEF Adapter!IInv, Adapter!TypeOK
    <3> QED
      BY <2>2, <3>1 DEF Adapter!IInv, Adapter!AdapterSound, Adapter!WriterClaims, Adapter!Writes
  <2> QED
    BY <2>1, <2>2 DEF Adapter!WriterClaims, Adapter!Writes
<1> QED
  BY <1>1, <1>3

\* stop_run returns, and a handle is dropped.
LEMMA ReleasesSound ==
  ASSUME Adapter!IInv, NEW r \in AdapterRuns,
         Adapter!StopReleases(r) \/ Adapter!Drop(r)
  PROVE  Adapter!IInv'
<1>1. CASE Adapter!StopReleases(r)
  <2>1. /\ x3[r] > 0 /\ Adapter!ReleaseBindingClaim(x2[r].binding, r) /\ x2[r].stopped
        /\ x3' = [x3 EXCEPT ![r] = x3[r] - 1] /\ UNCHANGED <<x2, x4, x5, x6>>
    BY <1>1 DEF Adapter!StopReleases, Adapter!IInv, Adapter!Begun
  <2>2. /\ x3' \in [AdapterRuns -> Nat] /\ x3'[r] = x3[r] - 1 /\ x3[r] \in Nat
        /\ \A q \in AdapterRuns : q # r => x3'[q] = x3[q]
    BY <2>1 DEF Adapter!IInv, Adapter!TypeOK
  <2>3. \A b \in Bindings : ~Adapter!Writes(r, b)'
    BY <2>1 DEF Adapter!Writes
  <2>4. Adapter!WriterClaims' /\ x1' \in [Bindings -> AdapterRuns \cup {NoRun}]
    BY <2>1, <2>2, <2>3, ReleaseSound
  <2>5. Adapter!TypeOK'
    BY <2>1, <2>2, <2>4 DEF Adapter!IInv, Adapter!TypeOK
  <2>6. Adapter!Begun'
    <3>1. \A q \in AdapterRuns : Adapter!Stream(q)' = Adapter!Stream(q)
      BY <2>1 DEF Adapter!Stream
    <3>2. x2[r].kind # "none"
      BY <2>1, <2>2 DEF Adapter!IInv, Adapter!Begun
    <3>3. \A q \in AdapterRuns : q = r \/ x3'[q] = x3[q]
      BY <2>2
    <3> QED
      BY <2>1, <3>1, <3>2, <3>3 DEF Adapter!IInv, Adapter!Begun
  <2>7. Adapter!StreamInOrder'
    BY <2>1 DEF Adapter!IInv, Adapter!AdapterSound, Adapter!StreamInOrder, Adapter!Stream
  <2> QED
    BY <2>4, <2>5, <2>6, <2>7 DEF Adapter!IInv, Adapter!AdapterSound
<1>2. CASE Adapter!Drop(r)
  <2> DEFINE h == [x2[r] EXCEPT !.kind = "dropped"]
  <2>1. /\ x3[r] = 0 /\ Adapter!ReleaseBindingClaim(x2[r].binding, r)
        /\ x2' = [x2 EXCEPT ![r] = h] /\ UNCHANGED <<x3, x4, x5, x6>>
    BY <1>2 DEF Adapter!Drop, Adapter!IInv, Adapter!TypeOK
  <2>2. /\ h.kind = "dropped" /\ h.stopped = x2[r].stopped
        /\ h \in [kind : {"none", "session", "tui", "dropped"},
                  binding : Bindings \cup {NoBinding}, stopped : BOOLEAN]
    BY DEF Adapter!IInv, Adapter!TypeOK
  <2>3. x2'[r] = h /\ \A q \in AdapterRuns : q # r => x2'[q] = x2[q]
    BY <2>1 DEF Adapter!IInv, Adapter!TypeOK
  <2> HIDE DEF h
  <2>4. \A b \in Bindings : ~Adapter!Writes(r, b)'
    BY <2>2, <2>3 DEF Adapter!Writes
  <2>5. Adapter!WriterClaims' /\ x1' \in [Bindings -> AdapterRuns \cup {NoRun}]
    BY <2>1, <2>3, <2>4, ReleaseSound
  <2>6. Adapter!TypeOK'
    BY <2>1, <2>2, <2>5 DEF Adapter!IInv, Adapter!TypeOK
  <2>7. Adapter!Begun'
    BY <2>1, <2>2, <2>3 DEF Adapter!IInv, Adapter!Begun, Adapter!Stream, Adapter!Unused
  <2>8. Adapter!StreamInOrder'
    BY <2>1, <2>2, StreamsKept
  <2> QED
    BY <2>5, <2>6, <2>7, <2>8 DEF Adapter!IInv, Adapter!AdapterSound
<1> QED
  BY <1>1, <1>2

\* The adapter's invariant holds in its initial states and is kept by its steps.
LEMMA AdapterInductive ==
  /\ Adapter!Init => Adapter!IInv
  /\ Adapter!IInv /\ [Adapter!Next]_(Adapter!vars) => Adapter!IInv'
<1>1. Adapter!Init => Adapter!IInv
  <2> SUFFICES ASSUME Adapter!Init PROVE Adapter!IInv
    OBVIOUS
  <2>1. Adapter!TypeOK
    BY DEF Adapter!Init, Adapter!TypeOK, Adapter!Unused
  <2>2. /\ \A r \in AdapterRuns : x2[r] = Adapter!Unused /\ x4[r] = <<>> /\ x5[r] = <<>>
                                  /\ x6[r] = {} /\ x3[r] = 0
        /\ \A b \in Bindings : x1[b] = NoRun
    BY DEF Adapter!Init
  <2>3. <<>> \o <<>> = <<>>
    OBVIOUS
  <2>4. \A r \in AdapterRuns : Adapter!Stream(r) = <<>>
    BY <2>2, <2>3 DEF Adapter!Stream
  <2>5. Adapter!Begun
    <3>1. Adapter!Unused.kind = "none" /\ ~(0 > 0)
      BY DEF Adapter!Unused
    <3> QED
      BY <2>2, <3>1 DEF Adapter!Begun
  <2>6. Adapter!AdapterSound
    BY <2>2, <2>4 DEF Adapter!AdapterSound, Adapter!WriterClaims, Adapter!StreamInOrder,
                      Adapter!Writes, Adapter!Unused
  <2> QED
    BY <2>1, <2>5, <2>6 DEF Adapter!IInv
<1>2. Adapter!IInv /\ [Adapter!Next]_(Adapter!vars) => Adapter!IInv'
  <2> SUFFICES ASSUME Adapter!IInv, [Adapter!Next]_(Adapter!vars) PROVE Adapter!IInv'
    OBVIOUS
  <2>1. CASE UNCHANGED Adapter!vars
    BY <2>1 DEF Adapter!vars, Adapter!IInv, Adapter!TypeOK, Adapter!Begun, Adapter!AdapterSound,
                Adapter!WriterClaims, Adapter!StreamInOrder, Adapter!Writes, Adapter!Stream
  <2>2. ASSUME NEW r \in AdapterRuns, NEW b \in Bindings, Adapter!Session(r, b) PROVE Adapter!IInv'
    BY <2>2, SessionSound
  <2>3. ASSUME NEW r \in AdapterRuns, Adapter!LaunchTui(r) PROVE Adapter!IInv'
    BY <2>3, TuiSound
  <2>4. ASSUME NEW r \in AdapterRuns, Adapter!SendTurn(r) \/ Adapter!Annotate(r) \/ Adapter!Resolve(r)
        PROVE  Adapter!IInv'
    BY <2>4, OperationsSound
  <2>5. ASSUME NEW r \in AdapterRuns, Adapter!NextEvent(r) PROVE Adapter!IInv'
    BY <2>5, NextEventSound
  <2>6. ASSUME NEW r \in AdapterRuns, Adapter!StopBegins(r) PROVE Adapter!IInv'
    BY <2>6, StopBeginsSound
  <2>7. ASSUME NEW r \in AdapterRuns, Adapter!StopReleases(r) \/ Adapter!Drop(r) PROVE Adapter!IInv'
    BY <2>7, ReleasesSound
  <2> QED
    BY <2>1, <2>2, <2>3, <2>4, <2>5, <2>6, <2>7 DEF Adapter!Next
<1> QED
  BY <1>1, <1>2

-----------------------------------------------------------------------------
(* WorkspaceRoots.  Its slots: x1 roots, x2 opened.  Normalized is defined *)
(* by recursion over the length of a path; that it is a function from the  *)
(* paths to sequences is shown with the least length where it is not.      *)

\* The paths of at most n components, and what Normalized does with one.
Short(n) == {path \in Roots!Askable \cup {<<>>} : Len(path) <= n}
Normal(g, path) ==
  IF path = <<>> THEN <<>>
  ELSE IF Roots!Last(path) # 0 THEN Append(g[Roots!Front(path)], Roots!Last(path))
       ELSE IF g[Roots!Front(path)] = <<>> \/ g[Roots!Front(path)][1] = 0 THEN <<0>> ELSE Roots!Front(g[Roots!Front(path)])

\* Paths are sequences, and closed under Front.
LEMMA RequestFronts ==
  ASSUME NEW path \in Roots!Askable \cup {<<>>}
  PROVE  /\ path \in Seq(Names \cup {0}) /\ Len(path) \in Nat /\ Len(path) <= Depth + 1
         /\ path = <<>> <=> Len(path) = 0
         /\ path # <<>> => /\ Roots!Front(path) \in Roots!Askable \cup {<<>>}
                           /\ Len(Roots!Front(path)) = Len(path) - 1
                           /\ Roots!Last(path) \in Names \cup {0}
<1>1. CASE path = <<>>
  BY <1>1, RootsAssumption
<1>2. CASE path # <<>>
  <2>1. PICK n \in 1..(Depth + 1) : path \in [1..n -> Names \cup {0}]
    BY <1>2 DEF Roots!Askable
  <2>2. path \in Seq(Names \cup {0}) /\ Len(path) = n /\ n \in Nat
    BY <2>1, RootsAssumption
  <2>3. Roots!Front(path) = [i \in 1..(n - 1) |-> path[i]]
    BY <2>1, <2>2, RootsAssumption DEF Roots!Front
  <2>4. Roots!Front(path) \in [1..(n - 1) -> Names \cup {0}] /\ Len(Roots!Front(path)) = n - 1
    BY <2>1, <2>2, <2>3, RootsAssumption
  <2>5. Roots!Front(path) \in Roots!Askable \cup {<<>>}
    <3>1. CASE n = 1
      BY <2>4, <3>1
    <3>2. CASE n # 1
      <4>1. n - 1 \in 1..(Depth + 1)
        BY <2>1, <3>2, RootsAssumption
      <4> QED
        BY <2>4, <4>1 DEF Roots!Askable
    <3> QED
      BY <3>1, <3>2
  <2> QED
    BY <1>2, <2>1, <2>2, <2>4, <2>5, RootsAssumption DEF Roots!Last
<1> QED
  BY <1>1, <1>2

\* What Normalized does with a path depends on what it does with its front.
LEMMA NormalLooksBack ==
  ASSUME NEW f, NEW g, NEW path, path # <<>> => g[Roots!Front(path)] = f[Roots!Front(path)]
  PROVE  Normal(g, path) = Normal(f, path)
BY DEF Normal

\* There is a function that does with every path what Normalized does.
LEMMA NormalExists ==
  \A n \in Nat : \E g : g = [path \in Short(n) |-> Normal(g, path)]
<1> DEFINE T == {n \in Nat : ~\E g : g = [path \in Short(n) |-> Normal(g, path)]}
<1> SUFFICES ASSUME T # {} PROVE FALSE
  OBVIOUS
<1>1. PICK n \in T : \A m \in T : ~(m < n)
  BY LeastLength
<1>2. CASE n = 0
  <2> DEFINE g == [path \in Short(n) |-> <<>>]
  <2>1. \A path \in Short(n) : path = <<>>
    BY <1>2, RequestFronts DEF Short
  <2>2. \A path \in Short(n) : Normal(g, path) = <<>>
    BY <2>1 DEF Normal
  <2>3. g = [path \in Short(n) |-> Normal(g, path)]
    BY <2>2
  <2> QED
    BY <2>3, <1>1
<1>3. CASE n # 0
  <2>1. n \in Nat /\ n - 1 \in Nat /\ n - 1 < n
    BY <1>3
  <2>2. PICK f : f = [path \in Short(n - 1) |-> Normal(f, path)]
    BY <1>1, <2>1
  <2> DEFINE g == [path \in Short(n) |-> Normal(f, path)]
  <2>3. ASSUME NEW path \in Short(n) PROVE Normal(g, path) = Normal(f, path)
    <3>1. ASSUME path # <<>> PROVE g[Roots!Front(path)] = f[Roots!Front(path)]
      <4>1. Roots!Front(path) \in Short(n - 1) /\ Roots!Front(path) \in Short(n)
        BY <2>1, <3>1, RequestFronts DEF Short
      <4> QED
        BY <2>2, <4>1
    <3> HIDE DEF g
    <3> QED
      BY <3>1, NormalLooksBack
  <2>4. g = [path \in Short(n) |-> Normal(g, path)]
    BY <2>3
  <2> QED
    BY <2>4, <1>1
<1> QED
  BY <1>2, <1>3

\* Normalized is that function.
LEMMA NormalizedUnfolds ==
  Roots!Normalized = [path \in Roots!Askable \cup {<<>>} |-> Normal(Roots!Normalized, path)]
<1> DEFINE D == Roots!Askable \cup {<<>>}
<1>1. Short(Depth + 1) = D
  BY RequestFronts DEF Short
<1>2. Depth + 1 \in Nat
  BY RootsAssumption
<1>3. \E g : g = [path \in D |-> Normal(g, path)]
  BY <1>1, <1>2, NormalExists
<1>4. Roots!Normalized = CHOOSE g : g = [path \in D |-> Normal(g, path)]
  BY DEF Roots!Normalized, Normal
<1> QED
  BY <1>3, <1>4

\* normalize_absolute returns a path.
LEMMA NormalizedIsPath ==
  ASSUME NEW asked \in Roots!Askable
  PROVE  Roots!Normalized[asked] \in Seq(Names \cup {0})
<1> DEFINE D == Roots!Askable \cup {<<>>}
           N == Roots!Normalized
           T == {n \in Nat : \E path \in D : Len(path) = n /\ N[path] \notin Seq(Names \cup {0})}
<1>1. T = {}
  <2> SUFFICES ASSUME T # {} PROVE FALSE
    OBVIOUS
  <2>1. PICK n \in T : \A m \in T : ~(m < n)
    BY LeastLength
  <2>2. PICK path \in D : Len(path) = n /\ N[path] \notin Seq(Names \cup {0})
    OBVIOUS
  <2>3. N[path] = Normal(N, path)
    BY NormalizedUnfolds
  <2>4. CASE path = <<>>
    BY <2>2, <2>3, <2>4 DEF Normal
  <2>5. CASE path # <<>>
    <3> DEFINE front == N[Roots!Front(path)]
    <3>1. /\ Roots!Front(path) \in D /\ Len(Roots!Front(path)) = n - 1 /\ n - 1 \in Nat
          /\ Roots!Last(path) \in Names \cup {0}
      BY <2>2, <2>5, RequestFronts
    <3>2. front \in Seq(Names \cup {0})
      <4>1. n - 1 < n /\ n - 1 \notin T
        BY <2>1, <3>1
      <4> QED
        BY <3>1, <4>1
    <3>3. front # <<>> => Roots!Front(front) \in Seq(Names \cup {0})
      BY <3>2 DEF Roots!Front
    <3>4. Append(front, Roots!Last(path)) \in Seq(Names \cup {0}) /\ <<0>> \in Seq(Names \cup {0})
      BY <3>1, <3>2
    <3> QED
      BY <2>2, <2>3, <2>5, <3>3, <3>4 DEF Normal
  <2> QED
    BY <2>4, <2>5
<1> QED
  BY <1>1, RequestFronts

\* A path of the file system is a sequence of names.
LEMMA RootPaths == Roots!Paths \subseteq Seq(Names)
BY RootsAssumption DEF Roots!Paths

\* Two roots that both hold a place would be nested.
LEMMA PlaceInOneRoot == Roots!IInv => Roots!RootsApart
<1> SUFFICES ASSUME Roots!IInv, x2 # Roots!Refused
             PROVE  Roots!RootsApart
  BY DEF Roots!RootsApart
<1> DEFINE place == x2.place
<1>1. PICK r \in x1 : Roots!IsPrefix(r.canonical, place)
  BY DEF Roots!IInv, Roots!PlacedInRoot
<1>2. place \in Seq(Names \cup {0})
  BY DEF Roots!IInv, Roots!PlacedInRoot
<1>3. ASSUME NEW p \in Seq(Names), NEW q \in Seq(Names), Len(p) <= Len(q),
             Roots!IsPrefix(p, place), Roots!IsPrefix(q, place)
      PROVE  Roots!IsPrefix(p, q)
  BY <1>2, <1>3 DEF Roots!IsPrefix
<1>4. ASSUME NEW q \in x1, Roots!IsPrefix(q.canonical, place), q # r PROVE FALSE
  <2>1. /\ q.canonical \in Seq(Names) /\ r.canonical \in Seq(Names)
        /\ q.canonical # r.canonical /\ ~Roots!Nested(q, r) /\ ~Roots!Nested(r, q)
    BY <1>4, RootPaths DEF Roots!IInv, Roots!TypeOK, Roots!Acceptable
  <2>2. Roots!IsPrefix(q.canonical, r.canonical) \/ Roots!IsPrefix(r.canonical, q.canonical)
    <3>1. Len(q.canonical) <= Len(r.canonical) \/ Len(r.canonical) <= Len(q.canonical)
      BY <2>1
    <3> QED
      BY <1>1, <1>3, <1>4, <2>1, <3>1
  <2> QED
    BY <2>1, <2>2 DEF Roots!Nested, Roots!Before, Roots!IsStrictPrefix
<1>5. {q \in x1 : Roots!IsPrefix(q.canonical, x2.place)} = {r}
  BY <1>1, <1>4
<1> QED
  BY <1>1, <1>5 DEF Roots!RootsApart

\* open_directory: a place is reached from the root that was matched.
LEMMA OpenSound ==
  ASSUME Roots!IInv, NEW asked \in Roots!Askable, Roots!Open(asked)
  PROVE  Roots!IInv'
<1> DEFINE path == Roots!Normalized[asked]
<1>1. path \in Seq(Names \cup {0})
  BY NormalizedIsPath
<1>2. x1' = x1
  BY DEF Roots!Open
<1>3. CASE x2' = Roots!Refused
  BY <1>2, <1>3 DEF Roots!IInv, Roots!TypeOK, Roots!PlacedInRoot, Roots!Acceptable,
                    Roots!Nested, Roots!Before
<1>4. CASE x2' # Roots!Refused
  <2>1. PICK m \in Roots!Longest(path) : x2' = [asked |-> asked, place |-> Roots!Place(m, path)]
    BY <1>4 DEF Roots!Open
  <2>2. /\ m[1] \in x1 /\ m[2] \in Seq(Names) /\ Len(m[2]) <= Len(path)
        /\ m[1].canonical \in Seq(Names)
    BY <2>1, RootPaths DEF Roots!Longest, Roots!Matched, Roots!IInv, Roots!TypeOK, Roots!IsPrefix
  <2> DEFINE c == m[1].canonical
             rest == SubSeq(path, Len(m[2]) + 1, Len(path))
  <2>3. rest \in Seq(Names \cup {0})
    BY <1>1, <2>2
  <2>4. c \in Seq(Names \cup {0})
    BY <2>2
  <2>5. c \o rest \in Seq(Names \cup {0}) /\ Roots!IsPrefix(c, c \o rest)
    <3> HIDE DEF c, rest
    <3> QED
      BY <2>3, <2>4 DEF Roots!IsPrefix
  <2>6. x2'.place = c \o rest
    BY <2>1 DEF Roots!Place
  <2>7. Roots!PlacedInRoot'
    BY <1>2, <2>2, <2>5, <2>6 DEF Roots!PlacedInRoot
  <2> QED
    BY <1>2, <2>7 DEF Roots!IInv, Roots!TypeOK, Roots!Acceptable, Roots!Nested, Roots!Before
<1> QED
  BY <1>3, <1>4

\* The invariant of the workspace roots.
LEMMA RootsInductive ==
  /\ Roots!Init => Roots!IInv
  /\ Roots!IInv /\ [Roots!Next]_(Roots!vars) => Roots!IInv'
<1>1. Roots!Init => Roots!IInv
  BY DEF Roots!Init, Roots!IInv, Roots!TypeOK, Roots!Acceptable, Roots!PlacedInRoot
<1>2. ASSUME Roots!IInv, UNCHANGED Roots!vars PROVE Roots!IInv'
  BY <1>2 DEF Roots!vars, Roots!IInv, Roots!TypeOK, Roots!PlacedInRoot, Roots!Acceptable,
              Roots!Nested, Roots!Before
<1>3. ASSUME Roots!IInv, Roots!Register PROVE Roots!IInv'
  <2>1. PICK l \in [requested : Roots!Paths, canonical : Roots!Paths],
             r \in [requested : Roots!Paths, canonical : Roots!Paths] :
               Roots!Acceptable({l, r}) /\ x1' = {l, r}
    BY <1>3 DEF Roots!Register
  <2>2. x2 = Roots!Refused /\ x2' = x2
    BY <1>3 DEF Roots!Register, Roots!IInv, Roots!PlacedInRoot
  <2>3. Roots!Acceptable(x1')
    BY <2>1
  <2> QED
    BY <2>1, <2>2, <2>3 DEF Roots!IInv, Roots!TypeOK, Roots!PlacedInRoot, Roots!Acceptable,
       Roots!Nested, Roots!Before
<1> QED
  BY <1>1, <1>2, <1>3, OpenSound DEF Roots!Next

-----------------------------------------------------------------------------
(* JsonLines.  Its slots: x1 fed, x2 frames, x3 buffer, x4 error.           *)

\* The n-th value of the recursion that splits bytes.
SplitFrom(g, bytes, n) ==
  IF n = 0 THEN [segments |-> <<>>, rest |-> <<>>]
  ELSE IF bytes[n] = "newline"
    THEN [segments |-> Append(g[n - 1].segments, g[n - 1].rest), rest |-> <<>>]
    ELSE [g[n - 1] EXCEPT !.rest = Append(@, bytes[n])]

\* Split is a function: the recursion has a value.
LEMMA SplitExists ==
  ASSUME NEW bytes, Len(bytes) \in Nat
  PROVE  \E g : g = [n \in 0..Len(bytes) |-> SplitFrom(g, bytes, n)]
<1> DEFINE K(g, m) == g = [n \in 0..m |-> SplitFrom(g, bytes, n)]
           S == {m \in Nat : \E g : K(g, m)}
<1>1. 0 \in S
  <2> DEFINE g == [n \in 0..0 |-> [segments |-> <<>>, rest |-> <<>>]]
  <2>1. \A n \in 0..0 : SplitFrom(g, bytes, n) = [segments |-> <<>>, rest |-> <<>>]
    BY DEF SplitFrom
  <2>2. K(g, 0)
    BY <2>1
  <2> HIDE DEF K, g
  <2> QED
    BY <2>2
<1>2. ASSUME NEW m \in S PROVE m + 1 \in S
  <2>0. m \in Nat
    OBVIOUS
  <2>1. PICK f : K(f, m)
    OBVIOUS
  <2> DEFINE g == [n \in 0..m + 1 |-> IF n = m + 1 THEN SplitFrom(f, bytes, m + 1) ELSE f[n]]
  <2>2. ASSUME NEW n \in 0..m + 1 PROVE g[n] = SplitFrom(g, bytes, n)
    <3>1. ASSUME n # 0 PROVE g[n - 1] = f[n - 1]
      BY <2>0, <3>1
    <3>2. SplitFrom(g, bytes, n) = SplitFrom(f, bytes, n)
      <4> HIDE DEF g
      <4> QED
        BY <3>1 DEF SplitFrom
    <3>3. CASE n = m + 1
      BY <3>2, <3>3
    <3>4. CASE n # m + 1
      <4>1. n \in 0..m
        BY <2>0, <3>4
      <4>2. f[n] = SplitFrom(f, bytes, n)
        BY <2>1, <4>1
      <4> QED
        BY <3>2, <3>4, <4>2
    <3> QED
      BY <3>3, <3>4
  <2>3. K(g, m + 1)
    BY <2>2
  <2>4. m + 1 \in Nat
    BY <2>0
  <2> HIDE DEF K, g
  <2> QED
    BY <2>3, <2>4
<1>3. S = Nat
  <2> HIDE DEF S
  <2> QED
    BY <1>1, <1>2, FromZero DEF S
<1>4. Len(bytes) \in S
  BY <1>3
<1> HIDE DEF K
<1> QED
  BY <1>4 DEF K

\* The recursion behind Split.
LEMMA SplitRecursion ==
  ASSUME NEW bytes, Len(bytes) \in Nat
  PROVE  \E g : /\ \A n \in 0..Len(bytes) : g[n] = SplitFrom(g, bytes, n)
                /\ Lines!Split(bytes) = g[Len(bytes)]
<1> DEFINE upTo == CHOOSE g : g = [n \in 0..Len(bytes) |-> SplitFrom(g, bytes, n)]
<1>1. upTo = [n \in 0..Len(bytes) |-> SplitFrom(upTo, bytes, n)]
  BY SplitExists
<1>2. Lines!Split(bytes) = upTo[Len(bytes)]
  BY DEF Lines!Split, SplitFrom
<1> HIDE DEF upTo
<1>3. ASSUME NEW n \in 0..Len(bytes) PROVE upTo[n] = SplitFrom(upTo, bytes, n)
  BY <1>1
<1> QED
  BY <1>2, <1>3

\* One byte more.
LEMMA SplitUnfolds ==
  /\ Lines!Split(<<>>) = [segments |-> <<>>, rest |-> <<>>]
  /\ \A bytes \in Seq(Lines!Bytes), c \in Lines!Bytes :
       Lines!Split(Append(bytes, c)) =
         IF c = "newline"
         THEN [segments |-> Append(Lines!Split(bytes).segments, Lines!Split(bytes).rest), rest |-> <<>>]
         ELSE [Lines!Split(bytes) EXCEPT !.rest = Append(@, c)]
<1>1. Lines!Split(<<>>) = [segments |-> <<>>, rest |-> <<>>]
  <2>1. Len(<<>>) = 0
    OBVIOUS
  <2>2. PICK g : /\ \A n \in 0..0 : g[n] = SplitFrom(g, <<>>, n)
                 /\ Lines!Split(<<>>) = g[0]
    BY <2>1, SplitRecursion
  <2>3. g[0] = SplitFrom(g, <<>>, 0)
    BY <2>2
  <2> QED
    BY <2>2, <2>3 DEF SplitFrom
<1>2. ASSUME NEW bytes \in Seq(Lines!Bytes), NEW c \in Lines!Bytes
      PROVE  Lines!Split(Append(bytes, c)) = SplitFrom([n \in {Len(bytes)} |-> Lines!Split(bytes)],
                                                       Append(bytes, c), Len(bytes) + 1)
  <2> DEFINE m == Len(bytes)
             more == Append(bytes, c)
  <2>0. m \in Nat /\ Len(more) = m + 1 /\ \A n \in 1..m : more[n] = bytes[n]
    OBVIOUS
  <2>1. PICK f : (\A n \in 0..m : f[n] = SplitFrom(f, bytes, n)) /\ Lines!Split(bytes) = f[m]
    BY <2>0, SplitRecursion
  <2> HIDE DEF more, m
  <2>2. PICK g : (\A n \in 0..m + 1 : g[n] = SplitFrom(g, more, n)) /\ Lines!Split(more) = g[m + 1]
    BY <2>0, SplitRecursion
  <2> DEFINE S == {n \in Nat : n <= m => f[n] = g[n]}
  <2>3. 0 \in S
    <3>1. f[0] = SplitFrom(f, bytes, 0) /\ g[0] = SplitFrom(g, more, 0)
      BY <2>0, <2>1, <2>2
    <3> QED
      BY <3>1 DEF SplitFrom
  <2>4. ASSUME NEW n \in S PROVE n + 1 \in S
    <3>0. n \in Nat
      OBVIOUS
    <3>1. SUFFICES ASSUME n + 1 <= m PROVE f[n + 1] = g[n + 1]
      BY <3>0
    <3>2. f[n] = g[n] /\ more[n + 1] = bytes[n + 1] /\ n + 1 # 0 /\ (n + 1) - 1 = n
      BY <2>0, <3>0, <3>1
    <3>3. f[n + 1] = SplitFrom(f, bytes, n + 1)
      BY <2>0, <2>1, <3>0, <3>1
    <3>4. g[n + 1] = SplitFrom(g, more, n + 1)
      BY <2>0, <2>2, <3>0, <3>1
    <3> QED
      BY <3>2, <3>3, <3>4 DEF SplitFrom
  <2>5. S = Nat
    <3> HIDE DEF S
    <3> QED
      BY <2>3, <2>4, FromZero DEF S
  <2>6. f[m] = g[m]
    BY <2>0, <2>5
  <2>7. g[m + 1] = SplitFrom(g, more, m + 1)
    BY <2>0, <2>2
  <2>8. SplitFrom(g, more, m + 1) = SplitFrom([n \in {m} |-> Lines!Split(bytes)], more, m + 1)
    <3>1. m + 1 # 0 /\ (m + 1) - 1 = m
      BY <2>0
    <3>2. [n \in {m} |-> Lines!Split(bytes)][m] = g[m]
      BY <2>1, <2>6
    <3> QED
      BY <3>1, <3>2 DEF SplitFrom
  <2> QED
    BY <2>2, <2>7, <2>8 DEF m, more
<1>3. ASSUME NEW bytes \in Seq(Lines!Bytes), NEW c \in Lines!Bytes
      PROVE  /\ Len(bytes) + 1 # 0 /\ (Len(bytes) + 1) - 1 = Len(bytes)
             /\ Append(bytes, c)[Len(bytes) + 1] = c
  OBVIOUS
<1> QED
  BY <1>1, <1>2, <1>3 DEF SplitFrom

\* What bytes are split into: the segments that a newline ends, and the rest.
Parts == [segments : Seq(Seq(Lines!Bytes)), rest : Seq(Lines!Bytes)]

\* What a byte does to what has been split.
Advance(t, c) ==
  IF c = "newline" THEN [segments |-> Append(t.segments, t.rest), rest |-> <<>>]
  ELSE [segments |-> t.segments, rest |-> Append(t.rest, c)]

\* The two fields, each in its set.
LEMMA PartsApart ==
  ASSUME NEW t \in Parts
  PROVE  /\ t.segments \in Seq(Seq(Lines!Bytes)) /\ t.rest \in Seq(Lines!Bytes)
         /\ t = [segments |-> t.segments, rest |-> t.rest]
BY DEF Parts

LEMMA PartsTogether ==
  ASSUME NEW segs \in Seq(Seq(Lines!Bytes)), NEW r \in Seq(Lines!Bytes)
  PROVE  [segments |-> segs, rest |-> r] \in Parts
BY DEF Parts

LEMMA NothingYet ==
  <<>> \in Seq(Seq(Lines!Bytes)) /\ <<>> \in Seq(Lines!Bytes)
OBVIOUS

LEMMA AdvanceTypes ==
  ASSUME NEW t \in Parts, NEW c \in Lines!Bytes
  PROVE  Advance(t, c) \in Parts
<1>1. t.segments \in Seq(Seq(Lines!Bytes)) /\ t.rest \in Seq(Lines!Bytes)
  BY PartsApart
<1>2. Append(t.segments, t.rest) \in Seq(Seq(Lines!Bytes)) /\ Append(t.rest, c) \in Seq(Lines!Bytes)
  BY <1>1, AppendProperties
<1> QED
  BY <1>1, <1>2, NothingYet, PartsTogether DEF Advance

\* Byte by byte.
LEMMA SplitAdvances ==
  ASSUME NEW bytes \in Seq(Lines!Bytes), NEW c \in Lines!Bytes, Lines!Split(bytes) \in Parts
  PROVE  Lines!Split(Append(bytes, c)) = Advance(Lines!Split(bytes), c)
<1> DEFINE t == Lines!Split(bytes)
<1>1. Lines!Split(Append(bytes, c)) =
         IF c = "newline" THEN [segments |-> Append(t.segments, t.rest), rest |-> <<>>]
         ELSE [t EXCEPT !.rest = Append(@, c)]
  BY SplitUnfolds
<1>2. t \in Parts
  OBVIOUS
<1> DEFINE r == Append(t.rest, c)
<1>3. [t EXCEPT !.rest = Append(@, c)] = [t EXCEPT !.rest = r]
  OBVIOUS
<1> HIDE DEF t, r
<1>4. [t EXCEPT !.rest = r] = [segments |-> t.segments, rest |-> r]
  BY <1>2 DEF Parts
<1> QED
  BY <1>1, <1>3, <1>4 DEF Advance, t, r

\* A stream of bytes is split into sequences of bytes.
LEMMA SplitTypes == \A bytes \in Seq(Lines!Bytes) : Lines!Split(bytes) \in Parts
<1> DEFINE S == {n \in Nat : \A b \in Seq(Lines!Bytes) : Len(b) = n => Lines!Split(b) \in Parts}
<1>1. 0 \in S
  <2>1. ASSUME NEW b \in Seq(Lines!Bytes), Len(b) = 0 PROVE Lines!Split(b) \in Parts
    <3>1. b = <<>>
      BY <2>1
    <3>2. Lines!Split(b) = [segments |-> <<>>, rest |-> <<>>]
      BY <3>1, SplitUnfolds
    <3>3. [segments |-> <<>>, rest |-> <<>>] \in Parts
      BY NothingYet, PartsTogether
    <3> QED
      BY <3>2, <3>3
  <2> QED
    BY <2>1
<1>2. ASSUME NEW n \in S PROVE n + 1 \in S
  <2>1. ASSUME NEW b \in Seq(Lines!Bytes), Len(b) = n + 1 PROVE Lines!Split(b) \in Parts
    <3>1. b # <<>>
      BY <2>1, EmptySeq
    <3>2. PICK f \in Seq(Lines!Bytes), c \in Lines!Bytes : b = Append(f, c)
      BY <3>1, SequenceEmptyOrAppend
    <3>3. Len(f) = n
      BY <2>1, <3>2, AppendProperties
    <3>4. Lines!Split(f) \in Parts
      BY <3>3
    <3> QED
      BY <3>2, <3>4, SplitAdvances, AdvanceTypes
  <2> QED
    BY <2>1
<1>3. S = Nat
  <2> HIDE DEF S
  <2> QED
    BY <1>1, <1>2, FromZero DEF S
<1> QED
  BY <1>3, LenProperties

\* Appending to the second of two sequences appends to both.
LEMMA ConcatAppend ==
  ASSUME NEW T, NEW a \in Seq(T), NEW b \in Seq(T), NEW e \in T
  PROVE  a \o Append(b, e) = Append(a \o b, e)
<1>1. <<e>> \in Seq(T) /\ a \o b \in Seq(T)
  BY ConcatProperties
<1>2. Append(b, e) = b \o <<e>> /\ Append(a \o b, e) = (a \o b) \o <<e>>
  BY <1>1, AppendIsConcat
<1> QED
  BY <1>1, <1>2, ConcatAssociative

\* The segments that follow an unfinished line: the first one ends it.
Continued(line, segments) ==
  [j \in 1..Len(segments) |-> IF j = 1 THEN line \o segments[1] ELSE segments[j]]

\* A continued line changes no number of segments.
LEMMA ContinuedTypes ==
  ASSUME NEW l \in Seq(Lines!Bytes), NEW segs \in Seq(Seq(Lines!Bytes))
  PROVE  /\ Continued(l, segs) \in Seq(Seq(Lines!Bytes))
         /\ Len(Continued(l, segs)) = Len(segs)
         /\ Continued(l, <<>>) = <<>>
<1> DEFINE e(j) == IF j = 1 THEN l \o segs[1] ELSE segs[j]
<1>0. Len(segs) \in Nat
  BY LenProperties
<1>1. ASSUME NEW j \in 1..Len(segs) PROVE e(j) \in Seq(Lines!Bytes)
  <2>1. segs[j] \in Seq(Lines!Bytes)
    BY ElementOfSeq
  <2> QED
    BY <2>1, ConcatProperties
<1>2. Continued(l, segs) = [j \in 1..Len(segs) |-> e(j)]
  BY DEF Continued
<1>3. [j \in 1..Len(segs) |-> e(j)] \in Seq(Seq(Lines!Bytes))
  <2> HIDE DEF e
  <2> QED
    BY <1>0, <1>1
<1>4. Continued(l, segs) \in Seq(Seq(Lines!Bytes)) /\ DOMAIN Continued(l, segs) = 1..Len(segs)
  <2> HIDE DEF e
  <2> QED
    BY <1>2, <1>3
<1>5. Len(Continued(l, segs)) = Len(segs)
  BY <1>0, <1>4, LenProperties
<1>6. Continued(l, <<>>) = <<>>
  BY DEF Continued
<1> QED
  BY <1>4, <1>5, <1>6

\* One segment more.
LEMMA ContinuedUnfolds ==
  ASSUME NEW l \in Seq(Lines!Bytes), NEW segs \in Seq(Seq(Lines!Bytes)), NEW r \in Seq(Lines!Bytes)
  PROVE  Continued(l, Append(segs, r)) =
           Append(Continued(l, segs), IF segs = <<>> THEN l \o r ELSE r)
<1> DEFINE last == IF segs = <<>> THEN l \o r ELSE r
           more == Append(segs, r)
           a == Continued(l, more)
           b == Append(Continued(l, segs), last)
<1>1. /\ more \in Seq(Seq(Lines!Bytes)) /\ Len(more) = Len(segs) + 1 /\ Len(segs) \in Nat
      /\ \A j \in 1..Len(segs) : more[j] = segs[j]
      /\ more[Len(segs) + 1] = r
  BY AppendProperties, LenProperties
<1>2. last \in Seq(Lines!Bytes)
  BY ConcatProperties
<1>3. a \in Seq(Seq(Lines!Bytes)) /\ Len(a) = Len(segs) + 1
  BY <1>1, ContinuedTypes
<1>4. /\ Continued(l, segs) \in Seq(Seq(Lines!Bytes)) /\ Len(Continued(l, segs)) = Len(segs)
  BY ContinuedTypes
<1>5. /\ b \in Seq(Seq(Lines!Bytes)) /\ Len(b) = Len(segs) + 1
      /\ \A j \in 1..Len(segs) : b[j] = Continued(l, segs)[j]
      /\ b[Len(segs) + 1] = last
  <2> HIDE DEF last
  <2> QED
    BY <1>2, <1>4, AppendProperties
<1>6. ASSUME NEW j \in 1..Len(segs) + 1 PROVE a[j] = b[j]
  <2>1. a[j] = IF j = 1 THEN l \o more[1] ELSE more[j]
    BY <1>1 DEF Continued
  <2>2. CASE j \in 1..Len(segs)
    <3>1. Continued(l, segs)[j] = IF j = 1 THEN l \o segs[1] ELSE segs[j]
      BY <2>2 DEF Continued
    <3>2. more[j] = segs[j] /\ (j = 1 => more[1] = segs[1]) /\ b[j] = Continued(l, segs)[j]
      BY <1>1, <1>5, <2>2
    <3> HIDE DEF a, b, more
    <3>3. CASE j = 1
      BY <2>1, <3>1, <3>2, <3>3
    <3>4. CASE j # 1
      BY <2>1, <3>1, <3>2, <3>4
    <3> QED
      BY <3>3, <3>4
  <2>3. CASE j = Len(segs) + 1
    <3>1. j = 1 <=> segs = <<>>
      BY <1>1, <2>3, EmptySeq
    <3>2. more[j] = r /\ (j = 1 => more[1] = r) /\ b[j] = last
      BY <1>1, <1>5, <2>3
    <3> HIDE DEF a, b, more
    <3> QED
      BY <2>1, <3>1, <3>2
  <2>4. Len(segs) \in Nat
    BY <1>1
  <2> HIDE DEF a, b
  <2> QED
    BY <2>2, <2>3, <2>4
<1> QED
  <2> HIDE DEF a, b
  <2>1. a = b
    BY <1>1, <1>3, <1>5, <1>6, SeqEqual
  <2> QED
    BY <2>1 DEF a, b

\* What a stream is split into when its continuation is split alone.
Joined(s, t) ==
  [segments |-> s.segments \o Continued(s.rest, t.segments),
   rest |-> IF t.segments = <<>> THEN s.rest \o t.rest ELSE t.rest]

\* One byte more of the continuation.
LEMMA JoinedAdvances ==
  ASSUME NEW s \in Parts, NEW t \in Parts, NEW c \in Lines!Bytes
  PROVE  Joined(s, Advance(t, c)) = Advance(Joined(s, t), c)
<1> DEFINE S == s.segments  a == s.rest  T == t.segments  b == t.rest
           r == IF T = <<>> THEN a \o b ELSE b
           l == Continued(a, T)
           u == Advance(t, c)
<1>1. /\ S \in Seq(Seq(Lines!Bytes)) /\ a \in Seq(Lines!Bytes)
      /\ T \in Seq(Seq(Lines!Bytes)) /\ b \in Seq(Lines!Bytes)
  BY PartsApart
<1>2. Joined(s, t).segments = S \o l /\ Joined(s, t).rest = r
  BY DEF Joined
<1>3. /\ c = "newline" => u.segments = Append(T, b) /\ u.rest = <<>>
      /\ c # "newline" => u.segments = T /\ u.rest = Append(b, c)
  BY DEF Advance
<1>4. Joined(s, u) = [segments |-> S \o Continued(a, u.segments),
                      rest |-> IF u.segments = <<>> THEN a \o u.rest ELSE u.rest]
  BY DEF Joined
<1>5. Advance(Joined(s, t), c) =
        IF c = "newline" THEN [segments |-> Append(S \o l, r), rest |-> <<>>]
        ELSE [segments |-> S \o l, rest |-> Append(r, c)]
  BY <1>2 DEF Advance
<1> HIDE DEF S, a, T, b, u
<1>6. r \in Seq(Lines!Bytes) /\ a \o b \in Seq(Lines!Bytes)
  BY <1>1, ConcatProperties
<1>7. l \in Seq(Seq(Lines!Bytes))
  BY <1>1, ContinuedTypes
<1>8. CASE c = "newline"
  <2>1. Append(T, b) # <<>>
    BY <1>1, AppendProperties
  <2>2. Continued(a, Append(T, b)) = Append(l, r)
    BY <1>1, ContinuedUnfolds
  <2> HIDE DEF l, r
  <2>3. S \o Append(l, r) = Append(S \o l, r)
    BY <1>1, <1>6, <1>7, ConcatAppend
  <2> QED
    BY <1>3, <1>4, <1>5, <1>8, <2>1, <2>2, <2>3 DEF u
<1>9. CASE c # "newline"
  <2>1. a \o Append(b, c) = Append(a \o b, c)
    BY <1>1, ConcatAppend
  <2> HIDE DEF l
  <2>2. Joined(s, u) = [segments |-> S \o l, rest |-> IF T = <<>> THEN a \o Append(b, c) ELSE Append(b, c)]
    BY <1>3, <1>4, <1>9 DEF l
  <2>3. Append(r, c) = IF T = <<>> THEN a \o Append(b, c) ELSE Append(b, c)
    BY <2>1
  <2> HIDE DEF r
  <2> QED
    BY <1>5, <1>9, <2>2, <2>3 DEF u
<1> QED
  BY <1>8, <1>9

\* No byte more.
LEMMA JoinedWithNothing ==
  ASSUME NEW s \in Parts
  PROVE  Joined(s, [segments |-> <<>>, rest |-> <<>>]) = s
<1>1. s.segments \in Seq(Seq(Lines!Bytes)) /\ s.rest \in Seq(Lines!Bytes)
  BY PartsApart
<1>2. s.segments \o <<>> = s.segments /\ s.rest \o <<>> = s.rest
  BY <1>1, ConcatEmptySeq
<1>3. Continued(s.rest, <<>>) = <<>>
  BY DEF Continued
<1> QED
  BY <1>2, <1>3, PartsApart DEF Joined

\* Where a stream is cut makes no difference to its segments.
LEMMA SplitConcat ==
  ASSUME NEW a \in Seq(Lines!Bytes), NEW b \in Seq(Lines!Bytes)
  PROVE  Lines!Split(a \o b) = Joined(Lines!Split(a), Lines!Split(b))
<1> DEFINE P(x) == Lines!Split(a \o x) = Joined(Lines!Split(a), Lines!Split(x))
           S == {n \in Nat : \A x \in Seq(Lines!Bytes) : Len(x) = n => P(x)}
<1>1. 0 \in S
  <2>1. ASSUME NEW x \in Seq(Lines!Bytes), Len(x) = 0 PROVE P(x)
    <3>1. x = <<>>
      BY <2>1
    <3>2. a \o x = a
      BY <3>1, ConcatEmptySeq
    <3> QED
      BY <3>1, <3>2, SplitTypes, SplitUnfolds, JoinedWithNothing
  <2> QED
    BY <2>1
<1>2. ASSUME NEW n \in S PROVE n + 1 \in S
  <2>1. ASSUME NEW x \in Seq(Lines!Bytes), Len(x) = n + 1 PROVE P(x)
    <3>1. x # <<>>
      BY <2>1, EmptySeq
    <3>2. PICK f \in Seq(Lines!Bytes), c \in Lines!Bytes : x = Append(f, c)
      BY <3>1, SequenceEmptyOrAppend
    <3>3. Len(f) = n
      BY <2>1, <3>2, AppendProperties
    <3>4. P(f)
      BY <3>3
    <3>5. a \o x = Append(a \o f, c) /\ a \o f \in Seq(Lines!Bytes)
      BY <3>2, ConcatAppend, ConcatProperties
    <3>6. Lines!Split(x) = Advance(Lines!Split(f), c)
      BY <3>2, SplitTypes, SplitAdvances
    <3>7. Lines!Split(a \o x) = Advance(Lines!Split(a \o f), c)
      BY <3>5, SplitTypes, SplitAdvances
    <3>8. Lines!Split(a) \in Parts /\ Lines!Split(f) \in Parts
      BY SplitTypes
    <3> QED
      BY <3>4, <3>6, <3>7, <3>8, JoinedAdvances
  <2> HIDE DEF P
  <2> QED
    BY <2>1
<1>3. S = Nat
  <2> HIDE DEF S
  <2> QED
    BY <1>1, <1>2, FromZero DEF S
<1>4. Len(b) \in Nat
  BY LenProperties
<1> HIDE DEF P
<1>5. P(b)
  BY <1>3, <1>4
<1> QED
  BY <1>5 DEF P

\* A carriage return before the newline is no part of the value.
LEMMA ReturnIsNoDigit ==
  ASSUME NEW line \in Seq(Lines!Bytes)
  PROVE  /\ Lines!Value(Lines!WithoutReturn(line)) = Lines!Value(line)
         /\ Lines!Value(line) \in Nat
<1> DEFINE n == Len(line)
           short == SubSeq(line, 1, n - 1)
<1>0. n \in Nat /\ DOMAIN line = 1..n /\ \A i \in 1..n : line[i] \in Lines!Bytes
  BY LenProperties, ElementOfSeq
<1>1. ASSUME line # <<>>, line[n] = "cr" PROVE Lines!Digits(short) = Lines!Digits(line)
  <2>1. n # 0
    BY <1>1, EmptySeq
  <2>2. \A i \in 1..n - 1 : line[i] \in Lines!Bytes
    BY <1>0
  <2>3. short \in Seq(Lines!Bytes) /\ Len(short) = n - 1 /\ \A i \in 1..n - 1 : short[i] = line[i]
    <3>1. short \in Seq(Lines!Bytes) /\ Len(short) = IF 1 <= n - 1 THEN n - 1 - 1 + 1 ELSE 0
      BY <1>0, <2>2, SubSeqProperties
    <3>2. \A i \in 1..n - 1 - 1 + 1 : short[i] = line[1 + i - 1]
      BY <1>0, <2>2, SubSeqProperties
    <3> HIDE DEF short, n
    <3> QED
      BY <1>0, <2>1, <3>1, <3>2
  <2>4. DOMAIN short = 1..n - 1
    BY <2>3, LenProperties
  <2> HIDE DEF short
  <2> QED
    BY <1>0, <1>1, <2>1, <2>3, <2>4 DEF Lines!Digits
<1>2. Lines!Digits(Lines!WithoutReturn(line)) = Lines!Digits(line)
  BY <1>1 DEF Lines!WithoutReturn
<1>3. Cardinality(Lines!Digits(line)) \in Nat
  <2>1. IsFiniteSet(1..n)
    BY <1>0, FS_Interval
  <2>2. Lines!Digits(line) \in SUBSET (1..n)
    BY <1>0 DEF Lines!Digits
  <2> QED
    BY <2>1, <2>2, FS_Subset, FS_CardinalityType
<1>4. \A l : Lines!Value(l) = Cardinality(Lines!Digits(l))
  BY DEF Lines!Value, Lines!Cardinality, Cardinality
<1> QED
  BY <1>2, <1>3, <1>4

\* A decoder, while it takes the lines of a batch.
Decoders ==
  [frames : Seq(Nat), buffer : Seq(Lines!Bytes),
   error : {"none", "too_many_frames", "frame_too_large", "invalid_json"}]

\* The three fields, each in its set.
LEMMA DecoderApart ==
  ASSUME NEW d \in Decoders
  PROVE  /\ d = [frames |-> d.frames, buffer |-> d.buffer, error |-> d.error]
         /\ d.frames \in Seq(Nat) /\ d.buffer \in Seq(Lines!Bytes)
         /\ d.error \in {"none", "too_many_frames", "frame_too_large", "invalid_json"}
BY DEF Decoders

\* A decoder with one field replaced, then with two.
LEMMA FieldReplaced ==
  ASSUME NEW A, NEW B, NEW C, NEW d \in [frames : A, buffer : B, error : C], NEW e
  PROVE  /\ [d EXCEPT !.error = e] = [frames |-> d.frames, buffer |-> d.buffer, error |-> e]
         /\ [d EXCEPT !.buffer = e] = [frames |-> d.frames, buffer |-> e, error |-> d.error]
OBVIOUS

LEMMA FieldsReplaced ==
  ASSUME NEW d \in Decoders, NEW b, NEW e
  PROVE  [d EXCEPT !.buffer = b, !.error = e] = [frames |-> d.frames, buffer |-> b, error |-> e]
<1> DEFINE f == [d EXCEPT !.buffer = b]
<1>1. f = [frames |-> d.frames, buffer |-> b, error |-> d.error]
  BY DEF Decoders
<1>2. /\ f \in [frames : {d.frames}, buffer : {b}, error : {d.error}]
      /\ f.frames = d.frames /\ f.buffer = b
  BY <1>1
<1>3. [d EXCEPT !.buffer = b, !.error = e] = [f EXCEPT !.error = e]
  OBVIOUS
<1> HIDE DEF f
<1>4. [f EXCEPT !.error = e] = [frames |-> f.frames, buffer |-> f.buffer, error |-> e]
  BY <1>2, FieldReplaced
<1> QED
  BY <1>2, <1>3, <1>4

LEMMA FramesReplaced ==
  ASSUME NEW d \in Decoders, NEW e, NEW b
  PROVE  [d EXCEPT !.frames = e, !.buffer = b] = [frames |-> e, buffer |-> b, error |-> d.error]
<1> DEFINE f == [d EXCEPT !.frames = e]
<1>1. f = [frames |-> e, buffer |-> d.buffer, error |-> d.error]
  BY DEF Decoders
<1>2. /\ f \in [frames : {e}, buffer : {d.buffer}, error : {d.error}]
      /\ f.frames = e /\ f.error = d.error
  BY <1>1
<1>3. [d EXCEPT !.frames = e, !.buffer = b] = [f EXCEPT !.buffer = b]
  OBVIOUS
<1> HIDE DEF f
<1>4. [f EXCEPT !.buffer = b] = [frames |-> f.frames, buffer |-> b, error |-> f.error]
  BY <1>2, FieldReplaced
<1> QED
  BY <1>2, <1>3, <1>4

\* A poisoned decoder has its error and no buffer.
LEMMA PoisonIs ==
  ASSUME NEW d \in Decoders, NEW e
  PROVE  Lines!Poison(d, e) = [frames |-> d.frames, buffer |-> <<>>, error |-> e]
<1> DEFINE nothing == <<>>
<1>1. Lines!Poison(d, e) = [d EXCEPT !.buffer = nothing, !.error = e]
  BY DEF Lines!Poison
<1> HIDE DEF nothing
<1>2. [d EXCEPT !.buffer = nothing, !.error = e] = [frames |-> d.frames, buffer |-> nothing, error |-> e]
  BY FieldsReplaced
<1> QED
  BY <1>1, <1>2 DEF nothing

\* extend_checked counts what the buffer holds.
LEMMA ExtendIs ==
  ASSUME NEW d \in Decoders, NEW bytes \in Seq(Lines!Bytes)
  PROVE  /\ d.buffer \o bytes \in Seq(Lines!Bytes)
         /\ Lines!Extend(d, bytes) =
              IF Len(d.buffer \o bytes) > MaximumFrameBytes
              THEN [frames |-> d.frames, buffer |-> <<>>, error |-> "frame_too_large"]
              ELSE [frames |-> d.frames, buffer |-> d.buffer \o bytes, error |-> d.error]
<1> DEFINE b == d.buffer
<1>1. b \in Seq(Lines!Bytes)
  BY DecoderApart
<1>2. Lines!Poison(d, "frame_too_large") = [frames |-> d.frames, buffer |-> <<>>, error |-> "frame_too_large"]
  BY PoisonIs
<1> DEFINE c == b \o bytes
<1>3. [d EXCEPT !.buffer = @ \o bytes] = [d EXCEPT !.buffer = c]
  OBVIOUS
<1> HIDE DEF c
<1>4. [d EXCEPT !.buffer = c] = [frames |-> d.frames, buffer |-> c, error |-> d.error]
  BY DEF Decoders
<1> HIDE DEF b
<1>5. c \in Seq(Lines!Bytes) /\ Len(c) = Len(b) + Len(bytes) /\ Len(b) \in Nat /\ Len(bytes) \in Nat
  BY <1>1, ConcatProperties, LenProperties DEF c
<1>6. Len(bytes) > MaximumFrameBytes - Len(b) <=> Len(c) > MaximumFrameBytes
  BY <1>5, LinesAssumption
<1>7. Lines!Extend(d, bytes) = IF Len(c) > MaximumFrameBytes
                               THEN Lines!Poison(d, "frame_too_large") ELSE [d EXCEPT !.buffer = c]
  BY <1>3, <1>6 DEF Lines!Extend, b
<1>8. Lines!Extend(d, bytes) = IF Len(c) > MaximumFrameBytes
                               THEN [frames |-> d.frames, buffer |-> <<>>, error |-> "frame_too_large"]
                               ELSE [frames |-> d.frames, buffer |-> c, error |-> d.error]
  BY <1>2, <1>4, <1>7
<1> QED
  BY <1>5, <1>8 DEF b, c

\* One turn of the loop takes an acceptable line, or stops the decoder.
LEMMA TakeLineIs ==
  ASSUME NEW d \in Decoders, d.error = "none", NEW bytes \in Seq(Lines!Bytes)
  PROVE  LET line == d.buffer \o bytes
             taken == Lines!TakeLine(d, bytes)
         IN  \/ taken = [frames |-> d.frames, buffer |-> <<>>, error |-> "too_many_frames"]
             \/ /\ ~Lines!Acceptable(line)
                /\ \E e \in {"frame_too_large", "invalid_json"} :
                     taken = [frames |-> d.frames, buffer |-> <<>>, error |-> e]
             \/ /\ Lines!Acceptable(line)
                /\ taken = [frames |-> Append(d.frames, Lines!Value(line)), buffer |-> <<>>,
                            error |-> "none"]
<1> DEFINE line == d.buffer \o bytes
           taken == Lines!TakeLine(d, bytes)
           extended == Lines!Extend(d, bytes)
           value == Lines!Value(Lines!WithoutReturn(line))
<1>1. CASE Len(d.frames) >= MaximumFramesPerPush
  BY <1>1, PoisonIs DEF Lines!TakeLine
<1>2. CASE ~(Len(d.frames) >= MaximumFramesPerPush) /\ Len(line) > MaximumFrameBytes
  <2>1. extended = [frames |-> d.frames, buffer |-> <<>>, error |-> "frame_too_large"]
    BY <1>2, ExtendIs
  <2>2. extended.error # "none"
    BY <2>1
  <2>3. taken = extended
    BY <1>2, <2>2 DEF Lines!TakeLine
  <2>4. ~Lines!Acceptable(line)
    <3>1. Len(line) \in Nat
      BY ExtendIs, LenProperties
    <3> HIDE DEF line
    <3> QED
      BY <1>2, <3>1, LinesAssumption DEF Lines!Acceptable
  <2> QED
    BY <2>1, <2>3, <2>4
<1>3. CASE ~(Len(d.frames) >= MaximumFramesPerPush) /\ ~(Len(line) > MaximumFrameBytes)
  <2>1. extended = [frames |-> d.frames, buffer |-> line, error |-> "none"]
    BY <1>3, ExtendIs
  <2>2. extended.error = "none" /\ extended.buffer = line
    BY <2>1
  <2>3. line \in Seq(Lines!Bytes) /\ Len(line) <= MaximumFrameBytes
    <3>1. line \in Seq(Lines!Bytes)
      BY ExtendIs
    <3> HIDE DEF line
    <3> QED
      BY <1>3, <3>1, LenProperties, LinesAssumption
  <2>4. value = Lines!Value(line)
    <3> HIDE DEF line
    <3> QED
      BY <2>3, ReturnIsNoDigit
  <2>5. Lines!Acceptable(line) <=> Lines!IsValue(Lines!WithoutReturn(line))
    BY <2>3 DEF Lines!Acceptable
  <2>6. taken = IF ~Lines!IsValue(Lines!WithoutReturn(line)) THEN Lines!Poison(d, "invalid_json")
                ELSE [d EXCEPT !.frames = Append(@, value), !.buffer = <<>>]
    <3> HIDE DEF line
    <3> QED
      BY <1>3, <2>2 DEF Lines!TakeLine
  <2> DEFINE more == Append(d.frames, value)
         nothing == <<>>
  <2>7. [d EXCEPT !.frames = Append(@, value), !.buffer = <<>>] = [d EXCEPT !.frames = more, !.buffer = nothing]
    OBVIOUS
  <2> HIDE DEF more, nothing
  <2>8. [d EXCEPT !.frames = more, !.buffer = nothing] = [frames |-> more, buffer |-> nothing, error |-> d.error]
    BY FramesReplaced
  <2>9. [d EXCEPT !.frames = Append(@, value), !.buffer = <<>>] =
           [frames |-> more, buffer |-> nothing, error |-> "none"]
    BY <2>7, <2>8
  <2>10. Lines!Poison(d, "invalid_json") = [frames |-> d.frames, buffer |-> <<>>, error |-> "invalid_json"]
    BY PoisonIs
  <2> QED
    BY <2>4, <2>5, <2>6, <2>9, <2>10 DEF more, nothing
<1> QED
  BY <1>1, <1>2, <1>3

\* The k-th value of the recursion that takes the segments.
LoopFrom(g, segments, k) ==
  IF k = 0 THEN [frames |-> <<>>, buffer |-> x3, error |-> "none"]
  ELSE Lines!TakeLine(g[k - 1], segments[k])

\* The loop is a function: the recursion has a value.
LEMMA LoopExists ==
  ASSUME NEW segs, Len(segs) \in Nat
  PROVE  \E g : g = [k \in 0..Len(segs) |-> LoopFrom(g, segs, k)]
<1> DEFINE K(g, m) == g = [k \in 0..m |-> LoopFrom(g, segs, k)]
           S == {m \in Nat : \E g : K(g, m)}
<1>1. 0 \in S
  <2> DEFINE g == [k \in 0..0 |-> [frames |-> <<>>, buffer |-> x3, error |-> "none"]]
  <2>1. \A k \in 0..0 : LoopFrom(g, segs, k) = [frames |-> <<>>, buffer |-> x3, error |-> "none"]
    BY DEF LoopFrom
  <2>2. K(g, 0)
    BY <2>1
  <2> HIDE DEF K, g
  <2> QED
    BY <2>2
<1>2. ASSUME NEW m \in S PROVE m + 1 \in S
  <2>0. m \in Nat
    OBVIOUS
  <2>1. PICK f : K(f, m)
    OBVIOUS
  <2> DEFINE g == [k \in 0..m + 1 |-> IF k = m + 1 THEN LoopFrom(f, segs, m + 1) ELSE f[k]]
  <2>2. ASSUME NEW k \in 0..m + 1 PROVE g[k] = LoopFrom(g, segs, k)
    <3>1. ASSUME k # 0 PROVE g[k - 1] = f[k - 1]
      BY <2>0, <3>1
    <3>2. LoopFrom(g, segs, k) = LoopFrom(f, segs, k)
      <4> HIDE DEF g
      <4> QED
        BY <3>1 DEF LoopFrom
    <3>3. CASE k = m + 1
      BY <3>2, <3>3
    <3>4. CASE k # m + 1
      <4>1. k \in 0..m
        BY <2>0, <3>4
      <4>2. f[k] = LoopFrom(f, segs, k)
        BY <2>1, <4>1
      <4> QED
        BY <3>2, <3>4, <4>2
    <3> QED
      BY <3>3, <3>4
  <2>3. K(g, m + 1)
    BY <2>2
  <2>4. m + 1 \in Nat
    BY <2>0
  <2> HIDE DEF K, g
  <2> QED
    BY <2>3, <2>4
<1>3. S = Nat
  <2> HIDE DEF S
  <2> QED
    BY <1>1, <1>2, FromZero DEF S
<1>4. Len(segs) \in S
  BY <1>3
<1> HIDE DEF K
<1> QED
  BY <1>4 DEF K

\* The lines that the first k segments end have been taken, each acceptable.
TakenAll(d, lines, k) ==
  /\ d.error = "none" /\ Len(d.frames) = k
  /\ \A j \in 1..k : Lines!Acceptable(lines[j]) /\ d.frames[j] = Lines!Value(lines[j])

\* The decoder has stopped behind the frames it returns.
StoppedBefore(d, lines, k) ==
  /\ d.error # "none" /\ d.buffer = <<>> /\ Len(d.frames) < k
  /\ \A j \in 1..Len(d.frames) : Lines!Acceptable(lines[j]) /\ d.frames[j] = Lines!Value(lines[j])
  /\ d.error # "too_many_frames" => ~Lines!Acceptable(lines[Len(d.frames) + 1])

\* One segment more.
LEMMA TakeLineSound ==
  ASSUME NEW d \in Decoders, NEW lines, NEW k \in Nat, NEW bytes \in Seq(Lines!Bytes),
         TakenAll(d, lines, k), d.buffer \o bytes = lines[k + 1]
  PROVE  LET taken == Lines!TakeLine(d, bytes)
         IN  /\ taken \in Decoders
             /\ taken.buffer = <<>>
             /\ TakenAll(taken, lines, k + 1) \/ StoppedBefore(taken, lines, k + 1)
<1> DEFINE line == lines[k + 1]
           taken == Lines!TakeLine(d, bytes)
           fs == d.frames
<1>1. \/ taken = [frames |-> fs, buffer |-> <<>>, error |-> "too_many_frames"]
      \/ /\ ~Lines!Acceptable(line)
         /\ \E e \in {"frame_too_large", "invalid_json"} :
              taken = [frames |-> fs, buffer |-> <<>>, error |-> e]
      \/ /\ Lines!Acceptable(line)
         /\ taken = [frames |-> Append(fs, Lines!Value(line)), buffer |-> <<>>, error |-> "none"]
  BY TakeLineIs DEF TakenAll
<1>2. /\ fs \in Seq(Nat) /\ Len(fs) = k
      /\ \A j \in 1..k : Lines!Acceptable(lines[j]) /\ fs[j] = Lines!Value(lines[j])
  BY DecoderApart DEF TakenAll
<1>3. Lines!Value(line) \in Nat
  <2>1. d.buffer \o bytes \in Seq(Lines!Bytes)
    BY ExtendIs
  <2> QED
    BY <2>1, ReturnIsNoDigit
<1> HIDE DEF taken, fs
<1>4. ASSUME NEW e \in {"too_many_frames", "frame_too_large", "invalid_json"},
             e # "too_many_frames" => ~Lines!Acceptable(line),
             taken = [frames |-> fs, buffer |-> <<>>, error |-> e]
      PROVE  /\ taken \in Decoders /\ taken.buffer = <<>>
             /\ StoppedBefore(taken, lines, k + 1)
  <2>1. taken.frames = fs /\ taken.buffer = <<>> /\ taken.error = e
    BY <1>4
  <2>2. taken \in Decoders
    BY <1>2, <1>4, NothingYet DEF Decoders
  <2> QED
    BY <1>2, <1>4, <2>1, <2>2 DEF StoppedBefore
<1>5. ASSUME Lines!Acceptable(line),
             taken = [frames |-> Append(fs, Lines!Value(line)), buffer |-> <<>>, error |-> "none"]
      PROVE  /\ taken \in Decoders /\ taken.buffer = <<>>
             /\ TakenAll(taken, lines, k + 1)
  <2> DEFINE more == Append(fs, Lines!Value(line))
  <2>1. /\ more \in Seq(Nat) /\ Len(more) = k + 1 /\ more[k + 1] = Lines!Value(line)
        /\ \A j \in 1..k : more[j] = fs[j]
    BY <1>2, <1>3, AppendProperties
  <2>2. taken.frames = more /\ taken.buffer = <<>> /\ taken.error = "none"
    BY <1>5
  <2> HIDE DEF more
  <2>3. taken \in Decoders
    BY <1>5, <2>1, NothingYet DEF Decoders, more
  <2>4. ASSUME NEW j \in 1..k + 1
        PROVE  Lines!Acceptable(lines[j]) /\ more[j] = Lines!Value(lines[j])
    <3>1. j \in 1..k \/ j = k + 1
      OBVIOUS
    <3> QED
      BY <1>2, <1>5, <2>1, <3>1
  <2> QED
    BY <2>1, <2>2, <2>3, <2>4 DEF TakenAll
<1> QED
  BY <1>1, <1>4, <1>5 DEF taken

\* A push's loop over the segments of a batch.
LEMMA LoopedSound ==
  ASSUME x3 \in Seq(Lines!Bytes), NEW segs \in Seq(Seq(Lines!Bytes))
  PROVE  LET d == Lines!Looped(segs)
             lines == Continued(x3, segs)
         IN  /\ d \in Decoders
             /\ \/ /\ TakenAll(d, lines, Len(segs))
                   /\ d.buffer = IF segs = <<>> THEN x3 ELSE <<>>
                \/ StoppedBefore(d, lines, Len(segs))
<1> DEFINE after == CHOOSE g : g = [k \in 0..Len(segs) |-> LoopFrom(g, segs, k)]
           lines == Continued(x3, segs)
           Sound(d, k) == /\ d \in Decoders
                          /\ \/ TakenAll(d, lines, k) /\ d.buffer = IF k = 0 THEN x3 ELSE <<>>
                             \/ StoppedBefore(d, lines, k)
           S == {k \in Nat : k <= Len(segs) => Sound(after[k], k)}
<1>0. Len(segs) \in Nat /\ (Len(segs) = 0 <=> segs = <<>>)
  BY LenProperties, EmptySeq
<1>1. after = [k \in 0..Len(segs) |-> LoopFrom(after, segs, k)]
  BY <1>0, LoopExists
<1>2. Lines!Looped(segs) = after[Len(segs)]
  BY DEF Lines!Looped, LoopFrom
<1> HIDE DEF after
<1>3. ASSUME NEW k \in 0..Len(segs) PROVE after[k] = LoopFrom(after, segs, k)
  BY <1>1
<1>4. 0 \in S
  <2>1. after[0] = [frames |-> <<>>, buffer |-> x3, error |-> "none"]
    BY <1>0, <1>3 DEF LoopFrom
  <2>2. after[0] \in Decoders
    <3>1. <<>> \in Seq(Nat)
      OBVIOUS
    <3> QED
      BY <2>1, <3>1 DEF Decoders
  <2>3. after[0].error = "none" /\ after[0].buffer = x3 /\ Len(after[0].frames) = 0
    BY <2>1
  <2>4. TakenAll(after[0], lines, 0)
    BY <2>3 DEF TakenAll
  <2>5. Sound(after[0], 0)
    BY <2>2, <2>3, <2>4
  <2> HIDE DEF Sound
  <2> QED
    BY <2>5
<1>5. ASSUME NEW k \in S PROVE k + 1 \in S
  <2>0. k \in Nat
    OBVIOUS
  <2>1. SUFFICES ASSUME k + 1 <= Len(segs) PROVE Sound(after[k + 1], k + 1)
    BY <2>0
  <2> DEFINE d == after[k]
             taken == after[k + 1]
  <2>2. k + 1 \in 1..Len(segs) /\ k \in 0..Len(segs) /\ k <= Len(segs)
    BY <1>0, <2>0, <2>1
  <2>3. Sound(d, k)
    BY <2>2
  <2>4. taken = Lines!TakeLine(d, segs[k + 1])
    <3>1. k + 1 \in 0..Len(segs) /\ k + 1 # 0 /\ (k + 1) - 1 = k
      BY <1>0, <2>0, <2>2
    <3> QED
      BY <1>3, <3>1 DEF LoopFrom
  <2>5. segs[k + 1] \in Seq(Lines!Bytes)
    BY <2>2, ElementOfSeq
  <2> HIDE DEF d, taken
  <2>6. CASE StoppedBefore(d, lines, k)
    <3>1. taken = d
      BY <2>4, <2>6 DEF StoppedBefore, Lines!TakeLine
    <3>2. Len(d.frames) \in Nat
      BY <2>3, DecoderApart, LenProperties
    <3>3. Len(d.frames) < k + 1
      BY <2>0, <2>6, <3>2 DEF StoppedBefore
    <3> QED
      BY <2>3, <2>6, <3>1, <3>3 DEF StoppedBefore, taken
  <2>7. CASE TakenAll(d, lines, k) /\ d.buffer = IF k = 0 THEN x3 ELSE <<>>
    <3>1. lines[k + 1] = IF k + 1 = 1 THEN x3 \o segs[1] ELSE segs[k + 1]
      BY <2>2 DEF Continued
    <3>2. d.buffer \o segs[k + 1] = lines[k + 1]
      <4>1. CASE k = 0
        BY <2>7, <3>1, <4>1
      <4>2. CASE k # 0
        <5>1. lines[k + 1] = segs[k + 1]
          BY <2>0, <3>1, <4>2
        <5>2. <<>> \o segs[k + 1] = segs[k + 1]
          BY <2>5, ConcatEmptySeq
        <5> QED
          BY <2>7, <4>2, <5>1, <5>2
      <4> QED
        BY <4>1, <4>2
    <3>3. d \in Decoders
      BY <2>3
    <3> HIDE DEF lines
    <3>4. /\ taken \in Decoders /\ taken.buffer = <<>>
          /\ TakenAll(taken, lines, k + 1) \/ StoppedBefore(taken, lines, k + 1)
      BY <2>0, <2>4, <2>5, <2>7, <3>2, <3>3, TakeLineSound
    <3>5. k + 1 # 0
      BY <2>0
    <3>6. Sound(taken, k + 1)
      BY <3>4, <3>5
    <3> QED
      BY <3>6 DEF taken
  <2> QED
    BY <2>3, <2>6, <2>7
<1>6. S = Nat
  <2> HIDE DEF S
  <2> QED
    BY <1>4, <1>5, FromZero DEF S
<1>7. Sound(after[Len(segs)], Len(segs))
  <2> HIDE DEF Sound
  <2> QED
    BY <1>0, <1>6
<1> QED
  BY <1>0, <1>2, <1>7

\* How many lines lead the stream, when the first m are acceptable.
LEMMA LeadingLines ==
  ASSUME NEW lines \in Seq(Seq(Lines!Bytes)), NEW m \in Nat, m <= Len(lines),
         \A j \in 1..m : Lines!Acceptable(lines[j])
  PROVE  LET bad == {k \in DOMAIN lines : ~Lines!Acceptable(lines[k])}
             good == {k \in DOMAIN lines : \A j \in bad : k < j}
         IN  /\ m <= Lines!Cardinality(good)
             /\ m = Len(lines) => bad = {} /\ Lines!Cardinality(good) = m
             /\ m < Len(lines) /\ ~Lines!Acceptable(lines[m + 1]) =>
                  bad # {} /\ Lines!Cardinality(good) = m
<1> DEFINE bad == {k \in DOMAIN lines : ~Lines!Acceptable(lines[k])}
           good == {k \in DOMAIN lines : \A j \in bad : k < j}
<1>0. Len(lines) \in Nat /\ DOMAIN lines = 1..Len(lines)
  BY LenProperties
<1>1. \A s : Lines!Cardinality(s) = Cardinality(s)
  BY DEF Lines!Cardinality, Cardinality
<1>2. \A j \in bad : m < j /\ j \in Nat
  BY <1>0
<1>3. 1..m \subseteq good
  <2>1. ASSUME NEW k \in 1..m PROVE k \in DOMAIN lines /\ \A j \in bad : k < j
    <3>1. k \in DOMAIN lines
      BY <1>0
    <3> HIDE DEF bad
    <3> QED
      BY <1>2, <3>1
  <2> HIDE DEF bad
  <2> QED
    BY <2>1
<1>4. good \subseteq 1..Len(lines)
  BY <1>0
<1>5. /\ IsFiniteSet(1..m) /\ Cardinality(1..m) = m
      /\ IsFiniteSet(1..Len(lines)) /\ Cardinality(1..Len(lines)) = Len(lines)
  <2>1. \A n \in Nat : IsFiniteSet(1..n) /\ Cardinality(1..n) = n
    <3>1. \A n \in Nat : n - 1 + 1 = n /\ (1 > n => n = 0)
      OBVIOUS
    <3> QED
      BY <3>1, FS_Interval
  <2> QED
    BY <1>0, <2>1
<1>6. IsFiniteSet(good) /\ m <= Cardinality(good)
  <2> HIDE DEF good
  <2>1. IsFiniteSet(good)
    BY <1>4, <1>5, FS_Subset
  <2> QED
    BY <1>3, <1>5, <2>1, FS_Subset
<1>7. ASSUME good \subseteq 1..m PROVE Cardinality(good) = m
  BY <1>3, <1>5, <1>7
<1>8. ASSUME m = Len(lines) PROVE bad = {} /\ Cardinality(good) = m
  <2>1. bad = {}
    BY <1>0, <1>8
  <2> QED
    BY <1>4, <1>7, <1>8, <2>1
<1>9. ASSUME m < Len(lines), ~Lines!Acceptable(lines[m + 1])
      PROVE  bad # {} /\ Cardinality(good) = m
  <2>1. m + 1 \in bad
    BY <1>0, <1>9
  <2>2. good \subseteq 1..m
    <3>1. \A k \in good : k \in 1..Len(lines) /\ k < m + 1
      BY <1>0, <2>1
    <3> HIDE DEF good, bad
    <3> QED
      BY <1>0, <3>1
  <2> QED
    BY <1>7, <2>1, <2>2
<1> HIDE DEF good, bad
<1>10. /\ m <= Lines!Cardinality(good)
       /\ m = Len(lines) => bad = {} /\ Lines!Cardinality(good) = m
       /\ m < Len(lines) /\ ~Lines!Acceptable(lines[m + 1]) =>
            bad # {} /\ Lines!Cardinality(good) = m
  BY <1>1, <1>6, <1>8, <1>9
<1> QED
  BY <1>10 DEF good, bad

\* When the frames are the values of leading lines, the decoder has kept its
\* promise about the stream.
LEMMA StreamHolds ==
  ASSUME NEW lines \in Seq(Seq(Lines!Bytes)), NEW rest,
         lines = Lines!Segments(x1'), rest = Lines!Rest(x1'),
         x2' \in Seq(Nat), Len(x2') <= Len(lines),
         \A j \in 1..Len(x2') : Lines!Acceptable(lines[j]) /\ x2'[j] = Lines!Value(lines[j]),
         x4' = "none" => Len(x2') = Len(lines) /\ x3' = rest,
         x4' = "invalid_json" => Len(x2') < Len(lines) /\ ~Lines!Acceptable(lines[Len(x2') + 1]),
         x4' = "frame_too_large" =>
           \/ Len(x2') < Len(lines) /\ ~Lines!Acceptable(lines[Len(x2') + 1])
           \/ Len(x2') = Len(lines) /\ Len(rest) > MaximumFrameBytes,
         x4' # "none" => x3' = <<>>,
         Len(x3') <= MaximumFrameBytes
  PROVE  Lines!FramesOfStream'
<1> DEFINE bad == {k \in DOMAIN lines : ~Lines!Acceptable(lines[k])}
           good == {k \in DOMAIN lines : \A j \in bad : k < j}
           all == Lines!Cardinality(good)
           m == Len(x2')
<1>1. m \in Nat /\ DOMAIN x2' = 1..m
  BY LenProperties
<1>2. /\ m <= all
      /\ m = Len(lines) => bad = {} /\ all = m
      /\ m < Len(lines) /\ ~Lines!Acceptable(lines[m + 1]) => bad # {} /\ all = m
  BY <1>1, LeadingLines
<1>3. Lines!FramesOfStream' <=>
        /\ Len(x2') <= all
        /\ \A k \in DOMAIN x2' : x2'[k] = Lines!Value(lines[k])
        /\ x4' = "none" => bad = {} /\ Len(x2') = all /\ x3' = rest
        /\ x4' = "invalid_json" => bad # {} /\ Len(x2') = all
        /\ x4' = "frame_too_large" =>
             Len(x2') = all /\ (bad # {} \/ Len(rest) > MaximumFrameBytes)
        /\ x4' # "none" => x3' = <<>>
        /\ Len(x3') <= MaximumFrameBytes
  BY DEF Lines!FramesOfStream
<1> HIDE DEF all, bad
<1> QED
  BY <1>1, <1>2, <1>3

\* A decoder without an error has taken every line, and holds the rest.
LEMMA StreamSoFar ==
  ASSUME Lines!IInv, x4 = "none"
  PROVE  /\ x1 \in Seq(Lines!Bytes) /\ x2 \in Seq(Nat) /\ x3 \in Seq(Lines!Bytes)
         /\ Len(x3) <= MaximumFrameBytes /\ x3 = Lines!Split(x1).rest
         /\ Len(x2) = Len(Lines!Split(x1).segments)
         /\ \A j \in 1..Len(x2) : /\ Lines!Acceptable(Lines!Split(x1).segments[j])
                                  /\ x2[j] = Lines!Value(Lines!Split(x1).segments[j])
<1> DEFINE lines == Lines!Split(x1).segments
           bad == {k \in DOMAIN lines : ~Lines!Acceptable(lines[k])}
           good == {k \in DOMAIN lines : \A j \in bad : k < j}
           all == Lines!Cardinality(good)
<1>1. x1 \in Seq(Lines!Bytes) /\ x2 \in Seq(Nat) /\ x3 \in Seq(Lines!Bytes)
  BY DEF Lines!IInv
<1>2. lines \in Seq(Seq(Lines!Bytes))
  BY <1>1, SplitTypes, PartsApart
<1>3. /\ \A k \in DOMAIN x2 : x2[k] = Lines!Value(lines[k])
      /\ bad = {} /\ Len(x2) = all /\ x3 = Lines!Split(x1).rest
      /\ Len(x3) <= MaximumFrameBytes
  BY DEF Lines!IInv, Lines!FramesOfStream, Lines!Segments, Lines!Rest
<1> HIDE DEF lines
<1>4. Len(lines) \in Nat /\ DOMAIN lines = 1..Len(lines) /\ DOMAIN x2 = 1..Len(x2)
  BY <1>1, <1>2, LenProperties
<1>5. \A j \in 1..Len(lines) : Lines!Acceptable(lines[j])
  BY <1>3, <1>4
<1>6. all = Len(lines)
  <2>1. Len(lines) <= Len(lines) /\ lines \in Seq(Seq(Lines!Bytes)) /\ Len(lines) \in Nat
    BY <1>2, <1>4
  <2> DEFINE m == Len(lines)
  <2>2. m = Len(lines) => all = m
    <3> HIDE DEF m
    <3>1. m = Len(lines) => m \in Nat /\ m <= Len(lines) /\ \A j \in 1..m : Lines!Acceptable(lines[j])
      BY <1>5, <2>1
    <3> QED
      BY <2>1, <3>1, LeadingLines
  <2> QED
    BY <2>2
<1> HIDE DEF all, bad
<1> QED
  BY <1>1, <1>3, <1>4, <1>5, <1>6 DEF lines

\* A batch, in front of the bytes of the chunk that are beyond it.
LEMMA BatchAndRest ==
  ASSUME NEW chunk \in Seq(Lines!Bytes)
  PROVE  LET n == IF Len(chunk) > MaximumBatchBytes THEN MaximumBatchBytes ELSE Len(chunk)
             batch == SubSeq(chunk, 1, n)
         IN  /\ batch \in Seq(Lines!Bytes)
             /\ \E beyond \in Seq(Lines!Bytes) : batch \o beyond = chunk
             /\ ~(Len(chunk) > MaximumBatchBytes) => batch = chunk
<1> DEFINE n == IF Len(chunk) > MaximumBatchBytes THEN MaximumBatchBytes ELSE Len(chunk)
           batch == SubSeq(chunk, 1, n)
           beyond == SubSeq(chunk, n + 1, Len(chunk))
<1>0. Len(chunk) \in Nat /\ n \in 0..Len(chunk)
  BY LenProperties, LinesAssumption
<1>1. \A i \in 1..Len(chunk) : chunk[i] \in Lines!Bytes
  BY ElementOfSeq
<1>2. ~(Len(chunk) > MaximumBatchBytes) => batch = chunk
  BY SubSeqFull
<1> HIDE DEF n
<1>3. batch \in Seq(Lines!Bytes) /\ beyond \in Seq(Lines!Bytes)
  <2>1. \A i \in 1..n : chunk[i] \in Lines!Bytes
    BY <1>0, <1>1
  <2>2. \A i \in n + 1..Len(chunk) : chunk[i] \in Lines!Bytes
    BY <1>0, <1>1
  <2>3. 1 \in Int /\ n \in Int /\ n + 1 \in Int /\ Len(chunk) \in Int
    BY <1>0
  <2> QED
    BY <2>1, <2>2, <2>3, SubSeqProperties
<1>4. batch \o beyond = chunk
  <2>1. 1 \in 1..Len(chunk) + 1 /\ n \in 1 - 1..Len(chunk) /\ Len(chunk) \in n..Len(chunk)
    BY <1>0
  <2>2. batch \o beyond = SubSeq(chunk, 1, Len(chunk))
    BY <2>1, ConcatAdjacentSubSeq
  <2> QED
    BY <2>2, SubSeqFull
<1> QED
  BY <1>2, <1>3, <1>4 DEF n

\* Leading lines stay where they are when the stream goes on.
LEMMA LinesStay ==
  ASSUME NEW a \in Seq(Lines!Bytes), NEW b \in Seq(Lines!Bytes)
  PROVE  LET s == Lines!Split(a).segments
             u == Lines!Split(a \o b).segments
             c == Continued(Lines!Split(a).rest, Lines!Split(b).segments)
         IN  /\ s \in Seq(Seq(Lines!Bytes)) /\ u \in Seq(Seq(Lines!Bytes)) /\ c \in Seq(Seq(Lines!Bytes))
             /\ Len(c) = Len(Lines!Split(b).segments)
             /\ Len(u) = Len(s) + Len(c)
             /\ \A j \in 1..Len(s) : u[j] = s[j]
             /\ \A j \in 1..Len(c) : u[Len(s) + j] = c[j]
<1> DEFINE s == Lines!Split(a).segments
           r == Lines!Split(a).rest
           t == Lines!Split(b).segments
           u == Lines!Split(a \o b).segments
           c == Continued(r, t)
<1>1. s \in Seq(Seq(Lines!Bytes)) /\ r \in Seq(Lines!Bytes) /\ t \in Seq(Seq(Lines!Bytes))
  BY SplitTypes, PartsApart
<1>2. u = s \o c
  <2>1. Lines!Split(a \o b) = Joined(Lines!Split(a), Lines!Split(b))
    BY SplitConcat
  <2>2. Joined(Lines!Split(a), Lines!Split(b)).segments = s \o c
    BY DEF Joined
  <2> QED
    BY <2>1, <2>2
<1> HIDE DEF s, r, t, u
<1>3. c \in Seq(Seq(Lines!Bytes)) /\ Len(c) = Len(t)
  BY <1>1, ContinuedTypes
<1> HIDE DEF c
<1>4. /\ s \o c \in Seq(Seq(Lines!Bytes)) /\ Len(s \o c) = Len(s) + Len(c)
      /\ \A j \in 1..Len(s) + Len(c) : (s \o c)[j] = IF j <= Len(s) THEN s[j] ELSE c[j - Len(s)]
  BY <1>1, <1>3, ConcatProperties
<1>5. Len(s) \in Nat /\ Len(c) \in Nat
  BY <1>1, <1>3, LenProperties
<1>6. ASSUME NEW j \in 1..Len(s) PROVE u[j] = s[j]
  BY <1>2, <1>4, <1>5
<1>7. ASSUME NEW j \in 1..Len(c) PROVE u[Len(s) + j] = c[j]
  <2>1. Len(s) + j \in 1..Len(s) + Len(c) /\ ~(Len(s) + j <= Len(s)) /\ Len(s) + j - Len(s) = j
    BY <1>5
  <2> QED
    BY <1>2, <1>4, <2>1
<1> QED
  BY <1>1, <1>2, <1>3, <1>4, <1>6, <1>7 DEF s, r, t, u, c

\* What push returns, against the lines of its batch.
DecodedFrom(batch, beyond, d) ==
  LET t == Lines!Split(batch)
      lines == Continued(x3, t.segments)
      rest == IF t.segments = <<>> THEN x3 \o t.rest ELSE t.rest
  IN  /\ d.frames \in Seq(Nat) /\ d.buffer \in Seq(Lines!Bytes)
      /\ Len(d.buffer) <= MaximumFrameBytes
      /\ Len(d.frames) <= Len(t.segments)
      /\ \A j \in 1..Len(d.frames) :
           Lines!Acceptable(lines[j]) /\ d.frames[j] = Lines!Value(lines[j])
      /\ d.error # "none" => d.buffer = <<>>
      /\ \/ /\ d.error \in {"too_many_frames", "frame_too_large", "invalid_json"}
            /\ Len(d.frames) < Len(t.segments)
            /\ d.error # "too_many_frames" => ~Lines!Acceptable(lines[Len(d.frames) + 1])
         \/ d.error = "batch_too_large"
         \/ /\ beyond = <<>> /\ Len(d.frames) = Len(t.segments)
            /\ \/ d.error = "none" /\ d.buffer = rest
               \/ d.error = "frame_too_large" /\ Len(rest) > MaximumFrameBytes

\* push: the batch is looped over, and what is beyond it is an error.
LEMMA DecodedSound ==
  ASSUME x3 \in Seq(Lines!Bytes), NEW chunk \in Seq(Lines!Bytes)
  PROVE  \E batch \in Seq(Lines!Bytes), beyond \in Seq(Lines!Bytes) :
           batch \o beyond = chunk /\ DecodedFrom(batch, beyond, Lines!Decoded(chunk))
<1> DEFINE n == IF Len(chunk) > MaximumBatchBytes THEN MaximumBatchBytes ELSE Len(chunk)
           batch == SubSeq(chunk, 1, n)
           segs == Lines!Split(batch).segments
           last == Lines!Split(batch).rest
           looped == Lines!Looped(segs)
           D == Lines!Decoded(chunk)
           lines == Continued(x3, segs)
           fs == looped.frames
<1>1. /\ batch \in Seq(Lines!Bytes)
      /\ \E beyond \in Seq(Lines!Bytes) : batch \o beyond = chunk
      /\ ~(Len(chunk) > MaximumBatchBytes) => batch = chunk
  BY BatchAndRest
<1>2. segs \in Seq(Seq(Lines!Bytes)) /\ last \in Seq(Lines!Bytes)
  BY <1>1, SplitTypes, PartsApart
<1>3. D = IF looped.error # "none" THEN looped
          ELSE IF Len(chunk) > MaximumBatchBytes THEN Lines!Poison(looped, "batch_too_large")
          ELSE Lines!Extend(looped, last)
  BY DEF Lines!Decoded, Lines!Segments, Lines!Rest
<1>4. PICK beyond \in Seq(Lines!Bytes) : batch \o beyond = chunk
  BY <1>1
<1> HIDE DEF n, batch, segs, last, D
<1>5. /\ looped \in Decoders
      /\ \/ /\ TakenAll(looped, lines, Len(segs))
            /\ looped.buffer = IF segs = <<>> THEN x3 ELSE <<>>
         \/ StoppedBefore(looped, lines, Len(segs))
  BY <1>2, LoopedSound
<1>6. fs \in Seq(Nat) /\ Len(fs) \in Nat
  BY <1>5, DecoderApart, LenProperties
<1>7. Len(<<>>) <= MaximumFrameBytes /\ <<>> \in Seq(Lines!Bytes)
  BY LinesAssumption
<1>8. Len(segs) \in Nat
  BY <1>2, LenProperties
<1> HIDE DEF looped, lines
<1>9. CASE StoppedBefore(looped, lines, Len(segs))
  <2>1. D = looped
    BY <1>3, <1>9 DEF StoppedBefore
  <2>2. looped.error \in {"too_many_frames", "frame_too_large", "invalid_json"}
    BY <1>5, <1>9, DecoderApart DEF StoppedBefore
  <2>3. /\ D.frames = fs /\ D.buffer = <<>> /\ D.error = looped.error
        /\ Len(fs) < Len(segs) /\ Len(fs) <= Len(segs)
        /\ \A j \in 1..Len(fs) : Lines!Acceptable(lines[j]) /\ fs[j] = Lines!Value(lines[j])
        /\ looped.error # "too_many_frames" => ~Lines!Acceptable(lines[Len(fs) + 1])
    <3>1. D.frames = fs /\ D.buffer = looped.buffer /\ D.error = looped.error
      BY <2>1
    <3>2. /\ looped.buffer = <<>> /\ Len(fs) < Len(segs)
          /\ \A j \in 1..Len(fs) : Lines!Acceptable(lines[j]) /\ fs[j] = Lines!Value(lines[j])
          /\ looped.error # "too_many_frames" => ~Lines!Acceptable(lines[Len(fs) + 1])
      BY <1>9 DEF StoppedBefore
    <3>3. Len(fs) <= Len(segs)
      <4> HIDE DEF fs
      <4> QED
        BY <1>6, <1>8, <3>2
    <3> QED
      BY <3>1, <3>2, <3>3
  <2>4. DecodedFrom(batch, beyond, D)
    <3> HIDE DEF fs
    <3> QED
      BY <1>6, <1>7, <2>2, <2>3 DEF DecodedFrom, lines, segs
  <2> QED
    BY <1>1, <1>4, <2>4 DEF D
<1>10. CASE TakenAll(looped, lines, Len(segs)) /\ Len(chunk) > MaximumBatchBytes
  <2>1. D = [frames |-> fs, buffer |-> <<>>, error |-> "batch_too_large"]
    BY <1>3, <1>5, <1>10, PoisonIs DEF TakenAll
  <2>2. D.frames = fs /\ D.buffer = <<>> /\ D.error = "batch_too_large"
    BY <2>1
  <2>3. DecodedFrom(batch, beyond, D)
    BY <1>6, <1>7, <1>8, <1>10, <2>2 DEF TakenAll, DecodedFrom, lines, segs
  <2> QED
    BY <1>1, <1>4, <2>3 DEF D
<1>11. CASE /\ TakenAll(looped, lines, Len(segs)) /\ ~(Len(chunk) > MaximumBatchBytes)
            /\ looped.buffer = IF segs = <<>> THEN x3 ELSE <<>>
  <2>1. beyond = <<>>
    <3>1. batch = chunk
      BY <1>1, <1>11
    <3> QED
      BY <1>1, <1>4, <3>1, ConcatEqualIffEmpty
  <2> DEFINE rest == IF segs = <<>> THEN x3 \o last ELSE last
             held == looped.buffer
  <2>2. held \o last = rest
    <3>1. <<>> \o last = last
      BY <1>2, ConcatEmptySeq
    <3> QED
      BY <1>11, <3>1
  <2>3. /\ rest \in Seq(Lines!Bytes)
        /\ D = IF Len(rest) > MaximumFrameBytes
               THEN [frames |-> fs, buffer |-> <<>>, error |-> "frame_too_large"]
               ELSE [frames |-> fs, buffer |-> rest, error |-> "none"]
    <3>1. D = Lines!Extend(looped, last)
      BY <1>3, <1>11 DEF TakenAll
    <3>2. /\ held \o last \in Seq(Lines!Bytes)
          /\ Lines!Extend(looped, last) =
               IF Len(held \o last) > MaximumFrameBytes
               THEN [frames |-> fs, buffer |-> <<>>, error |-> "frame_too_large"]
               ELSE [frames |-> fs, buffer |-> held \o last, error |-> looped.error]
      BY <1>2, <1>5, ExtendIs
    <3>3. looped.error = "none"
      BY <1>11 DEF TakenAll
    <3> HIDE DEF rest, held
    <3> QED
      BY <2>2, <3>1, <3>2, <3>3
  <2>4. /\ Len(fs) = Len(segs)
        /\ \A j \in 1..Len(fs) : Lines!Acceptable(lines[j]) /\ fs[j] = Lines!Value(lines[j])
    BY <1>11 DEF TakenAll
  <2>5. rest = IF Lines!Split(batch).segments = <<>> THEN x3 \o Lines!Split(batch).rest
               ELSE Lines!Split(batch).rest
    BY DEF segs, last
  <2> HIDE DEF rest, fs
  <2>6. Len(rest) \in Nat
    BY <2>3, LenProperties
  <2>7. CASE Len(rest) > MaximumFrameBytes
    <3>1. D.frames = fs /\ D.buffer = <<>> /\ D.error = "frame_too_large"
      BY <2>3, <2>7
    <3>2. DecodedFrom(batch, beyond, D)
      BY <1>6, <1>7, <1>8, <2>1, <2>4, <2>5, <2>7, <3>1 DEF DecodedFrom, lines, segs
    <3> QED
      BY <1>1, <1>4, <3>2 DEF D
  <2>8. CASE ~(Len(rest) > MaximumFrameBytes)
    <3>1. D.frames = fs /\ D.buffer = rest /\ D.error = "none"
      BY <2>3, <2>8
    <3>2. Len(rest) <= MaximumFrameBytes
      BY <2>6, <2>8, LinesAssumption
    <3>3. DecodedFrom(batch, beyond, D)
      BY <1>6, <1>8, <2>1, <2>3, <2>4, <2>5, <3>1, <3>2 DEF DecodedFrom, lines, segs
    <3> QED
      BY <1>1, <1>4, <3>3 DEF D
  <2> QED
    BY <2>7, <2>8
<1> QED
  BY <1>5, <1>9, <1>10, <1>11

\* A push keeps the promise about the whole stream.
LEMMA PushSound ==
  ASSUME Lines!IInv, Lines!Push
  PROVE  Lines!IInv'
<1>1. PICK chunk \in Lines!Chunks :
        /\ x4 = "none" /\ x1' = x1 \o chunk
        /\ x2' = x2 \o Lines!Decoded(chunk).frames
        /\ x3' = Lines!Decoded(chunk).buffer /\ x4' = Lines!Decoded(chunk).error
  BY DEF Lines!Push
<1>2. chunk \in Seq(Lines!Bytes)
  <2>1. PICK n \in 1..MaxChunk : chunk \in [1..n -> Lines!Bytes]
    BY DEF Lines!Chunks
  <2>2. n \in Nat
    BY LinesAssumption
  <2> QED
    BY <2>1, <2>2
<1>3. /\ x1 \in Seq(Lines!Bytes) /\ x2 \in Seq(Nat) /\ x3 \in Seq(Lines!Bytes)
      /\ x3 = Lines!Split(x1).rest /\ Len(x2) = Len(Lines!Split(x1).segments)
      /\ \A j \in 1..Len(x2) : /\ Lines!Acceptable(Lines!Split(x1).segments[j])
                               /\ x2[j] = Lines!Value(Lines!Split(x1).segments[j])
  BY <1>1, StreamSoFar
<1> DEFINE d == Lines!Decoded(chunk)
<1>4. PICK batch \in Seq(Lines!Bytes), beyond \in Seq(Lines!Bytes) :
        batch \o beyond = chunk /\ DecodedFrom(batch, beyond, d)
  BY <1>2, <1>3, DecodedSound
<1> DEFINE early == x1 \o batch
           s == Lines!Split(x1).segments
           t == Lines!Split(batch).segments
           last == Lines!Split(batch).rest
           u == Lines!Split(early).segments
           v == Lines!Split(x1').segments
           rest == Lines!Split(x1').rest
           lines == Continued(x3, t)
           fs == d.frames
<1>5. early \in Seq(Lines!Bytes) /\ early \o beyond = x1' /\ x1' \in Seq(Lines!Bytes)
  <2>1. early \in Seq(Lines!Bytes) /\ x1 \o chunk \in Seq(Lines!Bytes)
    BY <1>2, <1>3, <1>4, ConcatProperties
  <2>2. early \o beyond = x1 \o (batch \o beyond)
    <3>1. x1 \in Seq(Lines!Bytes)
      BY <1>3
    <3> QED
      BY <3>1, ConcatAssociative
  <2> QED
    BY <1>1, <1>4, <2>1, <2>2
<1>6. /\ s \in Seq(Seq(Lines!Bytes)) /\ u \in Seq(Seq(Lines!Bytes)) /\ Len(lines) = Len(t)
      /\ lines \in Seq(Seq(Lines!Bytes))
      /\ Len(u) = Len(s) + Len(lines)
      /\ \A j \in 1..Len(s) : u[j] = s[j]
      /\ \A j \in 1..Len(lines) : u[Len(s) + j] = lines[j]
  BY <1>3, <1>4, LinesStay
<1>7. /\ v \in Seq(Seq(Lines!Bytes)) /\ Len(u) <= Len(v) /\ \A j \in 1..Len(u) : v[j] = u[j]
  <2> DEFINE c == Continued(Lines!Split(early).rest, Lines!Split(beyond).segments)
  <2>1. /\ v \in Seq(Seq(Lines!Bytes)) /\ c \in Seq(Seq(Lines!Bytes))
        /\ Len(v) = Len(u) + Len(c) /\ \A j \in 1..Len(u) : v[j] = u[j]
    <3> HIDE DEF early
    <3> QED
      BY <1>4, <1>5, LinesStay
  <2> HIDE DEF c, v, u
  <2>2. Len(c) \in Nat /\ Len(u) \in Nat
    BY <1>6, <2>1, LenProperties
  <2> QED
    BY <2>1, <2>2
<1>8. /\ fs \in Seq(Nat) /\ d.buffer \in Seq(Lines!Bytes) /\ Len(d.buffer) <= MaximumFrameBytes
      /\ Len(fs) <= Len(t)
      /\ \A j \in 1..Len(fs) : Lines!Acceptable(lines[j]) /\ fs[j] = Lines!Value(lines[j])
      /\ d.error # "none" => d.buffer = <<>>
      /\ \/ /\ d.error \in {"too_many_frames", "frame_too_large", "invalid_json"} /\ Len(fs) < Len(t)
            /\ d.error # "too_many_frames" => ~Lines!Acceptable(lines[Len(fs) + 1])
         \/ d.error = "batch_too_large"
         \/ /\ beyond = <<>> /\ Len(fs) = Len(t)
            /\ \/ d.error = "none" /\ d.buffer = IF t = <<>> THEN x3 \o last ELSE last
               \/ d.error = "frame_too_large" /\ Len(IF t = <<>> THEN x3 \o last ELSE last) > MaximumFrameBytes
  BY <1>4 DEF DecodedFrom
<1>9. ASSUME beyond = <<>>
      PROVE  v = u /\ rest = IF t = <<>> THEN x3 \o last ELSE last
  <2>1. x1' = early
    BY <1>5, <1>9, ConcatEmptySeq
  <2>2. Lines!Split(early) = Joined(Lines!Split(x1), Lines!Split(batch))
    BY <1>3, <1>4, SplitConcat
  <2>3. Joined(Lines!Split(x1), Lines!Split(batch)).rest = IF t = <<>> THEN x3 \o last ELSE last
    BY <1>3 DEF Joined
  <2> QED
    BY <2>1, <2>2, <2>3
<1>10. x2' = x2 \o fs /\ x3' = d.buffer /\ x4' = d.error
  BY <1>1
<1>11. v = Lines!Segments(x1') /\ rest = Lines!Rest(x1')
  BY DEF Lines!Segments, Lines!Rest
<1>12. Len(x2) = Len(s) /\ \A j \in 1..Len(x2) : Lines!Acceptable(s[j]) /\ x2[j] = Lines!Value(s[j])
  BY <1>3
<1> HIDE DEF d, early, s, t, last, u, v, rest, lines, fs
<1>13. /\ x2 \o fs \in Seq(Nat) /\ Len(x2 \o fs) = Len(s) + Len(fs)
       /\ \A j \in 1..Len(x2) + Len(fs) : (x2 \o fs)[j] = IF j <= Len(x2) THEN x2[j] ELSE fs[j - Len(x2)]
  <2>1. x2 \in Seq(Nat) /\ fs \in Seq(Nat) /\ Len(x2) = Len(s)
    BY <1>3, <1>8, <1>12
  <2>2. Len(x2 \o fs) = Len(x2) + Len(fs)
    BY <2>1, ConcatProperties
  <2> QED
    BY <2>1, <2>2, ConcatProperties
<1>14. Len(s) \in Nat /\ Len(fs) \in Nat /\ Len(lines) \in Nat /\ Len(v) \in Nat /\ Len(u) \in Nat
  BY <1>6, <1>7, <1>8, LenProperties
<1>15. ASSUME NEW j \in 1..Len(s) + Len(fs)
       PROVE  Lines!Acceptable(v[j]) /\ (x2 \o fs)[j] = Lines!Value(v[j])
  <2>1. CASE j <= Len(s)
    <3>1. j \in 1..Len(s) /\ j \in 1..Len(u)
      BY <1>6, <1>14, <2>1
    <3> QED
      BY <1>6, <1>7, <1>12, <1>13, <2>1, <3>1
  <2>2. CASE ~(j <= Len(s))
    <3> DEFINE k == j - Len(s)
    <3>1. k \in 1..Len(fs) /\ k \in 1..Len(lines) /\ Len(s) + k = j /\ j \in 1..Len(u)
      <4>1. Len(fs) <= Len(lines) /\ Len(u) = Len(s) + Len(lines)
        BY <1>6, <1>8
      <4>2. k \in 1..Len(fs) /\ Len(s) + k = j
        BY <1>14, <2>2
      <4> HIDE DEF k
      <4> QED
        BY <1>14, <4>1, <4>2
    <3>2. (x2 \o fs)[j] = fs[k]
      BY <1>12, <1>13, <2>2
    <3> HIDE DEF k
    <3>3. v[j] = lines[k]
      BY <1>6, <1>7, <3>1
    <3> QED
      BY <1>8, <3>1, <3>2, <3>3
  <2> QED
    BY <2>1, <2>2
<1>16. ASSUME Len(fs) < Len(t)
       PROVE  Len(s) + Len(fs) < Len(v) /\ v[Len(s) + Len(fs) + 1] = lines[Len(fs) + 1]
  <2> DEFINE k == Len(fs) + 1
  <2>1. k \in 1..Len(lines) /\ Len(s) + k \in 1..Len(u) /\ Len(s) + Len(fs) + 1 = Len(s) + k
    BY <1>6, <1>14, <1>16
  <2>2. Len(s) + Len(fs) < Len(v)
    BY <1>6, <1>7, <1>14, <1>16
  <2> HIDE DEF k
  <2>3. v[Len(s) + k] = lines[k]
    BY <1>6, <1>7, <2>1
  <2> QED
    BY <2>1, <2>2, <2>3 DEF k
<1>17. Len(s) + Len(fs) <= Len(v)
  BY <1>6, <1>7, <1>8, <1>14
<1>18. ASSUME beyond = <<>>, Len(fs) = Len(t) PROVE Len(s) + Len(fs) = Len(v)
  BY <1>6, <1>9, <1>18
<1>19. Lines!FramesOfStream'
  <2>1. x2' \in Seq(Nat) /\ Len(x2') = Len(s) + Len(fs)
    BY <1>10, <1>13
  <2>2. \A j \in 1..Len(x2') : Lines!Acceptable(v[j]) /\ x2'[j] = Lines!Value(v[j])
    BY <1>10, <1>15, <2>1
  <2>3. x4' = "none" => Len(x2') = Len(v) /\ x3' = rest
    BY <1>8, <1>9, <1>10, <1>18, <2>1
  <2>4. x4' = "invalid_json" => Len(x2') < Len(v) /\ ~Lines!Acceptable(v[Len(x2') + 1])
    BY <1>8, <1>10, <1>16, <2>1
  <2>5. x4' = "frame_too_large" =>
          \/ Len(x2') < Len(v) /\ ~Lines!Acceptable(v[Len(x2') + 1])
          \/ Len(x2') = Len(v) /\ Len(rest) > MaximumFrameBytes
    BY <1>8, <1>9, <1>10, <1>16, <1>18, <2>1
  <2>6. /\ x4' # "none" => x3' = <<>>
        /\ Len(x3') <= MaximumFrameBytes
    BY <1>8, <1>10
  <2>7. Len(x2') <= Len(v)
    BY <1>17, <2>1
  <2> QED
    BY <1>7, <1>11, <2>1, <2>2, <2>3, <2>4, <2>5, <2>6, <2>7, StreamHolds
<1> QED
  BY <1>5, <1>8, <1>10, <1>13, <1>19 DEF Lines!IInv

\* Nothing has been fed, and each step after it.
LEMMA LinesInductive ==
  /\ Lines!Init => Lines!IInv
  /\ Lines!IInv /\ [Lines!Next]_(Lines!vars) => Lines!IInv'
<1>1. ASSUME Lines!Init PROVE Lines!IInv
  <2>0. x1 = <<>> /\ x2 = <<>> /\ x3 = <<>> /\ x4 = "none"
    BY <1>1 DEF Lines!Init
  <2>1. Lines!Segments(x1) = <<>> /\ Lines!Rest(x1) = <<>>
    BY <2>0, SplitUnfolds DEF Lines!Segments, Lines!Rest
  <2> DEFINE lines == Lines!Segments(x1)
             bad == {k \in DOMAIN lines : ~Lines!Acceptable(lines[k])}
             good == {k \in DOMAIN lines : \A j \in bad : k < j}
  <2>2. DOMAIN lines = {} /\ DOMAIN x2 = {} /\ Len(x2) = 0 /\ Len(x3) = 0
    BY <2>0, <2>1
  <2> HIDE DEF lines
  <2>3. bad = {} /\ good = {}
    BY <2>2
  <2>4. Lines!Cardinality({}) = 0
    <3>1. Lines!Cardinality({}) = Cardinality({})
      BY DEF Lines!Cardinality, Cardinality
    <3> QED
      BY <3>1, FS_EmptySet
  <2> DEFINE all == Lines!Cardinality(good)
  <2>5. Lines!FramesOfStream <=>
          /\ Len(x2) <= all
          /\ \A k \in DOMAIN x2 : x2[k] = Lines!Value(lines[k])
          /\ x4 = "none" => bad = {} /\ Len(x2) = all /\ x3 = Lines!Rest(x1)
          /\ x4 = "invalid_json" => bad # {} /\ Len(x2) = all
          /\ x4 = "frame_too_large" =>
               Len(x2) = all /\ (bad # {} \/ Len(Lines!Rest(x1)) > MaximumFrameBytes)
          /\ x4 # "none" => x3 = <<>>
          /\ Len(x3) <= MaximumFrameBytes
    BY DEF Lines!FramesOfStream, lines
  <2>6. all = 0
    BY <2>3, <2>4
  <2> HIDE DEF bad, all
  <2>7. Lines!FramesOfStream
    BY <2>0, <2>1, <2>2, <2>3, <2>5, <2>6, LinesAssumption
  <2> QED
    BY <2>0, <2>7 DEF Lines!IInv
<1>2. ASSUME Lines!IInv, Lines!Finish PROVE Lines!IInv'
  <2>1. /\ x1' = x1 /\ x2' = x2 /\ x3' = <<>> /\ x4' = "incomplete_frame"
    BY <1>2 DEF Lines!Finish
  <2>2. x1 \in Seq(Lines!Bytes) /\ x2 \in Seq(Nat) /\ Lines!FramesOfStream
    BY <1>2 DEF Lines!IInv
  <2>3. Lines!FramesOfStream'
    BY <2>1, <2>2, LinesAssumption DEF Lines!FramesOfStream
  <2> QED
    BY <2>1, <2>2, <2>3 DEF Lines!IInv
<1>3. ASSUME Lines!IInv, UNCHANGED Lines!vars PROVE Lines!IInv'
  BY <1>3 DEF Lines!IInv, Lines!FramesOfStream, Lines!vars
<1> QED
  BY <1>1, <1>2, <1>3, PushSound DEF Lines!Next

-----------------------------------------------------------------------------
(* The components side by side.                                            *)

\* The part that moves keeps the invariant of its module.
PartInv ==
  /\ part = "startup" => Startup!IInv
  /\ part = "storage" => Storage!IInv
  /\ part = "frames" => Frames!IInv
  /\ part = "file" => Files!IInv
  /\ part = "tree" => Tree!IInv
  /\ part = "adapter" => Adapter!IInv
  /\ part = "roots" => Roots!IInv
  /\ part = "lines" => Lines!IInv

\* A behaviour moves one part from its initial states.
LEMMA PartsInductive ==
  /\ PartInit => PartInv
  /\ PartInv /\ [PartNext]_<<part, slots, vars>> => PartInv'
<1>1. ASSUME PartInit PROVE PartInv
  BY <1>1, StartupInductive, StorageInductive, FramesInductive, FilesInductive, TreeInductive,
     AdapterInductive, RootsInductive, LinesInductive
     DEF PartInit, PartInv
<1>2. ASSUME PartInv, [PartNext]_<<part, slots, vars>> PROVE PartInv'
  <2>0. part' = part
    BY <1>2 DEF PartNext
  <2>1. CASE part = "startup"
    <3>1. [Startup!Next]_(Startup!vars)
      BY <1>2, <2>1 DEF PartNext, slots, Startup!vars, Startup!disk
    <3> QED
      BY <1>2, <2>0, <2>1, <3>1, StartupInductive DEF PartInv
  <2>2. CASE part = "storage"
    <3>1. [Storage!Next]_(Storage!vars)
      BY <1>2, <2>2 DEF PartNext, slots, Storage!vars, Storage!storeVars
    <3> QED
      BY <1>2, <2>0, <2>2, <3>1, StorageInductive DEF PartInv
  <2>3. CASE part = "frames"
    <3>1. [Frames!Next]_(Frames!vars)
      BY <1>2, <2>3 DEF PartNext, slots, Frames!vars
    <3> QED
      BY <1>2, <2>0, <2>3, <3>1, FramesInductive DEF PartInv
  <2>4. CASE part = "file"
    <3>1. [Files!Next]_(Files!vars)
      BY <1>2, <2>4 DEF PartNext, slots, Files!vars
    <3> QED
      BY <1>2, <2>0, <2>4, <3>1, FilesInductive DEF PartInv
  <2>5. CASE part = "tree"
    <3>1. [Tree!Next]_(Tree!vars)
      BY <1>2, <2>5 DEF PartNext, slots, Tree!vars
    <3> QED
      BY <1>2, <2>0, <2>5, <3>1, TreeInductive DEF PartInv
  <2>6. CASE part = "adapter"
    <3>1. [Adapter!Next]_(Adapter!vars)
      BY <1>2, <2>6 DEF PartNext, slots, Adapter!vars
    <3> QED
      BY <1>2, <2>0, <2>6, <3>1, AdapterInductive DEF PartInv
  <2>7. CASE part = "roots"
    <3>1. [Roots!Next]_(Roots!vars)
      BY <1>2, <2>7 DEF PartNext, slots, Roots!vars
    <3> QED
      BY <1>2, <2>0, <2>7, <3>1, RootsInductive DEF PartInv
  <2>8. CASE part = "lines"
    <3>1. [Lines!Next]_(Lines!vars)
      BY <1>2, <2>8 DEF PartNext, slots, Lines!vars
    <3> QED
      BY <1>2, <2>0, <2>8, <3>1, LinesInductive DEF PartInv
  <2> QED
    BY <2>0, <2>1, <2>2, <2>3, <2>4, <2>5, <2>6, <2>7, <2>8 DEF PartInv
<1> QED
  BY <1>1, <1>2

\* No part's step is beyond what its module allows, whatever is beside it.
THEOREM PartInvariance == PartSpec => []PartInv
BY PartsInductive, PTL DEF PartSpec

\* The record of a session is that of SessionPersistence: what is proved of
\* its specification holds of the composition.
THEOREM RecordsImplemented == PartSpec => Spec
<1>1. PartInit => Init
  BY DEF PartInit
<1>2. [PartNext]_<<part, slots, vars>> => [Next]_vars
  BY DEF PartNext
<1> QED
  BY <1>1, <1>2, PTL DEF PartSpec, Spec

\* Daemons that race for the key and the envelope, through crashes: the key in
\* the envelope opens the database, and no window is turned away.
THEOREM StartupIsSafe == PartSpec => []StartupSafe
<1>1. PartInv => StartupSafe
  BY DEF PartInv, StartupSafe, Startup!IInv
<1> QED
  BY <1>1, PartInvariance, PTL

\* Segments are written before their row and removed after it.
THEOREM RowsKeepFiles == PartSpec => []RowsHaveFiles
<1>1. PartInv => RowsHaveFiles
  BY DEF PartInv, RowsHaveFiles, Storage!IInv, Storage!FilesSound
<1> QED
  BY <1>1, PartInvariance, PTL

\* A database keeps its key and never goes back to an older schema; rotation
\* takes no snapshot that is needed.
THEOREM StoredDataKept == PartSpec => StorageKept
<1>1. ASSUME PartInv, [PartNext]_<<part, slots, vars>>
      PROVE  [/\ part = "startup" => Startup!DatabaseStep
              /\ part = "storage" => Storage!SnapshotStep]_<<part, slots, vars>>
  <2>1. CASE UNCHANGED <<part, slots, vars>>
    BY <2>1
  <2>2. CASE PartNext /\ part = "startup"
    BY <1>1, <2>2, DatabaseKept DEF PartNext, PartInv
  <2>3. CASE PartNext /\ part = "storage"
    BY <1>1, <2>3, SnapshotsKept DEF PartNext, PartInv, Storage!IInv
  <2> QED
    BY <1>1, <2>1, <2>2, <2>3
<1> QED
  BY <1>1, PartInvariance, PTL DEF PartSpec, StorageKept

\* RetentionPlanner and the pruning of captured segments: a maintenance or a
\* pruning that ends without a failure leaves every terminal within MaxBytes
\* and no row beyond MaxAge.
THEOREM RetentionIsHeld == PartSpec => RetentionKept
<1>1. ASSUME PartInv, [PartNext]_<<part, slots, vars>>
      PROVE  [part = "storage" => Storage!RetentionStep]_<<part, slots, vars>>
  <2>1. CASE UNCHANGED <<part, slots, vars>>
    BY <2>1
  <2>2. CASE PartNext /\ part = "storage"
    BY <1>1, <2>2, RetentionHolds DEF PartNext, PartInv
  <2> QED
    BY <1>1, <2>1, <2>2
<1> QED
  BY <1>1, PartInvariance, PTL DEF PartSpec, RetentionKept

\* A response settles the request it answers.
THEOREM ResponsesMatch == PartSpec => []AnswersMatch
<1>1. PartInv => AnswersMatch
  BY DEF PartInv, AnswersMatch, Frames!IInv
<1> QED
  BY <1>1, PartInvariance, PTL

\* The compare-and-save of a file.
THEOREM SavesKeepFile == PartSpec => []FileKept
<1>1. PartInv => FileKept
  BY DEF PartInv, FileKept, Files!IInv
<1> QED
  BY <1>1, PartInvariance, PTL

\* Pages and searches say what they leave out, and what a path opens lies in
\* exactly one root.
THEOREM TreeIsReported == PartSpec => []TreeReported
<1>1. PartInv => TreeReported
  BY PlaceInOneRoot DEF PartInv, TreeReported, Tree!IInv
<1> QED
  BY <1>1, PartInvariance, PTL

\* One writer per binding, and streams that end with their stop.
THEOREM AdapterIsSound == PartSpec => []AdapterSound
<1>1. PartInv => AdapterSound
  BY DEF PartInv, AdapterSound, Adapter!IInv
<1> QED
  BY <1>1, PartInvariance, PTL

\* BoundedJsonLineDecoder: however a stream is cut into chunks, the values are
\* those of its leading acceptable lines, and a decoder without an error holds
\* exactly the unfinished line.
THEOREM LinesAreDecoded == PartSpec => []FramesOfStream
<1>1. PartInv => FramesOfStream
  BY DEF PartInv, FramesOfStream, Lines!IInv
<1> QED
  BY <1>1, PartInvariance, PTL
=============================================================================
