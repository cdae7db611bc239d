------------------------- MODULE SessionPersistence -------------------------
(***************************************************************************)
(* How one structured session reaches the database.  Each run (a start or  *)
(* a resume) is recorded by its request task (persist_started_session) and *)
(* then followed by a monitor (persist_session_events), which stores every *)
(* event it receives, copies the session's state while the run is active   *)
(* and finishes the run's row when it finds that the run is over.  The     *)
(* monitor of an old run may still be at work when the session is resumed. *)
(* The daemon may crash between any two statements; the next one marks     *)
(* what was under way as interrupted.                                      *)
(* An event is its sequence number; stream[n] is the run it names, if any. *)
(* Which launches may overlap is SessionSupervisor's subject: here a launch *)
(* finds the session free and only the run it starts can go wrong.         *)
(***************************************************************************)
EXTENDS Integers, Sequences, SessionStates

CONSTANTS Runs, NoRun,
          ReplayEvents, BroadcastEvents,  \* the limits of the event log
          Moves,                          \* the states frames and answers lead to
          Outcomes, Failures,             \* the ends of a run without, with a protocol failure
          MaxSequence,                    \* bound: events a run may add to
          MaxFaults                       \* bound: statements that fail

ASSUME PersistenceAssumption ==
  /\ NoRun \notin Runs
  /\ ReplayEvents \in Nat \ {0} /\ BroadcastEvents \in Nat \ {0}
  /\ Moves \subseteq {"ready", "running", "awaiting_permission", "awaiting_user_input",
                      "interrupting"}
  /\ Outcomes \subseteq {"completed", "failed", "stopped"}
  /\ Failures \subseteq {"failed", "incompatible"}
  /\ MaxSequence \in Nat /\ MaxFaults \in Nat

VARIABLES daemon,               \* "up", "crashed", "recovered"
          stream,               \* the session's events
          active, state, exit,  \* active_run, state, whose last_exit
          run, fate,            \* per run: its life, the state it ended in
          request,              \* per run: its request
          monitor,              \* per run: the persistence task
          dbState,              \* sessions.state
          dbRun, dbExit,        \* process_runs.state, whose exit it has
          dbEvents,             \* events
          faults

session == <<stream, active, state, exit>>
life == <<run, fate>>
rows == <<dbState, dbRun, dbExit, dbEvents>>
vars == <<daemon, session, life, request, monitor, rows, faults>>

\* A task's locals are dropped where it no longer needs them.
Off == [pc |-> "off", next |-> 0, replay |-> 0, cut |-> 0, last |-> "none",
        seen |-> "none", exit |-> NoRun]

Init ==
  /\ daemon = "up"
  /\ stream = <<>> /\ active = NoRun /\ state = "created" /\ exit = NoRun
  /\ run = [r \in Runs |-> "new"]
  /\ fate = [r \in Runs |-> "none"]
  /\ request = [r \in Runs |-> "new"]
  /\ monitor = [r \in Runs |-> Off]
  /\ dbState = "none"
  /\ dbRun = [r \in Runs |-> "none"]
  /\ dbExit = [r \in Runs |-> NoRun]
  /\ dbEvents = {}
  /\ faults = 0

Latest == Len(stream)
Dropped == IF Latest > ReplayEvents THEN Latest - ReplayEvents ELSE 0
Publish(r) == stream' = Append(stream, r)
Ended(r) == fate[r] # "none"
Lives(r, p) == run' = [run EXCEPT ![r] = p]
Asks(r, p) == request' = [request EXCEPT ![r] = p]

\* The storage mutex is held over both statements of a two-statement write.
StorageFree ==
  \A r \in Runs : request[r] # "halfway" /\ monitor[r].pc # "halfway"

Fault == faults < MaxFaults /\ faults' = faults + 1

-----------------------------------------------------------------------------
(* The request: start or resume, then persist_started_session *)

\* A start begins at 0; a resume, of a session that session.list can show,
\* reads latest_sequence (after_sequence, kept in next until the monitor
\* subscribes) first, whether or not a run is still active.
Ask(r) ==
  /\ request[r] = "new"
  /\ dbState # "none" \/ \A q \in Runs : request[q] = "new"
  /\ monitor' = [monitor EXCEPT ![r].next = Latest]
  /\ Asks(r, "asked")
  /\ UNCHANGED <<daemon, session, life, rows, faults>>

\* launch stores Starting ...
Begin(r) ==
  /\ request[r] = "asked" /\ run[r] = "new"
  /\ active = NoRun /\ \A q \in Runs : run[q] \notin {"begun", "spawning", "unlaunched"}
  /\ state' = SetState(state, "starting")
  /\ Lives(r, "begun")
  /\ UNCHANGED <<daemon, stream, active, exit, fate, request, monitor, rows,
                 faults>>

\* ... forgets the last exit under another lock ...
Reset(r) ==
  /\ run[r] = "begun"
  /\ exit' = NoRun
  /\ Lives(r, "spawning")
  /\ UNCHANGED <<daemon, stream, active, state, fate, request, monitor, rows,
                 faults>>

\* ... and installs the run, which publishes run_started, ...
Install(r) ==
  /\ run[r] = "spawning"
  /\ active' = r
  /\ Publish(r)
  /\ Lives(r, "running")
  /\ Asks(r, "launched")
  /\ UNCHANGED <<daemon, state, exit, fate, monitor, rows, faults>>

\* ... or records that the process did not start.
LaunchFails(r) ==
  /\ run[r] = "spawning"
  /\ state' = "failed"
  /\ Lives(r, "unlaunched")
  /\ UNCHANGED <<daemon, stream, active, exit, fate, request, monitor, rows, faults>>

\* run_launch_failed names no run.
ReportLaunch(r) ==
  /\ run[r] = "unlaunched"
  /\ Publish(NoRun)
  /\ Lives(r, "over")
  /\ Asks(r, "over")
  /\ UNCHANGED <<daemon, active, state, exit, fate, monitor, rows, faults>>

\* start_session_run: the session's row, then the run's, each on its own.
RecordSession(r) ==
  /\ request[r] = "launched" /\ StorageFree
  /\ dbState' = "starting"
  /\ Asks(r, "halfway")
  /\ UNCHANGED <<daemon, session, life, monitor, dbRun, dbExit, dbEvents, faults>>

\* Mutant of RecordRun: the literal is no session state's name.
RecordMisnamed(r) ==
  /\ request[r] = "halfway"
  /\ dbRun' = [dbRun EXCEPT ![r] = "active"]
  /\ Asks(r, "recorded")
  /\ UNCHANGED <<daemon, session, life, monitor, dbState, dbExit, dbEvents, faults>>

RecordRun(r) ==
  /\ request[r] = "halfway"
  /\ dbRun' = [dbRun EXCEPT ![r] = "running"]
  /\ Asks(r, "recorded")
  /\ UNCHANGED <<daemon, session, life, monitor, dbState, dbExit, dbEvents, faults>>

\* A run that cannot be recorded is stopped (Conclude) and gets no monitor.
RecordFails(r) ==
  /\ request[r] = "halfway" \/ (request[r] = "launched" /\ StorageFree)
  /\ Fault
  /\ Asks(r, "over")
  /\ UNCHANGED <<daemon, session, life, monitor, rows>>

StartMonitor(r) ==
  /\ request[r] = "recorded"
  /\ monitor' = [monitor EXCEPT ![r].pc = "started"]
  /\ Asks(r, "over")
  /\ UNCHANGED <<daemon, session, life, rows, faults>>

\* The request's task is aborted: before the launch nothing has happened yet,
\* and what it gave to the blocking pool still happens, but then nobody
\* starts the monitor.
AbortRequest(r) ==
  /\ request[r] \in {"asked", "recorded"}
  /\ Asks(r, "over")
  /\ Lives(r, IF request[r] = "asked" THEN "over" ELSE run[r])
  /\ UNCHANGED <<daemon, session, fate, monitor, rows, faults>>

RequestStep(r) ==
  Begin(r) \/ Reset(r) \/ Install(r) \/ RecordSession(r) \/ RecordRun(r) \/ StartMonitor(r)

-----------------------------------------------------------------------------
(* The run, as SessionSupervisor and PendingRequests have it in detail *)

\* A frame of the child, or an audited action of a window, is published.
Emit(r) ==
  /\ run[r] = "running" /\ Latest < MaxSequence
  /\ Publish(r)
  /\ UNCHANGED <<daemon, active, state, exit, life, request, monitor, rows, faults>>

\* Frames and answers move the session's state, before or after their event.
Move(r, to) ==
  /\ run[r] = "running" /\ state # to
  /\ state' = SetState(state, to)
  /\ UNCHANGED <<daemon, stream, active, exit, life, request, monitor, rows, faults>>

\* record_protocol_failure stores the state and then publishes why.
FailProtocol(r, final) ==
  /\ run[r] = "running"
  /\ state' = final
  /\ Lives(r, "failing")
  /\ UNCHANGED <<daemon, stream, active, exit, fate, request, monitor, rows, faults>>

ReportFailure(r) ==
  /\ run[r] = "failing"
  /\ Publish(r)
  /\ Lives(r, "reported")
  /\ UNCHANGED <<daemon, active, state, exit, fate, request, monitor, rows, faults>>

\* Mutant of Conclude: the session keeps the state it was in.
ConcludeInPlace(r, final) ==
  /\ \/ run[r] = "running" /\ final \in Outcomes
     \/ run[r] = "reported" /\ final \in {state} \cup (Outcomes \cap {"stopped"})
  /\ active' = NoRun
  /\ exit' = r
  /\ fate' = [fate EXCEPT ![r] = final]
  /\ Lives(r, IF final = "incompatible" THEN "over" ELSE "concluded")
  /\ UNCHANGED <<daemon, stream, state, request, monitor, rows, faults>>

\* finalize_run under the data lock ...
Conclude(r, final) ==
  /\ \/ run[r] = "running" /\ final \in Outcomes
     \/ run[r] = "reported" /\ final \in {state} \cup (Outcomes \cap {"stopped"})
  /\ active' = NoRun
  /\ state' = final
  /\ exit' = r
  /\ fate' = [fate EXCEPT ![r] = final]
  /\ Lives(r, IF final = "incompatible" THEN "over" ELSE "concluded")
  /\ UNCHANGED <<daemon, stream, request, monitor, rows, faults>>

\* ... and its last event, which an incompatible run does not get.
FinalEvent(r) ==
  /\ run[r] = "concluded"
  /\ Publish(r)
  /\ Lives(r, "over")
  /\ UNCHANGED <<daemon, active, state, exit, fate, request, monitor, rows, faults>>

-----------------------------------------------------------------------------
(* The monitor: persist_session_events *)

At(r, p) == monitor[r].pc = p

\* Mutant of Subscribe: the replay is thrown away.
SubscribeLive(r) ==
  /\ At(r, "started")
  /\ monitor' = [monitor EXCEPT ![r] = [@ EXCEPT
       !.pc = "waiting", !.cut = Dropped, !.next = Latest + 1]]
  /\ UNCHANGED <<daemon, session, life, request, rows, faults>>

\* Replay what is retained behind after_sequence, then read the channel; a gap
\* is not looked at.
Subscribe(r) ==
  LET cursor == IF monitor[r].next > Dropped THEN monitor[r].next ELSE Dropped IN
  /\ At(r, "started")
  /\ monitor' = [monitor EXCEPT ![r] = [@ EXCEPT
       !.pc = "waiting", !.cut = Dropped,
       !.next = cursor + 1, !.replay = Latest - cursor]]
  /\ UNCHANGED <<daemon, session, life, request, rows, faults>>

Lagged(r) == monitor[r].replay = 0 /\ monitor[r].next + BroadcastEvents <= Latest

\* A lagging receiver ends the loop.
Receive(r) ==
  /\ At(r, "waiting") /\ monitor[r].next <= Latest
  /\ monitor' = [monitor EXCEPT ![r] = IF Lagged(r) THEN [Off EXCEPT !.pc = "closing"]
                                                 ELSE [@ EXCEPT !.pc = "storing"]]
  /\ UNCHANGED <<daemon, session, life, request, rows, faults>>

Passed(r) ==
  LET m == monitor[r] IN
  monitor' = [monitor EXCEPT ![r] = [m EXCEPT
    !.pc = "looking", !.next = m.next + 1,
    !.replay = IF m.replay = 0 THEN 0 ELSE m.replay - 1]]

\* append_event: the run has to have its row, and a sequence number that is
\* there already is refused; either way, and on a fault, the loop goes on.
Store(r) ==
  LET n == monitor[r].next IN
  /\ At(r, "storing") /\ StorageFree
  /\ dbEvents' = IF stream[n] # NoRun /\ dbRun[stream[n]] = "none"
                  THEN dbEvents ELSE dbEvents \cup {n}
  /\ Passed(r)
  /\ UNCHANGED <<daemon, session, life, request, dbState, dbRun, dbExit, faults>>

StoreFails(r) ==
  /\ At(r, "storing") /\ StorageFree /\ Fault
  /\ Passed(r)
  /\ UNCHANGED <<daemon, session, life, request, rows>>

\* Mutant of Look: a monitor follows the session and not its run.
LookOn(r) ==
  /\ At(r, "looking")
  /\ monitor' = [monitor EXCEPT ![r] =
       IF active # NoRun /\ @.last # state
       THEN [@ EXCEPT !.pc = "updating", !.seen = state]
       ELSE [@ EXCEPT !.pc = "waiting"]]
  /\ UNCHANGED <<daemon, session, life, request, rows, faults>>

\* The snapshot after each event: the loop ends once the run is not the active
\* one, whatever is left to receive.
Look(r) ==
  /\ At(r, "looking")
  /\ monitor' = [monitor EXCEPT ![r] =
       IF active # r THEN [Off EXCEPT !.pc = "closing"]
       ELSE IF @.last # state THEN [@ EXCEPT !.pc = "updating", !.seen = state]
       ELSE [@ EXCEPT !.pc = "waiting"]]
  /\ UNCHANGED <<daemon, session, life, request, rows, faults>>

UpdateState(r) ==
  /\ At(r, "updating") /\ StorageFree
  /\ dbState' = monitor[r].seen
  /\ monitor' = [monitor EXCEPT ![r] = [@ EXCEPT
       !.pc = "waiting", !.last = monitor[r].seen, !.seen = "none"]]
  /\ UNCHANGED <<daemon, session, life, request, dbRun, dbExit, dbEvents, faults>>

UpdateFails(r) ==
  /\ At(r, "updating") /\ StorageFree /\ Fault
  /\ monitor' = [monitor EXCEPT ![r].pc = "waiting", ![r].seen = "none"]
  /\ UNCHANGED <<daemon, session, life, request, rows>>

\* Mutant of Close: a loop that ends without an exit cause means success.
CloseCompleted(r) ==
  /\ At(r, "closing")
  /\ monitor' = [monitor EXCEPT ![r] = [@ EXCEPT
       !.pc = "finishing", !.exit = exit,
       !.seen = IF exit = NoRun THEN "completed" ELSE state]]
  /\ UNCHANGED <<daemon, session, life, request, rows, faults>>

\* The last snapshot is the session's, whichever run it is about by now.
Close(r) ==
  /\ At(r, "closing")
  /\ monitor' = [monitor EXCEPT ![r] = [@ EXCEPT
       !.pc = "finishing", !.seen = state, !.exit = exit]]
  /\ UNCHANGED <<daemon, session, life, request, rows, faults>>

\* finish_session_run: again two statements, the second only after the first.
FinishSession(r) ==
  /\ At(r, "finishing") /\ StorageFree
  /\ dbState' = monitor[r].seen
  /\ monitor' = [monitor EXCEPT ![r].pc = "halfway"]
  /\ UNCHANGED <<daemon, session, life, request, dbRun, dbExit, dbEvents, faults>>

FinishRun(r) ==
  /\ At(r, "halfway")
  /\ dbRun' = [dbRun EXCEPT ![r] = monitor[r].seen]
  /\ dbExit' = [dbExit EXCEPT ![r] = monitor[r].exit]
  /\ monitor' = [monitor EXCEPT ![r] = [Off EXCEPT !.pc = "done"]]
  /\ UNCHANGED <<daemon, session, life, request, dbState, dbEvents, faults>>

FinishFails(r) ==
  /\ At(r, "halfway") \/ (At(r, "finishing") /\ StorageFree)
  /\ Fault
  /\ monitor' = [monitor EXCEPT ![r] = [Off EXCEPT !.pc = "done"]]
  /\ UNCHANGED <<daemon, session, life, request, rows>>

MonitorStep(r) ==
  \/ Subscribe(r) \/ Receive(r) \/ Store(r) \/ Look(r) \/ UpdateState(r)
  \/ Close(r) \/ FinishSession(r) \/ FinishRun(r)

-----------------------------------------------------------------------------
(* The daemon *)

\* What recover_interrupted_work takes for under way.
UnderWay ==
  {"created", "starting", "ready", "running", "awaiting_permission",
   "awaiting_user_input", "background", "interrupting"}

\* What the daemon has in memory is lost with it, its hold on children too.
Crash ==
  /\ daemon = "up"
  /\ daemon' = "crashed"
  /\ stream' = <<>> /\ active' = NoRun /\ state' = "created" /\ exit' = NoRun
  /\ run' = [r \in Runs |-> "over"]
  /\ request' = [r \in Runs |-> "over"]
  /\ monitor' = [r \in Runs |-> Off]
  /\ UNCHANGED <<fate, rows, faults>>

\* Mutant of Recover: only the state start_run writes is looked for.
RecoverRunning ==
  /\ daemon = "crashed"
  /\ daemon' = "recovered"
  /\ dbState' = IF dbState \in UnderWay THEN "interrupted" ELSE dbState
  /\ dbRun' = [r \in Runs |-> IF dbRun[r] = "running" THEN "interrupted" ELSE dbRun[r]]
  /\ UNCHANGED <<session, life, request, monitor, dbExit, dbEvents, faults>>

\* One transaction of the next daemon, which knows no session of this one.
Recover ==
  /\ daemon = "crashed"
  /\ daemon' = "recovered"
  /\ dbState' = IF dbState \in UnderWay THEN "interrupted" ELSE dbState
  /\ dbRun' = [r \in Runs |-> IF dbRun[r] \in UnderWay THEN "interrupted" ELSE dbRun[r]]
  /\ UNCHANGED <<session, life, request, monitor, dbExit, dbEvents, faults>>

RunStep(r) ==
  \/ Emit(r) \/ ReportFailure(r) \/ FinalEvent(r)
  \/ \E to \in Moves : Move(r, to)
  \/ \E final \in Failures : FailProtocol(r, final)
  \/ \E final \in FinalStates : Conclude(r, final)

Next ==
  \/ /\ daemon = "up"
     /\ \E r \in Runs :
          \/ Ask(r) \/ RequestStep(r) \/ LaunchFails(r) \/ ReportLaunch(r)
          \/ RecordFails(r) \/ AbortRequest(r) \/ RunStep(r) \/ MonitorStep(r)
          \/ StoreFails(r) \/ UpdateFails(r) \/ FinishFails(r)
  \/ Crash \/ Recover

Spec == Init /\ [][Next]_vars

\* The runtime polls its tasks while the daemon is up; requests, children and
\* crashes owe nothing.
FairSpec ==
  /\ Spec
  /\ \A r \in Runs : /\ WF_vars(daemon = "up" /\ RequestStep(r))
                     /\ WF_vars(daemon = "up" /\ FinalEvent(r))
                     /\ WF_vars(daemon = "up" /\ MonitorStep(r))
-----------------------------------------------------------------------------
(* Properties *)

\* Every variable has its type.
TypeOK ==
  /\ daemon \in {"up", "crashed", "recovered"}
  /\ stream \in Seq(Runs \cup {NoRun})
  /\ active \in Runs \cup {NoRun} /\ exit \in Runs \cup {NoRun}
  /\ state \in SessionState
  /\ run \in [Runs -> {"new", "begun", "spawning", "unlaunched", "running", "failing",
                       "reported", "concluded", "over"}]
  /\ fate \in [Runs -> FinalStates \cup {"none"}]
  /\ request \in [Runs -> {"new", "asked", "launched", "halfway", "recorded", "over"}]
  /\ monitor \in [Runs ->
       [pc : {"off", "started", "waiting", "storing", "looking", "updating", "closing",
              "finishing", "halfway", "done"},
        next : Nat, replay : Nat, cut : Nat,
        last : SessionState \cup {"none"}, seen : SessionState \cup {"none"},
        exit : Runs \cup {NoRun}]]
  /\ dbState \in SessionState \cup {"none"}
  /\ dbRun \in [Runs -> SessionState \cup {"none"}]
  /\ dbExit \in [Runs -> Runs \cup {NoRun}]
  /\ dbEvents \subseteq Nat
  /\ faults \in 0 .. MaxFaults

\* The events of a run that its monitor has passed are stored, from the first
\* one that was not evicted before it subscribed, unless a statement failed:
\* neither the seam of replay and channel, nor the monitor of the run before,
\* nor the foreign key costs one.  Every variable keeps its type.
NothingSkipped ==
  /\ TypeOK
  /\ faults = 0 =>
       \A r \in Runs : ~At(r, "off") /\ ~At(r, "started") =>
         \A n \in monitor[r].cut + 1 .. monitor[r].next - 1 :
           stream[n] = r => n \in dbEvents

\* The database never says that a run has come to its end before it has: the
\* row of a resumed run does not inherit the end of the run before it.
NoPrematureEnd ==
  \A r \in Runs :
    dbRun[r] \in {"completed", "stopped"} \/ dbExit[r] # NoRun => Ended(r)

\* A run's row with the run's own exit has the state this run ended in, or
\* shows that the next launch was between storing Starting and forgetting the
\* exit when the snapshot was taken.
ExitMatchesState ==
  \A r \in Runs : dbExit[r] = r => dbRun[r] \in {fate[r], "starting", "interrupted"}

\* After a restart nothing in the database claims to be under way, wherever
\* the daemon crashed.
RecoveredClean ==
  daemon = "recovered" =>
    \A s \in {dbState} \cup {dbRun[r] : r \in Runs} :
      s \in {"none", "interrupted"} \cup FinalStates

\* The monitor of a run that has ended ends too, and stops counting as an
\* active session that keeps the daemon alive: a run ended other than as
\* incompatible, which has a last event to wake it.
MonitorEnds ==
  \A r \in Runs :
    (Ended(r) /\ fate[r] # "incompatible" /\ ~At(r, "off"))
      ~> (At(r, "done") \/ daemon # "up")

\* The same of every run: the daemon can become idle once its sessions ended.
IdleReached ==
  \A r \in Runs : (Ended(r) /\ ~At(r, "off")) ~> (At(r, "done") \/ daemon # "up")

\* A run's final state is stored after the output that was accepted into the
\* event stream before the run ended.
FinalAfterOutput ==
  \A r \in Runs :
    (faults = 0 /\ run[r] = "concluded" /\ dbRun[r] \in FinalStates)
      => \A n \in 1 .. Latest : stream[n] = r => n \in dbEvents
=============================================================================
