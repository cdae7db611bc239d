---------------------------- MODULE MC_EventLog ----------------------------
(* Two windows read a stream that outgrows the replay queue and the        *)
(* channel.  The other reader of such a stream is the persistence monitor, *)
(* in detail in SessionPersistence: a behaviour is of the windows or of    *)
(* the monitors of a start and a resume, chosen at the start as "readers". *)
EXTENDS EventLog

CONSTANTS Runs, NoRun

VARIABLES readers, daemon, stream, active, state, exit, run, fate, ask, monitor,
          dbState, dbRun, dbExit, dbEvents, faults

recordVars == <<daemon, stream, active, state, exit, run, fate, ask, monitor,
                dbState, dbRun, dbExit, dbEvents, faults>>

Record == INSTANCE SessionPersistence WITH
            ReplayEvents <- 1, BroadcastEvents <- 1, Moves <- {"running"},
            Outcomes <- {"completed"}, Failures <- {}, MaxSequence <- 2, MaxFaults <- 0,
            request <- ask

ReadersInit == readers \in {"windows", "monitors"} /\ Init /\ Record!Init

ReadersNext ==
  /\ UNCHANGED readers
  /\ \/ readers = "windows" /\ Next /\ UNCHANGED recordVars
     \/ readers = "monitors" /\ Record!Next /\ UNCHANGED vars

\* The fairness of both modules, for the one that moves.
ReadersSpec ==
  /\ ReadersInit /\ [][ReadersNext]_<<readers, vars, recordVars>>
  /\ \A c \in Clients : WF_vars(readers = "windows" /\ ReaderStep(c))
  /\ \A r \in Runs :
       /\ WF_recordVars(readers = "monitors" /\ daemon = "up" /\ Record!RequestStep(r))
       /\ WF_recordVars(readers = "monitors" /\ daemon = "up" /\ Record!FinalEvent(r))
       /\ WF_recordVars(readers = "monitors" /\ daemon = "up" /\ Record!MonitorStep(r))

\* The monitor of a run that has ended ends too, and stops counting as an
\* active session that keeps the daemon alive (SessionPersistence).
MonitorEnds == Record!MonitorEnds
=============================================================================
