--------------------------- MODULE SessionGateway ---------------------------
(***************************************************************************)
(* The request handlers of the daemon for projects, sessions and terminals *)
(* (server.rs handle_request, handle_session_request,                      *)
(* handle_project_request) over the state they share: the projects         *)
(* registered in memory, the processes of the supervisor and of the        *)
(* terminal table, the map of TUI sessions, the monitors and the rows of   *)
(* the database.  One job is one request; a handler gives up control at    *)
(* every await, so a job is a sequence of steps.  A connection that breaks *)
(* detaches its jobs or aborts them; a restart of the daemon ends all.     *)
(*                                                                         *)
(* How a run is launched and supervised is SessionSupervisor, how its      *)
(* monitor works SessionPersistence, how a terminal ends Terminals: here   *)
(* each of those is one step.  The terminal of a TUI session is named by   *)
(* its session.  The storage is ready (see DaemonStartup).                 *)
(***************************************************************************)
EXTENDS Naturals, FiniteSets

CONSTANTS
  Jobs,      \* requests under way at one time
  Roots,     \* sets of canonical workspace roots
  Sessions,  \* session ids
  Shells,    \* ids of shell terminals
  MaxRuns,   \* bound: runs of one session
  MaxMoves   \* bound: commands, restarts, lost connections and failed writes together

VARIABLES
  saved,       \* project rows: [id, roots]
  registered,  \* ids of the projects this daemon has registered
  live,        \* sessions and terminals in memory: [kind, project, life, run]
  rows,        \* session rows: [kind, project]
  tui,         \* tui_sessions: the sessions it maps to their terminal
  watched,     \* monitors: <<session, run>>
  job,         \* [at, kind, project, roots, target, found]
  orphaned,    \* runs whose starting handler was aborted
  moves        \* commands and faults so far

gatewayVars == <<saved, registered, live, rows, tui, watched, job, orphaned, moves>>

Ids == Sessions \cup Shells

\* Sessions and terminals have identifiers of their own.
ASSUME IdsDistinct == Sessions \cap Shells = {} /\ "none" \notin Ids

NoProject == 0
Absent == [kind |-> "none", project |-> NoProject, life |-> "none", run |-> 0]
NoRow == [kind |-> "none", project |-> NoProject]
NoJob == [at |-> "idle", kind |-> "none", project |-> NoProject, roots |-> "none",
          target |-> "none", found |-> {}]

GatewayInit ==
  /\ saved = {} /\ registered = {}
  /\ live = [i \in Ids |-> Absent] /\ rows = [s \in Sessions |-> NoRow]
  /\ tui = {} /\ watched = {} /\ orphaned = {}
  /\ job = [j \in Jobs |-> NoJob] /\ moves = 0

Move == moves < MaxMoves /\ moves' = moves + 1
Fault == Move
Works == UNCHANGED moves

\* The request that job j is about to handle.
Asked(j, kind) == job[j].at = "queued" /\ job[j].kind = kind
Known(j) == job[j].project \in registered
At(j, place) == job' = [job EXCEPT ![j].at = place]
Ok(j) == At(j, "ok")
OkWith(j, things) == job' = [job EXCEPT ![j].at = "ok", ![j].found = things]
Refused(j) == At(j, "no")
OkIf(j, condition) == IF condition THEN Ok(j) ELSE Refused(j)

\* A handler that only looks.
Reads == UNCHANGED <<saved, registered, live, rows, tui, watched, orphaned, moves>>
\* One that changes nothing but what is in memory.
Records == UNCHANGED <<saved, registered, rows, tui, watched, orphaned, moves>>

Fresh(i) == live[i] = Absent /\ (i \in Sessions => rows[i] = NoRow)
Running(i) == live[i].life = "running"
Became(i, life) == live' = [live EXCEPT ![i].life = life]
Begun(i, kind, project) ==
  live' = [live EXCEPT ![i] = [kind |-> kind, project |-> project, life |-> "running", run |-> 1]]
\* TerminalSupervisor::session: a terminal that is still in its table.
InTable(i) == live[i].kind \in {"tui", "shell"} /\ live[i].life # "gone"
Supervised(s) == live[s].kind = "structured"

-----------------------------------------------------------------------------
(* Projects.                                                               *)

\* upsert_project_registration, in one transaction: roots that are already
\* saved keep their id.
Resolved(id, roots) ==
  IF \E p \in saved : p.roots = roots THEN (CHOOSE p \in saved : p.roots = roots).id ELSE id

\* ProjectManager::register_with_persistence.
Register(j) ==
  LET id == Resolved(job[j].project, job[j].roots) IN
  /\ Asked(j, "register")
  /\ \/ /\ Works
        /\ saved' = saved \cup {[id |-> id, roots |-> job[j].roots]}
        /\ registered' = registered \cup {id}
        /\ job' = [job EXCEPT ![j].at = "ok", ![j].project = id]
     \/ Fault /\ Refused(j) /\ UNCHANGED <<saved, registered>>
  /\ UNCHANGED <<live, rows, tui, watched, orphaned>>

RecentList(j) == Asked(j, "recent") /\ OkWith(j, saved) /\ Reads

\* Directory listings, files, searches, git: ProjectManager::project finds the
\* services of a registered project.
ProjectRequest(j) == Asked(j, "project") /\ OkIf(j, Known(j)) /\ Reads

\* Layouts, favourites and settings need the database only.
StoredRequest(j) == Asked(j, "stored") /\ Ok(j) /\ Reads

-----------------------------------------------------------------------------
(* Starting: launch, persist, attend.                                      *)

Launch(j, s, kind) ==
  /\ \/ /\ Known(j) /\ Fresh(s) /\ Begun(s, kind, job[j].project)
        /\ job' = [job EXCEPT ![j].at = "persist", ![j].target = s]
     \/ ~Known(j) /\ Refused(j) /\ UNCHANGED live
  /\ Records

FakeSessionStart(j, s) == Asked(j, "start") /\ Launch(j, s, "structured")
FakeTuiStart(j, s) == Asked(j, "tui_start") /\ Launch(j, s, "tui")

\* A resume names the project to run in; the session must be in memory.
FakeSessionResume(j) ==
  LET s == job[j].target IN
  /\ Asked(j, "resume") /\ live[s].run < MaxRuns
  /\ IF Supervised(s) /\ Known(j) /\ ~Running(s)
       THEN /\ live' = [live EXCEPT ![s] = [live[s] EXCEPT !.life = "running", !.project = job[j].project,
                                                           !.run = live[s].run + 1]]
            /\ At(j, "persist")
       ELSE Refused(j) /\ UNCHANGED live
  /\ Records

\* upsert_session keeps the project of an existing row.
Started(s, project) ==
  [rows EXCEPT ![s] = IF @ = NoRow THEN [kind |-> live[s].kind, project |-> project] ELSE @]

\* persist_started_session is one transaction.  The TUI's writes three times,
\* so a failure can leave its row behind.  A failure stops the run.
Persist(j) ==
  LET s == job[j].target IN
  /\ job[j].at = "persist"
  /\ \/ Works /\ rows' = Started(s, job[j].project) /\ At(j, "attend") /\ UNCHANGED live
     \/ /\ Fault /\ Refused(j)
        /\ \/ Supervised(s) /\ Became(s, "ended") /\ UNCHANGED rows
           \/ ~Supervised(s) /\ Became(s, "gone") /\ rows' \in {rows, Started(s, job[j].project)}
  /\ UNCHANGED <<saved, registered, tui, watched, orphaned>>

\* tui_sessions.insert, start_session_monitor, start_tui_session_monitor.
Attend(j) ==
  LET s == job[j].target IN
  /\ job[j].at = "attend"
  /\ watched' = watched \cup {<<s, live[s].run>>}
  /\ tui' = IF Supervised(s) THEN tui ELSE tui \cup {s}
  /\ Ok(j)
  /\ UNCHANGED <<saved, registered, live, rows, orphaned, moves>>

\* The monitor sees the end of its run, stores it, and drops the session from
\* the map.
MonitorEnds(s, n) ==
  /\ <<s, n>> \in watched /\ (~Running(s) \/ live[s].run # n)
  /\ watched' = watched \ {<<s, n>>}
  /\ tui' = IF Supervised(s) THEN tui ELSE tui \ {s}
  /\ UNCHANGED <<saved, registered, live, rows, job, orphaned, moves>>

-----------------------------------------------------------------------------
(* Attaching, listing, reading, stopping.                                  *)

\* require_session_ownership.
Owns(j, s, kind) == rows[s].kind = kind /\ rows[s].project = job[j].project
\* attach_for_project_kind.
AttachOk(j, t, kind) == InTable(t) /\ live[t].kind = kind /\ live[t].project = job[j].project

TerminalAttach(j) ==
  LET s == job[j].target IN
  /\ Asked(j, "tui_attach")
  /\ OkIf(j, Known(j) /\ Owns(j, s, "tui") /\ s \in tui /\ AttachOk(j, s, "tui"))
  /\ Reads

StructuredAttach(j) ==
  LET s == job[j].target IN
  /\ Asked(j, "attach")
  /\ OkIf(j, Known(j) /\ Owns(j, s, "structured") /\ Supervised(s) /\ Running(s))
  /\ Reads

SessionList(j) ==
  /\ Asked(j, "list")
  /\ IF Known(j) THEN OkWith(j, {s \in Sessions : rows[s].project = job[j].project}) ELSE Refused(j)
  /\ Reads

\* Snapshot, events, raw bytes, subscriptions and answers look in memory
\* first and then, the reads among them, in the database.
SessionRequest(j) ==
  LET s == job[j].target IN
  Asked(j, "session") /\ OkIf(j, Supervised(s) \/ rows[s] # NoRow) /\ Reads

\* StopSession: the supervisor's session, else the map of TUI sessions, else
\* a row that says that there was one.
StopSession(j) ==
  LET s == job[j].target IN
  /\ Asked(j, "stop")
  /\ \/ Supervised(s) /\ Became(s, "ended") /\ Ok(j)
     \/ ~Supervised(s) /\ s \in tui /\ At(j, "close") /\ UNCHANGED live
     \/ ~Supervised(s) /\ s \notin tui /\ OkIf(j, rows[s] # NoRow) /\ UNCHANGED live
  /\ Records

\* TerminalSupervisor::close, for StopSession and for TerminalClose.
Close(j) ==
  LET t == job[j].target IN
  /\ job[j].at = "close" \/ Asked(j, "close")
  /\ IF InTable(t) THEN Became(t, "gone") /\ Ok(j) ELSE Refused(j) /\ UNCHANGED live
  /\ Records

StopAllWork(j) ==
  /\ Asked(j, "stop_all")
  /\ live' = [i \in Ids |-> IF Supervised(i) THEN [live[i] EXCEPT !.life = "ended"]
                            ELSE IF InTable(i) THEN [live[i] EXCEPT !.life = "gone"] ELSE live[i]]
  /\ Ok(j)
  /\ Records

-----------------------------------------------------------------------------
(* Shell terminals.                                                        *)

TerminalOpen(j, t) ==
  /\ Asked(j, "open")
  /\ \/ /\ Known(j) /\ Fresh(t) /\ Begun(t, "shell", job[j].project)
        /\ job' = [job EXCEPT ![j].at = "ok", ![j].target = t]
     \/ ~Known(j) /\ Refused(j) /\ UNCHANGED live
  /\ Records

TerminalList(j) ==
  /\ Asked(j, "terminals")
  /\ IF Known(j) THEN OkWith(j, {t \in Shells : AttachOk(j, t, "shell")}) ELSE Refused(j)
  /\ Reads

ShellAttach(j) ==
  Asked(j, "shell_attach") /\ OkIf(j, Known(j) /\ AttachOk(j, job[j].target, "shell")) /\ Reads

\* Write, resize, read and state of any terminal, by its id alone.
TerminalRequest(j) == Asked(j, "terminal") /\ OkIf(j, InTable(job[j].target)) /\ Reads

-----------------------------------------------------------------------------
(* The world.                                                              *)

RunEnds(s) ==
  /\ Running(s) /\ Became(s, "ended")
  /\ UNCHANGED job /\ Records

Starting(j) == job[j].at \in {"persist", "attend"}

\* serve_connection returns on a failed write and drops its tasks: the
\* requests are gone, each at the await it was.
Abort(dropped) ==
  /\ job' = [j \in Jobs |-> IF j \in dropped THEN NoJob ELSE job[j]]
  /\ orphaned' = orphaned \cup {<<job[j].target, live[job[j].target].run>> : j \in {j \in dropped : Starting(j)}}
  /\ UNCHANGED <<saved, registered, live, rows, tui, watched>>

\* The next daemon has the rows and nothing else.
Restart ==
  /\ Fault
  /\ registered' = {} /\ tui' = {} /\ watched' = {} /\ orphaned' = {}
  /\ live' = [i \in Ids |-> IF live[i] = Absent THEN Absent ELSE [live[i] EXCEPT !.kind = "none", !.life = "gone"]]
  /\ job' = [j \in Jobs |-> NoJob]
  /\ UNCHANGED <<saved, rows>>

GatewayNext ==
  \/ \E j \in Jobs :
       \/ Register(j) \/ RecentList(j) \/ ProjectRequest(j) \/ StoredRequest(j)
       \/ \E s \in Sessions : FakeSessionStart(j, s) \/ FakeTuiStart(j, s)
       \/ FakeSessionResume(j) \/ Persist(j) \/ Attend(j)
       \/ TerminalAttach(j) \/ StructuredAttach(j) \/ SessionList(j) \/ SessionRequest(j)
       \/ StopSession(j) \/ Close(j) \/ StopAllWork(j)
       \/ \E t \in Shells : TerminalOpen(j, t)
       \/ TerminalList(j) \/ ShellAttach(j) \/ TerminalRequest(j)
  \/ \E s \in Sessions : RunEnds(s) \/ \E n \in 1..MaxRuns : MonitorEnds(s, n)

-----------------------------------------------------------------------------
\* Every run that is under way is in the care of a monitor or of the handler
\* that is starting it, unless that handler was aborted: its end will be
\* stored and the daemon counts it as active (server.rs:894-915, 1423-1444).
RunsAttended ==
  \A s \in Sessions : Running(s) =>
    \/ <<s, live[s].run>> \in watched \cup orphaned
    \/ \E j \in Jobs : Starting(j) /\ job[j].target = s

\* A session runs only in the project it belongs to.  The daemon itself does
\* not compare the project a resume names with that of the row
\* (server.rs:924-950); the desktop's grants see to it.
RunsInProject ==
  \A s \in Sessions : Running(s) /\ rows[s] # NoRow => live[s].project = rows[s].project

\* "a timed-out request and its retry cannot publish two recent-project
\* identities" (database.rs:112-113): one row for each set of roots.
OneIdentity == \A p, q \in saved : p.roots = q.roots => p.id = q.id
=============================================================================
