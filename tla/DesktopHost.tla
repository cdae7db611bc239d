----------------------------- MODULE DesktopHost -----------------------------
(***************************************************************************)
(* The native host of the desktop application (apps/desktop lib.rs,        *)
(* background_menu.rs) and the daemon it talks to (SessionGateway).  Each  *)
(* window holds opaque grants: at most one for a project, others for       *)
(* terminals, and the entries of a map from session ids.  A command of the *)
(* webview is authorised against the grants, sent over the one shared      *)
(* connection, and its answer may add or remove grants.  Commands of all   *)
(* windows overlap; each lock of the host is taken for one step only.      *)
(***************************************************************************)
EXTENDS SessionGateway

CONSTANTS
  Windows,   \* labels of the windows that can be open
  Main,      \* the window that is hidden, never destroyed
  MaxGrants  \* bound: grants and project ids issued

\* The main window exists, and no session or terminal is named like a folder.
ASSUME HostAssumption == Main \in Windows /\ "folder" \notin Ids

VARIABLES
  open,       \* windows on the screen
  projects,   \* project grants: [id, project, roots, window]
  terminals,  \* terminal grants: [id, pg, terminal, discovery, window]
  sessions,   \* session grants: [session, pg, terminal, window], one per session
  attempts,   \* project_registrations: the id kept for the roots, or 0
  call,       \* the commands under way
  client,     \* the shared connection, 0 when there is none
  broken,     \* connections that have failed
  issued,     \* ids handed out so far
  granted     \* history: the projects each window was ever granted

hostVars == <<open, projects, terminals, sessions, attempts, call, client, broken, issued, granted>>
vars == <<gatewayVars, hostVars>>

NoCall == [at |-> "idle", kind |-> "none", window |-> Main, pg |-> 0, project |-> NoProject,
           roots |-> "none", target |-> "none", conn |-> 0, todo |-> {}]

Init ==
  /\ GatewayInit
  /\ open = {Main} /\ projects = {} /\ terminals = {} /\ sessions = {}
  /\ attempts = [r \in Roots |-> 0] /\ call = [c \in Jobs |-> NoCall]
  /\ client = 0 /\ broken = {} /\ issued = 0
  /\ granted = [w \in Windows |-> {}]

-----------------------------------------------------------------------------
(* Invoking a command.                                                     *)

Idle(c) == call[c].at = "idle" /\ job[c].at = "idle"
Free(c, w) == Idle(c) /\ w \in open
\* request_daemon_correlated, after the command is authorised: connect when
\* there is no client, then send.  (Waiting for the client's lock only delays
\* the request, as its queue does.)
Connection == IF client = 0 THEN Cardinality(broken) + 1 ELSE client
Send(c, k) ==
  /\ client' = Connection
  /\ IF Connection \in broken
       THEN call' = [call EXCEPT ![c] = [k EXCEPT !.at = "lost", !.conn = Connection]] /\ UNCHANGED job
       ELSE /\ call' = [call EXCEPT ![c] = [k EXCEPT !.at = "sent", !.conn = Connection]]
            /\ job' = [job EXCEPT ![c] = [NoJob EXCEPT !.at = "queued", !.kind = k.kind, !.project = k.project,
                                                       !.roots = k.roots, !.target = k.target]]
Ask(c, k) ==
  /\ Move /\ Send(c, k)
  /\ UNCHANGED <<saved, registered, live, rows, tui, watched, orphaned>>
  /\ UNCHANGED <<open, projects, terminals, sessions, broken, granted>>
Call(w, kind) == [NoCall EXCEPT !.kind = kind, !.window = w]

\* A slip: a session grant is not compared with the window that uses it.
SessionGrantsOfAll(w) == sessions

\* resolve_project, authorize_terminal, authorize_session.
ProjectGrants(w) == {g \in projects : g.window = w}
TerminalGrants(w) == {g \in terminals : g.window = w}
SessionGrants(w) == {g \in sessions : g.window = w}

\* system_snapshot, storage_unlock, project_recent_list, project_set_favorite,
\* shortcut_settings_load and _save, update_status of the menu.
GlobalCommand(c, w) ==
  Free(c, w) /\ Ask(c, Call(w, "stored")) /\ UNCHANGED <<attempts, issued>>
\* background_stop_all, stop_all of the menu.
StopAllCommand(c, w) ==
  Free(c, w) /\ Ask(c, Call(w, "stop_all")) /\ UNCHANGED <<attempts, issued>>

OfProject(c, w, g, kind) ==
  /\ Ask(c, [Call(w, kind) EXCEPT !.pg = g.id, !.project = g.project])
  /\ UNCHANGED <<attempts, issued>>

\* project_window_layout_load and _save.
LayoutCommand(c, w) == Free(c, w) /\ \E g \in ProjectGrants(w) : OfProject(c, w, g, "stored")
\* Listing, reading, saving, opening outside.
FileCommand(c, w) == Free(c, w) /\ \E g \in ProjectGrants(w) : OfProject(c, w, g, "project")
SearchCommand(c, w) == Free(c, w) /\ \E g \in ProjectGrants(w) : OfProject(c, w, g, "project")
GitCommand(c, w) == Free(c, w) /\ \E g \in ProjectGrants(w) : OfProject(c, w, g, "project")

FakeSessionStartCommand(c, w) == Free(c, w) /\ \E g \in ProjectGrants(w) : OfProject(c, w, g, "start")
FakeTuiStartCommand(c, w) == Free(c, w) /\ \E g \in ProjectGrants(w) : OfProject(c, w, g, "tui_start")
SessionListCommand(c, w) == Free(c, w) /\ \E g \in ProjectGrants(w) : OfProject(c, w, g, "list")
TerminalOpenCommand(c, w) == Free(c, w) /\ \E g \in ProjectGrants(w) : OfProject(c, w, g, "open")
TerminalListCommand(c, w) == Free(c, w) /\ \E g \in ProjectGrants(w) : OfProject(c, w, g, "terminals")

OfSession(c, w, g, kind, p) ==
  /\ Ask(c, [Call(w, kind) EXCEPT !.pg = g.pg, !.project = p, !.target = g.session])
  /\ UNCHANGED <<attempts, issued>>

\* Snapshot, events, raw bytes, subscribe, unsubscribe.
SessionReadCommand(c, w) ==
  Free(c, w) /\ \E g \in SessionGrants(w) : OfSession(c, w, g, "session", NoProject)
\* Permission decisions, user input, GUI actions.
SessionAnswerCommand(c, w) ==
  Free(c, w) /\ \E g \in SessionGrants(w) : OfSession(c, w, g, "session", NoProject)
SessionStopCommand(c, w) ==
  Free(c, w) /\ \E g \in SessionGrants(w) : OfSession(c, w, g, "stop", NoProject)
FakeTuiAttachCommand(c, w) ==
  Free(c, w) /\ \E g \in SessionGrants(w), p \in ProjectGrants(w) :
    g.pg = p.id /\ OfSession(c, w, g, "tui_attach", p.project)
FakeSessionAttachCommand(c, w) ==
  Free(c, w) /\ \E g \in SessionGrants(w), p \in ProjectGrants(w) :
    g.pg = p.id /\ g.terminal = 0 /\ OfSession(c, w, g, "attach", p.project)
FakeSessionResumeCommand(c, w) ==
  Free(c, w) /\ \E g \in SessionGrants(w), p \in ProjectGrants(w) :
    g.pg = p.id /\ OfSession(c, w, g, "resume", p.project)

OfTerminal(c, w, g, kind, p) ==
  /\ Ask(c, [Call(w, kind) EXCEPT !.pg = g.pg, !.project = p, !.target = g.terminal])
  /\ UNCHANGED <<attempts, issued>>

\* Write, resize, read, state.
TerminalCommand(c, w) ==
  Free(c, w) /\ \E g \in TerminalGrants(w) : OfTerminal(c, w, g, "terminal", NoProject)
TerminalCloseCommand(c, w) ==
  Free(c, w) /\ \E g \in TerminalGrants(w) : OfTerminal(c, w, g, "close", NoProject)
TerminalAttachCommand(c, w) ==
  Free(c, w) /\ \E g \in TerminalGrants(w), p \in ProjectGrants(w) :
    g.pg = p.id /\ OfTerminal(c, w, g, "shell_attach", p.project)

\* open_project_folder: an earlier attempt for the same roots that did not
\* settle keeps its project id (begin_project_registration).
OpenProjectFolder(c, w, r) ==
  LET id == IF attempts[r] # 0 THEN attempts[r] ELSE issued + 1 IN
  /\ Free(c, w) /\ issued < MaxGrants
  /\ attempts' = [attempts EXCEPT ![r] = id]
  /\ issued' = IF id = issued + 1 THEN id ELSE issued
  /\ Ask(c, [Call(w, "register") EXCEPT !.project = id, !.roots = r, !.target = "folder"])

OpenRecentProject(c, w, p) ==
  /\ Free(c, w) /\ p \in saved
  /\ Ask(c, [Call(w, "recent") EXCEPT !.project = p.id])
  /\ UNCHANGED <<attempts, issued>>

OpenNewWindow(w) ==
  /\ w \notin open /\ granted[w] = {}
  /\ open' = open \cup {w}
  /\ UNCHANGED <<gatewayVars, projects, terminals, sessions, attempts, call, client, broken, issued, granted>>

-----------------------------------------------------------------------------
(* The shared connection.                                                  *)

Ended(c) == call' = [call EXCEPT ![c] = NoCall]

\* A slip: whatever client is there is thrown away.
InvalidateAny(c) ==
  /\ call[c].at = "lost"
  /\ client' = 0
  /\ Ended(c)
  /\ UNCHANGED <<gatewayVars, open, projects, terminals, sessions, attempts, broken, issued, granted>>

\* What failed is no longer used, unless it has been replaced meanwhile.
InvalidateClient(c) ==
  /\ call[c].at = "lost"
  /\ client' = IF client = call[c].conn THEN 0 ELSE client
  /\ Ended(c)
  /\ UNCHANGED <<gatewayVars, open, projects, terminals, sessions, attempts, broken, issued, granted>>

Waiting(conn) == {c \in Jobs : call[c].at = "sent" /\ call[c].conn = conn}
Disconnected ==
  /\ broken' = broken \cup {client}
  /\ call' = [c \in Jobs |-> IF c \in Waiting(client) THEN [call[c] EXCEPT !.at = "lost"] ELSE call[c]]
  /\ UNCHANGED <<open, projects, terminals, sessions, attempts, client, issued, granted>>

\* serve_connection sees the end of the stream and leaves its requests to
\* run, or fails to write and drops them.
ConnectionBreaks ==
  /\ client \notin broken \cup {0}
  /\ Fault
  /\ \E dropped \in {{}, {c \in Waiting(client) : job[c].at # "idle"}} : Abort(dropped)
  /\ Disconnected

DaemonRestarts == client \notin broken \cup {0} /\ Restart /\ Disconnected

\* The deadline of a registration.
RegistrationTimesOut(c) ==
  /\ call[c].kind = "register" /\ call[c].at = "sent"
  /\ Ended(c)
  /\ UNCHANGED <<gatewayVars, open, projects, terminals, sessions, attempts, client, broken, issued, granted>>

\* An answer nobody waits for.
Discard(c) ==
  /\ job[c].at \in {"ok", "no"} /\ call[c].at # "sent"
  /\ job' = [job EXCEPT ![c] = NoJob]
  /\ UNCHANGED <<saved, registered, live, rows, tui, watched, orphaned, moves, hostVars>>

-----------------------------------------------------------------------------
(* Answers.                                                                *)

\* finish_project_registration.
Settled(c) ==
  attempts' = [r \in Roots |->
    IF call[c].target = "folder" /\ call[c].roots = r /\ attempts[r] = call[c].project THEN 0 ELSE attempts[r]]

HasGrants == {"register", "start", "tui_start", "tui_attach", "list", "stop", "open", "shell_attach",
              "terminals", "close"}

\* The answer; what it carries is in the fields of the call.
Receive(c) ==
  LET k == call[c]
      found == {p \in job[c].found : p.id = k.project}
  IN
  /\ k.at = "sent" /\ job[c].at \in {"ok", "no"}
  /\ \/ /\ job[c].at = "no" \/ k.kind \notin HasGrants \cup {"recent"} \/ (k.kind = "recent" /\ found = {})
        /\ Ended(c) /\ IF k.kind = "register" THEN Settled(c) ELSE UNCHANGED attempts
        /\ job' = [job EXCEPT ![c] = NoJob] /\ UNCHANGED client
     \/ \* open_recent_project goes on to register what it found.
        /\ job[c].at = "ok" /\ k.kind = "recent"
        /\ \E p \in found :
             Send(c, [Call(k.window, "register") EXCEPT !.project = p.id, !.roots = p.roots])
        /\ UNCHANGED attempts
     \/ /\ job[c].at = "ok" /\ k.kind \in HasGrants
        /\ call' = [call EXCEPT ![c] = [k EXCEPT !.at = "answered", !.target = job[c].target,
                                                 !.todo = IF k.kind = "register" THEN {job[c].project} ELSE job[c].found]]
        /\ IF k.kind = "register" THEN Settled(c) ELSE UNCHANGED attempts
        /\ job' = [job EXCEPT ![c] = NoJob] /\ UNCHANGED client
  /\ UNCHANGED <<saved, registered, live, rows, tui, watched, orphaned, moves>>
  /\ UNCHANGED <<open, projects, terminals, sessions, broken, issued, granted>>

Answered(c, kinds) == call[c].at = "answered" /\ call[c].kind \in kinds
Step(c, place) == call' = [call EXCEPT ![c].at = place]
HostStep == UNCHANGED <<gatewayVars, open, attempts, client, broken>>

\* grant_registered_project, three locks one after the other.
GrantProject(c) ==
  LET w == call[c].window
      id == CHOOSE i \in call[c].todo : TRUE
      replaced == {g.id : g \in ProjectGrants(w)}
  IN
  /\ Answered(c, {"register"}) /\ issued < MaxGrants
  /\ issued' = issued + 1
  /\ projects' = (projects \ ProjectGrants(w))
                   \cup {[id |-> issued + 1, project |-> id, roots |-> call[c].roots, window |-> w]}
  /\ granted' = [granted EXCEPT ![w] = @ \cup {id}]
  /\ call' = [call EXCEPT ![c] = IF replaced = {} THEN NoCall ELSE [@ EXCEPT !.at = "revoke", !.todo = replaced]]
  /\ UNCHANGED <<terminals, sessions>> /\ HostStep

RevokeTerminals(c) ==
  /\ call[c].at = "revoke"
  /\ terminals' = {g \in terminals : g.pg \notin call[c].todo}
  /\ Step(c, "revoke_sessions")
  /\ UNCHANGED <<projects, sessions, issued, granted>> /\ HostStep

RevokeSessions(c) ==
  /\ call[c].at = "revoke_sessions"
  /\ sessions' = {g \in sessions : g.pg \notin call[c].todo}
  /\ Ended(c)
  /\ UNCHANGED <<projects, terminals, issued, granted>> /\ HostStep

GrantOf(s) == {g \in sessions : g.session = s}

\* register_session: another window's entry is taken over.
Entry(s, pg, w) ==
  [session |-> s, pg |-> pg, window |-> w,
   terminal |-> IF \E g \in GrantOf(s) : g.pg = pg /\ g.window = w
                  THEN (CHOOSE g \in GrantOf(s) : TRUE).terminal ELSE 0]
RegisterSession(s, pg, w) == sessions' = (sessions \ GrantOf(s)) \cup {Entry(s, pg, w)}

StartGranted(c) ==
  /\ Answered(c, {"start"})
  /\ RegisterSession(call[c].target, call[c].pg, call[c].window)
  /\ Ended(c)
  /\ UNCHANGED <<projects, terminals, issued, granted>> /\ HostStep

ListGranted(c) ==
  /\ Answered(c, {"list"})
  /\ IF call[c].todo = {} THEN Ended(c) /\ UNCHANGED sessions
     ELSE \E s \in call[c].todo :
            /\ RegisterSession(s, call[c].pg, call[c].window)
            /\ call' = [call EXCEPT ![c].todo = @ \ {s}]
  /\ UNCHANGED <<projects, terminals, issued, granted>> /\ HostStep

\* register_terminal: a window has one discovery grant and one attached grant
\* of a terminal at most, and none of the first beside the second's issue.
Replaced(t, w, discovery) ==
  {g \in TerminalGrants(w) : g.terminal = t /\ (discovery => g.discovery)}
RegisterTerminal(c, t, discovery) ==
  /\ issued < MaxGrants /\ issued' = issued + 1
  /\ terminals' = (terminals \ Replaced(t, call[c].window, discovery))
                    \cup {[id |-> issued + 1, pg |-> call[c].pg, terminal |-> t, discovery |-> discovery,
                           window |-> call[c].window]}

TerminalGranted(c) ==
  /\ Answered(c, {"open", "shell_attach"})
  /\ RegisterTerminal(c, call[c].target, FALSE)
  /\ Ended(c)
  /\ UNCHANGED <<projects, sessions, granted>> /\ HostStep

\* grant_terminal_index_entry for each terminal of the list.
TerminalsListed(c) ==
  /\ Answered(c, {"terminals"})
  /\ IF call[c].todo = {} THEN Ended(c) /\ UNCHANGED <<terminals, issued>>
     ELSE \E t \in call[c].todo :
            RegisterTerminal(c, t, TRUE) /\ call' = [call EXCEPT ![c].todo = @ \ {t}]
  /\ UNCHANGED <<projects, sessions, granted>> /\ HostStep

\* register_tui_session: the terminal, the session, then the previous terminal.
TuiTerminalGranted(c) ==
  /\ Answered(c, {"tui_start", "tui_attach"})
  /\ RegisterTerminal(c, call[c].target, FALSE)
  /\ call' = [call EXCEPT ![c].at = "insert", ![c].todo = {issued + 1}]
  /\ UNCHANGED <<projects, sessions, granted>> /\ HostStep

TuiSessionGranted(c) ==
  LET k == call[c]
      previous == {g.terminal : g \in GrantOf(k.target)} \ {0}
  IN
  /\ k.at = "insert"
  /\ sessions' = (sessions \ GrantOf(k.target))
                   \cup {[session |-> k.target, pg |-> k.pg, window |-> k.window,
                          terminal |-> CHOOSE t \in k.todo : TRUE]}
  /\ call' = [call EXCEPT ![c] = IF previous = {} THEN NoCall ELSE [@ EXCEPT !.at = "drop", !.todo = previous]]
  /\ UNCHANGED <<projects, terminals, issued, granted>> /\ HostStep

\* unregister_terminal, after a replaced TUI session and after a stop.
DropTerminal(c) ==
  /\ call[c].at = "drop"
  /\ terminals' = {g \in terminals : g.id \notin call[c].todo}
  /\ Ended(c)
  /\ UNCHANGED <<projects, sessions, issued, granted>> /\ HostStep

\* session_stop: unregister_session, then its terminal.
SessionStopped(c) ==
  LET mine == {g.terminal : g \in GrantOf(call[c].target)} \ {0} IN
  /\ Answered(c, {"stop"})
  /\ sessions' = sessions \ GrantOf(call[c].target)
  /\ call' = [call EXCEPT ![c] = IF mine = {} THEN NoCall ELSE [@ EXCEPT !.at = "drop", !.todo = mine]]
  /\ UNCHANGED <<projects, terminals, issued, granted>> /\ HostStep

\* terminal_close: unregister_terminal_process, in every window.
TerminalClosed(c) ==
  /\ Answered(c, {"close"})
  /\ terminals' = {g \in terminals : g.terminal # call[c].target}
  /\ Ended(c)
  /\ UNCHANGED <<projects, sessions, issued, granted>> /\ HostStep

\* revoke_window, when a window other than the main one is destroyed; its
\* three locks are one step here.
WindowDestroyed(w) ==
  /\ w \in open \ {Main}
  /\ open' = open \ {w}
  /\ projects' = projects \ ProjectGrants(w)
  /\ terminals' = terminals \ TerminalGrants(w)
  /\ sessions' = sessions \ SessionGrants(w)
  /\ UNCHANGED <<gatewayVars, attempts, call, client, broken, issued, granted>>

-----------------------------------------------------------------------------
Command(c, w) ==
  \/ GlobalCommand(c, w) \/ StopAllCommand(c, w) \/ LayoutCommand(c, w)
  \/ FileCommand(c, w) \/ SearchCommand(c, w) \/ GitCommand(c, w)
  \/ FakeSessionStartCommand(c, w) \/ FakeTuiStartCommand(c, w) \/ SessionListCommand(c, w)
  \/ TerminalOpenCommand(c, w) \/ TerminalListCommand(c, w)
  \/ SessionReadCommand(c, w) \/ SessionAnswerCommand(c, w) \/ SessionStopCommand(c, w)
  \/ FakeTuiAttachCommand(c, w) \/ FakeSessionAttachCommand(c, w) \/ FakeSessionResumeCommand(c, w)
  \/ TerminalCommand(c, w) \/ TerminalCloseCommand(c, w) \/ TerminalAttachCommand(c, w)
  \/ \E r \in Roots : OpenProjectFolder(c, w, r)
  \/ \E p \in saved : OpenRecentProject(c, w, p)

Answer(c) ==
  \/ Receive(c) \/ GrantProject(c) \/ RevokeTerminals(c) \/ RevokeSessions(c)
  \/ StartGranted(c) \/ ListGranted(c) \/ TerminalGranted(c) \/ TerminalsListed(c)
  \/ TuiTerminalGranted(c) \/ TuiSessionGranted(c) \/ DropTerminal(c)
  \/ SessionStopped(c) \/ TerminalClosed(c)

Next ==
  \/ \E c \in Jobs : \/ \E w \in Windows : Command(c, w)
                     \/ InvalidateClient(c) \/ RegistrationTimesOut(c) \/ Discard(c)
                     \/ Answer(c)
  \/ \E w \in Windows : OpenNewWindow(w) \/ WindowDestroyed(w)
  \/ ConnectionBreaks \/ DaemonRestarts
  \/ GatewayNext /\ UNCHANGED hostVars

Spec == Init /\ [][Next]_vars

-----------------------------------------------------------------------------
\* A request that reaches the daemon for a session or a terminal comes from a
\* window that was granted its project: the daemon takes most of them by
\* their id alone and relies on the host (lib.rs:375-513, server.rs:759-800).
RequestsScoped ==
  \A c \in Jobs : call[c].at = "sent" /\ call[c].target \in Ids =>
    /\ live[call[c].target].project \in granted[call[c].window] \cup {NoProject}
    /\ call[c].target \in Sessions => rows[call[c].target].project \in granted[call[c].window] \cup {NoProject}

\* The scoping of requests and runs together: no request reaches work of a
\* project its window was not granted, every run is attended and in its own
\* project, and a project has one identity.
WorkScoped == RequestsScoped /\ RunsAttended /\ RunsInProject /\ OneIdentity

\* A connection that works is never thrown away because an older one failed
\* (lib.rs:265-273).
LiveClientKept == [][client' = 0 => client \in broken \cup {0}]_vars

\* The grants of a window depend on its project grant: "replaced" and revoked
\* ones are refused (test at lib.rs:3064).
GrantsBacked ==
  \A g \in terminals \cup sessions :
    \/ \E p \in projects : p.id = g.pg /\ p.window = g.window
    \/ \E c \in Jobs : call[c].at \in {"revoke", "revoke_sessions"} /\ g.pg \in call[c].todo
=============================================================================
