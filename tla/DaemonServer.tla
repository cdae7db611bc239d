---------------------------- MODULE DaemonServer ----------------------------
(***************************************************************************)
(* The daemon's accept loop (server.rs), its connection tasks and the      *)
(* activity counters that let it stop by itself.                           *)
(*                                                                         *)
(* One loop selects between the shutdown channel, a wake-up, the idle      *)
(* deadline, ended connection tasks and new clients.  Connection tasks     *)
(* spawn request tasks; a request may start work (a process, a terminal, a *)
(* monitored session) that outlives its client.  The deadline may pass     *)
(* whenever it is armed: time is not modelled.                             *)
(***************************************************************************)
EXTENDS Naturals, FiniteSets

CONSTANTS
  Clients,
  Requests,         \* requests the clients may send, each at most once
  SenderOf,         \* [Requests -> Clients]
  KindOf,           \* [Requests -> Kinds]
  ConnectionLimit,  \* maximum_connections
  RequestLimit      \* MAX_IN_FLIGHT_REQUESTS_PER_CONNECTION

Kinds == {"plain", "shell", "structured", "tui", "stop_all"}

ASSUME DaemonAssumption ==
  /\ IsFiniteSet(Clients) /\ IsFiniteSet(Requests)
  /\ SenderOf \in [Requests -> Clients] /\ KindOf \in [Requests -> Kinds]

HasTerminal(r) == KindOf[r] \in {"shell", "tui"}
HasMonitor(r) == KindOf[r] \in {"structured", "tui"}

VARIABLES
  loop,     \* where run stands
  idle,     \* idle_since is set
  permit,   \* activity_changed holds a notify_one nobody has consumed
  woken,    \* what the loop's own Notified future has received
  flag,     \* shutting_down
  watch,    \* values sent to the shutdown channel
  seen,     \* the watch version each receiver has marked as seen
  conn,     \* connection task of each client
  req,      \* request task of each request
  work,     \* the process a request has started
  clients, sessions, processes,   \* what is_idle reads
  silent    \* an activity change has reached no select of the loop since it
            \* last looked at the counters

vars == <<loop, idle, permit, woken, flag, watch, seen, conn, req, work,
          clients, sessions, processes, silent>>

counters == <<clients, sessions, processes>>
notify == <<permit, woken, silent>>
channel == <<flag, watch, seen>>

LoopReceiver == "run"
Guarded == {"hello", "check", "select", "draining", "left"}
Stopped == {"stopped", "failed"}

TypeOK ==
  /\ loop \in {"bound", "select", "handling", "maintenance", "terminals",
               "joining", "aborting"} \cup Stopped
  /\ idle \in BOOLEAN /\ permit \in BOOLEAN /\ silent \in BOOLEAN
  /\ woken \in {"no", "one", "all"}
  /\ flag \in BOOLEAN /\ watch \in 0..2
  /\ seen \in [Clients \cup {LoopReceiver} -> 0..2]
  /\ conn \in [Clients -> Guarded \cup {"off", "backlog", "turned_away", "ended", "reaped"}]
  /\ req \in [Requests -> {"off", "running", "detached", "ready", "answered",
                           "refused", "aborted", "over"}]
  /\ work \in [Requests -> {"none", "spawned", "monitored", "exited", "orphan", "over"}]
  /\ clients \in 0..Cardinality(Clients)
  /\ sessions \in 0..Cardinality(Requests)
  /\ processes \in 0..Cardinality(Requests)

Init ==
  /\ loop = "bound" /\ idle = TRUE
  /\ permit = FALSE /\ woken = "no" /\ silent = FALSE
  /\ flag = FALSE /\ watch = 0
  /\ seen = [c \in Clients \cup {LoopReceiver} |-> 0]
  /\ conn = [c \in Clients |-> "off"]
  /\ req = [r \in Requests |-> "off"]
  /\ work = [r \in Requests |-> "none"]
  /\ clients = 0 /\ sessions = 0 /\ processes = 0

(***************************************************************************)
(* tokio's Notify.  notify_one wakes the waiting loop or is kept as a      *)
(* permit; notify_waiters reaches a loop that waits and nobody else.       *)
(***************************************************************************)
NotifyOne ==
  IF loop = "select" /\ woken = "no"
    THEN woken' = "one" /\ UNCHANGED permit
    ELSE permit' = TRUE /\ UNCHANGED woken

NotifyWaiters ==
  /\ woken' = IF loop = "select" /\ woken = "no" THEN "all" ELSE woken
  /\ silent' = (silent \/ loop # "select")
  /\ UNCHANGED permit

\* Another branch of the select wins and the Notified future is dropped: a
\* notify_one goes back to the Notify, a notify_waiters is gone.
Unheard ==
  /\ permit' = (permit \/ woken = "one")
  /\ silent' = (silent \/ woken = "all")
  /\ woken' = "no"

IsIdle == clients = 0 /\ sessions = 0 /\ processes = 0

-----------------------------------------------------------------------------
(* The accept loop. *)

\* run subscribes to the shutdown channel, which marks its value as seen.
Run ==
  /\ loop = "bound"
  /\ loop' = "handling"
  /\ seen' = [seen EXCEPT ![LoopReceiver] = watch]
  /\ UNCHANGED <<idle, notify, flag, watch, conn, req, work, counters>>

Resume ==
  /\ loop = "handling"
  /\ loop' = "select"
  /\ woken' = IF permit THEN "one" ELSE "no"
  /\ permit' = FALSE
  /\ UNCHANGED <<idle, silent, channel, conn, req, work, counters>>

\* A slip: the deadline is taken away and never set again.
WakeDisarms ==
  /\ loop = "select" /\ woken # "no"
  /\ loop' = "handling"
  /\ idle' = (idle /\ IsIdle)
  /\ woken' = "no" /\ silent' = FALSE
  /\ UNCHANGED <<permit, channel, conn, req, work, counters>>

Wake ==
  /\ loop = "select" /\ woken # "no"
  /\ loop' = "handling"
  /\ idle' = IsIdle
  /\ woken' = "no" /\ silent' = FALSE
  /\ UNCHANGED <<permit, channel, conn, req, work, counters>>

\* The end of the loop's first half: what follows the break.
Break ==
  /\ loop' = "maintenance"
  /\ flag' = TRUE
  /\ watch' = watch + 1
  /\ Unheard

\* A slip: a shutdown waits until nothing is under way.
SeeShutdownIdle ==
  /\ loop = "select" /\ watch > seen[LoopReceiver] /\ IsIdle
  /\ Break
  /\ UNCHANGED <<idle, seen, conn, req, work, counters>>

SeeShutdown ==
  /\ loop = "select" /\ watch > seen[LoopReceiver]
  /\ Break
  /\ UNCHANGED <<idle, seen, conn, req, work, counters>>

DeadlinePasses ==
  /\ loop = "select" /\ idle
  /\ IF IsIdle
       THEN Break /\ UNCHANGED idle
       ELSE idle' = FALSE /\ loop' = "handling" /\ Unheard /\ UNCHANGED <<flag, watch>>
  /\ UNCHANGED <<seen, conn, req, work, counters>>

Permits == Cardinality({c \in Clients : conn[c] \in Guarded \ {"left"}})

\* The connection is counted and announced before its task is spawned; past
\* the limit it is turned away by a task that is never counted.
Accept(c) ==
  /\ loop = "select" /\ conn[c] = "backlog"
  /\ loop' = "handling"
  /\ IF Permits < ConnectionLimit
       THEN /\ conn' = [conn EXCEPT ![c] = "hello"]
            /\ clients' = clients + 1
            /\ permit' = TRUE /\ woken' = "no"
            /\ silent' = (silent \/ woken = "all")
       ELSE /\ conn' = [conn EXCEPT ![c] = "turned_away"]
            /\ Unheard /\ UNCHANGED clients
  /\ UNCHANGED <<idle, channel, req, work, sessions, processes>>

AcceptFails ==
  /\ loop = "select" /\ \E c \in Clients : conn[c] = "backlog"
  /\ loop' = "failed"
  /\ Unheard
  /\ UNCHANGED <<idle, channel, conn, req, work, counters>>

JoinTask(c) ==
  /\ loop \in {"select", "joining", "aborting"} /\ conn[c] \in {"ended", "turned_away"}
  /\ conn' = [conn EXCEPT ![c] = "reaped"]
  /\ IF loop = "select" THEN loop' = "handling" /\ Unheard ELSE UNCHANGED <<loop, notify>>
  /\ UNCHANGED <<idle, channel, req, work, counters>>

MaintenanceEnds ==
  /\ loop = "maintenance"
  /\ loop' = "terminals"
  /\ UNCHANGED <<idle, notify, channel, conn, req, work, counters>>

\* The processes of the works in W have exited and been reaped.  Only the end
\* of a terminal wakes the loop; an orphan ends unheard.
Exits(W) ==
  /\ work' = [r \in Requests |->
                IF r \notin W THEN work[r]
                ELSE IF work[r] = "monitored" THEN "exited" ELSE "over"]
  /\ processes' = processes - Cardinality(W)
  /\ IF \E r \in W : HasTerminal(r) THEN NotifyOne ELSE UNCHANGED <<permit, woken>>
  /\ silent' = (silent \/ \E r \in W : work[r] = "orphan" /\ ~HasTerminal(r))

Live == {r \in Requests : work[r] \in {"spawned", "monitored", "orphan"}}
LiveTerminals == {r \in Live : HasTerminal(r)}

CloseAllTerminals ==
  /\ loop = "terminals"
  /\ loop' = "joining"
  /\ Exits(LiveTerminals)
  /\ UNCHANGED <<idle, channel, conn, req, clients, sessions>>

\* The JoinSet of an aborted or failed connection task is dropped with it.
Aborted(c) ==
  req' = [r \in Requests |->
            IF SenderOf[r] = c /\ req[r] \in {"running", "ready"} THEN "aborted" ELSE req[r]]

\* A handler that is dropped after it has spawned and before it has started
\* the monitor leaves a run that nobody follows.
Orphaned(c) ==
  work' = [r \in Requests |->
             IF SenderOf[r] = c /\ req[r] = "running" /\ HasMonitor(r) /\ work[r] = "spawned"
             THEN "orphan" ELSE work[r]]

GraceExpires ==
  /\ loop = "joining"
  /\ \E c \in Clients : conn[c] \in Guarded
  /\ loop' = "aborting"
  /\ UNCHANGED <<idle, notify, channel, conn, req, work, counters>>

AbortTask(c) ==
  /\ loop = "aborting" /\ conn[c] \in Guarded \ {"left"}
  /\ conn' = [conn EXCEPT ![c] = "left"]
  /\ Aborted(c) /\ Orphaned(c)
  /\ UNCHANGED <<loop, idle, notify, channel, counters>>

RemoveSocket ==
  /\ loop \in {"joining", "aborting"}
  /\ \A c \in Clients : conn[c] \in {"off", "backlog", "reaped"}
  /\ loop' = "stopped"
  /\ UNCHANGED <<idle, notify, channel, conn, req, work, counters>>

-----------------------------------------------------------------------------
(* Connection tasks. *)

Alive == loop \notin Stopped

Connect(c) ==
  /\ Alive /\ conn[c] = "off"
  /\ conn' = [conn EXCEPT ![c] = "backlog"]
  /\ UNCHANGED <<loop, idle, notify, channel, req, work, counters>>

\* The hello is accepted: the task subscribes before it looks at the flag.
Authenticate(c) ==
  /\ Alive /\ conn[c] = "hello"
  /\ conn' = [conn EXCEPT ![c] = "check"]
  /\ seen' = [seen EXCEPT ![c] = watch]
  /\ UNCHANGED <<loop, idle, notify, flag, watch, req, work, counters>>

\* A wrong first frame, token or version, a hello that times out.
HelloFails(c) ==
  /\ Alive /\ conn[c] = "hello"
  /\ conn' = [conn EXCEPT ![c] = "left"]
  /\ UNCHANGED <<loop, idle, notify, channel, req, work, counters>>

CheckFlag(c) ==
  /\ Alive /\ conn[c] = "check"
  /\ conn' = [conn EXCEPT ![c] = IF flag THEN "draining" ELSE "select"]
  /\ UNCHANGED <<loop, idle, notify, channel, req, work, counters>>

HearShutdown(c) ==
  /\ Alive /\ conn[c] = "select" /\ watch > seen[c]
  /\ conn' = [conn EXCEPT ![c] = "draining"]
  /\ UNCHANGED <<loop, idle, notify, channel, req, work, counters>>

InFlight(c) == {r \in Requests : SenderOf[r] = c /\ req[r] \in {"running", "ready"}}

ReadRequest(r) ==
  LET c == SenderOf[r] IN
  /\ Alive /\ conn[c] = "select" /\ req[r] = "off"
  /\ req' = [req EXCEPT ![r] =
               IF Cardinality(InFlight(c)) >= RequestLimit THEN "refused" ELSE "running"]
  /\ conn' = [conn EXCEPT ![c] = "check"]
  /\ UNCHANGED <<loop, idle, notify, channel, work, counters>>

WriteResponse(r) ==
  LET c == SenderOf[r] IN
  /\ Alive /\ conn[c] = "select" /\ req[r] = "ready"
  /\ req' = [req EXCEPT ![r] = "answered"]
  /\ conn' = [conn EXCEPT ![c] = "check"]
  /\ UNCHANGED <<loop, idle, notify, channel, work, counters>>

\* The client has closed, or sends a second hello: what it had asked for is
\* detached and goes on.
ReadEnds(c) ==
  /\ Alive /\ conn[c] = "select"
  /\ req' = [r \in Requests |->
               IF r \notin InFlight(c) THEN req[r]
               ELSE IF req[r] = "ready" THEN "over" ELSE "detached"]
  /\ conn' = [conn EXCEPT ![c] = "draining"]
  /\ UNCHANGED <<loop, idle, notify, channel, work, counters>>

\* A response cannot be written, or a frame cannot be read: `?` drops the
\* JoinSet, and with it every request in flight.
ConnectionFails(c) ==
  /\ Alive /\ conn[c] = "select"
  /\ conn' = [conn EXCEPT ![c] = "left"]
  /\ Aborted(c) /\ Orphaned(c)
  /\ UNCHANGED <<loop, idle, notify, channel, counters>>

Drain(c) ==
  /\ Alive /\ conn[c] = "draining"
  /\ conn' = [conn EXCEPT ![c] = "left"]
  /\ Aborted(c) /\ Orphaned(c)
  /\ UNCHANGED <<loop, idle, notify, channel, counters>>

\* Drop of ClientGuard.
ClientLeaves(c) ==
  /\ Alive /\ conn[c] = "left"
  /\ conn' = [conn EXCEPT ![c] = "ended"]
  /\ clients' = clients - 1
  /\ NotifyOne
  /\ UNCHANGED <<loop, idle, silent, channel, req, work, sessions, processes>>

-----------------------------------------------------------------------------
(* Request tasks and what they start. *)

Handling(r) == Alive /\ req[r] \in {"running", "detached"}

\* A terminal announces itself, a structured process does not.
SpawnWork(r) ==
  /\ Handling(r) /\ KindOf[r] \notin {"plain", "stop_all"} /\ work[r] = "none"
  /\ work' = [work EXCEPT ![r] = "spawned"]
  /\ processes' = processes + 1
  /\ IF HasTerminal(r) THEN NotifyOne ELSE UNCHANGED <<permit, woken>>
  /\ UNCHANGED <<loop, idle, silent, channel, conn, req, clients, sessions>>

\* A slip: the session of a process that is already gone is not counted.
StartMonitorLive(r) ==
  /\ Handling(r) /\ HasMonitor(r) /\ work[r] \in {"spawned", "over"}
  /\ work' = [work EXCEPT ![r] = IF @ = "spawned" THEN "monitored" ELSE "exited"]
  /\ sessions' = IF work[r] = "spawned" THEN sessions + 1 ELSE sessions
  /\ NotifyWaiters
  /\ req' = [req EXCEPT ![r] = IF @ = "running" THEN "ready" ELSE "over"]
  /\ UNCHANGED <<loop, idle, channel, conn, clients, processes>>

\* start_session_monitor and start_tui_session_monitor: counted even when
\* the process is already gone.
StartMonitor(r) ==
  /\ Handling(r) /\ HasMonitor(r) /\ work[r] \in {"spawned", "over"}
  /\ work' = [work EXCEPT ![r] = IF @ = "spawned" THEN "monitored" ELSE "exited"]
  /\ sessions' = sessions + 1
  /\ NotifyWaiters
  /\ req' = [req EXCEPT ![r] = IF @ = "running" THEN "ready" ELSE "over"]
  /\ UNCHANGED <<loop, idle, channel, conn, clients, processes>>

\* The handler returns, with an error when it has started nothing.
Finish(r) ==
  /\ Handling(r) /\ KindOf[r] # "stop_all"
  /\ ~HasMonitor(r) \/ work[r] = "none"
  /\ req' = [req EXCEPT ![r] = IF @ = "running" THEN "ready" ELSE "over"]
  /\ UNCHANGED <<loop, idle, notify, channel, conn, work, counters>>

\* The start cannot be persisted: the run is stopped, unheard unless it has a
\* terminal, and the request fails.
PersistFails(r) ==
  /\ Handling(r) /\ HasMonitor(r) /\ r \in Live
  /\ work' = [work EXCEPT ![r] = "over"]
  /\ processes' = processes - 1
  /\ IF HasTerminal(r)
       THEN NotifyOne /\ UNCHANGED silent
       ELSE silent' = (silent \/ req[r] = "detached") /\ UNCHANGED <<permit, woken>>
  /\ req' = [req EXCEPT ![r] = IF @ = "running" THEN "ready" ELSE "over"]
  /\ UNCHANGED <<loop, idle, channel, conn, clients, sessions>>

\* StopAllWork: every run and every terminal that is registered now.
StopAllWork(r) ==
  /\ Handling(r) /\ KindOf[r] = "stop_all"
  /\ Exits(Live)
  /\ req' = [req EXCEPT ![r] = IF @ = "running" THEN "ready" ELSE "over"]
  /\ UNCHANGED <<loop, idle, channel, conn, clients, sessions>>

ProcessExits(r) ==
  /\ Alive /\ r \in Live
  /\ Exits({r})
  /\ UNCHANGED <<loop, idle, channel, conn, req, clients, sessions>>

MonitorEnds(r) ==
  /\ Alive /\ work[r] = "exited"
  /\ work' = [work EXCEPT ![r] = "over"]
  /\ sessions' = sessions - 1
  /\ NotifyWaiters
  /\ UNCHANGED <<loop, idle, channel, conn, req, clients, processes>>

\* ShutdownHandle: the flag first, the channel only by the first caller.
RequestShutdown ==
  /\ Alive /\ ~flag
  /\ flag' = TRUE
  /\ UNCHANGED <<loop, idle, notify, watch, seen, conn, req, work, counters>>

SendShutdown ==
  /\ Alive /\ flag /\ watch = 0 /\ loop \in {"bound", "select", "handling"}
  /\ watch' = 1
  /\ UNCHANGED <<loop, idle, notify, flag, seen, conn, req, work, counters>>

LoopStep ==
  \/ Run \/ Resume \/ Wake \/ SeeShutdown \/ DeadlinePasses \/ MaintenanceEnds
  \/ CloseAllTerminals \/ GraceExpires \/ RemoveSocket
  \/ \E c \in Clients : Accept(c) \/ JoinTask(c) \/ AbortTask(c)

ConnectionStep(c) ==
  \/ Authenticate(c) \/ CheckFlag(c) \/ HearShutdown(c) \/ Drain(c) \/ ClientLeaves(c)
  \/ \E r \in Requests : SenderOf[r] = c /\ WriteResponse(r)

RequestStep(r) == SpawnWork(r) \/ StartMonitor(r) \/ Finish(r) \/ PersistFails(r) \/ StopAllWork(r)

Next ==
  \/ LoopStep \/ AcceptFails
  \/ \E c \in Clients : \/ ConnectionStep(c) \/ Connect(c) \/ HelloFails(c)
                        \/ ReadEnds(c) \/ ConnectionFails(c)
  \/ \E r \in Requests : ReadRequest(r) \/ RequestStep(r) \/ ProcessExits(r) \/ MonitorEnds(r)
  \/ RequestShutdown \/ SendShutdown

Spec == Init /\ [][Next]_vars

\* tokio runs every task that can run, a select polls its branches in random
\* order, HELLO_TIMEOUT ends a silent hello, and a monitor ends after its
\* process.  Clients need not talk and processes need not end.
FairSpec ==
  /\ Spec
  /\ WF_vars(LoopStep)
  /\ \A c \in Clients : WF_vars(ConnectionStep(c)) /\ WF_vars(HelloFails(c))
  /\ \A r \in Requests : WF_vars(RequestStep(r)) /\ WF_vars(MonitorEnds(r))
  /\ WF_vars(SendShutdown)

-----------------------------------------------------------------------------
\* What is_idle reads agrees with what exists: a connection is counted from
\* accept to the drop of its guard, a process from spawn to reap, a session
\* as long as its monitor runs.  Otherwise the daemon stops under its clients
\* or never (server.rs:295-300, 1422, 1526, 2380-2387).  Every variable keeps
\* its type.
CountersAgree ==
  /\ TypeOK
  /\ clients = Cardinality({c \in Clients : conn[c] \in Guarded})
  /\ sessions = Cardinality({r \in Requests : work[r] \in {"monitored", "exited"}})
  /\ processes = Cardinality(Live)

\* A shutdown the loop was subscribed for always ends the daemon, whatever
\* its connections and requests are doing: no connection task sleeps through
\* it, and one that is stuck is aborted (server.rs:317-345, 452-459).  One
\* sent before run subscribes is not seen by the loop (server.rs:242-256,
\* main.rs:14-20): its flag turns every client away, and the daemon stops at
\* the idle deadline.
ShutdownStops == (watch > seen[LoopReceiver] /\ loop # "bound") ~> (loop \in Stopped)

Quiet ==
  /\ IsIdle
  /\ \A c \in Clients : conn[c] \in {"off", "reaped"}
  /\ \A r \in Requests : req[r] \in {"off", "answered", "refused", "aborted", "over"}

\* A daemon with nothing left to do stops, unless an activity change has
\* reached no select of the loop: a notify_waiters that fell between two
\* selects or into one that another branch won, or the end of a run whose
\* handler was dropped (server.rs:262-290, 1438, 1544).
IdleStops == []<>(~Quiet \/ silent \/ loop \in Stopped)
=============================================================================
