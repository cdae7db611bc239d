--------------------------- MODULE DaemonStartup ---------------------------
(***************************************************************************)
(* Launching a daemon: desktop windows that find no daemon each start one  *)
(* (daemon_launcher.rs); a daemon prepares its directories, opens the      *)
(* encrypted storage, loads or creates the token and claims the socket, in *)
(* that order (DaemonServer::bind).  Processes crash between any two       *)
(* steps; the socket file, the token, the key, the database and its        *)
(* write-ahead log are what the next daemon finds.                         *)
(*                                                                         *)
(* A key and a token are named by the daemon that generated them.  SQLite  *)
(* and the OS keyring are external: a transaction is atomic, the log is    *)
(* non-empty from the first write until the last connection closes.        *)
(***************************************************************************)
EXTENDS Naturals, FiniteSets

CONSTANTS
  Daemons,      \* one per window: the process its launcher spawns
  Passphrases,  \* what a user may type
  MaxCrashes,   \* bound on crashes
  None          \* nothing there

Current == 3    \* CURRENT_SCHEMA_VERSION

VARIABLES
  keyring,   \* [works, entry]: the OS credential store
  envelope,  \* the wrapped key: None, or [key, pass]
  token,     \* the token file: None, "empty" or a token
  socket,    \* the socket path: None, "stale", "foreign" or the listener
  db,        \* the database: None, or [key, version, run, owner]
  wal,       \* the database has a non-empty write-ahead log
  pc,        \* where each daemon stands
  storage,   \* StorageState of each daemon
  key,       \* the key each daemon holds
  mine,      \* the token each daemon holds
  window,    \* each launcher
  crashes

disk == <<keyring, envelope, token, socket, db, wal>>
vars == <<disk, pc, storage, key, mine, window, crashes>>

\* Where a daemon stands after Database::open: the same code serves startup
\* and unlock.
Opening == {"snapshot", "probe", "migrate", "recover"}
Starting == {"key", "set_key", "token", "write_token", "bind", "connect", "remove", "rebind"}
Envelopes == [key : Daemons, pass : Passphrases]
Databases == [key : Daemons, version : 0..(Current + 1), run : {"none", "running", "interrupted"},
              owner : Daemons \cup {None}]
TypeOK ==
  /\ keyring \in [works : BOOLEAN, entry : Daemons \cup {None}]
  /\ envelope \in Envelopes \cup {None}
  /\ token \in Daemons \cup {None, "empty"}
  /\ socket \in Daemons \cup {None, "stale", "foreign"}
  /\ db \in Databases \cup {None}
  /\ wal \in BOOLEAN
  /\ pc \in [Daemons -> Opening \cup Starting \cup {"off", "serving", "publish", "failed"}]
  /\ storage \in [Daemons -> {None, "ready", "create", "unlock", "unavailable"}]
  /\ key \in [Daemons -> Daemons \cup {None}]
  /\ mine \in [Daemons -> Daemons \cup {None}]
  /\ window \in [Daemons -> {"idle", "waiting", "connected", "rejected", "timed_out"}]
  /\ crashes \in 0..MaxCrashes

\* First launch, or a directory that an earlier daemon has left behind: a
\* stale socket, something else at its path, a database of a newer Maestro.
Init ==
  /\ \/ /\ keyring \in [works : BOOLEAN, entry : {None}]
        /\ db = None
     \/ \E d \in Daemons, v \in {1, Current + 1} :
          /\ keyring = [works |-> TRUE, entry |-> d]
          /\ db = [key |-> d, version |-> v, run |-> "none", owner |-> None]
  /\ envelope = None /\ token = None /\ wal = FALSE
  /\ socket \in {None, "stale", "foreign"}
  /\ pc = [d \in Daemons |-> "off"]
  /\ storage = [d \in Daemons |-> None]
  /\ key = [d \in Daemons |-> None]
  /\ mine = [d \in Daemons |-> None]
  /\ window = [d \in Daemons |-> "idle"]
  /\ crashes = 0

Goto(d, place) == pc' = [pc EXCEPT ![d] = place]
Holds(d, state) == storage' = [storage EXCEPT ![d] = state]

\* A daemon whose socket file is the one at the path, and can be reached.
Listening(d) == socket = d /\ pc[d] \in {"serving", "publish"} \cup Opening
Connected(d) == storage[d] = "ready" \/ pc[d] = "recover"

-----------------------------------------------------------------------------
(* The launcher of a window. *)

\* connect_client: a missing token or listener is an I/O error.
Reachable == token \in Daemons /\ \E d \in Daemons : Listening(d)
Answer == IF \E d \in Daemons : Listening(d) /\ mine[d] = token THEN "connected" ELSE "rejected"

Launch(d) ==
  /\ window[d] = "idle" /\ pc[d] = "off"
  /\ IF Reachable
       THEN window' = [window EXCEPT ![d] = Answer] /\ UNCHANGED pc
       ELSE window' = [window EXCEPT ![d] = "waiting"] /\ Goto(d, "key")
  /\ UNCHANGED <<disk, storage, key, mine, crashes>>

Retry(d) ==
  /\ window[d] = "waiting" /\ Reachable
  /\ window' = [window EXCEPT ![d] = Answer]
  /\ UNCHANGED <<disk, pc, storage, key, mine, crashes>>

StartupDeadline(d) ==
  /\ window[d] = "waiting" /\ ~Reachable
  /\ window' = [window EXCEPT ![d] = "timed_out"]
  /\ UNCHANGED <<disk, pc, storage, key, mine, crashes>>

-----------------------------------------------------------------------------
(* Storage: the key, then the database. *)

\* initialize_persistent, up to the keyring's answer.
ReadKey(d) ==
  /\ pc[d] = "key"
  /\ CASE envelope # None -> Holds(d, "unlock") /\ Goto(d, "token") /\ UNCHANGED key
       [] envelope = None /\ ~keyring.works ->
            /\ Holds(d, IF db = None THEN "create" ELSE "unavailable")
            /\ Goto(d, "token") /\ UNCHANGED key
       [] envelope = None /\ keyring.works /\ keyring.entry = None ->
            Goto(d, "set_key") /\ UNCHANGED <<storage, key>>
       [] OTHER ->
            /\ key' = [key EXCEPT ![d] = keyring.entry]
            /\ Goto(d, "snapshot") /\ UNCHANGED storage
  /\ UNCHANGED <<disk, mine, window, crashes>>

\* The keyring has no compare-and-set: the new key replaces what is there.
SetKey(d) ==
  /\ pc[d] = "set_key"
  /\ keyring' = [keyring EXCEPT !.entry = d]
  /\ key' = [key EXCEPT ![d] = d]
  /\ Goto(d, "snapshot")
  /\ UNCHANGED <<envelope, token, socket, db, wal, storage, mine, window, crashes>>

\* What a failed open leaves: startup goes on without storage, an unlock
\* can be tried again.
OpenFails(d) ==
  /\ Holds(d, IF storage[d] = None THEN "unavailable" ELSE "unlock")
  /\ Goto(d, IF storage[d] = None THEN "token" ELSE "serving")
  /\ UNCHANGED <<disk, key, mine, window, crashes>>

\* open_persistent_database backs up an existing database first.
TakeSnapshot(d) ==
  /\ pc[d] = "snapshot"
  /\ IF db = None \/ db.key = key[d]
       THEN Goto(d, "probe") /\ UNCHANGED <<disk, storage, key, mine, window, crashes>>
       ELSE OpenFails(d)

\* probe_schema_compatibility.
Probe(d) ==
  /\ pc[d] = "probe"
  /\ IF db = None \/ (~wal /\ db.key = key[d] /\ db.version <= Current)
       THEN Goto(d, "migrate") /\ UNCHANGED <<disk, storage, key, mine, window, crashes>>
       ELSE OpenFails(d)

\* Connection::open creates the file; migrate applies what is missing.
Migrate(d) ==
  /\ pc[d] = "migrate"
  /\ \/ /\ db = None
        /\ db' = [key |-> key[d], version |-> Current, run |-> "none", owner |-> None]
        /\ wal' = TRUE
        /\ Goto(d, "recover")
        /\ UNCHANGED <<keyring, envelope, token, socket, storage, key, mine, window, crashes>>
     \/ /\ db # None /\ db.key = key[d] /\ db.version <= Current
        /\ db' = [db EXCEPT !.version = Current]
        /\ wal' = (wal \/ db.version < Current)
        /\ Goto(d, "recover")
        /\ UNCHANGED <<keyring, envelope, token, socket, storage, key, mine, window, crashes>>
     \/ /\ db # None /\ (db.key # key[d] \/ db.version > Current)
        /\ OpenFails(d)

\* ready_database: work that is under way cannot have survived.
Recover(d) ==
  /\ pc[d] = "recover"
  /\ db' = [db EXCEPT !.run = IF @ = "running" THEN "interrupted" ELSE @]
  /\ wal' = (wal \/ db.run = "running")
  /\ Goto(d, IF storage[d] = None THEN "token" ELSE "serving")
  /\ Holds(d, "ready")
  /\ UNCHANGED <<keyring, envelope, token, socket, key, mine, window, crashes>>

\* StorageUnlock: the envelope is opened, or a new key is wrapped.
Unlock(d, pass) ==
  /\ pc[d] = "serving" /\ storage[d] \in {"create", "unlock"}
  /\ CASE envelope = None -> Goto(d, "publish") /\ UNCHANGED key
       [] envelope # None /\ envelope.pass = pass ->
            key' = [key EXCEPT ![d] = envelope.key] /\ Goto(d, "snapshot")
       [] OTHER -> UNCHANGED <<pc, key>>
  /\ UNCHANGED <<disk, storage, mine, window, crashes>>

\* A slip: the loser of the race keeps the key it generated.
PublishOwnKey(d, pass) ==
  /\ pc[d] = "publish"
  /\ envelope' = IF envelope = None THEN [key |-> d, pass |-> pass] ELSE envelope
  /\ key' = [key EXCEPT ![d] = d]
  /\ Goto(d, "snapshot")
  /\ UNCHANGED <<keyring, token, socket, db, wal, storage, mine, window, crashes>>

\* publish_atomically links the new envelope under its name, which fails if
\* the name exists: the loser of the race opens what the winner published.
Publish(d, pass) ==
  /\ pc[d] = "publish"
  /\ IF envelope = None
       THEN /\ envelope' = [key |-> d, pass |-> pass]
            /\ key' = [key EXCEPT ![d] = d]
            /\ Goto(d, "snapshot")
       ELSE /\ UNCHANGED envelope
            /\ IF envelope.pass = pass
                 THEN key' = [key EXCEPT ![d] = envelope.key] /\ Goto(d, "snapshot")
                 ELSE Goto(d, "serving") /\ UNCHANGED key
  /\ UNCHANGED <<keyring, token, socket, db, wal, storage, mine, window, crashes>>

-----------------------------------------------------------------------------
(* The token and the socket. *)

\* load_or_create_token: create_new first, the contents in a second step.
LoadToken(d) ==
  /\ pc[d] = "token"
  /\ CASE token = None -> token' = "empty" /\ Goto(d, "write_token") /\ UNCHANGED mine
       [] token = "empty" -> Goto(d, "failed") /\ UNCHANGED <<token, mine>>
       [] OTHER -> mine' = [mine EXCEPT ![d] = token] /\ Goto(d, "bind") /\ UNCHANGED token
  /\ UNCHANGED <<keyring, envelope, socket, db, wal, storage, key, window, crashes>>

WriteToken(d) ==
  /\ pc[d] = "write_token"
  /\ token' = d
  /\ mine' = [mine EXCEPT ![d] = d]
  /\ Goto(d, "bind")
  /\ UNCHANGED <<keyring, envelope, socket, db, wal, storage, key, window, crashes>>

\* The four steps of bind_single_instance.
Bind(d) ==
  /\ pc[d] \in {"bind", "rebind"}
  /\ IF socket = None
       THEN socket' = d /\ Goto(d, "serving")
       ELSE UNCHANGED socket /\ Goto(d, IF pc[d] = "bind" THEN "connect" ELSE "failed")
  /\ UNCHANGED <<keyring, envelope, token, db, wal, storage, key, mine, window, crashes>>

ConnectSelf(d) ==
  /\ pc[d] = "connect"
  /\ Goto(d, IF socket = "foreign" \/ \E e \in Daemons : Listening(e) THEN "failed" ELSE "remove")
  /\ UNCHANGED <<disk, storage, key, mine, window, crashes>>

RemoveStale(d) ==
  /\ pc[d] = "remove"
  /\ IF socket = None THEN Goto(d, "failed") /\ UNCHANGED socket
                      ELSE Goto(d, "rebind") /\ socket' = None
  /\ UNCHANGED <<keyring, envelope, token, db, wal, storage, key, mine, window, crashes>>

-----------------------------------------------------------------------------
(* Running and ending. *)

StartRun(d) ==
  /\ pc[d] = "serving" /\ storage[d] = "ready" /\ db.run # "running"
  /\ db' = [db EXCEPT !.run = "running", !.owner = d]
  /\ wal' = TRUE
  /\ UNCHANGED <<keyring, envelope, token, socket, pc, storage, key, mine, window, crashes>>

\* The last connection to close empties the log.
Gone(d) ==
  /\ Goto(d, "off")
  /\ storage' = [storage EXCEPT ![d] = None]
  /\ key' = [key EXCEPT ![d] = None]
  /\ mine' = [mine EXCEPT ![d] = None]

Closed(d) == wal' = (wal /\ \E e \in Daemons \ {d} : Connected(e))

\* remove_owned_socket removes whatever is at the path.
Stop(d) ==
  /\ pc[d] = "serving"
  /\ socket' = None
  /\ Gone(d) /\ Closed(d)
  /\ window' = [w \in Daemons |-> IF socket = d /\ window[w] = "connected" THEN "idle" ELSE window[w]]
  /\ UNCHANGED <<keyring, envelope, token, db, crashes>>

BindFailed(d) ==
  /\ pc[d] = "failed"
  /\ Gone(d)
  /\ wal' = IF Connected(d) THEN wal /\ \E e \in Daemons \ {d} : Connected(e) ELSE wal
  /\ UNCHANGED <<keyring, envelope, token, socket, db, window, crashes>>

Crash(d) ==
  /\ pc[d] # "off" /\ crashes < MaxCrashes
  /\ crashes' = crashes + 1
  /\ socket' = IF socket = d THEN "stale" ELSE socket
  /\ Gone(d)
  /\ window' = [w \in Daemons |-> IF socket = d /\ window[w] = "connected" THEN "idle" ELSE window[w]]
  /\ UNCHANGED <<keyring, envelope, token, db, wal>>

\* The user tries again.
Reopen(d) ==
  /\ window[d] \in {"timed_out", "rejected"} /\ pc[d] = "off"
  /\ window' = [window EXCEPT ![d] = "idle"]
  /\ UNCHANGED <<disk, pc, storage, key, mine, crashes>>

Next ==
  \E d \in Daemons :
    \/ Launch(d) \/ Retry(d) \/ StartupDeadline(d) \/ Reopen(d)
    \/ ReadKey(d) \/ SetKey(d) \/ TakeSnapshot(d) \/ Probe(d) \/ Migrate(d) \/ Recover(d)
    \/ \E pass \in Passphrases : Unlock(d, pass) \/ Publish(d, pass)
    \/ LoadToken(d) \/ WriteToken(d) \/ Bind(d) \/ ConnectSelf(d) \/ RemoveStale(d)
    \/ StartRun(d) \/ Stop(d) \/ BindFailed(d) \/ Crash(d)

Spec == Init /\ [][Next]_vars

-----------------------------------------------------------------------------
\* Whatever the races between daemons and users, a database opened through
\* the envelope is encrypted with the key in it, and every daemon that works
\* on the database holds its key: the loser of the race for the envelope
\* never keeps the key it generated (key.rs:184-196, 415-452).
EnvelopeOpens ==
  /\ (envelope # None /\ db # None) => db.key = envelope.key
  /\ \A d \in Daemons : Connected(d) => db # None /\ db.key = key[d]

\* No window that reaches a daemon is turned away for its token: a token
\* that has been published is never replaced, and two daemons that start
\* together end up with the same one (paths.rs:117-147).
TokenAccepted == \A d \in Daemons : window[d] # "rejected"

\* Both of the above, of variables that keep their types.
StartupSafe == TypeOK /\ EnvelopeOpens /\ TokenAccepted

\* What makes it inductive: where a daemon stands and what it holds there.
Bound(d) == pc[d] \in {"serving", "publish"} \/ (pc[d] \in Opening /\ storage[d] # None)
Places ==
  \A d \in Daemons :
    /\ pc[d] \in {"off", "key", "set_key"} => storage[d] = None
    /\ pc[d] = "publish" => storage[d] \in {"create", "unlock"}
    /\ pc[d] \in Opening => storage[d] \in {None, "create", "unlock"} /\ key[d] \in Daemons
    /\ socket = d => Bound(d)
    /\ Connected(d) => db.version = Current

\* A keyring that works is the only source of keys, one that does not is none.
Custody ==
  IF keyring.works
  THEN envelope = None /\ \A d \in Daemons : storage[d] \notin {"create", "unlock"}
  ELSE /\ db # None => envelope # None
       /\ \A d \in Daemons : /\ pc[d] # "set_key"
                             /\ pc[d] \in Opening => envelope # None /\ key[d] = envelope.key

\* One daemon writes the token, and those that have one have that one.
OneToken ==
  \A d \in Daemons :
    /\ pc[d] = "write_token" =>
         token = "empty" /\ \A e \in Daemons : pc[e] = "write_token" => e = d
    /\ pc[d] \in {"bind", "connect", "remove", "rebind"} \/ Bound(d) =>
         token \in Daemons /\ mine[d] = token

IInv == StartupSafe /\ Places /\ Custody /\ OneToken

\* A database that exists keeps its key and is never taken down to an older
\* schema; one of a newer Maestro is not touched (database.rs:538-608, 647).
DatabaseStep ==
  db # None => /\ db' # None /\ db'.key = db.key /\ db'.version >= db.version
               /\ (db.version > Current => db' = db)

\* docs/TEST_PLAN_M0.md:223 (LIFE-001): "Single-instance race starts one
\* daemon; loser connects to it or exits safely" (server.rs:410-434).
OneDaemon == Cardinality({d \in Daemons : pc[d] \in {"serving", "publish"}}) <= 1

\* key.rs:21-24: "Cross-process initialization must still be routed through
\* Maestro's per-user daemon singleton".  The key of the database is always
\* one that the next start can load (server.rs:203, key.rs:108-126).
KeyRecoverable ==
  db # None => \/ envelope # None /\ envelope.key = db.key
               \/ envelope = None /\ keyring.entry = db.key

\* docs/MILESTONE_0.md:110: "Crash-safe state recording so unfinished process
\* runs are marked interrupted".  A daemon that holds the right key for a
\* database of a supported version can use it (database.rs:647-657).
RightKeyOpens ==
  \A d \in Daemons :
    (pc[d] = "serving" /\ storage[d] = "unavailable" /\ db # None)
      => (key[d] # db.key \/ db.version > Current)

\* Work is marked interrupted only when the daemon that owns it is gone
\* (server.rs:203-212, storage_runtime.rs:575-581).
InterruptedIsDead ==
  (db # None /\ db.run = "interrupted") => pc[db.owner] # "serving"
=============================================================================
