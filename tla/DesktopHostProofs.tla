------------------------- MODULE DesktopHostProofs -------------------------
(***************************************************************************)
(* Proofs about the desktop host and the daemon's request handlers         *)
(* (DesktopHost, SessionGateway), for any number of windows, commands,     *)
(* sessions, terminals and roots: what reaches the daemon is of a project  *)
(* its window was granted, every run is attended, and a connection that    *)
(* works is never given up for one that failed.  At the end, the output of *)
(* a terminal as a window polls it (DesktopViews).                         *)
(*                                                                         *)
(* The scoping is not inductive: a request is sound because of the grant   *)
(* it was made under, a grant because of the answer that brought it, and   *)
(* an answer because of the job it is the answer of.  IInv follows a       *)
(* project from the grant through the command, the job and the row back to *)
(* the next grant, and says that a stale grant, whose project grant has    *)
(* gone, still names a project of its window.                              *)
(***************************************************************************)
EXTENDS DesktopViews, FiniteSetTheorems, SequenceTheorems, WellFoundedInduction, TLAPS

-----------------------------------------------------------------------------
(* The inductive invariant.                                                *)

Row == [id : Nat, roots : Roots]
Target == Ids \cup {"none", "folder"}
Thing == Ids \cup Nat \cup Row
Kinds ==
  {"none", "register", "recent", "project", "stored", "start", "tui_start", "resume", "tui_attach",
   "attach", "list", "session", "stop", "close", "stop_all", "open", "terminals", "shell_attach",
   "terminal"}
JobRecord ==
  [at : {"idle", "queued", "persist", "attend", "close", "ok", "no"}, kind : Kinds, project : Nat,
   roots : Roots \cup {"none"}, target : Target, found : SUBSET Thing]
CallRecord ==
  [at : {"idle", "sent", "lost", "answered", "revoke", "revoke_sessions", "insert", "drop"},
   kind : Kinds, window : Windows, pg : Nat, project : Nat, roots : Roots \cup {"none"},
   target : Target, conn : Nat, todo : SUBSET Thing]
LiveKinds == {"none", "structured", "tui", "shell"}
Lives == {"none", "running", "ended", "gone"}
LiveRecord == [kind : LiveKinds, project : Nat, life : Lives, run : Nat]
RowRecord == [kind : LiveKinds, project : Nat]

\* Every variable has its type.
GatewayTyped ==
  /\ saved \subseteq Row /\ \A p \in saved : p.id # NoProject
  /\ registered \subseteq Nat \ {NoProject}
  /\ live \in [Ids -> LiveRecord]
  /\ rows \in [Sessions -> RowRecord]
  /\ job \in [Jobs -> JobRecord]
HostTyped ==
  /\ projects \subseteq [id : Nat, project : Nat, roots : Roots, window : Windows]
  /\ terminals \subseteq [id : Nat, pg : Nat, terminal : Ids, discovery : BOOLEAN, window : Windows]
  /\ sessions \subseteq [session : Sessions, pg : Nat, terminal : Nat, window : Windows]
  /\ attempts \in [Roots -> Nat]
  /\ call \in [Jobs -> CallRecord]
  /\ client \in Nat /\ issued \in Nat
  /\ IsFiniteSet(broken)
  /\ DOMAIN granted = Windows

\* Session or terminal i exists and was begun in project p.
Belongs(i, p) == i \in Ids /\ p # NoProject /\ live[i].project = p

\* A row is of a session that was begun, in its project.
RowsSound == \A s \in Sessions : rows[s] # NoRow => Belongs(s, rows[s].project)

Gives == {"start", "tui_start", "tui_attach", "open", "shell_attach"}
Lists == {"list", "terminals"}
Scoped == Gives \cup Lists
OfSessions == {"start", "tui_start", "tui_attach"}

\* What a request names, and what its answer gives, is of its project.
JobSound(b) ==
  /\ b.kind = "register" /\ b.at # "idle" => b.project # NoProject /\ b.roots \in Roots
  /\ b.at \in {"persist", "attend"} => /\ b.kind \in {"start", "tui_start", "resume"}
                                     /\ b.target \in Sessions /\ Belongs(b.target, b.project)
  /\ b.at = "queued" /\ b.kind = "resume" => b.target \in Sessions /\ Belongs(b.target, b.project)
  /\ b.at = "queued" /\ b.kind = "tui_attach" => b.target \in Sessions
  /\ b.at = "queued" /\ b.kind = "shell_attach" => b.target \in Ids
  /\ b.at = "close" => b.kind = "stop"
  /\ b.at = "ok" /\ b.kind \in Gives => Belongs(b.target, b.project)
  /\ b.at = "ok" /\ b.kind \in OfSessions => b.target \in Sessions
  /\ b.at = "ok" /\ b.kind \in Lists => \A i \in b.found : Belongs(i, b.project)
  /\ b.at = "ok" /\ b.kind = "list" => b.found \subseteq Sessions
  /\ b.at = "ok" /\ b.kind = "recent" => b.found \subseteq Row /\ \A p \in b.found : p.id # NoProject
JobsSound == \A j \in Jobs : JobSound(job[j])

\* Window w was granted the project of i.
Reaches(w, i) == live[i].project # NoProject /\ live[i].project \in granted[w]

\* The grant pg, if it is still there, is of project p.
OfGrant(pg, p) == pg <= issued /\ \A g \in projects : g.id = pg => g.project = p
Covered(k) == k.project \in granted[k.window] /\ OfGrant(k.pg, k.project)

\* A command is authorised for what it names.
Authorised(k) ==
  /\ k.target \in Ids => Reaches(k.window, k.target)
  /\ k.kind \in Scoped => Covered(k)
  /\ k.kind = "register" => k.project # NoProject /\ k.roots \in Roots

\* A request and the command that waits for it.
Matches(k, b) ==
  /\ b.at # "idle" /\ b.kind = k.kind
  /\ k.kind # "register" => b.project = k.project

\* What an answer brings is of a project its window was granted.
Brings(k) ==
  /\ k.kind = "register" => k.todo # {} /\ k.todo \subseteq Nat \ {NoProject} /\ k.roots \in Roots
  /\ k.kind \in Scoped => Covered(k)
  /\ k.kind \in Gives => Belongs(k.target, k.project)
  /\ k.kind \in OfSessions => k.target \in Sessions
  /\ k.kind \in Lists => \A i \in k.todo : Belongs(i, k.project)
  /\ k.kind = "list" => k.todo \subseteq Sessions

CallSound(k, b) ==
  /\ k.at = "sent" => Authorised(k) /\ Matches(k, b)
  /\ k.at = "answered" => Brings(k)
  /\ k.at = "insert" => /\ Brings(k) /\ k.kind \in OfSessions
                        /\ k.todo # {} /\ k.todo \subseteq Nat
CallsSound == \A c \in Jobs : CallSound(call[c], job[c])

\* The connection a command waits on is the one in use, and works; one whose
\* connection failed knows that it did.
ClientSound ==
  \A c \in Jobs :
    /\ call[c].at = "sent" => call[c].conn = client /\ client \notin broken \cup {0}
    /\ call[c].at = "lost" => call[c].conn \in broken

\* A grant is of a project its window was granted, also when the project
\* grant it was given under has gone.
GrantsSound ==
  /\ \A g \in projects : g.id <= issued /\ g.project # NoProject /\ g.project \in granted[g.window]
  /\ \A g, h \in projects : g.id = h.id => g.project = h.project
  /\ \A g \in terminals : Reaches(g.window, g.terminal) /\ OfGrant(g.pg, live[g.terminal].project)
  /\ \A g \in sessions : Reaches(g.window, g.session) /\ OfGrant(g.pg, live[g.session].project)

Typed == GatewayTyped /\ HostTyped
Memory == RowsSound /\ RunsAttended /\ OneIdentity
IInv == Typed /\ Memory /\ JobsSound /\ CallsSound /\ ClientSound /\ GrantsSound

-----------------------------------------------------------------------------
(* What a step of the gateway does to the rest.                            *)

\* What was begun keeps its project.
LiveKept ==
  \A i \in Ids : live[i].project # NoProject => live'[i].project = live[i].project

\* A request keeps what it was asked until its answer is taken.
JobsKept ==
  \A c \in Jobs : job[c].at # "idle" =>
    /\ job'[c].at # "idle" /\ job'[c].kind = job[c].kind
    /\ job[c].kind # "register" => job'[c].project = job[c].project

\* What a request asks.
SameRequest(q, b) ==
  q.kind = b.kind /\ q.project = b.project /\ q.roots = b.roots /\ q.target = b.target

\* Another state of a request is one.
LEMMA JobAt ==
  ASSUME NEW b \in JobRecord, NEW a \in {"idle", "queued", "persist", "attend", "close", "ok", "no"}
  PROVE  \E q \in JobRecord : q = [b EXCEPT !.at = a] /\ q.at = a /\ SameRequest(q, b)
<1> DEFINE q == [b EXCEPT !.at = a]
<1>1. q \in JobRecord /\ q.at = a /\ SameRequest(q, b)
  BY DEF JobRecord, SameRequest
<1> QED
  BY <1>1

\* What the host knows stays right when what was begun keeps its project.
LEMMA HostKept ==
  ASSUME IInv, UNCHANGED hostVars, LiveKept, JobsKept
  PROVE  HostTyped' /\ CallsSound' /\ ClientSound' /\ GrantsSound'
<1> USE DEF hostVars
<1>1. HostTyped' /\ ClientSound'
  BY DEF IInv, Typed, HostTyped, ClientSound, Row
<1>2. ASSUME NEW c \in Jobs
      PROVE  CallSound(call[c], job[c])'
  <2>1. CallSound(call[c], job[c]) /\ call'[c] = call[c]
    BY <1>2 DEF IInv, CallsSound
  <2>2. call[c].at = "sent" => (Authorised(call[c]) /\ Matches(call[c], job[c]))'
    BY <1>2, <2>1 DEF CallSound, Authorised, Matches, Reaches, Covered, OfGrant, LiveKept, JobsKept
  <2>3. Brings(call[c]) => Brings(call[c])'
    BY <1>2 DEF Brings, Covered, OfGrant, Belongs, LiveKept
  <2> QED
    BY <2>1, <2>2, <2>3 DEF CallSound
<1>3. GrantsSound'
  <2>1. \A i \in Ids : live[i].project # NoProject => live'[i].project = live[i].project
    BY DEF LiveKept
  <2>2. ASSUME NEW g \in terminals
        PROVE  (Reaches(g.window, g.terminal) /\ OfGrant(g.pg, live[g.terminal].project))'
    <3>1. g.terminal \in Ids
      BY <2>2 DEF IInv, Typed, HostTyped
    <3> QED
      BY <2>1, <2>2, <3>1 DEF IInv, GrantsSound, Reaches, OfGrant
  <2>3. ASSUME NEW g \in sessions
        PROVE  (Reaches(g.window, g.session) /\ OfGrant(g.pg, live[g.session].project))'
    <3>1. g.session \in Ids
      BY <2>3 DEF IInv, Typed, HostTyped, Ids
    <3> QED
      BY <2>1, <2>3, <3>1 DEF IInv, GrantsSound, Reaches, OfGrant
  <2> QED
    BY <2>2, <2>3 DEF IInv, GrantsSound
<1> QED
  BY <1>1, <1>2, <1>3 DEF CallsSound

\* A request that is not being handled stays sound when what was begun keeps
\* its project.
LEMMA JobStays ==
  ASSUME LiveKept, NEW b, JobSound(b)
  PROVE  JobSound(b)'
<1>1. \A i, p : Belongs(i, p) => Belongs(i, p)'
  BY DEF Belongs, LiveKept
<1> QED
  BY <1>1 DEF JobSound

\* One request moves on.
LEMMA OneJob ==
  ASSUME IInv, UNCHANGED hostVars, LiveKept,
         NEW j \in Jobs, NEW q \in JobRecord, job' = [job EXCEPT ![j] = q], JobSound(q)',
         q.at # "idle", q.kind = job[j].kind, q.kind # "register" => q.project = job[j].project
  PROVE  /\ job' \in [Jobs -> JobRecord] /\ JobsSound'
         /\ HostTyped' /\ CallsSound' /\ ClientSound' /\ GrantsSound'
<1>1. job \in [Jobs -> JobRecord]
  BY DEF IInv, Typed, GatewayTyped
<1>2. job' \in [Jobs -> JobRecord] /\ job'[j] = q /\ \A i \in Jobs : i # j => job'[i] = job[i]
  BY <1>1
<1>3. JobsKept
  BY <1>2 DEF JobsKept
<1>4. ASSUME NEW i \in Jobs
      PROVE  JobSound(job[i])'
  <2>1. CASE i = j
    BY <1>2, <2>1 DEF JobSound, Belongs
  <2>2. CASE i # j
    <3>1. JobSound(job[i]) /\ job'[i] = job[i]
      BY <1>2, <1>4, <2>2 DEF IInv, JobsSound
    <3> QED
      BY <3>1, JobStays DEF JobSound, Belongs
  <2> QED
    BY <2>1, <2>2
<1> QED
  BY <1>2, <1>3, <1>4, HostKept DEF JobsSound

\* A handler that only looks answers its request.
LEMMA Looks ==
  ASSUME IInv, UNCHANGED hostVars, Reads,
         NEW j \in Jobs, job[j].at = "queued", NEW q \in JobRecord, job' = [job EXCEPT ![j] = q],
         q.at \in {"ok", "no"}, SameRequest(q, job[j]), JobSound(q)
  PROVE  IInv'
<1>1. LiveKept
  BY DEF Reads, LiveKept
<1>2. JobSound(q)'
  BY <1>1, JobStays
<1>3. /\ job' \in [Jobs -> JobRecord] /\ JobsSound'
      /\ HostTyped' /\ CallsSound' /\ ClientSound' /\ GrantsSound'
  BY <1>1, <1>2, OneJob DEF SameRequest
<1>4. GatewayTyped'
  BY <1>3 DEF IInv, Typed, GatewayTyped, Reads
<1>5. job \in [Jobs -> JobRecord]
  BY DEF IInv, Typed, GatewayTyped
<1>6. RunsAttended'
  BY <1>5 DEF IInv, Memory, RunsAttended, Starting, Running, Reads
<1>7. RowsSound' /\ OneIdentity'
  BY DEF IInv, Memory, RowsSound, OneIdentity, Belongs, Reads
<1> QED
  BY <1>3, <1>4, <1>6, <1>7 DEF IInv, Typed, Memory

-----------------------------------------------------------------------------
(* The handlers that only look.                                            *)

\* A handler that looks and answers yes or no.
LEMMA LooksOkIf ==
  ASSUME IInv, UNCHANGED hostVars, Reads, NEW j \in Jobs, job[j].at = "queued",
         NEW condition \in BOOLEAN, OkIf(j, condition),
         condition => \A q \in JobRecord : q.at = "ok" /\ SameRequest(q, job[j]) => JobSound(q)
  PROVE  IInv'
<1>1. job[j] \in JobRecord /\ JobSound(job[j])
  BY DEF IInv, Typed, GatewayTyped, JobsSound
<1>2. CASE condition
  <2>1. PICK q \in JobRecord : q = [job[j] EXCEPT !.at = "ok"] /\ q.at = "ok" /\ SameRequest(q, job[j])
    BY <1>1, JobAt
  <2>2. job' = [job EXCEPT ![j] = q]
    BY <1>2, <2>1 DEF OkIf, Ok, At
  <2> QED
    BY <1>2, <2>1, <2>2, Looks
<1>3. CASE ~condition
  <2>1. PICK q \in JobRecord : q = [job[j] EXCEPT !.at = "no"] /\ q.at = "no" /\ SameRequest(q, job[j])
    BY <1>1, JobAt
  <2>2. job' = [job EXCEPT ![j] = q]
    BY <1>3, <2>1 DEF OkIf, Refused, At
  <2>3. JobSound(q)
    BY <1>1, <2>1 DEF JobSound, SameRequest
  <2> QED
    BY <2>1, <2>2, <2>3, Looks
<1> QED
  BY <1>2, <1>3

\* One that looks and answers with things.
LEMMA LooksWith ==
  ASSUME IInv, UNCHANGED hostVars, Reads, NEW j \in Jobs, job[j].at = "queued",
         NEW things \in SUBSET Thing, OkWith(j, things),
         \A q \in JobRecord : q.at = "ok" /\ q.found = things /\ SameRequest(q, job[j]) => JobSound(q)
  PROVE  IInv'
<1>1. job[j] \in JobRecord
  BY DEF IInv, Typed, GatewayTyped
<1>2. PICK q \in JobRecord :
        /\ q = [job[j] EXCEPT !.at = "ok", !.found = things] /\ q.at = "ok" /\ q.found = things
        /\ SameRequest(q, job[j])
  <2> DEFINE q == [job[j] EXCEPT !.at = "ok", !.found = things]
  <2>1. q \in JobRecord /\ q.at = "ok" /\ q.found = things /\ SameRequest(q, job[j])
    BY <1>1 DEF JobRecord, SameRequest
  <2> QED
    BY <2>1
<1>3. job' = [job EXCEPT ![j] = q]
  BY <1>2 DEF OkWith
<1> QED
  BY <1>2, <1>3, Looks

\* Refusing is answering no.
LEMMA LooksRefused ==
  ASSUME IInv, UNCHANGED hostVars, Reads, NEW j \in Jobs, job[j].at = "queued", Refused(j)
  PROVE  IInv'
<1>1. OkIf(j, FALSE)
  BY DEF OkIf
<1> QED
  BY <1>1, LooksOkIf

\* Requests whose answers carry nothing.
LEMMA PlainInv ==
  ASSUME IInv, UNCHANGED hostVars, Reads, NEW j \in Jobs, job[j].at = "queued",
         job[j].kind \in {"project", "stored", "attach", "session", "stop", "terminal"},
         NEW condition \in BOOLEAN, OkIf(j, condition)
  PROVE  IInv'
<1>1. ASSUME NEW q \in JobRecord, q.at = "ok", SameRequest(q, job[j])
      PROVE  JobSound(q)
  BY <1>1 DEF JobSound, SameRequest, Gives, Lists, OfSessions
<1> QED
  BY <1>1, LooksOkIf

\* Requests about a project, stored values, sessions and terminals.
LEMMA PlainRequestsInv ==
  ASSUME IInv, UNCHANGED hostVars, NEW j \in Jobs,
         ProjectRequest(j) \/ StoredRequest(j) \/ StructuredAttach(j) \/ SessionRequest(j)
           \/ TerminalRequest(j)
  PROVE  IInv'
<1>1. /\ Reads /\ job[j].at = "queued"
      /\ job[j].kind \in {"project", "stored", "attach", "session", "stop", "terminal"}
  BY DEF ProjectRequest, StoredRequest, StructuredAttach, SessionRequest, TerminalRequest, Asked
<1>2. PICK condition \in BOOLEAN : OkIf(j, condition)
  <2>1. CASE ProjectRequest(j)
    <3> DEFINE good == Known(j)
    <3>1. OkIf(j, good) /\ good \in BOOLEAN
      BY <2>1 DEF ProjectRequest, Known
    <3> HIDE DEF good
    <3> QED
      BY <3>1
  <2>2. CASE StoredRequest(j)
    <3>1. OkIf(j, TRUE)
      BY <2>2 DEF StoredRequest, OkIf
    <3> QED
      BY <3>1
  <2>3. CASE StructuredAttach(j)
    <3> DEFINE s == job[j].target
               good == Known(j) /\ Owns(j, s, "structured") /\ Supervised(s) /\ Running(s)
    <3>1. OkIf(j, good) /\ good \in BOOLEAN
      BY <2>3 DEF StructuredAttach
    <3> HIDE DEF good
    <3> QED
      BY <3>1
  <2>4. CASE SessionRequest(j)
    <3> DEFINE s == job[j].target
               good == Supervised(s) \/ rows[s] # NoRow
    <3>1. OkIf(j, good)
      BY <2>4 DEF SessionRequest
    <3>2. good \in BOOLEAN
      BY DEF Supervised
    <3> HIDE DEF good
    <3> QED
      BY <3>1, <3>2
  <2>5. CASE TerminalRequest(j)
    <3> DEFINE good == InTable(job[j].target)
    <3>1. OkIf(j, good) /\ good \in BOOLEAN
      BY <2>5 DEF TerminalRequest, InTable
    <3> HIDE DEF good
    <3> QED
      BY <3>1
  <2> QED
    BY <2>1, <2>2, <2>3, <2>4, <2>5
<1> QED
  BY <1>1, <1>2, PlainInv

\* The recent projects: rows, each with an id.
LEMMA RecentListInv ==
  ASSUME IInv, UNCHANGED hostVars, NEW j \in Jobs, RecentList(j)
  PROVE  IInv'
<1>1. saved \subseteq Row /\ \A p \in saved : p.id # NoProject
  BY DEF IInv, Typed, GatewayTyped
<1>2. saved \in SUBSET Thing
  BY <1>1 DEF Thing
<1>3. ASSUME NEW q \in JobRecord, q.at = "ok", q.found = saved, SameRequest(q, job[j])
      PROVE  JobSound(q)
  BY <1>1, <1>3 DEF JobSound, SameRequest, Gives, Lists, OfSessions, RecentList, Asked
<1> QED
  BY <1>2, <1>3, LooksWith DEF RecentList, Asked

\* A project in the table has an id.
LEMMA KnownProject ==
  ASSUME IInv, NEW j \in Jobs, Known(j)
  PROVE  job[j].project # NoProject
  BY DEF Known, IInv, Typed, GatewayTyped

\* Attaching to a TUI session: its row is of the project that is asked for.
LEMMA TerminalAttachInv ==
  ASSUME IInv, UNCHANGED hostVars, NEW j \in Jobs, TerminalAttach(j)
  PROVE  IInv'
<1> DEFINE s == job[j].target
           good == Known(j) /\ Owns(j, s, "tui") /\ s \in tui /\ AttachOk(j, s, "tui")
<1>1. OkIf(j, good) /\ good \in BOOLEAN /\ Reads /\ job[j].at = "queued" /\ job[j].kind = "tui_attach"
  BY DEF TerminalAttach, Asked
<1>2. s \in Sessions
  BY <1>1 DEF IInv, JobsSound, JobSound
<1>3. good => Belongs(s, job[j].project)
  BY <1>2, KnownProject DEF Belongs, AttachOk, Ids
<1> HIDE DEF good, s
<1>4. ASSUME good, NEW q \in JobRecord, q.at = "ok", SameRequest(q, job[j])
      PROVE  JobSound(q)
  BY <1>1, <1>2, <1>3, <1>4 DEF s, JobSound, SameRequest, Gives, Lists, OfSessions
<1> QED
  BY <1>1, <1>4, LooksOkIf

\* Attaching to a shell: it was begun in the project that is asked for.
LEMMA ShellAttachInv ==
  ASSUME IInv, UNCHANGED hostVars, NEW j \in Jobs, ShellAttach(j)
  PROVE  IInv'
<1> DEFINE s == job[j].target
           good == Known(j) /\ AttachOk(j, s, "shell")
<1>1. OkIf(j, good) /\ good \in BOOLEAN /\ Reads /\ job[j].at = "queued" /\ job[j].kind = "shell_attach"
  BY DEF ShellAttach, Asked
<1>2. s \in Ids
  BY <1>1 DEF IInv, JobsSound, JobSound
<1>3. good => Belongs(s, job[j].project)
  BY <1>2, KnownProject DEF Belongs, AttachOk
<1> HIDE DEF good, s
<1>4. ASSUME good, NEW q \in JobRecord, q.at = "ok", SameRequest(q, job[j])
      PROVE  JobSound(q)
  BY <1>1, <1>2, <1>3, <1>4 DEF s, JobSound, SameRequest, Gives, Lists, OfSessions
<1> QED
  BY <1>1, <1>4, LooksOkIf

\* The sessions of a project are those with a row of it; the shells those that
\* were begun in it.
LEMMA ListsInv ==
  ASSUME IInv, UNCHANGED hostVars, NEW j \in Jobs, SessionList(j) \/ TerminalList(j)
  PROVE  IInv'
<1>1. Reads /\ job[j].at = "queued" /\ job[j].kind \in Lists
  BY DEF SessionList, TerminalList, Asked, Lists
<1>2. ASSUME ~Known(j)
      PROVE  IInv'
  <2>1. Refused(j)
    BY <1>2 DEF SessionList, TerminalList
  <2> QED
    BY <1>1, <2>1, LooksRefused
<1>3. ASSUME NEW things \in SUBSET Ids, OkWith(j, things), \A i \in things : Belongs(i, job[j].project),
             job[j].kind = "list" => things \subseteq Sessions
      PROVE  IInv'
  <2>1. things \in SUBSET Thing
    BY DEF Thing
  <2>2. ASSUME NEW q \in JobRecord, q.at = "ok", q.found = things, SameRequest(q, job[j])
        PROVE  JobSound(q)
    BY <1>1, <1>3, <2>2 DEF JobSound, SameRequest, Gives, Lists, OfSessions
  <2> QED
    BY <1>1, <1>3, <2>1, <2>2, LooksWith
<1>4. CASE SessionList(j) /\ Known(j)
  <2> DEFINE things == {s \in Sessions : rows[s].project = job[j].project}
  <2>1. \A i \in things : Belongs(i, job[j].project)
    BY <1>4, KnownProject DEF IInv, Memory, RowsSound, NoRow
  <2>2. things \in SUBSET Ids /\ OkWith(j, things) /\ things \subseteq Sessions
    BY <1>4 DEF SessionList, Ids
  <2> HIDE DEF things
  <2> QED
    BY <1>3, <2>1, <2>2
<1>5. CASE TerminalList(j) /\ Known(j)
  <2> DEFINE things == {t \in Shells : AttachOk(j, t, "shell")}
  <2>1. \A i \in things : Belongs(i, job[j].project)
    BY <1>5, KnownProject DEF AttachOk, Belongs, Ids
  <2>2. things \in SUBSET Ids /\ OkWith(j, things) /\ job[j].kind # "list"
    BY <1>5 DEF TerminalList, Asked, Ids
  <2> HIDE DEF things
  <2> QED
    BY <1>3, <2>1, <2>2
<1> QED
  BY <1>2, <1>4, <1>5

-----------------------------------------------------------------------------
(* The handlers that change what is in memory or in the database.          *)

\* A session or terminal that ends, or goes, stays what it was.
LEMMA LifeChanges ==
  ASSUME IInv, NEW i, NEW life \in Lives, Became(i, life)
  PROVE  /\ live' \in [Ids -> LiveRecord] /\ LiveKept
         /\ \A k \in Ids : live'[k].run = live[k].run
         /\ \A k \in Ids : k # i => live'[k] = live[k]
         /\ i \in Ids => live'[i].life = life
<1>1. live \in [Ids -> LiveRecord]
  BY DEF IInv, Typed, GatewayTyped
<1> QED
  BY <1>1 DEF Became, LiveRecord, LiveKept

\* The rows stay sound while the sessions keep their projects.
LEMMA RowsStay ==
  ASSUME IInv, LiveKept, rows' = rows
  PROVE  RowsSound'
  BY DEF IInv, Memory, RowsSound, Belongs, LiveKept, Ids

\* Every run is attended after a step of one request: runs that go on were
\* attended before, a new one is in the care of that request, and the request
\* gives up a run only to a monitor or when it has ended.
LEMMA StillAttended ==
  ASSUME RunsAttended, watched \subseteq watched', orphaned \subseteq orphaned',
         job \in [Jobs -> JobRecord], NEW j \in Jobs, NEW b \in JobRecord, b = job[j],
         NEW q \in JobRecord, job' = [job EXCEPT ![j] = q],
         \A s \in Sessions : Running(s)' =>
           (Running(s) /\ live'[s].run = live[s].run) \/ (Starting(j)' /\ q.target = s),
         Starting(j) =>
           \/ Starting(j)' /\ q.target = b.target
           \/ ~Running(b.target)'
           \/ <<b.target, live'[b.target].run>> \in watched'
  PROVE  RunsAttended'
<1>1. job'[j] = q /\ \A i \in Jobs : i # j => job'[i] = job[i]
  OBVIOUS
<1>2. SUFFICES ASSUME NEW s \in Sessions, Running(s)', Running(s), live'[s].run = live[s].run
               PROVE  \/ <<s, live'[s].run>> \in watched' \cup orphaned'
                      \/ \E i \in Jobs : Starting(i)' /\ job'[i].target = s
  BY <1>1 DEF RunsAttended
<1>3. CASE <<s, live[s].run>> \in watched \cup orphaned
  BY <1>2, <1>3
<1>4. ASSUME NEW i \in Jobs, Starting(i), job[i].target = s
      PROVE  \/ <<s, live'[s].run>> \in watched' \cup orphaned'
             \/ \E k \in Jobs : Starting(k)' /\ job'[k].target = s
  BY <1>1, <1>2, <1>4 DEF Starting
<1> QED
  BY <1>2, <1>3, <1>4 DEF RunsAttended

\* Registering: the id is that of the row with the same roots, or the one that
\* was asked for.
LEMMA RegisterInv ==
  ASSUME IInv, UNCHANGED hostVars, NEW j \in Jobs, Register(j)
  PROVE  IInv'
<1>1. PICK b \in JobRecord : b = job[j] /\ JobSound(b)
  BY DEF IInv, Typed, GatewayTyped, JobsSound
<1>2. /\ job \in [Jobs -> JobRecord] /\ b.at = "queued" /\ b.kind = "register"
      /\ b.project # NoProject /\ b.roots \in Roots
      /\ UNCHANGED <<live, rows, tui, watched, orphaned>>
  BY <1>1 DEF Register, Asked, IInv, Typed, GatewayTyped, JobSound
<1>3. LiveKept /\ RowsSound' /\ ~Starting(j)
  BY <1>1, <1>2, RowsStay DEF LiveKept, Starting
<1>4. PICK id \in Nat : id = Resolved(b.project, b.roots) /\ id # NoProject
                        /\ \A p \in saved : p.roots = b.roots => p.id = id
  <2>1. CASE \E p \in saved : p.roots = b.roots
    <3> DEFINE p == CHOOSE p \in saved : p.roots = b.roots
    <3>1. p \in saved /\ p.roots = b.roots /\ Resolved(b.project, b.roots) = p.id
      BY <2>1 DEF Resolved
    <3> HIDE DEF p
    <3> QED
      BY <3>1 DEF IInv, Typed, GatewayTyped, Row, Memory, OneIdentity
  <2>2. CASE ~\E p \in saved : p.roots = b.roots
    BY <1>2, <2>2 DEF Resolved, JobRecord
  <2> QED
    BY <2>1, <2>2
<1>5. ASSUME NEW q \in JobRecord, job' = [job EXCEPT ![j] = q], q.at \in {"ok", "no"},
             q.kind = "register", q.project # NoProject, q.roots = b.roots,
             GatewayTyped' \/ job' \notin [Jobs -> JobRecord], OneIdentity'
      PROVE  IInv'
  <2>1. JobSound(q)'
    BY <1>2, <1>5 DEF JobSound, Gives, Lists, OfSessions
  <2>2. /\ job' \in [Jobs -> JobRecord] /\ JobsSound'
        /\ HostTyped' /\ CallsSound' /\ ClientSound' /\ GrantsSound'
    BY <1>1, <1>2, <1>3, <1>5, <2>1, OneJob
  <2>3. RunsAttended'
    BY <1>1, <1>2, <1>3, <1>5, StillAttended DEF IInv, Memory, Running
  <2> QED
    BY <1>3, <1>5, <2>2, <2>3 DEF IInv, Typed, Memory
<1>6. ASSUME saved' = saved \cup {[id |-> id, roots |-> b.roots]}, registered' = registered \cup {id},
             job' = [job EXCEPT ![j].at = "ok", ![j].project = id]
      PROVE  IInv'
  <2>1. PICK q \in JobRecord :
          /\ q = [b EXCEPT !.at = "ok", !.project = id]
          /\ q.at = "ok" /\ q.project = id
          /\ q.kind = b.kind /\ q.roots = b.roots
    <3> DEFINE q == [b EXCEPT !.at = "ok", !.project = id]
    <3>1. /\ q \in JobRecord /\ q.at = "ok" /\ q.project = id
          /\ q.kind = b.kind /\ q.roots = b.roots
      BY DEF JobRecord
    <3> QED
      BY <3>1
  <2>2. job' = [job EXCEPT ![j] = q]
    BY <1>1, <1>2, <1>6, <2>1
  <2>3. job' \in [Jobs -> JobRecord]
    BY <1>2, <2>1, <2>2
  <2>4. saved' \subseteq Row /\ \A p \in saved' : p.id # NoProject
    BY <1>2, <1>4, <1>6 DEF IInv, Typed, GatewayTyped, Row
  <2>5. GatewayTyped'
    BY <1>2, <1>4, <1>6, <2>3, <2>4 DEF IInv, Typed, GatewayTyped
  <2>6. OneIdentity'
    BY <1>4, <1>6 DEF IInv, Memory, OneIdentity
  <2> QED
    BY <1>2, <1>4, <1>5, <2>1, <2>2, <2>5, <2>6
<1>7. ASSUME Refused(j), UNCHANGED <<saved, registered>>
      PROVE  IInv'
  <2>1. PICK q \in JobRecord : q = [b EXCEPT !.at = "no"] /\ q.at = "no" /\ SameRequest(q, b)
    BY JobAt
  <2>2. job' = [job EXCEPT ![j] = q]
    BY <1>1, <1>7, <2>1 DEF Refused, At
  <2>3. job' \in [Jobs -> JobRecord]
    BY <1>2, <2>1, <2>2
  <2>4. GatewayTyped' /\ OneIdentity'
    BY <1>2, <1>7, <2>3 DEF IInv, Typed, GatewayTyped, Memory, OneIdentity
  <2> QED
    BY <1>2, <1>5, <2>1, <2>2, <2>4 DEF SameRequest
<1> QED
  BY <1>1, <1>4, <1>6, <1>7 DEF Register

\* A handler that moves its request on while it changes what is in memory and
\* the rows: what is left to show of its step.
LEMMA MemoryStep ==
  ASSUME IInv, UNCHANGED hostVars, UNCHANGED <<saved, registered>>, LiveKept,
         live' \in [Ids -> LiveRecord], rows' \in [Sessions -> RowRecord],
         RowsSound', watched \subseteq watched', orphaned \subseteq orphaned',
         NEW j \in Jobs, NEW b \in JobRecord, b = job[j],
         NEW q \in JobRecord, job' = [job EXCEPT ![j] = q], JobSound(q)',
         q.at # "idle", q.kind = b.kind, q.project = b.project,
         \A s \in Sessions : Running(s)' =>
           (Running(s) /\ live'[s].run = live[s].run) \/ (Starting(j)' /\ q.target = s),
         Starting(j) =>
           \/ Starting(j)' /\ q.target = b.target
           \/ ~Running(b.target)'
           \/ <<b.target, live'[b.target].run>> \in watched'
  PROVE  IInv'
<1>1. /\ job' \in [Jobs -> JobRecord] /\ JobsSound'
      /\ HostTyped' /\ CallsSound' /\ ClientSound' /\ GrantsSound'
  BY OneJob
<1>2. GatewayTyped' /\ OneIdentity'
  BY <1>1 DEF IInv, Typed, GatewayTyped, Memory, OneIdentity
<1>3. RunsAttended'
  <2>1. job \in [Jobs -> JobRecord] /\ RunsAttended
    BY DEF IInv, Typed, GatewayTyped, Memory
  <2> QED
    BY <2>1, StillAttended
<1> QED
  BY <1>1, <1>2, <1>3 DEF IInv, Typed, Memory

\* What is begun is new and belongs to the project of the request.
LEMMA Begins ==
  ASSUME IInv, NEW p \in Nat, p # NoProject, NEW i \in Ids, Fresh(i), NEW kind \in LiveKinds,
         Begun(i, kind, p)
  PROVE  /\ live' \in [Ids -> LiveRecord] /\ LiveKept /\ Belongs(i, p)'
         /\ \A k \in Ids : k # i => live'[k] = live[k]
<1> DEFINE e == [kind |-> kind, project |-> p, life |-> "running", run |-> 1]
<1>1. live \in [Ids -> LiveRecord] /\ live[i].project = NoProject
  BY DEF IInv, Typed, GatewayTyped, Fresh, Absent
<1>2. e \in LiveRecord /\ e.project = p
  BY DEF LiveRecord, Lives
<1>3. live' = [live EXCEPT ![i] = e]
  BY DEF Begun
<1> HIDE DEF e
<1>4. /\ live' \in [Ids -> LiveRecord] /\ live'[i] = e
      /\ \A k \in Ids : k # i => live'[k] = live[k]
  BY <1>1, <1>2, <1>3
<1> QED
  BY <1>1, <1>2, <1>4 DEF LiveKept, Belongs

\* A launch, or its refusal.
LEMMA LaunchInv ==
  ASSUME IInv, UNCHANGED hostVars, NEW j \in Jobs, NEW s \in Sessions, NEW kind \in LiveKinds,
         job[j].at = "queued", job[j].kind \in {"start", "tui_start"}, Launch(j, s, kind)
  PROVE  IInv'
<1>1. PICK b \in JobRecord : b = job[j]
  BY DEF IInv, Typed, GatewayTyped
<1>2. /\ s \in Ids /\ s \in Target /\ rows \in [Sessions -> RowRecord] /\ job \in [Jobs -> JobRecord]
      /\ b.at = "queued" /\ b.kind \in {"start", "tui_start"} /\ b.project \in Nat
  BY <1>1 DEF IInv, Typed, GatewayTyped, Ids, Target, JobRecord
<1>3. ASSUME ~Known(j), Refused(j), UNCHANGED live
      PROVE  IInv'
  <2>1. Reads
    BY <1>3 DEF Launch, Records, Reads
  <2> QED
    BY <1>3, <2>1, LooksRefused
<1>4. ASSUME Known(j), Fresh(s), Begun(s, kind, b.project),
             job' = [job EXCEPT ![j].at = "persist", ![j].target = s]
      PROVE  IInv'
  <2>1. PICK q \in JobRecord :
          /\ q = [b EXCEPT !.at = "persist", !.target = s]
          /\ q.at = "persist" /\ q.target = s
          /\ q.kind = b.kind /\ q.project = b.project
    <3> DEFINE q == [b EXCEPT !.at = "persist", !.target = s]
    <3>1. /\ q \in JobRecord /\ q.at = "persist" /\ q.target = s
          /\ q.kind = b.kind /\ q.project = b.project
      BY <1>2 DEF JobRecord
    <3> QED
      BY <3>1
  <2>2. job' = [job EXCEPT ![j] = q] /\ UNCHANGED <<saved, registered, rows, watched, orphaned>>
    BY <1>1, <1>2, <1>4, <2>1 DEF Launch, Records
  <2>3. b.project # NoProject
    BY <1>1, <1>4, KnownProject
  <2>4. /\ live' \in [Ids -> LiveRecord] /\ LiveKept /\ Belongs(s, b.project)'
        /\ \A k \in Ids : k # s => live'[k] = live[k]
    BY <1>2, <1>4, <2>3, Begins
  <2>5. JobSound(q)'
    BY <1>2, <2>1, <2>4 DEF JobSound, Belongs, Gives, Lists, OfSessions
  <2>6. RowsSound'
    BY <2>2, <2>4, RowsStay
  <2>7. Starting(j)' /\ ~Starting(j)
    BY <1>1, <1>2, <2>1, <2>2 DEF Starting
  <2>8. \A u \in Sessions : Running(u)' =>
           (Running(u) /\ live'[u].run = live[u].run) \/ (Starting(j)' /\ q.target = u)
    BY <2>1, <2>4, <2>7 DEF Running, Ids
  <2>9. q.at # "idle" /\ q.kind = b.kind /\ q.project = b.project
    BY <2>1
  <2>10. live' \in [Ids -> LiveRecord] /\ LiveKept
    BY <2>4
  <2>11. rows' \in [Sessions -> RowRecord] /\ watched \subseteq watched' /\ orphaned \subseteq orphaned'
    BY <1>2, <2>2
  <2> QED
    BY <1>1, <2>2, <2>5, <2>6, <2>7, <2>8, <2>9, <2>10, <2>11, MemoryStep
<1> QED
  BY <1>1, <1>3, <1>4 DEF Launch

\* A resume runs in the project it names, which is the session's own.
LEMMA ResumeInv ==
  ASSUME IInv, UNCHANGED hostVars, NEW j \in Jobs, FakeSessionResume(j)
  PROVE  IInv'
<1>1. PICK b \in JobRecord : b = job[j] /\ JobSound(b)
  BY DEF IInv, Typed, GatewayTyped, JobsSound
<1>2. PICK s \in Sessions : s = b.target /\ Belongs(s, b.project)
  BY <1>1 DEF FakeSessionResume, Asked, JobSound
<1>3. /\ b.at = "queued" /\ b.kind = "resume" /\ s \in Ids /\ job \in [Jobs -> JobRecord]
      /\ rows \in [Sessions -> RowRecord] /\ live \in [Ids -> LiveRecord]
      /\ UNCHANGED <<saved, registered, rows, watched, orphaned, tui, moves>>
  BY <1>1 DEF FakeSessionResume, Asked, Records, IInv, Typed, GatewayTyped, Ids
<1>4. ASSUME Refused(j), UNCHANGED live
      PROVE  IInv'
  BY <1>1, <1>3, <1>4, LooksRefused DEF Reads
<1>5. ASSUME At(j, "persist"),
             live' = [live EXCEPT ![s] = [live[s] EXCEPT !.life = "running", !.project = b.project,
                                                         !.run = live[s].run + 1]]
      PROVE  IInv'
  <2>1. PICK q \in JobRecord : q = [b EXCEPT !.at = "persist"] /\ q.at = "persist" /\ SameRequest(q, b)
    BY JobAt
  <2>2. job' = [job EXCEPT ![j] = q]
    BY <1>1, <1>5, <2>1 DEF At
  <2>3. live[s] \in LiveRecord /\ live[s].run + 1 \in Nat /\ b.project \in Nat
    BY <1>3 DEF LiveRecord, JobRecord
  <2>4. PICK e \in LiveRecord :
          /\ e = [live[s] EXCEPT !.life = "running", !.project = b.project, !.run = live[s].run + 1]
          /\ e.project = b.project
    <3> DEFINE e == [live[s] EXCEPT !.life = "running", !.project = b.project, !.run = live[s].run + 1]
    <3>1. e \in LiveRecord /\ e.project = b.project
      BY <2>3 DEF LiveRecord, Lives
    <3> QED
      BY <3>1
  <2>5. live' = [live EXCEPT ![s] = e]
    BY <1>5, <2>4
  <2>6. /\ live' \in [Ids -> LiveRecord] /\ live'[s] = e
        /\ \A k \in Ids : k # s => live'[k] = live[k]
    BY <1>3, <2>4, <2>5
  <2>7. LiveKept /\ Belongs(s, b.project)'
    BY <1>2, <1>3, <2>4, <2>6 DEF LiveKept, Belongs
  <2>8. JobSound(q)'
    BY <1>2, <1>3, <2>1, <2>7 DEF JobSound, SameRequest, Belongs, Gives, Lists, OfSessions
  <2>9. RowsSound'
    BY <1>3, <2>7, RowsStay
  <2>10. Starting(j)' /\ ~Starting(j)
    BY <1>1, <1>3, <2>1, <2>2 DEF Starting
  <2>11. \A u \in Sessions : Running(u)' =>
           (Running(u) /\ live'[u].run = live[u].run) \/ (Starting(j)' /\ q.target = u)
    BY <1>2, <2>1, <2>6, <2>10 DEF Running, Ids, SameRequest
  <2>12. q.kind = b.kind /\ q.project = b.project
    BY <2>1 DEF SameRequest
  <2>13. q.at # "idle" /\ live' \in [Ids -> LiveRecord] /\ LiveKept
    BY <2>1, <2>6, <2>7
  <2>14. /\ UNCHANGED <<saved, registered>> /\ rows' \in [Sessions -> RowRecord]
         /\ watched \subseteq watched' /\ orphaned \subseteq orphaned'
    BY <1>3
  <2> QED
    BY <1>1, <2>2, <2>8, <2>9, <2>10, <2>11, <2>12, <2>13, <2>14, MemoryStep
<1> QED
  BY <1>1, <1>2, <1>4, <1>5 DEF FakeSessionResume

\* Storing what was started: a new row names the project of the session.
LEMMA PersistInv ==
  ASSUME IInv, UNCHANGED hostVars, NEW j \in Jobs, Persist(j)
  PROVE  IInv'
<1>1. PICK b \in JobRecord : b = job[j] /\ JobSound(b)
  BY DEF IInv, Typed, GatewayTyped, JobsSound
<1>2. PICK s \in Sessions : s = b.target /\ Belongs(s, b.project)
  BY <1>1 DEF Persist, JobSound
<1>3. /\ Starting(j) /\ s \in Ids /\ job \in [Jobs -> JobRecord]
      /\ b.kind \in {"start", "tui_start", "resume"} /\ b.project \in Nat
      /\ rows \in [Sessions -> RowRecord] /\ live \in [Ids -> LiveRecord]
      /\ UNCHANGED <<saved, registered, tui, watched, orphaned>>
  BY <1>1 DEF Persist, Starting, IInv, Typed, GatewayTyped, JobSound, JobRecord, Ids
<1>4. PICK new \in [Sessions -> RowRecord] :
        /\ new = Started(s, b.project)
        /\ \A u \in Sessions : u # s => new[u] = rows[u]
        /\ new[s] = rows[s] \/ new[s].project = b.project
  <2> DEFINE r == [kind |-> live[s].kind, project |-> b.project]
             new == Started(s, b.project)
  <2>1. r \in RowRecord /\ r.project = b.project
    BY <1>3 DEF LiveRecord, RowRecord
  <2>2. new = [rows EXCEPT ![s] = IF rows[s] = NoRow THEN r ELSE rows[s]]
    BY DEF Started
  <2> HIDE DEF r, new
  <2>3. /\ new \in [Sessions -> RowRecord]
        /\ \A u \in Sessions : u # s => new[u] = rows[u]
        /\ new[s] = rows[s] \/ new[s] = r
    BY <1>3, <2>1, <2>2
  <2> QED
    BY <2>1, <2>3 DEF new
<1>5. ASSUME LiveKept, rows' \in {rows, new}
      PROVE  rows' \in [Sessions -> RowRecord] /\ RowsSound'
  <2>1. Belongs(s, b.project)'
    BY <1>2, <1>5 DEF LiveKept, Belongs
  <2>2. \A u \in Sessions : \A p : Belongs(u, p) => Belongs(u, p)'
    BY <1>5 DEF LiveKept, Belongs
  <2>3. ASSUME NEW u \in Sessions, rows'[u] # NoRow
        PROVE  Belongs(u, rows[u].project)'
    <3>1. CASE rows'[u] = rows[u]
      BY <2>2, <2>3, <3>1 DEF IInv, Memory, RowsSound, Belongs
    <3>2. CASE u = s /\ rows'[u].project = b.project
      BY <2>1, <3>2 DEF Belongs
    <3> QED
      BY <1>4, <1>5, <3>1, <3>2
  <2> QED
    BY <1>3, <1>4, <1>5, <2>3 DEF RowsSound
<1>6. ASSUME rows' = new, At(j, "attend"), UNCHANGED live
      PROVE  IInv'
  <2>1. PICK q \in JobRecord : q = [b EXCEPT !.at = "attend"] /\ q.at = "attend" /\ SameRequest(q, b)
    BY JobAt
  <2>2. job' = [job EXCEPT ![j] = q]
    BY <1>1, <1>6, <2>1 DEF At
  <2>3. LiveKept /\ live' \in [Ids -> LiveRecord]
    BY <1>3, <1>6 DEF LiveKept
  <2>4. rows' \in [Sessions -> RowRecord] /\ RowsSound'
    BY <1>5, <1>6, <2>3
  <2>5. JobSound(q)'
    BY <1>2, <1>3, <1>6, <2>1 DEF JobSound, SameRequest, Belongs
  <2>6. Starting(j)'
    BY <1>3, <2>1, <2>2 DEF Starting
  <2>7. \A u \in Sessions : Running(u)' => Running(u) /\ live'[u].run = live[u].run
    BY <1>6 DEF Running
  <2>8. q.kind = b.kind /\ q.project = b.project /\ q.target = b.target
    BY <2>1 DEF SameRequest
  <2> QED
    BY <1>1, <1>3, <2>1, <2>2, <2>3, <2>4, <2>5, <2>6, <2>7, <2>8, MemoryStep
<1>7. ASSUME Refused(j), NEW life \in {"ended", "gone"}, Became(s, life), rows' \in {rows, new}
      PROVE  IInv'
  <2>1. PICK q \in JobRecord : q = [b EXCEPT !.at = "no"] /\ q.at = "no" /\ SameRequest(q, b)
    BY JobAt
  <2>2. job' = [job EXCEPT ![j] = q]
    BY <1>1, <1>7, <2>1 DEF Refused, At
  <2>3. /\ live' \in [Ids -> LiveRecord] /\ LiveKept
        /\ \A k \in Ids : live'[k].run = live[k].run
        /\ \A k \in Ids : k # s => live'[k] = live[k]
        /\ live'[s].life = life
    BY <1>3, <1>7, LifeChanges DEF Lives
  <2>4. rows' \in [Sessions -> RowRecord] /\ RowsSound'
    BY <1>5, <1>7, <2>3
  <2>5. JobSound(q)'
    BY <1>3, <2>1 DEF JobSound, SameRequest
  <2>6. ~Running(s)'
    BY <1>7, <2>3 DEF Running
  <2>7. \A u \in Sessions : Running(u)' => Running(u) /\ live'[u].run = live[u].run
    BY <2>3, <2>6 DEF Running, Ids
  <2>8. q.kind = b.kind /\ q.project = b.project
    BY <2>1 DEF SameRequest
  <2>9. ~Running(b.target)'
    BY <1>2, <2>6
  <2> QED
    BY <1>1, <1>3, <2>1, <2>2, <2>3, <2>4, <2>5, <2>7, <2>8, <2>9, MemoryStep
<1>8. \/ rows' = Started(s, b.project) /\ At(j, "attend") /\ UNCHANGED live
      \/ Refused(j) /\ Became(s, "ended") /\ UNCHANGED rows
      \/ Refused(j) /\ Became(s, "gone") /\ rows' \in {rows, Started(s, b.project)}
  BY <1>1, <1>2 DEF Persist
<1> QED
  BY <1>4, <1>6, <1>7, <1>8

\* The monitor takes over the run from the handler that started it.
LEMMA AttendInv ==
  ASSUME IInv, UNCHANGED hostVars, NEW j \in Jobs, Attend(j)
  PROVE  IInv'
<1>1. PICK b \in JobRecord : b = job[j] /\ JobSound(b)
  BY DEF IInv, Typed, GatewayTyped, JobsSound
<1>2. PICK s \in Sessions : s = b.target /\ Belongs(s, b.project)
  BY <1>1 DEF Attend, JobSound
<1>3. /\ job \in [Jobs -> JobRecord] /\ b.kind \in {"start", "tui_start", "resume"}
      /\ rows \in [Sessions -> RowRecord] /\ live \in [Ids -> LiveRecord]
      /\ UNCHANGED <<saved, registered, live, rows, orphaned>>
      /\ watched' = watched \cup {<<s, live[s].run>>}
  BY <1>1, <1>2 DEF Attend, IInv, Typed, GatewayTyped, JobSound
<1>4. PICK q \in JobRecord : q = [b EXCEPT !.at = "ok"] /\ q.at = "ok" /\ SameRequest(q, b)
  BY JobAt
<1>5. job' = [job EXCEPT ![j] = q]
  BY <1>1, <1>4 DEF Attend, Ok, At
<1>6. LiveKept /\ RowsSound'
  BY <1>3, RowsStay DEF LiveKept
<1>7. JobSound(q)'
  BY <1>2, <1>3, <1>4 DEF JobSound, SameRequest, Belongs, Gives, Lists, OfSessions
<1>8. <<b.target, live'[b.target].run>> \in watched'
  BY <1>2, <1>3
<1>9. \A u \in Sessions : Running(u)' => Running(u) /\ live'[u].run = live[u].run
  BY <1>3 DEF Running
<1>10. q.kind = b.kind /\ q.project = b.project
  BY <1>4 DEF SameRequest
<1> QED
  BY <1>1, <1>3, <1>4, <1>5, <1>6, <1>7, <1>8, <1>9, <1>10, MemoryStep

\* Stopping, closing and stopping everything end what runs.
LEMMA EndingInv ==
  ASSUME IInv, UNCHANGED hostVars, NEW j \in Jobs, ~Starting(j),
         job[j].kind \in {"stop", "close", "stop_all"},
         NEW a \in {"ok", "no", "close"}, At(j, a), a = "close" => job[j].kind = "stop",
         Records, LiveKept, live' \in [Ids -> LiveRecord],
         \A u \in Sessions : Running(u)' => Running(u) /\ live'[u].run = live[u].run
  PROVE  IInv'
<1>1. PICK b \in JobRecord : b = job[j]
  BY DEF IInv, Typed, GatewayTyped
<1>2. PICK q \in JobRecord : q = [b EXCEPT !.at = a] /\ q.at = a /\ SameRequest(q, b)
  <2>1. a \in {"idle", "queued", "persist", "attend", "close", "ok", "no"}
    OBVIOUS
  <2> QED
    BY <2>1, JobAt
<1>3. job' = [job EXCEPT ![j] = q]
  BY <1>1, <1>2 DEF At
<1>4. q.kind = b.kind /\ q.project = b.project /\ q.kind \in {"stop", "close", "stop_all"}
  BY <1>1, <1>2 DEF SameRequest
<1>5. JobSound(q)'
  BY <1>1, <1>2, <1>4 DEF JobSound, Gives, Lists, OfSessions
<1>6. /\ rows \in [Sessions -> RowRecord] /\ UNCHANGED <<saved, registered, rows, watched, orphaned>>
  BY DEF Records, IInv, Typed, GatewayTyped
<1>7. RowsSound'
  BY <1>6, RowsStay
<1> QED
  BY <1>1, <1>2, <1>3, <1>4, <1>5, <1>6, <1>7, MemoryStep

\* What becomes of one session or terminal starts no run.
LEMMA OneEnds ==
  ASSUME IInv, NEW i, NEW life \in {"ended", "gone"}, Became(i, life)
  PROVE  /\ live' \in [Ids -> LiveRecord] /\ LiveKept
         /\ \A u \in Sessions : Running(u)' => Running(u) /\ live'[u].run = live[u].run
<1>1. /\ live' \in [Ids -> LiveRecord] /\ LiveKept
      /\ \A k \in Ids : live'[k].run = live[k].run
      /\ \A k \in Ids : k # i => live'[k] = live[k]
      /\ i \in Ids => live'[i].life = life
  BY LifeChanges DEF Lives
<1>2. ASSUME NEW u \in Sessions, Running(u)'
      PROVE  Running(u) /\ live'[u].run = live[u].run
  BY <1>1, <1>2 DEF Running, Ids
<1> QED
  BY <1>1, <1>2

\* Stopping a session, the first half of it.
LEMMA StopInv ==
  ASSUME IInv, UNCHANGED hostVars, NEW j \in Jobs, StopSession(j)
  PROVE  IInv'
<1> DEFINE s == job[j].target
<1>1. job[j].at = "queued" /\ job[j].kind = "stop" /\ Records /\ ~Starting(j)
  BY DEF StopSession, Asked, Starting
<1>2. CASE Became(s, "ended") /\ Ok(j)
  <2>1. \A i : Became(i, "ended") =>
          /\ live' \in [Ids -> LiveRecord] /\ LiveKept
          /\ \A u \in Sessions : Running(u)' => Running(u) /\ live'[u].run = live[u].run
    BY OneEnds
  <2> QED
    BY <1>1, <1>2, <2>1, EndingInv DEF Ok
<1>3. CASE At(j, "close") /\ UNCHANGED live
  <2>1. LiveKept /\ \A u \in Sessions : Running(u)' => Running(u) /\ live'[u].run = live[u].run
    BY <1>3 DEF Running, LiveKept
  <2>2. live' \in [Ids -> LiveRecord]
    BY <1>3 DEF IInv, Typed, GatewayTyped
  <2> QED
    BY <1>1, <1>3, <2>1, <2>2, EndingInv
<1>4. CASE OkIf(j, rows[s] # NoRow) /\ UNCHANGED live
  <2> DEFINE good == rows[s] # NoRow
  <2>1. OkIf(j, good) /\ good \in BOOLEAN /\ Reads
    BY <1>1, <1>4 DEF Reads, Records
  <2> HIDE DEF good
  <2> QED
    BY <1>1, <2>1, PlainInv
<1> QED
  BY <1>2, <1>3, <1>4 DEF StopSession

\* Closing a terminal.
LEMMA CloseInv ==
  ASSUME IInv, UNCHANGED hostVars, NEW j \in Jobs, Close(j)
  PROVE  IInv'
<1> DEFINE t == job[j].target
<1>1. job[j].kind \in {"stop", "close", "stop_all"} /\ Records /\ ~Starting(j)
  BY DEF Close, Asked, Starting, IInv, JobsSound, JobSound
<1>2. CASE Became(t, "gone") /\ Ok(j)
  <2>1. \A i : Became(i, "gone") =>
          /\ live' \in [Ids -> LiveRecord] /\ LiveKept
          /\ \A u \in Sessions : Running(u)' => Running(u) /\ live'[u].run = live[u].run
    BY OneEnds
  <2> QED
    BY <1>1, <1>2, <2>1, EndingInv DEF Ok
<1>3. CASE Refused(j) /\ UNCHANGED live
  <2>1. LiveKept /\ \A u \in Sessions : Running(u)' => Running(u) /\ live'[u].run = live[u].run
    BY <1>3 DEF Running, LiveKept
  <2>2. live' \in [Ids -> LiveRecord]
    BY <1>3 DEF IInv, Typed, GatewayTyped
  <2> QED
    BY <1>1, <1>3, <2>1, <2>2, EndingInv DEF Refused
<1> QED
  BY <1>2, <1>3 DEF Close

\* Stopping everything.
LEMMA StopAllInv ==
  ASSUME IInv, UNCHANGED hostVars, NEW j \in Jobs, StopAllWork(j)
  PROVE  IInv'
<1>1. /\ job[j].kind \in {"stop", "close", "stop_all"} /\ Records /\ ~Starting(j) /\ At(j, "ok")
      /\ live \in [Ids -> LiveRecord]
  BY DEF StopAllWork, Asked, Starting, Ok, IInv, Typed, GatewayTyped
<1>2. ASSUME NEW i \in Ids
      PROVE  /\ live'[i] \in LiveRecord /\ live'[i].project = live[i].project
             /\ Running(i)' => Running(i) /\ live'[i].run = live[i].run
  <2>1. /\ live[i] \in LiveRecord
        /\ live'[i] \in {[live[i] EXCEPT !.life = "ended"], [live[i] EXCEPT !.life = "gone"], live[i]}
    BY <1>1, <1>2 DEF StopAllWork
  <2> QED
    BY <2>1 DEF LiveRecord, Lives, Running
<1>3. live' \in [Ids -> LiveRecord]
  <2>1. live' = [i \in Ids |-> live'[i]]
    BY DEF StopAllWork
  <2> QED
    BY <1>2, <2>1
<1>4. LiveKept /\ \A u \in Sessions : Running(u)' => Running(u) /\ live'[u].run = live[u].run
  BY <1>2 DEF LiveKept, Ids
<1> QED
  BY <1>1, <1>3, <1>4, EndingInv

\* Opening a shell, which no session is.
LEMMA TerminalOpenInv ==
  ASSUME IInv, UNCHANGED hostVars, NEW j \in Jobs, NEW t \in Shells, TerminalOpen(j, t)
  PROVE  IInv'
<1>1. PICK b \in JobRecord : b = job[j]
  BY DEF IInv, Typed, GatewayTyped
<1>2. /\ t \in Ids /\ t \in Target /\ t \notin Sessions /\ ~Starting(j) /\ b.project \in Nat
      /\ rows \in [Sessions -> RowRecord] /\ job \in [Jobs -> JobRecord]
      /\ b.at = "queued" /\ b.kind = "open"
      /\ UNCHANGED <<saved, registered, rows, tui, watched, orphaned, moves>>
  BY <1>1, IdsDistinct
  DEF TerminalOpen, Asked, Records, Starting, IInv, Typed, GatewayTyped, JobRecord, Ids, Target
<1>3. CASE Refused(j) /\ UNCHANGED live
  BY <1>1, <1>2, <1>3, LooksRefused DEF Reads
<1>4. ASSUME Known(j), Fresh(t), Begun(t, "shell", b.project),
             job' = [job EXCEPT ![j].at = "ok", ![j].target = t]
      PROVE  IInv'
  <2>1. PICK q \in JobRecord :
          /\ q = [b EXCEPT !.at = "ok", !.target = t]
          /\ q.at = "ok" /\ q.target = t
          /\ q.kind = b.kind /\ q.project = b.project
    <3> DEFINE q == [b EXCEPT !.at = "ok", !.target = t]
    <3>1. /\ q \in JobRecord /\ q.at = "ok" /\ q.target = t
          /\ q.kind = b.kind /\ q.project = b.project
      BY <1>2 DEF JobRecord
    <3> QED
      BY <3>1
  <2>2. job' = [job EXCEPT ![j] = q]
    BY <1>1, <1>2, <1>4, <2>1
  <2>3. b.project # NoProject
    BY <1>1, <1>4, KnownProject
  <2>4. /\ live' \in [Ids -> LiveRecord] /\ LiveKept /\ Belongs(t, b.project)'
        /\ \A k \in Ids : k # t => live'[k] = live[k]
    BY <1>2, <1>4, <2>3, Begins DEF LiveKinds
  <2>5. JobSound(q)'
    BY <1>2, <2>1, <2>4 DEF JobSound, Belongs, Gives, Lists, OfSessions
  <2>6. RowsSound'
    BY <1>2, <2>4, RowsStay
  <2>7. \A u \in Sessions : Running(u)' => Running(u) /\ live'[u].run = live[u].run
    BY <1>2, <2>4 DEF Running, Ids
  <2>8. q.kind = b.kind
    BY <1>2, <2>1
  <2>9. q.at # "idle" /\ q.project = b.project /\ live' \in [Ids -> LiveRecord] /\ LiveKept
    BY <2>1, <2>4
  <2>10. /\ UNCHANGED <<saved, registered>> /\ rows' \in [Sessions -> RowRecord]
         /\ watched \subseteq watched' /\ orphaned \subseteq orphaned' /\ ~Starting(j)
    BY <1>2
  <2> QED
    BY <1>1, <2>2, <2>5, <2>6, <2>7, <2>8, <2>9, <2>10, MemoryStep
<1> QED
  BY <1>1, <1>3, <1>4 DEF TerminalOpen

\* A run that ends, and a monitor that ends after it.
LEMMA WorldInv ==
  ASSUME IInv, UNCHANGED hostVars, NEW s \in Sessions,
         RunEnds(s) \/ \E n \in 1..MaxRuns : MonitorEnds(s, n)
  PROVE  IInv'
<1>1. /\ UNCHANGED <<saved, registered, rows, job, orphaned>>
      /\ LiveKept /\ live' \in [Ids -> LiveRecord] /\ s \in Ids
      /\ \A u \in Sessions : Running(u)' => Running(u) /\ live'[u].run = live[u].run
      /\ \A u \in Sessions : Running(u)' => (<<u, live[u].run>> \in watched => <<u, live[u].run>> \in watched')
  <2>1. CASE RunEnds(s)
    <3>1. /\ live' \in [Ids -> LiveRecord] /\ LiveKept
          /\ \A u \in Sessions : Running(u)' => Running(u) /\ live'[u].run = live[u].run
      BY <2>1, OneEnds DEF RunEnds
    <3> QED
      BY <2>1, <3>1 DEF RunEnds, Records, Ids
  <2>2. CASE \E n \in 1..MaxRuns : MonitorEnds(s, n)
    BY <2>2 DEF MonitorEnds, Running, LiveKept, IInv, Typed, GatewayTyped, Ids
  <2> QED
    BY <2>1, <2>2
<1>2. JobsKept /\ JobsSound'
  BY <1>1, JobStays DEF JobsKept, IInv, JobsSound, JobSound, Belongs
<1>3. HostTyped' /\ CallsSound' /\ ClientSound' /\ GrantsSound'
  BY <1>1, <1>2, HostKept
<1>4. GatewayTyped' /\ OneIdentity' /\ RowsSound'
  BY <1>1, RowsStay DEF IInv, Typed, GatewayTyped, Memory, OneIdentity
<1>5. RunsAttended'
  BY <1>1 DEF IInv, Memory, RunsAttended, Starting
<1> QED
  BY <1>2, <1>3, <1>4, <1>5 DEF IInv, Typed, Memory

\* The daemon's own steps keep the invariant.
LEMMA GatewayInv ==
  ASSUME IInv, GatewayNext, UNCHANGED hostVars
  PROVE  IInv'
<1>1. ASSUME NEW j \in Jobs, NEW s \in Sessions, FakeSessionStart(j, s) \/ FakeTuiStart(j, s)
      PROVE  IInv'
  BY <1>1, LaunchInv DEF FakeSessionStart, FakeTuiStart, Asked, LiveKinds
<1> QED
  BY <1>1, RegisterInv, RecentListInv, PlainRequestsInv, ResumeInv, PersistInv, AttendInv,
     TerminalAttachInv, ShellAttachInv, ListsInv, StopInv, CloseInv, StopAllInv, TerminalOpenInv,
     WorldInv
  DEF GatewayNext

-----------------------------------------------------------------------------
(* What a step of the host does to the rest.                               *)

\* Grants are only added for what is new, and ids and the history only grow.
Grown ==
  /\ LiveKept
  /\ \A w \in Windows : granted[w] \subseteq granted'[w]
  /\ issued' \in Nat /\ issued <= issued'
  /\ \A g \in projects' : g \in projects \/ g.id > issued

\* An authorised command stays authorised, and an answer of its project.
LEMMA CallStays ==
  ASSUME IInv, Grown, NEW k \in CallRecord
  PROVE  /\ Authorised(k) => Authorised(k)'
         /\ Brings(k) => Brings(k)'
<1>1. k.window \in Windows /\ k.pg \in Nat /\ issued \in Nat
  BY DEF CallRecord, IInv, Typed, HostTyped
<1>2. Covered(k) => Covered(k)'
  BY <1>1 DEF Covered, OfGrant, Grown
<1>3. k.target \in Ids /\ Reaches(k.window, k.target) => Reaches(k.window, k.target)'
  BY <1>1 DEF Reaches, Grown, LiveKept
<1>4. \A i, p : Belongs(i, p) => Belongs(i, p)'
  BY DEF Grown, Belongs, LiveKept
<1> QED
  BY <1>2, <1>3, <1>4 DEF Authorised, Brings

\* A grant of something stays one.
LEMMA GrantStays ==
  ASSUME IInv, Grown, NEW w \in Windows, NEW i \in Ids, NEW pg \in Nat,
         Reaches(w, i), OfGrant(pg, live[i].project)
  PROVE  (Reaches(w, i) /\ OfGrant(pg, live[i].project))'
<1>1. issued \in Nat /\ live'[i].project = live[i].project
  BY DEF IInv, Typed, HostTyped, Grown, LiveKept, Reaches
<1> QED
  BY <1>1 DEF Reaches, OfGrant, Grown

\* So do all of them, when none is added.
LEMMA GrantsStay ==
  ASSUME IInv, Grown, terminals' \subseteq terminals, sessions' \subseteq sessions
  PROVE  /\ \A g \in terminals' : (Reaches(g.window, g.terminal) /\ OfGrant(g.pg, live[g.terminal].project))'
         /\ \A g \in sessions' : (Reaches(g.window, g.session) /\ OfGrant(g.pg, live[g.session].project))'
<1>1. ASSUME NEW g \in terminals'
      PROVE  (Reaches(g.window, g.terminal) /\ OfGrant(g.pg, live[g.terminal].project))'
  <2>1. g \in terminals /\ g.window \in Windows /\ g.terminal \in Ids /\ g.pg \in Nat
    BY <1>1 DEF IInv, Typed, HostTyped
  <2>2. Reaches(g.window, g.terminal) /\ OfGrant(g.pg, live[g.terminal].project)
    BY <2>1 DEF IInv, GrantsSound
  <2> QED
    BY <2>1, <2>2, GrantStays
<1>2. ASSUME NEW g \in sessions'
      PROVE  (Reaches(g.window, g.session) /\ OfGrant(g.pg, live[g.session].project))'
  <2>1. g \in sessions /\ g.window \in Windows /\ g.session \in Ids /\ g.pg \in Nat
    BY <1>2 DEF IInv, Typed, HostTyped, Ids
  <2>2. Reaches(g.window, g.session) /\ OfGrant(g.pg, live[g.session].project)
    BY <2>1 DEF IInv, GrantsSound
  <2> QED
    BY <2>1, <2>2, GrantStays
<1> QED
  BY <1>1, <1>2

\* One command moves on, and with it at most its own request.
LEMMA OneCall ==
  ASSUME IInv, Grown, NEW c \in Jobs, NEW q \in CallRecord, call' = [call EXCEPT ![c] = q],
         \A i \in Jobs : i # c => job'[i] = job[i],
         CallSound(q, job[c])'
  PROVE  call' \in [Jobs -> CallRecord] /\ CallsSound'
<1>1. call \in [Jobs -> CallRecord]
  BY DEF IInv, Typed, HostTyped
<1>2. call' \in [Jobs -> CallRecord] /\ call'[c] = q /\ \A i \in Jobs : i # c => call'[i] = call[i]
  BY <1>1
<1>3. ASSUME NEW i \in Jobs, i # c
      PROVE  CallSound(call[i], job[i])'
  <2>1. call[i] \in CallRecord /\ CallSound(call[i], job[i]) /\ call'[i] = call[i] /\ job'[i] = job[i]
    BY <1>1, <1>2, <1>3 DEF IInv, CallsSound
  <2> DEFINE k == call[i]
  <2>2. /\ Authorised(k) => Authorised(call[i])'
        /\ Brings(k) => Brings(call[i])'
    <3>1. \A m \in CallRecord : /\ Authorised(m) => Authorised(m)'
                                /\ Brings(m) => Brings(m)'
      BY CallStays
    <3> QED
      BY <2>1, <3>1 DEF Authorised, Brings, Reaches, Covered, OfGrant, Belongs
  <2> QED
    BY <2>1, <2>2 DEF CallSound, Matches
<1>4. CallSound(call[c], job[c])'
  BY <1>2 DEF CallSound, Authorised, Matches, Brings, Reaches, Covered, OfGrant, Belongs
<1> QED
  BY <1>2, <1>3, <1>4 DEF CallsSound

\* Steps of an answer: the daemon and the connection stay as they are.
LEMMA HostStepInv ==
  ASSUME IInv, HostStep, Grown, NEW c \in Jobs, NEW q \in CallRecord, call' = [call EXCEPT ![c] =
         q],
         q.at \notin {"sent", "lost"},
         q.at = "answered" => Brings(q)',
         q.at = "insert" => /\ Brings(q)' /\ q.kind \in OfSessions
                            /\ q.todo # {} /\ q.todo \subseteq Nat,
         projects' \subseteq [id : Nat, project : Nat, roots : Roots, window : Windows],
         terminals' \subseteq [id : Nat, pg : Nat, terminal : Ids, discovery : BOOLEAN, window : Windows],
         sessions' \subseteq [session : Sessions, pg : Nat, terminal : Nat, window : Windows],
         DOMAIN granted' = Windows,
         GrantsSound'
  PROVE  IInv'
<1>1. UNCHANGED gatewayVars /\ UNCHANGED <<attempts, client, broken>>
  BY DEF HostStep
<1>2. GatewayTyped' /\ Memory' /\ JobsSound'
  BY <1>1 DEF IInv, Typed, GatewayTyped, Memory, RowsSound, RunsAttended, OneIdentity, Running,
     Starting,
     JobsSound, JobSound, Belongs, gatewayVars
<1>3. CallSound(q, job[c])'
  BY DEF CallSound
<1>4. call' \in [Jobs -> CallRecord] /\ CallsSound'
  BY <1>1, <1>3, OneCall DEF gatewayVars
<1>5. HostTyped'
  BY <1>1, <1>4 DEF IInv, Typed, HostTyped, Grown
<1>6. ClientSound'
  BY <1>1 DEF IInv, Typed, HostTyped, ClientSound
<1> QED
  BY <1>2, <1>4, <1>5, <1>6 DEF IInv, Typed

\* What a command asks for, and under which grant.
Like(q, k) ==
  /\ q.kind = k.kind /\ q.window = k.window /\ q.pg = k.pg /\ q.project = k.project
  /\ q.roots = k.roots /\ q.target = k.target

CallPlaces == {"idle", "sent", "lost", "answered", "revoke", "revoke_sessions", "insert", "drop"}

\* A record of a command in another state is one.
LEMMA CallAt ==
  ASSUME NEW k \in CallRecord, NEW a \in CallPlaces
  PROVE  \E q \in CallRecord :
           q = [k EXCEPT !.at = a] /\ q.at = a /\ q.conn = k.conn /\ q.todo = k.todo /\ Like(q, k)
<1> DEFINE q == [k EXCEPT !.at = a]
<1>1. q \in CallRecord /\ q.at = a /\ q.conn = k.conn /\ q.todo = k.todo /\ Like(q, k)
  BY DEF CallRecord, CallPlaces, Like
<1> QED
  BY <1>1

\* So is one with other things left to do.
LEMMA CallLeft ==
  ASSUME NEW k \in CallRecord, NEW things \in SUBSET Thing
  PROVE  \E q \in CallRecord :
           q = [k EXCEPT !.todo = things] /\ q.at = k.at /\ q.todo = things /\ Like(q, k)
<1> DEFINE q == [k EXCEPT !.todo = things]
<1>1. q \in CallRecord /\ q.at = k.at /\ q.todo = things /\ Like(q, k)
  BY DEF CallRecord, Like
<1> QED
  BY <1>1

\* A command that is over.
LEMMA CallOver ==
  NoCall \in CallRecord /\ NoCall.at = "idle" /\ NoJob \in JobRecord /\ NoJob.at = "idle"
  BY HostAssumption DEF NoCall, NoJob, CallRecord, JobRecord, Target, Kinds, NoProject

-----------------------------------------------------------------------------
(* Answers.                                                                *)

\* An answer brings what it did while nothing else changes.
LEMMA BringsAgain ==
  ASSUME IInv, Grown, NEW c \in Jobs, call[c].at \in {"answered", "insert"}
  PROVE  /\ call[c] \in CallRecord /\ Brings(call[c])
         /\ \A m \in CallRecord : Brings(m) => Brings(m)'
<1>1. call[c] \in CallRecord /\ Brings(call[c])
  BY DEF IInv, Typed, HostTyped, CallsSound, CallSound
<1>2. \A m \in CallRecord : Brings(m) => Brings(m)'
  BY CallStays
<1> QED
  BY <1>1, <1>2

\* Steps that only take grants away.
LEMMA RevokingInv ==
  ASSUME IInv, HostStep, UNCHANGED <<projects, issued, granted>>,
         terminals' \subseteq terminals, sessions' \subseteq sessions,
         NEW c \in Jobs, NEW q \in CallRecord, call' = [call EXCEPT ![c] = q],
         q.at \notin {"sent", "lost", "answered", "insert"}
  PROVE  IInv'
<1>1. Grown
  BY DEF Grown, LiveKept, HostStep, gatewayVars, IInv, Typed, HostTyped
<1>2. GrantsSound'
  BY <1>1, GrantsStay DEF IInv, GrantsSound
<1> QED
  BY <1>1, <1>2, HostStepInv DEF IInv, Typed, HostTyped

\* A command that is over, or that has grants left to revoke or to drop.
LEMMA OverOrLeft ==
  ASSUME NEW k \in CallRecord, NEW a \in {"revoke", "drop"}, NEW things \in SUBSET Thing
  PROVE  \E q \in CallRecord :
           q = (IF things = {} THEN NoCall ELSE [k EXCEPT !.at = a, !.todo = things]) /\ q.at \in {"idle", a}
<1>1. CASE things = {}
  BY <1>1, CallOver
<1>2. CASE things # {}
  <2> DEFINE q == [k EXCEPT !.at = a, !.todo = things]
  <2>1. q \in CallRecord /\ q.at = a
    BY DEF CallRecord
  <2> QED
    BY <1>2, <2>1
<1> QED
  BY <1>1, <1>2

\* A window's project grant is replaced by a new one.
LEMMA GrantProjectInv ==
  ASSUME IInv, NEW c \in Jobs, GrantProject(c)
  PROVE  IInv'
<1>1. PICK k \in CallRecord : k = call[c] /\ Brings(k) /\ k.kind = "register"
  BY DEF GrantProject, Answered, IInv, Typed, HostTyped, CallsSound, CallSound
<1>2. /\ issued \in Nat /\ issued' = issued + 1 /\ DOMAIN granted = Windows
      /\ projects \subseteq [id : Nat, project : Nat, roots : Roots, window : Windows]
      /\ UNCHANGED <<terminals, sessions>> /\ HostStep
  BY DEF GrantProject, IInv, Typed, HostTyped
<1>3. PICK w \in Windows : w = k.window
  BY DEF CallRecord
<1>4. PICK id \in Nat : id = (CHOOSE i \in k.todo : TRUE) /\ id # NoProject
  <2>1. k.todo # {} /\ k.todo \subseteq Nat \ {NoProject}
    BY <1>1 DEF Brings
  <2> QED
    BY <2>1
<1>5. PICK replaced \in SUBSET Thing : replaced = {g.id : g \in ProjectGrants(w)}
  BY <1>2 DEF ProjectGrants, Thing
<1>6. PICK q \in CallRecord :
        q = (IF replaced = {} THEN NoCall ELSE [k EXCEPT !.at = "revoke", !.todo = replaced])
        /\ q.at \in {"idle", "revoke"}
  BY OverOrLeft
<1>7. call' = [call EXCEPT ![c] = q]
  BY <1>1, <1>3, <1>5, <1>6 DEF GrantProject
<1> DEFINE added == [id |-> issued + 1, project |-> id, roots |-> k.roots, window |-> w]
<1>8. /\ projects' = (projects \ ProjectGrants(w)) \cup {added}
      /\ granted' = [granted EXCEPT ![w] = granted[w] \cup {id}]
  BY <1>1, <1>3, <1>4 DEF GrantProject
<1>9. PICK new \in [id : Nat, project : Nat, roots : Roots, window : Windows] :
        new = added /\ new.id = issued + 1 /\ new.project = id /\ new.window = w
  <2>1. /\ added \in [id : Nat, project : Nat, roots : Roots, window : Windows]
        /\ added.id = issued + 1 /\ added.project = id /\ added.window = w
    BY <1>1, <1>2 DEF Brings
  <2> QED
    BY <2>1
<1> HIDE DEF added
<1>10. projects' \subseteq projects \cup {new}
  BY <1>8, <1>9
<1>11. DOMAIN granted' = Windows /\ id \in granted'[w] /\ \A v \in Windows : granted[v] \subseteq granted'[v]
  BY <1>2, <1>8
<1>12. Grown
  BY <1>2, <1>9, <1>10, <1>11 DEF Grown, LiveKept, HostStep, gatewayVars
<1>13. \A g \in projects' : g.id <= issued' /\ g.project # NoProject /\ g.project \in granted'[g.window]
  <2>1. ASSUME NEW g \in projects
        PROVE  g.id <= issued' /\ g.project # NoProject /\ g.project \in granted'[g.window]
    BY <1>2, <1>11, <2>1 DEF IInv, GrantsSound
  <2>2. new.id <= issued' /\ new.project # NoProject /\ new.project \in granted'[new.window]
    BY <1>2, <1>4, <1>9, <1>11
  <2> QED
    BY <1>10, <2>1, <2>2
<1>14. \A g \in projects : g.id # new.id
  BY <1>2, <1>9 DEF IInv, GrantsSound
<1>15. \A g, h \in projects' : g.id = h.id => g.project = h.project
  BY <1>10, <1>14 DEF IInv, GrantsSound
<1>16. GrantsSound'
  <2>1. terminals' \subseteq terminals /\ sessions' \subseteq sessions
    BY <1>2
  <2>2. /\ \A g \in terminals' : (Reaches(g.window, g.terminal) /\ OfGrant(g.pg, live[g.terminal].project))'
        /\ \A g \in sessions' : (Reaches(g.window, g.session) /\ OfGrant(g.pg, live[g.session].project))'
    BY <1>12, <2>1, GrantsStay
  <2> QED
    BY <1>13, <1>15, <2>2 DEF GrantsSound
<1>17. projects' \subseteq [id : Nat, project : Nat, roots : Roots, window : Windows]
  BY <1>2, <1>9, <1>10
<1>18. /\ terminals' \subseteq [id : Nat, pg : Nat, terminal : Ids, discovery : BOOLEAN, window : Windows]
       /\ sessions' \subseteq [session : Sessions, pg : Nat, terminal : Nat, window : Windows]
  BY <1>2 DEF IInv, Typed, HostTyped
<1> QED
  BY <1>2, <1>6, <1>7, <1>11, <1>12, <1>16, <1>17, <1>18, HostStepInv

\* The terminals of the sessions granted by an entry.
LEMMA TerminalsOf ==
  ASSUME IInv, NEW s
  PROVE  \E things \in SUBSET Thing : things = {g.terminal : g \in GrantOf(s)} \ {0}
<1>1. {g.terminal : g \in GrantOf(s)} \ {0} \in SUBSET Thing
  BY DEF GrantOf, Thing, IInv, Typed, HostTyped
<1> QED
  BY <1>1

\* Revoking what was granted under the old project grant, dropping terminals,
\* a stopped session and a closed terminal take grants away.
LEMMA RevokesInv ==
  ASSUME IInv, NEW c \in Jobs,
         RevokeTerminals(c) \/ RevokeSessions(c) \/ DropTerminal(c) \/ SessionStopped(c) \/ TerminalClosed(c)
  PROVE  IInv'
<1>1. PICK k \in CallRecord : k = call[c]
  BY DEF IInv, Typed, HostTyped
<1>2. NoCall \in CallRecord /\ NoCall.at = "idle"
  BY CallOver
<1>3. CASE RevokeTerminals(c)
  <2>1. PICK q \in CallRecord :
          /\ q = [k EXCEPT !.at = "revoke_sessions"] /\ q.at = "revoke_sessions" /\ q.conn = k.conn
          /\ q.todo = k.todo /\ Like(q, k)
    <3>1. "revoke_sessions" \in CallPlaces
      BY DEF CallPlaces
    <3> QED
      BY <3>1, CallAt
  <2>2. call' = [call EXCEPT ![c] = q]
    BY <1>1, <1>3, <2>1 DEF RevokeTerminals, Step
  <2> QED
    BY <1>3, <2>1, <2>2, RevokingInv DEF RevokeTerminals
<1>4. CASE RevokeSessions(c) \/ DropTerminal(c) \/ TerminalClosed(c)
  <2>1. /\ HostStep /\ UNCHANGED <<projects, issued, granted>> /\ call' = [call EXCEPT ![c] = NoCall]
        /\ terminals' \subseteq terminals /\ sessions' \subseteq sessions
    BY <1>4 DEF RevokeSessions, DropTerminal, TerminalClosed, Ended
  <2> QED
    BY <1>2, <2>1, RevokingInv
<1>5. CASE SessionStopped(c)
  <2>1. PICK mine \in SUBSET Thing : mine = {g.terminal : g \in GrantOf(k.target)} \ {0}
    BY TerminalsOf
  <2>2. PICK q \in CallRecord :
          q = (IF mine = {} THEN NoCall ELSE [k EXCEPT !.at = "drop", !.todo = mine]) /\ q.at \in {"idle", "drop"}
    BY OverOrLeft
  <2>3. call' = [call EXCEPT ![c] = q]
    BY <1>1, <1>5, <2>1, <2>2 DEF SessionStopped
  <2> QED
    BY <1>5, <2>2, <2>3, RevokingInv DEF SessionStopped
<1> QED
  BY <1>3, <1>4, <1>5

\* A session or terminal of the project that a command covers may be granted.
LEMMA MayGrant ==
  ASSUME IInv, Grown, NEW k \in CallRecord, Covered(k), NEW i, Belongs(i, k.project)
  PROVE  (Reaches(k.window, i) /\ OfGrant(k.pg, live[i].project))'
<1>1. k.window \in Windows /\ k.pg \in Nat /\ issued \in Nat /\ live'[i].project = k.project
  BY DEF CallRecord, IInv, Typed, HostTyped, Grown, LiveKept, Belongs
<1> QED
  BY <1>1 DEF Reaches, OfGrant, Covered, Belongs, Grown

\* Steps that add one session grant.
LEMMA SessionAdded ==
  ASSUME IInv, HostStep, UNCHANGED <<projects, terminals, issued, granted>>,
         NEW k \in CallRecord, Covered(k), NEW s \in Sessions, Belongs(s, k.project), NEW t \in Nat,
         sessions' = (sessions \ GrantOf(s))
                       \cup {[session |-> s, pg |-> k.pg, window |-> k.window, terminal |-> t]}
  PROVE  /\ Grown /\ GrantsSound'
         /\ sessions' \subseteq [session : Sessions, pg : Nat, terminal : Nat, window : Windows]
<1> DEFINE new == [session |-> s, pg |-> k.pg, window |-> k.window, terminal |-> t]
<1>1. Grown
  BY DEF Grown, LiveKept, HostStep, gatewayVars, IInv, Typed, HostTyped
<1>2. /\ new.session = s /\ new.pg = k.pg /\ new.window = k.window
      /\ new \in [session : Sessions, pg : Nat, terminal : Nat, window : Windows]
  BY DEF CallRecord
<1>3. sessions' = (sessions \ GrantOf(s)) \cup {new}
  OBVIOUS
<1> HIDE DEF new
<1>4. (Reaches(k.window, s) /\ OfGrant(k.pg, live[s].project))'
  BY <1>1, MayGrant
<1>5. ASSUME NEW g \in sessions'
      PROVE  (Reaches(g.window, g.session) /\ OfGrant(g.pg, live[g.session].project))'
  <2>1. CASE g = new
    BY <1>2, <1>4, <2>1 DEF Reaches, OfGrant
  <2>2. CASE g \in sessions
    <3>1. g.window \in Windows /\ g.session \in Ids /\ g.pg \in Nat
      BY <2>2 DEF IInv, Typed, HostTyped, Ids
    <3>2. Reaches(g.window, g.session) /\ OfGrant(g.pg, live[g.session].project)
      BY <2>2 DEF IInv, GrantsSound
    <3> QED
      BY <1>1, <3>1, <3>2, GrantStays
  <2> QED
    BY <1>3, <2>1, <2>2
<1>6. \A g \in terminals' : (Reaches(g.window, g.terminal) /\ OfGrant(g.pg, live[g.terminal].project))'
  <2>1. ASSUME NEW g \in terminals
        PROVE  (Reaches(g.window, g.terminal) /\ OfGrant(g.pg, live[g.terminal].project))'
    BY <1>1, <2>1, GrantStays DEF IInv, GrantsSound, Typed, HostTyped
  <2> QED
    BY <2>1
<1>7. GrantsSound'
  BY <1>5, <1>6 DEF IInv, GrantsSound
<1>8. sessions' \subseteq [session : Sessions, pg : Nat, terminal : Nat, window : Windows]
  BY <1>2, <1>3 DEF IInv, Typed, HostTyped
<1> QED
  BY <1>1, <1>7, <1>8

\* register_session: another entry of the session is replaced.
LEMMA SessionRegistered ==
  ASSUME IInv, HostStep, UNCHANGED <<projects, terminals, issued, granted>>,
         NEW k \in CallRecord, Covered(k), NEW s \in Sessions, Belongs(s, k.project),
         RegisterSession(s, k.pg, k.window)
  PROVE  /\ Grown /\ GrantsSound'
         /\ sessions' \subseteq [session : Sessions, pg : Nat, terminal : Nat, window : Windows]
<1> DEFINE t == IF \E g \in GrantOf(s) : g.pg = k.pg /\ g.window = k.window
                  THEN (CHOOSE g \in GrantOf(s) : TRUE).terminal ELSE 0
<1>1. t \in Nat
  <2>1. CASE GrantOf(s) # {}
    <3>1. (CHOOSE g \in GrantOf(s) : TRUE) \in GrantOf(s)
      BY <2>1
    <3> QED
      BY <3>1 DEF GrantOf, IInv, Typed, HostTyped
  <2>2. CASE GrantOf(s) = {}
    BY <2>2
  <2> QED
    BY <2>1, <2>2
<1>2. Entry(s, k.pg, k.window) = [session |-> s, pg |-> k.pg, window |-> k.window, terminal |-> t]
  BY DEF Entry
<1> HIDE DEF t
<1>3. sessions' = (sessions \ GrantOf(s))
                    \cup {[session |-> s, pg |-> k.pg, window |-> k.window, terminal |-> t]}
  BY <1>2 DEF RegisterSession
<1> QED
  BY <1>1, <1>3, SessionAdded

\* Steps that add one terminal grant.
LEMMA TerminalAdded ==
  ASSUME IInv, HostStep, UNCHANGED <<projects, sessions, granted>>,
         NEW c \in Jobs, NEW k \in CallRecord, k = call[c], Covered(k), NEW t, Belongs(t, k.project),
         NEW discovery \in BOOLEAN, RegisterTerminal(c, t, discovery)
  PROVE  /\ Grown /\ GrantsSound' /\ issued' = issued + 1
         /\ terminals' \subseteq [id : Nat, pg : Nat, terminal : Ids, discovery : BOOLEAN, window : Windows]
<1> DEFINE new == [id |-> issued + 1, pg |-> k.pg, terminal |-> t, discovery |-> discovery,
                   window |-> k.window]
<1>1. issued \in Nat /\ issued' = issued + 1
  BY DEF RegisterTerminal, IInv, Typed, HostTyped
<1>2. Grown
  BY <1>1 DEF Grown, LiveKept, HostStep, gatewayVars
<1>3. /\ new.terminal = t /\ new.pg = k.pg /\ new.window = k.window
      /\ new \in [id : Nat, pg : Nat, terminal : Ids, discovery : BOOLEAN, window : Windows]
  BY <1>1 DEF CallRecord, Belongs
<1>4. terminals' \subseteq terminals \cup {new}
  BY DEF RegisterTerminal
<1> HIDE DEF new
<1>5. (Reaches(k.window, t) /\ OfGrant(k.pg, live[t].project))'
  BY <1>2, MayGrant
<1>6. ASSUME NEW g \in terminals'
      PROVE  (Reaches(g.window, g.terminal) /\ OfGrant(g.pg, live[g.terminal].project))'
  <2>1. CASE g = new
    BY <1>3, <1>5, <2>1 DEF Reaches, OfGrant
  <2>2. CASE g \in terminals
    <3>1. g.window \in Windows /\ g.terminal \in Ids /\ g.pg \in Nat
      BY <2>2 DEF IInv, Typed, HostTyped
    <3>2. Reaches(g.window, g.terminal) /\ OfGrant(g.pg, live[g.terminal].project)
      BY <2>2 DEF IInv, GrantsSound
    <3> QED
      BY <1>2, <3>1, <3>2, GrantStays
  <2> QED
    BY <1>4, <2>1, <2>2
<1>7. \A g \in sessions' : (Reaches(g.window, g.session) /\ OfGrant(g.pg, live[g.session].project))'
  <2>1. ASSUME NEW g \in sessions
        PROVE  (Reaches(g.window, g.session) /\ OfGrant(g.pg, live[g.session].project))'
    BY <1>2, <2>1, GrantStays DEF IInv, GrantsSound, Typed, HostTyped, Ids
  <2> QED
    BY <2>1
<1>8. GrantsSound'
  BY <1>1, <1>6, <1>7 DEF IInv, GrantsSound, Typed, HostTyped
<1>9. terminals' \subseteq [id : Nat, pg : Nat, terminal : Ids, discovery : BOOLEAN, window : Windows]
  BY <1>3, <1>4 DEF IInv, Typed, HostTyped
<1> QED
  BY <1>1, <1>2, <1>8, <1>9

\* A session that was started is granted.
LEMMA StartGrantedInv ==
  ASSUME IInv, NEW c \in Jobs, StartGranted(c)
  PROVE  IInv'
<1>1. /\ call[c] \in CallRecord /\ Brings(call[c]) /\ call[c].kind = "start"
      /\ HostStep /\ UNCHANGED <<projects, terminals, issued, granted>>
      /\ call' = [call EXCEPT ![c] = NoCall]
      /\ RegisterSession(call[c].target, call[c].pg, call[c].window)
  BY DEF StartGranted, Answered, Ended, IInv, Typed, HostTyped, CallsSound, CallSound
<1>2. Covered(call[c]) /\ Belongs(call[c].target, call[c].project) /\ call[c].target \in Sessions
  BY <1>1 DEF Brings, Scoped, Gives, OfSessions
<1>3. /\ Grown /\ GrantsSound'
      /\ sessions' \subseteq [session : Sessions, pg : Nat, terminal : Nat, window : Windows]
  BY <1>1, <1>2, SessionRegistered
<1> QED
  BY <1>1, <1>3, CallOver, HostStepInv DEF IInv, Typed, HostTyped

\* Each session of a list is granted.
LEMMA ListGrantedInv ==
  ASSUME IInv, NEW c \in Jobs, ListGranted(c)
  PROVE  IInv'
<1>1. PICK k \in CallRecord : k = call[c] /\ Brings(k) /\ k.kind = "list" /\ k.at = "answered"
  BY DEF ListGranted, Answered, IInv, Typed, HostTyped, CallsSound, CallSound
<1>2. HostStep /\ UNCHANGED <<projects, terminals, issued, granted>>
  BY DEF ListGranted
<1>3. CASE Ended(c) /\ UNCHANGED sessions
  BY <1>2, <1>3, CallOver, RevokingInv DEF Ended
<1>4. ASSUME NEW s \in k.todo, RegisterSession(s, k.pg, k.window),
             call' = [call EXCEPT ![c].todo = call[c].todo \ {s}]
      PROVE  IInv'
  <2>1. Covered(k) /\ Belongs(s, k.project) /\ s \in Sessions
    BY <1>1, <1>4 DEF Brings, Scoped, Lists
  <2>2. /\ Grown /\ GrantsSound'
        /\ sessions' \subseteq [session : Sessions, pg : Nat, terminal : Nat, window : Windows]
    BY <1>2, <1>4, <2>1, SessionRegistered
  <2>3. PICK left \in SUBSET Thing : left = k.todo \ {s}
    BY DEF CallRecord
  <2>4. PICK q \in CallRecord :
          q = [k EXCEPT !.todo = left] /\ q.at = k.at /\ q.todo = left /\ Like(q, k)
    BY CallLeft
  <2>5. call' = [call EXCEPT ![c] = q]
    BY <1>1, <1>4, <2>3, <2>4
  <2>6. Brings(q)
    BY <1>1, <2>3, <2>4 DEF Brings, Covered, Like, Scoped, Gives, OfSessions, Lists
  <2>7. Brings(q)'
    BY <2>2, <2>6, CallStays
  <2> QED
    BY <1>1, <1>2, <2>2, <2>4, <2>5, <2>7, HostStepInv DEF IInv, Typed, HostTyped
<1> QED
  BY <1>1, <1>3, <1>4 DEF ListGranted

\* A terminal that was opened or attached to is granted.
LEMMA TerminalGrantedInv ==
  ASSUME IInv, NEW c \in Jobs, TerminalGranted(c)
  PROVE  IInv'
<1>1. /\ call[c] \in CallRecord /\ Brings(call[c]) /\ call[c].kind \in {"open", "shell_attach"}
      /\ HostStep /\ UNCHANGED <<projects, sessions, granted>>
      /\ call' = [call EXCEPT ![c] = NoCall]
      /\ RegisterTerminal(c, call[c].target, FALSE)
  BY DEF TerminalGranted, Answered, Ended, IInv, Typed, HostTyped, CallsSound, CallSound
<1>2. Covered(call[c]) /\ Belongs(call[c].target, call[c].project)
  BY <1>1 DEF Brings, Scoped, Gives
<1>3. /\ Grown /\ GrantsSound' /\ issued' = issued + 1
      /\ terminals' \subseteq [id : Nat, pg : Nat, terminal : Ids, discovery : BOOLEAN, window : Windows]
  BY <1>1, <1>2, TerminalAdded
<1> QED
  BY <1>1, <1>3, CallOver, HostStepInv DEF IInv, Typed, HostTyped

\* Each terminal of a list is granted for discovery.
LEMMA TerminalsListedInv ==
  ASSUME IInv, NEW c \in Jobs, TerminalsListed(c)
  PROVE  IInv'
<1>1. PICK k \in CallRecord : k = call[c] /\ Brings(k) /\ k.kind = "terminals" /\ k.at = "answered"
  BY DEF TerminalsListed, Answered, IInv, Typed, HostTyped, CallsSound, CallSound
<1>2. HostStep /\ UNCHANGED <<projects, sessions, granted>>
  BY DEF TerminalsListed
<1>3. CASE Ended(c) /\ UNCHANGED <<terminals, issued>>
  BY <1>2, <1>3, CallOver, RevokingInv DEF Ended
<1>4. ASSUME NEW t \in k.todo, RegisterTerminal(c, t, TRUE),
             call' = [call EXCEPT ![c].todo = call[c].todo \ {t}]
      PROVE  IInv'
  <2>1. Covered(k) /\ Belongs(t, k.project)
    BY <1>1, <1>4 DEF Brings, Scoped, Lists
  <2>2. /\ Grown /\ GrantsSound' /\ issued' = issued + 1
        /\ terminals' \subseteq [id : Nat, pg : Nat, terminal : Ids, discovery : BOOLEAN, window : Windows]
    BY <1>1, <1>2, <1>4, <2>1, TerminalAdded
  <2>3. PICK left \in SUBSET Thing : left = k.todo \ {t}
    BY DEF CallRecord
  <2>4. PICK q \in CallRecord :
          q = [k EXCEPT !.todo = left] /\ q.at = k.at /\ q.todo = left /\ Like(q, k)
    BY CallLeft
  <2>5. call' = [call EXCEPT ![c] = q]
    BY <1>1, <1>4, <2>3, <2>4
  <2>6. Brings(q)
    BY <1>1, <2>3, <2>4 DEF Brings, Covered, Like, Scoped, Gives, OfSessions, Lists
  <2>7. Brings(q)'
    BY <2>2, <2>6, CallStays
  <2> QED
    BY <1>1, <1>2, <2>2, <2>4, <2>5, <2>7, HostStepInv DEF IInv, Typed, HostTyped
<1> QED
  BY <1>1, <1>3, <1>4 DEF TerminalsListed

\* The terminal of a TUI session is granted, then the session with it.
LEMMA TuiTerminalGrantedInv ==
  ASSUME IInv, NEW c \in Jobs, TuiTerminalGranted(c)
  PROVE  IInv'
<1>1. PICK k \in CallRecord : k = call[c] /\ Brings(k) /\ k.kind \in {"tui_start", "tui_attach"}
  BY DEF TuiTerminalGranted, Answered, IInv, Typed, HostTyped, CallsSound, CallSound
<1>2. /\ HostStep /\ UNCHANGED <<projects, sessions, granted>>
      /\ call' = [call EXCEPT ![c].at = "insert", ![c].todo = {issued + 1}]
      /\ RegisterTerminal(c, k.target, FALSE)
  BY <1>1 DEF TuiTerminalGranted
<1>3. /\ Covered(k) /\ Belongs(k.target, k.project) /\ k.kind \in OfSessions
      /\ k.target \in Sessions
  BY <1>1 DEF Brings, Scoped, Gives, OfSessions
<1>4. /\ Grown /\ GrantsSound' /\ issued' = issued + 1
      /\ terminals' \subseteq [id : Nat, pg : Nat, terminal : Ids, discovery : BOOLEAN, window : Windows]
  BY <1>1, <1>2, <1>3, TerminalAdded
<1>5. PICK left \in SUBSET Thing : left = {issued + 1} /\ left # {} /\ left \subseteq Nat
  <2>1. issued + 1 \in Nat
    BY DEF IInv, Typed, HostTyped
  <2>2. {issued + 1} \in SUBSET Thing
    BY <2>1 DEF Thing
  <2> QED
    BY <2>1, <2>2
<1>6. PICK q \in CallRecord :
        q = [k EXCEPT !.at = "insert", !.todo = left] /\ q.at = "insert" /\ q.todo = left /\ Like(q, k)
  <2> DEFINE q == [k EXCEPT !.at = "insert", !.todo = left]
  <2>1. q \in CallRecord /\ q.at = "insert" /\ q.todo = left /\ Like(q, k)
    BY DEF CallRecord, Like
  <2> QED
    BY <2>1
<1>7. call' = [call EXCEPT ![c] = q]
  <2>1. call \in [Jobs -> CallRecord]
    BY DEF IInv, Typed, HostTyped
  <2> QED
    BY <1>1, <1>2, <1>5, <1>6, <2>1
<1>8. Brings(q)
  BY <1>1, <1>3, <1>6 DEF Brings, Covered, Like, Scoped, Gives, OfSessions, Lists
<1>9. Brings(q)' /\ q.kind \in OfSessions
  BY <1>3, <1>4, <1>6, <1>8, CallStays DEF Like
<1> QED
  BY <1>2, <1>4, <1>5, <1>6, <1>7, <1>9, HostStepInv DEF IInv, Typed, HostTyped

\* The session takes over the grant of its terminal.
LEMMA TuiSessionGrantedInv ==
  ASSUME IInv, NEW c \in Jobs, TuiSessionGranted(c)
  PROVE  IInv'
<1>1. PICK k \in CallRecord :
        /\ k = call[c] /\ Brings(k) /\ k.kind \in OfSessions /\ k.todo # {} /\ k.todo \subseteq Nat
  BY DEF TuiSessionGranted, IInv, Typed, HostTyped, CallsSound, CallSound
<1>2. HostStep /\ UNCHANGED <<projects, terminals, issued, granted>>
  BY DEF TuiSessionGranted
<1>3. Covered(k) /\ Belongs(k.target, k.project) /\ k.target \in Sessions
  BY <1>1 DEF Brings, Scoped, Gives, OfSessions
<1>4. PICK t \in Nat : t = CHOOSE u \in k.todo : TRUE
  BY <1>1
<1>5. sessions' = (sessions \ GrantOf(k.target))
                    \cup {[session |-> k.target, pg |-> k.pg, window |-> k.window, terminal |-> t]}
  BY <1>1, <1>4 DEF TuiSessionGranted
<1>6. PICK previous \in SUBSET Thing : previous = {g.terminal : g \in GrantOf(k.target)} \ {0}
  BY TerminalsOf
<1>7. PICK q \in CallRecord :
        q = (IF previous = {} THEN NoCall ELSE [k EXCEPT !.at = "drop", !.todo = previous])
        /\ q.at \in {"idle", "drop"}
  BY OverOrLeft
<1>8. call' = [call EXCEPT ![c] = q]
  BY <1>1, <1>6, <1>7 DEF TuiSessionGranted
<1>9. /\ Grown /\ GrantsSound'
      /\ sessions' \subseteq [session : Sessions, pg : Nat, terminal : Nat, window : Windows]
  BY <1>2, <1>3, <1>4, <1>5, SessionAdded
<1> QED
  BY <1>2, <1>7, <1>8, <1>9, HostStepInv DEF IInv, Typed, HostTyped

-----------------------------------------------------------------------------
(* Requests and the connection.                                            *)

\* What a command asks for, as a request.
Asks(r, k) ==
  r.kind = k.kind /\ r.project = k.project /\ r.roots = k.roots /\ r.target = k.target

\* The request that a command sends.
LEMMA RequestOf ==
  ASSUME NEW k \in CallRecord
  PROVE  \E r \in JobRecord :
           /\ r = [NoJob EXCEPT !.at = "queued", !.kind = k.kind, !.project = k.project, !.roots = k.roots,
                               !.target = k.target]
           /\ r.at = "queued" /\ Asks(r, k)
<1> DEFINE r == [NoJob EXCEPT !.at = "queued", !.kind = k.kind, !.project = k.project, !.roots = k.roots,
                              !.target = k.target]
<1>1. r \in JobRecord /\ r.at = "queued" /\ Asks(r, k)
  BY DEF NoJob, JobRecord, CallRecord, Asks
<1> QED
  BY <1>1

\* What the daemon may take from a command of each kind.
Wellformed(k) ==
  /\ k.kind = "resume" => k.target \in Sessions /\ Belongs(k.target, k.project)
  /\ k.kind = "tui_attach" => k.target \in Sessions
  /\ k.kind = "shell_attach" => k.target \in Ids

\* Sending an authorised command keeps the invariant.
LEMMA SendInv ==
  ASSUME IInv, NEW c \in Jobs, ~Starting(c), NEW k \in CallRecord, Authorised(k), Wellformed(k),
         Send(c, k),
         UNCHANGED <<saved, registered, live, rows, tui, watched, orphaned>>,
         UNCHANGED <<projects, terminals, sessions, broken, granted>>,
         attempts' \in [Roots -> Nat], issued' \in Nat, issued <= issued'
  PROVE  IInv'
<1>1. PICK n \in Nat : n = Connection /\ n # 0 /\ client' = n /\ (client # 0 => n = client)
  <2>1. Cardinality(broken) \in Nat /\ client \in Nat
    BY FS_CardinalityType DEF IInv, Typed, HostTyped
  <2>2. Connection \in Nat /\ Connection # 0 /\ (client # 0 => Connection = client)
    BY <2>1 DEF Connection
  <2> QED
    BY <2>2 DEF Send
<1>2. Grown
  BY DEF Grown, LiveKept, IInv, Typed, HostTyped
<1>3. GrantsSound'
  BY <1>2, GrantsStay DEF IInv, GrantsSound, Typed, HostTyped
<1>4. RowsSound' /\ OneIdentity'
  BY DEF IInv, Memory, RowsSound, OneIdentity, Belongs
<1>5. job \in [Jobs -> JobRecord] /\ call \in [Jobs -> CallRecord]
  BY DEF IInv, Typed, GatewayTyped, HostTyped
<1>6. CASE n \in broken
  <2>1. PICK q \in CallRecord : q = [k EXCEPT !.at = "lost", !.conn = n] /\ q.at = "lost" /\ q.conn = n
    <3> DEFINE q == [k EXCEPT !.at = "lost", !.conn = n]
    <3>1. q \in CallRecord /\ q.at = "lost" /\ q.conn = n
      BY DEF CallRecord
    <3> QED
      BY <3>1
  <2>2. call' = [call EXCEPT ![c] = q] /\ job' = job
    BY <1>1, <1>6, <2>1 DEF Send
  <2>3. CallSound(q, job[c])'
    BY <2>1 DEF CallSound
  <2>4. call' \in [Jobs -> CallRecord] /\ CallsSound'
    BY <1>2, <2>1, <2>2, <2>3, OneCall
  <2>5. ClientSound'
    BY <1>1, <1>5, <1>6, <2>1, <2>2 DEF IInv, ClientSound
  <2>6. Typed'
    BY <1>1, <2>2, <2>4 DEF IInv, Typed, GatewayTyped, HostTyped
  <2>7. JobsSound' /\ RunsAttended'
    BY <2>2 DEF IInv, Memory, JobsSound, JobSound, Belongs, RunsAttended, Running, Starting
  <2> QED
    BY <1>3, <1>4, <2>4, <2>5, <2>6, <2>7 DEF IInv, Memory
<1>7. CASE n \notin broken
  <2>1. PICK q \in CallRecord :
          q = [k EXCEPT !.at = "sent", !.conn = n] /\ q.at = "sent" /\ q.conn = n /\ Like(q, k)
    <3> DEFINE q == [k EXCEPT !.at = "sent", !.conn = n]
    <3>1. q \in CallRecord /\ q.at = "sent" /\ q.conn = n /\ Like(q, k)
      BY DEF CallRecord, Like
    <3> QED
      BY <3>1
  <2>2. PICK r \in JobRecord :
          /\ r = [NoJob EXCEPT !.at = "queued", !.kind = k.kind, !.project = k.project, !.roots = k.roots,
                              !.target = k.target]
          /\ r.at = "queued" /\ Asks(r, k)
    BY RequestOf
  <2>3. call' = [call EXCEPT ![c] = q] /\ job' = [job EXCEPT ![c] = r]
    BY <1>1, <1>7, <2>1, <2>2 DEF Send
  <2>4. Authorised(q)'
    <3>1. Authorised(q)
      BY <2>1 DEF Authorised, Covered, Like
    <3> QED
      BY <1>2, <2>1, <3>1, CallStays
  <2>5. job'[c] = r /\ \A i \in Jobs : i # c => job'[i] = job[i]
    BY <1>5, <2>3
  <2>6. CallSound(q, job[c])'
    <3>1. Matches(q, r)
      BY <2>1, <2>2 DEF Matches, Like, Asks
    <3> QED
      BY <2>1, <2>4, <2>5, <3>1 DEF CallSound, Matches
  <2>7. call' \in [Jobs -> CallRecord] /\ CallsSound'
    BY <1>2, <2>3, <2>5, <2>6, OneCall
  <2>8. ClientSound'
    BY <1>1, <1>5, <1>7, <2>1, <2>3 DEF IInv, ClientSound
  <2>9. Typed'
    BY <1>1, <1>5, <2>3, <2>7 DEF IInv, Typed, GatewayTyped, HostTyped
  <2>10. JobSound(r)
    BY <2>2 DEF JobSound, Authorised, Wellformed, Asks
  <2>11. JobsSound'
    BY <2>5, <2>10 DEF IInv, JobsSound, JobSound, Belongs
  <2>12. RunsAttended'
    BY <2>5 DEF IInv, Memory, RunsAttended, Running, Starting
  <2> QED
    BY <1>3, <1>4, <2>7, <2>8, <2>9, <2>11, <2>12 DEF IInv, Memory
<1> QED
  BY <1>6, <1>7

\* What failed is no longer used; nobody waits on it any more.
LEMMA InvalidateClientInv ==
  ASSUME IInv, NEW c \in Jobs, InvalidateClient(c)
  PROVE  IInv'
<1>1. /\ UNCHANGED gatewayVars
      /\ UNCHANGED <<projects, terminals, sessions, attempts, broken, issued, granted>>
      /\ call' = [call EXCEPT ![c] = NoCall] /\ call \in [Jobs -> CallRecord]
      /\ client' \in {0, client} /\ (client' # client => client \in broken)
  BY DEF InvalidateClient, Ended, IInv, Typed, HostTyped, ClientSound
<1>2. Grown
  BY <1>1 DEF Grown, LiveKept, gatewayVars, IInv, Typed, HostTyped
<1>3. call' \in [Jobs -> CallRecord] /\ CallsSound'
  BY <1>1, <1>2, CallOver, OneCall DEF CallSound, gatewayVars
<1>4. GrantsSound'
  BY <1>1, <1>2, GrantsStay DEF IInv, GrantsSound
<1>5. ClientSound'
  BY <1>1, CallOver DEF IInv, ClientSound
<1>6. Typed'
  BY <1>1, <1>3 DEF IInv, Typed, GatewayTyped, HostTyped, gatewayVars
<1>7. Memory' /\ JobsSound'
  BY <1>1 DEF IInv, Memory, RowsSound, RunsAttended, OneIdentity, Running, Starting,
     JobsSound, JobSound, Belongs, gatewayVars
<1> QED
  BY <1>3, <1>4, <1>5, <1>6, <1>7 DEF IInv

\* A registration that is given up, and answers nobody waits for.
LEMMA GivenUpInv ==
  ASSUME IInv, NEW c \in Jobs, RegistrationTimesOut(c) \/ Discard(c)
  PROVE  IInv'
<1>1. CASE RegistrationTimesOut(c)
  <2>1. /\ UNCHANGED gatewayVars
        /\ UNCHANGED <<projects, terminals, sessions, attempts, client, broken, issued, granted>>
        /\ call' = [call EXCEPT ![c] = NoCall] /\ call \in [Jobs -> CallRecord]
    BY <1>1 DEF RegistrationTimesOut, Ended, IInv, Typed, HostTyped
  <2>2. Grown
    BY <2>1 DEF Grown, LiveKept, gatewayVars, IInv, Typed, HostTyped
  <2>3. call' \in [Jobs -> CallRecord] /\ CallsSound'
    BY <2>1, <2>2, CallOver, OneCall DEF CallSound, gatewayVars
  <2>4. GrantsSound'
    BY <2>1, <2>2, GrantsStay DEF IInv, GrantsSound
  <2>5. ClientSound'
    BY <2>1, CallOver DEF IInv, ClientSound
  <2>6. Typed'
    BY <2>1, <2>3 DEF IInv, Typed, GatewayTyped, HostTyped, gatewayVars
  <2>7. Memory' /\ JobsSound'
    BY <2>1 DEF IInv, Memory, RowsSound, RunsAttended, OneIdentity, Running, Starting,
       JobsSound, JobSound, Belongs, gatewayVars
  <2> QED
    BY <2>3, <2>4, <2>5, <2>6, <2>7 DEF IInv
<1>2. CASE Discard(c)
  <2>1. /\ UNCHANGED <<saved, registered, live, rows, tui, watched, orphaned, moves, hostVars>>
        /\ job' = [job EXCEPT ![c] = NoJob] /\ job \in [Jobs -> JobRecord]
        /\ call[c].at # "sent" /\ ~Starting(c)
    BY <1>2 DEF Discard, Starting, IInv, Typed, GatewayTyped
  <2>2. HostTyped' /\ ClientSound' /\ GrantsSound'
    BY <2>1 DEF hostVars, IInv, Typed, HostTyped, ClientSound, GrantsSound, Reaches, OfGrant, Row
  <2>3. CallsSound'
    <3>1. ASSUME NEW i \in Jobs
          PROVE  CallSound(call[i], job[i])'
      <4>1. CallSound(call[i], job[i]) /\ call'[i] = call[i] /\ (i # c => job'[i] = job[i])
        BY <2>1, <3>1 DEF hostVars, IInv, CallsSound
      <4> QED
        BY <2>1, <3>1, <4>1 DEF hostVars, CallSound, Authorised, Matches, Brings, Reaches, Covered,
           OfGrant, Belongs
    <3> QED
      BY <3>1 DEF CallsSound
  <2>4. GatewayTyped' /\ RowsSound' /\ OneIdentity'
    BY <2>1, CallOver DEF IInv, Typed, GatewayTyped, Memory, RowsSound, OneIdentity, Belongs
  <2>5. JobsSound'
    <3>1. JobSound(NoJob)
      BY DEF JobSound, NoJob
    <3> QED
      BY <2>1, <3>1 DEF IInv, JobsSound, JobSound, Belongs
  <2>6. RunsAttended'
    BY <2>1 DEF IInv, Memory, RunsAttended, Running, Starting
  <2> QED
    BY <2>2, <2>3, <2>4, <2>5, <2>6 DEF IInv, Typed, Memory
<1> QED
  BY <1>1, <1>2

\* An answer: it ends the command, starts a registration or is kept for the
\* steps that grant what it brings.
LEMMA ReceiveInv ==
  ASSUME IInv, NEW c \in Jobs, Receive(c)
  PROVE  IInv'
<1>1. PICK k \in CallRecord, b \in JobRecord :
        /\ k = call[c] /\ b = job[c] /\ k.at = "sent" /\ b.at \in {"ok", "no"}
        /\ Authorised(k) /\ Matches(k, b) /\ JobSound(b)
  <2>1. call[c] \in CallRecord /\ job[c] \in JobRecord
    BY DEF IInv, Typed, GatewayTyped, HostTyped
  <2>2. /\ call[c].at = "sent" /\ job[c].at \in {"ok", "no"}
        /\ Authorised(call[c]) /\ Matches(call[c], job[c]) /\ JobSound(job[c])
    BY DEF Receive, IInv, CallsSound, CallSound, JobsSound
  <2> QED
    BY <2>1, <2>2
<1>2. /\ attempts \in [Roots -> Nat] /\ issued \in Nat
      /\ job \in [Jobs -> JobRecord] /\ call \in [Jobs -> CallRecord]
      /\ UNCHANGED <<saved, registered, live, rows, tui, watched, orphaned, moves>>
      /\ UNCHANGED <<open, projects, terminals, sessions, broken, issued, granted>>
      /\ ~Starting(c)
  BY <1>1 DEF Receive, Starting, IInv, Typed, GatewayTyped, HostTyped
<1>3. Settled(c) => attempts' \in [Roots -> Nat]
  <2>1. ASSUME Settled(c)
        PROVE  attempts' \in [Roots -> Nat]
    BY <1>2, <2>1 DEF Settled
  <2> QED
    BY <2>1
<1>4. ASSUME NEW q \in CallRecord, call' = [call EXCEPT ![c] = q], job' = [job EXCEPT ![c] = NoJob],
             q.at \in {"idle", "answered"}, q.at = "answered" => Brings(q),
             Settled(c) \/ UNCHANGED attempts, UNCHANGED client
      PROVE  IInv'
  <2>1. Grown
    BY <1>2 DEF Grown, LiveKept, IInv, Typed, HostTyped
  <2>2. Brings(q) => Brings(q)'
    BY <1>4, <2>1, CallStays
  <2>3. CallSound(q, job[c])' /\ \A i \in Jobs : i # c => job'[i] = job[i]
    BY <1>2, <1>4, <2>2 DEF CallSound
  <2>4. call' \in [Jobs -> CallRecord] /\ CallsSound'
    BY <1>4, <2>1, <2>3, OneCall
  <2>5. GrantsSound'
    BY <1>2, <2>1, GrantsStay DEF IInv, GrantsSound
  <2>6. ClientSound'
    BY <1>2, <1>4 DEF IInv, ClientSound
  <2>7. Typed'
    BY <1>2, <1>3, <1>4, <2>4, CallOver DEF IInv, Typed, GatewayTyped, HostTyped
  <2>8. JobsSound'
    <3>1. JobSound(NoJob)
      BY DEF JobSound, NoJob
    <3> QED
      BY <1>2, <1>4, <3>1 DEF IInv, JobsSound, JobSound, Belongs
  <2>9. RunsAttended' /\ RowsSound' /\ OneIdentity'
    BY <1>2, <1>4 DEF IInv, Memory, RunsAttended, Running, Starting, RowsSound, OneIdentity, Belongs
  <2> QED
    BY <2>4, <2>5, <2>6, <2>7, <2>8, <2>9 DEF IInv, Memory
<1>5. CASE /\ Ended(c) /\ (IF k.kind = "register" THEN Settled(c) ELSE UNCHANGED attempts)
           /\ job' = [job EXCEPT ![c] = NoJob] /\ UNCHANGED client
  BY <1>4, <1>5, CallOver DEF Ended
<1>6. ASSUME b.at = "ok", k.kind = "recent", NEW p \in b.found,
             Send(c, [Call(k.window, "register") EXCEPT !.project = p.id, !.roots = p.roots]),
             UNCHANGED attempts
      PROVE  IInv'
  <2>1. p \in Row /\ p.id # NoProject
    BY <1>1, <1>6 DEF JobSound, Matches
  <2>2. PICK m \in CallRecord :
          /\ m = [Call(k.window, "register") EXCEPT !.project = p.id, !.roots = p.roots]
          /\ m.kind = "register" /\ m.project = p.id /\ m.roots = p.roots /\ m.target = "none"
    <3> DEFINE m == [Call(k.window, "register") EXCEPT !.project = p.id, !.roots = p.roots]
    <3>1. /\ m \in CallRecord /\ m.kind = "register" /\ m.project = p.id /\ m.roots = p.roots
          /\ m.target = "none"
      BY <2>1, HostAssumption DEF Call, NoCall, CallRecord, Row, Target, Kinds, NoProject
    <3> QED
      BY <3>1
  <2>3. Authorised(m) /\ Wellformed(m)
    BY <2>1, <2>2, IdsDistinct DEF Authorised, Wellformed, Scoped, Gives, Lists, Row
  <2>4. attempts' \in [Roots -> Nat] /\ issued' \in Nat /\ issued <= issued'
    BY <1>2, <1>6
  <2> QED
    BY <1>2, <1>6, <2>2, <2>3, <2>4, SendInv
<1>7. ASSUME b.at = "ok", k.kind \in HasGrants,
             call' = [call EXCEPT ![c] = [k EXCEPT !.at = "answered", !.target = b.target,
                                           !.todo = IF k.kind = "register" THEN {b.project} ELSE b.found]],
             IF k.kind = "register" THEN Settled(c) ELSE UNCHANGED attempts,
             job' = [job EXCEPT ![c] = NoJob], UNCHANGED client
      PROVE  IInv'
  <2>1. PICK todo \in SUBSET Thing : todo = IF k.kind = "register" THEN {b.project} ELSE b.found
    BY DEF JobRecord, Thing
  <2>2. k.kind = "register" => todo = {b.project} /\ b.project \in Nat \ {NoProject}
    BY <1>1, <2>1 DEF JobRecord, Matches, JobSound
  <2>3. PICK q \in CallRecord :
          /\ q = [k EXCEPT !.at = "answered", !.target = b.target, !.todo = todo]
          /\ q.at = "answered" /\ q.kind = k.kind /\ q.window = k.window /\ q.pg = k.pg
          /\ q.project = k.project /\ q.roots = k.roots /\ q.target = b.target /\ q.todo = todo
    <3> DEFINE q == [k EXCEPT !.at = "answered", !.target = b.target, !.todo = todo]
    <3>1. /\ q \in CallRecord /\ q.at = "answered" /\ q.kind = k.kind /\ q.window = k.window /\ q.pg = k.pg
          /\ q.project = k.project /\ q.roots = k.roots /\ q.target = b.target /\ q.todo = todo
      BY DEF CallRecord, JobRecord
    <3> QED
      BY <3>1
  <2>4. call' = [call EXCEPT ![c] = q]
    BY <1>7, <2>1, <2>3
  <2>5. Covered(k) => Covered(q)
    BY <2>3 DEF Covered
  <2>6. Brings(q)
    BY <1>1, <1>7, <2>1, <2>2, <2>3, <2>5
    DEF Brings, JobSound, Matches, Authorised, Scoped, Gives, Lists, OfSessions
  <2> QED
    BY <1>4, <1>7, <2>3, <2>4, <2>6
<1>8. \/ /\ Ended(c) /\ (IF k.kind = "register" THEN Settled(c) ELSE UNCHANGED attempts)
         /\ job' = [job EXCEPT ![c] = NoJob] /\ UNCHANGED client
      \/ /\ b.at = "ok" /\ k.kind = "recent" /\ UNCHANGED attempts
         /\ \E p \in b.found :
              Send(c, [Call(k.window, "register") EXCEPT !.project = p.id, !.roots = p.roots])
      \/ /\ b.at = "ok" /\ k.kind \in HasGrants
         /\ call' = [call EXCEPT ![c] = [k EXCEPT !.at = "answered", !.target = b.target,
                                           !.todo = IF k.kind = "register" THEN {b.project} ELSE b.found]]
         /\ IF k.kind = "register" THEN Settled(c) ELSE UNCHANGED attempts
         /\ job' = [job EXCEPT ![c] = NoJob] /\ UNCHANGED client
  BY <1>1 DEF Receive
<1> QED
  BY <1>5, <1>6, <1>7, <1>8

-----------------------------------------------------------------------------
(* Faults and windows.                                                     *)

\* After the connection is gone nobody waits for an answer.
LEMMA DisconnectedCalls ==
  ASSUME IInv, Disconnected
  PROVE  /\ call' \in [Jobs -> CallRecord] /\ IsFiniteSet(broken')
         /\ ClientSound' /\ \A i \in Jobs : call'[i].at # "sent"
         /\ \A i \in Jobs : call'[i].at # "lost" => call'[i] = call[i]
<1>1. call \in [Jobs -> CallRecord] /\ IsFiniteSet(broken)
  BY DEF IInv, Typed, HostTyped
<1>2. ASSUME NEW i \in Jobs
      PROVE  /\ call'[i] \in CallRecord /\ call'[i].at # "sent"
             /\ call'[i].at # "lost" => call'[i] = call[i]
             /\ call'[i].at = "lost" => call'[i].conn \in broken'
  <2>1. CASE call[i].at = "sent"
    <3>1. call[i].conn = client
      BY <2>1 DEF IInv, ClientSound
    <3>2. call'[i] = [call[i] EXCEPT !.at = "lost"]
      BY <2>1, <3>1 DEF Disconnected, Waiting
    <3>3. call'[i] \in CallRecord /\ call'[i].at = "lost" /\ call'[i].conn = client
      <4>1. call[i] \in CallRecord
        BY <1>1
      <4> QED
        BY <3>1, <3>2, <4>1 DEF CallRecord
    <3> QED
      BY <3>3 DEF Disconnected
  <2>2. CASE call[i].at # "sent"
    <3>1. call'[i] = call[i] /\ broken \subseteq broken'
      BY <2>2 DEF Disconnected, Waiting
    <3>2. call[i].at = "lost" => call[i].conn \in broken
      BY DEF IInv, ClientSound
    <3>3. call[i] \in CallRecord
      BY <1>1
    <3> QED
      BY <2>2, <3>1, <3>2, <3>3
  <2> QED
    BY <2>1, <2>2
<1>3. IsFiniteSet(broken')
  BY <1>1, FS_AddElement DEF Disconnected
<1>4. call' = [i \in Jobs |-> call'[i]]
  BY DEF Disconnected
<1> QED
  BY <1>2, <1>3, <1>4 DEF ClientSound

\* A lost connection detaches or drops requests; runs of dropped handlers are
\* orphaned.
LEMMA ConnectionBreaksInv ==
  ASSUME IInv, ConnectionBreaks
  PROVE  IInv'
<1>1. PICK aborted \in {{}, {c \in Waiting(client) : job[c].at # "idle"}} : Abort(aborted)
  BY DEF ConnectionBreaks
<1>2. /\ UNCHANGED <<saved, registered, live, rows, tui, watched>>
      /\ UNCHANGED <<open, projects, terminals, sessions, attempts, client, issued, granted>>
      /\ Disconnected /\ aborted \subseteq Jobs
      /\ job \in [Jobs -> JobRecord]
      /\ job' = [j \in Jobs |-> IF j \in aborted THEN NoJob ELSE job[j]]
      /\ orphaned' = orphaned \cup
           {<<job[j].target, live[job[j].target].run>> : j \in {j \in aborted : Starting(j)}}
  BY <1>1 DEF ConnectionBreaks, Disconnected, Abort, Waiting, IInv, Typed, GatewayTyped
<1>3. /\ call' \in [Jobs -> CallRecord] /\ IsFiniteSet(broken')
      /\ ClientSound' /\ \A i \in Jobs : call'[i].at # "sent"
      /\ \A i \in Jobs : call'[i].at # "lost" => call'[i] = call[i]
  BY <1>2, DisconnectedCalls
<1>4. Typed'
  BY <1>2, <1>3, CallOver DEF IInv, Typed, GatewayTyped, HostTyped
<1>5. CallsSound'
  BY <1>2, <1>3 DEF IInv, CallsSound, CallSound, Brings, Covered, OfGrant, Belongs
<1>6. JobsSound'
  <2>1. JobSound(NoJob)
    BY DEF JobSound, NoJob
  <2> QED
    BY <1>2, <2>1 DEF IInv, JobsSound, JobSound, Belongs
<1>7. RunsAttended'
  <2>1. ASSUME NEW s \in Sessions, Running(s)
        PROVE  \/ <<s, live[s].run>> \in watched \cup orphaned'
               \/ \E i \in Jobs : Starting(i)' /\ job'[i].target = s
    <3>1. CASE <<s, live[s].run>> \in watched \cup orphaned
      BY <1>2, <3>1
    <3>2. ASSUME NEW i \in Jobs, Starting(i), job[i].target = s
          PROVE  \/ <<s, live[s].run>> \in watched \cup orphaned'
                 \/ \E k \in Jobs : Starting(k)' /\ job'[k].target = s
      <4>1. CASE i \in aborted
        BY <1>2, <3>2, <4>1
      <4>2. CASE i \notin aborted
        BY <1>2, <3>2, <4>2 DEF Starting
      <4> QED
        BY <4>1, <4>2
    <3> QED
      BY <2>1, <3>1, <3>2 DEF IInv, Memory, RunsAttended
  <2> QED
    BY <1>2, <2>1 DEF RunsAttended, Running
<1>8. RowsSound' /\ OneIdentity' /\ GrantsSound'
  BY <1>2 DEF IInv, Memory, RowsSound, OneIdentity, Belongs, GrantsSound, Reaches, OfGrant
<1> QED
  BY <1>3, <1>4, <1>5, <1>6, <1>7, <1>8 DEF IInv, Memory

\* The next daemon runs nothing.
LEMMA DaemonRestartsInv ==
  ASSUME IInv, DaemonRestarts
  PROVE  IInv'
<1>1. /\ UNCHANGED <<saved, rows>> /\ registered' = {}
      /\ UNCHANGED <<open, projects, terminals, sessions, attempts, client, issued, granted>>
      /\ Disconnected /\ job' = [j \in Jobs |-> NoJob]
      /\ live \in [Ids -> LiveRecord]
      /\ live' = [i \in Ids |-> IF live[i] = Absent THEN Absent
                                ELSE [live[i] EXCEPT !.kind = "none", !.life = "gone"]]
  BY DEF DaemonRestarts, Restart, Disconnected, IInv, Typed, GatewayTyped
<1>2. ASSUME NEW i \in Ids
      PROVE  live'[i] \in LiveRecord /\ live'[i].project = live[i].project /\ live'[i].life # "running"
  <2>1. live[i] \in LiveRecord
    BY <1>1
  <2>2. CASE live[i] = Absent
    <3>1. live'[i] = live[i]
      BY <1>1, <2>2
    <3> QED
      BY <2>1, <2>2, <3>1 DEF Absent
  <2>3. CASE live[i] # Absent
    <3>1. live'[i] = [live[i] EXCEPT !.kind = "none", !.life = "gone"]
      BY <1>1, <2>3
    <3> QED
      BY <2>1, <3>1 DEF LiveRecord, LiveKinds, Lives
  <2> QED
    BY <2>2, <2>3
<1>3. live' \in [Ids -> LiveRecord] /\ LiveKept
  <2>1. live' = [i \in Ids |-> live'[i]]
    BY <1>1
  <2> QED
    BY <1>2, <2>1 DEF LiveKept
<1>4. Grown
  <2>1. issued \in Nat
    BY DEF IInv, Typed, HostTyped
  <2>2. UNCHANGED <<projects, issued, granted>>
    BY <1>1
  <2> QED
    BY <1>3, <2>1, <2>2 DEF Grown
<1>5. /\ call' \in [Jobs -> CallRecord] /\ IsFiniteSet(broken')
      /\ ClientSound' /\ \A i \in Jobs : call'[i].at # "sent"
      /\ \A i \in Jobs : call'[i].at # "lost" => call'[i] = call[i]
  BY <1>1, DisconnectedCalls
<1>6. Typed'
  BY <1>1, <1>3, <1>5, CallOver DEF IInv, Typed, GatewayTyped, HostTyped
<1>7. CallsSound'
  <2>1. ASSUME NEW i \in Jobs
        PROVE  CallSound(call[i], job[i])'
    <3>1. CASE call'[i].at = "lost"
      BY <3>1 DEF CallSound
    <3>2. CASE call'[i].at # "lost"
      <4>1. call'[i] = call[i] /\ call[i] \in CallRecord /\ call'[i].at # "sent" /\ CallSound(call[i], job[i])
        BY <1>5, <3>2 DEF IInv, CallsSound, Typed, HostTyped
      <4>2. \A m \in CallRecord : Brings(m) => Brings(m)'
        BY <1>4, CallStays
      <4>3. Brings(call[i]) => Brings(call[i])'
        BY <4>1, <4>2 DEF Brings, Covered, OfGrant, Belongs
      <4> QED
        BY <4>1, <4>3 DEF CallSound
    <3> QED
      BY <3>1, <3>2
  <2> QED
    BY <2>1 DEF CallsSound
<1>8. JobsSound'
  BY <1>1 DEF JobsSound, JobSound, NoJob
<1>9. RunsAttended'
  BY <1>2 DEF RunsAttended, Running, Ids
<1>10. RowsSound' /\ OneIdentity'
  BY <1>1, <1>3, RowsStay DEF IInv, Memory, OneIdentity
<1>11. GrantsSound'
  BY <1>1, <1>4, GrantsStay DEF IInv, GrantsSound
<1> QED
  BY <1>5, <1>6, <1>7, <1>8, <1>9, <1>10, <1>11 DEF IInv, Memory

\* A window that opens has no grants; one that is destroyed loses them.
LEMMA WindowsInv ==
  ASSUME IInv, NEW w \in Windows, OpenNewWindow(w) \/ WindowDestroyed(w)
  PROVE  IInv'
<1>1. /\ UNCHANGED <<gatewayVars, attempts, call, client, broken, issued, granted>>
      /\ projects' \subseteq projects /\ terminals' \subseteq terminals /\ sessions' \subseteq sessions
  BY DEF OpenNewWindow, WindowDestroyed
<1>2. Grown
  BY <1>1 DEF Grown, LiveKept, gatewayVars, IInv, Typed, HostTyped
<1>3. GrantsSound'
  BY <1>1, <1>2, GrantsStay DEF IInv, GrantsSound
<1>4. Typed'
  BY <1>1 DEF IInv, Typed, GatewayTyped, HostTyped, gatewayVars
<1>5. Memory' /\ JobsSound' /\ ClientSound'
  BY <1>1 DEF IInv, Memory, RowsSound, RunsAttended, OneIdentity, Running, Starting,
     JobsSound, JobSound, Belongs, ClientSound, gatewayVars
<1>6. CallsSound'
  BY <1>1 DEF IInv, CallsSound, CallSound, Authorised, Matches, Brings, Reaches, Covered, OfGrant,
     Belongs,
     gatewayVars
<1> QED
  BY <1>3, <1>4, <1>5, <1>6 DEF IInv

-----------------------------------------------------------------------------
(* Commands.                                                               *)

\* An authorised command.
LEMMA AskInv ==
  ASSUME IInv, NEW c \in Jobs, Idle(c), NEW k \in CallRecord, Authorised(k), Wellformed(k), Ask(c,
         k),
         attempts' \in [Roots -> Nat], issued' \in Nat, issued <= issued'
  PROVE  IInv'
<1>1. ~Starting(c)
  BY DEF Idle, Starting
<1> QED
  BY <1>1, SendInv DEF Ask

\* The same when it takes no id.
LEMMA PlainAskInv ==
  ASSUME IInv, NEW c \in Jobs, Idle(c), NEW k \in CallRecord, Authorised(k), Wellformed(k), Ask(c,
         k),
         UNCHANGED <<attempts, issued>>
  PROVE  IInv'
<1>1. attempts' \in [Roots -> Nat] /\ issued' \in Nat /\ issued <= issued'
  BY DEF IInv, Typed, HostTyped
<1> QED
  BY <1>1, AskInv

\* A command that names nothing.
LEMMA CallOf ==
  ASSUME NEW w \in Windows, NEW kind \in Kinds
  PROVE  \E k \in CallRecord :
           k = Call(w, kind) /\ k.kind = kind /\ k.window = w /\ k.target = "none"
<1> DEFINE k == Call(w, kind)
<1>1. k \in CallRecord /\ k.kind = kind /\ k.window = w /\ k.target = "none"
  BY CallOver DEF Call, CallRecord, NoCall
<1> QED
  BY <1>1

\* Commands about nothing in particular.
LEMMA GlobalCommandsInv ==
  ASSUME IInv, NEW c \in Jobs, NEW w \in Windows, GlobalCommand(c, w) \/ StopAllCommand(c, w)
  PROVE  IInv'
<1>1. PICK kind \in {"stored", "stop_all"} :
        Idle(c) /\ Ask(c, Call(w, kind)) /\ UNCHANGED <<attempts, issued>>
  BY DEF GlobalCommand, StopAllCommand, Free
<1>2. PICK k \in CallRecord : k = Call(w, kind) /\ k.kind = kind /\ k.window = w /\ k.target = "none"
  <2>1. kind \in Kinds
    BY DEF Kinds
  <2> QED
    BY <2>1, CallOf
<1>3. Authorised(k) /\ Wellformed(k)
  BY <1>1, <1>2, IdsDistinct DEF Authorised, Wellformed, Scoped, Gives, Lists
<1> QED
  BY <1>1, <1>2, <1>3, PlainAskInv

\* Commands under a project grant.
LEMMA OfProjectInv ==
  ASSUME IInv, NEW c \in Jobs, NEW w \in Windows, NEW g \in ProjectGrants(w), Free(c, w),
         NEW kind \in {"stored", "project", "start", "tui_start", "list", "open", "terminals"},
         OfProject(c, w, g, kind)
  PROVE  IInv'
<1>1. g \in projects /\ g.window = w /\ g.id \in Nat /\ g.project \in Nat
  BY DEF ProjectGrants, IInv, Typed, HostTyped
<1>2. PICK k \in CallRecord :
        /\ k = [Call(w, kind) EXCEPT !.pg = g.id, !.project = g.project]
        /\ k.kind = kind /\ k.window = w /\ k.target = "none" /\ k.pg = g.id /\ k.project = g.project
  <2> DEFINE k == [Call(w, kind) EXCEPT !.pg = g.id, !.project = g.project]
  <2>1. kind \in Kinds
    BY DEF Kinds
  <2>2. /\ k \in CallRecord /\ k.kind = kind /\ k.window = w /\ k.target = "none" /\ k.pg = g.id
        /\ k.project = g.project
    BY <1>1, <2>1, CallOver DEF Call, CallRecord, NoCall
  <2> QED
    BY <2>2
<1>3. Idle(c) /\ Ask(c, k) /\ UNCHANGED <<attempts, issued>>
  BY <1>2 DEF OfProject, Free
<1>4. Covered(k)
  BY <1>1, <1>2 DEF Covered, OfGrant, IInv, GrantsSound
<1>5. Authorised(k) /\ Wellformed(k)
  BY <1>2, <1>4, IdsDistinct DEF Authorised, Wellformed
<1> QED
  BY <1>3, <1>5, PlainAskInv

\* Commands under a session grant, some of them under its project grant too.
LEMMA OfSessionInv ==
  ASSUME IInv, NEW c \in Jobs, NEW w \in Windows, NEW g \in SessionGrants(w), Free(c, w),
         NEW kind \in {"session", "stop", "tui_attach", "attach", "resume"}, NEW p,
         \/ kind \in {"session", "stop"} /\ p = NoProject
         \/ \E h \in ProjectGrants(w) : g.pg = h.id /\ p = h.project,
         OfSession(c, w, g, kind, p)
  PROVE  IInv'
<1>1. g \in sessions /\ g.window = w /\ g.pg \in Nat /\ g.session \in Sessions /\ g.session \in Ids
  BY DEF SessionGrants, IInv, Typed, HostTyped, Ids
<1>2. Reaches(w, g.session) /\ OfGrant(g.pg, live[g.session].project)
  BY <1>1 DEF IInv, GrantsSound
<1>3. p \in Nat /\ (kind \notin {"session", "stop"} => p = live[g.session].project)
  BY <1>2 DEF OfGrant, ProjectGrants, IInv, Typed, HostTyped, NoProject
<1>4. PICK i \in Ids : i = g.session
  BY <1>1
<1>5. PICK k \in CallRecord :
        /\ k = [Call(w, kind) EXCEPT !.pg = g.pg, !.project = p, !.target = g.session]
        /\ k.kind = kind /\ k.window = w /\ k.target = i /\ k.pg = g.pg /\ k.project = p
  <2> DEFINE k == [Call(w, kind) EXCEPT !.pg = g.pg, !.project = p, !.target = g.session]
  <2>1. kind \in Kinds /\ i \in Target
    BY DEF Kinds, Target
  <2>2. k \in CallRecord /\ k.kind = kind /\ k.window = w /\ k.target = i /\ k.pg = g.pg /\ k.project = p
    BY <1>1, <1>3, <1>4, <2>1, CallOver DEF Call, CallRecord, NoCall
  <2> QED
    BY <2>2
<1>6. Idle(c) /\ Ask(c, k) /\ UNCHANGED <<attempts, issued>>
  BY <1>5 DEF OfSession, Free
<1>7. kind \notin {"session", "stop"} => Covered(k) /\ Belongs(k.target, k.project)
  BY <1>2, <1>3, <1>4, <1>5 DEF Covered, Belongs, Reaches
<1>8. Authorised(k) /\ Wellformed(k)
  BY <1>1, <1>2, <1>4, <1>5, <1>7 DEF Authorised, Wellformed, Scoped, Gives, Lists
<1> QED
  BY <1>6, <1>8, PlainAskInv

\* Commands under a terminal grant.
LEMMA OfTerminalInv ==
  ASSUME IInv, NEW c \in Jobs, NEW w \in Windows, NEW g \in TerminalGrants(w), Free(c, w),
         NEW kind \in {"terminal", "close", "shell_attach"}, NEW p,
         \/ kind \in {"terminal", "close"} /\ p = NoProject
         \/ \E h \in ProjectGrants(w) : g.pg = h.id /\ p = h.project,
         OfTerminal(c, w, g, kind, p)
  PROVE  IInv'
<1>1. g \in terminals /\ g.window = w /\ g.pg \in Nat /\ g.terminal \in Ids
  BY DEF TerminalGrants, IInv, Typed, HostTyped
<1>2. Reaches(w, g.terminal) /\ OfGrant(g.pg, live[g.terminal].project)
  BY <1>1 DEF IInv, GrantsSound
<1>3. p \in Nat /\ (kind = "shell_attach" => p = live[g.terminal].project)
  BY <1>2 DEF OfGrant, ProjectGrants, IInv, Typed, HostTyped, NoProject
<1>4. PICK i \in Ids : i = g.terminal
  BY <1>1
<1>5. PICK k \in CallRecord :
        /\ k = [Call(w, kind) EXCEPT !.pg = g.pg, !.project = p, !.target = g.terminal]
        /\ k.kind = kind /\ k.window = w /\ k.target = i /\ k.pg = g.pg /\ k.project = p
  <2> DEFINE k == [Call(w, kind) EXCEPT !.pg = g.pg, !.project = p, !.target = g.terminal]
  <2>1. kind \in Kinds /\ i \in Target
    BY DEF Kinds, Target
  <2>2. k \in CallRecord /\ k.kind = kind /\ k.window = w /\ k.target = i /\ k.pg = g.pg /\ k.project = p
    BY <1>1, <1>3, <1>4, <2>1, CallOver DEF Call, CallRecord, NoCall
  <2> QED
    BY <2>2
<1>6. Idle(c) /\ Ask(c, k) /\ UNCHANGED <<attempts, issued>>
  BY <1>5 DEF OfTerminal, Free
<1>7. kind = "shell_attach" => Covered(k)
  BY <1>2, <1>3, <1>5 DEF Covered, Reaches
<1>8. Authorised(k) /\ Wellformed(k)
  BY <1>2, <1>4, <1>5, <1>7 DEF Authorised, Wellformed, Scoped, Gives, Lists
<1> QED
  BY <1>6, <1>8, PlainAskInv

\* Opening a folder or a recent project.
LEMMA OpenProjectInv ==
  ASSUME IInv, NEW c \in Jobs, NEW w \in Windows,
         (\E r \in Roots : OpenProjectFolder(c, w, r)) \/ (\E p \in saved : OpenRecentProject(c, w, p))
  PROVE  IInv'
<1>1. attempts \in [Roots -> Nat] /\ issued \in Nat /\ saved \subseteq Row
  BY DEF IInv, Typed, GatewayTyped, HostTyped
<1>2. ASSUME NEW r \in Roots, OpenProjectFolder(c, w, r)
      PROVE  IInv'
  <2>1. PICK id \in Nat : /\ id = IF attempts[r] # 0 THEN attempts[r] ELSE issued + 1
                          /\ id # NoProject
    BY <1>1 DEF NoProject
  <2>2. PICK k \in CallRecord :
          /\ k = [Call(w, "register") EXCEPT !.project = id, !.roots = r, !.target = "folder"]
          /\ k.kind = "register" /\ k.window = w /\ k.target = "folder" /\ k.project = id /\ k.roots = r
    <3> DEFINE k == [Call(w, "register") EXCEPT !.project = id, !.roots = r, !.target = "folder"]
    <3>1. /\ k \in CallRecord /\ k.kind = "register" /\ k.window = w /\ k.target = "folder"
          /\ k.project = id /\ k.roots = r
      BY CallOver DEF Call, CallRecord, NoCall, Target, Kinds
    <3> QED
      BY <3>1
  <2>3. /\ Idle(c) /\ Ask(c, k) /\ attempts' = [attempts EXCEPT ![r] = id]
        /\ issued' = IF id = issued + 1 THEN id ELSE issued
    BY <1>2, <2>1, <2>2 DEF OpenProjectFolder, Free
  <2>4. Authorised(k) /\ Wellformed(k)
    BY <2>1, <2>2, HostAssumption DEF Authorised, Wellformed, Scoped, Gives, Lists
  <2>5. attempts' \in [Roots -> Nat] /\ issued' \in Nat /\ issued <= issued'
    BY <1>1, <2>3
  <2> QED
    BY <2>3, <2>4, <2>5, AskInv
<1>3. ASSUME NEW p \in saved, OpenRecentProject(c, w, p)
      PROVE  IInv'
  <2>1. PICK k \in CallRecord :
          k = [Call(w, "recent") EXCEPT !.project = p.id] /\ k.kind = "recent" /\ k.target = "none"
    <3> DEFINE k == [Call(w, "recent") EXCEPT !.project = p.id]
    <3>1. p.id \in Nat
      BY <1>1, <1>3 DEF Row
    <3>2. k \in CallRecord /\ k.kind = "recent" /\ k.target = "none"
      BY <3>1, CallOver DEF Call, CallRecord, NoCall, Kinds
    <3> QED
      BY <3>2
  <2>2. Idle(c) /\ Ask(c, k) /\ UNCHANGED <<attempts, issued>>
    BY <1>3, <2>1 DEF OpenRecentProject, Free
  <2>3. Authorised(k) /\ Wellformed(k)
    BY <2>1, IdsDistinct DEF Authorised, Wellformed, Scoped, Gives, Lists
  <2> QED
    BY <2>2, <2>3, PlainAskInv
<1> QED
  BY <1>2, <1>3

\* Every command is one of these.
LEMMA CommandInv ==
  ASSUME IInv, NEW c \in Jobs, NEW w \in Windows, Command(c, w)
  PROVE  IInv'
<1>1. CASE \/ LayoutCommand(c, w) \/ FileCommand(c, w) \/ SearchCommand(c, w) \/ GitCommand(c, w)
           \/ FakeSessionStartCommand(c, w) \/ FakeTuiStartCommand(c, w) \/ SessionListCommand(c, w)
           \/ TerminalOpenCommand(c, w) \/ TerminalListCommand(c, w)
  BY <1>1, OfProjectInv
  DEF LayoutCommand, FileCommand, SearchCommand, GitCommand, FakeSessionStartCommand,
      FakeTuiStartCommand, SessionListCommand, TerminalOpenCommand, TerminalListCommand
<1>2. CASE SessionReadCommand(c, w) \/ SessionAnswerCommand(c, w) \/ SessionStopCommand(c, w)
  BY <1>2, OfSessionInv DEF SessionReadCommand, SessionAnswerCommand, SessionStopCommand
<1>3. CASE FakeTuiAttachCommand(c, w) \/ FakeSessionAttachCommand(c, w) \/ FakeSessionResumeCommand(c, w)
  <2>1. PICK g \in SessionGrants(w), p \in ProjectGrants(w), kind \in {"tui_attach", "attach", "resume"} :
          Free(c, w) /\ g.pg = p.id /\ OfSession(c, w, g, kind, p.project)
    BY <1>3 DEF FakeTuiAttachCommand, FakeSessionAttachCommand, FakeSessionResumeCommand
  <2> QED
    BY <2>1, OfSessionInv
<1>4. CASE TerminalCommand(c, w) \/ TerminalCloseCommand(c, w)
  BY <1>4, OfTerminalInv DEF TerminalCommand, TerminalCloseCommand
<1>5. CASE TerminalAttachCommand(c, w)
  BY <1>5, OfTerminalInv DEF TerminalAttachCommand
<1> QED
  BY <1>1, <1>2, <1>3, <1>4, <1>5, GlobalCommandsInv, OpenProjectInv DEF Command

-----------------------------------------------------------------------------
(* Theorems.                                                               *)

\* Nothing exists at the start.
LEMMA InitInv == Init => IInv
<1> SUFFICES ASSUME Init
             PROVE  IInv
  OBVIOUS
<1>1. /\ saved = {} /\ registered = {} /\ projects = {} /\ terminals = {} /\ sessions = {}
      /\ live = [i \in Ids |-> Absent] /\ rows = [s \in Sessions |-> NoRow]
      /\ job = [j \in Jobs |-> NoJob] /\ call = [c \in Jobs |-> NoCall]
      /\ attempts = [r \in Roots |-> 0] /\ client = 0 /\ broken = {} /\ issued = 0
      /\ granted = [w \in Windows |-> {}]
  BY DEF Init, GatewayInit
<1>2. Typed
  <2>1. Absent \in LiveRecord /\ NoRow \in RowRecord
    BY DEF Absent, NoRow, NoProject, LiveRecord, RowRecord, LiveKinds, Lives
  <2>2. GatewayTyped
    BY <1>1, <2>1, CallOver DEF GatewayTyped
  <2>3. HostTyped
    BY <1>1, CallOver, FS_EmptySet DEF HostTyped
  <2> QED
    BY <2>2, <2>3 DEF Typed
<1>3. Memory
  BY <1>1 DEF Memory, RowsSound, RunsAttended, OneIdentity, Running, Absent, Ids
<1>4. JobsSound /\ CallsSound /\ ClientSound /\ GrantsSound
  BY <1>1 DEF JobsSound, JobSound, NoJob, CallsSound, CallSound, NoCall, ClientSound, GrantsSound
<1> QED
  BY <1>2, <1>3, <1>4 DEF IInv

\* Every step keeps the invariant.
LEMMA NextInv == IInv /\ [Next]_vars => IInv'
<1> SUFFICES ASSUME IInv, [Next]_vars
             PROVE  IInv'
  OBVIOUS
<1>1. CASE UNCHANGED vars
  BY <1>1 DEF vars, gatewayVars, hostVars, IInv, Typed, GatewayTyped, HostTyped, Memory, RowsSound,
     RunsAttended, OneIdentity, Running, Starting, JobsSound, JobSound, Belongs, ClientSound,
     CallsSound, CallSound, Authorised, Matches, Brings, Reaches, Covered, OfGrant, GrantsSound
<1>2. ASSUME NEW c \in Jobs, Answer(c)
      PROVE  IInv'
  BY <1>2, ReceiveInv, GrantProjectInv, RevokesInv, StartGrantedInv, ListGrantedInv,
     TerminalGrantedInv, TerminalsListedInv, TuiTerminalGrantedInv, TuiSessionGrantedInv
  DEF Answer
<1> QED
  BY <1>1, <1>2, CommandInv, InvalidateClientInv, GivenUpInv, WindowsInv, ConnectionBreaksInv,
     DaemonRestartsInv, GatewayInv
  DEF Next

\* The inductive invariant holds: for any windows, commands, roots, sessions
\* and terminals, across lost connections, dropped handlers and restarts.
THEOREM Invariance == Spec => []IInv
  BY InitInv, NextInv, PTL DEF Spec

\* A request that reaches the daemon names work of a project its window was
\* granted, every run is attended and in its own project, and a set of roots
\* has one identity (lib.rs:375-513, server.rs:759-800).
THEOREM ScopingHolds == Spec => []WorkScoped
<1>1. IInv => WorkScoped
  <2> SUFFICES ASSUME IInv
               PROVE  WorkScoped
    OBVIOUS
  <2>1. RequestsScoped
    <3>1. ASSUME NEW c \in Jobs, call[c].at = "sent", call[c].target \in Ids
          PROVE  /\ live[call[c].target].project \in granted[call[c].window] \cup {NoProject}
                 /\ call[c].target \in Sessions =>
                      rows[call[c].target].project \in granted[call[c].window] \cup {NoProject}
      BY <3>1 DEF IInv, CallsSound, CallSound, Authorised, Reaches, Memory, RowsSound, Belongs,
         NoRow
    <3> QED
      BY <3>1 DEF RequestsScoped
  <2>2. RunsInProject
    BY DEF RunsInProject, IInv, Memory, RowsSound, Belongs
  <2> QED
    BY <2>1, <2>2 DEF WorkScoped, IInv, Memory
<1> QED
  BY <1>1, Invariance, PTL

\* Commands and answers use the connection there is.
LEMMA ClientStays ==
  ASSUME client # 0, NEW c \in Jobs, Answer(c) \/ \E w \in Windows : Command(c, w)
  PROVE  client' = client
<1>1. Connection = client
  BY DEF Connection
<1>2. CASE Answer(c)
  BY <1>1, <1>2
  DEF Answer, Receive, Send, GrantProject, RevokeTerminals, RevokeSessions, StartGranted, ListGranted,
      TerminalGranted, TerminalsListed, TuiTerminalGranted, TuiSessionGranted, DropTerminal,
      SessionStopped, TerminalClosed, HostStep
<1>3. ASSUME NEW w \in Windows, Command(c, w)
      PROVE  client' = client
  <2>1. \A k : Ask(c, k) => client' = client
    BY <1>1 DEF Ask, Send
  <2> QED
    BY <1>3, <2>1
    DEF Command, GlobalCommand, StopAllCommand, LayoutCommand, FileCommand, SearchCommand, GitCommand,
        FakeSessionStartCommand, FakeTuiStartCommand, SessionListCommand, TerminalOpenCommand,
        TerminalListCommand, SessionReadCommand, SessionAnswerCommand, SessionStopCommand,
        FakeTuiAttachCommand, FakeSessionAttachCommand, FakeSessionResumeCommand, TerminalCommand,
        TerminalCloseCommand, TerminalAttachCommand, OpenProjectFolder, OpenRecentProject,
        OfProject, OfSession, OfTerminal
<1> QED
  BY <1>2, <1>3

\* A client is given up by the command that saw its connection fail, and only
\* while it is still in use.
LEMMA ClientStep == IInv /\ [Next]_vars => (client' = 0 => client \in broken \cup {0})
<1> SUFFICES ASSUME IInv, [Next]_vars, client' = 0, client # 0
             PROVE  client \in broken
  OBVIOUS
<1>1. ASSUME NEW c \in Jobs, InvalidateClient(c)
      PROVE  client \in broken
  BY <1>1 DEF InvalidateClient, IInv, ClientSound
<1>2. CASE UNCHANGED client
  BY <1>2
<1>3. ASSUME NEW c \in Jobs, RegistrationTimesOut(c) \/ Discard(c)
      PROVE  UNCHANGED client
  BY <1>3 DEF RegistrationTimesOut, Discard, hostVars
<1>4. ASSUME NEW w \in Windows, OpenNewWindow(w) \/ WindowDestroyed(w)
      PROVE  UNCHANGED client
  BY <1>4 DEF OpenNewWindow, WindowDestroyed
<1>5. ASSUME ConnectionBreaks \/ DaemonRestarts
      PROVE  UNCHANGED client
  BY <1>5 DEF ConnectionBreaks, DaemonRestarts, Disconnected
<1> QED
  BY <1>1, <1>2, <1>3, <1>4, <1>5, ClientStays DEF Next, vars, hostVars

\* A connection that works is never thrown away because an older one failed
\* (lib.rs:265-273).
THEOREM WorkingClientKept == Spec => LiveClientKept
<1>1. IInv /\ [Next]_vars => [client' = 0 => client \in broken \cup {0}]_vars
  BY ClientStep
<1> QED
  BY <1>1, Invariance, PTL DEF Spec, LiveClientKept

-----------------------------------------------------------------------------
(* A terminal's output, and the two views side by side.                    *)

\* A set of lengths that is not empty has a least one.
LEMMA LeastLength ==
  ASSUME NEW T, T \subseteq Nat, T # {}
  PROVE  \E n \in T : \A m \in T : ~(m < n)
<1>1. \E n \in T : \A m \in T : ~(<<m, n>> \in OpToRel(<, Nat))
  BY WFMin, NatLessThanWellFounded
<1> QED
  BY <1>1 DEF OpToRel

-----------------------------------------------------------------------------
(* TerminalOutput.  Of the sizes only one fact is needed: nothing fits     *)
(* everywhere.                                                             *)

\* An empty buffer and an empty answer are within every limit.
LEMMA NothingFits == ASSUME NEW limit \in Nat PROVE Output!Fits(<<>>, limit)
<1> DEFINE Sums(g) == g = [n \in 0..Len(<<>>) |-> IF n = 0 THEN 0 ELSE g[n - 1] + <<>>[n].bytes]
<1>1. \E g : Sums(g)
  <2>1. Sums([n \in 0..Len(<<>>) |-> 0])
    OBVIOUS
  <2> QED
    BY <2>1
<1>2. Sums(CHOOSE g : Sums(g))
  BY <1>1
<1>3. Output!Bytes(<<>>) = (CHOOSE g : Sums(g))[Len(<<>>)]
  BY DEF Output!Bytes
<1>4. Output!Bytes(<<>>) = 0
  BY <1>2, <1>3
<1> QED
  BY <1>4 DEF Output!Fits

\* OutputBuffer::push drops some of the oldest chunks.
LEMMA ExcessWithin ==
  ASSUME NEW s \in Seq(Output!Chunks)
  PROVE  Output!Excess(s) \in 0..Len(s)
<1> DEFINE Enough(n) == Output!Fits(SubSeq(s, n + 1, Len(s)), BufferBytes)
           T == {n \in 0..Len(s) : Enough(n)}
<1>1. Len(s) \in 0..Len(s) /\ Enough(Len(s))
  <2>1. SubSeq(s, Len(s) + 1, Len(s)) = <<>> /\ Len(s) \in Nat
    OBVIOUS
  <2>2. Output!Fits(<<>>, BufferBytes)
    BY NothingFits, OutputAssumption
  <2>3. Enough(Len(s))
    BY <2>1, <2>2, Zenon
  <2> QED
    BY <2>1, <2>3
<1> HIDE DEF Enough
<1>2. PICK n \in T : \A m \in T : ~(m < n)
  <2>1. T \subseteq Nat /\ T # {}
    BY <1>1
  <2> HIDE DEF T
  <2> QED
    BY <2>1, LeastLength
<1>3. n \in 0..Len(s) /\ Enough(n) /\ \A m \in 0..(n - 1) : ~Enough(m)
  BY <1>2
<1> QED
  BY <1>3 DEF Output!Excess, Enough

\* The buffer after a cursor that is within it.
LEMMA AfterStart ==
  ASSUME Output!IInv, cursor < latest
  PROVE  /\ Output!Start \in dropped..latest /\ Output!Start >= cursor
         /\ Output!After = SubSeq(chunks, (Output!Start - dropped) + 1, Len(chunks))
<1> DEFINE start == Output!Start
<1>1. start \in dropped..latest /\ start >= cursor /\ dropped \in Nat /\ latest \in Nat /\ start \in Nat
  BY DEF Output!Start, Output!IInv, Output!BufferSound, Output!OutputAccounted, Output!TypeOK
<1>2. /\ Len(chunks) = latest - dropped /\ chunks \in Seq(Output!Chunks) /\ DOMAIN chunks = 1..Len(chunks)
      /\ \A i \in DOMAIN chunks : chunks[i].sequence = dropped + i
  BY DEF Output!IInv, Output!BufferSound, Output!OutputAccounted, Output!TypeOK
<1> DEFINE Cut(n) == \A i \in DOMAIN chunks : chunks[i].sequence > start <=> i > n
<1> HIDE DEF start
<1>3. start - dropped \in 0..Len(chunks) /\ Cut(start - dropped)
  <2>1. start - dropped \in 0..Len(chunks)
    BY <1>1, <1>2
  <2>2. ASSUME NEW i \in DOMAIN chunks PROVE chunks[i].sequence > start <=> i > start - dropped
    BY <1>1, <1>2, <2>2
  <2> QED
    BY <2>1, <2>2
<1>4. ASSUME NEW n \in 0..Len(chunks), Cut(n) PROVE n = start - dropped
  <2>1. CASE n < start - dropped
    <3>1. n + 1 \in DOMAIN chunks /\ ~(chunks[n + 1].sequence > start)
      BY <1>1, <1>2, <1>3, <2>1
    <3> QED
      BY <1>4, <3>1
  <2>2. CASE n > start - dropped
    <3>1. n \in DOMAIN chunks /\ chunks[n].sequence > start
      BY <1>1, <1>2, <1>3, <2>2
    <3> QED
      BY <1>4, <3>1
  <2> QED
    BY <1>1, <2>1, <2>2
<1>5. (CHOOSE n \in 0..Len(chunks) : Cut(n)) = start - dropped
  BY <1>3, <1>4
<1> QED
  BY <1>1, <1>5 DEF start, Output!After

\* OutputBuffer::poll takes a beginning of what is after the cursor.
LEMMA FittingIsPrefix ==
  ASSUME Output!After \in Seq(Output!Chunks)
  PROVE  \E n \in 0..Len(Output!After) : Output!Fitting = SubSeq(Output!After, 1, n)
<1> DEFINE after == Output!After
           Room(n) == Output!Fits(SubSeq(after, 1, n), PollBytes)
           T == {k \in 0..Len(after) : Room(Len(after) - k)}
<1>1. Len(after) \in 0..Len(after) /\ Room(Len(after) - Len(after))
  <2>1. SubSeq(after, 1, 0) = <<>> /\ Len(after) \in Nat /\ Len(after) - Len(after) = 0
    OBVIOUS
  <2>2. Output!Fits(<<>>, PollBytes)
    BY NothingFits, OutputAssumption
  <2>3. Room(Len(after) - Len(after))
    BY <2>1, <2>2, Zenon
  <2> QED
    BY <2>1, <2>3
<1> HIDE DEF Room
<1>2. PICK k \in T : \A m \in T : ~(m < k)
  <2>1. T \subseteq Nat /\ T # {}
    BY <1>1
  <2> HIDE DEF T
  <2> QED
    BY <2>1, LeastLength
<1> DEFINE n == Len(after) - k
<1>3. n \in 0..Len(after) /\ Room(n)
  BY <1>2
<1>4. n < Len(after) => ~Room(n + 1)
  <2> SUFFICES ASSUME n < Len(after), Room(n + 1) PROVE FALSE
    OBVIOUS
  <2>1. k - 1 \in 0..Len(after) /\ Len(after) - (k - 1) = n + 1
    BY <1>2
  <2> QED
    BY <1>2, <2>1
<1>5. \E j \in 0..Len(after) : Room(j) /\ (j < Len(after) => ~Room(j + 1))
  BY <1>3, <1>4
<1> QED
  BY <1>5 DEF Output!Fitting, Room

\* What the invariant says of the numbers of chunks.
LEMMA OutputNumbers ==
  ASSUME Output!IInv
  PROVE  /\ latest \in Nat /\ dropped \in Nat /\ cursor \in Nat /\ latest <= MaxChunks
         /\ chunks \in Seq(Output!Chunks) /\ unsent \in Seq(Output!Chunks)
         /\ channel \in Seq(Output!Chunks)
         /\ Output!Sent \in Nat /\ Output!Collected \in Nat /\ Output!Flushed \in Nat
         /\ dropped <= latest /\ cursor <= latest /\ Len(chunks) = latest - dropped
         /\ DOMAIN chunks = 1..Len(chunks)
         /\ \A i \in 1..Len(chunks) : chunks[i].sequence = dropped + i
         /\ reading # "sending" => unsent = <<>> /\ Output!Sent = latest
         /\ reading = "sending" =>
              Len(unsent) = 1 /\ unsent[1].sequence = latest /\ Output!Sent = latest - 1
<1>1. /\ latest \in Nat /\ dropped \in Nat /\ cursor \in Nat /\ latest <= MaxChunks
      /\ chunks \in Seq(Output!Chunks) /\ unsent \in Seq(Output!Chunks) /\ channel \in Seq(Output!Chunks)
      /\ Len(unsent) <= 1
  BY OutputAssumption DEF Output!IInv, Output!OutputAccounted, Output!TypeOK
<1>2. Len(unsent) \in 0..1 /\ Len(channel) \in Nat
  <2>1. Len(unsent) \in Nat /\ Len(channel) \in Nat
    BY <1>1, LenProperties
  <2>2. Len(unsent) <= 1
    BY <1>1
  <2>3. \A k \in Nat : k <= 1 => k \in 0..1
    OBVIOUS
  <2> QED
    BY <2>1, <2>2, <2>3, Zenon
<1>9. /\ Output!Collected >= 0 /\ (reading = "sending" <=> unsent # <<>>)
      /\ (unsent # <<>> => unsent[1].sequence = latest)
      /\ \/ segment = Output!NoSegment
         \/ segment.bytes > 0 /\ segment.from \in 1..segment.to /\ segment.to = Output!Collected
      /\ segment.bytes \in Nat
  BY DEF Output!IInv, Output!OutputAccounted, Output!TypeOK, Output!OnTheWay
<1>3. unsent = <<>> <=> Len(unsent) = 0
  BY <1>1
<1>4. Output!Sent = latest - Len(unsent) /\ Output!Collected = Output!Sent - Len(channel)
  BY DEF Output!Sent, Output!Collected
<1>5. Output!Collected \in Nat /\ Output!Sent \in Nat
  BY <1>1, <1>2, <1>4, <1>9
<1>6. Output!Flushed \in Nat
  <2>1. CASE segment = Output!NoSegment
    BY <1>5, <2>1 DEF Output!Flushed, Output!NoSegment
  <2>2. CASE segment.bytes > 0 /\ segment.from \in 1..segment.to /\ segment.to = Output!Collected
    BY <1>5, <2>2 DEF Output!Flushed
  <2> QED
    BY <1>9, <2>1, <2>2
<1>7. reading # "sending" => unsent = <<>> /\ Output!Sent = latest
  BY <1>1, <1>3, <1>4, <1>9
<1>8. reading = "sending" => Len(unsent) = 1 /\ unsent[1].sequence = latest /\ Output!Sent = latest - 1
  BY <1>1, <1>2, <1>3, <1>4, <1>9
<1>10. /\ dropped <= latest /\ cursor <= latest /\ Len(chunks) = latest - dropped
       /\ DOMAIN chunks = 1..Len(chunks) /\ \A i \in 1..Len(chunks) : chunks[i].sequence = dropped + i
  BY <1>1 DEF Output!IInv, Output!BufferSound
<1> QED
  BY <1>1, <1>5, <1>6, <1>7, <1>8, <1>10

\* A sequence of one element behind another.
LEMMA OneMore ==
  ASSUME NEW S, NEW s \in Seq(S), NEW t \in Seq(S), Len(t) = 1
  PROVE  /\ s \o t \in Seq(S) /\ Len(s \o t) = Len(s) + 1
         /\ \A i \in 1..Len(s) : (s \o t)[i] = s[i]
         /\ (s \o t)[Len(s) + 1] = t[1]
BY ConcatProperties, LenProperties

\* OutputBuffer::push.
LEMMA PushSound ==
  ASSUME Output!IInv, NEW b \in 1..ChunkBytes, Output!Push(b)
  PROVE  Output!IInv'
<1> USE DEF Output!IInv, Output!OutputAccounted
<1> DEFINE chunk == [sequence |-> latest + 1, bytes |-> b]
           all == Append(chunks, chunk)
           n == Output!Excess(all)
<1>1. /\ reading = "reading" /\ latest < MaxChunks /\ latest' = latest + 1
      /\ chunks' = SubSeq(all, n + 1, Len(all))
      /\ dropped' = IF n = 0 THEN dropped ELSE all[n].sequence
      /\ unsent' = <<chunk>> /\ reading' = "sending"
      /\ UNCHANGED <<channel, segment, writing, stored, failed, cursor, seen, missed>>
  BY DEF Output!Push, Output!writerVars, Output!windowVars
<1>2. chunk \in Output!Chunks
  BY <1>1, OutputNumbers, OutputAssumption DEF Output!Chunks
<1>3. /\ all \in Seq(Output!Chunks) /\ Len(all) = Len(chunks) + 1
      /\ \A i \in 1..Len(chunks) : all[i] = chunks[i]
      /\ all[Len(chunks) + 1] = chunk
  BY <1>2, OutputNumbers
<1>4. n \in 0..Len(all)
  BY <1>3, ExcessWithin
<1>5. /\ Len(chunks) = latest - dropped /\ latest \in Nat /\ dropped \in Nat /\ dropped <= latest /\ cursor <= latest /\ cursor \in Nat
      /\ \A i \in 1..Len(chunks) : chunks[i].sequence = dropped + i
  BY OutputNumbers
<1>15. chunk.sequence = latest + 1
  OBVIOUS
<1> HIDE DEF chunk, all, n
<1>6. \A i \in 1..Len(all) : all[i].sequence = dropped + i
  <2> SUFFICES ASSUME NEW i \in 1..Len(all) PROVE all[i].sequence = dropped + i
    OBVIOUS
  <2>1. CASE i \in 1..Len(chunks)
    BY <1>3, <1>5, <2>1
  <2>2. CASE i = Len(chunks) + 1
    BY <1>3, <1>5, <1>15, <2>2
  <2> QED
    BY <1>3, <1>5, <2>1, <2>2
<1>7. dropped' = dropped + n
  BY <1>1, <1>4, <1>6, OutputNumbers
<1>8. /\ chunks' \in Seq(Output!Chunks) /\ Len(chunks') = Len(all) - n
      /\ \A i \in 1..Len(chunks') : chunks'[i] = all[n + i]
  BY <1>1, <1>3, <1>4
<1>9. Output!BufferSound'
  <2>1. Len(chunks') = latest' - dropped' /\ dropped' <= latest' /\ cursor' <= latest'
    <3>1. Len(chunks') = (Len(chunks) + 1) - n /\ n \in 0..(Len(chunks) + 1)
      BY <1>3, <1>4, <1>8
    <3>2. latest' = latest + 1 /\ cursor' = cursor
      BY <1>1
    <3> QED
      BY <1>5, <1>7, <3>1, <3>2
  <2>2. ASSUME NEW i \in 1..Len(chunks') PROVE chunks'[i].sequence = dropped' + i
    <3>1. n + i \in 1..Len(all)
      BY <1>3, <1>4, <1>8, OutputNumbers
    <3>2. all[n + i].sequence = dropped + (n + i)
      BY <1>6, <3>1
    <3> QED
      BY <1>4, <1>5, <1>7, <1>8, <3>2
  <2>3. DOMAIN chunks' = 1..Len(chunks')
    BY <1>8
  <2> QED
    BY <2>1, <2>2, <2>3 DEF Output!BufferSound
<1>10. /\ unsent' \in Seq(Output!Chunks) /\ Len(unsent') = 1 /\ unsent' # <<>> /\ unsent'[1].sequence = latest'
  BY <1>1, <1>2, <1>15
<1>11. Output!Sent' = Output!Sent /\ Output!Collected' = Output!Collected
       /\ Output!Flushed' = Output!Flushed
  <2>1. Output!Sent' = Output!Sent
    BY <1>1, <1>10, OutputNumbers DEF Output!Sent
  <2>2. Output!Collected' = Output!Collected
    BY <1>1, <2>1 DEF Output!Collected
  <2> QED
    BY <1>1, <2>1, <2>2 DEF Output!Flushed
<1>12. Output!TypeOK'
  <2>1. latest' \in 0..MaxChunks /\ dropped' \in 0..MaxChunks
    <3>1. dropped' = dropped + n /\ n \in 0..((latest - dropped) + 1)
      BY <1>3, <1>4, <1>5, <1>7
    <3>2. latest' = latest + 1 /\ latest < MaxChunks
      BY <1>1
    <3> QED
      BY <1>5, <3>1, <3>2, OutputAssumption
  <2>2. chunks' \in Seq(Output!Chunks) /\ unsent' \in Seq(Output!Chunks) /\ Len(unsent') <= 1
    BY <1>8, <1>10
  <2> QED
    BY <1>1, <2>1, <2>2 DEF Output!TypeOK
<1>13. Output!CursorAccounts' /\ Output!SegmentsFollow'
  BY <1>1, <1>11 DEF Output!CursorAccounts, Output!SegmentsFollow
<1>14. Output!OnTheWay'
  BY <1>1, <1>10, <1>11 DEF Output!OnTheWay, Output!NoSegment
<1> QED
  BY <1>9, <1>12, <1>13, <1>14

\* The reader hands the chunk to the persistence writer.
LEMMA SendSound ==
  ASSUME Output!IInv, Output!Send
  PROVE  Output!IInv'
<1> USE DEF Output!IInv, Output!OutputAccounted
<1>1. /\ reading = "sending" /\ Len(channel) < ChannelCapacity /\ channel' = channel \o unsent /\ unsent' = <<>>
      /\ reading' = "reading" /\ UNCHANGED <<chunks, latest, dropped, segment, writing, stored, failed, cursor, seen, missed>>
  BY DEF Output!Send, Output!bufferVars, Output!writerVars, Output!windowVars
<1>2. Len(unsent) = 1 /\ unsent[1].sequence = latest /\ unsent \in Seq(Output!Chunks) /\ channel \in Seq(Output!Chunks)
  BY <1>1, OutputNumbers
<1>3. /\ channel' \in Seq(Output!Chunks) /\ Len(channel') = Len(channel) + 1
      /\ \A i \in 1..Len(channel) : channel'[i] = channel[i]
      /\ channel'[Len(channel) + 1] = unsent[1]
  <2>1. /\ channel \o unsent \in Seq(Output!Chunks) /\ Len(channel \o unsent) = Len(channel) + 1
        /\ \A i \in 1..Len(channel) : (channel \o unsent)[i] = channel[i]
        /\ (channel \o unsent)[Len(channel) + 1] = unsent[1]
    BY <1>2, OneMore
  <2> QED
    BY <1>1, <2>1
<1>4. /\ Output!Sent' = Output!Sent + 1 /\ Output!Collected' = Output!Collected
      /\ Output!Flushed' = Output!Flushed
  <2>1. Output!Sent' = Output!Sent + 1
    <3>1. Len(unsent') = 0 /\ latest' = latest
      BY <1>1
    <3> QED
      BY <1>2, <3>1, OutputNumbers DEF Output!Sent
  <2>2. Output!Collected' = Output!Collected
    BY <1>3, <2>1, OutputNumbers DEF Output!Collected
  <2>3. Output!Flushed' = Output!Flushed
    BY <1>1, <2>2 DEF Output!Flushed
  <2> QED
    BY <2>1, <2>2, <2>3
<1>5. Output!TypeOK'
  BY <1>1, <1>2, <1>3, OutputAssumption DEF Output!TypeOK
<1>6. Output!CursorAccounts' /\ Output!SegmentsFollow' /\ Output!BufferSound'
  BY <1>1, <1>4 DEF Output!CursorAccounts, Output!SegmentsFollow, Output!BufferSound
<1>7. \A i \in DOMAIN channel' : channel'[i].sequence = Output!Collected' + i
  <2>1. Output!Collected + (Len(channel) + 1) = latest
    BY <1>1, <1>2, OutputNumbers DEF Output!Collected, Output!Sent
  <2>2. DOMAIN channel' = 1..(Len(channel) + 1) /\ Len(channel) \in Nat
    BY <1>2, <1>3
  <2>3. \A i \in 1..Len(channel) : channel[i].sequence = Output!Collected + i
    BY <1>2 DEF Output!OnTheWay
  <2> QED
    BY <1>2, <1>3, <1>4, <2>1, <2>2, <2>3
<1>8. Output!OnTheWay'
  BY <1>1, <1>4, <1>7 DEF Output!OnTheWay, Output!NoSegment
<1> QED
  BY <1>5, <1>6, <1>8

\* append_persisted_chunk.
LEMMA CollectSound ==
  ASSUME Output!IInv, Output!Collect
  PROVE  Output!IInv'
<1> DEFINE c == Head(channel)
<1>1. /\ writing = "collecting" /\ channel # <<>> /\ segment' = Output!Extended(c) /\ channel' = Tail(channel)
      /\ writing' \in {"flushing", "collecting"}
      /\ UNCHANGED <<chunks, latest, dropped, reading, unsent, stored, failed, cursor, seen, missed>>
  BY DEF Output!Collect, Output!bufferVars, Output!windowVars
<1>2. /\ channel \in Seq(Output!Chunks) /\ Len(channel) \in Nat \ {0} /\ c = channel[1]
      /\ channel' \in Seq(Output!Chunks) /\ Len(channel') = Len(channel) - 1
      /\ \A i \in 1..Len(channel') : channel'[i] = channel[i + 1]
  BY <1>1, OutputNumbers, HeadTailProperties
<1>3. \A i \in 1..Len(channel) : channel[i].sequence = Output!Collected + i
  BY <1>2 DEF Output!IInv, Output!OnTheWay
<1>4. c \in Output!Chunks /\ c.sequence = Output!Collected + 1 /\ c.bytes \in Nat \ {0}
  <2>1. c \in Output!Chunks
    BY <1>1, <1>2
  <2> QED
    BY <1>2, <1>3, <2>1, OutputAssumption DEF Output!Chunks
<1>5. Output!Sent' = Output!Sent /\ Output!Collected' = Output!Collected + 1
  <2>1. Output!Sent' = Output!Sent
    BY <1>1 DEF Output!Sent
  <2> QED
    BY <1>2, <2>1, OutputNumbers DEF Output!Collected
<1> DEFINE seg == segment'
<1>6. \/ segment = Output!NoSegment
      \/ segment.bytes > 0 /\ segment.from \in 1..segment.to /\ segment.to = Output!Collected /\ segment.bytes \in Nat
  <2>1. segment.bytes \in Nat
    BY DEF Output!IInv, Output!OutputAccounted, Output!TypeOK
  <2>2. \/ segment = Output!NoSegment
        \/ segment.bytes > 0 /\ segment.from \in 1..segment.to /\ segment.to = Output!Collected
    BY DEF Output!IInv, Output!OnTheWay
  <2>3. CASE segment = Output!NoSegment
    BY <2>3
  <2>4. CASE segment.bytes > 0 /\ segment.from \in 1..segment.to /\ segment.to = Output!Collected
    BY <2>1, <2>4
  <2> QED
    BY <2>2, <2>3, <2>4
<1> HIDE DEF c
<1>7. /\ seg.to = Output!Collected' /\ seg.bytes \in Nat \ {0}
      /\ seg.from \in 1..seg.to /\ seg \in [from : Nat, to : Nat, bytes : Nat]
      /\ seg.from - 1 = Output!Flushed
  <2>1. Output!Collected \in Nat
    BY OutputNumbers
  <2>2. CASE segment = Output!NoSegment
    <3>1. seg = [from |-> c.sequence, to |-> c.sequence, bytes |-> 0 + c.bytes]
      BY <1>1, <2>2 DEF Output!Extended, Output!NoSegment
    <3>2. Output!Flushed = Output!Collected
      BY <2>2 DEF Output!Flushed, Output!NoSegment
    <3> HIDE DEF seg
    <3> QED
      BY <1>4, <1>5, <2>1, <3>1, <3>2
  <2>3. CASE segment.bytes > 0 /\ segment.from \in 1..segment.to /\ segment.to = Output!Collected /\ segment.bytes \in Nat
    <3>1. seg = [from |-> segment.from, to |-> c.sequence, bytes |-> segment.bytes + c.bytes]
      BY <1>1, <2>1, <2>3 DEF Output!Extended
    <3>2. Output!Flushed = segment.from - 1
      BY <2>3 DEF Output!Flushed
    <3> HIDE DEF seg
    <3> QED
      BY <1>4, <1>5, <2>1, <2>3, <3>1, <3>2
  <2> QED
    BY <1>6, <2>2, <2>3
<1>8. Output!Flushed' = Output!Flushed
  <2>1. Output!Flushed' = seg.from - 1
    BY <1>7 DEF Output!Flushed
  <2> QED
    BY <1>7, <2>1
<1>9. Output!TypeOK'
  <2>1. Len(channel') <= ChannelCapacity
    BY <1>2, OutputAssumption DEF Output!IInv, Output!OutputAccounted, Output!TypeOK
  <2> HIDE DEF seg
  <2>2. segment' \in [from : Nat, to : Nat, bytes : Nat]
    BY <1>7 DEF seg
  <2> QED
    BY <1>1, <1>2, <2>1, <2>2 DEF Output!IInv, Output!OutputAccounted, Output!TypeOK
<1>10. Output!CursorAccounts' /\ Output!SegmentsFollow' /\ Output!BufferSound'
  BY <1>1, <1>8 DEF Output!CursorAccounts, Output!SegmentsFollow, Output!BufferSound, Output!IInv,
     Output!OutputAccounted
<1>11. Output!OnTheWay'
  <2>1. Output!Collected' >= 0
    BY <1>5, OutputNumbers
  <2>2. \A i \in DOMAIN channel' : channel'[i].sequence = Output!Collected' + i
    <3>1. DOMAIN channel' = 1..Len(channel')
      BY <1>2
    <3>2. ASSUME NEW i \in 1..Len(channel') PROVE channel'[i].sequence = Output!Collected' + i
      <4>1. i + 1 \in 1..Len(channel)
        BY <1>2
      <4>2. channel[i + 1].sequence = Output!Collected + (i + 1)
        BY <1>3, <4>1
      <4>3. i \in Nat /\ Output!Collected \in Nat
        BY OutputNumbers
      <4>4. channel'[i] = channel[i + 1]
        BY <1>2
      <4>5. Output!Collected + (i + 1) = (Output!Collected + 1) + i
        BY <4>3
      <4>6. Output!Collected' + i = (Output!Collected + 1) + i
        BY <1>5
      <4>7. channel'[i].sequence = Output!Collected + (i + 1)
        BY <4>2, <4>4
      <4> QED
        BY <4>5, <4>6, <4>7
    <3> QED
      BY <3>1, <3>2
  <2>3. seg.bytes > 0 /\ seg.from \in 1..seg.to /\ seg.to = Output!Collected'
    BY <1>7
  <2>4. \A s \in stored' \cup failed' : s.from \in 1..s.to /\ s.to <= Output!Flushed'
    BY <1>1, <1>8 DEF Output!IInv, Output!OnTheWay
  <2> QED
    BY <1>1, <2>1, <2>2, <2>3, <2>4 DEF Output!IInv, Output!OnTheWay
<1> QED
  BY <1>9, <1>10, <1>11 DEF Output!IInv, Output!OutputAccounted

\* persist_buffer: the segment goes behind those before it, stored or lost.
LEMMA PersistSound ==
  ASSUME Output!IInv, NEW ok \in BOOLEAN, Output!Persist(ok)
  PROVE  Output!IInv'
<1> DEFINE s == [from |-> segment.from, to |-> segment.to]
           all == stored \cup failed
<1>1. /\ writing = "flushing" /\ segment' = Output!NoSegment /\ writing' = "collecting"
      /\ stored' \cup failed' = all \cup {s}
      /\ UNCHANGED <<chunks, latest, dropped, reading, unsent, channel, cursor, seen, missed>>
  BY DEF Output!Persist, Output!bufferVars, Output!windowVars
<1>2. /\ segment.bytes > 0 /\ segment.bytes \in Nat /\ segment.from \in Nat /\ segment.to \in Nat
      /\ segment.from \in 1..segment.to /\ segment.to = Output!Collected
  <2>1. segment.bytes > 0 /\ segment \in [from : Nat, to : Nat, bytes : Nat]
    BY <1>1 DEF Output!IInv, Output!OnTheWay, Output!OutputAccounted, Output!TypeOK
  <2>2. segment # Output!NoSegment
    BY <2>1 DEF Output!NoSegment
  <2> QED
    BY <2>1, <2>2 DEF Output!IInv, Output!OnTheWay
<1>3. Output!Flushed = s.from - 1 /\ s.from \in 1..s.to /\ s.to = Output!Collected /\ s.to \in Nat
      /\ s \in [from : Nat, to : Nat] /\ s.from \in Nat
  BY <1>2 DEF Output!Flushed
<1>4. Output!Collected' = Output!Collected /\ Output!Flushed' = Output!Collected
  <2>1. Output!Collected' = Output!Collected
    BY <1>1 DEF Output!Collected, Output!Sent
  <2> QED
    BY <1>1, <2>1 DEF Output!Flushed, Output!NoSegment
<1>5. \A t \in all : /\ t.from \in Nat /\ t.to \in Nat /\ t.from \in 1..t.to /\ t.to <= Output!Flushed
  <2>1. all \subseteq [from : Nat, to : Nat]
    BY DEF Output!IInv, Output!OutputAccounted, Output!TypeOK
  <2>2. \A t \in all : t.from \in 1..t.to /\ t.to <= Output!Flushed
    BY DEF Output!IInv, Output!OnTheWay
  <2> QED
    BY <2>1, <2>2
<1>6. /\ \A t, u \in all : t # u => t.to < u.from \/ u.to < t.from
      /\ UNION {t.from .. t.to : t \in all} = 1 .. Output!Flushed
  BY DEF Output!IInv, Output!OutputAccounted, Output!SegmentsFollow
<1> HIDE DEF s, all
<1>7. Output!SegmentsFollow'
  <2>1. ASSUME NEW t \in all \cup {s}, NEW u \in all \cup {s}, t # u
        PROVE  t.to < u.from \/ u.to < t.from
    <3>1. CASE t \in all /\ u \in all
      BY <1>6, <2>1, <3>1
    <3>2. CASE t \in all /\ u = s
      BY <1>3, <1>5, <3>2
    <3>3. CASE t = s /\ u \in all
      BY <1>3, <1>5, <3>3
    <3> QED
      BY <2>1, <3>1, <3>2, <3>3
  <2>2. UNION {t.from .. t.to : t \in all \cup {s}} = 1 .. Output!Collected
    <3>1. UNION {t.from .. t.to : t \in all \cup {s}}
            = (UNION {t.from .. t.to : t \in all}) \cup (s.from .. s.to)
      OBVIOUS
    <3>2. (1 .. Output!Flushed) \cup (s.from .. s.to) = 1 .. Output!Collected
      BY <1>3, OutputNumbers
    <3> QED
      BY <1>6, <3>1, <3>2
  <2> QED
    BY <1>1, <1>4, <2>1, <2>2 DEF Output!SegmentsFollow
<1>8. Output!TypeOK'
  <2>1. stored' \cup failed' \subseteq [from : Nat, to : Nat]
    BY <1>1, <1>3 DEF all, Output!IInv, Output!OutputAccounted, Output!TypeOK
  <2>2. segment' \in [from : Nat, to : Nat, bytes : Nat]
    BY <1>1 DEF Output!NoSegment
  <2> QED
    BY <1>1, <2>1, <2>2 DEF Output!IInv, Output!OutputAccounted, Output!TypeOK
<1>9. Output!CursorAccounts' /\ Output!BufferSound'
  BY <1>1 DEF Output!CursorAccounts, Output!BufferSound, Output!IInv, Output!OutputAccounted
<1>10. Output!OnTheWay'
  <2>1. \A t \in stored' \cup failed' : t.from \in 1..t.to /\ t.to <= Output!Flushed'
    BY <1>1, <1>3, <1>4, <1>5, OutputNumbers
  <2> QED
    BY <1>1, <1>4, <2>1 DEF Output!IInv, Output!OnTheWay
<1> QED
  BY <1>7, <1>8, <1>9, <1>10 DEF Output!IInv, Output!OutputAccounted

\* OutputBuffer::poll: the window is given what follows its cursor, or what
\* follows the dropped chunks, which it is told it missed.
LEMMA PollSound ==
  ASSUME Output!IInv, Output!Poll
  PROVE  Output!IInv'
<1> DEFINE got == Output!Fitting
           start == Output!Start
<1>1. /\ cursor < latest /\ cursor' = (IF got = <<>> THEN start ELSE got[Len(got)].sequence)
      /\ seen' = seen \cup {c.sequence : c \in Output!Range(got)}
      /\ missed' = missed \cup (cursor + 1)..start
      /\ UNCHANGED <<chunks, latest, dropped, reading, unsent, channel, segment, writing, stored, failed>>
  BY DEF Output!Poll, Output!bufferVars, Output!writerVars
<1>2. /\ start \in dropped..latest /\ start >= cursor /\ start \in Nat
      /\ Output!After = SubSeq(chunks, (start - dropped) + 1, Len(chunks))
      /\ latest \in Nat /\ dropped \in Nat /\ cursor \in Nat /\ latest <= MaxChunks /\ MaxChunks \in Nat
  BY <1>1, AfterStart, OutputNumbers, OutputAssumption
<1>3. /\ Len(chunks) = latest - dropped /\ chunks \in Seq(Output!Chunks)
      /\ \A i \in 1..Len(chunks) : chunks[i].sequence = dropped + i
  BY OutputNumbers
<1> DEFINE after == Output!After
<1> HIDE DEF got, start, after
<1>4. /\ after \in Seq(Output!Chunks) /\ Len(after) = latest - start
      /\ \A i \in 1..Len(after) : after[i] = chunks[(start - dropped) + i]
  <2> DEFINE k == (start - dropped) + 1
  <2>1. k \in 1..(Len(chunks) + 1) /\ Len(chunks) \in Nat /\ k \in Nat
    BY <1>2, <1>3
  <2>2. after = SubSeq(chunks, k, Len(chunks))
    BY <1>2 DEF after
  <2> HIDE DEF k
  <2>3. /\ after \in Seq(Output!Chunks) /\ Len(after) = (Len(chunks) - k) + 1
        /\ \A i \in 1..Len(after) : after[i] = chunks[(k + i) - 1]
    BY <1>3, <2>1, <2>2
  <2> QED
    BY <1>2, <1>3, <2>3 DEF k
<1>5. \A i \in 1..Len(after) : after[i].sequence = start + i
  <2> SUFFICES ASSUME NEW i \in 1..Len(after) PROVE after[i].sequence = start + i
    OBVIOUS
  <2>1. (start - dropped) + i \in 1..Len(chunks)
    BY <1>2, <1>3, <1>4
  <2>2. after[i] = chunks[(start - dropped) + i] /\ chunks[(start - dropped) + i].sequence = dropped + ((start - dropped) + i)
    BY <1>3, <1>4, <2>1
  <2>3. dropped + ((start - dropped) + i) = start + i
    BY <1>2
  <2> QED
    BY <2>2, <2>3
<1>6. PICK n \in 0..Len(after) : got = SubSeq(after, 1, n)
  BY <1>4, FittingIsPrefix DEF after, got
<1>7. /\ got \in Seq(Output!Chunks) /\ Len(got) = n /\ n \in Nat /\ n <= latest - start
      /\ \A i \in 1..n : got[i].sequence = start + i
      /\ got = <<>> <=> n = 0
  BY <1>2, <1>4, <1>5, <1>6
<1>8. cursor' = start + n
  BY <1>1, <1>2, <1>7
<1>9. {c.sequence : c \in Output!Range(got)} = (start + 1)..(start + n)
  <2>1. Output!Range(got) = {got[i] : i \in 1..n}
    BY <1>7 DEF Output!Range
  <2>2. {c.sequence : c \in Output!Range(got)} = {start + i : i \in 1..n}
    BY <1>7, <2>1
  <2>3. {start + i : i \in 1..n} = (start + 1)..(start + n)
    <3>1. ASSUME NEW k \in (start + 1)..(start + n) PROVE k - start \in 1..n /\ k = start + (k - start)
      BY <1>2, <1>7
    <3>2. (start + 1)..(start + n) \subseteq {start + i : i \in 1..n}
      BY <3>1
    <3>3. {start + i : i \in 1..n} \subseteq (start + 1)..(start + n)
      BY <1>2, <1>7
    <3> QED
      BY <3>2, <3>3
  <2> QED
    BY <2>2, <2>3
<1>10. Output!CursorAccounts'
  <2>1. seen \cap missed = {} /\ seen \cup missed = 1..cursor
    BY DEF Output!IInv, Output!OutputAccounted, Output!CursorAccounts
  <2>2. /\ seen' = seen \cup (start + 1)..(start + n)
        /\ missed' = missed \cup (cursor + 1)..start
    BY <1>1, <1>9
  <2> QED
    BY <1>2, <1>7, <1>8, <2>1, <2>2 DEF Output!CursorAccounts
<1>11. Output!TypeOK'
  <2>1. cursor' \in 0..MaxChunks
    BY <1>2, <1>7, <1>8
  <2>2. seen' \cup missed' = 1..cursor'
    BY <1>10 DEF Output!CursorAccounts
  <2>3. seen' \subseteq 1..MaxChunks /\ missed' \subseteq 1..MaxChunks
    BY <1>2, <2>1, <2>2
  <2> QED
    BY <1>1, <2>1, <2>3 DEF Output!IInv, Output!OutputAccounted, Output!TypeOK
<1>12. Output!BufferSound'
  BY <1>1, <1>2, <1>7, <1>8 DEF Output!IInv, Output!BufferSound
<1>13. Output!SegmentsFollow' /\ Output!OnTheWay'
  BY <1>1 DEF Output!IInv, Output!OutputAccounted, Output!SegmentsFollow, Output!OnTheWay,
     Output!Flushed, Output!Collected, Output!Sent
<1> QED
  BY <1>10, <1>11, <1>12, <1>13 DEF Output!IInv, Output!OutputAccounted

\* The invariant of a terminal's output.
LEMMA OutputInductive ==
  /\ Output!Init => Output!IInv
  /\ Output!IInv /\ [Output!Next]_(Output!vars) => Output!IInv'
<1>1. Output!Init => Output!IInv
  <2> SUFFICES ASSUME Output!Init PROVE Output!IInv
    OBVIOUS
  <2> USE DEF Output!Init
  <2>1. Output!TypeOK
    BY OutputAssumption DEF Output!TypeOK, Output!NoSegment
  <2>2. Output!Sent = 0 /\ Output!Collected = 0 /\ Output!Flushed = 0
    <3>1. Len(unsent) = 0 /\ Len(channel) = 0 /\ latest = 0
      OBVIOUS
    <3>2. Output!Sent = 0
      <4>1. Output!Sent = latest - Len(unsent)
        BY DEF Output!Sent
      <4> QED
        BY <3>1, <4>1
    <3>3. Output!Collected = 0
      <4>1. Output!Collected = Output!Sent - Len(channel)
        BY DEF Output!Collected
      <4> QED
        BY <3>1, <3>2, <4>1
    <3>4. segment.bytes = 0
      BY DEF Output!NoSegment
    <3>5. Output!Flushed = IF segment.bytes = 0 THEN Output!Collected ELSE segment.from - 1
      BY DEF Output!Flushed
    <3> QED
      BY <3>2, <3>3, <3>4, <3>5
  <2>3. Output!CursorAccounts /\ Output!SegmentsFollow
    BY <2>2 DEF Output!CursorAccounts, Output!SegmentsFollow
  <2>4. Output!BufferSound /\ Output!OnTheWay
    BY <2>2 DEF Output!BufferSound, Output!OnTheWay
  <2> QED
    BY <2>1, <2>3, <2>4 DEF Output!IInv, Output!OutputAccounted
<1>2. Output!IInv /\ [Output!Next]_(Output!vars) => Output!IInv'
  <2> SUFFICES ASSUME Output!IInv, [Output!Next]_(Output!vars) PROVE Output!IInv'
    OBVIOUS
  <2> USE DEF Output!bufferVars, Output!writerVars, Output!windowVars
  <2>1. ASSUME UNCHANGED <<chunks, latest, dropped, unsent, channel, segment, stored, failed, cursor, seen, missed>>,
               reading' = reading \/ (reading = "reading" /\ reading' = "ended"),
               writing' \in {"collecting", "flushing", "done"},
               writing' = "flushing" => writing = "flushing" \/ segment.bytes > 0
        PROVE  Output!IInv'
    BY <2>1 DEF Output!IInv, Output!OutputAccounted, Output!TypeOK, Output!CursorAccounts,
       Output!SegmentsFollow, Output!BufferSound, Output!OnTheWay, Output!Flushed,
       Output!Collected, Output!Sent
  <2>2. CASE UNCHANGED Output!vars
    BY <2>1, <2>2 DEF Output!vars, Output!IInv, Output!OutputAccounted, Output!TypeOK
  <2>3. CASE Output!OutputEnds
    BY <2>1, <2>3 DEF Output!OutputEnds, Output!IInv, Output!OutputAccounted, Output!TypeOK
  <2>4. CASE Output!FlushDue
    BY <2>1, <2>4 DEF Output!FlushDue
  <2>5. CASE Output!WriterEnds
    BY <2>1, <2>5 DEF Output!WriterEnds
  <2> QED
    BY <2>2, <2>3, <2>4, <2>5, PushSound, SendSound, CollectSound, PersistSound, PollSound
       DEF Output!Next
<1> QED
  BY <1>1, <1>2

\* A behaviour of the views moves one of them.
LEMMA ViewsInductive ==
  /\ ViewInit => Output!IInv
  /\ Output!IInv /\ [ViewNext]_<<view, vars, outputVars>> => Output!IInv'
<1>1. ViewInit => Output!IInv
  BY OutputInductive DEF ViewInit
<1>2. ASSUME Output!IInv, [ViewNext]_<<view, vars, outputVars>> PROVE Output!IInv'
  <2>1. [Output!Next]_(Output!vars)
    BY <1>2 DEF ViewNext, outputVars, Output!vars, Output!bufferVars, Output!writerVars,
       Output!windowVars
  <2> QED
    BY <1>2, <2>1, OutputInductive
<1> QED
  BY <1>1, <1>2

\* What a window has passed of a terminal's output it was given or told it
\* missed, and the stored segments follow each other (terminal.rs:884-953,
\* 1033-1102).
THEOREM OutputIsAccounted == ViewSpec => []OutputAccounted
<1>1. Output!IInv => OutputAccounted
  BY DEF OutputAccounted, Output!IInv
<1> QED
  BY <1>1, ViewsInductive, PTL DEF ViewSpec

\* What the windows ask for is as in DesktopHost: what is proved of its
\* specification holds beside the output.
THEOREM CommandsImplemented == ViewSpec => Spec
<1>1. ViewInit => Init
  BY DEF ViewInit
<1>2. [ViewNext]_<<view, vars, outputVars>> => [Next]_vars
  BY DEF ViewNext
<1> QED
  BY <1>1, <1>2, PTL DEF ViewSpec, Spec
=============================================================================
