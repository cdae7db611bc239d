---------------------------- MODULE FrameChannel ----------------------------
(***************************************************************************)
(* One connection between the desktop's multiplexing client (ipc.rs        *)
(* run_multiplexed_driver) and the daemon (server.rs serve_connection),    *)
(* over a socket with a buffer of bounded size in each direction.  A frame *)
(* is a sequence of units: its length prefix, then its payload.  Each side *)
(* is one task around a select: it reads a frame or, in another arm, takes *)
(* the next thing to send and writes it out completely.  The read that was *)
(* under way when another arm wins is dropped with the units it had taken. *)
(***************************************************************************)
EXTENDS Naturals, Sequences, FiniteSets, Functions

CONSTANTS
  Requests,    \* requests of the callers, by correlation id
  Units,       \* units of a frame, prefix included
  Buffer,      \* units that fit in one direction of the socket
  InFlight,    \* MAX_IN_FLIGHT_REQUESTS_PER_CONNECTION
  Garbled      \* what a prefix read from the middle of a frame can do:
               \* "refuse" (a length over the limit), "swallow" (a length within it)

VARIABLES
  caller,    \* each request: new, waiting, done or failed
  got,       \* the answer that completed it, or "none"
  outbound,  \* the channel to the driver
  pending,   \* the driver's map of completions
  tasks,     \* requests that the daemon's tasks are handling
  finished,  \* tasks that have a response to write
  side,      \* both tasks: [at, frame, sent, taken]
  wire       \* units on their way to each side

vars == <<caller, got, outbound, pending, tasks, finished, side, wire>>

Sides == {"client", "server"}
Other(x) == IF x = "client" THEN "server" ELSE "client"
Selecting == [at |-> "select", frame |-> "none", sent |-> 0, taken |-> 0]
Closed == [Selecting EXCEPT !.at = "closed"]

Init ==
  /\ caller = [r \in Requests |-> "new"] /\ got = [r \in Requests |-> "none"]
  /\ outbound = <<>> /\ pending = {} /\ tasks = {} /\ finished = {}
  /\ side = [x \in Sides |-> Selecting] /\ wire = [x \in Sides |-> <<>>]

\* Another arm of the select wins: the frame that was being read is dropped.
Writes(x, frame) == [side EXCEPT ![x] = [Selecting EXCEPT !.at = "write", !.frame = frame]]

-----------------------------------------------------------------------------
(* Writing: write_frame.                                                   *)

\* request_correlated.
Send(r) ==
  /\ caller[r] = "new" /\ side["client"].at # "closed"
  /\ caller' = [caller EXCEPT ![r] = "waiting"]
  /\ outbound' = Append(outbound, r)
  /\ UNCHANGED <<got, pending, tasks, finished, side, wire>>

TakeRequest ==
  /\ side["client"].at \in {"select", "swallow"} /\ outbound # <<>>
  /\ outbound' = Tail(outbound)
  /\ pending' = pending \cup {Head(outbound)}
  /\ side' = Writes("client", Head(outbound))
  /\ UNCHANGED <<caller, got, tasks, finished, wire>>

\* handle_request ends in its own task.
Finish(r) ==
  /\ r \in tasks
  /\ tasks' = tasks \ {r} /\ finished' = finished \cup {r}
  /\ UNCHANGED <<caller, got, outbound, pending, side, wire>>

JoinTask(r) ==
  /\ side["server"].at \in {"select", "swallow"} /\ r \in finished
  /\ finished' = finished \ {r}
  /\ side' = Writes("server", r)
  /\ UNCHANGED <<caller, got, outbound, pending, tasks, wire>>

\* write_all: as much as the buffer takes; the rest waits for the reader.
WriteUnit(x) ==
  LET me == side[x] IN
  /\ me.at = "write" /\ side[Other(x)].at # "closed" /\ Len(wire[Other(x)]) < Buffer
  /\ wire' = [wire EXCEPT ![Other(x)] = Append(@, [frame |-> me.frame, unit |-> me.sent + 1])]
  /\ side' = [side EXCEPT ![x] = IF me.sent + 1 = Units THEN Selecting ELSE [me EXCEPT !.sent = @ + 1]]
  /\ UNCHANGED <<caller, got, outbound, pending, tasks, finished>>

-----------------------------------------------------------------------------
(* Reading: read_frame_with_limit.                                         *)

\* The driver ends: whoever waits is told.
ClientEnds ==
  /\ caller' = [r \in Requests |-> IF caller[r] = "waiting" THEN "failed" ELSE caller[r]]
  /\ outbound' = <<>> /\ pending' = {}
  /\ side' = [side EXCEPT !["client"] = Closed]
  /\ wire' = [wire EXCEPT !["client"] = <<>>]
  /\ UNCHANGED <<got, tasks, finished>>

\* serve_connection returns with an error: its JoinSet aborts the tasks.
ServerEnds ==
  /\ tasks' = {} /\ finished' = {}
  /\ side' = [side EXCEPT !["server"] = Closed]
  /\ wire' = [wire EXCEPT !["server"] = <<>>]
  /\ UNCHANGED <<caller, got, outbound, pending>>

Ends(x) == IF x = "client" THEN ClientEnds ELSE ServerEnds

\* The unit at the head of the wire continues the frame that is being read.
Reading(x) == side[x].at = "select" /\ wire[x] # <<>>
InStep(x) == Head(wire[x]).unit = side[x].taken + 1

TakeUnit(x) ==
  /\ Reading(x) /\ InStep(x) /\ side[x].taken + 1 < Units
  /\ wire' = [wire EXCEPT ![x] = Tail(@)]
  /\ side' = [side EXCEPT ![x].taken = @ + 1]
  /\ UNCHANGED <<caller, got, outbound, pending, tasks, finished>>

\* A prefix is expected and payload comes: the length is arbitrary.
Misread(x) ==
  /\ Reading(x) /\ ~InStep(x)
  /\ \/ "refuse" \in Garbled /\ Ends(x)
     \/ /\ "swallow" \in Garbled
        /\ side' = [side EXCEPT ![x].at = "swallow"]
        /\ UNCHANGED <<caller, got, outbound, pending, tasks, finished, wire>>

Swallow(x) ==
  /\ side[x].at = "swallow" /\ wire[x] # <<>>
  /\ wire' = [wire EXCEPT ![x] = Tail(@)]
  /\ UNCHANGED <<caller, got, outbound, pending, tasks, finished, side>>

Complete(x) == Reading(x) /\ InStep(x) /\ side[x].taken + 1 = Units

\* A slip: a response goes to whoever waits.
CompletesAny(r) == IF pending = {} THEN {} ELSE {CHOOSE c \in pending : TRUE}
\* The completion that belongs to a response.
Completes(r) == {r} \cap pending

ReadResponse ==
  LET r == Head(wire["client"]).frame IN
  /\ Complete("client")
  /\ wire' = [wire EXCEPT !["client"] = Tail(@)]
  /\ side' = [side EXCEPT !["client"] = Selecting]
  /\ pending' = pending \ Completes(r)
  /\ caller' = [c \in Requests |-> IF c \in Completes(r) THEN "done" ELSE caller[c]]
  /\ got' = [c \in Requests |-> IF c \in Completes(r) THEN r ELSE got[c]]
  /\ UNCHANGED <<outbound, tasks, finished>>

\* Above the limit the answer is an error, written at once.
ReadRequest ==
  LET r == Head(wire["server"]).frame IN
  /\ Complete("server")
  /\ wire' = [wire EXCEPT !["server"] = Tail(@)]
  /\ IF Cardinality(tasks \cup finished) >= InFlight
       THEN side' = Writes("server", r) /\ UNCHANGED tasks
       ELSE side' = [side EXCEPT !["server"] = Selecting] /\ tasks' = tasks \cup {r}
  /\ UNCHANGED <<caller, got, outbound, pending, finished>>

\* Writing to, or reading from, a side that is gone.
PeerGone(x) ==
  /\ side[x].at # "closed" /\ side[Other(x)].at = "closed"
  /\ side[x].at = "write" \/ wire[x] = <<>>
  /\ Ends(x)

\* The daemon shuts down, or the last handle of the client is dropped.
Close(x) ==
  /\ side[x].at = "select"
  /\ x = "client" => outbound = <<>> /\ pending = {}
  /\ Ends(x)

Step(x) == WriteUnit(x) \/ TakeUnit(x) \/ Misread(x) \/ Swallow(x) \/ PeerGone(x)
Next ==
  \/ \E r \in Requests : Send(r) \/ Finish(r) \/ JoinTask(r)
  \/ TakeRequest \/ ReadResponse \/ ReadRequest
  \/ \E x \in Sides : Step(x) \/ Close(x)

Spec == Init /\ [][Next]_vars

\* Both tasks are scheduled, and every handler ends.
Fairness ==
  /\ \A x \in Sides : WF_vars(Step(x))
  /\ WF_vars(TakeRequest) /\ WF_vars(ReadResponse) /\ WF_vars(ReadRequest)
  /\ \A r \in Requests : WF_vars(Finish(r)) /\ WF_vars(JoinTask(r))
FairSpec == Spec /\ Fairness

-----------------------------------------------------------------------------
\* Responses arrive in any order and reach the caller that asked, also when
\* frames are lost and the two sides get out of step; while the driver lives
\* no caller waits that it does not know of (ipc.rs:142-181).
AnswersMatch ==
  /\ \A r \in Requests : caller[r] = "done" <=> got[r] = r
  /\ \A r \in Requests : got[r] \in {"none", r}
  /\ side["client"].at # "closed" =>
       {r \in Requests : caller[r] = "waiting"} = pending \cup Range(outbound)

\* What makes it inductive: a request is in the channel or in the map, once.
TaskStates ==
  [at : {"select", "swallow", "closed"}, frame : {"none"}, sent : Nat, taken : Nat]
    \cup [at : {"write"}, frame : Requests, sent : Nat, taken : Nat]
WireUnits == [frame : Requests, unit : Nat]
TypeOK ==
  /\ caller \in [Requests -> {"new", "waiting", "done", "failed"}]
  /\ got \in [Requests -> Requests \cup {"none"}]
  /\ outbound \in Seq(Requests) /\ pending \subseteq Requests
  /\ tasks \subseteq Requests /\ finished \subseteq Requests
  /\ side \in [Sides -> TaskStates] /\ wire \in [Sides -> Seq(WireUnits)]
OnceKnown ==
  /\ \A i, j \in DOMAIN outbound : outbound[i] = outbound[j] => i = j
  /\ pending \cap Range(outbound) = {}
  /\ \A r \in pending \cup Range(outbound) : caller[r] = "waiting"
IInv == TypeOK /\ OnceKnown /\ AnswersMatch

\* ipc.rs:42: "Requests may be issued concurrently and responses may arrive
\* out of order": a caller always hears of its request.
RequestsComplete == \A r \in Requests : caller[r] = "waiting" ~> caller[r] \in {"done", "failed"}
=============================================================================
