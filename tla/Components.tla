----------------------------- MODULE Components -----------------------------
(***************************************************************************)
(* Components that share no state, put side by side.  A behaviour moves    *)
(* one of them, chosen at the start as "part".  SessionPersistence has its *)
(* own variables; those of the others are held in the slots x1, x2, ...,   *)
(* and unused slots stay 0.                                                *)
(***************************************************************************)
EXTENDS SessionPersistence

CONSTANTS
  Daemons, Passphrases, MaxCrashes, None,                  \* DaemonStartup
  Tabs, SegmentSizes, MaxBytes, MaxAge, DailySnapshots,    \* StorageMaintenance
  MaxBatch, MaxRows, MaxDay,
  Requests, Units, Buffer, InFlight, Garbled,              \* FrameChannel
  Savers, Values, MaxWrites,                               \* ProjectFiles
  PageEntries, MaximumResults, MaxFiles, MaxChanges,       \* ProjectTree
  AdapterRuns, Bindings, NoBinding, MaxOperations,         \* AgentAdapter
  Names, Depth,                                            \* WorkspaceRoots
  MaximumFrameBytes, MaximumBatchBytes,                    \* JsonLines
  MaximumFramesPerPush, MaxChunk, MaxStream

\* NoRun and NoBinding are no run and no binding, "none" is no request.
ASSUME AdapterAssumption == NoRun \notin AdapterRuns /\ NoBinding \notin Bindings
ASSUME FramesAssumption == "none" \notin Requests
ASSUME TreeAssumption == PageEntries \in Nat /\ MaximumResults \in Nat /\ MaxFiles \in Nat
ASSUME StorageAssumption ==
  /\ Tabs \cap {"keeper", "free", "raw"} = {}
  /\ MaxDay \in Nat \ {0} /\ SegmentSizes \subseteq Nat /\ MaxRows \in Nat /\ MaxBytes \in Nat
ASSUME RootsAssumption == Depth \in Nat
ASSUME LinesAssumption ==
  /\ MaximumFrameBytes \in Nat /\ MaximumBatchBytes \in Nat /\ MaximumFramesPerPush \in Nat
  /\ MaxChunk \in Nat

VARIABLES part, x1, x2, x3, x4, x5, x6, x7, x8, x9, x10, x11, x12

slots == <<x1, x2, x3, x4, x5, x6, x7, x8, x9, x10, x11, x12>>

Startup == INSTANCE DaemonStartup WITH
       keyring <- x1, envelope <- x2, token <- x3, socket <- x4, db <- x5,
       wal <- x6, pc <- x7, storage <- x8, key <- x9, mine <- x10, window <- x11,
       crashes <- x12

Storage == INSTANCE StorageMaintenance WITH
       today <- x1, written <- x2, faults <- x3, segments <- x4, files <- x5,
       lock <- x6, writer <- x7, keeper <- x8, snapshots <- x9, leftovers <- x10

Frames == INSTANCE FrameChannel WITH
       caller <- x1, got <- x2, outbound <- x3, pending <- x4, tasks <- x5,
       finished <- x6, side <- x7, wire <- x8

Files == INSTANCE ProjectFiles WITH
       nodes <- x1, name <- x2, temporary <- x3, save <- x4, read <- x5,
       writer <- x6, writes <- x7

Tree == INSTANCE ProjectTree WITH
       tree <- x1, changes <- x2, listing <- x3, search <- x4, active <- x5

Adapter == INSTANCE AgentAdapter WITH
       Runs <- AdapterRuns,
       claims <- x1, handle <- x2, releasing <- x3, events <- x4, taken <- x5,
       answered <- x6, operations <- x7

Roots == INSTANCE WorkspaceRoots WITH roots <- x1, opened <- x2

Lines == INSTANCE JsonLines WITH fed <- x1, frames <- x2, buffer <- x3, error <- x4

\* None is nothing else, and no daemon has the name of something else.
ASSUME StartupAssumption ==
  /\ MaxCrashes \in Nat
  /\ Daemons \cap {None, "empty", "stale", "foreign"} = {}
  /\ None \notin {"empty", "stale", "foreign", "ready", "create", "unlock", "unavailable"}
  /\ None \notin Startup!Envelopes /\ None \notin Startup!Databases

\* The slots after the n-th are not in use.
Zero10 == x11 = 0 /\ x12 = 0
Zero8 == x9 = 0 /\ x10 = 0 /\ Zero10
Zero7 == x8 = 0 /\ Zero8
Zero5 == x6 = 0 /\ x7 = 0 /\ Zero7
Zero4 == x5 = 0 /\ Zero5
Zero2 == x3 = 0 /\ x4 = 0 /\ Zero4
Zero0 == x1 = 0 /\ x2 = 0 /\ Zero2

PartInit ==
  /\ Init
  /\ \/ part = "startup" /\ Startup!Init
     \/ part = "storage" /\ Storage!Init /\ Zero10
     \/ part = "frames" /\ Frames!Init /\ Zero8
     \/ part = "file" /\ Files!Init /\ Zero7
     \/ part = "tree" /\ Tree!Init /\ Zero5
     \/ part = "adapter" /\ Adapter!Init /\ Zero7
     \/ part = "roots" /\ Roots!Init /\ Zero2
     \/ part = "lines" /\ Lines!Init /\ Zero4
     \/ part = "record" /\ Zero0

PartNext ==
  /\ UNCHANGED part
  /\ \/ part = "record" /\ Next /\ UNCHANGED slots
     \/ part = "startup" /\ Startup!Next /\ UNCHANGED vars
     \/ part = "storage" /\ Storage!Next /\ UNCHANGED <<vars, x11, x12>>
     \/ part = "frames" /\ Frames!Next /\ UNCHANGED <<vars, x9, x10, x11, x12>>
     \/ part = "file" /\ Files!Next /\ UNCHANGED <<vars, x8, x9, x10, x11, x12>>
     \/ part = "tree" /\ Tree!Next /\ UNCHANGED <<vars, x6, x7, x8, x9, x10, x11, x12>>
     \/ part = "adapter" /\ Adapter!Next /\ UNCHANGED <<vars, x8, x9, x10, x11, x12>>
     \/ /\ part = "roots" /\ Roots!Next
        /\ UNCHANGED <<vars, x3, x4, x5, x6, x7, x8, x9, x10, x11, x12>>
     \/ /\ part = "lines" /\ Lines!Next
        /\ UNCHANGED <<vars, x5, x6, x7, x8, x9, x10, x11, x12>>

PartSpec == PartInit /\ [][PartNext]_<<part, slots, vars>>

-----------------------------------------------------------------------------
(* The properties of the modules; those of SessionPersistence as they are. *)

\* DaemonStartup: whatever the races between daemons and users, a database
\* opened through the envelope is encrypted with the key in it, every daemon
\* that works on it holds its key, and no window is turned away for its token.
StartupSafe == part = "startup" => Startup!StartupSafe

\* StorageMaintenance: every row of a terminal names a file that is in place,
\* after any crash and any failed step.
RowsHaveFiles == part = "storage" => Storage!RowsHaveFiles

\* What a step may never do to stored data.  DaemonStartup: an existing
\* database keeps its key and its schema never goes back.  StorageMaintenance:
\* a good snapshot goes only behind enough newer good ones.
StorageKept ==
  [][/\ part = "startup" => Startup!DatabaseStep
     /\ part = "storage" => Storage!SnapshotStep]_<<part, slots, vars>>

\* StorageMaintenance: maintenance that succeeds leaves every owner within its
\* budget and age.
RetentionKept == [][part = "storage" => Storage!RetentionStep]_<<part, slots, vars>>

\* FrameChannel: responses reach the caller that asked, also when frames are
\* lost and the two sides get out of step.
AnswersMatch == part = "frames" => Frames!AnswersMatch

\* ProjectFiles: a read returns a text the file had, and a save replaces
\* nothing but the text its caller expected or a change in its last window.
FileKept == part = "file" => Files!FileKept

\* ProjectTree: listings and searches are complete or say that they are not.
\* WorkspaceRoots: what a path opens lies in exactly one root.
TreeReported ==
  /\ part = "tree" => Tree!TreeReported
  /\ part = "roots" => Roots!RootsApart

\* AgentAdapter: a binding has one writer, whose claim survives late stops and
\* drops of its predecessor, and a session's stream ends with its stop.
AdapterSound == part = "adapter" => Adapter!AdapterSound

\* JsonLines: the decoded values are those of the stream's leading acceptable
\* lines, however it is cut into chunks.
FramesOfStream == part = "lines" => Lines!FramesOfStream
=============================================================================
