------------------------- MODULE StorageMaintenance -------------------------
(***************************************************************************)
(* What the daemon keeps beside its database: encrypted terminal segments  *)
(* with a metadata row each, raw captures, and one snapshot of the         *)
(* database per day (storage_runtime.rs, backup.rs, retention.rs).         *)
(* Persistence writers add segments and prune their terminal; maintenance  *)
(* takes the daily snapshot, rotates old ones and applies retention.  All  *)
(* hold the lock of the storage state; files that a pruning released are   *)
(* removed after the lock is given up.  The daemon can crash between any   *)
(* two steps, and every file operation can fail.                           *)
(*                                                                         *)
(* Transactions of SQLite are atomic (external).  A snapshot is good when  *)
(* verify_snapshot accepts it.                                             *)
(***************************************************************************)
EXTENDS Naturals, FiniteSets, FiniteSetsExt

CONSTANTS
  Tabs,            \* terminals, each with a persistence writer
  SegmentSizes,    \* sizes of the segments the writers flush
  MaxBytes,        \* budget of one owner: MAX_TERMINAL_SCROLLBACK_BYTES
  MaxAge,          \* days a raw capture is kept
  DailySnapshots,  \* DAILY_SNAPSHOTS
  MaxBatch,        \* MAX_RETENTION_BATCH
  MaxRows, MaxDay, MaxFaults  \* bounds: rows ever written, days, faults and crashes

VARIABLES
  today, written, faults,
  segments,   \* rows of terminal_segments and raw_segments, older ones with smaller ids
  files,      \* segment files in place, by the id of their row
  lock,       \* who holds the storage state: a tab, "keeper" or "free"
  writer,     \* each persistence writer: [at, id, bytes, released]
  keeper,     \* start and maintenance: [at, plan, released]
  snapshots,  \* the published snapshot of each day: "none", "good" or "bad"
  leftovers   \* temporary files that a crash left: the days they date from

storeVars == <<segments, files, lock, writer, keeper, snapshots, leftovers>>
vars == <<today, written, faults, storeVars>>

Quiet == [at |-> "idle", id |-> 0, bytes |-> 0, released |-> {}]
Startup == [at |-> "tidy", opening |-> TRUE, plan |-> {}, released |-> {}]

Init ==
  /\ today = 1 /\ written = 0 /\ faults = 0
  /\ segments = {} /\ files = {} /\ lock = "keeper"
  /\ writer = [t \in Tabs |-> Quiet] /\ keeper = Startup
  /\ snapshots = [d \in 1..MaxDay |-> "none"] /\ leftovers = {}

Ids(rows) == {r.id : r \in rows}
OwnedBy(owner) == {r \in segments : r.owner = owner}
Without(ids) == {r \in segments : r.id \notin ids}

\* The bytes of a set of rows.
BytesOf(rows, id) == IF id \in Ids(rows) THEN (CHOOSE r \in rows : r.id = id).bytes ELSE 0
Sum(rows) ==
  LET upTo[id \in 0..MaxRows] == IF id = 0 THEN 0 ELSE upTo[id - 1] + BytesOf(rows, id)
  IN  upTo[MaxRows]

\* An operation may fail while the bound on faults allows it.
Fault == faults < MaxFaults /\ faults' = faults + 1
Works == UNCHANGED faults

-----------------------------------------------------------------------------
(* persist_terminal_segment, called by the writer of a terminal.           *)

Move(t, place) == writer' = [writer EXCEPT ![t].at = place]

PersistBegins(t, n) ==
  /\ writer[t].at = "idle" /\ lock = "free" /\ keeper.at # "closed" /\ written < MaxRows
  /\ lock' = t /\ written' = written + 1
  /\ writer' = [writer EXCEPT ![t] = [Quiet EXCEPT !.at = "writing", !.id = written + 1, !.bytes = n]]
  /\ UNCHANGED <<today, faults, segments, files, keeper, snapshots, leftovers>>

\* write_encrypted_segment: a temporary, renamed when it is complete.
WriteSegment(t) ==
  /\ writer[t].at = "writing"
  /\ \/ /\ Works /\ files' = files \cup {writer[t].id} /\ Move(t, "written") /\ UNCHANGED lock
     \/ /\ Fault /\ lock' = "free" /\ Move(t, "idle") /\ UNCHANGED files
  /\ UNCHANGED <<today, written, segments, keeper, snapshots, leftovers>>

AppendRow(t) ==
  LET row == [id |-> writer[t].id, owner |-> t, bytes |-> writer[t].bytes, day |-> today] IN
  /\ writer[t].at = "written"
  /\ \/ /\ Works /\ segments' = segments \cup {row} /\ Move(t, "appended") /\ UNCHANGED <<files, lock>>
     \/ /\ Fault /\ files' = files \ {row.id} /\ lock' = "free" /\ Move(t, "idle") /\ UNCHANGED segments
  /\ UNCHANGED <<today, written, keeper, snapshots, leftovers>>

\* A slip: a row is compared with the budget before it is counted.
FitsBehind(kept, r) == Sum(kept) <= MaxBytes
Fits(kept, r) == Sum(kept) + r.bytes <= MaxBytes

\* prune_terminal_segments goes from the newest row to the oldest and keeps
\* each one that still fits.
Kept(rows) ==
  LET from[id \in 1..MaxRows + 1] ==
        IF id = MaxRows + 1 THEN {}
        ELSE from[id + 1] \cup {r \in rows : r.id = id /\ Fits(from[id + 1], r)}
  IN  from[1]
Expired(t) == Ids(OwnedBy(t) \ Kept(OwnedBy(t)))

\* A slip: a failed pruning removes the file of the row just appended.
PruneCleansUp(t) ==
  /\ writer[t].at = "appended"
  /\ Fault /\ lock' = "free" /\ Move(t, "idle")
  /\ files' = files \ {writer[t].id}
  /\ UNCHANGED <<today, written, segments, keeper, snapshots, leftovers>>

PruneRows(t) ==
  /\ writer[t].at = "appended"
  /\ lock' = "free"
  /\ \/ /\ Works /\ segments' = Without(Expired(t))
        /\ writer' = [writer EXCEPT ![t].at = "releasing", ![t].released = Expired(t)]
     \/ /\ Fault /\ Move(t, "idle") /\ UNCHANGED segments
  /\ UNCHANGED <<today, written, files, keeper, snapshots, leftovers>>

\* remove_released_files, without the lock; the first failure ends it.
RemovePruned(t) ==
  /\ writer[t].at = "releasing"
  /\ IF writer[t].released = {} THEN Move(t, "idle") /\ Works /\ UNCHANGED files
     ELSE \/ /\ Works
             /\ \E f \in writer[t].released :
                  /\ files' = files \ {f}
                  /\ writer' = [writer EXCEPT ![t].released = @ \ {f}]
          \/ Fault /\ Move(t, "idle") /\ UNCHANGED files
  /\ UNCHANGED <<today, written, segments, lock, keeper, snapshots, leftovers>>

\* upsert_raw_protocol_capture: the bytes are in the row itself.
StoreCapture(n) ==
  /\ lock = "free" /\ keeper.at # "closed" /\ written < MaxRows
  /\ written' = written + 1
  /\ segments' = segments \cup {[id |-> written + 1, owner |-> "raw", bytes |-> n, day |-> today]}
  /\ UNCHANGED <<today, faults, files, lock, writer, keeper, snapshots, leftovers>>

-----------------------------------------------------------------------------
(* create_daily_snapshot, at start and at the head of maintenance.         *)

KeeperAt(place) == keeper' = [keeper EXCEPT !.at = place]
\* A failed start leaves the storage unavailable, a failed maintenance is
\* tried again at the next tick.
GivesUp == lock' = "free" /\ KeeperAt(IF keeper.opening THEN "closed" ELSE "idle")

MaintainBegins ==
  /\ keeper.at = "idle" /\ lock = "free"
  /\ lock' = "keeper"
  /\ keeper' = [Startup EXCEPT !.opening = FALSE]
  /\ UNCHANGED <<today, written, faults, segments, files, writer, snapshots, leftovers>>

\* cleanup_stale_temporaries: those of an earlier day.
Tidy ==
  /\ keeper.at = "tidy"
  /\ leftovers' = {d \in leftovers : d >= today}
  /\ KeeperAt("check")
  /\ UNCHANGED <<today, written, faults, segments, files, lock, writer, snapshots>>

CheckExisting ==
  /\ keeper.at = "check"
  /\ IF snapshots[today] = "bad" THEN GivesUp ELSE KeeperAt("copy") /\ UNCHANGED lock
  /\ UNCHANGED <<today, written, faults, segments, files, writer, snapshots, leftovers>>

\* The copy is made and verified under a temporary name.
CopyDatabase ==
  /\ keeper.at = "copy"
  /\ \/ Works /\ KeeperAt("publish") /\ UNCHANGED lock
     \/ Fault /\ GivesUp
  /\ UNCHANGED <<today, written, segments, files, writer, snapshots, leftovers>>

PublishSnapshot ==
  /\ keeper.at = "publish"
  /\ snapshots' = [snapshots EXCEPT ![today] = "good"]
  /\ KeeperAt("rotate")
  /\ UNCHANGED <<today, written, faults, segments, files, lock, writer, leftovers>>

Verified == {d \in DOMAIN snapshots : snapshots[d] = "good"}
Newer(d) == {e \in Verified : e > d}

\* A slip: snapshots that were not verified count as newer backups.
SurplusUnverified ==
  {d \in Verified : Cardinality({e \in DOMAIN snapshots : e > d /\ snapshots[e] # "none"}) >= DailySnapshots}

Surplus == {d \in Verified : Cardinality(Newer(d)) >= DailySnapshots}

\* rotate removes the surplus one by one, the newest of it first.
Rotate ==
  /\ keeper.at = "rotate"
  /\ IF Surplus = {}
       THEN /\ Works /\ UNCHANGED snapshots
            /\ IF keeper.opening THEN lock' = "free" /\ KeeperAt("idle")
                                 ELSE UNCHANGED lock /\ KeeperAt("plan")
       ELSE \/ /\ Works /\ snapshots' = [snapshots EXCEPT ![Max(Surplus)] = "none"]
               /\ UNCHANGED <<lock, keeper>>
            \/ Fault /\ GivesUp /\ UNCHANGED snapshots
  /\ UNCHANGED <<today, written, segments, files, writer, leftovers>>

-----------------------------------------------------------------------------
(* Retention: plan, then batches.                                          *)

\* RetentionPlan::from_records: what is too old, and the oldest rows of an
\* owner until the rest is within its budget.
TooOld(r) == r.owner = "raw" /\ r.day + MaxAge < today
From(rows, r) == {s \in rows : s.id >= r.id}
\* A slip: a row is not counted when it is decided on.
OverBudgetBehind(rows) == {r \in rows : Sum(From(rows, r) \ {r}) > MaxBytes}
OverBudget(rows) == {r \in rows : Sum(From(rows, r)) > MaxBytes}
Planned ==
  LET old == {r \in segments : TooOld(r)}
  IN  Ids(old \cup UNION {OverBudget(OwnedBy(o) \ old) : o \in Tabs \cup {"raw"}})

Plan ==
  /\ keeper.at = "plan"
  /\ keeper' = [keeper EXCEPT !.at = "batch", !.plan = Planned]
  /\ UNCHANGED <<today, written, faults, segments, files, lock, writer, snapshots, leftovers>>

\* Candidates go by category, then by age.
Before(i, j) ==
  LET raw == Ids(OwnedBy("raw"))
  IN  IF i \in raw <=> j \in raw THEN i < j ELSE j \in raw
BatchOf(plan) == {i \in plan : Cardinality({j \in plan : Before(j, i)}) < MaxBatch}

\* execute_retention_batch: the plan is drained once the batch is committed.
DeleteBatch ==
  LET batch == BatchOf(keeper.plan) IN
  /\ keeper.at = "batch" /\ keeper.plan # {}
  /\ \/ /\ Works
        /\ segments' = Without(batch)
        /\ keeper' = [keeper EXCEPT !.at = "release", !.plan = @ \ batch,
                                    !.released = batch \cap Ids(segments)]
        /\ UNCHANGED lock
     \/ Fault /\ GivesUp /\ UNCHANGED segments
  /\ UNCHANGED <<today, written, files, writer, snapshots, leftovers>>

RemoveReleased ==
  /\ keeper.at = "release"
  /\ IF keeper.released = {} THEN KeeperAt("batch") /\ Works /\ UNCHANGED <<files, lock>>
     ELSE \/ /\ Works
             /\ \E f \in keeper.released :
                  files' = files \ {f} /\ keeper' = [keeper EXCEPT !.released = @ \ {f}]
             /\ UNCHANGED lock
          \/ Fault /\ GivesUp /\ UNCHANGED files
  /\ UNCHANGED <<today, written, segments, writer, snapshots, leftovers>>

MaintainEnds ==
  /\ keeper.at = "batch" /\ keeper.plan = {}
  /\ lock' = "free" /\ KeeperAt("idle")
  /\ UNCHANGED <<today, written, faults, segments, files, writer, snapshots, leftovers>>

-----------------------------------------------------------------------------
(* The world.                                                              *)

Crash ==
  /\ Fault
  /\ leftovers' = leftovers \cup (IF keeper.at = "publish" THEN {today} ELSE {})
  /\ lock' = "keeper" /\ keeper' = Startup
  /\ writer' = [t \in Tabs |-> Quiet]
  /\ UNCHANGED <<today, written, segments, files, snapshots>>

\* A published snapshot is damaged on disk.
Damage(d) ==
  /\ snapshots[d] = "good" /\ Fault
  /\ snapshots' = [snapshots EXCEPT ![d] = "bad"]
  /\ UNCHANGED <<today, written, segments, files, lock, writer, keeper, leftovers>>

\* A file operation takes far less than a day.
DayPasses ==
  /\ lock = "free" /\ today < MaxDay
  /\ today' = today + 1
  /\ UNCHANGED <<written, faults, storeVars>>

Next ==
  \/ \E t \in Tabs : \/ \E n \in SegmentSizes : PersistBegins(t, n)
                     \/ WriteSegment(t) \/ AppendRow(t) \/ PruneRows(t) \/ RemovePruned(t)
  \/ \E n \in SegmentSizes : StoreCapture(n)
  \/ MaintainBegins \/ Tidy \/ CheckExisting \/ CopyDatabase \/ PublishSnapshot \/ Rotate
  \/ Plan \/ DeleteBatch \/ RemoveReleased \/ MaintainEnds
  \/ Crash \/ DayPasses \/ \E d \in 1..MaxDay : Damage(d)

Spec == Init /\ [][Next]_vars

-----------------------------------------------------------------------------
\* Every row of a terminal names a file that is in place, after any crash and
\* any failed step: files are written before their row and removed after it
\* (storage_runtime.rs:266-285, 505-512).
RowsHaveFiles == \A r \in segments : r.owner \in Tabs => r.id \in files

\* What makes it inductive.
Writers == [at : {"idle", "writing", "written", "appended", "releasing"}, id : 0..written,
            bytes : SegmentSizes \cup {0}, released : SUBSET (1..written)]
TypeOK ==
  /\ today \in 1..MaxDay /\ written \in 0..MaxRows /\ files \subseteq 1..written
  /\ segments \subseteq [id : 1..written, owner : Tabs \cup {"raw"}, bytes : SegmentSizes, day : 1..MaxDay]
  /\ lock \in Tabs \cup {"keeper", "free"}
  /\ writer \in [Tabs -> Writers]
  /\ keeper = [at |-> keeper.at, opening |-> keeper.opening, plan |-> keeper.plan, released |-> keeper.released]
  /\ snapshots \in [1..MaxDay -> {"none", "good", "bad"}]

\* Who is at work on rows holds the lock, and the row to be written is new.
Working(t) == writer[t].at \in {"writing", "written", "appended"}
LockHeld ==
  /\ \A t \in Tabs : /\ Working(t) => lock = t /\ writer[t].bytes \in SegmentSizes
                     /\ writer[t].at \in {"writing", "written"} => writer[t].id \in (1..written) \ Ids(segments)
                     /\ writer[t].at = "written" => writer[t].id \in files
  /\ keeper.at \notin {"idle", "closed"} => lock = "keeper"

\* A file that is to be removed belongs to no row, and to none being written.
Unborn == {writer[t].id : t \in {t \in Tabs : writer[t].at \in {"writing", "written"}}}
Loose(ids) == ids \subseteq 1..written /\ ids \cap (Ids(segments) \cup Unborn) = {}
ReleasedIsLoose ==
  /\ \A t \in Tabs : writer[t].at = "releasing" => Loose(writer[t].released)
  /\ keeper.at = "release" => Loose(keeper.released)

FilesSound == TypeOK /\ RowsHaveFiles /\ LockHeld /\ ReleasedIsLoose

\* No two rows have the same id; what a plan leaves when it is carried out is
\* within every limit.
IdsUnique == \A r, s \in segments : r.id = s.id => r = s
WithinLimits(rows) ==
  /\ \A o \in Tabs \cup {"raw"} : Sum({r \in rows : r.owner = o}) <= MaxBytes
  /\ \A r \in rows : ~TooOld(r)
PlanSuffices == keeper.at \in {"batch", "release"} => WithinLimits(Without(keeper.plan))

IInv == FilesSound /\ IdsUnique /\ PlanSuffices /\ faults \in Nat

\* A good snapshot disappears only behind DailySnapshots newer good ones, and
\* one that cannot be verified is left alone: whatever fails during rotation,
\* the newest backups survive (backup.rs:134-170).
SnapshotStep ==
  \A d \in 1..MaxDay :
    snapshots[d] # "none" /\ snapshots'[d] = "none"
      => /\ snapshots[d] = "good"
         /\ Cardinality({e \in Newer(d) : snapshots'[e] = "good"}) >= DailySnapshots

\* When maintenance succeeds every owner is within its byte budget and no raw
\* capture is older than its age limit, however many batches the plan took
\* and whatever earlier failures left behind; a pruning that succeeds leaves
\* its terminal within the budget (retention.rs:84-157, 238-290,
\* database.rs:424-466).
RetentionStep ==
  /\ keeper.at = "batch" /\ keeper'.at = "idle" /\ UNCHANGED faults => WithinLimits(segments)
  /\ \A t \in Tabs :
       writer[t].at = "appended" /\ writer'[t].at = "releasing"
         => Sum({r \in segments' : r.owner = t}) <= MaxBytes

\* database.rs:416: "Removes the oldest terminal-segment metadata until the
\* owner fits its byte budget": no row survives a newer one of its terminal.
OldestFirst ==
  [][\A r \in segments, s \in segments :
       r.owner = s.owner /\ r.id < s.id /\ r \in segments' => s \in segments']_vars
=============================================================================
