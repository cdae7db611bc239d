------------------------------ MODULE Terminals ------------------------------
(***************************************************************************)
(* The daemon's terminals (terminal.rs): a table of sessions, a semaphore  *)
(* of slots and a queue of completed terminals from which an open makes    *)
(* room.  A terminal's child may end on its own, be closed by requests of  *)
(* several windows (whose tasks may be aborted at any await) or be pruned; *)
(* whoever comes first finalises it: the adapter's writer lease goes, then *)
(* the final state is published, then the slot is given back.  The child   *)
(* itself is known by what ProcessContract promises of it.                 *)
(***************************************************************************)
EXTENDS Naturals, FiniteSets, Sequences

CONSTANTS Terminals,       \* terminals that windows ask for
          AgentTerminals,  \* those of an agent's TUI: they hold a writer lease
          Closers,         \* requests that close a terminal
          Limit,           \* slots of the semaphore
          MaxFaults        \* bound on failing calls

ASSUME TerminalLimit ==
  Limit \in Nat \ {0} /\ AgentTerminals \subseteq Terminals /\ MaxFaults \in Nat

VARIABLES
  outcome, gone,    \* the child, see ProcessContract
  launch,           \* progress of open_for_project or open_tui_plan_for_project
  popped,           \* terminal that prune_completed_for_insert has taken out
  slots,            \* terminals that hold a permit of the semaphore
  table,            \* keys of TerminalManager.terminals
  completed,        \* TerminalManager.completed
  state, exit, closeRequested,   \* TerminalRuntime
  retained,         \* terminals whose retained flag is set
  lease,            \* terminals that hold an adapter writer lease
  reader,           \* program counter of spawn_output_reader's task
  fin,              \* holder of the finalization guard and its step
  guard,            \* holder of the operation guard
  close,            \* of each closer, its terminal and step
  waiter,           \* wait_for_completion of the terminal's monitor
  stored,           \* state of the terminal's row
  faults, unsure    \* failed calls; history: children whose terminate failed

processVars == <<outcome, gone>>
openVars == <<launch, popped>>
tableVars == <<slots, table, completed, retained>>
runtimeVars == <<state, exit, closeRequested, lease>>
taskVars == <<reader, fin, guard, close, waiter, stored>>
history == <<faults, unsure>>
vars == <<processVars, openVars, tableVars, runtimeVars, taskVars, history>>

Process == INSTANCE ProcessContract WITH Children <- Terminals

Nobody == "nobody"
Reader == "reader"
Writer == "writer"
ASSUME NamesDistinct == {Nobody, Reader, Writer} \cap (Terminals \cup Closers) = {}

Unlocked == [who |-> Nobody, step |-> "none"]
NoClose == [terminal |-> Nobody, step |-> "idle"]

Init ==
  /\ Process!ContractInit
  /\ launch = [t \in Terminals |-> "absent"] /\ popped = [t \in Terminals |-> Nobody]
  /\ slots = {} /\ table = {} /\ completed = <<>> /\ retained = {}
  /\ state = [t \in Terminals |-> "running"] /\ exit = [t \in Terminals |-> FALSE]
  /\ closeRequested = {} /\ lease = {}
  /\ reader = [t \in Terminals |-> "none"]
  /\ fin = [t \in Terminals |-> Unlocked]
  /\ guard = [t \in Terminals |-> Nobody]
  /\ close = [k \in Closers |-> NoClose]
  /\ waiter = [t \in Terminals |-> "none"]
  /\ stored = [t \in Terminals |-> "none"]
  /\ faults = 0 /\ unsure = {}

Fault == faults < MaxFaults /\ faults' = faults + 1

-----------------------------------------------------------------------------
(* The child.                                                              *)

ChildSteps(t) ==
  /\ \/ Process!Vanishes(t)
     \/ Process!ReportsExit(t)
     \/ Process!ReportsFailure(t) /\ gone[t]
  /\ UNCHANGED <<openVars, tableVars, runtimeVars, taskVars, history>>

Ended(t) == outcome[t] \in {"exited", "failed"}

-----------------------------------------------------------------------------
(* Opening a terminal.                                                     *)

LaunchMoves(t, from, to) ==
  launch[t] = from /\ launch' = [launch EXCEPT ![t] = to]

\* prepare_launch: a valid directory, a slot without waiting.  An agent's
\* terminal brings its writer lease.
Prepare(t) ==
  /\ LaunchMoves(t, "absent", "pruning") /\ Cardinality(slots) < Limit
  /\ slots' = slots \cup {t}
  /\ lease' = lease \cup ({t} \cap AgentTerminals)
  /\ UNCHANGED <<processVars, popped, table, completed, retained, state, exit,
                 closeRequested, taskVars, history>>

\* prune_completed_for_insert: while the table is full take out the terminal
\* that completed first ...
PrunePops(t) ==
  /\ \/ /\ Cardinality(table) >= Limit /\ completed # <<>>
        /\ LaunchMoves(t, "pruning", "removing")
        /\ popped' = [popped EXCEPT ![t] = Head(completed)]
        /\ completed' = Tail(completed)
     \/ /\ Cardinality(table) < Limit \/ completed = <<>>
        /\ LaunchMoves(t, "pruning", "spawning")
        /\ UNCHANGED <<popped, completed>>
  /\ UNCHANGED <<processVars, slots, table, retained, runtimeVars, taskVars, history>>

\* ... and drop it from the table.
PruneRemoves(t) ==
  /\ LaunchMoves(t, "removing", "pruning")
  /\ table' = table \ {popped[t]}
  /\ retained' = IF popped[t] \in table THEN retained \ {popped[t]} ELSE retained
  /\ popped' = [popped EXCEPT ![t] = Nobody]
  /\ UNCHANGED <<processVars, slots, completed, runtimeVars, taskVars, history>>

OpenFails(t) ==
  /\ LaunchMoves(t, "spawning", "failed") /\ Fault
  /\ slots' = slots \ {t} /\ lease' = lease \ {t}
  /\ UNCHANGED <<processVars, popped, table, completed, retained, state, exit,
                 closeRequested, taskVars, unsure>>

Spawn(t) ==
  /\ LaunchMoves(t, "spawning", "registering")
  /\ Process!Begins(t)
  /\ UNCHANGED <<popped, tableVars, runtimeVars, taskVars, history>>

\* The row is written, the session inserted and its tasks started.
Insert(t) ==
  /\ LaunchMoves(t, "registering", "open")
  /\ table' = table \cup {t} /\ retained' = retained \cup {t}
  /\ reader' = [reader EXCEPT ![t] = "reading"]
  /\ stored' = [stored EXCEPT ![t] = "running"]
  /\ waiter' = [waiter EXCEPT ![t] = IF t \in AgentTerminals THEN "arming" ELSE "none"]
  /\ UNCHANGED <<processVars, popped, slots, completed, runtimeVars, fin, guard, close, history>>

\* register_terminal fails: the child is terminated, ...
RegistrationFails(t) ==
  /\ LaunchMoves(t, "registering", "rejecting") /\ Fault
  /\ UNCHANGED <<processVars, popped, tableVars, runtimeVars, taskVars, unsure>>

\* ... and if that fails too its lease is kept until the child has ended.
\* The two failures count as one fault.
Rejected(t) ==
  /\ \/ Ended(t) /\ LaunchMoves(t, "rejecting", "failed")
        /\ lease' = lease \ {t} /\ UNCHANGED history
     \/ LaunchMoves(t, "rejecting", "retaining")
        /\ unsure' = unsure \cup {t} /\ UNCHANGED <<lease, faults>>
  /\ slots' = slots \ {t}
  /\ UNCHANGED <<processVars, popped, table, completed, retained, state, exit,
                 closeRequested, taskVars>>

ReleaseRetained(t) ==
  /\ LaunchMoves(t, "retaining", "failed") /\ Ended(t)
  /\ lease' = lease \ {t}
  /\ UNCHANGED <<processVars, popped, tableVars, state, exit, closeRequested, taskVars, history>>

-----------------------------------------------------------------------------
(* finalize_reaped, under the finalization guard.                          *)

FinMoves(t, who, from, to) ==
  /\ fin[t] = (IF from = "none" THEN Unlocked ELSE [who |-> who, step |-> from])
  /\ fin' = [fin EXCEPT ![t] = IF to = "none" THEN Unlocked ELSE [who |-> who, step |-> to]]

FinLease(t, who) ==
  /\ FinMoves(t, who, "none", "state")
  /\ lease' = lease \ {t}
  /\ UNCHANGED <<tableVars, state, exit, closeRequested, waiter>>

\* ok: the completion is an exit, not an error.
FinState(t, who, ok) ==
  /\ FinMoves(t, who, "state", "take")
  /\ exit' = [exit EXCEPT ![t] = ok]
  /\ state' = [state EXCEPT ![t] = IF ~ok THEN "failed"
                                   ELSE IF t \in closeRequested THEN "closed" ELSE "exited"]
  /\ UNCHANGED <<tableVars, closeRequested, lease, waiter>>

Woken == [t \in Terminals |-> IF waiter[t] \in {"looking", "sleeping"} THEN "notified" ELSE waiter[t]]

\* A slip: the monitor is not notified.
FinTakeUnheard(t, who) ==
  /\ FinMoves(t, who, "take", IF t \in slots THEN "push" ELSE "none")
  /\ UNCHANGED <<tableVars, runtimeVars, waiter>>

\* The permit is taken out and the waiters are notified.  Whoever finds the
\* permit gone is done.
FinTake(t, who) ==
  /\ FinMoves(t, who, "take", IF t \in slots THEN "push" ELSE "none")
  /\ waiter' = [waiter EXCEPT ![t] = Woken[t]]
  /\ UNCHANGED <<tableVars, runtimeVars>>

\* Retained terminals can be pruned from now on; the slot is free.
FinPush(t, who) ==
  /\ FinMoves(t, who, "push", "none")
  /\ completed' = IF t \in retained THEN Append(completed, t) ELSE completed
  /\ slots' = slots \ {t}
  /\ UNCHANGED <<table, retained, runtimeVars, waiter>>

Finalize(t, who, ok) == FinLease(t, who) \/ FinState(t, who, ok) \/ FinTake(t, who) \/ FinPush(t, who)

Finalized(t) == t \notin slots

-----------------------------------------------------------------------------
(* The output reader.                                                      *)

\* At the end of the output the reader waits for the child, after a failed
\* read it terminates it: it goes on with the outcome, or with an error of the
\* termination itself.
ReaderCompletes(t) ==
  /\ reader[t] = "reading"
  /\ \/ Ended(t) /\ reader' = [reader EXCEPT ![t] = outcome[t]] /\ UNCHANGED history
     \/ Fault /\ reader' = [reader EXCEPT ![t] = "failed"] /\ unsure' = unsure \cup {t}
  /\ UNCHANGED <<processVars, openVars, tableVars, runtimeVars, fin, guard, close, waiter, stored>>

ReaderFinalizes(t) ==
  /\ reader[t] \in {"exited", "failed"}
  /\ Finalize(t, Reader, reader[t] = "exited")
  /\ reader' = IF fin[t].step # "none" /\ fin'[t] = Unlocked
               THEN [reader EXCEPT ![t] = "storing"] ELSE reader
  /\ UNCHANGED <<processVars, openVars, guard, close, stored, history>>

\* update_terminal_state with the state of that moment.
ReaderStores(t) ==
  /\ reader[t] = "storing"
  /\ reader' = [reader EXCEPT ![t] = "done"]
  /\ stored' = [stored EXCEPT ![t] = state[t]]
  /\ UNCHANGED <<processVars, openVars, tableVars, runtimeVars, fin, guard, close, waiter, history>>

-----------------------------------------------------------------------------
(* Requests on a terminal.                                                 *)

\* write and resize hold the operation guard; a write lasts until the child
\* has taken the bytes.
Operate(t) ==
  /\ t \in table /\ guard[t] = Nobody /\ state[t] = "running"
  /\ guard' = [guard EXCEPT ![t] = Writer]
  /\ UNCHANGED <<processVars, openVars, tableVars, runtimeVars, reader, fin, close, waiter,
                 stored, history>>

OperationEnds(t) ==
  /\ guard[t] = Writer /\ guard' = [guard EXCEPT ![t] = Nobody]
  /\ UNCHANGED <<processVars, openVars, tableVars, runtimeVars, reader, fin, close, waiter,
                 stored, history>>

CloseMoves(k, from, to) ==
  close[k].step = from /\ close' = [close EXCEPT ![k].step = to]

CloseBegins(k, t) ==
  /\ close[k].step = "idle" /\ t \in table
  /\ close' = [close EXCEPT ![k] = [terminal |-> t, step |-> "guard"]]
  /\ UNCHANGED <<processVars, openVars, tableVars, runtimeVars, reader, fin, guard, waiter,
                 stored, history>>

\* The operation guard; the table is looked up again under it.
CloseGuards(k) ==
  LET t == close[k].terminal IN
  /\ close[k].step = "guard" /\ guard[t] = Nobody
  /\ \/ t \in table /\ CloseMoves(k, "guard", "request") /\ guard' = [guard EXCEPT ![t] = k]
     \/ t \notin table /\ CloseMoves(k, "guard", "ended") /\ UNCHANGED guard
  /\ UNCHANGED <<processVars, openVars, tableVars, runtimeVars, reader, fin, waiter, stored, history>>

CloseRequests(k) ==
  LET t == close[k].terminal IN
  /\ CloseMoves(k, "request", "check")
  /\ closeRequested' = closeRequested \cup {t}
  /\ state' = [state EXCEPT ![t] = IF @ \in {"exited", "closed"} THEN @ ELSE "closing"]
  /\ UNCHANGED <<processVars, openVars, tableVars, exit, lease, reader, fin, guard, waiter,
                 stored, history>>

CloseChecks(k) ==
  LET t == close[k].terminal IN
  /\ close[k].step = "check" /\ fin[t] = Unlocked
  /\ CloseMoves(k, "check", IF Finalized(t) THEN "settle" ELSE "terminate")
  /\ UNCHANGED <<processVars, openVars, tableVars, runtimeVars, reader, fin, guard, waiter,
                 stored, history>>

\* PtyProcess::terminate returns the outcome, or an error of its own.
CloseTerminates(k) ==
  LET t == close[k].terminal IN
  /\ close[k].step = "terminate"
  /\ \/ Ended(t) /\ UNCHANGED history
        /\ CloseMoves(k, "terminate", IF outcome[t] = "exited" THEN "finalize" ELSE "note")
     \/ Fault /\ unsure' = unsure \cup {t} /\ CloseMoves(k, "terminate", "note")
  /\ UNCHANGED <<processVars, openVars, tableVars, runtimeVars, reader, fin, guard, waiter, stored>>

CloseFinalizes(k) ==
  LET t == close[k].terminal IN
  /\ close[k].step = "finalize" /\ Finalize(t, k, TRUE)
  /\ close' = IF fin[t].step # "none" /\ fin'[t] = Unlocked
              THEN [close EXCEPT ![k].step = "settle"] ELSE close
  /\ UNCHANGED <<processVars, openVars, reader, guard, stored, history>>

\* note_termination_failure: the terminal stays, unless it was finalised.
CloseNotes(k) ==
  LET t == close[k].terminal IN
  /\ close[k].step = "note" /\ fin[t] = Unlocked
  /\ \/ /\ Finalized(t) /\ CloseMoves(k, "note", "settle")
        /\ UNCHANGED <<state, exit, guard, waiter>>
     \/ /\ ~Finalized(t) /\ CloseMoves(k, "note", "ended")
        /\ state' = [state EXCEPT ![t] = "failed"] /\ exit' = [exit EXCEPT ![t] = FALSE]
        /\ waiter' = [waiter EXCEPT ![t] = Woken[t]]
        /\ guard' = [guard EXCEPT ![t] = Nobody]
  /\ UNCHANGED <<processVars, openVars, tableVars, closeRequested, lease, reader, fin, stored, history>>

\* A slip: the completed queue still names the removed terminal.
MarkUnretained(t) == retained' = retained \ {t} /\ UNCHANGED completed

\* VecDeque::retain(|u| u != t): the entry that has j - 1 other kept ones in front
\* of it comes j-th.
Retain(s, t) ==
  LET kept == {i \in DOMAIN s : s[i] # t}
      rank(i) == Cardinality({h \in kept : h <= i})
  IN  [j \in 1 .. Cardinality(kept) |-> s[CHOOSE i \in kept : rank(i) = j]]

\* mark_removed: off the completed queue and never back on it.
MarkRemoved(t) ==
  /\ retained' = retained \ {t}
  /\ completed' = Retain(completed, t)

CloseSettles(k) ==
  LET t == close[k].terminal IN
  /\ CloseMoves(k, "settle", "remove")
  /\ state' = [state EXCEPT ![t] = "closed"]
  /\ MarkRemoved(t)
  /\ UNCHANGED <<processVars, openVars, slots, table, exit, closeRequested, lease, reader, fin,
                 guard, waiter, stored, history>>

CloseRemoves(k) ==
  LET t == close[k].terminal IN
  /\ CloseMoves(k, "remove", "ended")
  /\ table' = table \ {t} /\ guard' = [guard EXCEPT ![t] = Nobody]
  /\ UNCHANGED <<processVars, openVars, slots, completed, retained, runtimeVars, reader, fin,
                 waiter, stored, history>>

\* The closer's task is aborted at an await, or close_all's deadline expires:
\* its guards are free, a permit it had taken out is dropped.
CloseDropped(k) ==
  LET t == close[k].terminal IN
  /\ close[k].step \notin {"idle", "ended"}
  /\ close' = [close EXCEPT ![k].step = "ended"]
  /\ guard' = [guard EXCEPT ![t] = IF @ = k THEN Nobody ELSE @]
  /\ fin' = [fin EXCEPT ![t] = IF @.who = k THEN Unlocked ELSE @]
  /\ slots' = IF fin[t] = [who |-> k, step |-> "push"] THEN slots \ {t} ELSE slots
  /\ UNCHANGED <<processVars, openVars, table, completed, retained, runtimeVars, reader,
                 waiter, stored, history>>

-----------------------------------------------------------------------------
(* wait_for_completion: enable the notification, look, sleep.              *)

Arm(t) ==
  /\ waiter[t] \in {"arming", "notified"}
  /\ waiter' = [waiter EXCEPT ![t] = "looking"]
  /\ UNCHANGED <<processVars, openVars, tableVars, runtimeVars, reader, fin, guard, close,
                 stored, history>>

Look(t) ==
  /\ waiter[t] = "looking"
  /\ waiter' = [waiter EXCEPT ![t] = IF state[t] \in {"running", "closing"} THEN "sleeping" ELSE "done"]
  /\ UNCHANGED <<processVars, openVars, tableVars, runtimeVars, reader, fin, guard, close,
                 stored, history>>

OpenStep(t) == \/ PrunePops(t) \/ PruneRemoves(t) \/ OpenFails(t) \/ Spawn(t)
               \/ Insert(t) \/ RegistrationFails(t) \/ Rejected(t) \/ ReleaseRetained(t)
ReaderStep(t) == ReaderCompletes(t) \/ ReaderFinalizes(t) \/ ReaderStores(t)
CloseStep(k) == \/ CloseGuards(k) \/ CloseRequests(k) \/ CloseChecks(k)
                \/ CloseTerminates(k) \/ CloseFinalizes(k) \/ CloseNotes(k)
                \/ CloseSettles(k) \/ CloseRemoves(k)

Next ==
  \/ \E t \in Terminals : \/ ChildSteps(t) \/ Prepare(t) \/ OpenStep(t)
                          \/ ReaderStep(t)
                          \/ Operate(t) \/ OperationEnds(t) \/ Arm(t) \/ Look(t)
  \/ \E k \in Closers : CloseStep(k) \/ CloseDropped(k) \/ \E t \in Terminals : CloseBegins(k, t)

Spec == Init /\ [][Next]_vars

\* The daemon's tasks are scheduled, and the output of a child that has ended
\* ends.  Nothing makes a child end or read its input, nobody has to close.
Fairness ==
  /\ \A t \in Terminals : /\ WF_vars(OpenStep(t))
                          /\ WF_vars(ReaderStep(t))
                          /\ WF_vars(Arm(t) \/ Look(t))
  /\ \A k \in Closers : WF_vars(CloseStep(k))
FairSpec == Spec /\ Fairness

-----------------------------------------------------------------------------
TerminalStates == {"running", "closing", "closed", "exited", "failed"}

\* Every variable keeps its type.
TypeOK ==
  /\ outcome \in [Terminals -> Process!Outcomes] /\ gone \in [Terminals -> BOOLEAN]
  /\ launch \in [Terminals -> {"absent", "pruning", "removing", "spawning", "registering",
                               "rejecting", "retaining", "open", "failed"}]
  /\ popped \in [Terminals -> Terminals \cup {Nobody}]
  /\ slots \subseteq Terminals /\ table \subseteq Terminals /\ retained \subseteq Terminals
  /\ completed \in Seq(Terminals) /\ lease \subseteq Terminals
  /\ state \in [Terminals -> TerminalStates] /\ exit \in [Terminals -> BOOLEAN]
  /\ closeRequested \subseteq Terminals /\ unsure \subseteq Terminals
  /\ reader \in [Terminals -> {"none", "reading", "exited", "failed", "storing", "done"}]
  /\ fin \in [Terminals -> [who : Closers \cup {Nobody, Reader}, step : {"none", "state", "take", "push"}]]
  /\ guard \in [Terminals -> Closers \cup {Nobody, Writer}]
  /\ close \in [Closers -> [terminal : Terminals \cup {Nobody},
                            step : {"idle", "guard", "request", "check", "terminate", "finalize",
                                    "note", "settle", "remove", "ended"}]]
  /\ waiter \in [Terminals -> {"none", "arming", "looking", "sleeping", "notified", "done"}]
  /\ stored \in [Terminals -> TerminalStates \cup {"none"}]
  /\ faults \in 0..MaxFaults

\* The completed queue names each terminal once and only terminals whose slot
\* is free and which are still in the table: what prune takes out is neither a
\* running terminal nor one that a close has taken away meanwhile.
CompletedSound ==
  /\ \A i, j \in DOMAIN completed : completed[i] = completed[j] => i = j
  /\ \A i \in DOMAIN completed : completed[i] \in (table \cap retained) \ slots

\* A terminal whose child may still run is never lost from the table: it goes
\* only when it has been finalised, so its window can find it again.
LiveReachable ==
  \A t \in Terminals : launch[t] = "open" /\ t \in slots => t \in table

\* Nobody sees a terminal exited or closed while its child's vendor binding is
\* claimed, and the binding is released only when the child is gone or its
\* termination could not be carried out ("an observer can never see
\* Exited/Closed while the binding is claimed").
LeaseBeforeFinal ==
  \A t \in Terminals :
    /\ state[t] \in {"exited", "closed"} => t \notin lease
    /\ launch[t] = "open" /\ t \notin lease /\ waiter[t] # "none"
         => gone[t] \/ t \in unsure

\* All of the above, of variables that keep their types.
TerminalsSound == TypeOK /\ CompletedSound /\ LiveReachable /\ LeaseBeforeFinal

\* However opens, exits, closes and aborts interleave, the slot of a terminal
\* whose child has ended is given back.
SlotsReturn == \A t \in Terminals : (launch[t] = "open" /\ Ended(t)) ~> t \notin slots

\* The monitor of an agent's terminal hears of its exit: no notification falls
\* between its look at the state and its sleep.  (After a failed end it may not:
\* a close makes a failed terminal "closing" again and notifies nobody.)
WaiterHears ==
  \A t \in AgentTerminals : (waiter[t] # "none" /\ outcome[t] = "exited")
                               ~> (waiter[t] = "done" \/ t \in unsure)

\* Both of the above: an ended terminal frees its slot and wakes its monitor.
TerminalsSettle == SlotsReturn /\ WaiterHears
=============================================================================
