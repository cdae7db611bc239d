-------------------------- MODULE ProcessContract --------------------------
(***************************************************************************)
(* What maestro-process promises to the daemon about a child: once it has  *)
(* been spawned its lifecycle channel says "running", then one final       *)
(* outcome for ever, and "exited" is said only of a child whose group      *)
(* leader has been reaped.  OwnedProcesses implements it; Terminals uses   *)
(* it as its environment.                                                  *)
(***************************************************************************)
CONSTANT Children

VARIABLES outcome,   \* what the lifecycle channel shows of a child
          gone       \* its group leader has been reaped

contractVars == <<outcome, gone>>

\* lifecycle::LifecycleOutcome; "absent" before the spawn.
Outcomes == {"absent", "running", "exited", "failed"}

ContractInit == /\ outcome = [c \in Children |-> "absent"]
                /\ gone = [c \in Children |-> FALSE]

Begins(c) == /\ outcome[c] = "absent"
             /\ outcome' = [outcome EXCEPT ![c] = "running"]
             /\ UNCHANGED gone

Vanishes(c) == /\ outcome[c] \in {"running", "failed"} /\ ~gone[c]
               /\ gone' = [gone EXCEPT ![c] = TRUE]
               /\ UNCHANGED outcome

ReportsExit(c) == /\ outcome[c] = "running" /\ gone[c]
                  /\ outcome' = [outcome EXCEPT ![c] = "exited"]
                  /\ UNCHANGED gone

ReportsFailure(c) == /\ outcome[c] = "running"
                     /\ outcome' = [outcome EXCEPT ![c] = "failed"]
                     /\ UNCHANGED gone

ContractNext == \E c \in Children : \/ Begins(c) \/ Vanishes(c)
                                    \/ ReportsExit(c) \/ ReportsFailure(c)

ContractSpec == ContractInit /\ [][ContractNext]_contractVars
=============================================================================
