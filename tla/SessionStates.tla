--------------------------- MODULE SessionStates ---------------------------
(***************************************************************************)
(* The lifecycle states of a logical session and the two ways the daemon   *)
(* moves between them: the domain's transition table (SessionState in      *)
(* maestro-domain) and the supervisor's set_state, which adds a few        *)
(* bridged moves and lets every state go back to Starting.                 *)
(***************************************************************************)

SessionState ==
  {"created", "starting", "ready", "running", "awaiting_permission",
   "awaiting_user_input", "background", "interrupting", "completed",
   "stopped", "failed", "interrupted", "recoverable", "incompatible"}

\* The states classify_completion may give a finished run.
FinalStates == {"completed", "stopped", "failed", "incompatible"}

\* What may follow each state; the absent states (Completed, Stopped,
\* Incompatible) may not be left at all.
NextStates(from) ==
  CASE from = "created"     -> {"starting", "stopped"}
    [] from = "starting"    -> {"ready", "running", "failed", "interrupted",
                                "incompatible", "stopped"}
    [] from = "ready"       -> {"running", "background", "stopped", "failed"}
    [] from = "running"     -> {"awaiting_permission", "awaiting_user_input",
                                "background", "interrupting", "completed",
                                "failed", "interrupted", "stopped"}
    [] from \in {"awaiting_permission", "awaiting_user_input"} ->
         {"running", "background", "interrupting", "failed", "interrupted",
          "stopped"}
    [] from = "background"  -> {"ready", "running", "awaiting_permission",
                                "awaiting_user_input", "interrupting",
                                "completed", "failed", "interrupted", "stopped"}
    [] from = "interrupting" -> {"ready", "interrupted", "completed", "failed",
                                 "stopped"}
    [] from \in {"failed", "interrupted"} -> {"recoverable", "starting", "stopped"}
    [] from = "recoverable" -> {"starting", "stopped", "incompatible"}
    [] OTHER                -> {}

CanTransitionTo(from, to) == to \in NextStates(from)

Bridged(from, to) ==
  \/ from = "starting" /\ to \in {"awaiting_permission", "awaiting_user_input"}
  \/ /\ from \in {"ready", "awaiting_permission", "awaiting_user_input"}
     /\ to = "completed"

\* A refused move leaves the state as it is and is not reported to the caller.
SetState(from, to) ==
  IF CanTransitionTo(from, to) \/ Bridged(from, to) \/ to = "starting"
  THEN to ELSE from
=============================================================================
