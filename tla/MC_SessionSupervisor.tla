----------------------- MODULE MC_SessionSupervisor -----------------------
(* Two sessions, two bindings, and as many launches as one run takes. *)
EXTENDS SessionSupervisor
=============================================================================
