------------------------- MODULE MC_PendingRequests -------------------------
(* A permission request and a user-input request that reuse one identifier, *)
(* and a GUI action.                                                        *)
EXTENDS PendingRequests, TLC

CONSTANTS p, u, g, r1, r2

MCIdOf == [k \in Requests |-> IF k = g THEN 2 ELSE 1]
MCKindOf ==
  [k \in Requests |-> CASE k = p -> "permission"
                        [] k = u -> "user_input"
                        [] k = g -> "gui_action"]
Symmetry == Permutations(Responders)
=============================================================================
