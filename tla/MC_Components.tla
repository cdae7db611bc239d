--------------------------- MODULE MC_Components ---------------------------
(* Small instances of the components, see Components. *)
EXTENDS Components, TLC

CONSTANTS d1, d2, p, q, t1, c1, c2

Symmetry == Permutations(Runs)
=============================================================================
