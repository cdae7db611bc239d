----------------------------- MODULE MC_Desktop -----------------------------
EXTENDS DesktopViews, TLC
CONSTANTS j1, j2, p, q
Symmetry == Permutations({j1, j2}) \cup Permutations({p, q})
=============================================================================
