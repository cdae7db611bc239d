---------------------- MODULE MC_SessionPersistence ----------------------
(* A start and a resume of one session, with a log so short that both the *)
(* replay queue and the channel overflow.                                 *)
EXTENDS SessionPersistence, TLC

RunSymmetry == Permutations(Runs)
=============================================================================
