------------------------------ MODULE MCRelease ------------------------------
(* The release of two changes by two callers.                              *)
EXTENDS CalmRelease, TLC

CallerSymmetry == Permutations(Callers)
=============================================================================
