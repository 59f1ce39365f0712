---------------------------- MODULE MCCodeChange ----------------------------
(* Symmetry of the worker ids for the safety runs.                         *)
EXTENDS CodeChange, TLC

WorkerSymmetry == Permutations(Workers)
=============================================================================
