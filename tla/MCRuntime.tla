------------------------------ MODULE MCRuntime ------------------------------
(* Small instances of Runtime for TLC; the .cfg files give the constants.     *)
EXTENDS RuntimeProperties, TLC

JobSymmetry == Permutations(Jobs)
Symmetry == Permutations(Jobs) \cup Permutations(Workers)
=============================================================================
