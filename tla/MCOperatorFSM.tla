---------------------------- MODULE MCOperatorFSM ----------------------------
(* Small instances of OperatorFSM for TLC.                                 *)
EXTENDS OperatorFSM, TLC

Symmetry == Permutations(Procs) \cup Permutations(Sessions) \cup Permutations(Calls)

=============================================================================
