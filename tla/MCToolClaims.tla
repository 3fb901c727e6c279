---------------------------- MODULE MCToolClaims ----------------------------
(* Model values and symmetry for the runs of ToolClaims.                   *)
EXTENDS ToolClaims, TLC

WorkerSymmetry == Permutations(Workers)
=============================================================================
