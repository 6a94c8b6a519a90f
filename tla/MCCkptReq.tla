------------------------------ MODULE MCCkptReq -----------------------------
(* CkptReq for a few tasks. *)
EXTENDS CkptReq, TLC

TaskSymmetry == Permutations(Tasks)

=============================================================================
