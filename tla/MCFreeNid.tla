----------------------------- MODULE MCFreeNid -----------------------------
(* FreeNid on a small instance. *)
EXTENDS FreeNid
=============================================================================
