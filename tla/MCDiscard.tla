----------------------------- MODULE MCDiscard -----------------------------
(***************************************************************************)
(* Four segments of two blocks, two of them full and two the logs of the   *)
(* writers, in which one block is left.  A freed pair of segments is one   *)
(* command of four blocks, sent in two bios of two; a round issues at most *)
(* two bios.  Six operations let both writers reach the freed segments     *)
(* and wait for the same command; one event is enough for each of the      *)
(* remounts, trims, failures and the shutdown to race everything else.     *)
(***************************************************************************)
EXTENDS Discard

MCTargets == {0, 3}
=============================================================================
