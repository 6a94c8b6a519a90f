----------------------------- MODULE MCNamespace -----------------------------
(* Two system calls at a time on a volume with a directory, a file or       *)
(* subdirectory in it, and one free nid.                                    *)
EXTENDS Namespace, TLC

CONSTANT X
Symmetric == Permutations(Tasks)
=============================================================================
