--------------------------- MODULE MCSitEntryRace ---------------------------
(* SitEntryRace for small sets of processes and segments. *)
EXTENDS SitEntryRace, TLC

Symmetry == Permutations(Segs) \cup Permutations(Allocs) \cup Permutations(Invals)

=============================================================================
