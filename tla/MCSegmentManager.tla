-------------------------- MODULE MCSegmentManager --------------------------
(* SegmentManager on small volumes. *)
EXTENDS SegmentManager

=============================================================================
