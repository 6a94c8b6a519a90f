----------------------------- MODULE LogVolume ------------------------------
(***************************************************************************)
(* What the segment manager promises the rest of the file system: blocks   *)
(* are written out of place, a checkpoint saves the blocks that are live   *)
(* as a whole, and a crash goes back to exactly the saved ones.            *)
(***************************************************************************)
CONSTANTS Blocks, None

VARIABLES live,     \* blocks that hold data of a file or a node
          saved,    \* the live blocks of the checkpoint a crash goes back to
          up,       \* the volume is mounted
          kept      \* every checkpoint so far was of the live blocks

vars == <<live, saved, up, kept>>

Init == live = {} /\ saved = {} /\ up = TRUE /\ kept = TRUE

\* A block is written in place of old, or for the first time.
Write(new, old) ==
  /\ up /\ kept
  /\ new \in Blocks \ (live \cup saved)
  /\ old \in live \cup {None}
  /\ live' = (live \cup {new}) \ {old}
  /\ UNCHANGED <<saved, up, kept>>

Free(b) ==
  /\ up /\ kept /\ b \in live
  /\ live' = live \ {b}
  /\ UNCHANGED <<saved, up, kept>>

Save ==
  /\ up /\ kept
  /\ saved' = live
  /\ UNCHANGED <<live, up, kept>>

Crash ==
  /\ up /\ kept
  /\ up' = FALSE
  /\ UNCHANGED <<live, saved, kept>>

Mount ==
  /\ ~up /\ kept
  /\ up' = TRUE /\ live' = saved
  /\ UNCHANGED <<saved, kept>>

\* A flush of the SIT that leaves entries out: from then on nothing is promised.
Forfeit ==
  /\ kept' = FALSE
  /\ live' \in SUBSET Blocks /\ saved' \in SUBSET Blocks /\ up' \in BOOLEAN

Next ==
  \/ \E new \in Blocks, old \in Blocks \cup {None} : Write(new, old)
  \/ \E b \in Blocks : Free(b)
  \/ Save \/ Crash \/ Mount \/ Forfeit

Spec == Init /\ [][Next]_vars
=============================================================================
