------------------------- MODULE SitEntryRaceProofs -------------------------
(***************************************************************************)
(* Every step of f3fs_allocate_data_block2 keeps the inductive invariant   *)
(* of SitEntryRaceInv, which therefore holds of any number of concurrent   *)
(* calls in any interleaving of their loads and stores.                    *)
(***************************************************************************)
EXTENDS SitEntryRaceSteps

\* locate_dirty_segment2 decides, and puts an empty segment on PRE.
LEMMA LocateInv ==
  ASSUME Invals = {}, IInv, NEW p \in Procs, Locate(p)
  PROVE  IInv'
<1>0. Known /\ TypeOK /\ Inner
  BY Facts DEF IInv
<1>1. /\ pc[p] = "locate" /\ pc'[p] \in {"remove_dirty", "set_dirty", "check_old", "unlock"}
      /\ (pc'[p] = "check_old" => Adds(p)) /\ (pc'[p] = "unlock" => ~Adds(p))
      /\ PRE' = IF (IF Adds(p) THEN newValid[p] ELSE oldValid[p]) = 0 THEN PRE \cup {Seg(at[p])} ELSE PRE
      /\ Moves(p)
      /\ UNCHANGED <<valid_blocks, cur_valid_map, dirty_bitmap, curseg_flag, DIRTY,
                     local_lock, at, loaded, newValid, oldValid>>
  BY <1>0 DEF Locate, Goto, Moves, AfterLocate, sitVars, listVars, callVars, retVars, TypeOK
<1>2. TypeOK'
  <2>1. pc' \in [Procs -> Labels]
    BY <1>0 DEF Locate, Goto, AfterLocate, TypeOK, Labels
  <2>2. PRE' \subseteq Segs
    BY <1>0, <1>1 DEF TypeOK, Known, Listing
  <2> QED BY <1>0, <1>1, <2>1, <2>2 DEF Moves, TypeOK
<1>z. PICK s : s = Seg(at[p])
  OBVIOUS
<1>a. /\ s = Seg(at[p]) /\ at[p] \in {new[p], old[p]} \ {None} /\ new[p] # old[p] /\ at'[p] = at[p] /\ (Adds(p)' <=> Adds(p))
      /\ s \in Segs /\ Holds(p, s)
  BY <1>0, <1>1, <1>z DEF Inner, AtKnown, Calls, Known, Adds, Moves, Counting, Finishing, Listing
<1>b. \A u \in Segs \ {s} : /\ u \in PRE' <=> u \in PRE
                            /\ u \in DIRTY' <=> u \in DIRTY
                            /\ u \in curseg_flag' <=> u \in curseg_flag
  BY <1>1, <1>z
<1>c. newValid[p] >= 1 /\ newValid[p] \in Nat /\ oldValid[p] \in Nat /\ blocks_per_seg \in Nat \ {0}
  BY <1>0, <1>1, CountsRange DEF Inner, Reads, OldRead, NewRead, Listing
<1>d. s \notin PRE /\ s \notin curseg_flag
  BY <1>0, <1>1, <1>a DEF Inner, Moving, MovingOf, NewBehind, Adds, Listing
<1>e. pc'[p] = (IF (IF Adds(p) THEN newValid[p] ELSE oldValid[p]) = 0
                   \/ (IF Adds(p) THEN newValid[p] ELSE oldValid[p]) >= blocks_per_seg
                THEN "remove_dirty" ELSE "set_dirty")
  BY <1>0, <1>a, <1>d DEF Locate, Goto, TypeOK
<1>3. Calls' /\ Bits' /\ Counts' /\ Loads'
  <2>1. (Added(p)' <=> Added(p)) /\ (Removed(p)' <=> Removed(p))
    BY <1>0, <1>1, <1>a DEF Moves, Added, Removed, Adds, Counting, Finishing, Listing
  <2> QED BY <1>1, <2>1, CallStay DEF Finishing
<1>4. LocksHeld'
  BY <1>0, <1>1, LocksStay DEF Inner
<1>5. AtKnown' /\ FlagKept'
  <2>1. FlagKept'
    BY <1>0, <1>1 DEF Inner, FlagKept, Moves, Counting, Finishing
  <2> QED BY <1>0, <1>1, <1>a, <2>1 DEF Inner, AtKnown, Adds, Moves, Counting, Finishing, Listing
<1>6. Reads'
  BY <1>0, <1>1, ReadsStay DEF Inner, NewRead, OldRead, Counting, Finishing, Listing
<1>7. Lists'
  <2>1. \A u \in Segs \ {s} : Behind(p, u) => Behind(p, u)'
    BY <1>1, <1>a DEF Moves, Behind, OldBehind, NewBehind, Removed, Adds, Counting, Finishing, Listing
  <2>2. ~Behind(p, s)' => ListOK(s)'
    <3>1. pc'[p] \in {"remove_dirty", "set_dirty"}
      BY <1>e
    <3> QED BY <1>1, <1>a, <3>1 DEF Moves, Behind, OldBehind, NewBehind, Removed, Adds, Listing
  <2>3. \A u \in Segs \ {s} : /\ u \in PRE' <=> u \in PRE
                              /\ u \in DIRTY' <=> u \in DIRTY
                              /\ u \in curseg_flag' <=> u \in curseg_flag
                              /\ Behind(p, u) => Behind(p, u)'
    BY <1>b, <2>1
  <2>4. \A u \in {s} \cap Segs : ~Behind(p, u)' => ListOK(u)'
    BY <2>2
  <2>5. Lists /\ Moves(p) /\ UNCHANGED cur_valid_map
    BY <1>0, <1>1 DEF Inner
  <2> QED BY <2>3, <2>4, <2>5, ListsElsewhere
<1>8. Moving'
  <2>1. ASSUME NEW q \in Procs, q # p PROVE MovingOf(q)'
    <3>1. {s} \in SUBSET Segs /\ \A u \in {s} : Holds(p, u)
      BY <1>a
    <3> QED BY <1>0, <1>1, <1>b, <2>1, <3>1, MovingElsewhere DEF Inner
  <2>2. MovingOf(p)'
    <3>1. CASE Adds(p)
      <4>1. pc'[p] = (IF newValid[p] >= blocks_per_seg THEN "remove_dirty" ELSE "set_dirty") /\ PRE' = PRE
        BY <1>1, <1>c, <1>e, <3>1
      <4>2. old[p] # None => /\ Seg(old[p]) \notin PRE
                             /\ Seg(old[p]) \in curseg_flag => Seg(old[p]) \notin DIRTY
        BY <1>0, <1>1, <3>1 DEF Inner, Moving, MovingOf, OldBehind, Removed, Listing
      <4> QED BY <1>1, <1>a, <1>c, <1>d, <3>1, <4>1, <4>2
              DEF MovingOf, OldBehind, NewBehind, Removed, Adds, Moves, Listing, Finishing
    <3>2. CASE ~Adds(p)
      <4>1. /\ at[p] = old[p] /\ old'[p] = old[p] /\ ~Adds(p)' /\ pc'[p] \in Listing /\ ~NewBehind(p)'
            /\ oldValid'[p] = oldValid[p] /\ curseg_flag' = curseg_flag
        BY <1>1, <1>a, <1>e, <3>2 DEF Adds, Moves, NewBehind, Listing
      <4>2. /\ pc'[p] = IF oldValid[p] = 0 \/ oldValid[p] >= blocks_per_seg THEN "remove_dirty" ELSE "set_dirty"
            /\ Seg(old[p]) \in PRE' <=> oldValid[p] = 0
        BY <1>1, <1>a, <1>d, <1>e, <3>2, <4>1
      <4> QED BY <1>a, <1>c, <1>d, <4>1, <4>2 DEF MovingOf
    <3> QED BY <3>1, <3>2
  <2> QED BY <2>1, <2>2 DEF Moving
<1> QED BY <1>2, <1>3, <1>4, <1>5, <1>6, <1>7, <1>8 DEF IInv, Inner

\* locate_dirty_segment2 puts a partly valid segment on DIRTY.
LEMMA SetDirtyInv ==
  ASSUME Invals = {}, IInv, NEW p \in Procs, SetDirty(p)
  PROVE  IInv'
<1>0. Known /\ TypeOK /\ Inner
  BY Facts DEF IInv
<1>1. /\ pc[p] = "set_dirty" /\ pc'[p] = (IF Adds(p) THEN "check_old" ELSE "unlock")
      /\ DIRTY' = DIRTY \cup {Seg(at[p])}
      /\ Moves(p)
      /\ UNCHANGED <<valid_blocks, cur_valid_map, dirty_bitmap, curseg_flag, PRE, local_lock,
                     at, loaded, newValid, oldValid>>
  BY <1>0 DEF SetDirty, Goto, Moves, AfterLocate, sitVars, listVars, callVars, retVars, TypeOK
<1>2. TypeOK'
  <2>1. pc' \in [Procs -> Labels]
    BY <1>0 DEF SetDirty, Goto, AfterLocate, TypeOK, Labels
  <2>2. DIRTY' \subseteq Segs
    BY <1>0, <1>1 DEF TypeOK, Known, Listing
  <2> QED BY <1>0, <1>1, <2>1, <2>2 DEF Moves, TypeOK
<1>z. PICK s : s = Seg(at[p])
  OBVIOUS
<1>a. /\ s = Seg(at[p]) /\ at[p] \in {new[p], old[p]} \ {None} /\ new[p] # old[p] /\ at'[p] = at[p] /\ (Adds(p)' <=> Adds(p))
      /\ s \in Segs /\ Holds(p, s)
  BY <1>0, <1>1, <1>z DEF Inner, AtKnown, Calls, Known, Adds, Moves, Counting, Finishing, Listing
<1>b. \A u \in Segs \ {s} : /\ u \in PRE' <=> u \in PRE
                            /\ u \in DIRTY' <=> u \in DIRTY
                            /\ u \in curseg_flag' <=> u \in curseg_flag
  BY <1>1, <1>z
<1>c. newValid[p] >= 1 /\ newValid[p] \in Nat /\ oldValid[p] \in Nat /\ blocks_per_seg \in Nat \ {0}
  BY <1>0, <1>1, CountsRange DEF Inner, Reads, OldRead, NewRead, Listing
<1>3. Calls' /\ Bits' /\ Counts' /\ Loads'
  <2>1. (Added(p)' <=> Added(p)) /\ (Removed(p)' <=> Removed(p))
    BY <1>0, <1>1, <1>a DEF Moves, Added, Removed, Adds, Counting, Finishing, Listing
  <2> QED BY <1>1, <2>1, CallStay DEF Finishing
<1>4. LocksHeld'
  BY <1>0, <1>1, LocksStay DEF Inner
<1>5. AtKnown' /\ FlagKept'
  <2>1. FlagKept'
    BY <1>0, <1>1 DEF Inner, FlagKept, Moves, Counting, Finishing
  <2> QED BY <1>0, <1>1, <1>a, <2>1 DEF Inner, AtKnown, Adds, Moves, Counting, Finishing, Listing
<1>6. Reads'
  BY <1>0, <1>1, ReadsStay DEF Inner, NewRead, OldRead, Counting, Finishing, Listing
<1>7. Lists'
  <2>1. \A u \in Segs \ {s} : Behind(p, u) => Behind(p, u)'
    BY <1>1, <1>a DEF Moves, Behind, OldBehind, NewBehind, Removed, Adds, Counting, Finishing, Listing
  <2>2. ~Behind(p, s)' => ListOK(s)'
    <3> SUFFICES ASSUME ~Behind(p, s)' PROVE ListOK(s)'
      OBVIOUS
    <3>1. Adds(p) => old[p] = None \/ Seg(old[p]) # Seg(new[p])
      BY <1>1, <1>a DEF Behind, OldBehind, Removed, Adds, Moves, Listing
    <3>2. Valid(s) = (IF Adds(p) THEN newValid[p] ELSE oldValid[p])
      BY <1>0, <1>1, <1>a, <3>1 DEF Inner, Reads, OldRead, NewRead, Adds, Listing
    <3>3. /\ s \notin curseg_flag
          /\ s \notin PRE /\ Valid(s) \in 1 .. blocks_per_seg - 1
      <4>1. MovingOf(p)
        BY <1>0 DEF Inner, Moving
      <4>2. CASE Adds(p)
        <5>1. at[p] = new[p] /\ NewBehind(p)
          BY <1>1, <4>2 DEF Adds, NewBehind, Listing
        <5>2. s \notin curseg_flag \cup PRE /\ newValid[p] < blocks_per_seg
          BY <1>1, <1>a, <4>1, <5>1 DEF MovingOf
        <5>3. Valid(s) = newValid[p]
          BY <3>2, <4>2
        <5> QED BY <1>c, <5>2, <5>3
      <4>3. CASE ~Adds(p)
        <5>1. at[p] = old[p] /\ pc[p] \in Listing
          BY <1>1, <1>a, <4>3 DEF Adds, Listing
        <5> QED BY <1>1, <1>a, <1>c, <3>2, <4>1, <4>3, <5>1 DEF MovingOf
      <4> QED BY <4>2, <4>3
    <3>4. /\ Valid(s)' = Valid(s) /\ PRE' = PRE /\ curseg_flag' = curseg_flag
          /\ s \in DIRTY'
      BY <1>1, <1>a DEF Valid
    <3> QED BY <3>3, <3>4 DEF ListOK, Valid
  <2>3. \A u \in Segs \ {s} : /\ u \in PRE' <=> u \in PRE
                              /\ u \in DIRTY' <=> u \in DIRTY
                              /\ u \in curseg_flag' <=> u \in curseg_flag
                              /\ Behind(p, u) => Behind(p, u)'
    BY <1>b, <2>1
  <2>4. \A u \in {s} \cap Segs : ~Behind(p, u)' => ListOK(u)'
    BY <2>2
  <2>5. Lists /\ Moves(p) /\ UNCHANGED cur_valid_map
    BY <1>0, <1>1 DEF Inner
  <2> QED BY <2>3, <2>4, <2>5, ListsElsewhere
<1>8. Moving'
  <2>1. ASSUME NEW q \in Procs, q # p PROVE MovingOf(q)'
    <3>1. {s} \in SUBSET Segs /\ \A u \in {s} : Holds(p, u)
      BY <1>a
    <3> QED BY <1>0, <1>1, <1>b, <2>1, <3>1, MovingElsewhere DEF Inner
  <2>2. MovingOf(p)'
    <3>1. CASE Adds(p)
      <4>1. old[p] # None => /\ Seg(old[p]) \notin PRE
                             /\ Seg(old[p]) \in curseg_flag => Seg(old[p]) \notin DIRTY
        BY <1>0, <1>1, <3>1 DEF Inner, Moving, MovingOf, OldBehind, Removed, Listing
      <4>2. s \notin curseg_flag
        BY <1>0, <1>1, <1>a, <3>1 DEF Inner, Moving, MovingOf, NewBehind, Adds, Listing
      <4> QED BY <1>1, <1>a, <3>1, <4>1, <4>2
              DEF MovingOf, OldBehind, NewBehind, Removed, Adds, Moves, Listing, Finishing
    <3>2. CASE ~Adds(p)
      BY <1>1, <3>2 DEF MovingOf, OldBehind, NewBehind, Removed, Moves, Listing, Finishing
    <3> QED BY <3>1, <3>2
  <2> QED BY <2>1, <2>2 DEF Moving
<1> QED BY <1>2, <1>3, <1>4, <1>5, <1>6, <1>7, <1>8 DEF IInv, Inner

\* locate_dirty_segment2 takes an empty or full segment off DIRTY.
LEMMA RemoveDirtyInv ==
  ASSUME Invals = {}, IInv, NEW p \in Procs, RemoveDirty(p)
  PROVE  IInv'
<1>0. Known /\ TypeOK /\ Inner
  BY Facts DEF IInv
<1>1. /\ pc[p] = "remove_dirty" /\ pc'[p] = (IF Adds(p) THEN "check_old" ELSE "unlock")
      /\ DIRTY' = DIRTY \ {Seg(at[p])}
      /\ Moves(p)
      /\ UNCHANGED <<valid_blocks, cur_valid_map, dirty_bitmap, curseg_flag, PRE, local_lock,
                     at, loaded, newValid, oldValid>>
  BY <1>0 DEF RemoveDirty, Goto, Moves, AfterLocate, sitVars, listVars, callVars, retVars, TypeOK
<1>2. TypeOK'
  <2>1. pc' \in [Procs -> Labels]
    BY <1>0 DEF RemoveDirty, Goto, AfterLocate, TypeOK, Labels
  <2>2. DIRTY' \subseteq Segs
    BY <1>0, <1>1 DEF TypeOK, Known, Listing
  <2> QED BY <1>0, <1>1, <2>1, <2>2 DEF Moves, TypeOK
<1>z. PICK s : s = Seg(at[p])
  OBVIOUS
<1>a. /\ s = Seg(at[p]) /\ at[p] \in {new[p], old[p]} \ {None} /\ new[p] # old[p] /\ at'[p] = at[p] /\ (Adds(p)' <=> Adds(p))
      /\ s \in Segs /\ Holds(p, s)
  BY <1>0, <1>1, <1>z DEF Inner, AtKnown, Calls, Known, Adds, Moves, Counting, Finishing, Listing
<1>b. \A u \in Segs \ {s} : /\ u \in PRE' <=> u \in PRE
                            /\ u \in DIRTY' <=> u \in DIRTY
                            /\ u \in curseg_flag' <=> u \in curseg_flag
  BY <1>1, <1>z
<1>c. newValid[p] >= 1 /\ newValid[p] \in Nat /\ oldValid[p] \in Nat /\ blocks_per_seg \in Nat \ {0}
  BY <1>0, <1>1, CountsRange DEF Inner, Reads, OldRead, NewRead, Listing
<1>3. Calls' /\ Bits' /\ Counts' /\ Loads'
  <2>1. (Added(p)' <=> Added(p)) /\ (Removed(p)' <=> Removed(p))
    BY <1>0, <1>1, <1>a DEF Moves, Added, Removed, Adds, Counting, Finishing, Listing
  <2> QED BY <1>1, <2>1, CallStay DEF Finishing
<1>4. LocksHeld'
  BY <1>0, <1>1, LocksStay DEF Inner
<1>5. AtKnown' /\ FlagKept'
  <2>1. FlagKept'
    BY <1>0, <1>1 DEF Inner, FlagKept, Moves, Counting, Finishing
  <2> QED BY <1>0, <1>1, <1>a, <2>1 DEF Inner, AtKnown, Adds, Moves, Counting, Finishing, Listing
<1>6. Reads'
  BY <1>0, <1>1, ReadsStay DEF Inner, NewRead, OldRead, Counting, Finishing, Listing
<1>7. Lists'
  <2>1. \A u \in Segs \ {s} : Behind(p, u) => Behind(p, u)'
    BY <1>1, <1>a DEF Moves, Behind, OldBehind, NewBehind, Removed, Adds, Counting, Finishing, Listing
  <2>2. ~Behind(p, s)' => ListOK(s)'
    <3> SUFFICES ASSUME ~Behind(p, s)' PROVE ListOK(s)'
      OBVIOUS
    <3>1. Adds(p) => old[p] = None \/ Seg(old[p]) # Seg(new[p])
      BY <1>1, <1>a DEF Behind, OldBehind, Removed, Adds, Moves, Listing
    <3>2. Valid(s) = (IF Adds(p) THEN newValid[p] ELSE oldValid[p])
      BY <1>0, <1>1, <1>a, <3>1 DEF Inner, Reads, OldRead, NewRead, Adds, Listing
    <3>3. /\ s \notin curseg_flag
          /\ (s \in PRE <=> Valid(s) = 0) /\ Valid(s) \notin 1 .. blocks_per_seg - 1
      <4>1. MovingOf(p)
        BY <1>0 DEF Inner, Moving
      <4>2. CASE Adds(p)
        <5>1. at[p] = new[p] /\ NewBehind(p)
          BY <1>1, <4>2 DEF Adds, NewBehind, Listing
        <5>2. s \notin curseg_flag \cup PRE /\ newValid[p] >= blocks_per_seg
          BY <1>1, <1>a, <4>1, <5>1 DEF MovingOf
        <5>3. Valid(s) = newValid[p]
          BY <3>2, <4>2
        <5> QED BY <1>c, <5>2, <5>3
      <4>3. CASE ~Adds(p)
        <5>1. at[p] = old[p] /\ pc[p] \in Listing
          BY <1>1, <1>a, <4>3 DEF Adds, Listing
        <5> QED BY <1>1, <1>a, <1>c, <3>2, <4>1, <4>3, <5>1 DEF MovingOf
      <4> QED BY <4>2, <4>3
    <3>4. /\ Valid(s)' = Valid(s) /\ PRE' = PRE /\ curseg_flag' = curseg_flag
          /\ s \notin DIRTY'
      BY <1>1, <1>a DEF Valid
    <3> QED BY <3>3, <3>4 DEF ListOK, Valid
  <2>3. \A u \in Segs \ {s} : /\ u \in PRE' <=> u \in PRE
                              /\ u \in DIRTY' <=> u \in DIRTY
                              /\ u \in curseg_flag' <=> u \in curseg_flag
                              /\ Behind(p, u) => Behind(p, u)'
    BY <1>b, <2>1
  <2>4. \A u \in {s} \cap Segs : ~Behind(p, u)' => ListOK(u)'
    BY <2>2
  <2>5. Lists /\ Moves(p) /\ UNCHANGED cur_valid_map
    BY <1>0, <1>1 DEF Inner
  <2> QED BY <2>3, <2>4, <2>5, ListsElsewhere
<1>8. Moving'
  <2>1. ASSUME NEW q \in Procs, q # p PROVE MovingOf(q)'
    <3>1. {s} \in SUBSET Segs /\ \A u \in {s} : Holds(p, u)
      BY <1>a
    <3> QED BY <1>0, <1>1, <1>b, <2>1, <3>1, MovingElsewhere DEF Inner
  <2>2. MovingOf(p)'
    <3>1. CASE Adds(p)
      <4>1. old[p] # None => /\ Seg(old[p]) \notin PRE
                             /\ Seg(old[p]) \in curseg_flag => Seg(old[p]) \notin DIRTY
        BY <1>0, <1>1, <3>1 DEF Inner, Moving, MovingOf, OldBehind, Removed, Listing
      <4>2. s \notin curseg_flag
        BY <1>0, <1>1, <1>a, <3>1 DEF Inner, Moving, MovingOf, NewBehind, Adds, Listing
      <4> QED BY <1>1, <1>a, <3>1, <4>1, <4>2
              DEF MovingOf, OldBehind, NewBehind, Removed, Adds, Moves, Listing, Finishing
    <3>2. CASE ~Adds(p)
      BY <1>1, <3>2 DEF MovingOf, OldBehind, NewBehind, Removed, Moves, Listing, Finishing
    <3> QED BY <3>1, <3>2
  <2> QED BY <2>1, <2>2 DEF Moving
<1> QED BY <1>2, <1>3, <1>4, <1>5, <1>6, <1>7, <1>8 DEF IInv, Inner

\* The locks are given back.
LEMMA UnlockInv ==
  ASSUME Invals = {}, IInv, NEW p \in Procs, Unlock(p)
  PROVE  IInv'
<1>0. Known /\ TypeOK /\ Inner
  BY Facts DEF IInv
<1>1. /\ pc[p] = "unlock" /\ pc'[p] = "done"
      /\ Moves(p)
      /\ UNCHANGED <<valid_blocks, cur_valid_map, dirty_bitmap, curseg_flag, DIRTY, PRE, at,
                     loaded, newValid, oldValid>>
  BY <1>0 DEF Unlock, Goto, Moves, AfterLocate, sitVars, listVars, callVars, retVars, TypeOK
<1>2. TypeOK'
  BY <1>0, <1>1 DEF Unlock, Goto, Labels, sitVars, listVars, callVars, retVars, TypeOK
<1>3. Calls' /\ Bits' /\ Counts' /\ Loads'
  <2>1. (Added(p)' <=> Added(p)) /\ (Removed(p)' <=> Removed(p))
    BY <1>0, <1>1 DEF Moves, Added, Removed, Adds, Counting, Finishing, Listing
  <2> QED BY <1>1, <2>1, CallStay DEF Finishing
<1>4. LocksHeld'
  <2>1. local_lock' = [s \in Segs |-> IF local_lock[s] = p THEN None ELSE local_lock[s]]
    BY DEF Unlock
  <2>2. \A q \in Procs \ {p} : \A s \in Segs : (local_lock'[s] = q <=> local_lock[s] = q) /\ local_lock'[s] # p
    BY <1>0, <2>1 DEF Known
  <2>3. \A q \in Procs \ {p} : \A s : Holds(q, s)' <=> Holds(q, s)
    BY <1>1 DEF Moves, Holds
  <2>4. \A s \in Segs : ~Holds(p, s)' /\ local_lock'[s] # p
    BY <1>0, <1>1, <2>1 DEF Holds, Known
  <2> QED BY <1>0, <2>2, <2>3, <2>4 DEF Inner, LocksHeld
<1>5. AtKnown' /\ FlagKept'
  BY <1>0, <1>1 DEF Inner, AtKnown, FlagKept, Moves, Counting, Finishing, Listing
<1>6. Reads'
  BY <1>0, <1>1, ReadsStay DEF Inner, NewRead, OldRead, Counting, Finishing, Listing
<1>7. Lists'
  <2>1. \A s \in Segs : Behind(p, s) => Behind(p, s)'
    BY <1>0, <1>1 DEF Moves, Behind, OldBehind, NewBehind, Removed, Adds, Counting, Finishing, Listing
  <2> QED BY <1>0, <1>1, <2>1, ListsStay DEF Inner
<1>8. Moving'
  <2>1. ASSUME NEW q \in Procs, q # p PROVE MovingOf(q)'
    BY <1>0, <1>1, <2>1, MovingStay DEF Inner
  <2>2. MovingOf(p)'
    BY <1>1 DEF MovingOf, OldBehind, NewBehind, Removed, Adds, Moves, Counting, Finishing, Listing
  <2> QED BY <2>1, <2>2 DEF Moving
<1> QED BY <1>2, <1>3, <1>4, <1>5, <1>6, <1>7, <1>8 DEF IInv, Inner

-----------------------------------------------------------------------------
\* Every step of every call keeps the inductive invariant.
LEMMA StepInv ==
  ASSUME Invals = {}, IInv, [Next]_vars
  PROVE  IInv'
<1>1. CASE UNCHANGED vars
  <2>1. /\ pc' = pc /\ at' = at /\ new' = new /\ old' = old /\ loaded' = loaded
        /\ newValid' = newValid /\ oldValid' = oldValid /\ valid_blocks' = valid_blocks
        /\ cur_valid_map' = cur_valid_map /\ dirty_bitmap' = dirty_bitmap /\ PRE' = PRE
        /\ DIRTY' = DIRTY /\ curseg_flag' = curseg_flag /\ local_lock' = local_lock
    BY <1>1 DEF vars, sitVars, listVars, callVars, retVars
  <2>2. TypeOK' = TypeOK
    BY <2>1 DEF TypeOK
  <2>3. Calls' /\ LocksHeld' /\ AtKnown' /\ FlagKept'
    BY <2>1 DEF IInv, Inner, Calls, LocksHeld, Holds, AtKnown, FlagKept, Adds
  <2>4. Bits'
    BY <2>1 DEF IInv, Inner, Bits, Added, Removed, IsValid, Adds
  <2>5. Counts' /\ Loads'
    BY <2>1 DEF IInv, Inner, Counts, Counted, Valid, Loads, Adds
  <2>6. Reads'
    BY <2>1 DEF IInv, Inner, Reads, OldRead, NewRead, Valid, Adds
  <2>7. \A p : (OldBehind(p)' <=> OldBehind(p)) /\ (NewBehind(p)' <=> NewBehind(p))
    BY <2>1 DEF OldBehind, NewBehind, Removed, Adds
  <2>8. Lists'
    BY <2>1, <2>7 DEF IInv, Inner, Lists, Behind, ListOK, Valid
  <2>9. Moving'
    BY <2>1, <2>7 DEF IInv, Inner, Moving, MovingOf, Adds
  <2> QED BY <2>2, <2>3, <2>4, <2>5, <2>6, <2>8, <2>9 DEF IInv, Inner
<1>2. ASSUME NEW p \in Procs, Step(p)
      PROVE  IInv'
  BY <1>2, LockInv, TrylockInv, LoadCountInv, StoreCountInv, LoadMapInv, StoreMapInv, LoadDirtyInv,
     StoreDirtyInv, ReloadCountInv, NewSegmentInv, CheckOldInv, LocateInv, SetDirtyInv,
     RemoveDirtyInv, UnlockInv DEF Step
<1> QED BY <1>1, <1>2 DEF Next, Finished

\* The inductive invariant holds of every run of concurrent allocations: a segment's
\* entry and lists are out of step only while a call holds its local_lock.
THEOREM SitEntryInvariant ==
  ASSUME Invals = {}
  PROVE  Spec => []IInv
<1>1. Init => IInv
  BY InitInv
<1>2. IInv /\ [Next]_vars => IInv'
  BY StepInv
<1> QED BY <1>1, <1>2, PTL DEF Spec

\* The calls of f3fs_allocate_data_block2, however many and however their loads and
\* stores interleave, leave every entry and list in agreement with the bitmaps.
THEOREM EntriesMatchMapAlways ==
  ASSUME Invals = {}
  PROVE  Spec => []EntriesMatchMap
<1>1. IInv => EntriesMatchMap
  <2> SUFFICES ASSUME IInv, AllDone
               PROVE  \A s \in Segs : valid_blocks[s] = Valid(s) /\ ListOK(s)
    BY DEF EntriesMatchMap, CountMatchesMap, ListsMatchMap, IInv, Valid, ListOK
  <2>1. \A p \in Procs : ~Counted(p) /\ ~OldBehind(p) /\ ~NewBehind(p)
    BY DEF AllDone, Counted, OldBehind, NewBehind, Listing
  <2> QED BY <2>1 DEF IInv, Inner, Counts, Lists, Behind
<1> QED BY <1>1, SitEntryInvariant, PTL

=============================================================================
