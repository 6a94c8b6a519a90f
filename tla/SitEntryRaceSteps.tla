------------------------- MODULE SitEntryRaceSteps --------------------------
(***************************************************************************)
(* The store of a segment's bitmap in update_sit_entry2, and the steps of  *)
(* f3fs_allocate_data_block2 around it: taking the local_locks, reading    *)
(* the counts the lists are chosen by, leaving a full log and turning to   *)
(* the old block's segment.                                                *)
(***************************************************************************)
EXTENDS SitEntryRaceInv

\* update_sit_entry2 stores the bit: the count and the bitmap agree again.
LEMMA StoreMapInv ==
  ASSUME Invals = {}, IInv, NEW p \in Procs, StoreMap(p)
  PROVE  IInv'
<1> USE DEF IInv, Inner
<1> DEFINE b == at[p]
           s == Seg(at[p])
<1>0. Known
  BY Facts
<1>1. /\ pc[p] = "store_map" /\ pc' = [pc EXCEPT ![p] = "load_dirty"]
      /\ loaded' = [loaded EXCEPT ![p] = NothingLoaded]
      /\ UNCHANGED <<dirty_bitmap, curseg_flag, DIRTY, PRE, local_lock, new, old, at,
                     newValid, oldValid>>
  BY DEF StoreMap, Goto, listVars, callVars, retVars
<1>2. /\ b \in Blocks /\ s \in Segs /\ Off(b) \in Offs /\ Holds(p, s)
      /\ cur_valid_map[s] \in SUBSET Offs /\ loaded[p].map = cur_valid_map[s]
      /\ Adds(p) \/ (b = old[p] /\ old[p] # None)
  BY <1>0, <1>1 DEF TypeOK, Known, Loads, AtKnown, Adds, Counting, Finishing, Listing
<1>3. IF Adds(p) THEN ~IsValid(b) ELSE IsValid(b)
  BY <1>1, <1>2 DEF Bits, Added, Removed, Adds, Counting, Finishing, Listing
<1>4. /\ valid_blocks' = valid_blocks
      /\ cur_valid_map' = [cur_valid_map EXCEPT ![s] = IF Adds(p) THEN @ \cup {Off(b)}
                                                       ELSE @ \ {Off(b)}]
  BY <1>2, <1>3 DEF StoreMap, IsValid, TypeOK
<1>5. \A c \in Blocks : IsValid(c)' <=> IF Adds(p) THEN IsValid(c) \/ c = b ELSE IsValid(c) /\ c # b
  <2> SUFFICES ASSUME NEW c \in Blocks
               PROVE  IsValid(c)' <=> IF Adds(p) THEN IsValid(c) \/ c = b ELSE IsValid(c) /\ c # b
    OBVIOUS
  <2>1. c = b <=> Seg(c) = s /\ Off(c) = Off(b)
    BY <1>2 DEF Blocks, Seg, Off
  <2>2. Seg(c) \in Segs
    BY DEF Blocks, Seg
  <2> QED BY <1>2, <1>4, <2>1, <2>2 DEF IsValid, TypeOK
<1>6. /\ \A u \in Segs : u # s => Valid(u)' = Valid(u)
      /\ Valid(s)' = Valid(s) + (IF Adds(p) THEN 1 ELSE -1)
  <2>1. \A u \in Segs : u # s => cur_valid_map'[u] = cur_valid_map[u]
    BY <1>4 DEF TypeOK
  <2>2. CASE Adds(p)
    <3>1. cur_valid_map'[s] = cur_valid_map[s] \cup {Off(b)} /\ Off(b) \in Offs \ cur_valid_map[s]
      BY <1>2, <1>3, <1>4, <2>2 DEF TypeOK, IsValid
    <3>2. Cardinality(cur_valid_map[s] \cup {Off(b)}) = Cardinality(cur_valid_map[s]) + 1
      BY <1>2, <3>1, MapCount
    <3>3. Cardinality(cur_valid_map'[s]) = Cardinality(cur_valid_map[s]) + 1
      BY <3>1, <3>2, Zenon
    <3>4. \A u \in Segs : u # s => Cardinality(cur_valid_map'[u]) = Cardinality(cur_valid_map[u])
      BY <2>1, Zenon
    <3>5. Cardinality(cur_valid_map[s]) \in 0 .. blocks_per_seg /\ blocks_per_seg \in Nat
      BY <1>2, MapCount, RaceAssumption
    <3>6. Valid(s)' = Valid(s) + 1 /\ \A u \in Segs : u # s => Valid(u)' = Valid(u)
      BY <1>1, <3>3, <3>4 DEF Valid
    <3> QED BY <2>2, <3>5, <3>6 DEF Valid
  <2>3. CASE ~Adds(p)
    <3>1. cur_valid_map'[s] = cur_valid_map[s] \ {Off(b)} /\ Off(b) \in cur_valid_map[s]
      BY <1>2, <1>3, <1>4, <2>3 DEF TypeOK, IsValid
    <3>2. Cardinality(cur_valid_map[s] \ {Off(b)}) = Cardinality(cur_valid_map[s]) - 1
      BY <1>2, <3>1, MapCount
    <3>3. Cardinality(cur_valid_map'[s]) = Cardinality(cur_valid_map[s]) - 1
      BY <3>1, <3>2, Zenon
    <3>4. \A u \in Segs : u # s => Cardinality(cur_valid_map'[u]) = Cardinality(cur_valid_map[u])
      BY <2>1, Zenon
    <3>5. Cardinality(cur_valid_map[s]) \in 0 .. blocks_per_seg /\ blocks_per_seg \in Nat
      BY <1>2, MapCount, RaceAssumption
    <3>6. Valid(s)' = Valid(s) - 1 /\ \A u \in Segs : u # s => Valid(u)' = Valid(u)
      BY <1>1, <3>3, <3>4 DEF Valid
    <3> QED BY <2>3, <3>5, <3>6 DEF Valid
  <2> QED BY <2>2, <2>3
<1>7. TypeOK'
  <2>1. NothingLoaded \in [count : 0 .. blocks_per_seg, map : SUBSET Offs, dirty : SUBSET Segs]
    BY RaceAssumption DEF NothingLoaded
  <2>2. cur_valid_map' \in [Segs -> SUBSET Offs]
    BY <1>2, <1>4 DEF TypeOK
  <2> QED BY <1>1, <1>4, <2>1, <2>2 DEF TypeOK, Labels
<1>8. Calls' /\ LocksHeld' /\ AtKnown' /\ FlagKept'
  BY <1>1 DEF TypeOK, Calls, LocksHeld, Holds, AtKnown, FlagKept, Counting, Finishing, Listing
<1>9. Bits'
  <2>1. /\ \A q \in Procs : IsValid(new[q])' <=> IF Adds(p) THEN IsValid(new[q]) \/ new[q] = b
                                                 ELSE IsValid(new[q])
        /\ \A q \in Procs : old[q] # None =>
             (IsValid(old[q])' <=> IF Adds(p) THEN IsValid(old[q]) ELSE IsValid(old[q]) /\ old[q] # b)
    BY <1>0, <1>1, <1>2, <1>5 DEF Known, Calls, Adds, IsValid
  <2>2. \A q \in Procs : q # p => UNCHANGED <<pc[q], at[q], new[q], old[q]>>
    BY <1>1 DEF TypeOK
  <2>3. /\ \A q \in Procs : q # p => (Adds(p) => new[q] # b) /\ (~Adds(p) => old[q] # b \/ old[q] = None)
        /\ pc'[p] = "load_dirty" /\ at'[p] = at[p] /\ new'[p] = new[p] /\ old'[p] = old[p]
    BY <1>1, <1>2 DEF TypeOK, Calls, Adds
  <2>4. ASSUME NEW q \in Procs, q # p
        PROVE  /\ ~Added(q)' => ~IsValid(new[q])'
               /\ pc'[q] \in Finishing /\ Adds(q)' => IsValid(new[q])'
               /\ old'[q] # None /\ ~Removed(q)' => IsValid(old[q])'
               /\ Removed(q)' /\ pc'[q] \notin {"unlock", "done"} => ~IsValid(old[q])'
    BY <2>1, <2>2, <2>3, <2>4 DEF Bits, Added, Removed, Adds
  <2>5. /\ ~Added(p)' => ~IsValid(new[p])'
        /\ pc'[p] \in Finishing /\ Adds(p)' => IsValid(new[p])'
        /\ old'[p] # None /\ ~Removed(p)' => IsValid(old[p])'
        /\ Removed(p)' /\ pc'[p] \notin {"unlock", "done"} => ~IsValid(old[p])'
    BY <1>1, <1>2, <2>1, <2>3 DEF Bits, Added, Removed, Adds, Calls, Counting, Finishing, Listing
  <2> QED BY <2>4, <2>5 DEF Bits
<1>10. \A q \in Procs : Counted(q) /\ q # p => Seg(at[q]) # s
  BY <1>0, <1>2 DEF Known, Counted, Counting, Finishing, Listing
<1>11. Counts'
  <2>1. \A q \in Procs : Counted(q)' <=> Counted(q) /\ q # p
    BY <1>1 DEF Counted, TypeOK
  <2>2. Counted(p) /\ valid_blocks'[s] = Valid(s)'
    BY <1>1, <1>4, <1>6 DEF Counts, Counted
  <2> QED BY <1>0, <1>1, <1>4, <1>6, <1>10, <2>1, <2>2
          DEF Counts, Adds, Known, Counted, Counting, Finishing, Listing
<1>12. Loads'
  BY <1>0, <1>1, <1>2, <1>4 DEF TypeOK, Loads, Known, Counting, Finishing, Listing
<1>13. Reads'
  BY <1>0, <1>1, <1>2, <1>6
     DEF TypeOK, Reads, OldRead, NewRead, Known, Holds, Adds, Counting, Finishing, Listing
<1>14. \A q \in Procs : q # p /\ (OldBehind(q) \/ NewBehind(q)) =>
         /\ OldBehind(q) => Seg(old[q]) # s
         /\ NewBehind(q) => Seg(new[q]) # s
  BY <1>0, <1>2 DEF OldBehind, NewBehind, Removed, Known, Holds, Counting, Finishing, Listing
<1>15. \A u \in Segs : u # s => UNCHANGED <<cur_valid_map[u]>>
  BY <1>4 DEF TypeOK
<1>16. Adds(p) => s \in curseg_flag
  BY <1>1 DEF FlagKept, Adds, Counting
<1>17. Lists'
  <2> SUFFICES ASSUME NEW u \in Segs, \A q \in Procs : ~Behind(q, u)'
               PROVE  ListOK(u)'
    BY DEF Lists
  <2>1. \A q \in Procs : ~Behind(q, u)
    BY <1>1 DEF Behind, OldBehind, NewBehind, Removed, Adds, TypeOK, Counting, Finishing, Listing
  <2>2. ListOK(u)
    BY <2>1 DEF Lists
  <2>3. CASE u # s
    BY <1>1, <1>6, <2>2, <2>3 DEF ListOK
  <2>4. CASE u = s
    <3>1. Adds(p)
      BY <1>1, <1>2, <2>4 DEF Behind, OldBehind, Removed, Adds, TypeOK, Counting, Finishing, Listing
    <3> QED BY <1>1, <1>16, <2>2, <2>4, <3>1 DEF ListOK
  <2> QED BY <2>3, <2>4
<1>18. ~Adds(p) => s \notin PRE /\ (s \in curseg_flag => s \notin DIRTY)
  <2> SUFFICES ASSUME ~Adds(p) PROVE s \notin PRE /\ (s \in curseg_flag => s \notin DIRTY)
    OBVIOUS
  <2>1. \A q \in Procs : ~Behind(q, s)
    BY <1>1, <1>14 DEF Behind, OldBehind, NewBehind, Removed, Adds, Counting, Finishing, Listing
  <2>2. Valid(s) >= 1
    BY <1>2, <1>3, MapCount DEF IsValid, Valid
  <2> QED BY <1>2, <2>1, <2>2 DEF Lists, ListOK
<1>19. Moving'
  <2>1. ASSUME NEW q \in Procs, q # p PROVE MovingOf(q)'
    <3>1. pc'[q] = pc[q]
      BY <1>1, <2>1 DEF TypeOK
    <3> QED BY <1>1, <2>1, <3>1 DEF Moving, MovingOf, OldBehind, NewBehind, Removed, Adds
  <2>2. MovingOf(p)'
    <3>1. pc'[p] = "load_dirty"
      BY <1>1 DEF TypeOK
    <3> QED BY <1>1, <1>2, <1>18, <3>1
            DEF MovingOf, OldBehind, NewBehind, Removed, Adds, Finishing, Listing
  <2> QED BY <2>1, <2>2 DEF Moving
<1> QED BY <1>7, <1>8, <1>9, <1>11, <1>12, <1>13, <1>17, <1>19

\* Taking the first lock.
LEMMA LockInv ==
  ASSUME Invals = {}, IInv, NEW p \in Procs, Lock(p)
  PROVE  IInv'
<1>0. Known /\ TypeOK /\ Inner
  BY Facts DEF IInv
<1>1. /\ pc[p] = "lock" /\ pc'[p] \in {"trylock", "load_count"}
      /\ pc'[p] = "trylock" => old[p] # None /\ Seg(old[p]) # Seg(new[p])
      /\ pc'[p] = "load_count" => old[p] = None \/ Seg(old[p]) = Seg(new[p])
      /\ local_lock[Seg(new[p])] = None /\ local_lock' = [local_lock EXCEPT ![Seg(new[p])] = p]
      /\ Moves(p)
      /\ UNCHANGED <<valid_blocks, cur_valid_map, dirty_bitmap, curseg_flag, DIRTY, PRE, at,
                     loaded, newValid, oldValid>>
  BY <1>0 DEF Lock, Goto, Moves, AfterLocate, sitVars, listVars, callVars, retVars, TypeOK
<1>2. TypeOK'
  BY <1>0 DEF Lock, Goto, Labels, Known, sitVars, listVars, callVars, retVars, TypeOK
<1>a. at[p] = new[p] /\ at'[p] = new'[p]
  BY <1>0, <1>1 DEF Inner, AtKnown, Moves
<1>3. Calls' /\ Bits' /\ Counts' /\ Loads'
  <2>1. (Added(p)' <=> Added(p)) /\ (Removed(p)' <=> Removed(p))
    BY <1>0, <1>1, <1>a DEF Moves, Added, Removed, Adds, Counting, Finishing, Listing
  <2> QED BY <1>1, <2>1, CallStay DEF Finishing
<1>4. LocksHeld'
  <2>1. \A q \in Procs \ {p} : \A s : Holds(q, s)' <=> Holds(q, s)
    BY <1>1 DEF Moves, Holds
  <2>2. \A s : Holds(p, s)' <=> s = Seg(new[p])
    BY <1>1 DEF Moves, Holds
  <2>3. \A s : ~Holds(p, s)
    BY <1>1 DEF Holds
  <2>4. \A s \in Segs : local_lock'[s] = IF s = Seg(new[p]) THEN p ELSE local_lock[s]
    BY <1>0, <1>1 DEF TypeOK
  <2>5. \A q \in Procs : ~Holds(q, Seg(new[p]))
    <3>1. LocksHeld /\ Seg(new[p]) \in Segs /\ \A q \in Procs : q # None
      BY <1>0 DEF Inner, Known
    <3> QED BY <1>1, <3>1 DEF LocksHeld
  <2> QED BY <1>0, <2>1, <2>2, <2>3, <2>4, <2>5 DEF Inner, LocksHeld
<1>5. AtKnown' /\ FlagKept'
  <2>1. AtKnown /\ FlagKept /\ new[p] # None
    BY <1>0 DEF Inner, Known
  <2>2. AtKnown'
    BY <1>1, <1>a, <2>1 DEF AtKnown, Moves, Counting, Finishing, Listing
  <2>3. FlagKept'
    BY <1>1, <2>1 DEF FlagKept, Moves, Counting, Finishing
  <2> QED BY <2>2, <2>3
<1>6. Reads'
  BY <1>0, <1>1, <1>a, ReadsStay DEF Inner, NewRead, OldRead, Adds, Counting, Finishing, Listing
<1>7. Lists'
  <2>1. \A s \in Segs : Behind(p, s) => Behind(p, s)'
    BY <1>0, <1>1 DEF Moves, Behind, OldBehind, NewBehind, Removed, Adds, Counting, Finishing, Listing
  <2> QED BY <1>0, <1>1, <2>1, ListsStay DEF Inner
<1>8. Moving'
  <2>1. ASSUME NEW q \in Procs, q # p PROVE MovingOf(q)'
    BY <1>0, <1>1, <2>1, MovingStay DEF Inner
  <2>2. MovingOf(p)'
    BY <1>1 DEF MovingOf, OldBehind, NewBehind, Removed, Adds, Moves, Counting, Finishing, Listing
  <2> QED BY <2>1, <2>2 DEF Moving
<1> QED BY <1>2, <1>3, <1>4, <1>5, <1>6, <1>7, <1>8 DEF IInv, Inner

\* Taking the second lock, or giving back the first.
LEMMA TrylockInv ==
  ASSUME Invals = {}, IInv, NEW p \in Procs, Trylock(p)
  PROVE  IInv'
<1>0. Known /\ TypeOK /\ Inner
  BY Facts DEF IInv
<1>1. /\ pc[p] = "trylock" /\ pc'[p] \in {"lock", "load_count"}
      /\ pc'[p] = "load_count" => /\ local_lock[Seg(old[p])] = None
                                  /\ local_lock' = [local_lock EXCEPT ![Seg(old[p])] = p]
      /\ pc'[p] = "lock" => local_lock' = [local_lock EXCEPT ![Seg(new[p])] = None]
      /\ Moves(p)
      /\ UNCHANGED <<valid_blocks, cur_valid_map, dirty_bitmap, curseg_flag, DIRTY, PRE, at,
                     loaded, newValid, oldValid>>
  BY <1>0 DEF Trylock, Goto, Moves, AfterLocate, sitVars, listVars, callVars, retVars, TypeOK
<1>2. TypeOK'
  <2>1. Seg(old[p]) \in Segs /\ Seg(new[p]) \in Segs
    BY <1>0, <1>1 DEF Inner, AtKnown, Known
  <2>2. local_lock' \in [Segs -> Procs \cup {None}]
    BY <1>0, <1>1, <2>1 DEF TypeOK
  <2>3. pc' \in [Procs -> Labels]
    BY <1>0 DEF Trylock, Goto, TypeOK, Labels
  <2> QED BY <1>0, <1>1, <2>2, <2>3 DEF Moves, TypeOK
<1>a. at[p] = new[p] /\ at'[p] = new'[p]
  BY <1>0, <1>1 DEF Inner, AtKnown, Moves
<1>3. Calls' /\ Bits' /\ Counts' /\ Loads'
  <2>1. (Added(p)' <=> Added(p)) /\ (Removed(p)' <=> Removed(p))
    BY <1>0, <1>1, <1>a DEF Moves, Added, Removed, Adds, Counting, Finishing, Listing
  <2> QED BY <1>1, <2>1, CallStay DEF Finishing
<1>4. LocksHeld'
  <2>1. old[p] # None /\ Seg(old[p]) # Seg(new[p]) /\ Seg(old[p]) \in Segs /\ Seg(new[p]) \in Segs
    BY <1>0, <1>1 DEF Inner, AtKnown, Known
  <2>2. \A q \in Procs \ {p} : \A s : Holds(q, s)' <=> Holds(q, s)
    BY <1>1 DEF Moves, Holds
  <2>3. /\ \A s : Holds(p, s) <=> s = Seg(new[p])
        /\ \A s : Holds(p, s)' <=> pc'[p] = "load_count" /\ s \in {Seg(new[p]), Seg(old[p])}
    BY <1>1, <2>1 DEF Moves, Holds
  <2>a. LocksHeld /\ local_lock \in [Segs -> Procs \cup {None}] /\ \A q \in Procs : q # None
    BY <1>0 DEF Inner, Known, TypeOK
  <2>4. CASE pc'[p] = "load_count"
    <3>1. \A s \in Segs : local_lock'[s] = IF s = Seg(old[p]) THEN p ELSE local_lock[s]
      BY <1>1, <2>1, <2>4, <2>a
    <3>2. \A q \in Procs : ~Holds(q, Seg(old[p]))
      BY <1>1, <2>1, <2>4, <2>a DEF LocksHeld
    <3> QED BY <2>2, <2>3, <2>4, <2>a, <3>1, <3>2 DEF LocksHeld
  <2>5. CASE pc'[p] = "lock"
    <3>1. \A s \in Segs : local_lock'[s] = IF s = Seg(new[p]) THEN None ELSE local_lock[s]
      BY <1>1, <2>1, <2>5, <2>a
    <3>2. \A q \in Procs \ {p} : ~Holds(q, Seg(new[p]))
      BY <2>1, <2>3, <2>a DEF LocksHeld
    <3> QED BY <2>2, <2>3, <2>5, <2>a, <3>1, <3>2 DEF LocksHeld
  <2> QED BY <1>1, <2>4, <2>5
<1>5. AtKnown' /\ FlagKept'
  <2>1. AtKnown /\ FlagKept /\ new[p] # None
    BY <1>0 DEF Inner, Known
  <2>2. AtKnown'
    BY <1>1, <1>a, <2>1 DEF AtKnown, Moves, Counting, Finishing, Listing
  <2>3. FlagKept'
    BY <1>1, <2>1 DEF FlagKept, Moves, Counting, Finishing
  <2> QED BY <2>2, <2>3
<1>6. Reads'
  BY <1>0, <1>1, <1>a, ReadsStay DEF Inner, NewRead, OldRead, Adds, Counting, Finishing, Listing
<1>7. Lists'
  <2>1. \A s \in Segs : Behind(p, s) => Behind(p, s)'
    BY <1>0, <1>1 DEF Moves, Behind, OldBehind, NewBehind, Removed, Adds, Counting, Finishing, Listing
  <2> QED BY <1>0, <1>1, <2>1, ListsStay DEF Inner
<1>8. Moving'
  <2>1. ASSUME NEW q \in Procs, q # p PROVE MovingOf(q)'
    BY <1>0, <1>1, <2>1, MovingStay DEF Inner
  <2>2. MovingOf(p)'
    BY <1>1 DEF MovingOf, OldBehind, NewBehind, Removed, Adds, Moves, Counting, Finishing, Listing
  <2> QED BY <2>1, <2>2 DEF Moving
<1> QED BY <1>2, <1>3, <1>4, <1>5, <1>6, <1>7, <1>8 DEF IInv, Inner

\* The count is returned to the allocation, which goes on with its old block.
LEMMA ReloadCountInv ==
  ASSUME Invals = {}, IInv, NEW p \in Procs, ReloadCount(p)
  PROVE  IInv'
<1>0. Known /\ TypeOK /\ Inner
  BY Facts DEF IInv
<1>1. /\ pc[p] = "reload_count" /\ pc'[p] \in {"load_count", "new_segment"}
      /\ pc'[p] = "load_count" => Adds(p) /\ old[p] # None /\ at'[p] = old[p]
      /\ pc'[p] = "new_segment" => ~(Adds(p) /\ old[p] # None) /\ at'[p] = at[p]
      /\ \A q \in Procs \ {p} : newValid'[q] = newValid[q] /\ oldValid'[q] = oldValid[q]
      /\ Moves(p)
      /\ UNCHANGED <<valid_blocks, cur_valid_map, dirty_bitmap, curseg_flag, DIRTY, PRE,
                     local_lock, loaded>>
  BY <1>0 DEF ReloadCount, Goto, Moves, AfterLocate, sitVars, listVars, callVars, retVars, TypeOK, Known
<1>2. TypeOK'
  <2>1. Seg(at[p]) \in Segs /\ p \in Allocs /\ (old[p] # None => old[p] \in Blocks)
    BY <1>0, <1>1 DEF Known, Finishing
  <2>2. newValid' \in [Procs -> 0 .. blocks_per_seg] /\ oldValid' \in [Procs -> 0 .. blocks_per_seg]
    BY <1>0, <2>1 DEF ReloadCount, TypeOK
  <2>3. at' \in [Procs -> Blocks \cup {None}] /\ pc' \in [Procs -> Labels]
    BY <1>0, <2>1 DEF ReloadCount, Goto, TypeOK, Labels
  <2> QED BY <1>0, <1>1, <2>2, <2>3 DEF Moves, TypeOK
<1>a. at[p] \in {new[p], old[p]} \ {None} /\ new[p] # old[p] /\ Seg(at[p]) \in Segs /\ Holds(p, Seg(at[p]))
  <2>1. AtKnown /\ new[p] # old[p] /\ new[p] # None
    BY <1>0 DEF Inner, Calls, Known
  <2>2. at[p] \in {new[p], old[p]} \ {None}
    BY <1>1, <2>1 DEF AtKnown, Counting, Finishing, Listing
  <2>3. Seg(at[p]) \in Segs /\ Holds(p, Seg(at[p]))
    BY <1>0, <1>1 DEF Known, Counting, Finishing, Listing
  <2> QED BY <2>1, <2>2, <2>3
<1>3. Calls' /\ Bits' /\ Counts' /\ Loads'
  <2>1. (Added(p)' <=> Added(p)) /\ (Removed(p)' <=> Removed(p))
    BY <1>0, <1>1, <1>a DEF Moves, Added, Removed, Adds, Counting, Finishing, Listing
  <2> QED BY <1>1, <2>1, CallStay DEF Finishing
<1>4. LocksHeld'
  BY <1>0, <1>1, LocksStay DEF Inner
<1>5. AtKnown' /\ FlagKept'
  <2>1. FlagKept'
    BY <1>0, <1>1 DEF Inner, FlagKept, Moves, Counting, Finishing
  <2> QED BY <1>0, <1>1, <1>a, <2>1 DEF Inner, AtKnown, Adds, Moves, Counting, Finishing, Listing
<1>6. Reads'
  <2>1. \A q \in Procs : Counted(q) => Seg(at[q]) # Seg(at[p])
    BY <1>0, <1>1, <1>a DEF Counted, Known, Counting, Finishing
  <2>2. valid_blocks[Seg(at[p])] = Valid(Seg(at[p])) /\ cur_valid_map[Seg(at[p])] \in SUBSET Offs
    BY <1>0, <1>a, <2>1 DEF Inner, Counts, TypeOK
  <2>3. Adds(p) => Valid(Seg(at[p])) >= 1
    BY <1>0, <1>1, <2>2, MapCount DEF Inner, Bits, IsValid, Valid, Adds, Finishing
  <2>4. /\ newValid'[p] = IF Adds(p) THEN Valid(Seg(at[p])) ELSE newValid[p]
        /\ oldValid'[p] = IF Adds(p) THEN oldValid[p] ELSE Valid(Seg(at[p]))
    BY <1>0, <2>2 DEF ReloadCount, TypeOK
  <2>5. \A s : Valid(s)' = Valid(s)
    BY <1>1 DEF Valid
  <2>6. ASSUME NEW q \in Procs, q # p
        PROVE  /\ NewRead(q)' => newValid'[q] >= 1
               /\ NewRead(q)' /\ (old'[q] = None \/ Seg(old[q])' # Seg(new[q])') =>
                    newValid'[q] = Valid(Seg(new[q]))'
               /\ OldRead(q)' /\ old'[q] # None => oldValid'[q] = Valid(Seg(old[q]))'
    BY <1>0, <1>1, <2>5, <2>6 DEF Inner, Reads, NewRead, OldRead, Adds, Moves, Valid
  <2>7. /\ NewRead(p)' => newValid'[p] >= 1
        /\ NewRead(p)' /\ (old'[p] = None \/ Seg(old[p])' # Seg(new[p])') =>
             newValid'[p] = Valid(Seg(new[p]))'
        /\ OldRead(p)' /\ old'[p] # None => oldValid'[p] = Valid(Seg(old[p]))'
    BY <1>0, <1>1, <1>a, <2>3, <2>4, <2>5
       DEF Inner, Reads, NewRead, OldRead, Adds, Moves, Counting, Finishing, Listing, Valid
  <2> QED BY <2>6, <2>7 DEF Reads
<1>7. Lists'
  <2>1. \A s \in Segs : Behind(p, s) => Behind(p, s)'
    BY <1>0, <1>1, <1>a DEF Moves, Behind, OldBehind, NewBehind, Removed, Adds, Counting, Finishing, Listing
  <2> QED BY <1>0, <1>1, <2>1, ListsStay DEF Inner
<1>8. Moving'
  <2>1. ASSUME NEW q \in Procs, q # p PROVE MovingOf(q)'
    BY <1>0, <1>1, <2>1, MovingStay DEF Inner
  <2>2. MovingOf(p)'
    BY <1>0, <1>1, <1>a DEF Inner, Moving, MovingOf, OldBehind, NewBehind, Removed, Adds, Moves,
       Counting, Finishing, Listing
  <2> QED BY <2>1, <2>2 DEF Moving
<1> QED BY <1>2, <1>3, <1>4, <1>5, <1>6, <1>7, <1>8 DEF IInv, Inner

\* The log keeps its segment, or leaves it when it is full.
LEMMA NewSegmentInv ==
  ASSUME Invals = {}, IInv, NEW p \in Procs, NewSegment(p)
  PROVE  IInv'
<1>0. Known /\ TypeOK /\ Inner
  BY Facts DEF IInv
<1>1. /\ pc[p] = "new_segment" /\ pc'[p] \in {"locate", "check_old"} /\ at'[p] = new[p]
      /\ pc'[p] = "locate" => curseg_flag' = curseg_flag \ {Seg(new[p])}
      /\ pc'[p] = "check_old" => curseg_flag' = curseg_flag
      /\ Moves(p)
      /\ UNCHANGED <<valid_blocks, cur_valid_map, dirty_bitmap, DIRTY, PRE, local_lock,
                     loaded, newValid, oldValid>>
  BY <1>0 DEF NewSegment, Goto, Moves, AfterLocate, sitVars, listVars, callVars, retVars, TypeOK
<1>2. TypeOK'
  BY <1>0, <1>1 DEF NewSegment, Goto, Labels, Known, sitVars, listVars, callVars, retVars, TypeOK
<1>z. PICK s : s = Seg(new[p])
  OBVIOUS
<1>a. s = Seg(new[p]) /\ s \in Segs /\ Holds(p, s) /\ s \in curseg_flag
  BY <1>0, <1>1, <1>z DEF Inner, Known, Holds, FlagKept
<1>b. \A u \in Segs \ {s} : /\ u \in PRE' <=> u \in PRE
                            /\ u \in DIRTY' <=> u \in DIRTY
                            /\ u \in curseg_flag' <=> u \in curseg_flag
  BY <1>1, <1>z
<1>3. Calls' /\ Bits' /\ Counts' /\ Loads'
  <2>1. (Added(p)' <=> Added(p)) /\ (Removed(p)' <=> Removed(p))
    BY <1>0, <1>1 DEF Moves, Added, Removed, Adds, Counting, Finishing, Listing
  <2> QED BY <1>1, <2>1, CallStay DEF Finishing
<1>4. LocksHeld'
  BY <1>0, <1>1, LocksStay DEF Inner
<1>5. AtKnown' /\ FlagKept'
  <2>a. AtKnown /\ new[p] # None
    BY <1>0 DEF Inner, Known
  <2>1. AtKnown'
    BY <1>1, <2>a DEF AtKnown, Moves, Counting, Finishing, Listing
  <2>2. \A q \in Procs \ {p} : Seg(new[q]) # s
    BY <1>0, <1>a DEF Inner, Calls
  <2>3. FlagKept'
    BY <1>0, <1>1, <1>a, <2>2 DEF Inner, FlagKept, Moves, Counting, Finishing
  <2> QED BY <2>1, <2>3
<1>6. Reads'
  BY <1>0, <1>1, ReadsStay DEF Inner, NewRead, OldRead, Counting, Finishing, Listing
<1>7. Lists'
  <2>1. \A u \in Segs \ {s} : Behind(p, u) => Behind(p, u)'
    BY <1>1, <1>a DEF Moves, Behind, OldBehind, NewBehind, Removed, Adds, Counting, Finishing, Listing
  <2>2. ~Behind(p, s)' => ListOK(s)'
    <3>1. CASE pc'[p] = "locate"
      BY <1>1, <1>a, <3>1 DEF Moves, Behind, NewBehind, Adds, Listing
    <3>2. CASE pc'[p] = "check_old"
      <4>1. ~Behind(p, s)' => ~Behind(p, s)
        BY <1>1, <1>a, <3>2 DEF Moves, Behind, OldBehind, NewBehind, Removed, Listing
      <4>2. \A q \in Procs \ {p} : ~Behind(q, s)
        BY <1>0, <1>a, OthersElsewhere DEF Behind
      <4>3. ~Behind(p, s) => ListOK(s)
        BY <1>0, <1>a, <4>2 DEF Inner, Lists
      <4> QED BY <1>1, <3>2, <4>1, <4>3 DEF ListOK, Valid, Moves
    <3> QED BY <1>1, <3>1, <3>2
  <2>3. \A u \in Segs \ {s} : /\ u \in PRE' <=> u \in PRE
                              /\ u \in DIRTY' <=> u \in DIRTY
                              /\ u \in curseg_flag' <=> u \in curseg_flag
                              /\ Behind(p, u) => Behind(p, u)'
    BY <1>b, <2>1
  <2>4. \A u \in {s} \cap Segs : ~Behind(p, u)' => ListOK(u)'
    BY <2>2
  <2>5. Lists /\ Moves(p) /\ UNCHANGED cur_valid_map
    BY <1>0, <1>1 DEF Inner
  <2> QED BY <2>3, <2>4, <2>5, ListsElsewhere
<1>8. Moving'
  <2>1. ASSUME NEW q \in Procs, q # p PROVE MovingOf(q)'
    <3>1. {s} \in SUBSET Segs /\ \A u \in {s} : Holds(p, u)
      BY <1>a
    <3> QED BY <1>0, <1>1, <1>b, <2>1, <3>1, MovingElsewhere DEF Inner
  <2>2. MovingOf(p)'
    <3>1. \A q \in Procs \ {p} : ~Behind(q, s)
      BY <1>0, <1>a, OthersElsewhere DEF Behind
    <3>2. ~(old[p] # None /\ Seg(old[p]) = s) => s \notin PRE \cup DIRTY
      BY <1>0, <1>1, <1>a, <3>1 DEF Inner, Lists, ListOK, Behind, OldBehind, NewBehind, Removed, Listing
    <3>3. old[p] # None => /\ Seg(old[p]) \notin PRE
                           /\ Seg(old[p]) \in curseg_flag => Seg(old[p]) \notin DIRTY
      BY <1>0, <1>1 DEF Inner, Moving, MovingOf, OldBehind, Removed, Listing
    <3> QED BY <1>1, <1>a, <3>2, <3>3
            DEF MovingOf, OldBehind, NewBehind, Removed, Adds, Moves, Listing, Finishing
  <2> QED BY <2>1, <2>2 DEF Moving
<1> QED BY <1>2, <1>3, <1>4, <1>5, <1>6, <1>7, <1>8 DEF IInv, Inner

\* Whether the old block's segment has to be moved between the lists.
LEMMA CheckOldInv ==
  ASSUME Invals = {}, IInv, NEW p \in Procs, CheckOld(p)
  PROVE  IInv'
<1>0. Known /\ TypeOK /\ Inner
  BY Facts DEF IInv
<1>1. /\ pc[p] = "check_old" /\ pc'[p] \in {"locate", "unlock"} /\ at'[p] = old[p]
      /\ pc'[p] = "locate" => old[p] # None /\ Seg(old[p]) \notin curseg_flag
      /\ pc'[p] = "unlock" => \/ old[p] = None \/ Seg(old[p]) \in curseg_flag
                              \/ Seg(old[p]) \in PRE
      /\ Moves(p)
      /\ UNCHANGED <<valid_blocks, cur_valid_map, dirty_bitmap, curseg_flag, DIRTY, PRE,
                     local_lock, loaded, newValid, oldValid>>
  BY <1>0 DEF CheckOld, Goto, Moves, AfterLocate, sitVars, listVars, callVars, retVars, TypeOK
<1>2. TypeOK'
  BY <1>0, <1>1 DEF CheckOld, Goto, Labels, Known, sitVars, listVars, callVars, retVars, TypeOK
<1>a. old[p] # None => /\ Seg(old[p]) \notin PRE
                       /\ Seg(old[p]) \in curseg_flag => Seg(old[p]) \notin DIRTY
  BY <1>0, <1>1 DEF Inner, Moving, MovingOf, OldBehind, Removed, Listing
<1>3. Calls' /\ Bits' /\ Counts' /\ Loads'
  <2>1. (Added(p)' <=> Added(p)) /\ (Removed(p)' <=> Removed(p))
    BY <1>0, <1>1 DEF Moves, Added, Removed, Adds, Counting, Finishing, Listing
  <2> QED BY <1>1, <2>1, CallStay DEF Finishing
<1>4. LocksHeld'
  BY <1>0, <1>1, LocksStay DEF Inner
<1>5. AtKnown' /\ FlagKept'
  BY <1>0, <1>1 DEF Inner, AtKnown, FlagKept, Moves, Counting, Finishing, Listing
<1>6. Reads'
  BY <1>0, <1>1, ReadsStay DEF Inner, NewRead, OldRead, Counting, Finishing, Listing
<1>7. Lists'
  <2>1. \A u \in Segs \ {Seg(old[p])} : Behind(p, u) => Behind(p, u)'
    BY <1>1 DEF Moves, Behind, OldBehind, NewBehind, Removed, Listing
  <2>2. \A u \in {Seg(old[p])} \cap Segs : old[p] # None /\ ~Behind(p, u)' => ListOK(u)'
    <3>1. old[p] # None /\ ~Behind(p, Seg(old[p]))' => pc'[p] = "unlock"
      BY <1>1 DEF Moves, Behind, OldBehind, Removed, Listing
    <3> QED BY <1>1, <1>a, <3>1 DEF ListOK, Moves, Behind, OldBehind, NewBehind, Removed
  <2>3. CASE old[p] # None
    BY <1>0, <1>1, <2>1, <2>2, <2>3, ListsElsewhere DEF Inner
  <2>4. CASE old[p] = None
    <3>1. \A u \in Segs : Behind(p, u) => Behind(p, u)'
      BY <1>1, <2>4 DEF Behind, OldBehind, NewBehind, Removed, Listing
    <3> QED BY <1>0, <1>1, <3>1, ListsStay DEF Inner
  <2> QED BY <2>3, <2>4
<1>8. Moving'
  <2>1. ASSUME NEW q \in Procs, q # p PROVE MovingOf(q)'
    BY <1>0, <1>1, <2>1, MovingStay DEF Inner
  <2>2. MovingOf(p)'
    <3>1. new[p] # old[p]
      BY <1>0 DEF Inner, Calls
    <3> QED BY <1>1, <1>a, <3>1 DEF MovingOf, OldBehind, NewBehind, Removed, Adds, Moves, Listing, Finishing
  <2> QED BY <2>1, <2>2 DEF Moving
<1> QED BY <1>2, <1>3, <1>4, <1>5, <1>6, <1>7, <1>8 DEF IInv, Inner
=============================================================================
