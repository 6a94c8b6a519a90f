---------------------------- MODULE SitEntryRace ----------------------------
(***************************************************************************)
(* The loads and stores of concurrent updates of SIT entries.              *)
(* f3fs_allocate_data_block2 takes the local_lock of the segments it       *)
(* updates; f3fs_invalidate_blocks takes no lock; neither holds            *)
(* dirty_sentry_lock while it marks the entry dirty.  Every process makes  *)
(* one call, from any consistent state of the segments.                    *)
(* src/f2fs/segment.c.                                                     *)
(*                                                                         *)
(* se->valid_blocks is a bit field, cur_valid_map is changed by byte and   *)
(* dirty_sentries_bitmap by word, all with plain loads and stores, so each *)
(* change is a load and a later store.  The dirty and prefree lists are    *)
(* changed with atomic bit operations.                                     *)
(***************************************************************************)
EXTENDS Integers, FiniteSets

CONSTANTS Segs,           \* segments whose entries share a bitmap word
          blocks_per_seg,
          Allocs,         \* processes in f3fs_allocate_data_block2
          Invals,         \* processes in f3fs_invalidate_blocks
          None

Offs == 0 .. blocks_per_seg - 1
Blocks == Segs \X Offs
Procs == Allocs \cup Invals

ASSUME RaceAssumption ==
  /\ blocks_per_seg \in Nat \ {0}
  /\ Allocs \cap Invals = {}
  /\ None \notin Procs \cup Blocks

VARIABLES
  valid_blocks, cur_valid_map,  \* of every segment
  dirty_bitmap,                 \* dirty_sentries_bitmap
  curseg_flag,                  \* segments with se->curseg = 1
  DIRTY, PRE,                   \* dirty_segmap[DIRTY] and [PRE]
  local_lock,                   \* the holder of every segment's lock
  new, old,                     \* the block a process allocates, and frees
  pc,                           \* where a process is
  at,                           \* the block it is dealing with
  loaded,                       \* what it loaded and has not yet stored
  newValid, oldValid            \* *valid_blocks, returned by the updates

sitVars  == <<valid_blocks, cur_valid_map, dirty_bitmap>>
listVars == <<DIRTY, PRE>>
callVars == <<new, old>>
retVars  == <<newValid, oldValid>>
vars == <<sitVars, curseg_flag, listVars, local_lock, callVars, pc, at, loaded, retVars>>

Labels == {"lock", "trylock", "load_count", "store_count", "load_map", "store_map",
           "load_dirty", "store_dirty", "reload_count", "new_segment", "check_old",
           "locate", "set_dirty", "remove_dirty", "unlock", "done"}

\* Every variable has the range its C declaration and its use give it.
TypeOK ==
  /\ valid_blocks \in [Segs -> 0 .. blocks_per_seg]
  /\ cur_valid_map \in [Segs -> SUBSET Offs]
  /\ dirty_bitmap \subseteq Segs
  /\ curseg_flag \subseteq Segs
  /\ DIRTY \subseteq Segs /\ PRE \subseteq Segs
  /\ local_lock \in [Segs -> Procs \cup {None}]
  /\ new \in [Procs -> Blocks \cup {None}]
  /\ old \in [Procs -> Blocks \cup {None}]
  /\ pc \in [Procs -> Labels]
  /\ at \in [Procs -> Blocks \cup {None}]
  /\ loaded \in [Procs -> [count : 0 .. blocks_per_seg, map : SUBSET Offs, dirty : SUBSET Segs]]
  /\ newValid \in [Procs -> 0 .. blocks_per_seg]
  /\ oldValid \in [Procs -> 0 .. blocks_per_seg]

NothingLoaded == [count |-> 0, map |-> {}, dirty |-> {}]

Seg(b) == b[1]
Off(b) == b[2]

\* Consistent segments, one log for every allocation, and no two calls about
\* the same block.  The blocks after a log's position are unused.
Init ==
  /\ cur_valid_map \in [Segs -> SUBSET Offs]
  /\ valid_blocks = [s \in Segs |-> Cardinality(cur_valid_map[s])]
  /\ dirty_bitmap = {}
  /\ new \in [Procs -> Blocks \cup {None}]
  /\ \A p \in Procs : new[p] = None <=> p \in Invals
  /\ \A p \in Allocs : \A o \in cur_valid_map[Seg(new[p])] : o < Off(new[p])
  /\ \A p, q \in Allocs : Seg(new[p]) = Seg(new[q]) => p = q
  /\ old \in [Procs -> Blocks \cup {None}]
  /\ \A p \in Procs : \/ old[p] # None /\ Off(old[p]) \in cur_valid_map[Seg(old[p])]
                      \/ old[p] = None /\ p \in Allocs
  /\ \A p, q \in Procs : old[p] = old[q] /\ old[p] # None => p = q
  /\ curseg_flag = {Seg(new[p]) : p \in Allocs}
  /\ PRE = {s \in Segs \ curseg_flag : cur_valid_map[s] = {}}
  /\ DIRTY = {s \in Segs \ curseg_flag : valid_blocks[s] \in 1 .. blocks_per_seg - 1}
  /\ local_lock = [s \in Segs |-> None]
  /\ pc = [p \in Procs |-> IF p \in Allocs THEN "lock" ELSE "load_count"]
  /\ at = [p \in Procs |-> IF p \in Allocs THEN new[p] ELSE old[p]]
  /\ loaded = [p \in Procs |-> NothingLoaded]
  /\ newValid = [p \in Procs |-> 0]
  /\ oldValid = [p \in Procs |-> 0]

Goto(p, from, to) == pc[p] = from /\ pc' = [pc EXCEPT ![p] = to]

-----------------------------------------------------------------------------
\* down_write of the new segment's lock; a second lock is needed unless the
\* old block is missing or in the same segment.
Lock(p) ==
  LET s == Seg(new[p])
      second == old[p] # None /\ Seg(old[p]) # s
  IN /\ Goto(p, "lock", IF second THEN "trylock" ELSE "load_count")
     /\ local_lock[s] = None
     /\ local_lock' = [local_lock EXCEPT ![s] = p]
     /\ UNCHANGED <<sitVars, curseg_flag, listVars, callVars, at, loaded, retVars>>

\* Variant: the result of down_write_trylock is ignored.
TrylockIgnored(p) ==
  /\ Goto(p, "trylock", "load_count")
  /\ local_lock' = [local_lock EXCEPT ![Seg(old[p])] = IF @ = None THEN p ELSE @]
  /\ UNCHANGED <<sitVars, curseg_flag, listVars, callVars, at, loaded, retVars>>

\* down_write_trylock of the old segment's lock; on failure the first lock is
\* given back.
Trylock(p) ==
  /\ pc[p] = "trylock"
  /\ IF local_lock[Seg(old[p])] = None
     THEN /\ Goto(p, "trylock", "load_count")
          /\ local_lock' = [local_lock EXCEPT ![Seg(old[p])] = p]
     ELSE /\ Goto(p, "trylock", "lock")
          /\ local_lock' = [local_lock EXCEPT ![Seg(new[p])] = None]
  /\ UNCHANGED <<sitVars, curseg_flag, listVars, callVars, at, loaded, retVars>>

-----------------------------------------------------------------------------
\* update_sit_entry2 of block at[p]; del is 1 for the new block, -1 for the old.
Adds(p) == at[p] = new[p]

LoadCount(p) ==
  /\ Goto(p, "load_count", "store_count")
  /\ loaded' = [loaded EXCEPT ![p].count = valid_blocks[Seg(at[p])]]
  /\ UNCHANGED <<sitVars, curseg_flag, listVars, local_lock, callVars, at, retVars>>

StoreCount(p) ==
  /\ Goto(p, "store_count", "load_map")
  /\ valid_blocks' =
       [valid_blocks EXCEPT ![Seg(at[p])] = loaded[p].count + (IF Adds(p) THEN 1 ELSE -1)]
  /\ loaded' = [loaded EXCEPT ![p] = NothingLoaded]
  /\ UNCHANGED <<cur_valid_map, dirty_bitmap, curseg_flag, listVars, local_lock, callVars,
                 at, retVars>>

LoadMap(p) ==
  /\ Goto(p, "load_map", "store_map")
  /\ loaded' = [loaded EXCEPT ![p].map = cur_valid_map[Seg(at[p])]]
  /\ UNCHANGED <<sitVars, curseg_flag, listVars, local_lock, callVars, at, retVars>>

\* f3fs_test_and_set_bit or f3fs_test_and_clear_bit; a bit that already had its
\* value takes the count back.
StoreMap(p) ==
  LET s == Seg(at[p])
      o == Off(at[p])
      wrong == Adds(p) <=> o \in loaded[p].map
  IN /\ Goto(p, "store_map", "load_dirty")
     /\ cur_valid_map' =
          [cur_valid_map EXCEPT ![s] = IF Adds(p) THEN loaded[p].map \cup {o}
                                      ELSE loaded[p].map \ {o}]
     /\ valid_blocks' =
          [valid_blocks EXCEPT ![s] = IF ~wrong THEN @ ELSE IF Adds(p) THEN @ - 1 ELSE @ + 1]
     /\ loaded' = [loaded EXCEPT ![p] = NothingLoaded]
     /\ UNCHANGED <<dirty_bitmap, curseg_flag, listVars, local_lock, callVars, at, retVars>>

\* __mark_sit_entry_dirty: __test_and_set_bit
LoadDirty(p) ==
  /\ Goto(p, "load_dirty", "store_dirty")
  /\ loaded' = [loaded EXCEPT ![p].dirty = dirty_bitmap]
  /\ UNCHANGED <<sitVars, curseg_flag, listVars, local_lock, callVars, at, retVars>>

StoreDirty(p) ==
  /\ Goto(p, "store_dirty", "reload_count")
  /\ dirty_bitmap' = loaded[p].dirty \cup {Seg(at[p])}
  /\ loaded' = [loaded EXCEPT ![p] = NothingLoaded]
  /\ UNCHANGED <<valid_blocks, cur_valid_map, curseg_flag, listVars, local_lock, callVars,
                 at, retVars>>

\* *valid_blocks = se->valid_blocks; an allocation goes on with its old block.
ReloadCount(p) ==
  LET v == valid_blocks[Seg(at[p])]
      updateOld == Adds(p) /\ old[p] # None
      last == IF p \in Allocs THEN "new_segment" ELSE "check_old"
  IN /\ Goto(p, "reload_count", IF updateOld THEN "load_count" ELSE last)
     /\ newValid' = IF Adds(p) THEN [newValid EXCEPT ![p] = v] ELSE newValid
     /\ oldValid' = IF Adds(p) THEN oldValid ELSE [oldValid EXCEPT ![p] = v]
     /\ at' = IF updateOld THEN [at EXCEPT ![p] = old[p]] ELSE at
     /\ UNCHANGED <<sitVars, curseg_flag, listVars, local_lock, callVars, loaded>>

-----------------------------------------------------------------------------
\* allocate_segment2 when the log's segment is full: the log moves on to a
\* segment of its own, outside Segs.
NewSegment(p) ==
  LET full == Off(new[p]) + 1 = blocks_per_seg IN
  /\ Goto(p, "new_segment", IF full THEN "locate" ELSE "check_old")
  /\ curseg_flag' = IF full THEN curseg_flag \ {Seg(new[p])} ELSE curseg_flag
  /\ at' = [at EXCEPT ![p] = new[p]]
  /\ UNCHANGED <<sitVars, listVars, local_lock, callVars, loaded, retVars>>

\* The tests before locate_dirty_segment2 of the old block's segment.
CheckOld(p) ==
  LET locate == /\ old[p] # None
                /\ Seg(old[p]) \notin curseg_flag
                /\ Seg(old[p]) \notin PRE \/ oldValid[p] = 0
  IN /\ Goto(p, "check_old", IF locate THEN "locate" ELSE "unlock")
     /\ at' = [at EXCEPT ![p] = old[p]]
     /\ UNCHANGED <<sitVars, curseg_flag, listVars, local_lock, callVars, loaded, retVars>>

\* locate_dirty_segment2 with the count read earlier: an empty segment enters
\* PRE and then leaves DIRTY, a partly valid one enters DIRTY unless it is seen
\* in PRE, a full one leaves DIRTY.
AfterLocate(p) == IF Adds(p) THEN "check_old" ELSE "unlock"

Locate(p) ==
  LET s == Seg(at[p])
      v == IF Adds(p) THEN newValid[p] ELSE oldValid[p]
  IN /\ Goto(p, "locate", IF v = 0 \/ v >= blocks_per_seg THEN "remove_dirty"
                          ELSE IF s \notin PRE THEN "set_dirty" ELSE AfterLocate(p))
     /\ PRE' = IF v = 0 THEN PRE \cup {s} ELSE PRE
     /\ UNCHANGED <<sitVars, curseg_flag, DIRTY, local_lock, callVars, at, loaded, retVars>>

SetDirty(p) ==
  /\ Goto(p, "set_dirty", AfterLocate(p))
  /\ DIRTY' = DIRTY \cup {Seg(at[p])}
  /\ UNCHANGED <<sitVars, curseg_flag, PRE, local_lock, callVars, at, loaded, retVars>>

RemoveDirty(p) ==
  /\ Goto(p, "remove_dirty", AfterLocate(p))
  /\ DIRTY' = DIRTY \ {Seg(at[p])}
  /\ UNCHANGED <<sitVars, curseg_flag, PRE, local_lock, callVars, at, loaded, retVars>>

Unlock(p) ==
  /\ Goto(p, "unlock", "done")
  /\ local_lock' = [s \in Segs |-> IF local_lock[s] = p THEN None ELSE local_lock[s]]
  /\ UNCHANGED <<sitVars, curseg_flag, listVars, callVars, at, loaded, retVars>>

-----------------------------------------------------------------------------
Step(p) ==
  \/ Lock(p) \/ Trylock(p)
  \/ LoadCount(p) \/ StoreCount(p) \/ LoadMap(p) \/ StoreMap(p)
  \/ LoadDirty(p) \/ StoreDirty(p) \/ ReloadCount(p)
  \/ NewSegment(p) \/ CheckOld(p)
  \/ Locate(p) \/ SetDirty(p) \/ RemoveDirty(p)
  \/ Unlock(p)

AllDone == \A p \in Procs : pc[p] = "done"
Finished == AllDone /\ UNCHANGED vars

Next == (\E p \in Procs : Step(p)) \/ Finished

Spec == Init /\ [][Next]_vars

-----------------------------------------------------------------------------
\* check_block_count (segment.h:836) reports "Mismatch valid blocks %d vs. %d"
\* when the count of an entry is not the number of bits of its map.  Once the
\* calls have returned it is, if f3fs_allocate_data_block2 alone runs; with
\* f3fs_invalidate_blocks it need not be.
CountMatchesMap ==
  AllDone => \A s \in Segs : valid_blocks[s] = Cardinality(cur_valid_map[s])

\* Once the calls have returned the lists agree with the maps: a segment with
\* a log is on neither list, any other is prefree exactly when it is empty and
\* dirty exactly when it is partly valid.
ListsMatchMap ==
  AllDone => \A s \in Segs :
    LET valid == Cardinality(cur_valid_map[s]) IN
    /\ s \in PRE <=> s \notin curseg_flag /\ valid = 0
    /\ s \in DIRTY <=> s \notin curseg_flag /\ valid \in 1 .. blocks_per_seg - 1

\* Concurrent allocations leave every entry consistent: its count and the segment
\* lists agree with its bitmap (segment.c:3275, the two local locks).
EntriesMatchMap == TypeOK /\ CountMatchesMap /\ ListsMatchMap

=============================================================================
