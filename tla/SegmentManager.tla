--------------------------- MODULE SegmentManager ---------------------------
(***************************************************************************)
(* The in-memory segment manager of a mounted volume: block allocation     *)
(* from the logs, invalidation, the free segment map, the dirty and        *)
(* prefree lists, and the steps of a checkpoint that touch them; crash and *)
(* mount.  src/f2fs/segment.c, segment.h, checkpoint.c.                    *)
(*                                                                         *)
(* One segment per section, as __locate_dirty_segment2 requires.  The logs *)
(* always write in LFS manner: allocate_segment_by_default2 never chooses  *)
(* SSR.  Each operation is one step; SitEntryRace examines what happens    *)
(* when f3fs_invalidate_blocks, which takes no segment lock, overlaps      *)
(* another update of the same segment.                                     *)
(***************************************************************************)
EXTENDS Integers, FiniteSets

CONSTANTS MAIN_SEGS,        \* number of segments of the main area
          blocks_per_seg,   \* blocks in a segment
          Logs,             \* the persistent logs
          NULL_ADDR,        \* the address of a block that has none yet
          USHRT_SEGS,       \* values of an unsigned short (65536)
          max_fragment_hole, \* largest hole of fs_mode=fragment:block, or 0
          MaxLeft           \* entries a flush of the SIT may leave out

Segs == 0 .. MAIN_SEGS - 1
Offs == 0 .. blocks_per_seg - 1
Blocks == Segs \X Offs

ASSUME SizeAssumption ==
  /\ MAIN_SEGS \in Nat \ {0}
  /\ blocks_per_seg \in Nat \ {0}
  /\ USHRT_SEGS \in Nat \ {0}
  /\ max_fragment_hole \in Nat
  /\ MaxLeft \in Nat
ASSUME NullAssumption == NULL_ADDR \notin Blocks

VARIABLES
  cur_valid_map,    \* se->cur_valid_map of every segment
  raw_valid_map,    \* rs->valid_map of every SIT entry, page or journal
  valid_blocks,     \* se->valid_blocks
  dirty_sentries,   \* sit_i->dirty_sentries_bitmap
  curseg_flag,      \* segments with se->curseg = 1
  curseg,           \* segno and next_blkoff of every log
  free_segmap,      \* segments in use (the bits that are set)
  DIRTY,            \* dirty_i->dirty_segmap[DIRTY]
  PRE,              \* dirty_i->dirty_segmap[PRE]
  cp,               \* where f3fs_write_checkpoint is
  cp_error,         \* f3fs_cp_error(sbi)
  mounted,          \* the volume is mounted
  complete,         \* every SIT flush so far wrote all dirty entries
  disk_valid_map,   \* valid maps of the last checkpoint on the device
  disk_curseg       \* logs of the last checkpoint on the device

sitVars  == <<cur_valid_map, raw_valid_map, valid_blocks, dirty_sentries>>
logVars  == <<curseg, curseg_flag>>
segVars  == <<free_segmap, DIRTY, PRE>>
cpVars   == <<cp, cp_error, complete>>
diskVars == <<disk_valid_map, disk_curseg>>
vars     == <<sitVars, logVars, segVars, cpVars, mounted, diskVars>>

CursegType == [segno : Segs, next_blkoff : Offs]

\* Every variable has the range its C declaration and its use give it.
TypeOK ==
  /\ cur_valid_map \in [Segs -> SUBSET Offs]
  /\ raw_valid_map \in [Segs -> SUBSET Offs]
  /\ valid_blocks \in [Segs -> 0 .. blocks_per_seg]
  /\ dirty_sentries \subseteq Segs
  /\ curseg_flag \subseteq Segs
  /\ curseg \in [Logs -> CursegType]
  /\ free_segmap \subseteq Segs
  /\ DIRTY \subseteq Segs
  /\ PRE \subseteq Segs
  /\ cp \in {"none", "flushed", "committed"}
  /\ cp_error \in BOOLEAN
  /\ mounted \in BOOLEAN
  /\ complete \in BOOLEAN
  /\ disk_valid_map \in [Segs -> SUBSET Offs]
  /\ disk_curseg \in [Logs -> CursegType]

-----------------------------------------------------------------------------
\* IS_CURSEG takes its segment number as an unsigned short.
IS_CURSEG(flag, segno) == segno % USHRT_SEGS \in flag

\* update_sit_entry2: the count follows the bit, a bit found in the wrong
\* state leaves the count alone.
SetValid(map, b)   == [map EXCEPT ![b[1]] = @ \cup {b[2]}]
ClearValid(map, b) == [map EXCEPT ![b[1]] = @ \ {b[2]}]
CountSet(count, map, b) ==
  [count EXCEPT ![b[1]] = IF b[2] \in map[b[1]] THEN @ ELSE @ + 1]
CountClear(count, map, b) ==
  [count EXCEPT ![b[1]] = IF b[2] \in map[b[1]] THEN @ - 1 ELSE @]

\* locate_dirty_segment2: the prefree list and the dirty list after a segment
\* was left with a number of valid blocks.
LocatePre(flag, pre, segno, valid) ==
  IF valid = 0 /\ ~IS_CURSEG(flag, segno) THEN pre \cup {segno} ELSE pre

\* Variant: an emptied segment stays on the dirty list.
LocateDirtyKeepsEmpty(flag, dirty, pre, segno, valid) ==
  IF ~IS_CURSEG(flag, segno) /\ valid \in 1 .. blocks_per_seg - 1 /\ segno \notin pre
  THEN dirty \cup {segno} ELSE dirty

LocateDirty(flag, dirty, pre, segno, valid) ==
  LET partly == valid \in 1 .. blocks_per_seg - 1 IN
  IF IS_CURSEG(flag, segno) \/ (partly /\ segno \in pre) THEN dirty
  ELSE IF partly THEN dirty \cup {segno}
  ELSE dirty \ {segno}

\* __has_curseg_space
HasCursegSpace(next_blkoff) == next_blkoff < blocks_per_seg

\* The segment manager the mount builds from a checkpoint: read_*_summaries
\* and reset_curseg, build_sit_entries, init_free_segmap, init_dirty_segmap.
InUseAtMount(map, logs) ==
  {s \in Segs : map[s] # {}} \cup {logs[l].segno : l \in Logs}

DirtyAtMount(map, logs) ==
  {s \in InUseAtMount(map, logs) :
     /\ Cardinality(map[s]) \in 1 .. blocks_per_seg - 1
     /\ ~IS_CURSEG({logs[l].segno : l \in Logs}, s)}

\* A freshly formatted volume, mounted.
Init ==
  /\ disk_valid_map = [s \in Segs |-> {}]
  /\ disk_curseg \in [Logs -> [segno : Segs, next_blkoff : {0}]]
  /\ \A l, m \in Logs : disk_curseg[l].segno = disk_curseg[m].segno => l = m
  /\ cur_valid_map = disk_valid_map
  /\ raw_valid_map = disk_valid_map
  /\ valid_blocks = [s \in Segs |-> 0]
  /\ dirty_sentries = {}
  /\ curseg = disk_curseg
  /\ curseg_flag = {disk_curseg[l].segno : l \in Logs}
  /\ free_segmap = InUseAtMount(disk_valid_map, disk_curseg)
  /\ DIRTY = DirtyAtMount(disk_valid_map, disk_curseg)
  /\ PRE = {}
  /\ cp = "none"
  /\ cp_error = FALSE
  /\ mounted = TRUE
  /\ complete = TRUE

\* Writers hold cp_rwsem or node_write for reading, which the checkpoint
\* takes for writing, and give up once f3fs_cp_error is set.
Running == mounted /\ cp = "none" /\ ~cp_error

-----------------------------------------------------------------------------
\* Variant: __set_inuse is forgotten.
NewCursegNotMarked(l, s) ==
  /\ s \in Segs \ free_segmap
  /\ curseg' = [curseg EXCEPT ![l] = [segno |-> s, next_blkoff |-> 0]]
  /\ curseg_flag' = (curseg_flag \ {curseg[l].segno}) \cup {s}
  /\ UNCHANGED free_segmap

\* get_new_segment and reset_curseg for log l: any free segment, since
\* __get_next_segno may start the search anywhere.
NewCurseg(l, s) ==
  /\ s \in Segs \ free_segmap
  /\ free_segmap' = free_segmap \cup {s}
  /\ curseg' = [curseg EXCEPT ![l] = [segno |-> s, next_blkoff |-> 0]]
  /\ curseg_flag' = (curseg_flag \ {curseg[l].segno}) \cup {s}

\* __refresh_next_blkoff, then allocate_segment2 when the segment is full.
\* The caller has made sure of a free segment (f3fs_balance_fs).
AdvanceLog(l) ==
  \E hole \in 0 .. max_fragment_hole :
    LET next == curseg[l].next_blkoff + 1 + hole IN
    IF HasCursegSpace(next)
    THEN /\ curseg' = [curseg EXCEPT ![l].next_blkoff = next]
         /\ UNCHANGED <<curseg_flag, free_segmap>>
    ELSE \E s \in Segs : NewCurseg(l, s)

\* f3fs_allocate_data_block2 without an old block.
AllocateNew(l) ==
  LET segno == curseg[l].segno
      new   == <<segno, curseg[l].next_blkoff>>
      valid == CountSet(valid_blocks, cur_valid_map, new)
      closed == curseg'[l].segno # segno
  IN /\ Running
     /\ AdvanceLog(l)
     /\ cur_valid_map' = SetValid(cur_valid_map, new)
     /\ valid_blocks' = valid
     /\ dirty_sentries' =
          dirty_sentries \cup {segno} \cup (IF closed THEN {curseg'[l].segno} ELSE {})
     /\ PRE' = IF closed THEN LocatePre(curseg_flag', PRE, segno, valid[segno]) ELSE PRE
     /\ DIRTY' = IF closed
                 THEN LocateDirty(curseg_flag', DIRTY, PRE, segno, valid[segno])
                 ELSE DIRTY
     /\ UNCHANGED <<raw_valid_map, cpVars, mounted, diskVars>>

\* f3fs_allocate_data_block2 moving a block away from old.
AllocateOver(l, old) ==
  LET segno  == curseg[l].segno
      new    == <<segno, curseg[l].next_blkoff>>
      map1   == SetValid(cur_valid_map, new)
      valid1 == CountSet(valid_blocks, cur_valid_map, new)
      valid2 == CountClear(valid1, map1, old)
      closed == curseg'[l].segno # segno
      pre1   == IF closed THEN LocatePre(curseg_flag', PRE, segno, valid1[segno]) ELSE PRE
      dirty1 == IF closed
                THEN LocateDirty(curseg_flag', DIRTY, PRE, segno, valid1[segno])
                ELSE DIRTY
      relocate == /\ ~IS_CURSEG(curseg_flag', old[1])
                  /\ old[1] \notin pre1 \/ valid2[old[1]] = 0
  IN /\ Running
     /\ old[2] \in cur_valid_map[old[1]]
     /\ AdvanceLog(l)
     /\ cur_valid_map' = ClearValid(map1, old)
     /\ valid_blocks' = valid2
     /\ dirty_sentries' = dirty_sentries \cup {segno, old[1]}
                            \cup (IF closed THEN {curseg'[l].segno} ELSE {})
     /\ PRE' = IF relocate
               THEN LocatePre(curseg_flag', pre1, old[1], valid2[old[1]])
               ELSE pre1
     /\ DIRTY' = IF relocate
                 THEN LocateDirty(curseg_flag', dirty1, pre1, old[1], valid2[old[1]])
                 ELSE dirty1
     /\ UNCHANGED <<raw_valid_map, cpVars, mounted, diskVars>>

AllocateDataBlock2(l, old) ==
  IF old = NULL_ADDR THEN AllocateNew(l) ELSE AllocateOver(l, old)

\* Variant: an emptied segment is freed at once, without a checkpoint.
InvalidateFreesAtOnce(b) ==
  LET valid == CountClear(valid_blocks, cur_valid_map, b)
      freed == IF valid[b[1]] = 0 /\ ~IS_CURSEG(curseg_flag, b[1]) THEN {b[1]} ELSE {}
  IN /\ Running
     /\ b[2] \in cur_valid_map[b[1]]
     /\ cur_valid_map' = ClearValid(cur_valid_map, b)
     /\ valid_blocks' = valid
     /\ dirty_sentries' = dirty_sentries \cup {b[1]}
     /\ free_segmap' = free_segmap \ freed
     /\ DIRTY' = LocateDirty(curseg_flag, DIRTY, PRE, b[1], valid[b[1]])
     /\ UNCHANGED <<raw_valid_map, logVars, PRE, cpVars, mounted, diskVars>>

\* f3fs_invalidate_blocks: a block of a file or a node goes away.
InvalidateBlocks(b) ==
  LET valid == CountClear(valid_blocks, cur_valid_map, b)
      locate == /\ ~IS_CURSEG(curseg_flag, b[1])
                /\ b[1] \notin PRE \/ valid[b[1]] = 0
  IN /\ Running
     /\ b[2] \in cur_valid_map[b[1]]
     /\ cur_valid_map' = ClearValid(cur_valid_map, b)
     /\ valid_blocks' = valid
     /\ dirty_sentries' = dirty_sentries \cup {b[1]}
     /\ PRE' = IF locate THEN LocatePre(curseg_flag, PRE, b[1], valid[b[1]]) ELSE PRE
     /\ DIRTY' = IF locate
                 THEN LocateDirty(curseg_flag, DIRTY, PRE, b[1], valid[b[1]])
                 ELSE DIRTY
     /\ UNCHANGED <<raw_valid_map, logVars, free_segmap, cpVars, mounted, diskVars>>

-----------------------------------------------------------------------------
\* f3fs_flush_sit_entries: seg_info_to_raw_sit copies the current map of every
\* flushed entry to the SIT; set_prefree_as_free_segments follows.
\* SitFlush shows which entries are left out: dirty ones, and ones that were in
\* the SIT journal and become dirty when it is emptied.  Here they are any.
FlushSitEntries(left) ==
  /\ Running
  /\ raw_valid_map' =
       [s \in Segs |-> IF s \in left THEN raw_valid_map[s] ELSE cur_valid_map[s]]
  /\ dirty_sentries' = left
  /\ complete' = (complete /\ left = {})
  /\ free_segmap' = free_segmap \ PRE
  /\ cp' = "flushed"
  /\ UNCHANGED <<cur_valid_map, valid_blocks, logVars, DIRTY, PRE, cp_error,
                 mounted, diskVars>>

\* The checkpoint block reaches the device, and with it the flushed entries and
\* the logs.  For an entry left out the device has an image written earlier,
\* over-approximated by any image.
WriteCheckpoint ==
  /\ \E image \in [dirty_sentries -> SUBSET Offs] :
       disk_valid_map' =
         [s \in Segs |-> IF s \in dirty_sentries THEN image[s] ELSE raw_valid_map[s]]
  /\ disk_curseg' = curseg

\* do_checkpoint succeeds.
CommitCheckpoint ==
  /\ mounted /\ cp = "flushed" /\ ~cp_error
  /\ cp' = "committed"
  /\ WriteCheckpoint
  /\ UNCHANGED <<sitVars, logVars, segVars, cp_error, complete, mounted>>

\* do_checkpoint returns an error: f3fs_stop_checkpoint has set CP_ERROR_FLAG
\* and the prefree list is kept.  The checkpoint block may have been written.
FailCheckpoint ==
  /\ mounted /\ cp = "flushed" /\ ~cp_error
  /\ cp' = "none"
  /\ cp_error' = TRUE
  /\ UNCHANGED diskVars \/ WriteCheckpoint
  /\ UNCHANGED <<sitVars, logVars, segVars, complete, mounted>>

\* Variant: the prefree list is not cleared.
ClearPrefreeForgotten ==
  /\ mounted /\ cp = "committed"
  /\ cp' = "none"
  /\ UNCHANGED <<sitVars, logVars, segVars, cp_error, complete, mounted, diskVars>>

\* f3fs_clear_prefree_segments, then unblock_operations.
ClearPrefreeSegments ==
  /\ mounted /\ cp = "committed"
  /\ PRE' = {}
  /\ cp' = "none"
  /\ UNCHANGED <<sitVars, logVars, free_segmap, DIRTY, cp_error, complete,
                 mounted, diskVars>>

\* f3fs_dirty_to_prefree, when checkpoints are switched off.
DirtyToPrefree ==
  LET empty == {s \in DIRTY : valid_blocks[s] = 0 /\ ~IS_CURSEG(curseg_flag, s)} IN
  /\ Running
  /\ PRE' = PRE \cup empty
  /\ DIRTY' = DIRTY \ empty
  /\ UNCHANGED <<sitVars, logVars, free_segmap, cpVars, mounted, diskVars>>

-----------------------------------------------------------------------------
\* Power is lost at any point.
Crash ==
  /\ mounted
  /\ mounted' = FALSE
  /\ UNCHANGED <<sitVars, logVars, segVars, cpVars, diskVars>>

\* Variant: the write positions of the logs are not read back.
MountAtSegmentStart ==
  /\ ~mounted
  /\ mounted' = TRUE
  /\ cur_valid_map' = disk_valid_map
  /\ raw_valid_map' = disk_valid_map
  /\ valid_blocks' = [s \in Segs |-> Cardinality(disk_valid_map[s])]
  /\ dirty_sentries' = {}
  /\ curseg' = [l \in Logs |-> [disk_curseg[l] EXCEPT !.next_blkoff = 0]]
  /\ curseg_flag' = {disk_curseg[l].segno : l \in Logs}
  /\ free_segmap' = InUseAtMount(disk_valid_map, disk_curseg)
  /\ DIRTY' = DirtyAtMount(disk_valid_map, disk_curseg)
  /\ PRE' = {}
  /\ cp' = "none"
  /\ cp_error' = FALSE
  /\ UNCHANGED <<complete, diskVars>>

\* f3fs_build_segment_manager from the last checkpoint.
Mount ==
  /\ ~mounted
  /\ mounted' = TRUE
  /\ cur_valid_map' = disk_valid_map
  /\ raw_valid_map' = disk_valid_map
  /\ valid_blocks' = [s \in Segs |-> Cardinality(disk_valid_map[s])]
  /\ dirty_sentries' = {}
  /\ curseg' = disk_curseg
  /\ curseg_flag' = {disk_curseg[l].segno : l \in Logs}
  /\ free_segmap' = InUseAtMount(disk_valid_map, disk_curseg)
  /\ DIRTY' = DirtyAtMount(disk_valid_map, disk_curseg)
  /\ PRE' = {}
  /\ cp' = "none"
  /\ cp_error' = FALSE
  /\ UNCHANGED <<complete, diskVars>>

-----------------------------------------------------------------------------
LeftOut == {left \in SUBSET Segs : Cardinality(left) <= MaxLeft}

Checkpoint ==
  \/ \E left \in LeftOut : FlushSitEntries(left)
  \/ CommitCheckpoint
  \/ FailCheckpoint
  \/ ClearPrefreeSegments

Next ==
  \/ \E l \in Logs, old \in Blocks \cup {NULL_ADDR} : AllocateDataBlock2(l, old)
  \/ \E b \in Blocks : InvalidateBlocks(b)
  \/ DirtyToPrefree
  \/ Checkpoint
  \/ Crash
  \/ Mount

\* A checkpoint that has begun goes on, and f3fs_balance_fs_bg starts one when
\* the checkpoint interval has passed.
Fairness == WF_vars(Checkpoint)

Spec == Init /\ [][Next]_vars
FairSpec == Spec /\ Fairness

-----------------------------------------------------------------------------
\* The prefree segments already handed back to the free map by the running
\* (or failed) checkpoint.
Released == IF cp = "none" /\ ~cp_error THEN {} ELSE PRE

\* Every log writes to a segment of its own, marked in use in the free map, and
\* se->curseg is set for these segments and no others.
LogsOwnSegments ==
  /\ \A l, m \in Logs : curseg[l].segno = curseg[m].segno => l = m
  /\ curseg_flag = {curseg[l].segno : l \in Logs}
  /\ curseg_flag \subseteq free_segmap

\* The free map, the dirty list and the prefree list agree with the SIT: a free
\* segment holds no valid block; an in-use segment that is no log is dirty
\* exactly when it is partly valid, and prefree exactly when it is empty, so no
\* empty segment is lost and no segment with data is handed back.
SegmentStates ==
  \A s \in Segs :
    /\ valid_blocks[s] = Cardinality(cur_valid_map[s])
    /\ s \notin free_segmap => cur_valid_map[s] = {}
    /\ s \in DIRTY <=> /\ s \in free_segmap \ curseg_flag
                       /\ valid_blocks[s] \in 1 .. blocks_per_seg - 1
    /\ s \in PRE <=> \/ /\ s \in free_segmap \ curseg_flag
                        /\ valid_blocks[s] = 0
                     \/ s \in Released

\* What sanity_check_curseg asks of a mounted image and the allocator keeps:
\* no block at or after a log's next_blkoff is valid, as long as every flush of
\* the SIT was complete.
LogTailUnused ==
  complete =>
    \A l \in Logs : \A o \in Offs :
      o >= curseg[l].next_blkoff => o \notin cur_valid_map[curseg[l].segno]

\* Out-of-place writing: the block a log hands out is valid neither now nor in
\* the checkpoint on the device, so a crash finds the old data intact.
NeverOverwrite ==
  [][\A l \in Logs :
       complete /\ mounted /\ mounted' /\ curseg'[l] # curseg[l]
         => curseg[l].next_blkoff \notin cur_valid_map[curseg[l].segno]
                                           \cup disk_valid_map[curseg[l].segno]]_vars

\* The blocks whose bit is set in a valid map.
BlocksOf(map) == {b \in Blocks : b[2] \in map[b[1]]}

Volume == INSTANCE LogVolume WITH
            live <- BlocksOf(cur_valid_map), saved <- BlocksOf(disk_valid_map),
            up <- mounted, kept <- complete, None <- NULL_ADDR

\* The segment manager implements the volume its callers see: every write goes to a
\* block that holds neither current data nor data of the checkpoint on the device, a
\* checkpoint saves the current blocks as a whole, a crash goes back to exactly them.
VolumePromise == Volume!Spec

\* An emptied segment is eventually handed back to the allocator, unless the
\* checkpoint fails or the machine crashes first.
PrefreeReclaimed ==
  \A s \in Segs : s \in PRE ~> (s \notin PRE \/ cp_error \/ ~mounted)

=============================================================================
