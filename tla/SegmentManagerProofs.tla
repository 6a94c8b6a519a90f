----------------------- MODULE SegmentManagerProofs ------------------------
(***************************************************************************)
(* The segment manager of any volume: the inductive invariant, what the    *)
(* operators do to each segment, the steps that keep it, and the theorems  *)
(* on the allocator.                                                       *)
(* At most USHRT_SEGS segments, as segment numbers pass through IS_CURSEG. *)
(***************************************************************************)
EXTENDS SegmentManager, TLAPS, FiniteSetTheorems

\* The checkpointed map differs from the current one only for dirty entries.
CkptCurrent ==
  \A s \in Segs : s \notin dirty_sentries => raw_valid_map[s] = cur_valid_map[s]

\* The device holds the checkpointed maps, except while a checkpoint is being
\* written and after one has failed; between the flush and the end of the
\* checkpoint no entry is dirty.
DiskCurrent ==
  complete =>
    /\ mounted /\ ~cp_error /\ cp # "flushed" => disk_valid_map = raw_valid_map
    /\ cp = "flushed" => dirty_sentries = {}

\* A free segment is empty in the checkpoint too.
FreeClean ==
  complete => \A s \in Segs \ free_segmap : raw_valid_map[s] = {}

\* Nothing at or after the write position of a log is valid now or in the
\* checkpoint.
Frontier ==
  complete => \A l \in Logs : \A o \in Offs :
    o >= curseg[l].next_blkoff => /\ o \notin cur_valid_map[curseg[l].segno]
                                  /\ o \notin raw_valid_map[curseg[l].segno]

\* The logs of the checkpoint on the device are distinct, and nothing at or
\* after their write positions is valid in it.
DiskLogs ==
  /\ \A l, m \in Logs : disk_curseg[l].segno = disk_curseg[m].segno => l = m
  /\ complete => \A l \in Logs : \A o \in Offs :
       o >= disk_curseg[l].next_blkoff => o \notin disk_valid_map[disk_curseg[l].segno]

\* The segments handed back by the running checkpoint are out of use.
ReleasedFree == Released \cap free_segmap = {}

\* The inductive invariant.
IInv ==
  /\ TypeOK
  /\ LogsOwnSegments
  /\ SegmentStates
  /\ CkptCurrent
  /\ DiskCurrent
  /\ FreeClean
  /\ Frontier
  /\ DiskLogs
  /\ ReleasedFree

-----------------------------------------------------------------------------
\* On a volume of at most 65536 segments the conversion to unsigned short in
\* IS_CURSEG loses nothing.
LEMMA IsCursegExact ==
  ASSUME MAIN_SEGS <= USHRT_SEGS, NEW flag, NEW s \in Segs
  PROVE  IS_CURSEG(flag, s) <=> s \in flag
<1>1. s \in Int /\ 0 <= s /\ s < USHRT_SEGS /\ USHRT_SEGS \in Nat /\ USHRT_SEGS > 0
  BY SizeAssumption DEF Segs
<1>2. s % USHRT_SEGS = s
  BY <1>1
<1> QED BY <1>2 DEF IS_CURSEG

\* A valid map is finite, and its population count moves with its bits.
LEMMA MapCount ==
  ASSUME NEW S \in SUBSET Offs
  PROVE  /\ IsFiniteSet(S)
         /\ Cardinality(S) \in 0 .. blocks_per_seg
         /\ Cardinality(S) = 0 <=> S = {}
         /\ \A o \in Offs \ S : Cardinality(S \cup {o}) = Cardinality(S) + 1
         /\ \A o \in S : Cardinality(S \ {o}) = Cardinality(S) - 1
<1>1. IsFiniteSet(Offs) /\ Cardinality(Offs) = blocks_per_seg
  BY FS_Interval, SizeAssumption DEF Offs
<1>2. IsFiniteSet(S) /\ Cardinality(S) <= blocks_per_seg
  BY <1>1, FS_Subset
<1>3. Cardinality(S) \in Nat /\ (Cardinality(S) = 0 <=> S = {})
  BY <1>2, FS_CardinalityType, FS_EmptySet
<1>4. \A o \in Offs \ S : Cardinality(S \cup {o}) = Cardinality(S) + 1
  BY <1>2, FS_AddElement
<1>5. \A o \in S : Cardinality(S \ {o}) = Cardinality(S) - 1
  BY <1>2, FS_RemoveElement
<1> QED BY <1>2, <1>3, <1>4, <1>5, SizeAssumption

\* locate_dirty_segment2 adds nothing but the segment it is given.
LEMMA LocateRange ==
  ASSUME NEW flag, NEW pre, NEW dirty, NEW s, NEW v
  PROVE  /\ LocatePre(flag, pre, s, v) \subseteq pre \cup {s}
         /\ LocateDirty(flag, dirty, pre, s, v) \subseteq dirty \cup {s}
BY DEF LocatePre, LocateDirty

\* What locate_dirty_segment2 does to the prefree list, segment by segment.
LEMMA LocatePreEffect ==
  ASSUME MAIN_SEGS <= USHRT_SEGS,
         NEW flag, NEW pre, NEW s \in Segs, NEW v, NEW x
  PROVE  x \in LocatePre(flag, pre, s, v) <=>
           x \in pre \/ (x = s /\ v = 0 /\ s \notin flag)
BY IsCursegExact DEF LocatePre

\* The same for the dirty list.
LEMMA LocateDirtyEffect ==
  ASSUME MAIN_SEGS <= USHRT_SEGS,
         NEW flag, NEW pre, NEW dirty, NEW s \in Segs, NEW v, NEW x
  PROVE  x \in LocateDirty(flag, dirty, pre, s, v) <=>
           IF x # s \/ s \in flag THEN x \in dirty
           ELSE v \in 1 .. blocks_per_seg - 1 /\ (x \in dirty \/ s \notin pre)
BY IsCursegExact DEF LocateDirty

-----------------------------------------------------------------------------
\* A freshly formatted volume satisfies the inductive invariant.
LEMMA InitIInv ==
  ASSUME MAIN_SEGS <= USHRT_SEGS, Init
  PROVE  IInv
<1>1. TypeOK
  <2>1. 0 \in 0 .. blocks_per_seg /\ 0 \in Offs
    BY SizeAssumption DEF Offs
  <2>2. disk_curseg \in [Logs -> CursegType]
    BY <2>1 DEF Init, CursegType
  <2>3. curseg_flag \subseteq Segs
    BY <2>2 DEF Init, CursegType
  <2>4. free_segmap \subseteq Segs /\ DIRTY \subseteq Segs
    BY <2>3 DEF Init, InUseAtMount, DirtyAtMount
  <2> QED BY <2>1, <2>2, <2>3, <2>4 DEF Init, TypeOK
<1>2. LogsOwnSegments
  BY DEF Init, LogsOwnSegments, InUseAtMount
<1>3. SegmentStates
  <2>1. Cardinality({}) = 0
    BY FS_EmptySet
  <2>2. free_segmap = curseg_flag /\ DIRTY = {} /\ PRE = {}
    BY <2>1 DEF Init, InUseAtMount, DirtyAtMount
  <2> QED BY <2>1, <2>2 DEF Init, SegmentStates, Released
<1>4. CkptCurrent /\ DiskCurrent /\ FreeClean
  BY DEF Init, CkptCurrent, DiskCurrent, FreeClean
<1>5. Frontier /\ DiskLogs
  BY <1>1 DEF Init, Frontier, DiskLogs, TypeOK, CursegType
<1>6. ReleasedFree
  BY DEF Init, ReleasedFree, Released
<1> QED BY <1>1, <1>2, <1>3, <1>4, <1>5, <1>6 DEF IInv

\* What advancing a log does: the log stays on its segment at a later offset,
\* or moves to the start of a segment that was free.
LEMMA AdvanceEffect ==
  ASSUME IInv, NEW l \in Logs, AdvanceLog(l)
  PROVE  /\ curseg' \in [Logs -> CursegType]
         /\ free_segmap' \subseteq Segs
         /\ LogsOwnSegments'
         /\ \A m \in Logs : m # l => curseg'[m] = curseg[m]
         /\ \/ /\ curseg'[l].segno = curseg[l].segno
               /\ curseg'[l].next_blkoff > curseg[l].next_blkoff
               /\ curseg_flag' = curseg_flag
               /\ free_segmap' = free_segmap
            \/ /\ curseg'[l].segno \in Segs \ free_segmap
               /\ curseg'[l].segno # curseg[l].segno
               /\ curseg'[l].next_blkoff = 0
               /\ curseg_flag' = (curseg_flag \ {curseg[l].segno}) \cup {curseg'[l].segno}
               /\ free_segmap' = free_segmap \cup {curseg'[l].segno}
<1> USE DEF IInv, TypeOK, LogsOwnSegments
<1>1. curseg[l] \in CursegType /\ curseg[l].segno \in free_segmap
  OBVIOUS
<1>2. PICK hole \in 0 .. max_fragment_hole :
        LET next == curseg[l].next_blkoff + 1 + hole IN
        IF HasCursegSpace(next)
        THEN /\ curseg' = [curseg EXCEPT ![l].next_blkoff = next]
             /\ UNCHANGED <<curseg_flag, free_segmap>>
        ELSE \E s \in Segs : NewCurseg(l, s)
  BY DEF AdvanceLog
<1> DEFINE next == curseg[l].next_blkoff + 1 + hole
<1>3. next \in Nat /\ next > curseg[l].next_blkoff
  BY <1>1, SizeAssumption DEF CursegType, Offs
<1>4. CASE HasCursegSpace(next)
  <2>1. next \in Offs
    BY <1>3, <1>4, SizeAssumption DEF HasCursegSpace, Offs
  <2>2. /\ curseg' = [curseg EXCEPT ![l].next_blkoff = next]
        /\ UNCHANGED <<curseg_flag, free_segmap>>
    BY <1>2, <1>4
  <2>3. \A m \in Logs : curseg'[m].segno = curseg[m].segno
    BY <2>2
  <2>4. curseg' \in [Logs -> CursegType]
    BY <1>1, <2>1, <2>2 DEF CursegType
  <2>5. LogsOwnSegments'
    BY <2>2, <2>3
  <2> QED BY <1>3, <2>2, <2>3, <2>4, <2>5
<1>5. CASE ~HasCursegSpace(next)
  <2>1. PICK s \in Segs : NewCurseg(l, s)
    BY <1>2, <1>5
  <2>2. /\ s \in Segs \ free_segmap
        /\ free_segmap' = free_segmap \cup {s}
        /\ curseg' = [curseg EXCEPT ![l] = [segno |-> s, next_blkoff |-> 0]]
        /\ curseg_flag' = (curseg_flag \ {curseg[l].segno}) \cup {s}
    BY <2>1 DEF NewCurseg
  <2>3. curseg'[l] = [segno |-> s, next_blkoff |-> 0] /\ 0 \in Offs
    BY <2>2, SizeAssumption DEF Offs
  <2>4. \A m \in Logs : m # l => curseg'[m] = curseg[m]
    BY <2>2
  <2>5. curseg' \in [Logs -> CursegType]
    BY <2>2, <2>3 DEF CursegType
  <2>6. LogsOwnSegments'
    <3>1. \A m \in Logs : curseg[m].segno \in free_segmap /\ curseg[m].segno # s
      BY <2>2
    <3>2. \A m, n \in Logs : curseg'[m].segno = curseg'[n].segno => m = n
      BY <2>3, <2>4, <3>1
    <3>3. curseg_flag' = {curseg'[m].segno : m \in Logs}
      BY <2>2, <2>3, <2>4, <3>1
    <3> QED BY <2>2, <3>2, <3>3
  <2> QED BY <1>1, <2>2, <2>3, <2>4, <2>5, <2>6
<1> QED BY <1>4, <1>5

-----------------------------------------------------------------------------
\* Setting a bit adds one to the count of its segment, if it was clear.
LEMMA SetEffect ==
  ASSUME NEW map \in [Segs -> SUBSET Offs], NEW count \in [Segs -> 0 .. blocks_per_seg],
         NEW b \in Blocks,
         \A s \in Segs : count[s] = Cardinality(map[s])
  PROVE  /\ SetValid(map, b) \in [Segs -> SUBSET Offs]
         /\ CountSet(count, map, b) \in [Segs -> 0 .. blocks_per_seg]
         /\ \A s \in Segs :
              /\ s = b[1] => SetValid(map, b)[s] = map[s] \cup {b[2]}
              /\ s # b[1] => SetValid(map, b)[s] = map[s]
              /\ s # b[1] => CountSet(count, map, b)[s] = count[s]
              /\ CountSet(count, map, b)[s] = Cardinality(SetValid(map, b)[s])
         /\ CountSet(count, map, b)[b[1]] # 0
<1>1. b[1] \in Segs /\ b[2] \in Offs
  BY DEF Blocks
<1>2. SetValid(map, b) \in [Segs -> SUBSET Offs]
      /\ \A s \in Segs :
           SetValid(map, b)[s] = IF s = b[1] THEN map[s] \cup {b[2]} ELSE map[s]
  BY <1>1 DEF SetValid
<1>3. \A s \in Segs : CountSet(count, map, b)[s] =
        IF s = b[1] /\ b[2] \notin map[s] THEN count[s] + 1 ELSE count[s]
  BY <1>1 DEF CountSet
<1>4. \A s \in Segs : CountSet(count, map, b)[s] = Cardinality(SetValid(map, b)[s])
  <2> SUFFICES ASSUME NEW s \in Segs
               PROVE  CountSet(count, map, b)[s] = Cardinality(SetValid(map, b)[s])
    OBVIOUS
  <2>1. CASE s = b[1] /\ b[2] \notin map[s]
    <3>1. map[s] \in SUBSET Offs /\ b[2] \in Offs \ map[s]
      BY <1>1, <2>1
    <3>2. Cardinality(map[s] \cup {b[2]}) = Cardinality(map[s]) + 1
      BY <3>1, MapCount
    <3> QED BY <1>2, <1>3, <2>1, <3>2
  <2>2. CASE ~(s = b[1] /\ b[2] \notin map[s])
    <3>1. SetValid(map, b)[s] = map[s]
      BY <1>2, <2>2
    <3> QED BY <1>3, <2>2, <3>1
  <2> QED BY <2>1, <2>2
<1>5. \A s \in Segs : CountSet(count, map, b)[s] \in 0 .. blocks_per_seg
  BY <1>2, <1>4, MapCount
<1>6. CountSet(count, map, b) \in [Segs -> 0 .. blocks_per_seg]
  BY <1>5 DEF CountSet
<1>7. CountSet(count, map, b)[b[1]] # 0
  <2>1. SetValid(map, b)[b[1]] \in SUBSET Offs /\ SetValid(map, b)[b[1]] # {}
    BY <1>1, <1>2
  <2> QED BY <1>1, <1>4, <2>1, MapCount
<1> QED BY <1>2, <1>3, <1>4, <1>6, <1>7

\* Clearing a bit that is set takes one off the count of its segment.
LEMMA ClearEffect ==
  ASSUME NEW map \in [Segs -> SUBSET Offs], NEW count \in [Segs -> 0 .. blocks_per_seg],
         NEW b \in Blocks, b[2] \in map[b[1]],
         \A s \in Segs : count[s] = Cardinality(map[s])
  PROVE  /\ ClearValid(map, b) \in [Segs -> SUBSET Offs]
         /\ CountClear(count, map, b) \in [Segs -> 0 .. blocks_per_seg]
         /\ \A s \in Segs :
              /\ s = b[1] => ClearValid(map, b)[s] = map[s] \ {b[2]}
              /\ s # b[1] => ClearValid(map, b)[s] = map[s]
              /\ s # b[1] => CountClear(count, map, b)[s] = count[s]
              /\ CountClear(count, map, b)[s] = Cardinality(ClearValid(map, b)[s])
<1>1. b[1] \in Segs /\ b[2] \in Offs
  BY DEF Blocks
<1>2. ClearValid(map, b) \in [Segs -> SUBSET Offs]
      /\ \A s \in Segs :
           ClearValid(map, b)[s] = IF s = b[1] THEN map[s] \ {b[2]} ELSE map[s]
  BY <1>1 DEF ClearValid
<1>3. \A s \in Segs :
        CountClear(count, map, b)[s] = IF s = b[1] THEN count[s] - 1 ELSE count[s]
  BY <1>1 DEF CountClear
<1>4. Cardinality(map[b[1]] \ {b[2]}) = Cardinality(map[b[1]]) - 1
      /\ Cardinality(map[b[1]] \ {b[2]}) \in 0 .. blocks_per_seg
  <2>1. map[b[1]] \in SUBSET Offs /\ map[b[1]] \ {b[2]} \in SUBSET Offs
    BY <1>1
  <2> QED BY <2>1, MapCount
<1>5. \A s \in Segs : CountClear(count, map, b)[s] = Cardinality(ClearValid(map, b)[s])
                       /\ CountClear(count, map, b)[s] \in 0 .. blocks_per_seg
  BY <1>1, <1>2, <1>3, <1>4
<1>6. CountClear(count, map, b) \in [Segs -> 0 .. blocks_per_seg]
  BY <1>5 DEF CountClear
<1> QED BY <1>2, <1>3, <1>5, <1>6

\* Allocation of a block without a predecessor keeps the invariant.
LEMMA AllocateNewIInv ==
  ASSUME MAIN_SEGS <= USHRT_SEGS, IInv, NEW l \in Logs, AllocateNew(l)
  PROVE  IInv'
<1> DEFINE segno == curseg[l].segno
           off   == curseg[l].next_blkoff
           new   == <<segno, off>>
           valid == CountSet(valid_blocks, cur_valid_map, new)
           closed == curseg'[l].segno # segno
<1>1. /\ Running
      /\ AdvanceLog(l)
      /\ cur_valid_map' = SetValid(cur_valid_map, new)
      /\ valid_blocks' = valid
      /\ dirty_sentries' =
           dirty_sentries \cup {segno} \cup (IF closed THEN {curseg'[l].segno} ELSE {})
      /\ PRE' = IF closed THEN LocatePre(curseg_flag', PRE, segno, valid[segno]) ELSE PRE
      /\ DIRTY' = IF closed
                  THEN LocateDirty(curseg_flag', DIRTY, PRE, segno, valid[segno])
                  ELSE DIRTY
      /\ UNCHANGED <<raw_valid_map, cp, cp_error, complete, mounted,
                      disk_valid_map, disk_curseg>>
  BY DEF AllocateNew, cpVars, diskVars
<1>2. segno \in Segs /\ off \in Offs /\ segno \in curseg_flag /\ segno \in free_segmap
  BY DEF IInv, TypeOK, CursegType, LogsOwnSegments
<1>3. /\ curseg' \in [Logs -> CursegType]
      /\ free_segmap' \subseteq Segs
      /\ LogsOwnSegments'
      /\ \A m \in Logs : m # l => curseg'[m] = curseg[m]
      /\ \/ /\ ~closed
            /\ curseg'[l].next_blkoff > off
            /\ curseg_flag' = curseg_flag
            /\ free_segmap' = free_segmap
         \/ /\ curseg'[l].segno \in Segs \ free_segmap
            /\ closed
            /\ curseg'[l].next_blkoff = 0
            /\ curseg_flag' = (curseg_flag \ {segno}) \cup {curseg'[l].segno}
            /\ free_segmap' = free_segmap \cup {curseg'[l].segno}
  BY <1>1, AdvanceEffect
<1>4. /\ cur_valid_map' \in [Segs -> SUBSET Offs]
      /\ valid \in [Segs -> 0 .. blocks_per_seg]
      /\ \A s \in Segs :
           /\ s = segno => cur_valid_map'[s] = cur_valid_map[s] \cup {off}
           /\ s # segno => cur_valid_map'[s] = cur_valid_map[s]
           /\ s # segno => valid[s] = valid_blocks[s]
           /\ valid[s] = Cardinality(cur_valid_map'[s])
      /\ valid[segno] # 0
  <2>1. /\ cur_valid_map \in [Segs -> SUBSET Offs]
        /\ valid_blocks \in [Segs -> 0 .. blocks_per_seg]
        /\ \A s \in Segs : valid_blocks[s] = Cardinality(cur_valid_map[s])
    BY DEF IInv, TypeOK, SegmentStates
  <2>2. new \in Blocks /\ new[1] = segno /\ new[2] = off
    BY <1>2 DEF Blocks
  <2>3. cur_valid_map' = SetValid(cur_valid_map, new)
    BY <1>1
  <2> HIDE DEF new
  <2> QED BY <2>1, <2>2, <2>3, SetEffect
<1>5. \A s \in Segs : s \in PRE' <=> s \in PRE
  <2>1. valid[segno] # 0
    BY <1>4
  <2>2. PRE' = IF closed THEN LocatePre(curseg_flag', PRE, segno, valid[segno]) ELSE PRE
    BY <1>1
  <2> HIDE DEF valid, closed, segno
  <2>3. LocatePre(curseg_flag', PRE, segno, valid[segno]) = PRE
    BY <2>1 DEF LocatePre
  <2> QED BY <2>2, <2>3
<1>6. \A s \in Segs : s \in DIRTY' <=>
         IF closed /\ s = segno
         THEN valid[s] \in 1 .. blocks_per_seg - 1 ELSE s \in DIRTY
  <2>1. segno \notin PRE /\ segno \notin DIRTY
    BY <1>1, <1>2 DEF IInv, SegmentStates, Released, Running
  <2>2. closed => segno \notin curseg_flag'
    BY <1>3
  <2> QED BY <1>1, <1>2, <2>1, <2>2, LocateDirtyEffect
<1>7. TypeOK'
  <2>1. PRE' \subseteq Segs /\ DIRTY' \subseteq Segs
    BY <1>1, <1>2, LocateRange DEF IInv, TypeOK
  <2>2. dirty_sentries' \subseteq Segs
    BY <1>1, <1>2, <1>3 DEF IInv, TypeOK
  <2>3. curseg_flag' \subseteq Segs
    BY <1>3 DEF LogsOwnSegments
  <2> QED BY <1>1, <1>3, <1>4, <2>1, <2>2, <2>3 DEF IInv, TypeOK
<1>8. SegmentStates'
  <2>1. Released = {} /\ Released' = {}
    BY <1>1 DEF Released, Running
  <2> SUFFICES ASSUME NEW s \in Segs
               PROVE  /\ valid[s] = Cardinality(cur_valid_map'[s])
                      /\ s \notin free_segmap' => cur_valid_map'[s] = {}
                      /\ s \in DIRTY' <=> /\ s \in free_segmap' \ curseg_flag'
                                          /\ valid[s] \in 1 .. blocks_per_seg - 1
                      /\ s \in PRE' <=> s \in free_segmap' \ curseg_flag' /\ valid[s] = 0
    BY <1>1, <2>1 DEF SegmentStates
  <2>2. /\ s \notin free_segmap => cur_valid_map[s] = {}
        /\ s \in DIRTY <=> /\ s \in free_segmap \ curseg_flag
                           /\ valid_blocks[s] \in 1 .. blocks_per_seg - 1
        /\ s \in PRE <=> s \in free_segmap \ curseg_flag /\ valid_blocks[s] = 0
    BY <2>1 DEF IInv, SegmentStates
  <2>3. s = segno => s \in free_segmap /\ s \in curseg_flag /\ s \in free_segmap'
    BY <1>2, <1>3
  <2> QED BY <1>3, <1>4, <1>5, <1>6, <2>2, <2>3
<1>9. CkptCurrent'
  BY <1>1, <1>4 DEF IInv, CkptCurrent
<1>10. DiskCurrent' /\ DiskLogs' /\ ReleasedFree'
  BY <1>1 DEF IInv, DiskCurrent, DiskLogs, Running, ReleasedFree, Released
<1>11. FreeClean'
  BY <1>1, <1>3 DEF IInv, FreeClean
<1>12. Frontier'
  <2> SUFFICES ASSUME complete, NEW m \in Logs, NEW o \in Offs,
                      o >= curseg'[m].next_blkoff
               PROVE  /\ o \notin cur_valid_map'[curseg'[m].segno]
                      /\ o \notin raw_valid_map[curseg'[m].segno]
    BY <1>1 DEF Frontier
  <2>1. CASE m # l
    <3>1. curseg'[m] = curseg[m] /\ curseg[m].segno # segno /\ curseg[m].segno \in Segs
      BY <1>3, <2>1 DEF IInv, LogsOwnSegments, TypeOK, CursegType
    <3> QED BY <1>4, <3>1 DEF IInv, Frontier
  <2>2. CASE m = l /\ ~closed
    <3>1. o > off /\ o # off
      BY <1>2, <1>3, <2>2, SizeAssumption DEF Offs, CursegType
    <3>2. o \notin cur_valid_map[segno] /\ o \notin raw_valid_map[segno]
      BY <1>2, <3>1 DEF IInv, Frontier, Offs
    <3> HIDE DEF off
    <3> QED BY <1>2, <1>4, <2>2, <3>1, <3>2
  <2>3. CASE m = l /\ closed
    <3>1. curseg'[l].segno \in Segs \ free_segmap
      BY <1>3, <2>3
    <3>2. cur_valid_map[curseg'[l].segno] = {} /\ raw_valid_map[curseg'[l].segno] = {}
      BY <3>1 DEF IInv, SegmentStates, FreeClean
    <3> QED BY <1>4, <2>3, <3>1, <3>2
  <2> QED BY <2>1, <2>2, <2>3
<1> QED BY <1>3, <1>7, <1>8, <1>9, <1>10, <1>11, <1>12 DEF IInv

-----------------------------------------------------------------------------
\* Moving a block to the head of a log keeps the invariant.
LEMMA AllocateOverIInv ==
  ASSUME MAIN_SEGS <= USHRT_SEGS, IInv, NEW l \in Logs, NEW old \in Blocks,
         AllocateOver(l, old)
  PROVE  IInv'
<1> DEFINE segno  == curseg[l].segno
           off    == curseg[l].next_blkoff
           new    == <<segno, off>>
           map1   == SetValid(cur_valid_map, new)
           valid1 == CountSet(valid_blocks, cur_valid_map, new)
           valid2 == CountClear(valid1, map1, old)
           closed == curseg'[l].segno # segno
           pre1   == IF closed
                     THEN LocatePre(curseg_flag', PRE, segno, valid1[segno]) ELSE PRE
           dirty1 == IF closed
                     THEN LocateDirty(curseg_flag', DIRTY, PRE, segno, valid1[segno])
                     ELSE DIRTY
           relocate == /\ ~IS_CURSEG(curseg_flag', old[1])
                       /\ old[1] \notin pre1 \/ valid2[old[1]] = 0
<1>1. /\ Running
      /\ old[2] \in cur_valid_map[old[1]]
      /\ AdvanceLog(l)
      /\ cur_valid_map' = ClearValid(map1, old)
      /\ valid_blocks' = valid2
      /\ dirty_sentries' = dirty_sentries \cup {segno, old[1]}
                             \cup (IF closed THEN {curseg'[l].segno} ELSE {})
      /\ PRE' = IF relocate
                THEN LocatePre(curseg_flag', pre1, old[1], valid2[old[1]]) ELSE pre1
      /\ DIRTY' = IF relocate
                  THEN LocateDirty(curseg_flag', dirty1, pre1, old[1], valid2[old[1]])
                  ELSE dirty1
      /\ UNCHANGED <<raw_valid_map, cp, cp_error, complete, mounted,
                      disk_valid_map, disk_curseg>>
  BY DEF AllocateOver, cpVars, diskVars
<1>2. /\ segno \in Segs /\ off \in Offs /\ segno \in curseg_flag /\ segno \in free_segmap
      /\ old[1] \in Segs /\ old[2] \in Offs
  BY DEF IInv, TypeOK, CursegType, LogsOwnSegments, Blocks
<1>3. /\ curseg' \in [Logs -> CursegType]
      /\ free_segmap' \subseteq Segs
      /\ LogsOwnSegments'
      /\ \A m \in Logs : m # l => curseg'[m] = curseg[m]
      /\ \/ /\ ~closed
            /\ curseg'[l].next_blkoff > off
            /\ curseg_flag' = curseg_flag
            /\ free_segmap' = free_segmap
         \/ /\ curseg'[l].segno \in Segs \ free_segmap
            /\ closed
            /\ curseg'[l].next_blkoff = 0
            /\ curseg_flag' = (curseg_flag \ {segno}) \cup {curseg'[l].segno}
            /\ free_segmap' = free_segmap \cup {curseg'[l].segno}
  BY <1>1, AdvanceEffect
<1>4. /\ map1 \in [Segs -> SUBSET Offs]
      /\ valid1 \in [Segs -> 0 .. blocks_per_seg]
      /\ \A s \in Segs :
           /\ s = segno => map1[s] = cur_valid_map[s] \cup {off}
           /\ s # segno => map1[s] = cur_valid_map[s]
           /\ s # segno => valid1[s] = valid_blocks[s]
           /\ valid1[s] = Cardinality(map1[s])
      /\ valid1[segno] # 0
  <2>1. /\ cur_valid_map \in [Segs -> SUBSET Offs]
        /\ valid_blocks \in [Segs -> 0 .. blocks_per_seg]
        /\ \A s \in Segs : valid_blocks[s] = Cardinality(cur_valid_map[s])
    BY DEF IInv, TypeOK, SegmentStates
  <2>2. new \in Blocks /\ new[1] = segno /\ new[2] = off
    BY <1>2 DEF Blocks
  <2> HIDE DEF new, segno, off
  <2>3. /\ SetValid(cur_valid_map, new) \in [Segs -> SUBSET Offs]
        /\ CountSet(valid_blocks, cur_valid_map, new) \in [Segs -> 0 .. blocks_per_seg]
        /\ \A s \in Segs :
             /\ s = new[1] => SetValid(cur_valid_map, new)[s] = cur_valid_map[s] \cup {new[2]}
             /\ s # new[1] => SetValid(cur_valid_map, new)[s] = cur_valid_map[s]
             /\ s # new[1] => CountSet(valid_blocks, cur_valid_map, new)[s] = valid_blocks[s]
             /\ CountSet(valid_blocks, cur_valid_map, new)[s]
                  = Cardinality(SetValid(cur_valid_map, new)[s])
        /\ CountSet(valid_blocks, cur_valid_map, new)[new[1]] # 0
    BY <2>1, <2>2, SetEffect
  <2> QED BY <2>2, <2>3
<1>5. /\ cur_valid_map' \in [Segs -> SUBSET Offs]
      /\ valid2 \in [Segs -> 0 .. blocks_per_seg]
      /\ \A s \in Segs :
           /\ s = old[1] => cur_valid_map'[s] = map1[s] \ {old[2]}
           /\ s # old[1] => cur_valid_map'[s] = map1[s]
           /\ s # old[1] => valid2[s] = valid1[s]
           /\ valid2[s] = Cardinality(cur_valid_map'[s])
  <2>1. old[2] \in map1[old[1]]
    BY <1>1, <1>2, <1>4
  <2>2. cur_valid_map' = ClearValid(map1, old)
    BY <1>1
  <2>3. \A s \in Segs : valid1[s] = Cardinality(map1[s])
    BY <1>4
  <2> HIDE DEF map1, valid1
  <2>4. /\ ClearValid(map1, old) \in [Segs -> SUBSET Offs]
        /\ CountClear(valid1, map1, old) \in [Segs -> 0 .. blocks_per_seg]
        /\ \A s \in Segs :
             /\ s = old[1] => ClearValid(map1, old)[s] = map1[s] \ {old[2]}
             /\ s # old[1] => ClearValid(map1, old)[s] = map1[s]
             /\ s # old[1] => CountClear(valid1, map1, old)[s] = valid1[s]
             /\ CountClear(valid1, map1, old)[s] = Cardinality(ClearValid(map1, old)[s])
    BY <1>4, <2>1, <2>3, ClearEffect
  <2> QED BY <2>2, <2>4
<1>6. old[1] \in free_segmap /\ old[1] \notin PRE
  <2>1. cur_valid_map[old[1]] \in SUBSET Offs /\ cur_valid_map[old[1]] # {}
    BY <1>1, <1>2 DEF IInv, TypeOK
  <2>2. valid_blocks[old[1]] # 0
    <3>1. Cardinality(cur_valid_map[old[1]]) # 0
      BY <2>1, MapCount
    <3>2. valid_blocks[old[1]] = Cardinality(cur_valid_map[old[1]])
      BY <1>2 DEF IInv, SegmentStates
    <3> QED BY <3>1, <3>2
  <2> QED BY <1>1, <1>2, <2>1, <2>2 DEF IInv, SegmentStates, Running, Released
<1> HIDE DEF valid1, valid2, map1
<1>7. \A s \in Segs : s \in pre1 <=> s \in PRE
  <2>1. LocatePre(curseg_flag', PRE, segno, valid1[segno]) = PRE
    BY <1>4 DEF LocatePre
  <2> QED BY <2>1
<1>8. \A s \in Segs : s \in dirty1 <=>
         IF closed /\ s = segno
         THEN valid1[s] \in 1 .. blocks_per_seg - 1 ELSE s \in DIRTY
  <2>1. segno \notin PRE /\ segno \notin DIRTY
    BY <1>1, <1>2 DEF IInv, SegmentStates, Released, Running
  <2>2. closed => segno \notin curseg_flag'
    BY <1>3
  <2> QED BY <1>2, <2>1, <2>2, LocateDirtyEffect
<1>9. pre1 \subseteq Segs /\ dirty1 \subseteq Segs
  <2>1. PRE \subseteq Segs /\ DIRTY \subseteq Segs
    BY DEF IInv, TypeOK
  <2>2. /\ LocatePre(curseg_flag', PRE, segno, valid1[segno]) \subseteq PRE \cup {segno}
        /\ LocateDirty(curseg_flag', DIRTY, PRE, segno, valid1[segno])
             \subseteq DIRTY \cup {segno}
    BY DEF LocatePre, LocateDirty
  <2> QED BY <1>2, <2>1, <2>2
<1>10. relocate <=> old[1] \notin curseg_flag'
  BY <1>2, <1>6, <1>7, IsCursegExact
<1> HIDE DEF pre1, dirty1, relocate
<1>11. \A s \in Segs : s \in PRE' <=>
         s \in PRE \/ (s = old[1] /\ s \notin curseg_flag' /\ valid2[s] = 0)
  <2>1. CASE old[1] \in curseg_flag'
    BY <1>1, <1>7, <1>10, <2>1
  <2>2. CASE old[1] \notin curseg_flag'
    <3>1. PRE' = LocatePre(curseg_flag', pre1, old[1], valid2[old[1]])
      BY <1>1, <1>10, <2>2
    <3>2. \A s : s \in PRE' <=>
            s \in pre1 \/ (s = old[1] /\ valid2[old[1]] = 0 /\ old[1] \notin curseg_flag')
      BY <1>2, <3>1, LocatePreEffect
    <3> QED BY <1>7, <3>2
  <2> QED BY <2>1, <2>2
<1>12. \A s \in Segs : s \in DIRTY' <=>
         IF s # old[1] \/ s \in curseg_flag' THEN s \in dirty1
         ELSE valid2[s] \in 1 .. blocks_per_seg - 1
  <2>1. old[1] \notin pre1
    BY <1>2, <1>6, <1>7
  <2>2. CASE old[1] \in curseg_flag'
    BY <1>1, <1>10, <2>2
  <2>3. CASE old[1] \notin curseg_flag'
    <3>1. DIRTY' = LocateDirty(curseg_flag', dirty1, pre1, old[1], valid2[old[1]])
      BY <1>1, <1>10, <2>3
    <3> QED BY <1>2, <2>1, <2>3, <3>1, LocateDirtyEffect
  <2> QED BY <2>2, <2>3
<1>13. TypeOK'
  <2>1. PRE' \subseteq Segs /\ DIRTY' \subseteq Segs
    <3>1. /\ LocatePre(curseg_flag', pre1, old[1], valid2[old[1]]) \subseteq pre1 \cup {old[1]}
          /\ LocateDirty(curseg_flag', dirty1, pre1, old[1], valid2[old[1]])
               \subseteq dirty1 \cup {old[1]}
      BY DEF LocatePre, LocateDirty
    <3>2. PRE' \subseteq pre1 \cup {old[1]} /\ DIRTY' \subseteq dirty1 \cup {old[1]}
      BY <1>1, <3>1
    <3> QED BY <1>2, <1>9, <3>2
  <2>2. dirty_sentries' \subseteq Segs
    BY <1>1, <1>2, <1>3 DEF IInv, TypeOK
  <2>3. curseg_flag' \subseteq Segs
    BY <1>3 DEF LogsOwnSegments
  <2> QED BY <1>1, <1>3, <1>5, <2>1, <2>2, <2>3 DEF IInv, TypeOK
<1>14. SegmentStates'
  <2>1. Released = {} /\ Released' = {}
    BY <1>1 DEF Released, Running
  <2> SUFFICES ASSUME NEW s \in Segs
               PROVE  /\ valid2[s] = Cardinality(cur_valid_map'[s])
                      /\ s \notin free_segmap' => cur_valid_map'[s] = {}
                      /\ s \in DIRTY' <=> /\ s \in free_segmap' \ curseg_flag'
                                          /\ valid2[s] \in 1 .. blocks_per_seg - 1
                      /\ s \in PRE' <=> s \in free_segmap' \ curseg_flag' /\ valid2[s] = 0
    BY <1>1, <2>1 DEF SegmentStates
  <2>2. /\ s \notin free_segmap => cur_valid_map[s] = {}
        /\ s \in DIRTY <=> /\ s \in free_segmap \ curseg_flag
                           /\ valid_blocks[s] \in 1 .. blocks_per_seg - 1
        /\ s \in PRE <=> s \in free_segmap \ curseg_flag /\ valid_blocks[s] = 0
    BY <2>1 DEF IInv, SegmentStates
  <2>3. s = segno => s \in free_segmap /\ s \in curseg_flag /\ s \in free_segmap'
    BY <1>2, <1>3
  <2>4. CASE s = old[1]
    BY <1>2, <1>3, <1>5, <1>6, <1>8, <1>11, <1>12, <2>2, <2>3, <2>4
  <2>5. CASE s # old[1]
    <3>1. /\ cur_valid_map'[s] = map1[s] /\ valid2[s] = valid1[s]
          /\ valid2[s] = Cardinality(cur_valid_map'[s])
          /\ s \in DIRTY' <=> s \in dirty1
          /\ s \in PRE' <=> s \in PRE
      BY <1>5, <1>11, <1>12, <2>5
    <3>2. CASE s = segno
      BY <1>3, <1>4, <1>8, <2>2, <2>3, <3>1, <3>2
    <3>3. CASE s # segno
      <4>1. map1[s] = cur_valid_map[s] /\ valid1[s] = valid_blocks[s]
            /\ (s \in DIRTY' <=> s \in DIRTY)
        BY <1>4, <1>8, <3>1, <3>3
      <4> QED BY <1>3, <2>2, <3>1, <3>3, <4>1
    <3> QED BY <3>2, <3>3
  <2> QED BY <2>4, <2>5
<1>15. CkptCurrent'
  <2> SUFFICES ASSUME NEW s \in Segs, s \notin dirty_sentries'
               PROVE  raw_valid_map[s] = cur_valid_map'[s]
    BY <1>1 DEF CkptCurrent
  <2>1. s \notin dirty_sentries /\ s # segno /\ s # old[1]
    BY <1>1
  <2>2. raw_valid_map[s] = cur_valid_map[s]
    BY <2>1 DEF IInv, CkptCurrent
  <2> QED BY <1>4, <1>5, <2>1, <2>2
<1>16. DiskCurrent' /\ DiskLogs' /\ ReleasedFree'
  BY <1>1 DEF IInv, DiskCurrent, DiskLogs, Running, ReleasedFree, Released
<1>17. FreeClean'
  BY <1>1, <1>3 DEF IInv, FreeClean
<1>18. Frontier'
  <2> SUFFICES ASSUME complete, NEW m \in Logs, NEW o \in Offs,
                      o >= curseg'[m].next_blkoff
               PROVE  /\ o \notin map1[curseg'[m].segno]
                      /\ o \notin raw_valid_map[curseg'[m].segno]
    <3>1. \A m \in Logs : curseg'[m].segno \in Segs
      BY <1>3 DEF CursegType
    <3> QED BY <1>1, <1>5, <3>1 DEF Frontier
  <2>1. CASE m # l
    <3>1. curseg'[m] = curseg[m] /\ curseg[m].segno # segno /\ curseg[m].segno \in Segs
      BY <1>3, <2>1 DEF IInv, LogsOwnSegments, TypeOK, CursegType
    <3> QED BY <1>4, <3>1 DEF IInv, Frontier
  <2>2. CASE m = l /\ ~closed
    <3>1. o > off /\ o # off
      BY <1>2, <1>3, <2>2, SizeAssumption DEF Offs, CursegType
    <3>2. o \notin cur_valid_map[segno] /\ o \notin raw_valid_map[segno]
      BY <1>2, <3>1 DEF IInv, Frontier, Offs
    <3> HIDE DEF off
    <3> QED BY <1>2, <1>4, <2>2, <3>1, <3>2
  <2>3. CASE m = l /\ closed
    <3>1. curseg'[l].segno \in Segs \ free_segmap
      BY <1>3, <2>3
    <3>2. cur_valid_map[curseg'[l].segno] = {} /\ raw_valid_map[curseg'[l].segno] = {}
      BY <3>1 DEF IInv, SegmentStates, FreeClean
    <3> QED BY <1>4, <2>3, <3>1, <3>2
  <2> QED BY <2>1, <2>2, <2>3
<1> QED BY <1>3, <1>13, <1>14, <1>15, <1>16, <1>17, <1>18 DEF IInv

\* Invalidation of a block keeps the invariant.
LEMMA InvalidateIInv ==
  ASSUME MAIN_SEGS <= USHRT_SEGS, IInv, NEW b \in Blocks, InvalidateBlocks(b)
  PROVE  IInv'
<1> DEFINE map   == ClearValid(cur_valid_map, b)
           valid == CountClear(valid_blocks, cur_valid_map, b)
           locate == /\ ~IS_CURSEG(curseg_flag, b[1])
                     /\ b[1] \notin PRE \/ valid[b[1]] = 0
<1>1. /\ Running
      /\ b[2] \in cur_valid_map[b[1]]
      /\ cur_valid_map' = map
      /\ valid_blocks' = valid
      /\ dirty_sentries' = dirty_sentries \cup {b[1]}
      /\ PRE' = IF locate THEN LocatePre(curseg_flag, PRE, b[1], valid[b[1]]) ELSE PRE
      /\ DIRTY' = IF locate
                  THEN LocateDirty(curseg_flag, DIRTY, PRE, b[1], valid[b[1]])
                  ELSE DIRTY
      /\ UNCHANGED <<raw_valid_map, curseg, curseg_flag, free_segmap, cp, cp_error,
                      complete, mounted, disk_valid_map, disk_curseg>>
  BY DEF InvalidateBlocks, logVars, cpVars, diskVars
<1>2. b[1] \in Segs /\ b[2] \in Offs
  BY DEF Blocks
<1>3. /\ map \in [Segs -> SUBSET Offs]
      /\ valid \in [Segs -> 0 .. blocks_per_seg]
      /\ \A s \in Segs :
           /\ s = b[1] => map[s] = cur_valid_map[s] \ {b[2]}
           /\ s # b[1] => map[s] = cur_valid_map[s]
           /\ s # b[1] => valid[s] = valid_blocks[s]
           /\ valid[s] = Cardinality(map[s])
  <2>1. /\ cur_valid_map \in [Segs -> SUBSET Offs]
        /\ valid_blocks \in [Segs -> 0 .. blocks_per_seg]
        /\ \A s \in Segs : valid_blocks[s] = Cardinality(cur_valid_map[s])
    BY DEF IInv, TypeOK, SegmentStates
  <2>2. b[2] \in cur_valid_map[b[1]]
    BY <1>1
  <2> QED BY <2>1, <2>2, ClearEffect
<1>4. valid_blocks[b[1]] # 0 /\ b[1] \in free_segmap /\ b[1] \notin PRE
  <2>1. cur_valid_map[b[1]] \in SUBSET Offs /\ cur_valid_map[b[1]] # {}
    BY <1>1, <1>2 DEF IInv, TypeOK
  <2>2. valid_blocks[b[1]] # 0
    <3>1. Cardinality(cur_valid_map[b[1]]) # 0
      BY <2>1, MapCount
    <3>2. valid_blocks[b[1]] = Cardinality(cur_valid_map[b[1]])
      BY <1>2 DEF IInv, SegmentStates
    <3> QED BY <3>1, <3>2
  <2> QED BY <1>1, <1>2, <2>1, <2>2 DEF IInv, SegmentStates, Running, Released
<1>5. locate <=> b[1] \notin curseg_flag
  BY <1>2, <1>4, IsCursegExact
<1>14. /\ PRE' = IF b[1] \in curseg_flag THEN PRE
                 ELSE LocatePre(curseg_flag, PRE, b[1], valid[b[1]])
       /\ DIRTY' = IF b[1] \in curseg_flag THEN DIRTY
                   ELSE LocateDirty(curseg_flag, DIRTY, PRE, b[1], valid[b[1]])
  <2> HIDE DEF locate, valid
  <2> QED BY <1>1, <1>5
<1>6. \A s \in Segs : s \in PRE' <=>
         s \in PRE \/ (s = b[1] /\ s \notin curseg_flag /\ valid[s] = 0)
  <2> HIDE DEF locate, map, valid
  <2> SUFFICES ASSUME NEW s \in Segs
               PROVE  s \in PRE' <=>
                        s \in PRE \/ (s = b[1] /\ s \notin curseg_flag /\ valid[s] = 0)
    OBVIOUS
  <2>1. s \in LocatePre(curseg_flag, PRE, b[1], valid[b[1]]) <=>
          s \in PRE \/ (s = b[1] /\ valid[b[1]] = 0 /\ b[1] \notin curseg_flag)
    BY <1>2, LocatePreEffect
  <2> QED BY <1>14, <2>1
<1>7. \A s \in Segs : s \in DIRTY' <=>
         IF s # b[1] \/ s \in curseg_flag THEN s \in DIRTY
         ELSE valid[s] \in 1 .. blocks_per_seg - 1
  <2> HIDE DEF locate, map, valid
  <2> SUFFICES ASSUME NEW s \in Segs
               PROVE  s \in DIRTY' <=>
                        IF s # b[1] \/ s \in curseg_flag THEN s \in DIRTY
                        ELSE valid[s] \in 1 .. blocks_per_seg - 1
    OBVIOUS
  <2>1. s \in LocateDirty(curseg_flag, DIRTY, PRE, b[1], valid[b[1]]) <=>
          IF s # b[1] \/ b[1] \in curseg_flag THEN s \in DIRTY
          ELSE valid[b[1]] \in 1 .. blocks_per_seg - 1 /\ (s \in DIRTY \/ b[1] \notin PRE)
    BY <1>2, LocateDirtyEffect
  <2> QED BY <1>4, <1>14, <2>1
<1>8. TypeOK'
  <2>1. PRE' \subseteq Segs /\ DIRTY' \subseteq Segs
    <3> HIDE DEF locate, map, valid
    <3>1. PRE \subseteq Segs /\ DIRTY \subseteq Segs
      BY DEF IInv, TypeOK
    <3>2. /\ LocatePre(curseg_flag, PRE, b[1], valid[b[1]]) \subseteq PRE \cup {b[1]}
          /\ LocateDirty(curseg_flag, DIRTY, PRE, b[1], valid[b[1]]) \subseteq DIRTY \cup {b[1]}
      BY DEF LocatePre, LocateDirty
    <3> QED BY <1>2, <1>14, <3>1, <3>2
  <2> QED BY <1>1, <1>2, <1>3, <2>1 DEF IInv, TypeOK
<1>9. LogsOwnSegments'
  BY <1>1 DEF IInv, LogsOwnSegments
<1>10. SegmentStates'
  <2>1. Released = {} /\ Released' = {}
    BY <1>1 DEF Released, Running
  <2> SUFFICES ASSUME NEW s \in Segs
               PROVE  /\ valid[s] = Cardinality(map[s])
                      /\ s \notin free_segmap => map[s] = {}
                      /\ s \in DIRTY' <=> /\ s \in free_segmap \ curseg_flag
                                          /\ valid[s] \in 1 .. blocks_per_seg - 1
                      /\ s \in PRE' <=> s \in free_segmap \ curseg_flag /\ valid[s] = 0
    BY <1>1, <2>1 DEF SegmentStates
  <2>2. /\ s \notin free_segmap => cur_valid_map[s] = {}
        /\ s \in DIRTY <=> /\ s \in free_segmap \ curseg_flag
                           /\ valid_blocks[s] \in 1 .. blocks_per_seg - 1
        /\ s \in PRE <=> s \in free_segmap \ curseg_flag /\ valid_blocks[s] = 0
    BY <2>1 DEF IInv, SegmentStates
  <2> HIDE DEF map, valid
  <2> QED BY <1>3, <1>4, <1>6, <1>7, <2>2
<1>11. CkptCurrent'
  BY <1>1, <1>3 DEF IInv, CkptCurrent
<1>12. DiskCurrent' /\ DiskLogs' /\ FreeClean' /\ ReleasedFree'
  BY <1>1 DEF IInv, DiskCurrent, DiskLogs, FreeClean, Running, ReleasedFree, Released
<1>13. Frontier'
  <2>1. \A m \in Logs : curseg[m].segno \in Segs
    BY DEF IInv, TypeOK, CursegType
  <2>2. \A s \in Segs : map[s] \subseteq cur_valid_map[s]
    BY <1>3
  <2> HIDE DEF map
  <2> QED BY <1>1, <2>1, <2>2 DEF IInv, Frontier
<1> QED BY <1>8, <1>9, <1>10, <1>11, <1>12, <1>13 DEF IInv

-----------------------------------------------------------------------------
\* Flushing the SIT and handing back the prefree segments keeps the invariant.
LEMMA FlushIInv ==
  ASSUME IInv, NEW left \in SUBSET Segs, FlushSitEntries(left)
  PROVE  IInv'
<1>1. /\ Running
      /\ raw_valid_map' =
           [s \in Segs |-> IF s \in left THEN raw_valid_map[s] ELSE cur_valid_map[s]]
      /\ dirty_sentries' = left
      /\ complete' = (complete /\ left = {})
      /\ free_segmap' = free_segmap \ PRE
      /\ cp' = "flushed"
      /\ UNCHANGED <<cur_valid_map, valid_blocks, curseg, curseg_flag, DIRTY, PRE,
                      cp_error, mounted, disk_valid_map, disk_curseg>>
  BY DEF FlushSitEntries, logVars, diskVars
<1>2. Released = {} /\ Released' = PRE
  BY <1>1 DEF Running, Released
<1>3. \A s \in Segs : s \in PRE <=> s \in free_segmap \ curseg_flag /\ valid_blocks[s] = 0
  BY <1>2 DEF IInv, SegmentStates
<1>4. \A s \in PRE : cur_valid_map[s] = {}
  <2> SUFFICES ASSUME NEW s \in PRE PROVE cur_valid_map[s] = {}
    OBVIOUS
  <2>1. s \in Segs /\ cur_valid_map[s] \in SUBSET Offs
    BY DEF IInv, TypeOK
  <2>2. Cardinality(cur_valid_map[s]) = 0
    BY <1>3, <2>1 DEF IInv, SegmentStates
  <2> QED BY <2>1, <2>2, MapCount
<1>5. TypeOK'
  <2>1. raw_valid_map' \in [Segs -> SUBSET Offs]
    BY <1>1 DEF IInv, TypeOK
  <2>2. complete' \in BOOLEAN
    BY <1>1, Zenon
  <2> QED BY <1>1, <2>1, <2>2 DEF IInv, TypeOK
<1>6. LogsOwnSegments'
  <2>1. curseg_flag \subseteq Segs /\ PRE \subseteq Segs
    BY DEF IInv, TypeOK
  <2>2. \A s \in curseg_flag : s \notin PRE
    BY <1>3, <2>1
  <2> QED BY <1>1, <2>2 DEF IInv, LogsOwnSegments
<1>7. SegmentStates'
  <2> SUFFICES ASSUME NEW s \in Segs
               PROVE  /\ valid_blocks[s] = Cardinality(cur_valid_map[s])
                      /\ s \notin free_segmap \ PRE => cur_valid_map[s] = {}
                      /\ s \in DIRTY <=> /\ s \in (free_segmap \ PRE) \ curseg_flag
                                         /\ valid_blocks[s] \in 1 .. blocks_per_seg - 1
                      /\ s \in PRE <=> \/ /\ s \in (free_segmap \ PRE) \ curseg_flag
                                          /\ valid_blocks[s] = 0
                                       \/ s \in PRE
    BY <1>1, <1>2 DEF SegmentStates
  <2>1. /\ valid_blocks[s] = Cardinality(cur_valid_map[s])
        /\ s \notin free_segmap => cur_valid_map[s] = {}
        /\ s \in DIRTY <=> /\ s \in free_segmap \ curseg_flag
                           /\ valid_blocks[s] \in 1 .. blocks_per_seg - 1
    BY DEF IInv, SegmentStates
  <2>2. s \notin free_segmap \ PRE => cur_valid_map[s] = {}
    BY <1>3, <1>4, <2>1
  <2>3. s \in DIRTY <=> /\ s \in (free_segmap \ PRE) \ curseg_flag
                         /\ valid_blocks[s] \in 1 .. blocks_per_seg - 1
    BY <1>3, <1>4, <2>1
  <2>4. s \in PRE <=> \/ /\ s \in (free_segmap \ PRE) \ curseg_flag
                          /\ valid_blocks[s] = 0
                       \/ s \in PRE
    BY <1>3, <1>4, <2>1
  <2> QED BY <2>1, <2>2, <2>3, <2>4
<1>8. CkptCurrent' /\ DiskCurrent' /\ ReleasedFree'
  BY <1>1, <1>2 DEF IInv, CkptCurrent, DiskCurrent, ReleasedFree
<1>9. FreeClean'
  <2> SUFFICES ASSUME complete, left = {},
                      NEW s \in Segs, s \notin free_segmap \ PRE
               PROVE  raw_valid_map'[s] = {}
    BY <1>1 DEF FreeClean
  <2>1. cur_valid_map[s] = {}
    BY <1>4 DEF IInv, SegmentStates
  <2>2. raw_valid_map'[s] = cur_valid_map[s]
    BY <1>1 DEF IInv, CkptCurrent
  <2> QED BY <2>1, <2>2
<1>10. Frontier'
  <2> SUFFICES ASSUME complete, NEW m \in Logs, NEW o \in Offs,
                      o >= curseg[m].next_blkoff
               PROVE  /\ o \notin cur_valid_map[curseg[m].segno]
                      /\ o \notin raw_valid_map'[curseg[m].segno]
    BY <1>1 DEF Frontier
  <2>1. curseg[m].segno \in Segs
    BY DEF IInv, TypeOK, CursegType
  <2> QED BY <1>1, <2>1 DEF IInv, Frontier
<1>11. DiskLogs'
  BY <1>1 DEF IInv, DiskLogs
<1> QED BY <1>5, <1>6, <1>7, <1>8, <1>9, <1>10, <1>11 DEF IInv

\* Writing the checkpoint, successfully or not, keeps the invariant: the logs
\* and maps that reach the device satisfy what the mount relies on.
LEMMA CommitIInv ==
  ASSUME IInv, CommitCheckpoint \/ FailCheckpoint
  PROVE  IInv'
<1>1. /\ UNCHANGED <<cur_valid_map, raw_valid_map, valid_blocks, dirty_sentries,
                      curseg, curseg_flag, free_segmap, DIRTY, PRE, complete, mounted>>
      /\ UNCHANGED <<disk_valid_map, disk_curseg>> \/ WriteCheckpoint
      /\ cp = "flushed"
      /\ (cp' = "committed" /\ WriteCheckpoint) \/ (cp' = "none" /\ cp_error')
  BY DEF CommitCheckpoint, FailCheckpoint, sitVars, logVars, segVars, diskVars
<1>. cp_error' \in BOOLEAN
  BY Zenon DEF CommitCheckpoint, FailCheckpoint, IInv, TypeOK
<1>2. Released' = Released
  BY <1>1 DEF Released
<1>3. /\ disk_valid_map' \in [Segs -> SUBSET Offs]
      /\ disk_curseg' \in [Logs -> CursegType]
  BY <1>1 DEF IInv, TypeOK, WriteCheckpoint
<1>4. ASSUME complete, WriteCheckpoint
      PROVE  disk_valid_map' = raw_valid_map
  <2>1. dirty_sentries = {}
    BY <1>1, <1>4 DEF IInv, DiskCurrent
  <2>2. disk_valid_map' = [s \in Segs |-> raw_valid_map[s]]
    BY <1>4, <2>1 DEF WriteCheckpoint
  <2> QED BY <2>2 DEF IInv, TypeOK
<1>5. TypeOK' /\ LogsOwnSegments' /\ SegmentStates'
  <2>1. TypeOK'
    BY <1>1, <1>3 DEF IInv, TypeOK
  <2>2. LogsOwnSegments' /\ SegmentStates'
    BY <1>1, <1>2 DEF IInv, LogsOwnSegments, SegmentStates
  <2> QED BY <2>1, <2>2
<1>6. CkptCurrent' /\ FreeClean' /\ Frontier' /\ ReleasedFree'
  BY <1>1, <1>2 DEF IInv, CkptCurrent, FreeClean, Frontier, ReleasedFree
<1>7. DiskCurrent'
  BY <1>1, <1>4 DEF IInv, DiskCurrent
<1>8. DiskLogs'
  <2>1. CASE UNCHANGED <<disk_valid_map, disk_curseg>>
    BY <1>1, <2>1 DEF IInv, DiskLogs
  <2>2. CASE WriteCheckpoint
    <3>1. disk_curseg' = curseg
      BY <2>2 DEF WriteCheckpoint
    <3> QED BY <1>1, <1>4, <2>2, <3>1 DEF IInv, DiskLogs, LogsOwnSegments, Frontier
  <2> QED BY <1>1, <2>1, <2>2
<1> QED BY <1>5, <1>6, <1>7, <1>8 DEF IInv

\* Clearing the prefree list keeps the invariant.
LEMMA ClearIInv ==
  ASSUME IInv, ClearPrefreeSegments
  PROVE  IInv'
<1>1. /\ cp = "committed" /\ cp' = "none" /\ PRE' = {}
      /\ UNCHANGED <<cur_valid_map, raw_valid_map, valid_blocks, dirty_sentries, curseg,
                      curseg_flag, free_segmap, DIRTY, cp_error, complete, mounted,
                      disk_valid_map, disk_curseg>>
  BY DEF ClearPrefreeSegments, sitVars, logVars, diskVars
<1>2. Released = PRE /\ Released' = {}
  BY <1>1 DEF Released
<1>3. \A s \in Segs : ~(s \in free_segmap \ curseg_flag /\ valid_blocks[s] = 0)
  BY <1>2 DEF IInv, SegmentStates, ReleasedFree
<1>4. SegmentStates'
  BY <1>1, <1>2, <1>3 DEF IInv, SegmentStates
<1>5. TypeOK' /\ LogsOwnSegments'
  BY <1>1 DEF IInv, TypeOK, LogsOwnSegments
<1>6. CkptCurrent' /\ DiskCurrent' /\ FreeClean' /\ Frontier' /\ DiskLogs' /\ ReleasedFree'
  BY <1>1, <1>2 DEF IInv, CkptCurrent, DiskCurrent, FreeClean, Frontier, DiskLogs, ReleasedFree
<1> QED BY <1>4, <1>5, <1>6 DEF IInv

\* f3fs_dirty_to_prefree finds nothing to move.
LEMMA DirtyToPrefreeIInv ==
  ASSUME IInv, DirtyToPrefree
  PROVE  IInv'
<1>1. {s \in DIRTY : valid_blocks[s] = 0 /\ ~IS_CURSEG(curseg_flag, s)} = {}
  BY SizeAssumption DEF IInv, TypeOK, SegmentStates
<1>2. UNCHANGED <<cur_valid_map, raw_valid_map, valid_blocks, dirty_sentries, curseg,
                  curseg_flag, free_segmap, DIRTY, PRE, cp, cp_error, complete, mounted,
                  disk_valid_map, disk_curseg>>
  BY <1>1 DEF DirtyToPrefree, sitVars, logVars, cpVars, diskVars
<1>3. Released' = Released
  BY <1>2 DEF Released
<1>4. TypeOK' /\ LogsOwnSegments' /\ SegmentStates'
  <2>1. TypeOK'
    BY <1>2 DEF IInv, TypeOK
  <2>2. LogsOwnSegments' /\ SegmentStates'
    BY <1>2, <1>3 DEF IInv, LogsOwnSegments, SegmentStates
  <2> QED BY <2>1, <2>2
<1>5. CkptCurrent' /\ DiskCurrent' /\ FreeClean' /\ Frontier' /\ DiskLogs' /\ ReleasedFree'
  BY <1>2, <1>3 DEF IInv, CkptCurrent, DiskCurrent, FreeClean, Frontier, DiskLogs, ReleasedFree
<1> QED BY <1>4, <1>5 DEF IInv

\* A crash changes nothing that the mount reads.
LEMMA CrashIInv ==
  ASSUME IInv, Crash \/ UNCHANGED vars
  PROVE  IInv'
<1>1. /\ UNCHANGED <<cur_valid_map, raw_valid_map, valid_blocks, dirty_sentries, curseg,
                      curseg_flag, free_segmap, DIRTY, PRE, cp, cp_error, complete,
                      disk_valid_map, disk_curseg>>
      /\ mounted' = FALSE \/ mounted' = mounted
  BY DEF Crash, vars, sitVars, logVars, segVars, cpVars, diskVars
<1>2. Released' = Released
  BY <1>1 DEF Released
<1>3. TypeOK' /\ LogsOwnSegments' /\ SegmentStates'
  <2>1. mounted \in BOOLEAN
    BY DEF IInv, TypeOK
  <2>2. mounted' \in BOOLEAN
    BY <1>1, <2>1, Zenon
  <2>3. TypeOK'
    BY <1>1, <2>2 DEF IInv, TypeOK
  <2>4. LogsOwnSegments'
    BY <1>1 DEF IInv, LogsOwnSegments
  <2>5. SegmentStates'
    BY <1>1, <1>2 DEF IInv, SegmentStates
  <2> QED BY <2>3, <2>4, <2>5
<1>4. CkptCurrent' /\ FreeClean' /\ Frontier' /\ DiskLogs' /\ ReleasedFree'
  BY <1>1, <1>2 DEF IInv, CkptCurrent, FreeClean, Frontier, DiskLogs, ReleasedFree
<1>5. DiskCurrent'
  BY <1>1 DEF IInv, DiskCurrent
<1> QED BY <1>3, <1>4, <1>5 DEF IInv

\* The mount rebuilds the segment manager from the last checkpoint.
LEMMA MountIInv ==
  ASSUME MAIN_SEGS <= USHRT_SEGS, IInv, Mount
  PROVE  IInv'
<1> DEFINE flag == {disk_curseg[l].segno : l \in Logs}
           used == InUseAtMount(disk_valid_map, disk_curseg)
<1>1. /\ mounted' = TRUE
      /\ cur_valid_map' = disk_valid_map
      /\ raw_valid_map' = disk_valid_map
      /\ valid_blocks' = [s \in Segs |-> Cardinality(disk_valid_map[s])]
      /\ dirty_sentries' = {}
      /\ curseg' = disk_curseg
      /\ curseg_flag' = flag
      /\ free_segmap' = used
      /\ DIRTY' = DirtyAtMount(disk_valid_map, disk_curseg)
      /\ PRE' = {}
      /\ cp' = "none"
      /\ cp_error' = FALSE
      /\ UNCHANGED <<complete, disk_valid_map, disk_curseg>>
  BY DEF Mount, diskVars
<1>2. disk_valid_map \in [Segs -> SUBSET Offs] /\ disk_curseg \in [Logs -> CursegType]
  BY DEF IInv, TypeOK
<1>3. flag \subseteq Segs /\ used \subseteq Segs /\ flag \subseteq used
  BY <1>2 DEF CursegType, InUseAtMount
<1>4. \A s \in Segs : /\ Cardinality(disk_valid_map[s]) \in 0 .. blocks_per_seg
                      /\ Cardinality(disk_valid_map[s]) = 0 <=> disk_valid_map[s] = {}
  BY <1>2, MapCount
<1>5. \A s \in Segs : s \in DIRTY' <=>
         s \in used \ flag /\ Cardinality(disk_valid_map[s]) \in 1 .. blocks_per_seg - 1
  BY <1>1, <1>3, IsCursegExact DEF DirtyAtMount
<1>6. TypeOK'
  <2>1. DIRTY' \subseteq Segs
    BY <1>1, <1>3 DEF DirtyAtMount
  <2>2. valid_blocks' \in [Segs -> 0 .. blocks_per_seg]
    BY <1>1, <1>4
  <2> QED BY <1>1, <1>2, <1>3, <2>1, <2>2 DEF IInv, TypeOK
<1>7. LogsOwnSegments'
  BY <1>1, <1>3 DEF IInv, DiskLogs, LogsOwnSegments
<1>8. SegmentStates'
  <2>1. Released' = {}
    BY <1>1 DEF Released
  <2>2. \A s \in Segs : s \in used <=> disk_valid_map[s] # {} \/ s \in flag
    BY DEF InUseAtMount
  <2> HIDE DEF used, flag
  <2> QED BY <1>1, <1>4, <1>5, <2>1, <2>2 DEF SegmentStates
<1>9. CkptCurrent' /\ DiskCurrent'
  BY <1>1 DEF CkptCurrent, DiskCurrent
<1>10. FreeClean'
  BY <1>1 DEF FreeClean, InUseAtMount
<1>11. Frontier' /\ DiskLogs'
  BY <1>1 DEF IInv, Frontier, DiskLogs
<1>12. ReleasedFree'
  BY <1>1 DEF ReleasedFree, Released
<1> QED BY <1>6, <1>7, <1>8, <1>9, <1>10, <1>11, <1>12 DEF IInv

-----------------------------------------------------------------------------
\* Every step of the segment manager keeps the inductive invariant.
LEMMA NextIInv ==
  ASSUME MAIN_SEGS <= USHRT_SEGS, IInv, [Next]_vars
  PROVE  IInv'
<1>1. ASSUME NEW l \in Logs, NEW old \in Blocks \cup {NULL_ADDR}, AllocateDataBlock2(l, old)
      PROVE  IInv'
  <2>1. CASE old = NULL_ADDR
    BY <1>1, <2>1, AllocateNewIInv DEF AllocateDataBlock2
  <2>2. CASE old # NULL_ADDR
    BY <1>1, <2>2, AllocateOverIInv DEF AllocateDataBlock2
  <2> QED BY <2>1, <2>2
<1>2. ASSUME NEW b \in Blocks, InvalidateBlocks(b)
      PROVE  IInv'
  BY <1>2, InvalidateIInv
<1>3. CASE DirtyToPrefree
  BY <1>3, DirtyToPrefreeIInv
<1>4. CASE Checkpoint
  <2>1. ASSUME NEW left \in SUBSET Segs, FlushSitEntries(left)
        PROVE  IInv'
    BY <2>1, FlushIInv
  <2>2. CASE CommitCheckpoint \/ FailCheckpoint
    BY <2>2, CommitIInv
  <2>3. CASE ClearPrefreeSegments
    BY <2>3, ClearIInv
  <2> QED BY <1>4, <2>1, <2>2, <2>3 DEF Checkpoint, LeftOut
<1>5. CASE Crash \/ UNCHANGED vars
  BY <1>5, CrashIInv
<1>6. CASE Mount
  BY <1>6, MountIInv
<1> QED BY <1>1, <1>2, <1>3, <1>4, <1>5, <1>6 DEF Next

\* The inductive invariant holds in every reachable state.
THEOREM SegmentManagerInvariant ==
  ASSUME MAIN_SEGS <= USHRT_SEGS
  PROVE  Spec => []IInv
<1>1. Init => IInv
  BY InitIInv
<1>2. IInv /\ [Next]_vars => IInv'
  BY NextIInv
<1> QED BY <1>1, <1>2, PTL DEF Spec

\* Every variable of the segment manager keeps its range: in particular no log
\* runs past the end of its segment and no count leaves 0..blocks_per_seg.
THEOREM TypeCorrect ==
  ASSUME MAIN_SEGS <= USHRT_SEGS
  PROVE  Spec => []TypeOK
<1>1. IInv => TypeOK
  BY DEF IInv
<1> QED BY <1>1, SegmentManagerInvariant, PTL

\* The logs of f3fs_allocate_data_block2 never share a segment.
THEOREM LogsOwnSegmentsAlways ==
  ASSUME MAIN_SEGS <= USHRT_SEGS
  PROVE  Spec => []LogsOwnSegments
<1>1. IInv => LogsOwnSegments
  BY DEF IInv
<1> QED BY <1>1, SegmentManagerInvariant, PTL

\* The free map, the dirty and the prefree list always agree with the SIT.
THEOREM SegmentStatesAlways ==
  ASSUME MAIN_SEGS <= USHRT_SEGS
  PROVE  Spec => []SegmentStates
<1>1. IInv => SegmentStates
  BY DEF IInv
<1> QED BY <1>1, SegmentManagerInvariant, PTL

\* As long as every SIT flush is complete, the tail of every log is unused,
\* also after a crash and a mount.
THEOREM LogTailUnusedAlways ==
  ASSUME MAIN_SEGS <= USHRT_SEGS
  PROVE  Spec => []LogTailUnused
<1>1. IInv => LogTailUnused
  BY DEF IInv, Frontier, LogTailUnused
<1> QED BY <1>1, SegmentManagerInvariant, PTL

\* Out-of-place writing: f3fs_allocate_data_block2 never hands out a block that
\* is valid now or in the checkpoint a crash would fall back to.
THEOREM NeverOverwriteAlways ==
  ASSUME MAIN_SEGS <= USHRT_SEGS
  PROVE  Spec => NeverOverwrite
<1> DEFINE Fresh(l) == curseg[l].next_blkoff \notin cur_valid_map[curseg[l].segno]
                                                   \cup disk_valid_map[curseg[l].segno]
           Step == \A l \in Logs :
                     complete /\ mounted /\ mounted' /\ curseg'[l] # curseg[l] => Fresh(l)
<1>1. IInv /\ [Next]_vars => [Step]_vars
  <2> SUFFICES ASSUME IInv, Next, NEW l \in Logs,
                      complete, mounted, mounted', curseg'[l] # curseg[l]
               PROVE  Fresh(l)
    BY DEF Fresh
  <2>1. Running
    <3>1. ASSUME NEW m \in Logs, NEW old \in Blocks \cup {NULL_ADDR},
                 AllocateDataBlock2(m, old)
          PROVE  Running
      BY <3>1 DEF AllocateDataBlock2, AllocateNew, AllocateOver
    <3>2. ASSUME NEW b \in Blocks, InvalidateBlocks(b)
          PROVE  Running
      BY <3>2 DEF InvalidateBlocks
    <3>3. CASE DirtyToPrefree
      BY <3>3 DEF DirtyToPrefree
    <3>4. CASE Checkpoint
      BY <3>4 DEF Checkpoint, FlushSitEntries, CommitCheckpoint, FailCheckpoint,
                  ClearPrefreeSegments, logVars
    <3>5. CASE Crash \/ Mount
      BY <3>5 DEF Crash, Mount
    <3> QED BY <3>1, <3>2, <3>3, <3>4, <3>5 DEF Next
  <2>2. disk_valid_map = raw_valid_map
    BY <2>1 DEF IInv, DiskCurrent, Running
  <2>3. curseg[l].next_blkoff \in Offs /\ curseg[l].next_blkoff >= curseg[l].next_blkoff
    BY DEF IInv, TypeOK, CursegType, Offs
  <2> QED BY <2>2, <2>3 DEF IInv, Frontier
<1> QED BY <1>1, SegmentManagerInvariant, PTL DEF Spec, NeverOverwrite

-----------------------------------------------------------------------------
(* The refinement of LogVolume *)

\* SetValid and ClearValid change the bit of one block and of no other.
LEMMA BitsSet ==
  ASSUME NEW new \in Blocks, NEW map \in [Segs -> SUBSET Offs], NEW b \in Blocks
  PROVE  /\ b[2] \in SetValid(map, new)[b[1]] <=> b[2] \in map[b[1]] \/ b = new
         /\ b[2] \in ClearValid(map, new)[b[1]] <=> b[2] \in map[b[1]] /\ b # new
<1>1. new[1] \in Segs /\ b[1] \in Segs /\ (b = new <=> b[1] = new[1] /\ b[2] = new[2])
  BY DEF Blocks
<1>2. /\ b[1] = new[1] => SetValid(map, new)[b[1]] = map[b[1]] \cup {new[2]}
      /\ b[1] # new[1] => SetValid(map, new)[b[1]] = map[b[1]]
  BY <1>1 DEF SetValid
<1>3. /\ b[1] = new[1] => ClearValid(map, new)[b[1]] = map[b[1]] \ {new[2]}
      /\ b[1] # new[1] => ClearValid(map, new)[b[1]] = map[b[1]]
  BY <1>1 DEF ClearValid
<1> QED BY <1>1, <1>2, <1>3

\* A step of f3fs_allocate_data_block2 writes one block out of place.
LEMMA AllocateWrites ==
  ASSUME MAIN_SEGS <= USHRT_SEGS, IInv, complete, NEW l \in Logs,
         NEW old \in Blocks \cup {NULL_ADDR}, AllocateDataBlock2(l, old)
  PROVE  Volume!Write(<<curseg[l].segno, curseg[l].next_blkoff>>, old)
<1> DEFINE new == <<curseg[l].segno, curseg[l].next_blkoff>>
<1>1. /\ Running
      /\ UNCHANGED <<disk_valid_map, mounted, complete>>
  BY DEF AllocateDataBlock2, AllocateNew, AllocateOver, cpVars, diskVars
<1>2. new \in Blocks /\ new[1] = curseg[l].segno /\ new[2] = curseg[l].next_blkoff
  BY DEF IInv, TypeOK, CursegType, Blocks
<1>3. new \notin BlocksOf(cur_valid_map) \cup BlocksOf(disk_valid_map)
  <2>1. disk_valid_map = raw_valid_map
    BY <1>1 DEF IInv, DiskCurrent, Running
  <2>2. new[2] \in Offs /\ new[2] >= curseg[l].next_blkoff
    BY <1>2 DEF Blocks, Offs
  <2> QED BY <1>2, <2>1, <2>2 DEF IInv, Frontier, BlocksOf
<1>4. /\ old \in BlocksOf(cur_valid_map) \cup {NULL_ADDR}
      /\ BlocksOf(cur_valid_map') = (BlocksOf(cur_valid_map) \cup {new}) \ {old}
  <2>1. CASE old = NULL_ADDR
    <3>1. cur_valid_map' = SetValid(cur_valid_map, new)
      BY <2>1 DEF AllocateDataBlock2, AllocateNew
    <3>2. \A b \in Blocks : b[2] \in cur_valid_map'[b[1]] <=> b[2] \in cur_valid_map[b[1]] \/ b = new
      BY <1>2, <3>1, BitsSet DEF IInv, TypeOK
    <3> QED BY <1>2, <2>1, <3>2, NullAssumption DEF BlocksOf
  <2>2. CASE old # NULL_ADDR
    <3>1. old \in Blocks
      BY <2>2
    <3>2. /\ cur_valid_map' = ClearValid(SetValid(cur_valid_map, new), old)
          /\ old[2] \in cur_valid_map[old[1]]
      BY <2>2 DEF AllocateDataBlock2, AllocateOver
    <3>3. \A b \in Blocks : b[2] \in cur_valid_map'[b[1]] <=>
            (b[2] \in cur_valid_map[b[1]] \/ b = new) /\ b # old
      <4>1. \A b \in Blocks : b[2] \in SetValid(cur_valid_map, new)[b[1]] <=>
              b[2] \in cur_valid_map[b[1]] \/ b = new
        BY <1>2, BitsSet DEF IInv, TypeOK
      <4>2. \A b \in Blocks : b[2] \in cur_valid_map'[b[1]] <=>
              b[2] \in SetValid(cur_valid_map, new)[b[1]] /\ b # old
        <5>1. SetValid(cur_valid_map, new) \in [Segs -> SUBSET Offs]
          BY <1>2 DEF SetValid, IInv, TypeOK, Blocks
        <5>2. \A map \in [Segs -> SUBSET Offs], b \in Blocks :
                b[2] \in ClearValid(map, old)[b[1]] <=> b[2] \in map[b[1]] /\ b # old
          BY <3>1, BitsSet
        <5> QED BY <3>2, <5>1, <5>2
      <4> QED BY <4>1, <4>2
    <3> QED BY <1>2, <3>1, <3>2, <3>3 DEF BlocksOf
  <2> QED BY <2>1, <2>2
<1> QED BY <1>1, <1>2, <1>3, <1>4 DEF Volume!Write, Running

\* Every step of the segment manager is a step of the volume, or leaves it alone.
LEMMA StepOfVolume ==
  ASSUME MAIN_SEGS <= USHRT_SEGS, IInv, IInv', [Next]_vars
  PROVE  [Volume!Next]_(Volume!vars)
<1>1. CASE ~complete'
  <2>1. /\ complete' = FALSE /\ mounted' \in BOOLEAN
        /\ BlocksOf(cur_valid_map') \in SUBSET Blocks /\ BlocksOf(disk_valid_map') \in SUBSET Blocks
    BY <1>1 DEF IInv, TypeOK, BlocksOf
  <2>2. Volume!Forfeit
    BY <2>1 DEF Volume!Forfeit
  <2> QED BY <2>2 DEF Volume!Next
<1>2. CASE complete'
  <2> USE <1>2
  <2>1. complete
    <3>1. ASSUME NEW l \in Logs, NEW old \in Blocks \cup {NULL_ADDR}, AllocateDataBlock2(l, old)
          PROVE  complete
      BY <3>1 DEF AllocateDataBlock2, AllocateNew, AllocateOver, cpVars
    <3>2. ASSUME NEW b \in Blocks, InvalidateBlocks(b)
          PROVE  complete
      BY <3>2 DEF InvalidateBlocks, cpVars
    <3>3. ASSUME NEW left, FlushSitEntries(left)
          PROVE  complete
      BY <3>3 DEF FlushSitEntries
    <3>4. CASE CommitCheckpoint \/ FailCheckpoint \/ ClearPrefreeSegments
      BY <3>4 DEF CommitCheckpoint, FailCheckpoint, ClearPrefreeSegments
    <3>5. CASE DirtyToPrefree \/ Crash \/ Mount \/ UNCHANGED vars
      BY <3>5 DEF DirtyToPrefree, Crash, Mount, vars, cpVars
    <3> QED BY <3>1, <3>2, <3>3, <3>4, <3>5 DEF Next, Checkpoint
  <2>2. ASSUME NEW l \in Logs, NEW old \in Blocks \cup {NULL_ADDR}, AllocateDataBlock2(l, old)
        PROVE  Volume!Next
    <3>1. <<curseg[l].segno, curseg[l].next_blkoff>> \in Blocks
      BY DEF IInv, TypeOK, CursegType, Blocks
    <3> QED BY <2>1, <2>2, <3>1, AllocateWrites DEF Volume!Next
  <2>3. ASSUME NEW b \in Blocks, InvalidateBlocks(b)
        PROVE  Volume!Next
    <3>1. /\ mounted /\ b[2] \in cur_valid_map[b[1]]
          /\ cur_valid_map' = ClearValid(cur_valid_map, b)
          /\ UNCHANGED <<disk_valid_map, mounted, complete>>
      BY <2>3 DEF InvalidateBlocks, Running, cpVars, diskVars
    <3>2. \A c \in Blocks : c[2] \in cur_valid_map'[c[1]] <=> c[2] \in cur_valid_map[c[1]] /\ c # b
      <4>1. cur_valid_map \in [Segs -> SUBSET Offs]
        BY <2>1 DEF IInv, TypeOK
      <4> QED BY <3>1, <4>1, BitsSet
    <3>3. b \in BlocksOf(cur_valid_map) /\ BlocksOf(cur_valid_map') = BlocksOf(cur_valid_map) \ {b}
      BY <3>1, <3>2 DEF BlocksOf
    <3>4. Volume!Free(b)
      BY <2>1, <3>1, <3>3 DEF Volume!Free
    <3> QED BY <3>4 DEF Volume!Next
  <2>4. ASSUME WriteCheckpoint, CommitCheckpoint \/ FailCheckpoint
        PROVE  Volume!Next
    <3>1. mounted /\ cp = "flushed" /\ UNCHANGED <<cur_valid_map, mounted, complete>>
      BY <2>4 DEF CommitCheckpoint, FailCheckpoint, sitVars
    <3>2. dirty_sentries = {}
      BY <2>1, <3>1 DEF IInv, DiskCurrent
    <3>3. \A s \in Segs : disk_valid_map'[s] = cur_valid_map[s]
      BY <2>4, <3>2 DEF WriteCheckpoint, IInv, CkptCurrent
    <3>4. BlocksOf(disk_valid_map') = BlocksOf(cur_valid_map)
      BY <3>3 DEF BlocksOf, Blocks
    <3>5. Volume!Save
      BY <2>1, <3>1, <3>4 DEF Volume!Save
    <3> QED BY <3>5 DEF Volume!Next
  <2>5. ASSUME UNCHANGED <<cur_valid_map, disk_valid_map, mounted, complete>>
        PROVE  UNCHANGED Volume!vars
    BY <2>5 DEF Volume!vars
  <2>6. CASE Checkpoint
    <3>1. ASSUME NEW left \in SUBSET Segs, FlushSitEntries(left)
          PROVE  UNCHANGED <<cur_valid_map, disk_valid_map, mounted, complete>>
      BY <2>1, <3>1 DEF FlushSitEntries, diskVars
    <3>2. ASSUME FailCheckpoint, UNCHANGED diskVars
          PROVE  UNCHANGED <<cur_valid_map, disk_valid_map, mounted, complete>>
      BY <3>2 DEF FailCheckpoint, sitVars, diskVars
    <3>3. ASSUME ClearPrefreeSegments
          PROVE  UNCHANGED <<cur_valid_map, disk_valid_map, mounted, complete>>
      BY <3>3 DEF ClearPrefreeSegments, sitVars, diskVars
    <3>4. FailCheckpoint => WriteCheckpoint \/ UNCHANGED diskVars
      BY DEF FailCheckpoint
    <3>5. CommitCheckpoint => WriteCheckpoint
      BY DEF CommitCheckpoint
    <3> QED BY <2>4, <2>5, <2>6, <3>1, <3>2, <3>3, <3>4, <3>5 DEF Checkpoint, LeftOut
  <2>7. CASE DirtyToPrefree \/ UNCHANGED vars
    <3>1. UNCHANGED <<cur_valid_map, disk_valid_map, mounted, complete>>
      BY <2>7 DEF DirtyToPrefree, vars, sitVars, cpVars, diskVars
    <3> QED BY <2>5, <3>1
  <2>8. CASE Crash
    <3>1. mounted /\ mounted' = FALSE /\ UNCHANGED <<cur_valid_map, disk_valid_map, complete>>
      BY <2>8 DEF Crash, sitVars, cpVars, diskVars
    <3>2. Volume!Crash
      BY <2>1, <3>1 DEF Volume!Crash
    <3> QED BY <3>2 DEF Volume!Next
  <2>9. CASE Mount
    <3>1. /\ ~mounted /\ mounted' = TRUE /\ cur_valid_map' = disk_valid_map
          /\ UNCHANGED <<disk_valid_map, complete>>
      BY <2>9 DEF Mount, diskVars
    <3>2. Volume!Mount
      BY <2>1, <3>1 DEF Volume!Mount
    <3> QED BY <3>2 DEF Volume!Next
  <2> QED BY <2>2, <2>3, <2>6, <2>7, <2>8, <2>9 DEF Next
<1> QED BY <1>1, <1>2

\* A freshly formatted volume has no live block.
LEMMA InitOfVolume == Init => Volume!Init
BY DEF Init, Volume!Init, BlocksOf, Blocks

\* The segment manager implements LogVolume, for every number of segments, blocks
\* and logs on which IS_CURSEG is exact.
THEOREM VolumePromiseKept ==
  ASSUME MAIN_SEGS <= USHRT_SEGS
  PROVE  Spec => VolumePromise
<1>1. IInv /\ IInv' /\ [Next]_vars => [Volume!Next]_(Volume!vars)
  BY StepOfVolume
<1> QED BY <1>1, InitOfVolume, SegmentManagerInvariant, PTL DEF Spec, VolumePromise, Volume!Spec

=============================================================================
