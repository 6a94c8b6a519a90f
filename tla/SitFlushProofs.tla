--------------------------- MODULE SitFlushProofs ---------------------------
(***************************************************************************)
(* A checkpoint of any volume, stopped anywhere: a mount takes the last    *)
(* pack that was committed, and reads the SIT which that checkpoint wrote. *)
(***************************************************************************)
EXTENDS SitFlush, TLAPS

\* Block pos of a pack is a checkpoint block only of a version in vers.
CpVersions(block, vers) ==
  block.kind = "cp" => block.ckpt.ver \in vers

\* A pack is complete: its checkpoint block, the commit block and the summary
\* blocks counted for it are of version w.
Complete(pack, w, bitmap, shape) ==
  LET c == Layout(w, shape) IN
  /\ pack[0] = CpBlock(c, bitmap)
  /\ pack[c.total - 1].kind = "cp" /\ pack[c.total - 1].ckpt.ver = w
  /\ \A k \in 0 .. npages_for_summary_flush(c.sums) - 1 :
       LET sum == pack[c.start_sum + k]
       IN  sum.kind = "sum" /\ sum.index = k /\ sum.ver = w

\* What both packs hold of other versions.  Commit blocks that an earlier, longer
\* checkpoint left behind in v are not younger than w.  The other pack has only
\* older ones, so that its first block, which may be of the version being
\* written, meets none of its own version.
Outdated(v, w) ==
  /\ \A pos \in Positions \ {0} :
       /\ CpVersions(packs[v][pos], 0 .. w)
       /\ CpVersions(packs[3 - v][pos], 0 .. w - 1)
  /\ LET head == packs[3 - v][0] IN
     head.kind = "cp" => /\ head.ckpt.ver \in (0 .. w - 1) \cup {w + 1}
                         /\ head.ckpt.total - 1 \in Positions \ {0}

\* Pack v of version w is the one to mount.
Standing(v, w, bitmap, shape) ==
  /\ v \in Packs /\ w \in Nat /\ bitmap \in [SitBlocks -> Copies] /\ shape \in Shapes
  /\ Complete(packs[v], w, bitmap, shape) /\ Outdated(v, w)

\* The memory of a mounted volume agrees with the pack it was mounted from or
\* wrote last; a checkpoint in progress is of the next version, and the SIT
\* copies it writes are not those the pack reads.
Memory(v, w, bitmap, shape) ==
  /\ cp \in {"none", "flushed", "stopped"}
  /\ cp = "none" => /\ cur_cp_pack = v /\ ckpt = Layout(w, shape)
                    /\ sit_bitmap = bitmap /\ unwritten = {}
  /\ cp = "flushed" => /\ cur_cp_pack = v /\ \E sh \in Shapes : ckpt = Layout(w + 1, sh)
                       /\ sit_bitmap \in [SitBlocks -> Copies]
                       /\ \A b \in unwritten \cap SitBlocks : sit_bitmap[b] # bitmap[b]
  /\ cp = "stopped" => ckpt.ver \in {w, w + 1}

\* The packs and the SIT area are arrays over their places.
Arrays ==
  /\ packs = [p \in Packs |-> [pos \in Positions |-> packs[p][pos]]]
  /\ disk_sit = [b \in SitBlocks |-> [c \in Copies |-> disk_sit[b][c]]]

\* The inductive invariant.
CkptInv ==
  LET head == packs[ValidCheckpoint][0] IN
  /\ Arrays
  /\ \E shape \in Shapes :
       /\ Standing(ValidCheckpoint, head.ckpt.ver, head.sit_bitmap, shape)
       /\ Memory(ValidCheckpoint, head.ckpt.ver, head.sit_bitmap, shape)
  /\ CommittedSitFound

-----------------------------------------------------------------------------
\* The parts of a pack follow each other (do_checkpoint): checkpoint block, orphan
\* blocks, the summary blocks counted, node summaries, commit block; all of it,
\* and the summary blocks that were not counted, has a place in the pack.
LEMMA LayoutParts ==
  ASSUME NEW w \in Nat, NEW shape \in Shapes
  PROVE  LET c  == Layout(w, shape)
             np == npages_for_summary_flush(c.sums)
         IN  /\ c.ver = w /\ c.start_sum \in Nat \ {0} /\ c.total \in Nat
             /\ c.sums = shape.sums /\ c.umount = shape.umount
             /\ np \in Nat \ {0} /\ c.sums \in Nat /\ np <= c.sums
             /\ c.start_sum + np = c.total - 1 - NodeSummaries(c.umount)
             /\ NodeSummaries(c.umount) \in Nat
             /\ c.total - 1 \in Positions \ {0}
             /\ SummaryPages(c) \subseteq Positions
             /\ 0 \in Positions /\ Positions \subseteq Nat
<1>1. /\ shape.orphans \in Nat /\ shape.sums \in Nat \ {0} /\ shape.umount \in BOOLEAN
  BY SitAssumption
<1>2. /\ NodeSummaries(shape.umount) \in 0 .. NR_CURSEG_NODE_TYPE
      /\ npages_for_summary_flush(shape.sums) \in 1 .. shape.sums
  BY <1>1, SitAssumption DEF NodeSummaries, npages_for_summary_flush
<1>3. 0 .. 2 + shape.orphans + shape.sums + NR_CURSEG_NODE_TYPE \subseteq Positions
  BY DEF Positions
<1>4. Positions \subseteq Nat
  BY SitAssumption DEF Positions
<1> QED
  BY <1>1, <1>2, <1>3, <1>4, SitAssumption DEF Layout, SummaryPages

\* write_compacted_summaries: the journal is in the first block.
LEMMA SumBlockParts ==
  ASSUME NEW k, NEW c, NEW j
  PROVE  /\ SumBlock(k, c, j).kind = "sum" /\ SumBlock(k, c, j).index = k
         /\ SumBlock(k, c, j).ver = c.ver /\ SumBlock(0, c, j).journal = j
BY DEF SumBlock

\* What do_checkpoint fills the pages of a pack with: neither the node summaries
\* nor the commit block take the place of a summary block that was counted.
LEMMA PackPageParts ==
  ASSUME NEW w \in Nat, NEW shape \in Shapes
  PROVE  LET c  == Layout(w, shape)
             np == npages_for_summary_flush(c.sums)
         IN  /\ PackPages(c) \subseteq Positions
             /\ 0 \in PackPages(c) \ {c.total - 1} /\ PackPage(c, 0) = CpBlock(c, sit_bitmap)
             /\ \A k \in 0 .. np - 1 :
                  /\ c.start_sum + k \in PackPages(c) \ {c.total - 1}
                  /\ PackPage(c, c.start_sum + k) = SumBlock(k, c, journal)
             /\ \A pos \in Positions \ {0} : PackPage(c, pos).kind # "cp"
<1> DEFINE c  == Layout(w, shape)
           np == npages_for_summary_flush(c.sums)
<1>1. /\ c.start_sum \in Nat \ {0} /\ c.total \in Nat /\ c.sums \in Nat
      /\ np \in Nat \ {0} /\ np <= c.sums
      /\ c.start_sum + np = c.total - 1 - NodeSummaries(c.umount)
      /\ NodeSummaries(c.umount) \in Nat
      /\ c.total - 1 \in Positions \ {0} /\ SummaryPages(c) \subseteq Positions
      /\ 0 \in Positions /\ Positions \subseteq Nat
  BY LayoutParts
<1> HIDE DEF c, np
<1>2. 0 .. c.total - 2 \subseteq Positions
  <2>1. PICK sh \in Shapes : c.total - 1 \in 0 .. 2 + sh.orphans + sh.sums + NR_CURSEG_NODE_TYPE
    BY <1>1 DEF Positions
  <2>2. 0 .. c.total - 2 \subseteq 0 .. 2 + sh.orphans + sh.sums + NR_CURSEG_NODE_TYPE
    BY <1>1, <2>1, SitAssumption
  <2> QED
    BY <2>2 DEF Positions
<1>3. PackPages(c) \subseteq Positions
  BY <1>1, <1>2 DEF PackPages
<1>4. 0 \in PackPages(c) \ {c.total - 1} /\ PackPage(c, 0) = CpBlock(c, sit_bitmap)
  BY <1>1 DEF PackPages, PackPage
<1>5. ASSUME NEW k \in 0 .. np - 1
      PROVE  /\ c.start_sum + k \in PackPages(c) \ {c.total - 1}
             /\ PackPage(c, c.start_sum + k) = SumBlock(k, c, journal)
  <2>1. /\ c.start_sum + k \in SummaryPages(c)
        /\ c.start_sum + k \notin c.total - 1 - NodeSummaries(c.umount) .. c.total - 2
        /\ c.start_sum + k # 0 /\ c.start_sum + k # c.total - 1
        /\ (c.start_sum + k) - c.start_sum = k
    BY <1>1 DEF SummaryPages
  <2>2. PICK pos : pos = c.start_sum + k
    OBVIOUS
  <2>3. PackPage(c, pos) = SumBlock(pos - c.start_sum, c, journal)
    BY <2>1, <2>2, Zenon DEF PackPage
  <2>4. pos - c.start_sum = k
    BY <2>1, <2>2
  <2>5. PackPage(c, c.start_sum + k) = SumBlock(k, c, journal)
    BY <2>2, <2>3, <2>4, Zenon
  <2> QED
    BY <2>1, <2>5 DEF PackPages
<1>6. \A pos \in Positions \ {0} : PackPage(c, pos).kind # "cp"
  BY DEF PackPage, SumBlock, OtherBlock
<1> QED
  BY <1>3, <1>4, <1>5, <1>6 DEF c, np

\* A pack whose pages have all been written and whose commit block is there is
\* complete, and holds the journal.
LEMMA FilledPack ==
  ASSUME NEW w \in Nat, NEW shape \in Shapes, NEW pack,
         LET c == Layout(w, shape)
         IN  /\ \A pos \in PackPages(c) \ {c.total - 1} : pack[pos] = PackPage(c, pos)
             /\ pack[c.total - 1] = CpBlock(c, sit_bitmap)
  PROVE  /\ Complete(pack, w, sit_bitmap, shape)
         /\ pack[Layout(w, shape).start_sum].journal = journal
<1> DEFINE c  == Layout(w, shape)
           np == npages_for_summary_flush(c.sums)
<1>1. /\ c.ver = w /\ c.start_sum \in Nat /\ np \in Nat \ {0}
  BY LayoutParts
<1>2. pack[0] = CpBlock(c, sit_bitmap)
  BY PackPageParts
<1>3. \A k \in 0 .. np - 1 : pack[c.start_sum + k] = SumBlock(k, c, journal)
  BY PackPageParts
<1>4. pack[c.total - 1] = CpBlock(c, sit_bitmap)
  OBVIOUS
<1> HIDE DEF c, np
<1>5. ASSUME NEW k \in 0 .. np - 1
      PROVE  LET sum == pack[c.start_sum + k]
             IN  sum.kind = "sum" /\ sum.index = k /\ sum.ver = w
  BY <1>1, <1>3, SumBlockParts
<1>6. pack[c.total - 1].kind = "cp" /\ pack[c.total - 1].ckpt.ver = w
  BY <1>1, <1>4 DEF CpBlock
<1>7. Complete(pack, w, sit_bitmap, shape)
  BY <1>2, <1>5, <1>6 DEF Complete, c, np
<1>8. c.start_sum + 0 = c.start_sum /\ 0 \in 0 .. np - 1
  BY <1>1
<1>9. pack[c.start_sum].journal = journal
  <2>1. pack[c.start_sum + 0] = SumBlock(0, c, journal)
    BY <1>3, <1>8
  <2> QED
    BY <1>8, <2>1, SumBlockParts
<1> QED
  BY <1>7, <1>9 DEF c

\* The first block of a complete pack.
LEMMA CompleteHead ==
  ASSUME NEW pack, NEW w, NEW bitmap, NEW shape, Complete(pack, w, bitmap, shape)
  PROVE  /\ pack[0].kind = "cp" /\ pack[0].ckpt = Layout(w, shape)
         /\ pack[0].ckpt.ver = w /\ pack[0].sit_bitmap = bitmap
<1>1. pack[0] = CpBlock(Layout(w, shape), bitmap)
  BY DEF Complete
<1>2. Layout(w, shape).ver = w
  BY DEF Layout
<1> QED
  BY <1>1, <1>2 DEF CpBlock

\* f3fs_get_valid_checkpoint takes the pack that stands: the other one is not valid,
\* or older.
LEMMA StandingFound ==
  \A v, w, bitmap, shape :
    Standing(v, w, bitmap, shape) => ValidCheckpoint = v /\ ValidPack(v)
<1> SUFFICES ASSUME NEW v, NEW w, NEW bitmap, NEW shape, Standing(v, w, bitmap, shape)
             PROVE  ValidCheckpoint = v /\ ValidPack(v)
  OBVIOUS
<1>1. /\ v \in Packs /\ w \in Nat /\ shape \in Shapes
      /\ Complete(packs[v], w, bitmap, shape) /\ Outdated(v, w)
  BY DEF Standing
<1>2. /\ packs[v][0].kind = "cp" /\ packs[v][0].ckpt = Layout(w, shape)
      /\ packs[v][0].ckpt.ver = w
  BY <1>1, CompleteHead
<1>3. LET foot == packs[v][Layout(w, shape).total - 1] IN foot.kind = "cp" /\ foot.ckpt.ver = w
  BY <1>1 DEF Complete
<1>4. ValidPack(v) /\ packs[v][0].ckpt.ver = w
  BY <1>2, <1>3 DEF ValidPack
<1>5. ASSUME ValidPack(3 - v) PROVE packs[3 - v][0].ckpt.ver \in 0 .. w - 1
  <2>1. CASE packs[3 - v][0].ckpt.ver = w + 1
    <3>1. packs[3 - v][0].ckpt.total - 1 \in Positions \ {0}
      BY <1>1, <1>5 DEF Outdated, ValidPack
    <3>2. CpVersions(packs[3 - v][packs[3 - v][0].ckpt.total - 1], 0 .. w - 1)
      BY <1>1, <3>1 DEF Outdated
    <3>3. packs[3 - v][packs[3 - v][0].ckpt.total - 1].ckpt.ver = w + 1
      BY <1>5, <2>1 DEF ValidPack
    <3> QED
      BY <1>1, <1>5, <3>2, <3>3 DEF CpVersions, ValidPack
  <2> QED
    BY <1>1, <1>5, <2>1 DEF Outdated, ValidPack
<1>6. CASE v = 1
  BY <1>1, <1>4, <1>5, <1>6 DEF ValidCheckpoint
<1>7. CASE v = 2
  BY <1>1, <1>4, <1>5, <1>7 DEF ValidCheckpoint
<1> QED
  BY <1>1, <1>4, <1>6, <1>7 DEF Packs

\* The invariant holds of any pack that stands, the one found being this one.
InvAround(v, w, bitmap, shape) ==
  /\ Arrays /\ CommittedSitFound
  /\ Standing(v, w, bitmap, shape) /\ Memory(v, w, bitmap, shape)

AroundSuffices == \A v, w, bitmap, shape : InvAround(v, w, bitmap, shape) => CkptInv

\* A pack around which everything stands is the one f3fs_get_valid_checkpoint takes,
\* so the invariant may be shown around it.
LEMMA InvOfStanding == AroundSuffices
<1> SUFFICES ASSUME NEW v, NEW w, NEW bitmap, NEW shape, InvAround(v, w, bitmap, shape)
             PROVE  CkptInv
  BY DEF AroundSuffices
<1> USE DEF InvAround
<1>1. ValidCheckpoint = v
  BY StandingFound
<1>2. Complete(packs[v], w, bitmap, shape)
  BY DEF Standing
<1>3. packs[v][0].ckpt.ver = w /\ packs[v][0].sit_bitmap = bitmap
  BY <1>2, CompleteHead
<1>4. shape \in Shapes
  BY DEF Standing
<1> QED
  BY <1>1, <1>3, <1>4 DEF CkptInv

\* build_sit_entries of the pack that stands reads its own journal.
ReadsOwnJournal ==
  \A v, w, bitmap, shape, j :
    Standing(v, w, bitmap, shape) /\ j = packs[v][Layout(w, shape).start_sum].journal
    => DurableSit = [s \in Segs |-> SitImage(disk_sit, j, bitmap, s)]

\* read_compacted_summaries and build_sit_entries read the SIT of the standing pack.
LEMMA DurableOfStanding == ReadsOwnJournal
<1> SUFFICES ASSUME NEW v, NEW w, NEW bitmap, NEW shape, NEW j,
                    Standing(v, w, bitmap, shape),
                    j = packs[v][Layout(w, shape).start_sum].journal
             PROVE  DurableSit = [s \in Segs |-> SitImage(disk_sit, j, bitmap, s)]
  BY DEF ReadsOwnJournal
<1>1. ValidCheckpoint = v
  BY StandingFound
<1>2. w \in Nat /\ shape \in Shapes /\ Complete(packs[v], w, bitmap, shape)
  BY DEF Standing
<1>3. packs[v][0].ckpt = Layout(w, shape) /\ packs[v][0].sit_bitmap = bitmap
  BY <1>2, CompleteHead
<1>4. 0 \in 0 .. npages_for_summary_flush(Layout(w, shape).sums) - 1
      /\ Layout(w, shape).start_sum \in Nat
  BY <1>2, LayoutParts
<1>5. packs[v][Layout(w, shape).start_sum + 0].kind = "sum"
  BY <1>2, <1>4 DEF Complete
<1>6. Layout(w, shape).start_sum + 0 = Layout(w, shape).start_sum
  BY <1>4
<1>7. JournalOf(packs[v]) = j
  BY <1>3, <1>5, <1>6 DEF JournalOf, Summary
<1>8. DurableSit = [s \in Segs |-> SitImage(disk_sit, JournalOf(packs[v]),
                                            packs[v][0].sit_bitmap, s)]
  BY <1>1 DEF DurableSit
<1> QED
  BY <1>3, <1>7, <1>8

-----------------------------------------------------------------------------
\* A freshly formatted volume: pack 1 stands, pack 2 is of version 0.
LEMMA InitCkptInv == Init => CkptInv
<1> SUFFICES ASSUME Init PROVE CkptInv
  OBVIOUS
<1>1. PICK image \in Images, shape \in Shapes :
        /\ sentries = [s \in Segs |-> image]
        /\ journal = <<>>
        /\ sit_bitmap = [b \in SitBlocks |-> 0]
        /\ ckpt = Layout(1, shape)
        /\ cur_cp_pack = 1 /\ unwritten = {} /\ cp = "none"
        /\ disk_sit = [b \in SitBlocks |-> [c \in Copies |-> sentries]]
        /\ committed = sentries
        /\ packs = [p \in Packs |-> [pos \in Positions |->
                  LET c == [ckpt EXCEPT !.ver = 2 - p] IN
                  IF pos = c.total - 1 THEN CpBlock(c, sit_bitmap)
                  ELSE IF pos \in PackPages(c) THEN PackPage(c, pos) ELSE OtherBlock]]
  BY DEF Init
<1> DEFINE bm == [b \in SitBlocks |-> 0]
           c(p) == Layout(2 - p, shape)
<1>2. \A p \in Packs : [ckpt EXCEPT !.ver = 2 - p] = c(p)
  BY <1>1 DEF Layout
<1>3. Arrays
  BY <1>1 DEF Arrays
<1>4. \A p \in Packs, pos \in Positions : packs[p][pos] =
        IF pos = c(p).total - 1 THEN CpBlock(c(p), bm)
        ELSE IF pos \in PackPages(c(p)) THEN PackPage(c(p), pos) ELSE OtherBlock
  BY <1>1, <1>2
<1>5. /\ c(1) = Layout(1, shape) /\ c(2) = Layout(0, shape)
      /\ 1 \in Packs /\ 2 \in Packs /\ 3 - 1 = 2
  BY DEF Packs
<1>6. sit_bitmap = bm /\ journal = <<>>
  BY <1>1
<1>7. PackPages(c(1)) \subseteq Positions /\ c(1).total - 1 \in Positions
  BY <1>5, PackPageParts, LayoutParts
<1>8. /\ Complete(packs[1], 1, bm, shape)
      /\ packs[1][c(1).start_sum].journal = <<>>
  <2>1. LET d == Layout(1, shape)
        IN  /\ \A pos \in PackPages(d) \ {d.total - 1} : packs[1][pos] = PackPage(d, pos)
            /\ packs[1][d.total - 1] = CpBlock(d, sit_bitmap)
    BY <1>4, <1>5, <1>6, <1>7
  <2>2. /\ Complete(packs[1], 1, sit_bitmap, shape)
        /\ packs[1][Layout(1, shape).start_sum].journal = journal
    BY <2>1, FilledPack
  <2> QED
    BY <1>5, <1>6, <2>2
<1>9. Outdated(1, 1)
  <2>1. ASSUME NEW p \in Packs, NEW pos \in Positions
        PROVE  packs[p][pos].kind = "cp" => packs[p][pos] = CpBlock(c(p), bm)
    BY <1>1, <1>4 DEF PackPage, SumBlock, OtherBlock, CpBlock
  <2>2. \A p \in Packs : CpBlock(c(p), bm).ckpt = c(p) /\ c(p).ver = 2 - p
    BY DEF CpBlock, Layout
  <2>3. c(2).total - 1 \in Positions \ {0} /\ 0 \in Positions
    BY <1>5, LayoutParts
  <2> QED
    BY <1>5, <2>1, <2>2, <2>3 DEF Outdated, CpVersions
<1>10. Standing(1, 1, bm, shape)
  BY <1>8, <1>9 DEF Standing, Packs, Copies
<1>11. Memory(1, 1, bm, shape)
  BY <1>1 DEF Memory
<1>12. CommittedSitFound
  <2>1. DurableSit = [s \in Segs |-> SitImage(disk_sit, <<>>, bm, s)]
    BY <1>5, <1>8, <1>10, DurableOfStanding DEF ReadsOwnJournal
  <2>2. \A s \in Segs : SitImage(disk_sit, <<>>, bm, s) = image
    BY <1>1 DEF SitImage, InJournal, SitBlocks, Copies
  <2> QED
    BY <1>1, <2>1, <2>2 DEF CommittedSitFound
<1> QED
  BY <1>3, <1>10, <1>11, <1>12, InvOfStanding DEF InvAround, AroundSuffices

-----------------------------------------------------------------------------
\* What CkptInv says, for a step to start from.
LEMMA InvParts ==
  ASSUME CkptInv
  PROVE  \E v, w, bitmap, shape :
           Standing(v, w, bitmap, shape) /\ Memory(v, w, bitmap, shape)
BY DEF CkptInv

\* A step that leaves the device alone leaves the pack standing, and what a mount
\* reads is the same.
LEMMA DeviceUnchanged ==
  ASSUME CkptInv, UNCHANGED diskVars,
         NEW v, NEW w, NEW bitmap, NEW shape, Standing(v, w, bitmap, shape)
  PROVE  Standing(v, w, bitmap, shape)' /\ Arrays' /\ CommittedSitFound'
<1>1. packs' = packs /\ disk_sit' = disk_sit /\ committed' = committed
  BY DEF diskVars
<1>2. Standing(v, w, bitmap, shape)'
  BY <1>1 DEF Standing, Complete, Outdated
<1>3. DurableSit' = DurableSit
  BY <1>1 DEF DurableSit, ValidCheckpoint, ValidPack
<1> QED
  BY <1>1, <1>2, <1>3 DEF CkptInv, Arrays, CommittedSitFound

\* UpdateEntry touches neither the device nor what a checkpoint was read from.
LEMMA UpdateStep ==
  ASSUME CkptInv, NEW s \in Segs, NEW image \in Images, UpdateEntry(s, image)
  PROVE  CkptInv'
<1>1. PICK v, w, bitmap, shape : Standing(v, w, bitmap, shape) /\ Memory(v, w, bitmap, shape)
  BY InvParts
<1>2. /\ UNCHANGED diskVars /\ UNCHANGED <<sit_bitmap, ckpt, cur_cp_pack, unwritten, cp>>
  BY DEF UpdateEntry
<1>3. Memory(v, w, bitmap, shape)'
  BY <1>1, <1>2 DEF Memory
<1>4. Standing(v, w, bitmap, shape)' /\ Arrays' /\ CommittedSitFound'
  BY <1>1, <1>2, DeviceUnchanged
<1>5. AroundSuffices'
  BY InvOfStanding, PTL
<1> QED
  BY <1>3, <1>4, <1>5 DEF InvAround, AroundSuffices

\* f3fs_flush_sit_entries makes the other copy current of exactly the blocks that
\* it is going to write (set_to_next_sit).
LEMMA FlushFlips ==
  ASSUME NEW resizefs, FlushSitEntries(resizefs)
  PROVE  \/ UNCHANGED <<sit_bitmap, unwritten>>
         \/ sit_bitmap' = [b \in SitBlocks |-> IF b \in unwritten' THEN 1 - sit_bitmap[b]
                                               ELSE sit_bitmap[b]]
BY Zenon DEF FlushSitEntries, sitVars

\* WriteCheckpoint leaves the device alone, and the SIT copies it is going to write
\* are not those the standing pack reads.
LEMMA WriteStep ==
  ASSUME CkptInv, NEW resizefs \in RESIZEFS, NEW sh \in Shapes, WriteCheckpoint(resizefs, sh)
  PROVE  CkptInv'
<1>1. PICK v, w, bitmap, shape : Standing(v, w, bitmap, shape) /\ Memory(v, w, bitmap, shape)
  BY InvParts
<1>2. /\ UNCHANGED diskVars /\ cur_cp_pack' = cur_cp_pack
      /\ cp = "none" /\ cp' = "flushed" /\ ckpt' = Layout(ckpt.ver + 1, sh)
      /\ FlushSitEntries(resizefs)
  BY DEF WriteCheckpoint
<1>3. /\ cur_cp_pack = v /\ ckpt = Layout(w, shape) /\ sit_bitmap = bitmap /\ unwritten = {}
      /\ bitmap \in [SitBlocks -> Copies]
  BY <1>1, <1>2 DEF Memory, Standing
<1>4. ckpt.ver = w
  BY <1>3 DEF Layout
<1>5. /\ sit_bitmap' \in [SitBlocks -> Copies]
      /\ \A b \in unwritten' \cap SitBlocks : sit_bitmap'[b] # bitmap[b]
  <2>1. CASE UNCHANGED <<sit_bitmap, unwritten>>
    BY <1>3, <2>1
  <2>2. CASE sit_bitmap' = [b \in SitBlocks |-> IF b \in unwritten' THEN 1 - sit_bitmap[b]
                                                ELSE sit_bitmap[b]]
    BY <1>3, <2>2 DEF Copies
  <2> QED
    BY <1>2, <2>1, <2>2, FlushFlips
<1>6. Memory(v, w, bitmap, shape)'
  BY <1>2, <1>3, <1>4, <1>5 DEF Memory
<1>7. Standing(v, w, bitmap, shape)' /\ Arrays' /\ CommittedSitFound'
  BY <1>1, <1>2, DeviceUnchanged
<1>8. AroundSuffices'
  BY InvOfStanding, PTL
<1> QED
  BY <1>6, <1>7, <1>8 DEF InvAround, AroundSuffices

\* A mount takes everything from the standing pack.
LEMMA RemountStep ==
  ASSUME CkptInv, Remount
  PROVE  CkptInv'
<1>1. PICK v, w, bitmap, shape : Standing(v, w, bitmap, shape) /\ Memory(v, w, bitmap, shape)
  BY InvParts
<1>2. ValidCheckpoint = v
  BY <1>1, StandingFound
<1>3. packs[v][0].ckpt = Layout(w, shape) /\ packs[v][0].sit_bitmap = bitmap
  <2>1. Complete(packs[v], w, bitmap, shape)
    BY <1>1 DEF Standing
  <2> QED
    BY <2>1, CompleteHead
<1>4. /\ UNCHANGED diskVars /\ cp' = "none" /\ cur_cp_pack' = v /\ unwritten' = {}
      /\ ckpt' = Layout(w, shape) /\ sit_bitmap' = bitmap
  BY <1>2, <1>3 DEF Remount
<1>5. Memory(v, w, bitmap, shape)'
  BY <1>4 DEF Memory
<1>6. Standing(v, w, bitmap, shape)' /\ Arrays' /\ CommittedSitFound'
  BY <1>1, <1>4, DeviceUnchanged
<1>7. AroundSuffices'
  BY InvOfStanding, PTL
<1> QED
  BY <1>5, <1>6, <1>7 DEF InvAround, AroundSuffices

-----------------------------------------------------------------------------
\* SIT pages of the running checkpoint that arrive do not touch the copies which
\* the standing pack reads (get_next_sit_page).
LEMMA SitPagesElsewhere ==
  ASSUME CkptInv, NEW v, NEW w, NEW bitmap, NEW shape,
         Standing(v, w, bitmap, shape), Memory(v, w, bitmap, shape), cp = "flushed",
         NEW blocks \in SUBSET unwritten
  PROVE  \A j, s : s \in Segs =>
           SitImage(WriteSitPages(blocks), j, bitmap, s) = SitImage(disk_sit, j, bitmap, s)
<1>1. /\ bitmap \in [SitBlocks -> Copies] /\ sit_bitmap \in [SitBlocks -> Copies]
      /\ \A b \in unwritten \cap SitBlocks : sit_bitmap[b] # bitmap[b]
  BY DEF Standing, Memory
<1>2. disk_sit = [b \in SitBlocks |-> [c \in Copies |-> disk_sit[b][c]]]
  BY DEF CkptInv, Arrays
<1>3. ASSUME NEW b \in SitBlocks
      PROVE  WriteSitPages(blocks)[b][bitmap[b]] = disk_sit[b][bitmap[b]]
  <2>1. CASE b \in blocks
    <3>1. sit_bitmap[b] # bitmap[b] /\ bitmap[b] \in Copies
      BY <1>1, <2>1
    <3>2. bitmap[b] \in DOMAIN disk_sit[b]
      BY <1>2, <3>1
    <3> QED
      BY <2>1, <3>1, <3>2 DEF WriteSitPages, CopyToWrite
  <2>2. CASE b \notin blocks
    BY <2>2 DEF WriteSitPages
  <2> QED
    BY <2>1, <2>2
<1>4. \A s \in Segs : SitBlock(s) \in SitBlocks
  BY DEF SitBlocks
<1> QED
  BY <1>3, <1>4 DEF SitImage

\* Pages of the pack being written go to the other pack (__start_cp_next_addr).
LEMMA PackPagesElsewhere ==
  ASSUME Arrays, NEW v \in Packs, cur_cp_pack = v, NEW positions
  PROVE  LET q == WritePackPages(positions)
         IN  /\ NextPack = 3 - v /\ 3 - v \in Packs /\ 3 - v # v
             /\ q[v] = packs[v]
             /\ q[3 - v] = [pos \in Positions |-> IF pos \in positions THEN PackPage(ckpt, pos)
                                                  ELSE packs[3 - v][pos]]
             /\ q = [p \in Packs |-> [pos \in Positions |-> q[p][pos]]]
<1>1. NextPack = 3 - v /\ 3 - v \in Packs /\ 3 - v # v
  BY DEF NextPack, Packs
<1>2. packs = [p \in Packs |-> [pos \in Positions |-> packs[p][pos]]]
  BY DEF Arrays
<1> QED
  BY <1>1, <1>2 DEF WritePackPages

\* Pages that arrive leave the packs and the SIT area arrays over their places.
LEMMA DiskArrays ==
  ASSUME Arrays, NEW blocks
  PROVE  LET d == WriteSitPages(blocks)
         IN  d = [b \in SitBlocks |-> [c \in Copies |-> d[b][c]]]
BY DEF Arrays, WriteSitPages

\* A checkpoint that is not committed leaves the pack standing, whichever of its
\* pages have arrived.
LEMMA TornStep ==
  ASSUME CkptInv, cp = "flushed", cp' = "stopped", UNCHANGED <<memVars, unwritten>>,
         NEW blocks \in SUBSET unwritten, NEW positions \in SUBSET PackPages(ckpt),
         Torn(blocks, positions)
  PROVE  CkptInv'
<1>1. PICK v, w, bitmap, shape : Standing(v, w, bitmap, shape) /\ Memory(v, w, bitmap, shape)
  BY InvParts
<1>2. /\ v \in Packs /\ w \in Nat /\ bitmap \in [SitBlocks -> Copies] /\ shape \in Shapes
      /\ Complete(packs[v], w, bitmap, shape) /\ Outdated(v, w)
  BY <1>1 DEF Standing
<1>3. PICK sh \in Shapes : ckpt = Layout(w + 1, sh)
  BY <1>1 DEF Memory
<1>4. Arrays /\ CommittedSitFound
  BY DEF CkptInv
<1>5. cur_cp_pack = v
  BY <1>1 DEF Memory
<1>6. /\ packs' = WritePackPages(positions) /\ disk_sit' = WriteSitPages(blocks)
      /\ committed' = committed
  BY DEF Torn
<1>7. /\ 3 - v \in Packs /\ 3 - v # v /\ packs'[v] = packs[v]
      /\ \A pos \in Positions : packs'[3 - v][pos] =
           IF pos \in positions THEN PackPage(ckpt, pos) ELSE packs[3 - v][pos]
      /\ packs' = [p \in Packs |-> [pos \in Positions |-> packs'[p][pos]]]
  <2>1. LET q == WritePackPages(positions)
        IN  /\ 3 - v \in Packs /\ 3 - v # v /\ q[v] = packs[v]
            /\ q[3 - v] = [pos \in Positions |-> IF pos \in positions THEN PackPage(ckpt, pos)
                                                 ELSE packs[3 - v][pos]]
            /\ q = [p \in Packs |-> [pos \in Positions |-> q[p][pos]]]
    BY <1>2, <1>4, <1>5, PackPagesElsewhere
  <2> QED
    BY <1>6, <2>1
<1>8. /\ ckpt.ver = w + 1 /\ ckpt.total - 1 \in Positions \ {0} /\ 0 \in Positions
      /\ PackPage(ckpt, 0) = CpBlock(ckpt, sit_bitmap)
      /\ \A pos \in Positions \ {0} : PackPage(ckpt, pos).kind # "cp"
  <2>1. w + 1 \in Nat
    BY <1>2
  <2>2. /\ ckpt.ver = w + 1 /\ ckpt.total - 1 \in Positions \ {0} /\ 0 \in Positions
    BY <1>3, <2>1, LayoutParts
  <2>3. /\ PackPage(ckpt, 0) = CpBlock(ckpt, sit_bitmap)
        /\ \A pos \in Positions \ {0} : PackPage(ckpt, pos).kind # "cp"
    BY <1>3, <2>1, PackPageParts
  <2> QED
    BY <2>2, <2>3
<1>9. Outdated(v, w)'
  <2>1. ASSUME NEW pos \in Positions \ {0}
        PROVE  /\ CpVersions(packs'[v][pos], 0 .. w)
               /\ CpVersions(packs'[3 - v][pos], 0 .. w - 1)
    BY <1>2, <1>7, <1>8 DEF Outdated, CpVersions
  <2>2. ASSUME packs'[3 - v][0].kind = "cp"
        PROVE  /\ packs'[3 - v][0].ckpt.ver \in (0 .. w - 1) \cup {w + 1}
               /\ packs'[3 - v][0].ckpt.total - 1 \in Positions \ {0}
    <3>1. CASE 0 \in positions
      <4>1. packs'[3 - v][0] = CpBlock(ckpt, sit_bitmap)
        BY <1>7, <1>8, <3>1
      <4> QED
        BY <1>8, <4>1 DEF CpBlock
    <3>2. CASE 0 \notin positions
      BY <1>2, <1>7, <1>8, <2>2, <3>2 DEF Outdated
    <3> QED
      BY <3>1, <3>2
  <2> QED
    BY <2>1, <2>2 DEF Outdated
<1>10. Standing(v, w, bitmap, shape)'
  BY <1>2, <1>7, <1>9 DEF Standing
<1>11. Memory(v, w, bitmap, shape)'
  BY <1>8 DEF Memory, memVars
<1>12. Arrays'
  BY <1>4, <1>6, <1>7, DiskArrays DEF Arrays
<1>13. CommittedSitFound'
  <2>1. PICK j : j = packs[v][Layout(w, shape).start_sum].journal
    OBVIOUS
  <2>2. Standing(v, w, bitmap, shape) /\ Memory(v, w, bitmap, shape)
    BY <1>1
  <2>3. DurableSit = [s \in Segs |-> SitImage(disk_sit, j, bitmap, s)]
    BY <2>1, <2>2, DurableOfStanding DEF ReadsOwnJournal
  <2>4. ReadsOwnJournal'
    BY DurableOfStanding, PTL
  <2>5. j = packs'[v][Layout(w, shape).start_sum].journal
    BY <1>7, <2>1
  <2>6. DurableSit' = [s \in Segs |-> SitImage(disk_sit', j, bitmap, s)]
    BY <1>10, <2>4, <2>5 DEF ReadsOwnJournal
  <2>7. \A s \in Segs : SitImage(WriteSitPages(blocks), j, bitmap, s) = SitImage(disk_sit, j, bitmap, s)
    BY <2>2, SitPagesElsewhere
  <2>8. DurableSit' = DurableSit
    BY <1>6, <2>3, <2>6, <2>7
  <2> QED
    BY <1>4, <1>6, <2>8 DEF CommittedSitFound
<1>14. AroundSuffices'
  BY InvOfStanding, PTL
<1> QED
  BY <1>10, <1>11, <1>12, <1>13, <1>14 DEF InvAround, AroundSuffices

\* Once the commit block is there the other pack stands, and a mount reads from it
\* the SIT that the checkpoint wrote.
LEMMA CommitFound ==
  ASSUME CkptInv, Commit, NEW v, NEW w, NEW bitmap, NEW shape,
         Standing(v, w, bitmap, shape), Memory(v, w, bitmap, shape)
  PROVE  /\ Arrays' /\ CommittedSitFound'
         /\ cur_cp_pack = v
         /\ \E sh, bm : /\ sit_bitmap = bm /\ ckpt = Layout(w + 1, sh) /\ ckpt.ver = w + 1
                        /\ Standing(3 - v, w + 1, bm, sh)'
<1>1. /\ v \in Packs /\ w \in Nat /\ bitmap \in [SitBlocks -> Copies] /\ shape \in Shapes
      /\ Complete(packs[v], w, bitmap, shape) /\ Outdated(v, w)
  BY DEF Standing
<1>2. /\ cp = "flushed" /\ disk_sit' = WriteSitPages(unwritten) /\ committed' = WrittenSit
      /\ packs' = [WritePackPages(PackPages(ckpt)) EXCEPT
                     ![NextPack][ckpt.total - 1] = CpBlock(ckpt, sit_bitmap)]
  BY DEF Commit
<1>3. /\ cur_cp_pack = v /\ sit_bitmap \in [SitBlocks -> Copies]
  BY <1>2 DEF Memory
<1>4. PICK sh \in Shapes : ckpt = Layout(w + 1, sh)
  BY <1>2 DEF Memory
<1>5. Arrays
  BY DEF CkptInv
<1>6. PICK q : q = WritePackPages(PackPages(ckpt))
  OBVIOUS
<1>7. /\ NextPack = 3 - v /\ 3 - v \in Packs /\ 3 - v # v /\ q[v] = packs[v]
      /\ q[3 - v] = [pos \in Positions |-> IF pos \in PackPages(ckpt) THEN PackPage(ckpt, pos)
                                           ELSE packs[3 - v][pos]]
      /\ q = [p \in Packs |-> [pos \in Positions |-> q[p][pos]]]
  BY <1>1, <1>3, <1>5, <1>6, PackPagesElsewhere
<1>8. /\ w + 1 \in Nat /\ ckpt.ver = w + 1 /\ ckpt.total - 1 \in Positions \ {0}
      /\ 0 \in Positions /\ PackPages(ckpt) \subseteq Positions
      /\ \A pos \in Positions \ {0} : PackPage(ckpt, pos).kind # "cp"
  <2>1. w + 1 \in Nat
    BY <1>1
  <2>2. /\ ckpt.ver = w + 1 /\ ckpt.total - 1 \in Positions \ {0} /\ 0 \in Positions
    BY <1>4, <2>1, LayoutParts
  <2>3. /\ PackPages(ckpt) \subseteq Positions
        /\ \A pos \in Positions \ {0} : PackPage(ckpt, pos).kind # "cp"
    BY <1>4, <2>1, PackPageParts
  <2> QED
    BY <2>1, <2>2, <2>3
<1>9. packs' = [q EXCEPT ![3 - v][ckpt.total - 1] = CpBlock(ckpt, sit_bitmap)]
  BY <1>2, <1>6, <1>7
<1>10. /\ packs'[v] = packs[v]
       /\ packs'[3 - v][ckpt.total - 1] = CpBlock(ckpt, sit_bitmap)
       /\ \A pos \in Positions \ {ckpt.total - 1} : packs'[3 - v][pos] =
            IF pos \in PackPages(ckpt) THEN PackPage(ckpt, pos) ELSE packs[3 - v][pos]
       /\ packs' = [p \in Packs |-> [pos \in Positions |-> packs'[p][pos]]]
  <2>1. packs'[v] = q[v]
    BY <1>1, <1>7, <1>9
  <2>2. packs'[3 - v] = [q[3 - v] EXCEPT ![ckpt.total - 1] = CpBlock(ckpt, sit_bitmap)]
    BY <1>7, <1>9
  <2>3. packs' = [p \in Packs |-> [pos \in Positions |-> packs'[p][pos]]]
    BY <1>1, <1>7, <1>8, <1>9, <2>1, <2>2
  <2> QED
    BY <1>7, <1>8, <2>1, <2>2, <2>3
<1>11. /\ Complete(packs'[3 - v], w + 1, sit_bitmap, sh)
       /\ packs'[3 - v][Layout(w + 1, sh).start_sum].journal = journal
  <2>1. /\ \A pos \in PackPages(ckpt) \ {ckpt.total - 1} : packs'[3 - v][pos] = PackPage(ckpt, pos)
        /\ packs'[3 - v][ckpt.total - 1] = CpBlock(ckpt, sit_bitmap)
    BY <1>8, <1>10
  <2> QED
    BY <1>4, <1>8, <2>1, FilledPack
<1>12. Outdated(3 - v, w + 1)'
  <2>1. 3 - (3 - v) = v /\ (w + 1) - 1 = w /\ v \in Packs
    BY <1>1 DEF Packs
  <2>2. ASSUME NEW pos \in Positions \ {0}
        PROVE  CpVersions(packs'[v][pos], 0 .. w)
    BY <1>1, <1>10 DEF Outdated
  <2>3. ASSUME NEW pos \in Positions \ {0}
        PROVE  CpVersions(packs'[3 - v][pos], 0 .. w + 1)
    <3>1. CASE pos = ckpt.total - 1
      BY <1>1, <1>8, <1>10, <3>1 DEF CpVersions, CpBlock
    <3>2. CASE pos # ckpt.total - 1
      <4>1. packs'[3 - v][pos].kind # "cp" \/ packs'[3 - v][pos] = packs[3 - v][pos]
        BY <1>8, <1>10, <3>2
      <4>2. CpVersions(packs[3 - v][pos], 0 .. w - 1)
        BY <1>1 DEF Outdated
      <4>3. 0 .. w - 1 \subseteq 0 .. w + 1
        BY <1>1
      <4> QED
        BY <4>1, <4>2, <4>3 DEF CpVersions
    <3> QED
      BY <3>1, <3>2
  <2>4. packs'[v][0].ckpt = Layout(w, shape)
    BY <1>1, <1>10, CompleteHead
  <2>5. /\ packs'[v][0].ckpt.ver \in 0 .. w
        /\ packs'[v][0].ckpt.total - 1 \in Positions \ {0}
    <3>1. Layout(w, shape).ver = w /\ Layout(w, shape).total - 1 \in Positions \ {0}
      BY <1>1, LayoutParts
    <3>2. w \in 0 .. w
      BY <1>1
    <3> QED
      BY <2>4, <3>1, <3>2
  <2> QED
    BY <2>1, <2>2, <2>3, <2>5 DEF Outdated
<1>13. PICK bm : bm = sit_bitmap
  OBVIOUS
<1>14. Standing(3 - v, w + 1, bm, sh)'
  BY <1>3, <1>7, <1>8, <1>11, <1>12, <1>13 DEF Standing
<1>15. Arrays'
  BY <1>2, <1>5, <1>10, DiskArrays DEF Arrays
<1>16. CommittedSitFound'
  <2>1. ReadsOwnJournal'
    BY DurableOfStanding, PTL
  <2>2. DurableSit' = [s \in Segs |-> SitImage(disk_sit', journal, bm, s)]
    BY <1>11, <1>14, <2>1 DEF ReadsOwnJournal
  <2> QED
    BY <1>2, <1>13, <2>2 DEF CommittedSitFound, WrittenSit
<1> QED
  BY <1>3, <1>4, <1>8, <1>13, <1>14, <1>15, <1>16

\* The end of do_checkpoint: the invariant holds with the other pack standing.
LEMMA CommitStep ==
  ASSUME CkptInv, CommitCheckpoint
  PROVE  CkptInv'
<1>1. PICK v, w, bitmap, shape : Standing(v, w, bitmap, shape) /\ Memory(v, w, bitmap, shape)
  BY InvParts
<1>2. /\ Commit /\ cp' = "none" /\ cur_cp_pack' = NextPack /\ unwritten' = {}
      /\ sit_bitmap' = sit_bitmap /\ ckpt' = ckpt
  BY DEF CommitCheckpoint, sitVars
<1>3. Arrays' /\ CommittedSitFound' /\ cur_cp_pack = v
  BY <1>1, <1>2, CommitFound
<1>4. PICK sh, bm : /\ sit_bitmap = bm /\ ckpt = Layout(w + 1, sh)
                    /\ Standing(3 - v, w + 1, bm, sh)'
  BY <1>1, <1>2, CommitFound
<1>5. Memory(3 - v, w + 1, bm, sh)'
  BY <1>2, <1>3, <1>4 DEF Memory, NextPack
<1>6. AroundSuffices'
  BY InvOfStanding, PTL
<1> QED
  BY <1>3, <1>4, <1>5, <1>6 DEF InvAround, AroundSuffices

\* Power is lost between checkpoints, in the middle of one, or after the commit
\* block has reached the device.
LEMMA StopStep ==
  ASSUME CkptInv, Stop
  PROVE  CkptInv'
<1>1. PICK v, w, bitmap, shape : Standing(v, w, bitmap, shape) /\ Memory(v, w, bitmap, shape)
  BY InvParts
<1>2. cp' = "stopped" /\ UNCHANGED <<memVars, unwritten>> /\ ckpt' = ckpt
  BY DEF Stop, memVars
<1>3. AroundSuffices'
  BY InvOfStanding, PTL
<1>4. CASE cp = "none" /\ UNCHANGED diskVars
  <2>1. ckpt.ver = w
    BY <1>1, <1>4 DEF Memory, Layout
  <2>2. Memory(v, w, bitmap, shape)'
    BY <1>2, <2>1 DEF Memory
  <2>3. Standing(v, w, bitmap, shape)' /\ Arrays' /\ CommittedSitFound'
    BY <1>1, <1>4, DeviceUnchanged
  <2> QED
    BY <1>3, <2>2, <2>3 DEF InvAround, AroundSuffices
<1>5. CASE cp = "flushed" /\ \E blocks \in SUBSET unwritten, positions \in SUBSET PackPages(ckpt) :
                               Torn(blocks, positions)
  BY <1>2, <1>5, TornStep
<1>6. CASE Commit
  <2>1. Arrays' /\ CommittedSitFound'
    BY <1>1, <1>6, CommitFound
  <2>2. PICK sh, bm : ckpt.ver = w + 1 /\ Standing(3 - v, w + 1, bm, sh)'
    BY <1>1, <1>6, CommitFound
  <2>3. Memory(3 - v, w + 1, bm, sh)'
    BY <1>2, <2>2 DEF Memory
  <2> QED
    BY <1>3, <2>1, <2>2, <2>3 DEF InvAround, AroundSuffices
<1> QED
  BY <1>4, <1>5, <1>6 DEF Stop

-----------------------------------------------------------------------------
\* One pack stands, the memory agrees with it, and the SIT read through it is the one
\* committed, however many checkpoints f3fs_write_checkpoint made, were torn or
\* were mounted again.
THEOREM CkptInvariant == Spec => []CkptInv
<1>1. CkptInv /\ [Next]_vars => CkptInv'
  <2> SUFFICES ASSUME CkptInv, [Next]_vars PROVE CkptInv'
    OBVIOUS
  <2>1. ASSUME NEW s \in Segs, NEW image \in Images, UpdateEntry(s, image) PROVE CkptInv'
    BY <2>1, UpdateStep
  <2>2. ASSUME NEW resizefs \in RESIZEFS, NEW shape \in Shapes, WriteCheckpoint(resizefs, shape)
        PROVE  CkptInv'
    BY <2>2, WriteStep
  <2>3. CASE CommitCheckpoint
    BY <2>3, CommitStep
  <2>4. CASE Stop
    BY <2>4, StopStep
  <2>5. CASE Remount
    BY <2>5, RemountStep
  <2>6. CASE UNCHANGED vars
    <3>1. PICK v, w, bitmap, shape :
            Standing(v, w, bitmap, shape) /\ Memory(v, w, bitmap, shape)
      BY InvParts
    <3>2. /\ UNCHANGED diskVars /\ UNCHANGED <<sit_bitmap, ckpt, cur_cp_pack, unwritten, cp>>
      BY <2>6 DEF vars, memVars, sitVars
    <3>3. Memory(v, w, bitmap, shape)'
      BY <3>1, <3>2 DEF Memory
    <3>4. Standing(v, w, bitmap, shape)' /\ Arrays' /\ CommittedSitFound'
      BY <3>1, <3>2, DeviceUnchanged
    <3>5. AroundSuffices'
      BY InvOfStanding, PTL
    <3> QED
      BY <3>3, <3>4, <3>5 DEF InvAround, AroundSuffices
  <2> QED
    BY <2>1, <2>2, <2>3, <2>4, <2>5, <2>6 DEF Next
<1> QED
  BY InitCkptInv, <1>1, PTL DEF Spec

\* Whenever the system stops, in the middle of f3fs_write_checkpoint or not, a mount
\* reads the SIT as the last committed checkpoint wrote it, for every number of
\* segments, size of a SIT block, journal and shape of a checkpoint.
THEOREM CommittedSitFoundAlways == Spec => []CommittedSitFound
<1>1. CkptInv => CommittedSitFound
  BY DEF CkptInv
<1> QED
  BY <1>1, CkptInvariant, PTL

\* f3fs_get_valid_checkpoint finds a valid pack whatever was being written, it is the
\* last one committed, and the summary blocks counted for it are its own.
THEOREM LastPackFoundAlways == Spec => []LastPackFound
<1>1. CkptInv => LastPackFound
  <2> SUFFICES ASSUME CkptInv PROVE LastPackFound
    OBVIOUS
  <2>1. PICK v, w, bitmap, shape : Standing(v, w, bitmap, shape) /\ Memory(v, w, bitmap, shape)
    BY InvParts
  <2>2. ValidCheckpoint = v /\ ValidPack(v)
    BY <2>1, StandingFound
  <2>3. w \in Nat /\ shape \in Shapes /\ Complete(packs[v], w, bitmap, shape)
    BY <2>1 DEF Standing
  <2>4. packs[v][0].ckpt = Layout(w, shape)
    BY <2>3, CompleteHead
  <2>5. Layout(w, shape).ver = w
    BY DEF Layout
  <2>6. cp = "none" => packs[v][0].ckpt = ckpt /\ v = cur_cp_pack
    BY <2>1, <2>4 DEF Memory
  <2>7. cp = "flushed" => packs[v][0].ckpt.ver = ckpt.ver - 1 /\ v = cur_cp_pack
    <3> SUFFICES ASSUME cp = "flushed"
                 PROVE  packs[v][0].ckpt.ver = ckpt.ver - 1 /\ v = cur_cp_pack
      OBVIOUS
    <3>1. PICK sh \in Shapes : ckpt = Layout(w + 1, sh)
      BY <2>1 DEF Memory
    <3>2. ckpt.ver = w + 1
      BY <3>1 DEF Layout
    <3> QED
      BY <2>1, <2>3, <2>4, <2>5, <3>2 DEF Memory
  <2>8. cp = "stopped" => packs[v][0].ckpt.ver \in {ckpt.ver - 1, ckpt.ver}
    BY <2>1, <2>3, <2>4, <2>5 DEF Memory
  <2>9. \A k \in 0 .. npages_for_summary_flush(packs[v][0].ckpt.sums) - 1 :
          LET sum == Summary(packs[v], k)
          IN  sum.kind = "sum" /\ sum.index = k /\ sum.ver = packs[v][0].ckpt.ver
    BY <2>3, <2>4, <2>5 DEF Complete, Summary
  <2> QED
    BY <2>2, <2>6, <2>7, <2>8, <2>9 DEF LastPackFound
<1> QED
  BY <1>1, CkptInvariant, PTL

=============================================================================
