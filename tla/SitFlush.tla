------------------------------ MODULE SitFlush ------------------------------
(***************************************************************************)
(* How f3fs_flush_sit_entries makes the segment information table (SIT)    *)
(* durable: the dirty bitmap and its counter, the list of SIT entry sets,  *)
(* the SIT journal in the cold data summary, the two copies of every SIT   *)
(* block, the two checkpoint packs and the block that commits one, crash   *)
(* in the middle of any of it, and mount.                                  *)
(* src/f2fs/segment.c, segment.h, f3fs.h, checkpoint.c.                    *)
(*                                                                         *)
(* The content of a SIT entry is an opaque image.  Writers are held off    *)
(* while a checkpoint runs (block_operations), so the flush is one step.   *)
(* The pages a checkpoint submits reach the device in any order, which     *)
(* nobody sees until the system stops: then some of them have arrived.     *)
(* The commit block is submitted with PREFLUSH and FUA, after all others.  *)
(* Compacted summaries are the only form of the data summaries: there are  *)
(* NR_CURSEG_DATA_TYPE = 61 data logs (f3fs.h:1007), and at most           *)
(* NR_SUM_PAGES = 3 blocks are ever counted for them.                      *)
(***************************************************************************)
EXTENDS Integers, SequencesExt

CONSTANTS MAIN_SEGS,            \* number of segments of the main area
          SIT_ENTRY_PER_BLOCK,  \* entries in a SIT block
          SIT_JOURNAL_ENTRIES,  \* entries the journal holds
          Images,               \* contents of a SIT entry
          RESIZEFS,             \* values SBI_IS_RESIZEFS takes
          NR_SUM_PAGES,         \* most blocks counted for the data summaries
          NR_CURSEG_NODE_TYPE,  \* node logs, one summary block each
          Shapes                \* what a checkpoint has to hold besides the SIT

ASSUME SitAssumption ==
  /\ MAIN_SEGS \in Nat \ {0}
  /\ SIT_ENTRY_PER_BLOCK \in Nat \ {0}
  /\ SIT_JOURNAL_ENTRIES \in Nat
  /\ Images # {}
  /\ RESIZEFS \subseteq BOOLEAN
  /\ NR_SUM_PAGES \in Nat \ {0}
  /\ NR_CURSEG_NODE_TYPE \in Nat \ {0}
  /\ Shapes # {} /\ Shapes \subseteq [orphans : Nat, sums : Nat \ {0}, umount : BOOLEAN]

Segs == 0 .. MAIN_SEGS - 1
SitBlock(segno) == segno \div SIT_ENTRY_PER_BLOCK
SitBlocks == {SitBlock(s) : s \in Segs}
Copies == {0, 1}
Packs == {1, 2}
Positions == UNION {0 .. 2 + s.orphans + s.sums + NR_CURSEG_NODE_TYPE : s \in Shapes}

VARIABLES
  sentries,         \* the SIT entries in memory
  dirty_bitmap,     \* sit_i->dirty_sentries_bitmap
  dirty_sentries,   \* sit_i->dirty_sentries, the counter
  sit_entry_set,    \* SM_I(sbi)->sit_entry_set, a list of sets
  journal,          \* the SIT journal in memory
  sit_bitmap,       \* the current copy of every SIT block, in memory
  ckpt,             \* F3FS_CKPT: version and layout of the checkpoint
  cur_cp_pack,      \* the pack of the last checkpoint
  unwritten,        \* SIT blocks the running checkpoint writes
  cp,               \* where the checkpoint is
  disk_sit,         \* both copies of every SIT block on the device
  packs,            \* both checkpoint packs on the device
  committed         \* history: the SIT of the last checkpoint committed

sitVars == <<sentries, dirty_bitmap, dirty_sentries, sit_entry_set, journal, sit_bitmap>>
memVars == <<sitVars, ckpt, cur_cp_pack>>
diskVars == <<disk_sit, packs, committed>>
vars    == <<memVars, unwritten, cp, diskVars>>

JournalType == Seq([segno : Segs, sit : Images])
CkptType == [ver : Nat, start_sum : Nat, total : Nat, sums : Nat, umount : BOOLEAN]
BlockType == [kind : {"cp"}, ckpt : CkptType, sit_bitmap : [SitBlocks -> Copies]]
        \cup [kind : {"sum"}, index : Nat, ver : Nat, journal : JournalType]
        \cup [kind : {"other"}]

\* Every variable has the range its C declaration and its use give it; neither
\* journal nor set list names a segment or a SIT block twice, and the journal
\* stays within its SIT_JOURNAL_ENTRIES slots.
TypeOK ==
  /\ sentries \in [Segs -> Images]
  /\ dirty_bitmap \subseteq Segs
  /\ dirty_sentries \in Nat
  /\ Range(sit_entry_set) \subseteq [blk : SitBlocks, entry_cnt : Nat \ {0}]
  /\ IsInjective([i \in DOMAIN sit_entry_set |-> sit_entry_set[i].blk])
  /\ journal \in JournalType
  /\ IsInjective([i \in DOMAIN journal |-> journal[i].segno])
  /\ Len(journal) <= SIT_JOURNAL_ENTRIES
  /\ sit_bitmap \in [SitBlocks -> Copies]
  /\ ckpt \in CkptType
  /\ cur_cp_pack \in Packs
  /\ unwritten \subseteq SitBlocks
  /\ cp \in {"none", "flushed", "stopped"}
  /\ disk_sit \in [SitBlocks -> [Copies -> [Segs -> Images]]]
  /\ committed \in [Segs -> Images]
  /\ packs \in [Packs -> [Positions -> BlockType]]

-----------------------------------------------------------------------------
\* A position of the journal that holds segno, if any.
InJournal(j, segno) == {i \in DOMAIN j : j[i].segno = segno}

\* build_sit_entries: the journal overrides the current copy of the SIT block.
SitImage(sit, j, bitmap, segno) ==
  IF InJournal(j, segno) # {}
  THEN j[CHOOSE i \in InJournal(j, segno) : TRUE].sit
  ELSE sit[SitBlock(segno)][bitmap[SitBlock(segno)]][segno]

-----------------------------------------------------------------------------
\* The blocks of a pack: the checkpoint itself, a data summary block (the first
\* one holds the SIT journal), and what carries nothing the model reads.
CpBlock(c, bitmap) == [kind |-> "cp", ckpt |-> c, sit_bitmap |-> bitmap]
SumBlock(k, c, j) == [kind |-> "sum", index |-> k, ver |-> c.ver,
                      journal |-> IF k = 0 THEN j ELSE <<>>]
OtherBlock == [kind |-> "other"]

\* f3fs_npages_for_summary_flush, for entries that fill that many blocks.
npages_for_summary_flush(sums) == IF sums <= NR_SUM_PAGES THEN sums ELSE NR_SUM_PAGES

\* __remain_node_summaries, __exist_node_summaries
NodeSummaries(umount) == IF umount THEN NR_CURSEG_NODE_TYPE ELSE 0

\* Where do_checkpoint puts the parts of the pack.
Layout(ver, shape) ==
  [ver |-> ver, start_sum |-> 1 + shape.orphans,
   total |-> 2 + shape.orphans + npages_for_summary_flush(shape.sums)
               + NodeSummaries(shape.umount),
   sums |-> shape.sums, umount |-> shape.umount]

\* The summary blocks write_compacted_summaries fills: as many as the entries
\* take, whatever was counted for them.
SummaryPages(c) == c.start_sum .. c.start_sum + c.sums - 1

\* The meta pages of the pack that are dirty when do_checkpoint syncs them, all
\* but the commit block, and what they hold: where two parts meet, the node
\* summaries, which are written last.
PackPages(c) == (0 .. c.total - 2) \cup SummaryPages(c)
PackPage(c, pos) ==
  IF pos = 0 THEN CpBlock(c, sit_bitmap)
  ELSE IF pos \in SummaryPages(c) \ (c.total - 1 - NodeSummaries(c.umount) .. c.total - 2)
  THEN SumBlock(pos - c.start_sum, c, journal)
  ELSE OtherBlock

\* validate_checkpoint: the first and the last block of the pack are checkpoint
\* blocks (get_checkpoint_version checks the CRC) of one version.
ValidPack(p) ==
  LET head == packs[p][0] IN
  /\ head.kind = "cp"
  /\ LET foot == packs[p][head.ckpt.total - 1] IN
     foot.kind = "cp" /\ foot.ckpt.ver = head.ckpt.ver

\* f3fs_get_valid_checkpoint: the pack a mount takes, when one is valid.
ValidCheckpoint ==
  IF ValidPack(2) /\ (ValidPack(1) => packs[2][0].ckpt.ver > packs[1][0].ckpt.ver)
  THEN 2 ELSE 1

\* read_compacted_summaries: block k of the summaries, and the SIT journal.
Summary(pack, k) == pack[pack[0].ckpt.start_sum + k]
JournalOf(pack) == IF Summary(pack, 0).kind = "sum" THEN Summary(pack, 0).journal ELSE <<>>

\* The SIT a mount would read now.
DurableSit ==
  LET pack == packs[ValidCheckpoint]
      j    == JournalOf(pack)
  IN [s \in Segs |-> SitImage(disk_sit, j, pack[0].sit_bitmap, s)]

\* __has_cursum_space
HasCursumSpace(j, size) == size <= SIT_JOURNAL_ENTRIES - Len(j)

\* for_each_set_bit
InOrder(segs) == SetToSortSeq(segs, <)

\* adjust_sit_entry_set: a set moves back to stand before the next set that has
\* at least as many entries.
AdjustSitEntrySet(list, i) ==
  LET ses   == list[i]
      rest  == RemoveAt(list, i)
      after == {j \in i .. Len(rest) : ses.entry_cnt <= rest[j].entry_cnt}
  IN IF after = {} THEN Append(rest, ses)
     ELSE InsertAt(rest, CHOOSE j \in after : \A k \in after : j <= k, ses)

\* add_sit_entry
AddSitEntry(list, segno) ==
  LET found == {i \in DOMAIN list : list[i].blk = SitBlock(segno)} IN
  IF found = {}
  THEN <<[blk |-> SitBlock(segno), entry_cnt |-> 1]>> \o list
  ELSE LET i == CHOOSE i \in found : TRUE
       IN AdjustSitEntrySet([list EXCEPT ![i].entry_cnt = @ + 1], i)

\* add_sits_in_set
AddSitsInSet(list, bitmap) == FoldLeft(AddSitEntry, list, InOrder(bitmap))

\* Variant: an entry found in the journal is not overwritten.
StoreInJournalKeepsOld(j, segno) ==
  IF InJournal(j, segno) # {} THEN j
  ELSE Append(j, [segno |-> segno, sit |-> sentries[segno]])

\* f3fs_lookup_journal_in_cursum and the store that follows it.
StoreInJournal(j, segno) ==
  LET entry == [segno |-> segno, sit |-> sentries[segno]] IN
  IF InJournal(j, segno) # {}
  THEN [i \in DOMAIN j |-> IF j[i].segno = segno THEN entry ELSE j[i]]
  ELSE Append(j, entry)

\* Variant: a set that does not fit into the journal is dropped.
FlushSetNoPage(st, ses) ==
  LET segs == {s \in st.dirty : SitBlock(s) = ses.blk}
      to_journal == st.to_journal /\ HasCursumSpace(st.journal, ses.entry_cnt)
  IN [st EXCEPT
        !.dirty = @ \ segs,
        !.to_journal = to_journal,
        !.journal = IF to_journal THEN FoldLeft(StoreInJournal, @, InOrder(segs)) ELSE @]

\* One set of the flush loop: into the journal while there is room, from then
\* on into the other copy of its SIT block.
FlushSet(st, ses) ==
  LET segs == {s \in st.dirty : SitBlock(s) = ses.blk}
      to_journal == st.to_journal /\ HasCursumSpace(st.journal, ses.entry_cnt)
  IN [st EXCEPT
        !.dirty = @ \ segs,
        !.to_journal = to_journal,
        !.journal = IF to_journal THEN FoldLeft(StoreInJournal, @, InOrder(segs)) ELSE @,
        !.pages = IF to_journal THEN @ ELSE @ \cup {ses.blk}]

-----------------------------------------------------------------------------
\* A freshly formatted volume, mounted from its first pack.
Init ==
  \E image \in Images, shape \in Shapes :
    /\ sentries = [s \in Segs |-> image]
    /\ dirty_bitmap = {}
    /\ dirty_sentries = 0
    /\ sit_entry_set = <<>>
    /\ journal = <<>>
    /\ sit_bitmap = [b \in SitBlocks |-> 0]
    /\ ckpt = Layout(1, shape)
    /\ cur_cp_pack = 1
    /\ unwritten = {}
    /\ cp = "none"
    /\ disk_sit = [b \in SitBlocks |-> [c \in Copies |-> sentries]]
    /\ committed = sentries
    /\ packs = [p \in Packs |-> [pos \in Positions |->
                  LET c == [ckpt EXCEPT !.ver = 2 - p] IN
                  IF pos = c.total - 1 THEN CpBlock(c, sit_bitmap)
                  ELSE IF pos \in PackPages(c) THEN PackPage(c, pos) ELSE OtherBlock]]

\* A SIT entry changes (update_sit_entry2, __set_sit_entry_type), followed by
\* __mark_sit_entry_dirty.
UpdateEntry(segno, image) ==
  /\ cp = "none"
  /\ image # sentries[segno]
  /\ sentries' = [sentries EXCEPT ![segno] = image]
  /\ dirty_bitmap' = dirty_bitmap \cup {segno}
  /\ dirty_sentries' = dirty_sentries + (IF segno \in dirty_bitmap THEN 0 ELSE 1)
  /\ UNCHANGED <<sit_entry_set, journal, sit_bitmap, ckpt, cur_cp_pack, unwritten, cp,
                 diskVars>>

\* f3fs_flush_sit_entries.  At most dirty_sentries sets are written: the loop
\* counts sets, not entries, and stops at the number of dirty entries there
\* were before the journal was emptied.
FlushSitEntries(resizefs) ==
  LET listed  == AddSitsInSet(sit_entry_set, dirty_bitmap)
      emptied == resizefs \/ ~HasCursumSpace(journal, dirty_sentries)
      added   == IF emptied THEN {e.segno : e \in Range(journal)} \ dirty_bitmap ELSE {}
      sets    == IF emptied
                 THEN FoldLeft(AddSitEntry, listed,
                        SelectSeq([i \in DOMAIN journal |-> journal[i].segno],
                                  LAMBDA s : s \in added))
                 ELSE listed
      written == IF Len(sets) < dirty_sentries THEN Len(sets) ELSE dirty_sentries
      st == FoldLeft(FlushSet,
                     [dirty |-> dirty_bitmap \cup added, to_journal |-> ~resizefs,
                      journal |-> IF emptied THEN <<>> ELSE journal, pages |-> {}],
                     SubSeq(sets, 1, written))
  IN IF dirty_sentries = 0
     THEN UNCHANGED <<sitVars, unwritten>>
     ELSE /\ sit_entry_set' = SubSeq(sets, written + 1, Len(sets))
          /\ dirty_bitmap' = st.dirty
          /\ dirty_sentries' = dirty_sentries + Cardinality(added) - written
          /\ journal' = st.journal
          /\ sit_bitmap' = [b \in SitBlocks |-> IF b \in st.pages THEN 1 - sit_bitmap[b]
                                                ELSE sit_bitmap[b]]
          /\ unwritten' = st.pages
          /\ UNCHANGED sentries

\* f3fs_write_checkpoint up to the commit: the next version, the SIT, the pack.
WriteCheckpoint(resizefs, shape) ==
  /\ cp = "none"
  /\ cp' = "flushed"
  /\ FlushSitEntries(resizefs)
  /\ ckpt' = Layout(ckpt.ver + 1, shape)
  /\ UNCHANGED <<cur_cp_pack, diskVars>>

\* Variant: the current copy is overwritten.
CopyToWriteCurrent(b) == 1 - sit_bitmap[b]

\* get_next_sit_page: the copy that set_to_next_sit made current.
CopyToWrite(b) == sit_bitmap[b]

\* SIT pages reach the device: seg_info_to_sit_page filled each with all the
\* entries of its block.
WriteSitPages(blocks) ==
  [b \in SitBlocks |->
     IF b \in blocks
     THEN [disk_sit[b] EXCEPT ![CopyToWrite(b)] =
             [s \in Segs |-> IF SitBlock(s) = b THEN sentries[s] ELSE @[s]]]
     ELSE disk_sit[b]]

\* The SIT as the running checkpoint leaves it.
WrittenSit == [s \in Segs |-> SitImage(WriteSitPages(unwritten), journal, sit_bitmap, s)]

\* __start_cp_next_addr, __set_cp_next_pack
NextPack == 3 - cur_cp_pack

\* Pages of the pack, f3fs_sync_meta_pages having submitted them, reach the
\* device.
WritePackPages(positions) ==
  [packs EXCEPT ![NextPack] =
     [pos \in Positions |-> IF pos \in positions THEN PackPage(ckpt, pos) ELSE @[pos]]]

\* do_checkpoint has waited for every page (f3fs_wait_on_all_pages) and
\* commit_checkpoint writes the last block of the pack.
Commit ==
  /\ cp = "flushed"
  /\ disk_sit' = WriteSitPages(unwritten)
  /\ committed' = WrittenSit
  /\ packs' = [WritePackPages(PackPages(ckpt)) EXCEPT
                  ![NextPack][ckpt.total - 1] = CpBlock(ckpt, sit_bitmap)]

CommitCheckpoint ==
  /\ Commit
  /\ cp' = "none"
  /\ cur_cp_pack' = NextPack
  /\ unwritten' = {}
  /\ UNCHANGED <<sitVars, ckpt>>

\* Variant: the commit block does not wait for the other pages of the pack.
TornEarly(blocks, positions) ==
  /\ disk_sit' = WriteSitPages(blocks)
  /\ UNCHANGED committed
  /\ packs' = [WritePackPages(positions) EXCEPT
                  ![NextPack][ckpt.total - 1] = CpBlock(ckpt, sit_bitmap)]

\* Some pages of an unfinished checkpoint have arrived, the commit block not.
Torn(blocks, positions) ==
  /\ disk_sit' = WriteSitPages(blocks)
  /\ UNCHANGED committed
  /\ packs' = WritePackPages(positions)

\* Power is lost, or a write fails and f3fs_stop_checkpoint forbids further
\* checkpoints.  A commit block whose write failed may be there all the same.
Stop ==
  /\ cp' = "stopped"
  /\ \/ cp = "none" /\ UNCHANGED diskVars
     \/ /\ cp = "flushed"
        /\ \E blocks \in SUBSET unwritten, positions \in SUBSET PackPages(ckpt) :
             Torn(blocks, positions)
     \/ Commit
  /\ UNCHANGED <<memVars, unwritten>>

\* The volume is mounted again: f3fs_get_valid_checkpoint,
\* restore_curseg_summaries, build_sit_info, build_sit_entries.
Remount ==
  /\ cp = "stopped"
  /\ cp' = "none"
  /\ ValidPack(ValidCheckpoint)
  /\ cur_cp_pack' = ValidCheckpoint
  /\ ckpt' = packs[ValidCheckpoint][0].ckpt
  /\ sit_bitmap' = packs[ValidCheckpoint][0].sit_bitmap
  /\ journal' = JournalOf(packs[ValidCheckpoint])
  /\ sentries' = DurableSit
  /\ dirty_bitmap' = {}
  /\ dirty_sentries' = 0
  /\ sit_entry_set' = <<>>
  /\ unwritten' = {}
  /\ UNCHANGED diskVars

Next ==
  \/ \E s \in Segs, image \in Images : UpdateEntry(s, image)
  \/ \E resizefs \in RESIZEFS, shape \in Shapes : WriteCheckpoint(resizefs, shape)
  \/ CommitCheckpoint
  \/ Stop
  \/ Remount

Spec == Init /\ [][Next]_vars

-----------------------------------------------------------------------------
\* An entry whose latest content is not on the device is marked dirty, whatever
\* was left out by earlier flushes, so a later checkpoint can still write it.
StaleEntriesDirty ==
  cp = "none" => \A s \in Segs : DurableSit[s] # sentries[s] => s \in dirty_bitmap

\* The counter never falls below the number of dirty entries: the flush loop,
\* which stops after that many sets, reaches every dirty entry unless emptying
\* the journal adds more.
CounterCoversDirty == dirty_sentries >= Cardinality(dirty_bitmap)

\* What a checkpoint misses can be told from the set list: when the pack is
\* about to be written, every entry outside the sets that
\* f3fs_flush_sit_entries left on the list is in it with the content it has in
\* memory.
LossConfinedToLeftSets ==
  cp = "flushed" =>
    \A s \in Segs : \/ WrittenSit[s] = sentries[s]
                    \/ \E i \in DOMAIN sit_entry_set : sit_entry_set[i].blk = SitBlock(s)

\* Whenever the system stops, a mount finds the SIT exactly as the last
\* checkpoint wrote it: neither flushing, nor SIT pages, nor a pack written in
\* part disturb it before the commit block is there (checkpoint.c:1551).
CommittedSitFound == DurableSit = committed

\* A mount finds a valid pack whatever was being written (checkpoint.c:908), it
\* is the last one committed, and the summary blocks that were counted for it are
\* its own: the blocks beyond NR_SUM_PAGES share their place with the node
\* summaries and the commit block.
LastPackFound ==
  LET pack == packs[ValidCheckpoint]
      head == pack[0]
  IN
  /\ ValidPack(ValidCheckpoint)
  /\ cp = "none" => head.ckpt = ckpt /\ ValidCheckpoint = cur_cp_pack
  /\ cp = "flushed" => head.ckpt.ver = ckpt.ver - 1 /\ ValidCheckpoint = cur_cp_pack
  /\ cp = "stopped" => head.ckpt.ver \in {ckpt.ver - 1, ckpt.ver}
  /\ \A k \in 0 .. npages_for_summary_flush(head.ckpt.sums) - 1 :
       LET sum == Summary(pack, k)
       IN sum.kind = "sum" /\ sum.index = k /\ sum.ver = head.ckpt.ver

\* Nothing that a checkpoint still has to write is forgotten: it is marked dirty,
\* and the counter that bounds the flush loop (segment.c:4163) covers it.
DirtyTracked == TypeOK /\ StaleEntriesDirty /\ CounterCoversDirty

=============================================================================
