----------------------------- MODULE MCSitFlush -----------------------------
(* SitFlush on a small SIT. *)
EXTENDS SitFlush

CONSTANT MaxCount   \* counters that drift upwards are followed this far

CounterBound ==
  /\ dirty_sentries <= MaxCount
  /\ \A i \in DOMAIN sit_entry_set : sit_entry_set[i].entry_cnt <= MaxCount

ImageSymmetry == Permutations(Images)

\* States are told apart by what may still be read: of the two copies of a SIT
\* block the one of the last pack; of the pack that is not the current one
\* whether it is valid and the version of its first block, later checkpoint
\* blocks having higher versions than any it still holds.
LiveSit ==
  LET cur   == packs[ValidCheckpoint]
      other == packs[3 - ValidCheckpoint]
      Memory == <<sentries, dirty_bitmap, dirty_sentries, sit_entry_set, journal, unwritten,
                  [b \in SitBlocks |-> sit_bitmap[b] = cur[0].sit_bitmap[b]]>>
  IN <<cp, IF cp = "stopped" THEN <<>> ELSE Memory, LastPackFound, CommittedSitFound,
       JournalOf(cur),
       ckpt.total, ckpt.ver - cur[0].ckpt.ver, cur[0].ckpt.total,
       IF other[0].kind = "cp" THEN other[0].ckpt.ver - cur[0].ckpt.ver ELSE 0,
       ValidPack(3 - ValidCheckpoint),
       [s \in Segs |-> disk_sit[SitBlock(s)][cur[0].sit_bitmap[SitBlock(s)]][s]]>>

Shape(o, s, u) == [orphans |-> o, sums |-> s, umount |-> u]
MCShapes == {Shape(1, 1, TRUE), Shape(0, 2, FALSE)}

=============================================================================
