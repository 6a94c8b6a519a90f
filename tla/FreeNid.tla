------------------------------ MODULE FreeNid ------------------------------
(***************************************************************************)
(* Node ids: the list of free nids and the bitmaps behind it, allocation   *)
(* in three steps (f3fs_alloc_nid, f3fs_new_node_page, f3fs_alloc_nid_done *)
(* or _failed), the builder that refills the list from NAT blocks and the  *)
(* NAT journal while allocations are in flight, the NAT cache, the flush   *)
(* of the NAT by a checkpoint, nat_bits, and mounting after a clean or an  *)
(* unclean shutdown.  src/f2fs/node.c, checkpoint.c, segment.c.            *)
(*                                                                         *)
(* A nid's NAT address is "null", "new" (a node that has no block yet) or  *)
(* "blk".  The order of the free list is left open.  A step that holds     *)
(* nat_tree_lock for writing is atomic; so is a checkpoint, during which   *)
(* cp_rwsem keeps allocations out.                                         *)
(***************************************************************************)
EXTENDS Integers, FiniteSetsExt, SequencesExt

CONSTANTS Tasks,        \* tasks that allocate nids
          nat_blocks, NAT_ENTRY_PER_BLOCK,
          FREE_NID_PAGES, \* NAT blocks scanned by one build
          JournalSize,  \* NAT entries the journal holds
          InUse,        \* nids in use on the volume at first
          MaxCalls,     \* bound: calls of f3fs_alloc_nid
          MaxBackground \* bound: builds, shrinks, cached entries, checkpoints, mounts

Blocks == 0 .. nat_blocks - 1
Nids   == 0 .. nat_blocks * NAT_ENTRY_PER_BLOCK - 1
NatBlock(n) == n \div NAT_ENTRY_PER_BLOCK
NidsOf(b) == {n \in Nids : NatBlock(n) = b}
MAX_FREE_NIDS == NAT_ENTRY_PER_BLOCK * FREE_NID_PAGES

VARIABLES
  natpage,  \* the current NAT blocks
  journal,  \* NAT entries of the journal in the hot data summary
  cache,    \* the NAT cache
  nm,       \* nm_i: nid (free_nid_root), scanned (nat_block_bitmap), bitmap
            \* (free_nid_bitmap), count (free_nid_count), available_nids, next_scan_nid
  natbits,  \* CP_NAT_BITS_FLAG, full_nat_bits and empty_nat_bits
  build,    \* the holder of build_lock and how far it is
  task,     \* where every allocation is
  cp,       \* the checkpoint on the device
  recovering, \* roll-forward recovery is running
  recovered,  \* inodes it recovered since the mount
  calls, background

vars == <<natpage, journal, cache, nm, natbits, build, task, cp, recovering, recovered,
          calls, background>>

NoEntry == [addr |-> "none", IS_CHECKPOINTED |-> TRUE, IS_DIRTY |-> FALSE]
NatEntry == [addr : {"null", "new", "blk"}, IS_CHECKPOINTED : BOOLEAN, IS_DIRTY : BOOLEAN]
NotBuilding == [by |-> "nobody", phase |-> "none", pos |-> 0, left |-> 0]
Idle == [pc |-> "idle", nid |-> -1]

\* Every variable has its type; no counter goes below zero.
TypeOK ==
  /\ natpage \in [Nids -> {"null", "blk"}]
  /\ journal \in [Nids -> {"none", "null", "blk"}]
  /\ Cardinality({n \in Nids : journal[n] # "none"}) <= JournalSize
  /\ cache \in [Nids -> NatEntry \cup {NoEntry}]
  /\ nm.nid \in [Nids -> {"none", "FREE", "PREALLOC"}]
  /\ nm.scanned \subseteq Blocks /\ nm.bitmap \subseteq Nids
  /\ nm.count \in [Blocks -> Nat]
  /\ nm.available_nids \in 0 .. Cardinality(Nids) + recovered /\ nm.next_scan_nid \in Nids
  /\ natbits.full \subseteq Blocks /\ natbits.empty \subseteq Blocks
  /\ build \in [by : Tasks \cup {"bg", "nobody"}, pos : 0 .. Cardinality(Nids),
                phase : {"none", "bits", "bitsJournal", "between", "pages", "pagesJournal"},
                left : 0 .. FREE_NID_PAGES]
  /\ task \in [Tasks -> [pc : {"idle", "retry", "build", "held", "made"}, nid : Nids \cup {-1}]]
  /\ recovering \in BOOLEAN /\ recovered \in Nat

-----------------------------------------------------------------------------
(* The NAT *)

\* The NAT address of a nid that is not in the cache.
Stored(n) == IF journal[n] # "none" THEN journal[n] ELSE natpage[n]
\* f3fs_get_node_info(): the cache first, then the journal, then the NAT block.
Addr(n) == IF cache[n] # NoEntry THEN cache[n].addr ELSE Stored(n)
\* The address in the checkpoint on the device.
CpAddr(n) == IF cp.journal[n] # "none" THEN cp.journal[n] ELSE cp.natpage[n]

set_node_addr(n, new_blkaddr) ==
  [cache EXCEPT ![n] = [addr |-> new_blkaddr, IS_DIRTY |-> TRUE,
                        IS_CHECKPOINTED |-> @.IS_CHECKPOINTED /\ new_blkaddr = "blk"]]

-----------------------------------------------------------------------------
(* The free nid list and its bitmaps; m is a value of nm *)

FreeCount(m) == Cardinality({n \in Nids : m.nid[n] = "FREE"})

update_free_nid_bitmap(m, n, set, bld) ==
  LET b == NatBlock(n)
  IN  IF b \notin m.scanned \/ set = (n \in m.bitmap) THEN m
      ELSE IF set THEN [m EXCEPT !.bitmap = @ \cup {n}, !.count[b] = @ + 1]
      ELSE [m EXCEPT !.bitmap = @ \ {n}, !.count[b] = IF bld THEN @ ELSE @ - 1]

\* Variant: the builder does not look at the NAT cache.
add_free_nidNoCache(m, n, bld, update) ==
  LET taken == bld /\ m.nid[n] = "PREALLOC"
      added == IF ~taken /\ m.nid[n] = "none" THEN [m EXCEPT !.nid[n] = "FREE"] ELSE m
      noted == IF update THEN update_free_nid_bitmap(added, n, ~taken, bld) ELSE added
  IN  IF update /\ ~bld THEN [noted EXCEPT !.available_nids = @ + 1] ELSE noted

add_free_nid(m, n, bld, update) ==
  LET e == cache[n]
      taken == bld /\ \/ e # NoEntry /\ (~e.IS_CHECKPOINTED \/ e.addr # "null")
                      \/ m.nid[n] = "PREALLOC"
      added == IF ~taken /\ m.nid[n] = "none" THEN [m EXCEPT !.nid[n] = "FREE"] ELSE m
      noted == IF update THEN update_free_nid_bitmap(added, n, ~taken, bld) ELSE added
  IN  IF update /\ ~bld THEN [noted EXCEPT !.available_nids = @ + 1] ELSE noted

remove_free_nid(m, n) == IF m.nid[n] = "FREE" THEN [m EXCEPT !.nid[n] = "none"] ELSE m

\* One entry of scan_nat_page(), which first marks the block as scanned.
ScanEntry(m, n) ==
  LET s == [m EXCEPT !.scanned = @ \cup {NatBlock(n)}]
  IN  IF natpage[n] = "null" THEN add_free_nid(s, n, TRUE, TRUE)
      ELSE update_free_nid_bitmap(s, n, FALSE, TRUE)

\* One entry of scan_curseg_cache().
ScanJournalEntry(m, n) ==
  IF journal[n] = "null" THEN add_free_nid(m, n, TRUE, FALSE) ELSE remove_free_nid(m, n)

\* The first nid from pos on that P holds of, or the number of nids.
NextNid(pos, P(_)) == Min({n \in Nids : n >= pos /\ P(n)} \cup {Cardinality(Nids)})
End == Cardinality(Nids)

-----------------------------------------------------------------------------
(* f3fs_build_free_nids() by an allocating task, or by f3fs_balance_fs_bg() *)

TreeLocked == build.phase \in {"bits", "bitsJournal", "pages", "pagesJournal"}
Enough == FreeCount(nm) >= NAT_ENTRY_PER_BLOCK

\* build_lock is released; an allocating task checks the list again.
Unlock ==
  /\ build' = NotBuilding
  /\ task' = IF build.by \in Tasks THEN [task EXCEPT ![build.by].pc = "retry"] ELSE task

\* build_lock is taken; with enough free nids it is released at once.
BuildStart(t) ==
  /\ task[t].pc = "build" /\ build = NotBuilding
  /\ IF Enough THEN task' = [task EXCEPT ![t].pc = "retry"] /\ UNCHANGED build
     ELSE build' = [NotBuilding EXCEPT !.by = t, !.phase = "bits"] /\ UNCHANGED task
  /\ UNCHANGED <<natpage, journal, cache, nm, natbits, cp, recovering, recovered>>

BuildStartBg ==
  /\ ~recovering /\ build = NotBuilding /\ ~Enough
  /\ build' = [NotBuilding EXCEPT !.by = "bg", !.phase = "bits"]
  /\ UNCHANGED <<natpage, journal, cache, nm, natbits, task, cp, recovering, recovered>>

\* scan_free_nid_bits(): the next bit of a scanned block with a count.
BuildBits ==
  LET n == NextNid(build.pos, LAMBDA k : /\ k \in nm.bitmap /\ NatBlock(k) \in nm.scanned
                                         /\ nm.count[NatBlock(k)] > 0)
      m == add_free_nid(nm, n, TRUE, FALSE)
  IN
  /\ build.phase = "bits"
  /\ IF n = End
     THEN build' = [build EXCEPT !.phase = "bitsJournal", !.pos = 0] /\ UNCHANGED nm
     ELSE /\ nm' = m
          /\ build' = IF FreeCount(m) >= MAX_FREE_NIDS
                      THEN [build EXCEPT !.phase = "bitsJournal", !.pos = 0]
                      ELSE [build EXCEPT !.pos = n + 1]
  /\ UNCHANGED <<natpage, journal, cache, natbits, task, cp, recovering, recovered>>

\* scan_curseg_cache(), at the end of either pass.
BuildJournal ==
  LET n == NextNid(build.pos, LAMBDA k : journal[k] # "none")
  IN
  /\ build.phase \in {"bitsJournal", "pagesJournal"}
  /\ IF n # End
     THEN /\ nm' = ScanJournalEntry(nm, n)
          /\ build' = [build EXCEPT !.pos = n + 1]
          /\ UNCHANGED task
     ELSE /\ UNCHANGED nm
          /\ IF build.phase = "pagesJournal" \/ Enough THEN Unlock
             ELSE build' = [build EXCEPT !.phase = "between", !.pos = 0] /\ UNCHANGED task
  /\ UNCHANGED <<natpage, journal, cache, natbits, cp, recovering, recovered>>

\* Variant: every build scans from the first NAT block on.
BuildPagesStartAtZero ==
  /\ build.phase = "between"
  /\ build' = [build EXCEPT !.phase = "pages", !.left = FREE_NID_PAGES, !.pos = 0]
  /\ UNCHANGED <<natpage, journal, cache, nm, natbits, task, cp, recovering, recovered>>

\* nat_tree_lock was released; the NAT blocks are scanned from next_scan_nid on.
BuildPagesStart ==
  /\ build.phase = "between"
  /\ build' = [build EXCEPT !.phase = "pages", !.left = FREE_NID_PAGES,
                            !.pos = NatBlock(nm.next_scan_nid) * NAT_ENTRY_PER_BLOCK]
  /\ UNCHANGED <<natpage, journal, cache, nm, natbits, task, cp, recovering, recovered>>

\* One entry of a NAT block, or a block that is scanned already.
BuildPages ==
  LET n == build.pos
      b == NatBlock(n)
      atStart == n % NAT_ENTRY_PER_BLOCK = 0
      skip == atStart /\ b \in nm.scanned
      next == IF skip THEN n + NAT_ENTRY_PER_BLOCK ELSE n + 1
      ended == next % NAT_ENTRY_PER_BLOCK = 0
      wrapped == IF next = End THEN 0 ELSE next
      last == ended /\ build.left = 1
      m == IF skip THEN nm ELSE ScanEntry(nm, n)
  IN
  /\ build.phase = "pages"
  /\ nm' = IF last THEN [m EXCEPT !.next_scan_nid = wrapped] ELSE m
  /\ build' = IF last THEN [build EXCEPT !.phase = "pagesJournal", !.pos = 0, !.left = 0]
              ELSE [build EXCEPT !.pos = wrapped, !.left = IF ended THEN @ - 1 ELSE @]
  /\ UNCHANGED <<natpage, journal, cache, natbits, task, cp, recovering, recovered>>

-----------------------------------------------------------------------------
(* Allocation *)

\* f3fs_alloc_nid(): a nid from the list, unless someone is building; otherwise the
\* list is built and checked again.
Alloc(t) ==
  /\ task[t].pc \in {"idle", "retry"} /\ ~recovering
  /\ IF nm.available_nids = 0
     THEN task' = [task EXCEPT ![t] = Idle] /\ UNCHANGED nm
     ELSE IF FreeCount(nm) > 0 /\ build = NotBuilding
     THEN \E n \in {k \in Nids : nm.nid[k] = "FREE"} :
            /\ task' = [task EXCEPT ![t] = [pc |-> "held", nid |-> n]]
            /\ nm' = update_free_nid_bitmap([nm EXCEPT !.nid[n] = "PREALLOC",
                                                       !.available_nids = @ - 1],
                                            n, FALSE, FALSE)
     ELSE task' = [task EXCEPT ![t].pc = "build"] /\ UNCHANGED nm
  /\ UNCHANGED <<natpage, journal, cache, natbits, build, cp, recovering, recovered>>

\* f3fs_new_node_page()
NewNodePage(t) ==
  /\ task[t].pc = "held" /\ ~TreeLocked
  /\ cache' = set_node_addr(task[t].nid, "new")
  /\ task' = [task EXCEPT ![t].pc = "made"]
  /\ UNCHANGED <<natpage, journal, nm, natbits, build, cp, recovering, recovered>>

AllocNidDone(t) ==
  /\ task[t].pc = "made"
  /\ nm' = [nm EXCEPT !.nid[task[t].nid] = "none"]
  /\ task' = [task EXCEPT ![t] = Idle]
  /\ UNCHANGED <<natpage, journal, cache, natbits, build, cp, recovering, recovered>>

\* Variant: the nid goes back to the list only.
AllocNidFailedForgets(t, memory) ==
  LET n == task[t].nid
  IN
  /\ task[t].pc = "held"
  /\ nm' = [nm EXCEPT !.nid[n] = IF memory THEN "FREE" ELSE "none",
                      !.available_nids = @ + 1]
  /\ task' = [task EXCEPT ![t] = Idle]
  /\ UNCHANGED <<natpage, journal, cache, natbits, build, cp, recovering, recovered>>

\* f3fs_alloc_nid_failed(): the nid goes back to the list if there is memory for it
\* (f3fs_available_free_memory).
AllocNidFailed(t, memory) ==
  LET n == task[t].nid
  IN
  /\ task[t].pc = "held"
  /\ nm' = update_free_nid_bitmap([nm EXCEPT !.nid[n] = IF memory THEN "FREE" ELSE "none",
                                             !.available_nids = @ + 1], n, TRUE, FALSE)
  /\ task' = [task EXCEPT ![t] = Idle]
  /\ UNCHANGED <<natpage, journal, cache, natbits, build, cp, recovering, recovered>>

-----------------------------------------------------------------------------
(* Nodes in use, and the shrinkers *)

Held(n) == \E t \in Tasks : task[t].nid = n
UsedNodes == {n \in Nids : Addr(n) \in {"new", "blk"} /\ ~Held(n)}

\* __write_node_page() gives the node a block.
WriteNodePage(n) ==
  /\ n \in UsedNodes /\ ~TreeLocked /\ (cache[n].addr = "blk" => ~cache[n].IS_DIRTY)
  /\ cache' = set_node_addr(n, "blk")
  /\ UNCHANGED <<natpage, journal, nm, natbits, build, task, cp, recovering, recovered>>

\* truncate_node()
TruncateNode(n) ==
  /\ n \in UsedNodes /\ ~TreeLocked /\ ~recovering
  /\ cache' = set_node_addr(n, "null")
  /\ UNCHANGED <<natpage, journal, nm, natbits, build, task, cp, recovering, recovered>>

\* cache_nat_entry()
CacheNat(n) ==
  /\ cache[n] = NoEntry /\ Stored(n) = "blk" /\ ~TreeLocked
  /\ cache' = [cache EXCEPT ![n] = [addr |-> Stored(n), IS_CHECKPOINTED |-> TRUE,
                                    IS_DIRTY |-> FALSE]]
  /\ UNCHANGED <<natpage, journal, nm, natbits, build, task, cp, recovering, recovered>>

\* f3fs_try_to_free_nats()
FreeNat(n) ==
  /\ cache[n] # NoEntry /\ ~cache[n].IS_DIRTY /\ ~TreeLocked
  /\ cache' = [cache EXCEPT ![n] = NoEntry]
  /\ UNCHANGED <<natpage, journal, nm, natbits, build, task, cp, recovering, recovered>>

\* f3fs_try_to_free_nids()
FreeNids(n) ==
  /\ nm.nid[n] = "FREE" /\ FreeCount(nm) > MAX_FREE_NIDS /\ build = NotBuilding
  /\ nm' = remove_free_nid(nm, n)
  /\ UNCHANGED <<natpage, journal, cache, natbits, build, task, cp, recovering, recovered>>

-----------------------------------------------------------------------------
(* Checkpoint *)

\* __has_cursum_space()
JournalFree(j) == JournalSize - Cardinality({n \in Nids : j[n] # "none"})
DirtyNats(c) == {n \in Nids : c[n].IS_DIRTY}

\* Variant: free nids of the journal stay counted as available.
remove_nats_in_journalKept(s) ==
  [s EXCEPT !.cache = [n \in Nids |->
                        IF s.journal[n] = "none" THEN s.cache[n]
                        ELSE IF s.cache[n] = NoEntry
                        THEN [addr |-> s.journal[n], IS_CHECKPOINTED |-> TRUE, IS_DIRTY |-> TRUE]
                        ELSE [s.cache[n] EXCEPT !.IS_DIRTY = TRUE]],
            !.journal = [n \in Nids |-> "none"]]

\* remove_nats_in_journal(): the journal's entries become dirty cache entries; s is
\* the state of a flush: cache, journal, natpage, nm, natbits.
remove_nats_in_journal(s) ==
  LET again == {n \in Nids : s.journal[n] = "null" /\ ~s.cache[n].IS_DIRTY}
  IN  [s EXCEPT !.cache = [n \in Nids |->
                            IF s.journal[n] = "none" THEN s.cache[n]
                            ELSE IF s.cache[n] = NoEntry
                            THEN [addr |-> s.journal[n], IS_CHECKPOINTED |-> TRUE,
                                  IS_DIRTY |-> TRUE]
                            ELSE [s.cache[n] EXCEPT !.IS_DIRTY = TRUE]],
                !.journal = [n \in Nids |-> "none"],
                !.nm.available_nids = @ - Cardinality(again)]

\* update_nat_bits() after a NAT block has been rewritten
update_nat_bits(bits, b, valid) ==
  IF ~bits.on THEN bits
  ELSE [bits EXCEPT !.empty = IF valid = 0 THEN @ \cup {b} ELSE @ \ {b},
                    !.full = IF valid = NAT_ENTRY_PER_BLOCK THEN @ \cup {b} ELSE @ \ {b}]

\* A flushed entry: its flags are reset, and a nid whose address is null is free again.
FlushEntry(m, n, addr) ==
  IF addr = "null" THEN add_free_nid(m, n, FALSE, TRUE)
  ELSE update_free_nid_bitmap(m, n, FALSE, FALSE)

\* __flush_nat_entry_set(): the dirty entries of a NAT block go to the journal if all
\* of them fit, to the next copy of the block otherwise.
flush_nat_entry_set(s, b, umount) ==
  LET dirty == {n \in NidsOf(b) : s.cache[n].IS_DIRTY}
      to_journal == ~umount /\ Cardinality(dirty) <= JournalFree(s.journal)
      Into(f) == [n \in Nids |-> IF n \in dirty THEN s.cache[n].addr ELSE f[n]]
      page == Into(s.natpage)
      seq == SetToSortSeq(dirty, <)
      m[i \in 0 .. Len(seq)] ==
        IF i = 0 THEN s.nm ELSE FlushEntry(m[i - 1], seq[i], s.cache[seq[i]].addr)
  IN  [cache |-> [n \in Nids |-> IF n \in dirty
                                 THEN [s.cache[n] EXCEPT !.IS_CHECKPOINTED = TRUE,
                                                         !.IS_DIRTY = FALSE]
                                 ELSE s.cache[n]],
       journal |-> IF to_journal THEN Into(s.journal) ELSE s.journal,
       natpage |-> IF to_journal THEN s.natpage ELSE page,
       nm |-> m[Len(seq)],
       natbits |-> IF to_journal THEN s.natbits
                   ELSE update_nat_bits(s.natbits, b,
                                        Cardinality({n \in NidsOf(b) : page[n] # "null"}))]

\* f3fs_flush_nat_entries(): sets with fewer entries come first.
flush_nat_entries(s, umount) ==
  LET room == Cardinality(DirtyNats(s.cache)) <= JournalFree(s.journal)
      s1 == IF umount \/ ~room THEN remove_nats_in_journal(s) ELSE s
      dirty == DirtyNats(s1.cache)
      Size(b) == Cardinality(dirty \cap NidsOf(b))
      sets == SetToSortSeq({NatBlock(n) : n \in dirty},
                           LAMBDA a, b : Size(a) < Size(b) \/ (Size(a) = Size(b) /\ a > b))
      flush[i \in 0 .. Len(sets)] ==
        IF i = 0 THEN s1 ELSE flush_nat_entry_set(flush[i - 1], sets[i], umount)
  IN  flush[Len(sets)]

\* f3fs_enable_nat_bits(), when every block has been scanned
enable_nat_bits(bits, m) ==
  IF bits.on \/ m.scanned # Blocks THEN bits
  ELSE [on |-> TRUE, full |-> {b \in Blocks : m.bitmap \cap NidsOf(b) = {}},
        empty |-> {b \in Blocks : NidsOf(b) \subseteq m.bitmap}]

\* The NAT flush of a checkpoint, after block_operations() gave every new node a block.
Flushed(umount) ==
  LET written == [n \in Nids |-> IF cache[n].addr = "new" THEN [cache[n] EXCEPT !.addr = "blk"]
                                 ELSE cache[n]]
      s == flush_nat_entries([cache |-> written, journal |-> journal, natpage |-> natpage,
                              nm |-> nm, natbits |-> natbits], umount)
  IN  IF umount THEN [s EXCEPT !.natbits = enable_nat_bits(s.natbits, s.nm)] ELSE s

\* do_checkpoint(): the checkpoint block; nat_bits are written only when unmounting.
CheckpointBlocks(s, umount) ==
  LET first == {n \in Nids : s.nm.nid[n] = "FREE"}
  IN  {[natpage |-> s.natpage, journal |-> s.journal, next_free_nid |-> next,
        nat_bits |-> [s.natbits EXCEPT !.on = @ /\ umount]] :
         next \in IF first = {} THEN {s.nm.next_scan_nid} ELSE first}

\* f3fs_write_checkpoint(): no allocation is between f3fs_lock_op() and its end.
Checkpoint ==
  LET s == Flushed(FALSE)
  IN
  /\ ~TreeLocked /\ \A t \in Tasks : task[t].pc \notin {"build", "retry"}
  /\ cache' = s.cache /\ journal' = s.journal /\ natpage' = s.natpage /\ nm' = s.nm
  /\ natbits' = s.natbits
  /\ cp' \in CheckpointBlocks(s, FALSE)
  /\ recovering' = FALSE
  /\ UNCHANGED <<build, task, recovered>>

-----------------------------------------------------------------------------
(* Mount *)

\* f3fs_build_node_manager() on the checkpoint c: the counts, load_free_nid_bitmap()
\* and the first build, with an empty NAT cache.
Mounted(c) ==
  LET used == {n \in Nids : IF c.journal[n] # "none" THEN c.journal[n] = "blk"
                            ELSE c.natpage[n] = "blk"}
      empty == IF c.nat_bits.on THEN c.nat_bits.empty ELSE {}
      full  == IF c.nat_bits.on THEN c.nat_bits.full ELSE {}
      loaded == UNION {NidsOf(b) : b \in empty}
      start == NatBlock(c.next_free_nid)
      todo  == {(start + i) % nat_blocks : i \in 0 .. FREE_NID_PAGES - 1} \ (empty \cup full)
      page  == {n \in Nids : NatBlock(n) \in todo /\ c.natpage[n] = "null"}
      listed == {n \in page : c.journal[n] # "blk"} \cup {n \in Nids : c.journal[n] = "null"}
      bitmap == loaded \cup page
  IN  [nid |-> [n \in Nids |-> IF n \in listed THEN "FREE" ELSE "none"],
       scanned |-> empty \cup full \cup todo, bitmap |-> bitmap,
       count |-> [b \in Blocks |-> Cardinality(bitmap \cap NidsOf(b))],
       available_nids |-> Cardinality(Nids \ used),
       next_scan_nid |-> ((start + FREE_NID_PAGES) % nat_blocks) * NAT_ENTRY_PER_BLOCK]

MountFrom(c) ==
  /\ natpage' = c.natpage /\ journal' = c.journal /\ natbits' = c.nat_bits
  /\ cache' = [n \in Nids |-> NoEntry]
  /\ nm' = Mounted(c)
  /\ build' = NotBuilding /\ task' = [t \in Tasks |-> Idle]
  /\ recovered' = 0

\* Power loss, and a mount that may recover fsynced inodes.
CrashAndMount ==
  /\ MountFrom(cp)
  /\ recovering' = TRUE
  /\ UNCHANGED cp

\* Unmount, with no task left and a last checkpoint for CP_UMOUNT, and the next mount.
UmountAndMount ==
  /\ ~recovering /\ build = NotBuilding /\ \A t \in Tasks : task[t] = Idle
  /\ \E c \in CheckpointBlocks(Flushed(TRUE), TRUE) : cp' = c /\ MountFrom(c)
  /\ UNCHANGED recovering

\* f3fs_recover_inode_page(): the inode of a block in the chain that the checkpoint
\* does not know takes back its nid.
RecoverInodePage(n) ==
  /\ recovering /\ Addr(n) = "null" /\ ~cache[n].IS_DIRTY
  /\ nm' = remove_free_nid(nm, n)
  /\ cache' = set_node_addr(n, "new")
  /\ recovered' = recovered + 1
  /\ UNCHANGED <<natpage, journal, natbits, build, task, cp, recovering>>

-----------------------------------------------------------------------------
OnDevice == [natpage |-> [n \in Nids |-> IF n \in InUse THEN "blk" ELSE "null"],
             journal |-> [n \in Nids |-> "none"], next_free_nid |-> 0,
             nat_bits |-> [on |-> FALSE, full |-> {}, empty |-> {}]]

\* The first mount of a volume on which the nids of InUse have a node.
Init ==
  /\ cp = OnDevice
  /\ natpage = OnDevice.natpage /\ journal = OnDevice.journal
  /\ natbits = OnDevice.nat_bits
  /\ cache = [n \in Nids |-> NoEntry]
  /\ nm = Mounted(OnDevice)
  /\ build = NotBuilding /\ task = [t \in Tasks |-> Idle]
  /\ recovering = FALSE /\ recovered = 0 /\ calls = 0 /\ background = 0

Step(t) == NewNodePage(t) \/ AllocNidDone(t) \/ BuildStart(t)

Build == BuildBits \/ BuildJournal \/ BuildPagesStart \/ BuildPages

Background ==
  \/ BuildStartBg \/ Checkpoint \/ CrashAndMount \/ UmountAndMount
  \/ \E n \in Nids : CacheNat(n) \/ FreeNat(n) \/ FreeNids(n) \/ WriteNodePage(n)
                     \/ TruncateNode(n) \/ RecoverInodePage(n)

Next ==
  \/ \E t \in Tasks : /\ Alloc(t)
                      /\ task[t].pc = "idle" => calls < MaxCalls
                      /\ calls' = IF task[t].pc = "idle" THEN calls + 1 ELSE calls
                      /\ UNCHANGED background
  \/ \E t \in Tasks : Step(t) /\ UNCHANGED <<calls, background>>
  \/ \E t \in Tasks, memory \in BOOLEAN :
       AllocNidFailed(t, memory) /\ UNCHANGED <<calls, background>>
  \/ Build /\ UNCHANGED <<calls, background>>
  \/ background < MaxBackground /\ background' = background + 1 /\ Background /\ UNCHANGED calls

Fairness ==
  /\ WF_vars(Build /\ UNCHANGED <<calls, background>>)
  /\ \A t \in Tasks :
       /\ WF_vars(BuildStart(t) /\ UNCHANGED <<calls, background>>)
       /\ WF_vars(task[t].pc = "retry" /\ Alloc(t) /\ UNCHANGED <<calls, background>>)

Spec == Init /\ [][Next]_vars /\ Fairness

-----------------------------------------------------------------------------
(* Properties *)

Free(n) == Addr(n) = "null" /\ ~cache[n].IS_DIRTY /\ nm.nid[n] # "PREALLOC"

\* A nid that f3fs_alloc_nid() returned belongs to one task, has no node, and is free
\* in the checkpoint a crash would go back to; so has a node without a block.
HandedOutOnce ==
  /\ \A t \in Tasks : task[t].pc = "held" =>
       Addr(task[t].nid) = "null" /\ CpAddr(task[t].nid) = "null"
  /\ \A t, u \in Tasks : task[t].nid # -1 /\ t # u => task[t].nid # task[u].nid
  /\ \A n \in Nids : Addr(n) = "new" => CpAddr(n) = "null"

\* free_nid_count never falls behind the bits of its block, so scan_free_nid_bits()
\* skips no block with a free nid.  It may run ahead: a bit that
\* f3fs_alloc_nid_failed() sets during a scan is cleared without being subtracted.
BitsNeverMissed == \A b \in Blocks : nm.count[b] >= Cardinality(nm.bitmap \cap NidsOf(b))

\* available_nids is the number of nids an allocation could get, plus the inodes that
\* recovery brought back, which nobody subtracts.
AvailableAccount ==
  nm.available_nids = Cardinality({n \in Nids : Free(n)}) + recovered

\* A free nid that is not on the list can still be found: its bit is set, its block
\* has not been scanned or the scan has not reached it, or the journal names it.
FreeNidFindable ==
  \A n \in Nids : Free(n) =>
    \/ nm.nid[n] = "FREE" \/ NatBlock(n) \notin nm.scanned
    \/ build.phase = "pages" /\ NatBlock(n) = NatBlock(build.pos) /\ n >= build.pos
    \/ n \in nm.bitmap
    \/ journal[n] = "null"

\* An allocation that has to build the list returns, with a nid or without.
AllocReturns ==
  \A t \in Tasks : task[t].pc \in {"build", "retry"} /\ recovered = 0
                     ~> task[t].pc \notin {"build", "retry"}

\* The allocator knows of every free nid: it is on the list or will be found by a
\* scan (node.c:2332), which skips no block that has one.
FreeNidsKnown == TypeOK /\ BitsNeverMissed /\ FreeNidFindable

=============================================================================
