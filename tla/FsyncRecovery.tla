--------------------------- MODULE FsyncRecovery ---------------------------
(***************************************************************************)
(* fsync and fdatasync between checkpoints, and the roll-forward recovery  *)
(* of the next mount: the inode's dirty flags, the NAT flags that decide   *)
(* which node blocks are written and how they are marked, the chain of     *)
(* node blocks in the warm node log, the numbered node writes a task waits *)
(* for, the cache flush, checkpoint, and power loss followed by a mount.   *)
(* src/f2fs/file.c, node.c, recovery.c, inode.c, checkpoint.c, data.c.     *)
(*                                                                         *)
(* A regular file is an inode block, <<size in pages, times>>, and one     *)
(* direct node, <<version of the data it leads to, pages it maps>>.  Every *)
(* write is a new version of the file and changes its last page.           *)
(* fsync_mode=posix, data written out of place (lfs mode), one link.       *)
(***************************************************************************)
EXTENDS Integers, SequencesExt

CONSTANTS Files,        \* regular files
          DnodeFirst,   \* files whose direct node has a lower nid than the inode
          Tasks,        \* tasks that call fsync
          DatasyncTasks, \* those that call fdatasync instead
          Absent,       \* a NAT entry that is not in the cache
          max_rf_node_blocks, \* node blocks after which fsync checkpoints
          MaxVer,       \* bound: writes to a file
          MaxTime,      \* bound: changes of a file's times
          MaxLog,       \* bound: node blocks between two checkpoints
          MaxCalls,     \* bound: calls of fsync and fdatasync
          MaxBackground \* bound: steps of the flusher, the shrinker, checkpoints, mounts

Vers  == 0 .. MaxVer
Nodes == Files \X {"inode", "dnode"}
Inode(f) == <<f, "inode">>
Dnode(f) == <<f, "dnode">>
FileOf(n) == n[1]

VARIABLES
  made,         \* files that exist
  newdir,       \* files whose parent directory is newer than the checkpoint
  page,         \* version of the data in the page cache
  isize,        \* inode->i_size, in pages
  itime,        \* inode->i_mtime and i_ctime
  last_disk_size, \* F3FS_I(inode)->last_disk_size
  dirty_pages,  \* files with dirty data pages
  FI_DIRTY_INODE, FI_AUTO_RECOVER, FI_APPEND_WRITE, \* files with the inode flag
  gdirty_list,  \* files on sbi->inode_list[DIRTY_META]
  APPEND_INO,   \* evicted files that had FI_APPEND_WRITE
  npage,        \* content of every node page
  PageDirty,    \* dirty node pages
  nat,          \* the NAT cache: entries of the inodes, the only ones whose flags are read
  fsync_seg_id, \* number of the next node write
  log,          \* node blocks since the last checkpoint, in chain order
  log_done,     \* positions of log known to have completed
  log_durable,  \* positions of log that survive a power loss
  data_done, data_durable, \* the same for the data of a file, up to a version
  cp,           \* the checkpoint on the device
  task,         \* where every fsync is
  synced,       \* what the fsyncs of a file that returned promised
  early,        \* files with an fsync that may have returned too early (MayBeEarly,
                \* ForgetsAppend) or that overlapped another fsync of the file
  calls,        \* calls of fsync so far
  background    \* background steps so far

flagVars  == <<FI_DIRTY_INODE, FI_AUTO_RECOVER, gdirty_list>>
inodeVars == <<made, newdir, page, isize, itime, last_disk_size, dirty_pages>>
appendVars == <<FI_APPEND_WRITE, APPEND_INO>>
nodeVars  == <<npage, PageDirty>>
logVars   == <<log, log_done, log_durable>>
dataVars  == <<data_done, data_durable>>
vars == <<flagVars, inodeVars, appendVars, nodeVars, nat, fsync_seg_id, logVars,
          dataVars, cp, task, synced, early, calls, background>>

NatEntry == [IS_CHECKPOINTED : BOOLEAN, HAS_FSYNCED_INODE : BOOLEAN,
             HAS_LAST_FSYNC : BOOLEAN, IS_DIRTY : BOOLEAN]
Block == [node : Nodes, val : Vers \X Vers, fsync : BOOLEAN, dent : BOOLEAN,
          seq : 0 .. MaxLog]
Promise == [made : BOOLEAN, ver : Vers, size : Vers, time : Vers]
Idle == [pc |-> "idle"]
Running == [pc : {"inode", "cp", "cpdone", "lookup", "nodes", "block", "wait", "flush"},
            file : Files, seq_id : 0 .. MaxLog, pages : SUBSET Nodes,
            dent : BOOLEAN, target : Promise]

\* Every variable has its type; the flag sets nest as super.c:1447-1485 keeps them.
TypeOK ==
  /\ made \subseteq Files /\ newdir \subseteq made /\ dirty_pages \subseteq made
  /\ page \in [Files -> Vers] /\ isize \in [Files -> Vers] /\ itime \in [Files -> Vers]
  /\ last_disk_size \in [Files -> Vers]
  /\ FI_DIRTY_INODE \subseteq made /\ FI_AUTO_RECOVER \subseteq FI_DIRTY_INODE
  /\ gdirty_list \subseteq FI_DIRTY_INODE
  /\ FI_APPEND_WRITE \subseteq made /\ APPEND_INO \subseteq made
  /\ npage \in [Nodes -> Vers \X Vers] /\ PageDirty \subseteq Nodes
  /\ nat \in [Files -> NatEntry \cup {Absent}]
  /\ fsync_seg_id \in 0 .. MaxLog
  /\ log \in Seq(Block) /\ Len(log) <= MaxLog
  /\ log_durable \subseteq log_done /\ log_done \subseteq DOMAIN log
  /\ data_done \in [Files -> Vers] /\ data_durable \in [Files -> Vers]
  /\ cp.made \subseteq made /\ cp.node \in [Nodes -> Vers \X Vers]
  /\ task \in [Tasks -> Running \cup {Idle}]
  /\ synced \in [Files -> Promise] /\ early \subseteq Files

ResetFlags == [IS_CHECKPOINTED |-> TRUE, HAS_FSYNCED_INODE |-> FALSE,
               HAS_LAST_FSYNC |-> TRUE, IS_DIRTY |-> FALSE]
Nothing == [made |-> FALSE, ver |-> 0, size |-> 0, time |-> 0]

Init ==
  /\ made = {} /\ newdir = {} /\ dirty_pages = {}
  /\ page = [f \in Files |-> 0] /\ isize = page /\ itime = page /\ last_disk_size = page
  /\ FI_DIRTY_INODE = {} /\ FI_AUTO_RECOVER = {} /\ gdirty_list = {}
  /\ FI_APPEND_WRITE = {} /\ APPEND_INO = {}
  /\ npage = [n \in Nodes |-> <<0, 0>>] /\ PageDirty = {}
  /\ nat = [f \in Files |-> Absent]
  /\ fsync_seg_id = 0 /\ log = <<>> /\ log_done = {} /\ log_durable = {}
  /\ data_done = page /\ data_durable = page
  /\ cp = [made |-> {}, node |-> npage]
  /\ task = [t \in Tasks |-> Idle]
  /\ synced = [f \in Files |-> Nothing] /\ early = {} /\ calls = 0 /\ background = 0

-----------------------------------------------------------------------------
(* Node pages and the NAT cache *)

\* A node page is locked from the moment its write is numbered until its block
\* has an address.
FirstNode(f) == IF f \in DnodeFirst THEN Dnode(f) ELSE Inode(f)
NodeOf(t) ==
  LET first == FirstNode(task[t].file)
  IN  IF first \in task[t].pages THEN first ELSE CHOOSE n \in task[t].pages : TRUE
Locked == {NodeOf(t) : t \in {u \in Tasks : task[u].pc = "block"}}

\* set_node_addr(): new when the address is not a block yet (NEW_ADDR).  The write of
\* a direct node changes the flags of its inode's entry if that one is cached.
set_node_addr(n, new, fsync_done) ==
  LET f == FileOf(n)
      own == n = Inode(f)
      e == IF own /\ nat[f] = Absent THEN ResetFlags ELSE nat[f]
  IN  IF e = Absent THEN nat
      ELSE [nat EXCEPT ![f] = [e EXCEPT !.IS_CHECKPOINTED = @ /\ ~(own /\ new),
                                        !.HAS_FSYNCED_INODE = @ \/ (own /\ fsync_done),
                                        !.HAS_LAST_FSYNC = fsync_done,
                                        !.IS_DIRTY = @ \/ own]]

\* Variant: a checkpointed inode is marked too.
need_dentry_markAlways(f) == nat[f] # Absent /\ ~nat[f].HAS_FSYNCED_INODE

need_dentry_mark(f) ==
  LET e == nat[f]
  IN  e # Absent /\ ~e.IS_CHECKPOINTED /\ ~e.HAS_FSYNCED_INODE

need_inode_block_update(f) ==
  LET e == nat[f]
  IN  ~(e # Absent /\ e.HAS_LAST_FSYNC /\ (e.IS_CHECKPOINTED \/ e.HAS_FSYNCED_INODE))

\* cache_nat_entry(): a lookup brings the entry of the checkpoint in.
CacheNat(f) ==
  /\ nat[f] = Absent /\ f \in cp.made
  /\ nat' = [nat EXCEPT ![f] = ResetFlags]
  /\ UNCHANGED <<flagVars, inodeVars, appendVars, nodeVars, fsync_seg_id, logVars,
                 dataVars, cp, task, synced, early>>

\* f3fs_try_to_free_nats(): the shrinker drops a clean entry.
ShrinkNat(f) ==
  /\ nat[f] # Absent /\ ~nat[f].IS_DIRTY
  /\ nat' = [nat EXCEPT ![f] = Absent]
  /\ UNCHANGED <<flagVars, inodeVars, appendVars, nodeVars, fsync_seg_id, logVars,
                 dataVars, cp, task, synced, early>>

-----------------------------------------------------------------------------
(* The inode and its pages *)

\* f3fs_wait_on_page_writeback() on a node page.
WaitNode(n) == log_done \cup {i \in DOMAIN log : log[i].node = n}

\* f3fs_update_inode() on an unlocked inode page, f3fs_inode_synced() included.
UpdateInode(f) ==
  /\ Inode(f) \notin Locked
  /\ npage' = [npage EXCEPT ![Inode(f)] = <<isize[f], itime[f]>>]
  /\ PageDirty' = PageDirty \cup {Inode(f)}
  /\ log_done' = WaitNode(Inode(f))
  /\ FI_DIRTY_INODE' = FI_DIRTY_INODE \ {f}
  /\ FI_AUTO_RECOVER' = FI_AUTO_RECOVER \ {f}
  /\ gdirty_list' = gdirty_list \ {f}

is_time_consistent(f) == npage[Inode(f)][2] = itime[f]

\* f3fs_write_inode()
WriteInode(f) ==
  IF f \in FI_DIRTY_INODE \/ ~is_time_consistent(f)
  THEN UpdateInode(f)
  ELSE UNCHANGED <<nodeVars, log_done, flagVars>>

\* f3fs_create(): the new inode page is dirty and up to date; in_newdir when the
\* parent directory is not checkpointed.
Create(f, in_newdir) ==
  /\ f \notin made
  /\ made' = made \cup {f}
  /\ newdir' = IF in_newdir THEN newdir \cup {f} ELSE newdir
  /\ nat' = set_node_addr(Inode(f), TRUE, FALSE)
  /\ PageDirty' = PageDirty \cup {Inode(f)}
  /\ UNCHANGED <<page, isize, itime, last_disk_size, dirty_pages, flagVars, appendVars, npage,
                 fsync_seg_id, logVars, dataVars, cp, task, synced, early>>

\* A write(2) to the page cache.  touch: file_update_time() sees a new time
\* (f3fs_dirty_inode); grow: a page is added, so a block is reserved in the direct
\* node, unless a recovery left one there (the first block makes the node and links
\* it into the inode page), and i_blocks and i_size change.
Write(f, touch, grow) ==
  LET first == npage[Dnode(f)][2] = 0
      reserve == npage[Dnode(f)][2] = isize[f]
      dirtied == IF touch THEN FI_DIRTY_INODE \cup {f} ELSE FI_DIRTY_INODE
      recover == IF touch THEN FI_AUTO_RECOVER \ {f} ELSE FI_AUTO_RECOVER
  IN
  /\ f \in made /\ Max({page[f], isize[f]}) < MaxVer /\ (touch => itime[f] < MaxTime)
  /\ grow \/ isize[f] > 0
  /\ page' = [page EXCEPT ![f] = @ + 1]
  /\ dirty_pages' = dirty_pages \cup {f}
  /\ itime' = IF touch THEN [itime EXCEPT ![f] = @ + 1] ELSE itime
  /\ IF grow
     THEN /\ Dnode(f) \notin Locked /\ (first => Inode(f) \notin Locked)
          /\ isize' = [isize EXCEPT ![f] = @ + 1]
          /\ npage' = IF reserve THEN [npage EXCEPT ![Dnode(f)][2] = @ + 1] ELSE npage
          /\ PageDirty' = PageDirty \cup (IF reserve THEN {Dnode(f)} ELSE {})
                                    \cup (IF first THEN {Inode(f)} ELSE {})
          /\ log_done' = log_done \cup (IF reserve THEN WaitNode(Dnode(f)) ELSE {})
                                  \cup (IF first THEN WaitNode(Inode(f)) ELSE {})
          /\ nat' = IF first THEN set_node_addr(Dnode(f), TRUE, FALSE) ELSE nat
          /\ FI_DIRTY_INODE' = dirtied \cup {f}
          /\ FI_AUTO_RECOVER' = IF f \notin dirtied THEN recover \cup {f} ELSE recover
          /\ gdirty_list' = gdirty_list \cup {f}
     ELSE /\ FI_DIRTY_INODE' = dirtied /\ FI_AUTO_RECOVER' = recover
          /\ UNCHANGED <<isize, nodeVars, log_done, nat, gdirty_list>>
  /\ UNCHANGED <<made, newdir, last_disk_size, appendVars, fsync_seg_id, log, log_durable,
                 dataVars, cp, task, synced, early>>

\* f3fs_do_write_data_page() for the dirty pages of a file, out of place.
WriteDataPages(f) ==
  IF f \in dirty_pages
  THEN /\ Dnode(f) \notin Locked
       /\ dirty_pages' = dirty_pages \ {f}
       /\ npage' = [npage EXCEPT ![Dnode(f)][1] = page[f]]
       /\ PageDirty' = PageDirty \cup {Dnode(f)}
       /\ log_done' = WaitNode(Dnode(f))
       /\ FI_APPEND_WRITE' = FI_APPEND_WRITE \cup {f}
       /\ last_disk_size' = [last_disk_size EXCEPT ![f] = isize[f]]
  ELSE UNCHANGED <<dirty_pages, nodeVars, log_done, FI_APPEND_WRITE, last_disk_size>>

\* The flusher writes data pages back; nobody waits for them.
Writeback(f) ==
  /\ f \in dirty_pages
  /\ WriteDataPages(f)
  /\ UNCHANGED <<made, newdir, page, isize, itime, flagVars, APPEND_INO, nat, fsync_seg_id,
                 log, log_durable, dataVars, cp, task, synced, early>>

\* The flusher writes the inode to its page.
FlushInode(f) ==
  /\ f \in FI_DIRTY_INODE
  /\ WriteInode(f)
  /\ UNCHANGED <<inodeVars, appendVars, nat, fsync_seg_id, log, log_durable, dataVars, cp,
                 task, synced, early>>

\* The inode leaves the cache, which waits for its data, and is read again
\* (f3fs_evict_inode, f3fs_iget).
Evict(f) ==
  /\ f \in made /\ f \notin dirty_pages \cup FI_DIRTY_INODE
  /\ \A t \in Tasks : task[t] # Idle => task[t].file # f
  /\ data_done' = [data_done EXCEPT ![f] = page[f]]
  /\ APPEND_INO' = APPEND_INO \cup (FI_APPEND_WRITE \cap {f})
  /\ FI_APPEND_WRITE' = FI_APPEND_WRITE \ {f}
  /\ last_disk_size' = [last_disk_size EXCEPT ![f] = isize[f]]
  /\ UNCHANGED <<made, newdir, page, isize, itime, dirty_pages, flagVars, nodeVars, nat,
                 fsync_seg_id, logVars, data_durable, cp, task, synced, early>>

-----------------------------------------------------------------------------
(* Writing node blocks *)

\* f3fs_sync_node_pages() for a checkpoint or for sync(2) writes one node page
\* without marks.  do_balance: it first brings a dirty inode to the page
\* (flush_dirty_inode); the checkpoint has already done so for gdirty_list.
SyncNodePage(n, do_balance) ==
  LET f == FileOf(n)
      val == IF n = Inode(f) /\ do_balance /\ f \in FI_DIRTY_INODE
             THEN <<isize[f], itime[f]>> ELSE npage[n]
  IN
  /\ n \in PageDirty \ Locked /\ fsync_seg_id < MaxLog
  /\ do_balance \/ gdirty_list = {}
  /\ npage' = [npage EXCEPT ![n] = val]
  /\ PageDirty' = PageDirty \ {n}
  /\ IF n = Inode(f) /\ do_balance
     THEN /\ FI_DIRTY_INODE' = FI_DIRTY_INODE \ {f} /\ gdirty_list' = gdirty_list \ {f}
          /\ FI_AUTO_RECOVER' = FI_AUTO_RECOVER \ {f}
     ELSE UNCHANGED flagVars
  /\ log' = Append(log, [node |-> n, val |-> val, fsync |-> FALSE, dent |-> FALSE,
                         seq |-> fsync_seg_id])
  /\ fsync_seg_id' = fsync_seg_id + 1
  /\ log_done' = WaitNode(n)
  /\ nat' = set_node_addr(n, FALSE, FALSE)
  /\ UNCHANGED <<inodeVars, appendVars, log_durable, dataVars, cp, task, synced, early>>

\* f3fs_fsync_node_pages(): the file's dirty node pages are looked up.
NodeLookup(t) ==
  /\ task[t].pc = "lookup"
  /\ task' = [task EXCEPT ![t].pc = "nodes",
                          ![t].pages = {n \in PageDirty : FileOf(n) = task[t].file}]
  /\ UNCHANGED <<flagVars, inodeVars, appendVars, nodeVars, nat, fsync_seg_id, logVars, dataVars,
                 cp, synced, early>>

\* One page that is still dirty: marks, a last f3fs_update_inode(), and the number of
\* the write (f3fs_add_fsync_node_entry).
NodeEntry(t) ==
  LET f == task[t].file
      n == NodeOf(t)
      fresh == n = Inode(f) /\ f \in FI_DIRTY_INODE
  IN
  /\ task[t].pc = "nodes" /\ task[t].pages # {}
  /\ n \in PageDirty \ Locked /\ fsync_seg_id < MaxLog
  /\ log_done' = WaitNode(n)
  /\ npage' = IF fresh THEN [npage EXCEPT ![n] = <<isize[f], itime[f]>>] ELSE npage
  /\ FI_DIRTY_INODE' = IF fresh THEN FI_DIRTY_INODE \ {f} ELSE FI_DIRTY_INODE
  /\ FI_AUTO_RECOVER' = FI_AUTO_RECOVER \cap FI_DIRTY_INODE'
  /\ gdirty_list' = gdirty_list \cap FI_DIRTY_INODE'
  /\ PageDirty' = PageDirty \ {n}
  /\ fsync_seg_id' = fsync_seg_id + 1
  /\ task' = [task EXCEPT ![t].pc = "block", ![t].seq_id = fsync_seg_id,
                          ![t].dent = (n = Inode(f) /\ need_dentry_mark(f))]
  /\ UNCHANGED <<inodeVars, appendVars, nat, log, log_durable, dataVars, cp, synced, early>>

\* A page that another task has written meanwhile is passed over.
NodeSkip(t) ==
  /\ task[t].pc = "nodes" /\ task[t].pages # {}
  /\ NodeOf(t) \notin PageDirty \cup Locked
  /\ task' = [task EXCEPT ![t].pages = @ \ {NodeOf(t)}]
  /\ UNCHANGED <<flagVars, inodeVars, appendVars, nodeVars, nat, fsync_seg_id, logVars, dataVars,
                 cp, synced, early>>

\* __write_node_page(): the block gets the next place of the chain, the NAT entry
\* its address and flags, and the page is unlocked.
NodeBlock(t) ==
  LET n == NodeOf(t)
  IN
  /\ task[t].pc = "block"
  /\ log' = Append(log, [node |-> n, val |-> npage[n], fsync |-> TRUE, dent |-> task[t].dent,
                         seq |-> task[t].seq_id])
  /\ nat' = set_node_addr(n, FALSE, TRUE)
  /\ task' = [task EXCEPT ![t].pc = "nodes", ![t].dent = FALSE, ![t].pages = @ \ {n}]
  /\ UNCHANGED <<flagVars, inodeVars, appendVars, nodeVars, fsync_seg_id, log_done, log_durable,
                 dataVars, cp, synced, early>>

-----------------------------------------------------------------------------
(* f3fs_do_sync_file() *)

\* The promise of an fsync that returned 0; fdatasync promises no times.
Kept(t) ==
  LET p == task[t].target
      q == synced[task[t].file]
  IN  [made |-> TRUE, ver |-> Max({p.ver, q.ver}), size |-> Max({p.size, q.size}),
       time |-> Max({p.time, q.time})]
Return(t) ==
  /\ task' = [task EXCEPT ![t] = Idle]
  /\ synced' = [synced EXCEPT ![task[t].file] = Kept(t)]

datasync(t) == t \in DatasyncTasks

\* file_write_and_wait_range()
FsyncStart(t, f) ==
  /\ task[t] = Idle /\ f \in made
  /\ WriteDataPages(f)
  /\ data_done' = [data_done EXCEPT ![f] = page[f]]
  /\ task' = [task EXCEPT ![t] =
       [pc |-> "inode", file |-> f, seq_id |-> 0, pages |-> {},
        dent |-> FALSE,
        target |-> [made |-> TRUE, ver |-> page[f], size |-> isize[f],
                    time |-> IF datasync(t) THEN 0 ELSE itime[f]]]]
  /\ early' = IF \E u \in Tasks : task[u] # Idle /\ task[u].file = f
              THEN early \cup {f} ELSE early
  /\ UNCHANGED <<made, newdir, page, isize, itime, flagVars, APPEND_INO, nat, fsync_seg_id, log,
                 log_durable, data_durable, cp, synced>>

skip_inode_update(f, dsync) ==
  IF dsync THEN f \notin gdirty_list
  ELSE f \in FI_AUTO_RECOVER /\ is_time_consistent(f) /\ last_disk_size[f] = isize[f]

need_inode_page_update(f) == Inode(f) \in PageDirty \/ need_inode_block_update(f)

space_for_roll_forward ==
  Cardinality({i \in DOMAIN log : log[i].fsync}) + Cardinality(Locked) < max_rf_node_blocks

\* need_do_checkpoint(), for a regular file with one link and a known parent
need_do_checkpoint(f) == ~space_for_roll_forward \/ f \in newdir

\* The inode is written unless the data's recovery brings it back; without anything
\* to recover fsync returns at once (out:); go_write: decides for a checkpoint.
FsyncInode(t) ==
  LET f == task[t].file
      skip == skip_inode_update(f, datasync(t))
      out == skip /\ f \notin FI_APPEND_WRITE \cup APPEND_INO /\ ~need_inode_page_update(f)
  IN
  /\ task[t].pc = "inode"
  /\ IF skip THEN UNCHANGED <<nodeVars, log_done, flagVars>> ELSE WriteInode(f)
  /\ IF out
     THEN /\ Return(t)
     ELSE /\ task' = [task EXCEPT ![t].pc = IF need_do_checkpoint(f) THEN "cp" ELSE "lookup"]
          /\ UNCHANGED synced
  /\ UNCHANGED <<inodeVars, appendVars, nat, fsync_seg_id, log, log_durable, dataVars, cp, early>>

\* f3fs_need_inode_block_update(): the last node write of the file must be part of
\* an fsync that marked its inode, else the inode is dirtied and written once more.
FsyncInodeBlock(t) ==
  LET f == task[t].file
  IN
  /\ task[t].pc = "nodes" /\ task[t].pages = {}
  /\ IF need_inode_block_update(f)
     THEN UpdateInode(f) /\ task' = [task EXCEPT ![t].pc = "lookup"]
     ELSE task' = [task EXCEPT ![t].pc = "wait"] /\ UNCHANGED <<nodeVars, log_done, flagVars>>
  /\ UNCHANGED <<inodeVars, appendVars, nat, fsync_seg_id, log, log_durable, dataVars, cp,
                 synced, early>>

\* Variant: the task's own last write is left out.
WaitedForEarlier(seq_id) ==
  IF seq_id = 0 THEN {} ELSE {i \in DOMAIN log : log[i].seq < seq_id}

\* f3fs_wait_on_node_pages_writeback(): every write numbered up to seq_id, and none
\* when seq_id is 0.
WaitedFor(seq_id) ==
  IF seq_id = 0 THEN {} ELSE {i \in DOMAIN log : log[i].seq <= seq_id}

\* Data written back since the task wrote its own: FI_APPEND_WRITE, which asks the
\* next fsync to make it durable, is about to be cleared.
ForgetsAppend(t) == npage[Dnode(task[t].file)][1] > task[t].target.ver

\* The wait does not cover a node write of the file that may still be on its way:
\* its number is 0, or another task has taken a later one.
MayBeEarly(t) ==
  LET seq_id == task[t].seq_id
  IN  \/ seq_id = 0 /\ fsync_seg_id > 0
      \/ seq_id + 1 < fsync_seg_id

FsyncWait(t) ==
  LET f == task[t].file
  IN
  /\ task[t].pc = "wait"
  /\ task[t].seq_id = 0 \/ \A u \in Tasks : task[u].pc = "block" => task[u].seq_id > task[t].seq_id
  /\ log_done' = log_done \cup WaitedFor(task[t].seq_id)
  /\ FI_APPEND_WRITE' = FI_APPEND_WRITE \ {f} /\ APPEND_INO' = APPEND_INO \ {f}
  /\ early' = IF MayBeEarly(t) \/ ForgetsAppend(t) THEN early \cup {f} ELSE early
  /\ task' = [task EXCEPT ![t].pc = "flush"]
  /\ UNCHANGED <<flagVars, inodeVars, nodeVars, nat, fsync_seg_id, log, log_durable, dataVars, cp,
                 synced>>

\* f3fs_issue_flush(): what has completed becomes durable.
FsyncFlush(t) ==
  /\ task[t].pc = "flush"
  /\ log_durable' = log_done /\ data_durable' = data_done
  /\ Return(t)
  /\ UNCHANGED <<flagVars, inodeVars, appendVars, nodeVars, nat, fsync_seg_id, log, log_done,
                 data_done, cp, early>>

-----------------------------------------------------------------------------
(* Checkpoint *)

\* f3fs_write_checkpoint(): the inodes of gdirty_list and every dirty node page are
\* written, the NAT flags reset, and a new chain begins.  node_write keeps it out of
\* the write of a node page.
WriteCheckpoint ==
  LET content == [n \in Nodes |-> IF n[2] = "inode" /\ FileOf(n) \in gdirty_list
                                  THEN <<isize[FileOf(n)], itime[FileOf(n)]>> ELSE npage[n]]
  IN
  /\ Locked = {}
  /\ npage' = content /\ PageDirty' = {}
  /\ FI_DIRTY_INODE' = FI_DIRTY_INODE \ gdirty_list
  /\ FI_AUTO_RECOVER' = FI_AUTO_RECOVER \ gdirty_list
  /\ gdirty_list' = {}
  /\ nat' = [f \in Files |-> IF nat[f] = Absent THEN Absent ELSE ResetFlags]
  /\ cp' = [made |-> made, node |-> content]
  /\ newdir' = {} /\ APPEND_INO' = {}
  /\ log' = <<>> /\ log_done' = {} /\ log_durable' = {} /\ fsync_seg_id' = 0
  /\ data_durable' = data_done
  /\ early' = {f \in early : data_done[f] < content[Dnode(f)][1]}
  /\ UNCHANGED <<made, page, isize, itime, last_disk_size, dirty_pages, FI_APPEND_WRITE,
                 data_done, synced>>

Checkpoint == WriteCheckpoint /\ UNCHANGED task

\* f3fs_sync_fs() by fsync
FsyncCheckpoint(t) ==
  /\ task[t].pc = "cp"
  /\ WriteCheckpoint
  /\ task' = [task EXCEPT ![t].pc = "cpdone"]

FsyncCheckpointDone(t) ==
  LET f == task[t].file
  IN
  /\ task[t].pc = "cpdone"
  /\ FI_APPEND_WRITE' = FI_APPEND_WRITE \ {f}
  /\ early' = IF ForgetsAppend(t) THEN early \cup {f} ELSE early
  /\ Return(t)
  /\ UNCHANGED <<flagVars, inodeVars, APPEND_INO, nodeVars, nat, fsync_seg_id, logVars, dataVars, cp>>

-----------------------------------------------------------------------------
(* Power loss and the next mount *)

\* The chain is followed to its first block that is not on the device.
DurablePrefix ==
  Max({0} \cup {k \in DOMAIN log : \A i \in 1 .. k : i \in log_durable})
Survivors == DurablePrefix .. Len(log)

\* find_fsync_dnodes(): the marked blocks of a file, from the first that finds its
\* inode, in the checkpoint or in a block with a dentry mark.
Marks(f, k) == {i \in 1 .. k : FileOf(log[i].node) = f /\ log[i].fsync}
Found(f, k) == {i \in Marks(f, k) : f \in cp.made \/ log[i].dent}
Entries(k)  == {f \in Files : Found(f, k) # {}}

\* f3fs_recover_inode_page() refuses an inode that the NAT knows; recover_dentry()
\* fails when the parent directory is not there.
RecoveryFails(k) ==
  \E f \in Entries(k) :
    \/ f \in cp.made /\ log[Min(Found(f, k))].dent
    \/ f \in newdir /\ \E i \in Marks(f, k) : log[i].dent

\* recover_data(): recover_inode() and do_recover_data() for every block of the
\* file up to its last mark.
RecoverBlock(r, b) ==
  IF b.node[2] = "inode" THEN [r EXCEPT !.size = b.val[1], !.time = b.val[2]]
  ELSE IF b.val = <<r.ver, r.len>> THEN r
  ELSE [r EXCEPT !.ver = b.val[1], !.len = b.val[2], !.size = Max({@, b.val[2]})]

AtCheckpoint(f) ==
  [made |-> f \in cp.made, size |-> cp.node[Inode(f)][1], time |-> cp.node[Inode(f)][2],
   ver |-> cp.node[Dnode(f)][1], len |-> cp.node[Dnode(f)][2]]

Recovered(f, k) ==
  LET upto[i \in 0 .. k] ==
        IF i = 0 THEN [AtCheckpoint(f) EXCEPT !.made = TRUE]
        ELSE IF FileOf(log[i].node) = f THEN RecoverBlock(upto[i - 1], log[i])
        ELSE upto[i - 1]
  IN  IF f \notin Entries(k) \/ RecoveryFails(k) THEN AtCheckpoint(f)
      ELSE upto[Max(Marks(f, k))]

\* Power is lost with the first k blocks of the chain on the device; the mount
\* recovers and writes a checkpoint (f3fs_recover_fsync_data).
CrashAndMount(k) ==
  LET r == [f \in Files |-> Recovered(f, k)]
      node == [n \in Nodes |-> IF n[2] = "inode" THEN <<r[n[1]].size, r[n[1]].time>>
                               ELSE <<r[n[1]].ver, r[n[1]].len>>]
  IN
  /\ made' = {f \in Files : r[f].made}
  /\ page' = [f \in Files |-> r[f].ver] /\ isize' = [f \in Files |-> r[f].size]
  /\ itime' = [f \in Files |-> r[f].time] /\ last_disk_size' = isize'
  /\ npage' = node /\ cp' = [made |-> made', node |-> node]
  /\ nat' = [f \in Files |-> Absent]
  /\ data_done' = page' /\ data_durable' = page'
  /\ newdir' = {} /\ dirty_pages' = {} /\ PageDirty' = {}
  /\ FI_DIRTY_INODE' = {} /\ FI_AUTO_RECOVER' = {} /\ gdirty_list' = {}
  /\ FI_APPEND_WRITE' = {} /\ APPEND_INO' = {}
  /\ fsync_seg_id' = 0 /\ log' = <<>> /\ log_done' = {} /\ log_durable' = {}
  /\ task' = [t \in Tasks |-> Idle]
  /\ synced' = [f \in Files |-> Nothing] /\ early' = {}

-----------------------------------------------------------------------------
Background ==
  \/ \E f \in Files : Writeback(f) \/ FlushInode(f) \/ Evict(f) \/ CacheNat(f) \/ ShrinkNat(f)
  \/ \E n \in Nodes, do_balance \in BOOLEAN : SyncNodePage(n, do_balance)
  \/ Checkpoint
  \/ \E k \in Survivors : CrashAndMount(k)

Fsync(t) ==
  \/ FsyncInode(t)
  \/ NodeLookup(t) \/ NodeEntry(t) \/ NodeBlock(t) \/ NodeSkip(t) \/ FsyncInodeBlock(t)
  \/ FsyncWait(t) \/ FsyncFlush(t)
  \/ FsyncCheckpoint(t) \/ FsyncCheckpointDone(t)

Next ==
  \/ /\ \E f \in Files : \/ \E d \in BOOLEAN : Create(f, d)
                         \/ \E touch, grow \in BOOLEAN : Write(f, touch, grow)
     /\ UNCHANGED <<calls, background>>
  \/ /\ calls < MaxCalls /\ calls' = calls + 1
     /\ \E t \in Tasks, f \in Files : FsyncStart(t, f)
     /\ UNCHANGED background
  \/ (\E t \in Tasks : Fsync(t)) /\ UNCHANGED <<calls, background>>
  \/ /\ background < MaxBackground /\ background' = background + 1
     /\ Background
     /\ UNCHANGED calls

Spec == Init /\ [][Next]_vars

-----------------------------------------------------------------------------
(* Properties *)

\* Whatever part of the chain a power loss leaves, the roll-forward recovery of the
\* next mount does not fail (super.c:4349 would then skip it and lose every fsync).
RecoveryNeverFails == \A k \in Survivors : ~RecoveryFails(k)

Honoured(f) ==
  \A k \in Survivors :
    LET r == Recovered(f, k)
        p == synced[f]
    IN  /\ p.made => r.made
        /\ r.ver >= p.ver /\ r.size >= p.size /\ r.time >= p.time
        /\ r.ver = p.ver => data_durable[f] >= r.ver

\* An inode that is not in the checkpoint and that the NAT flags call recoverable
\* has a block with fsync and dentry marks in the chain.
FsyncedInodeInChain ==
  \A f \in made \ cp.made :
    ~need_inode_block_update(f) =>
      \E i \in DOMAIN log : log[i].node = Inode(f) /\ log[i].fsync /\ log[i].dent

\* "Both of fdatasync() and fsync() are able to be recovered from sudden-power-off"
\* (file.c:318): what an fsync that returned promised is there after any power
\* loss, for the files whose fsyncs waited for every node write of theirs.  The
\* blocks f3fs_fsync_node_pages chooses, their marks, their order in the chain and
\* what the NAT flags say of them are enough to recover.
FsyncSurvivesUnlessEarly ==
  TypeOK /\ FsyncedInodeInChain /\ \A f \in Files \ early : Honoured(f)
=============================================================================
