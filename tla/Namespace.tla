------------------------------ MODULE Namespace ------------------------------
(***************************************************************************)
(* Directory operations, link counts and the orphan list: namei.c,         *)
(* dir.c, f3fs_evict_inode and f3fs_handle_failed_inode of inode.c and the *)
(* ORPHAN_INO list of checkpoint.c.                                        *)
(*                                                                         *)
(* fs is what the operations change; a checkpoint copies it and a crash    *)
(* goes back to the copy and deletes the orphans it lists.  Everything an  *)
(* operation does between f3fs_lock_op and f3fs_unlock_op is one step,     *)
(* since no checkpoint can fall into it and the VFS holds the locks of the *)
(* directories and of the inodes it names.  What an operation does in      *)
(* several such sections is several steps: a new inode is allocated before *)
(* it is linked, a whiteout is made before the rename it is for, and the   *)
(* VFS changes its dentries only after the operation has returned.         *)
(***************************************************************************)
EXTENDS Integers, FiniteSets, FiniteSetsExt

CONSTANTS Tasks,        \* system calls that run at the same time
          Ino,          \* inode numbers
          Root, A, F,   \* those of the image mounted first
          Names,        \* names an entry can have
          N1,           \* the name A has in Root and F has in A
          Nil,          \* no inode
          max_orphans,  \* entries the orphan blocks of a checkpoint have room for
          MaxOps,       \* bound on the system calls
          MaxFaults     \* bound on the allocations and reads that fail

ASSUME NamespaceAssumption ==
  /\ {Root, A, F} \subseteq Ino /\ Nil \notin Ino /\ N1 \in Names
  /\ Cardinality({Root, A, F}) = 3
  /\ max_orphans \in Nat /\ MaxOps \in Nat /\ MaxFaults \in Nat

VARIABLES fs,       \* inodes, entries and the orphan list, in memory
          ckpt,     \* what the last checkpoint wrote of it
          task,     \* the phase of each system call
          linkable, \* open O_TMPFILE inodes, which linkat may link
          gone,     \* inodes that left memory although deleting them failed
          fixing,   \* inodes whose fsync has checkpointed and not returned
          ops, faults

vars == <<fs, ckpt, task, linkable, gone, fixing, ops, faults>>

-----------------------------------------------------------------------------
(* Reading the name space.                                                 *)

Entries(f, i) == {<<d, n>> \in Ino \X Names : f.entry[d][n] = i}
IsDir(f, i) == f.kind[i] = "dir"
Subdirs(f, d) == {n \in Names : f.entry[d][n] # Nil /\ IsDir(f, f.entry[d][n])}
f3fs_empty_dir(f, d) == \A n \in Names : f.entry[d][n] = Nil

\* A directory the VFS still lets in: not removed (IS_DEADDIR).
Reachable(f, d) == IsDir(f, d) /\ (d = Root \/ Entries(f, d) # {})

\* d is i or lies below it: lock_rename refuses such a target.
Below(f, d, i) ==
  LET up(k, S) == S \cup {x \in Ino : \E n \in Names : f.entry[x][n] \in S}
  IN  IsDir(f, i) /\ i \in FoldSet(up, {d}, Ino)

-----------------------------------------------------------------------------
(* The functions of the source that change it, on the record fs.           *)

links_write(f, i, k) == [f EXCEPT !.nlink[i] = @ + k]

acquire_orphan_ok(f) == f.ino_num < max_orphans
f3fs_acquire_orphan_inode(f) == [f EXCEPT !.ino_num = @ + 1]
f3fs_release_orphan_inode(f) == [f EXCEPT !.ino_num = @ - 1]
f3fs_add_orphan_inode(f, i) == [f EXCEPT !.orphans = @ \cup {i}]

\* Only an inode that is in the list gives its place back.
f3fs_remove_orphan_inode(f, i) ==
  IF i \in f.orphans
  THEN [f EXCEPT !.orphans = @ \ {i}, !.ino_num = @ - 1] ELSE f

\* An unlinked inode joins the list in the place acquired for it.
OrphanOrRelease(f, i) ==
  IF f.nlink[i] = 0 THEN f3fs_add_orphan_inode(f, i)
  ELSE f3fs_release_orphan_inode(f)

\* inc_link is FI_INC_LINK: a directory's "." or a hard link.  Linking a
\* tmpfile takes it off the orphan list.
f3fs_init_inode_metadata(f, d, i, inc_link) ==
  LET g == [f EXCEPT !.node[i] = TRUE,
                     !.dotdot[i] = IF IsDir(f, i) /\ ~f.node[i] THEN d ELSE @]
      h == [g EXCEPT !.lost = IF IsDir(f, i) THEN @ ELSE @ \cup {i}]
  IN  IF ~inc_link THEN g
      ELSE IF h.nlink[i] = 0
      THEN links_write(f3fs_remove_orphan_inode(h, i), i, 1)
      ELSE links_write(h, i, 1)

f3fs_update_parent_metadataNot(f, d, i, new) == f
\* A directory that was created adds its ".." to its parent.
f3fs_update_parent_metadata(f, d, i, new) ==
  IF new /\ IsDir(f, i) THEN links_write(f, d, 1) ELSE f

f3fs_add_link(f, d, n, i, inc_link) ==
  LET g == f3fs_init_inode_metadata(f, d, i, inc_link)
      h == [g EXCEPT !.entry[d][n] = i, !.pino[i] = d]
  IN  f3fs_update_parent_metadata(h, d, i, ~f.node[i])

f3fs_drop_nlink(f, d, i) ==
  LET g == IF IsDir(f, i) THEN links_write(links_write(f, d, -1), i, -2)
           ELSE links_write(f, i, -1)
  IN  OrphanOrRelease(g, i)

f3fs_delete_entry(f, d, n, i) ==
  LET g == [f EXCEPT !.entry[d][n] = Nil]
  IN  IF i = Nil THEN g ELSE f3fs_drop_nlink(g, d, i)

f3fs_set_link(f, d, n, i) == [f EXCEPT !.entry[d][n] = i]

\* The node block is invalidated and, after a checkpoint, the nid free.
Removed(f, i) ==
  [f EXCEPT !.node[i] = FALSE, !.kind[i] = "none", !.nlink[i] = 0,
            !.dotdot[i] = Nil, !.pino[i] = Nil, !.lost = @ \ {i},
            !.excess[i] = 0, !.kept = @ \ {i}, !.raced = @ \ {i},
            !.left = @ \ {i}]

truncate_node(f, i) == Removed(f3fs_remove_orphan_inode(f, i), i)

handle_failed_inodeForgets(f, i, node) ==
  [f EXCEPT !.nlink[i] = 0, !.node[i] = node]
\* node: the inode page was made before the failure.
f3fs_handle_failed_inode(f, i, node) ==
  LET g == [f EXCEPT !.nlink[i] = 0, !.node[i] = node]
  IN  IF ~node THEN g
      ELSE IF acquire_orphan_ok(g)
      THEN f3fs_add_orphan_inode(f3fs_acquire_orphan_inode(g), i)
      ELSE [g EXCEPT !.left = @ \cup {i}]

\* A file loses its i_pino, and so does what a whiteout stays behind for.
RenamePino(f, i, nd, w) ==
  IF ~IsDir(f, i) \/ w # Nil THEN [f EXCEPT !.lost = @ \cup {i}]
  ELSE [f EXCEPT !.pino[i] = nd]

\* w is the whiteout or Nil; whiteout_fails: its own link could not be added,
\* and the function leaves through put_out_dir with the entry already moved.
f3fs_rename(f, od, on, nd, nn, w, whiteout_fails) ==
  LET i == f.entry[od][on]
      j == f.entry[nd][nn]
      dir == IsDir(f, i)
      replace == OrphanOrRelease(
                   links_write(f3fs_set_link(f3fs_acquire_orphan_inode(f), nd, nn, i),
                               j, IF dir THEN -2 ELSE -1), j)
      add == links_write(f3fs_add_link(f, nd, nn, i, FALSE), nd, IF dir THEN 1 ELSE 0)
      f1 == IF j # Nil THEN replace ELSE add
      f3 == f3fs_delete_entry(RenamePino(f1, i, nd, w), od, on, Nil)
      f4 == IF w = Nil THEN f3 ELSE f3fs_add_link(f3, od, on, w, TRUE)
      f5 == IF dir /\ od # nd
            THEN IF w = Nil THEN [f4 EXCEPT !.dotdot[i] = nd, !.kept = @ \ {i}]
                 ELSE [f4 EXCEPT !.kept = @ \cup {i}]
            ELSE f4
  IN  IF whiteout_fails
      THEN [f3 EXCEPT !.excess[od] = @ + (IF dir THEN 1 ELSE 0),
                      !.kept = IF dir /\ od # nd THEN @ \cup {i} ELSE @]
      ELSE links_write(f5, od, IF dir THEN -1 ELSE 0)

\* The directories among the exchanged get their new parent.
SetParentsNot(f, dirs, parent) ==
  [f EXCEPT !.pino = [x \in Ino |-> IF x \in dirs THEN parent[x] ELSE @[x]]]
SetParents(f, dirs, parent) ==
  [f EXCEPT !.dotdot = [x \in Ino |-> IF x \in dirs THEN parent[x] ELSE @[x]],
            !.pino = [x \in Ino |-> IF x \in dirs THEN parent[x] ELSE @[x]],
            !.kept = @ \ dirs]

f3fs_cross_rename(f, od, on, nd, nn) ==
  LET i == f.entry[od][on]
      j == f.entry[nd][nn]
      old_dir_entry == od # nd /\ IsDir(f, i)
      new_dir_entry == od # nd /\ IsDir(f, j)
      old_nlink == IF old_dir_entry = new_dir_entry THEN 0
                   ELSE IF old_dir_entry THEN -1 ELSE 1
      dirs == {x \in {i, j} : od # nd /\ IsDir(f, x)}
      g == SetParents([f EXCEPT !.entry = [@ EXCEPT ![od][on] = j, ![nd][nn] = i],
                                !.lost = @ \cup ({i, j} \ dirs)],
                      dirs, [x \in {i, j} |-> IF x = i THEN nd ELSE od])
  IN  links_write(links_write(g, od, old_nlink), nd, -old_nlink)

-----------------------------------------------------------------------------
(* The system calls.  held are the inodes whose i_rwsem the VFS holds for  *)
(* the call, Nil in it standing for s_vfs_rename_mutex; stale is what the  *)
(* dentry cache still says of the names the call has changed.              *)

Idle == [pc |-> "idle", op |-> "none", ino |-> Nil, od |-> Nil, on |-> N1,
         nd |-> Nil, nn |-> N1, held |-> {}, stale |-> {}]

Unlocked(S) == \A u \in Tasks : task[u].held \cap S = {}
Done(held, names) ==
  [Idle EXCEPT !.pc = "done", !.held = held,
               !.stale = {<<x[1], x[2], fs.entry[x[1]][x[2]]>> : x \in names}]
Become(t, phase) == task' = [task EXCEPT ![t] = phase]
Call == ops < MaxOps /\ ops' = ops + 1
Fault == faults < MaxFaults /\ faults' = faults + 1
NoFault == UNCHANGED faults
Same == UNCHANGED <<ckpt, gone, fixing>>

Parent(d) == Reachable(fs, d)

\* Source and target of a rename as lock_rename and may_delete let them be.
MayRename(od, on, nd, nn) ==
  LET i == fs.entry[od][on]
      j == fs.entry[nd][nn]
  IN  /\ Parent(od) /\ Parent(nd) /\ <<od, on>> # <<nd, nn>>
      /\ i # Nil /\ i # j /\ ~Below(fs, nd, i)
      /\ j # Nil => IsDir(fs, i) = IsDir(fs, j) /\ ~Below(fs, od, j)
RenameLocks(od, on, nd, nn) ==
  LET i == fs.entry[od][on]
  IN  {od, nd} \cup ({fs.entry[nd][nn]} \ {Nil}) \cup (IF IsDir(fs, i) THEN {} ELSE {i})
      \cup (IF od # nd THEN {Nil} ELSE {})

-----------------------------------------------------------------------------
(* Creating.                                                               *)

\* f3fs_new_inode: a nid that is free, also in the last checkpoint.
FreeNid(i) == fs.kind[i] = "none" /\ ~ckpt.node[i]
NewInode(i, kind) == fs' = [fs EXCEPT !.kind[i] = kind, !.nlink[i] = 1]

StartCreate(t, i, op, d, n) ==
  /\ task[t].pc = "idle" /\ Call /\ FreeNid(i)
  /\ Parent(d) /\ fs.entry[d][n] = Nil
  /\ op # "tmpfile" => Unlocked({d})
  /\ op = "tmpfile" => n = N1
  /\ NewInode(i, IF op = "mkdir" THEN "dir" ELSE "file")
  /\ Become(t, [Idle EXCEPT !.pc = "new", !.op = op, !.ino = i, !.od = d, !.on = n,
                            !.held = IF op = "tmpfile" THEN {} ELSE {d}])
  /\ NoFault /\ UNCHANGED linkable /\ Same

\* RENAME_WHITEOUT: f3fs_create_whiteout comes first.
StartWhiteout(t, i, od, on, nd, nn) ==
  /\ task[t].pc = "idle" /\ Call /\ FreeNid(i)
  /\ MayRename(od, on, nd, nn) /\ Unlocked(RenameLocks(od, on, nd, nn))
  /\ NewInode(i, "file")
  /\ Become(t, [pc |-> "new", op |-> "whiteout", ino |-> i, od |-> od, on |-> on,
                nd |-> nd, nn |-> nn, held |-> RenameLocks(od, on, nd, nn),
                stale |-> {}])
  /\ NoFault /\ UNCHANGED linkable /\ Same

\* f3fs_create, f3fs_mkdir, f3fs_mknod, f3fs_symlink: the section that links.
CreateLink(t) ==
  LET T == task[t]
  IN  /\ T.pc = "new" /\ T.op \in {"mkdir", "symlink"}
      /\ \/ /\ fs' = f3fs_add_link(fs, T.od, T.on, T.ino, T.op = "mkdir")
            /\ Become(t, IF T.op = "mkdir" THEN Done(T.held, {<<T.od, T.on>>})
                         ELSE [T EXCEPT !.pc = "symlink",
                                        !.stale = {<<T.od, T.on, Nil>>}])
            /\ NoFault
         \/ /\ Fault
            /\ \E node \in BOOLEAN : fs' = f3fs_handle_failed_inode(fs, T.ino, node)
            /\ Become(t, Idle)
      /\ UNCHANGED <<ops, linkable>> /\ Same

\* A symlink whose target could not be written is unlinked again.  f3fs_create
\* and f3fs_mknod end as a symlink does whose target is written.
SymlinkData(t) ==
  LET T == task[t]
  IN  /\ T.pc = "symlink"
      /\ \/ NoFault /\ UNCHANGED fs
         \/ /\ Fault
            /\ fs' = IF acquire_orphan_ok(fs)
                     THEN f3fs_delete_entry(f3fs_acquire_orphan_inode(fs), T.od, T.on, T.ino)
                     ELSE fs
      /\ Become(t, Idle)
      /\ UNCHANGED <<ops, linkable>> /\ Same

\* __f3fs_tmpfile from f3fs_lock_op on, for O_TMPFILE and for a whiteout.
Tmpfile(t) ==
  LET T == task[t]
  IN  /\ T.pc = "new" /\ T.op \in {"tmpfile", "whiteout"}
      /\ \/ /\ ~acquire_orphan_ok(fs) /\ NoFault
            /\ fs' = f3fs_handle_failed_inode(fs, T.ino, FALSE)
            /\ Become(t, Idle) /\ UNCHANGED linkable
         \/ /\ acquire_orphan_ok(fs) /\ Fault
            /\ \E node \in BOOLEAN :
                 fs' = f3fs_handle_failed_inode(
                         f3fs_release_orphan_inode(f3fs_acquire_orphan_inode(fs)),
                         T.ino, node)
            /\ Become(t, Idle) /\ UNCHANGED linkable
         \/ /\ acquire_orphan_ok(fs) /\ NoFault
            /\ fs' = links_write(
                       f3fs_add_orphan_inode(
                         f3fs_init_inode_metadata(f3fs_acquire_orphan_inode(fs),
                                                  T.od, T.ino, FALSE), T.ino),
                       T.ino, -1)
            /\ IF T.op = "tmpfile"
               THEN Become(t, Idle) /\ linkable' = linkable \cup {T.ino}
               ELSE Become(t, [T EXCEPT !.pc = "tmp"]) /\ UNCHANGED linkable
      /\ UNCHANGED ops /\ Same

-----------------------------------------------------------------------------
(* Linking, unlinking and renaming.                                        *)

f3fs_link(t, i, d, n) ==
  /\ task[t].pc = "idle" /\ Call
  /\ fs.kind[i] = "file" /\ fs.node[i] /\ (fs.nlink[i] > 0 \/ i \in linkable)
  /\ Parent(d) /\ fs.entry[d][n] = Nil /\ Unlocked({d, i})
  /\ fs' = f3fs_add_link(fs, d, n, i, TRUE)
  /\ Become(t, Done({d, i}, {<<d, n>>}))
  /\ linkable' = linkable \ {i}
  /\ NoFault /\ Same

\* f3fs_unlink and f3fs_rmdir.
f3fs_unlink(t, d, n) ==
  LET i == fs.entry[d][n]
  IN  /\ task[t].pc = "idle" /\ Call
      /\ Parent(d) /\ i # Nil /\ Unlocked({d, i})
      /\ IsDir(fs, i) => f3fs_empty_dir(fs, i)
      /\ acquire_orphan_ok(fs)
      /\ fs' = f3fs_delete_entry(f3fs_acquire_orphan_inode(fs), d, n, i)
      /\ Become(t, Done({d, i}, {<<d, n>>}))
      /\ NoFault /\ UNCHANGED linkable /\ Same

\* What f3fs_rename checks before it changes anything.
Replaceable(nd, nn, dir) ==
  LET j == fs.entry[nd][nn]
  IN  j # Nil => (dir => f3fs_empty_dir(fs, j)) /\ acquire_orphan_ok(fs)

Rename(t, od, on, nd, nn) ==
  /\ task[t].pc = "idle" /\ Call
  /\ MayRename(od, on, nd, nn) /\ Unlocked(RenameLocks(od, on, nd, nn))
  /\ Replaceable(nd, nn, IsDir(fs, fs.entry[od][on]))
  /\ fs' = f3fs_rename(fs, od, on, nd, nn, Nil, FALSE)
  /\ Become(t, Done(RenameLocks(od, on, nd, nn), {<<od, on>>, <<nd, nn>>}))
  /\ NoFault /\ UNCHANGED linkable /\ Same

\* The rename with its whiteout: it fails before it changes anything, when
\* the whiteout's link is added, or not at all.
RenameWhiteout(t) ==
  LET T == task[t]
      ok == Replaceable(T.nd, T.nn, IsDir(fs, fs.entry[T.od][T.on]))
  IN  /\ T.pc = "tmp"
      /\ \/ /\ ~ok /\ NoFault /\ UNCHANGED fs
            /\ Become(t, Idle)
         \/ /\ Fault /\ UNCHANGED fs
            /\ Become(t, Idle)
         \/ /\ ok /\ NoFault
            /\ fs' = f3fs_rename(fs, T.od, T.on, T.nd, T.nn, T.ino, FALSE)
            /\ Become(t, Done(T.held, {<<T.od, T.on>>, <<T.nd, T.nn>>}))
         \/ /\ ok /\ Fault
            /\ fs' = f3fs_rename(fs, T.od, T.on, T.nd, T.nn, T.ino, TRUE)
            /\ Become(t, Idle)
      /\ UNCHANGED <<ops, linkable>> /\ Same

\* RENAME_EXCHANGE.
CrossRename(t, od, on, nd, nn) ==
  LET i == fs.entry[od][on]
      j == fs.entry[nd][nn]
      locks == {od, nd} \cup {x \in {i, j} : ~IsDir(fs, x)}
               \cup (IF od # nd THEN {Nil} ELSE {})
  IN  /\ task[t].pc = "idle" /\ Call
      /\ Parent(od) /\ Parent(nd) /\ <<od, on>> # <<nd, nn>>
      /\ i # Nil /\ j # Nil /\ i # j
      /\ ~Below(fs, nd, i) /\ ~Below(fs, od, j) /\ Unlocked(locks)
      /\ fs' = f3fs_cross_rename(fs, od, on, nd, nn)
      /\ Become(t, Done(locks, {<<od, on>>, <<nd, nn>>}))
      /\ NoFault /\ UNCHANGED linkable /\ Same

\* The VFS updates the dentries (d_instantiate, d_delete, d_move, d_exchange)
\* and lets the locks go.
Finish(t) ==
  /\ task[t].pc = "done"
  /\ Become(t, Idle)
  /\ NoFault /\ UNCHANGED <<fs, ops, linkable>> /\ Same

-----------------------------------------------------------------------------
(* Deleting inodes.                                                        *)

\* The last reference to an unlinked inode is dropped.  When truncating it
\* or removing its inode page fails, it leaves memory all the same.
f3fs_evict_inode(i) ==
  /\ fs.kind[i] # "none" /\ fs.nlink[i] = 0
  /\ i \notin gone \cup fixing /\ Unlocked({i})
  /\ \A t \in Tasks : task[t].ino # i
  /\ \/ /\ fs' = truncate_node(fs, i)
        /\ NoFault /\ UNCHANGED gone
     \/ /\ fs.node[i] /\ Fault
        /\ gone' = gone \cup {i} /\ UNCHANGED fs
  /\ linkable' = linkable \ {i}
  /\ UNCHANGED <<ckpt, task, fixing, ops>>

-----------------------------------------------------------------------------
(* fsync of a file that needs a checkpoint, checkpoints and crashes.       *)

\* What a checkpoint writes: every inode that has a node, the orphan list.
Durable(f) ==
  [f EXCEPT !.kind = [i \in Ino |-> IF f.node[i] THEN @[i] ELSE "none"],
            !.nlink = [i \in Ino |-> IF f.node[i] THEN @[i] ELSE 0],
            !.ino_num = 0]

f3fs_write_checkpoint ==
  /\ ckpt # Durable(fs)
  /\ ckpt' = Durable(fs)
  /\ UNCHANGED <<fs, task, linkable, gone, fixing, ops, faults>>

\* f3fs_do_sync_file when need_do_checkpoint has a reason, up to f3fs_sync_fs.
Fsync(i) ==
  /\ Call
  /\ fs.kind[i] = "file" /\ fs.node[i] /\ i \notin gone \cup fixing
  /\ ckpt' = Durable(fs)
  /\ fixing' = fixing \cup {i}
  /\ UNCHANGED <<fs, task, linkable, gone, faults>>

\* The directories d_find_alias can find i in.
Dentry(d, n) ==
  LET S == {x \in UNION {task[t].stale : t \in Tasks} : x[1] = d /\ x[2] = n}
  IN  IF S = {} THEN fs.entry[d][n] ELSE (CHOOSE x \in S : TRUE)[3]
Aliases(i) == {d \in Ino : \E n \in Names : Dentry(d, n) = i}

\* ... and from try_to_fix_pino on.
try_to_fix_pino(i) ==
  /\ i \in fixing
  /\ fixing' = fixing \ {i}
  /\ IF i \in fs.lost /\ fs.nlink[i] = 1 /\ Aliases(i) # {}
     THEN \E d \in Aliases(i) :
            fs' = [fs EXCEPT !.pino[i] = d, !.lost = @ \ {i},
                             !.raced = IF \E n \in Names : fs.entry[d][n] = i
                                       THEN @ \ {i} ELSE @ \cup {i}]
     ELSE UNCHANGED fs
  /\ UNCHANGED <<ckpt, task, linkable, gone, ops, faults>>

\* f3fs_recover_orphan_inodes deletes what the checkpoint lists.
f3fs_recover_orphan_inodes(f) ==
  FoldSet(LAMBDA i, g : Removed(g, i), [f EXCEPT !.orphans = {}], f.orphans)

CrashAndMount ==
  /\ Call
  /\ LET f == f3fs_recover_orphan_inodes(ckpt)
     IN  /\ fs' = f
         /\ gone' = {i \in Ino : f.node[i] /\ f.nlink[i] = 0}
  /\ task' = [t \in Tasks |-> Idle]
  /\ linkable' = {} /\ fixing' = {}
  /\ UNCHANGED <<ckpt, faults>>

-----------------------------------------------------------------------------
\* A volume with the directory A, in it F, a file or an empty directory.
Image(kind) ==
  [node |-> [i \in Ino |-> i \in {Root, A, F}],
   kind |-> [i \in Ino |-> IF i \in {Root, A} THEN "dir"
                           ELSE IF i = F THEN kind ELSE "none"],
   nlink |-> [i \in Ino |->
                IF i = Root THEN 3
                ELSE IF i = A THEN (IF kind = "dir" THEN 3 ELSE 2)
                ELSE IF i = F THEN (IF kind = "dir" THEN 2 ELSE 1) ELSE 0],
   entry |-> [d \in Ino |-> [n \in Names |->
                IF n # N1 THEN Nil ELSE IF d = Root THEN A
                ELSE IF d = A THEN F ELSE Nil]],
   dotdot |-> [i \in Ino |-> IF i \in {Root, A} THEN Root
                             ELSE IF i = F /\ kind = "dir" THEN A ELSE Nil],
   pino |-> [i \in Ino |-> IF i \in {Root, A} THEN Root
                           ELSE IF i = F THEN A ELSE Nil],
   lost |-> {}, orphans |-> {}, ino_num |-> 0, left |-> {},
   excess |-> [i \in Ino |-> 0], kept |-> {}, raced |-> {}]

Init ==
  /\ \E kind \in {"file", "dir"} : fs = Image(kind) /\ ckpt = Image(kind)
  /\ task = [t \in Tasks |-> Idle]
  /\ linkable = {} /\ gone = {} /\ fixing = {}
  /\ ops = 0 /\ faults = 0

Next ==
  \/ \E t \in Tasks :
       \/ \E i \in Ino, op \in {"mkdir", "symlink", "tmpfile"},
             d \in Ino, n \in Names : StartCreate(t, i, op, d, n)
       \/ \E i \in Ino, od, nd \in Ino, on, nn \in Names :
             StartWhiteout(t, i, od, on, nd, nn)
       \/ CreateLink(t) \/ SymlinkData(t) \/ Tmpfile(t)
       \/ \E i \in Ino, d \in Ino, n \in Names : f3fs_link(t, i, d, n)
       \/ \E d \in Ino, n \in Names : f3fs_unlink(t, d, n)
       \/ \E od, nd \in Ino, on, nn \in Names :
            Rename(t, od, on, nd, nn) \/ CrossRename(t, od, on, nd, nn)
       \/ RenameWhiteout(t) \/ Finish(t)
  \/ \E i \in Ino : f3fs_evict_inode(i) \/ Fsync(i) \/ try_to_fix_pino(i)
  \/ f3fs_write_checkpoint
  \/ CrashAndMount

Spec == Init /\ [][Next]_vars

-----------------------------------------------------------------------------
(* Properties.                                                             *)

\* The state is well formed; ino_num never leaves 0..max_orphans, where
\* f3fs_release_orphan_inode would hit its bug_on.
TypeOK ==
  /\ \A i \in Ino : fs.node[i] \in BOOLEAN /\ fs.kind[i] \in {"none", "dir", "file"}
                    /\ fs.nlink[i] \in Nat /\ fs.dotdot[i] \in Ino \cup {Nil}
                    /\ \A n \in Names : fs.entry[i][n] \in Ino \cup {Nil}
  /\ fs.ino_num \in 0..max_orphans /\ fs.orphans \subseteq Ino
  /\ \A t \in Tasks : task[t].pc \in {"idle", "new", "tmp", "symlink", "done"}

\* i_nlink is what the entries say: one per name of a file; two and one per
\* subdirectory for a directory, which has one name.  Only a whiteout rename
\* that fails after the entry has moved (namei.c:1092) leaves a directory a
\* link too many.
LinkCounts ==
  \A i \in Ino : fs.node[i] =>
    IF ~IsDir(fs, i) THEN fs.nlink[i] = Cardinality(Entries(fs, i))
    ELSE IF Reachable(fs, i)
    THEN /\ fs.nlink[i] = 2 + Cardinality(Subdirs(fs, i)) + fs.excess[i]
         /\ Cardinality(Entries(fs, i)) <= 1
    ELSE fs.nlink[i] = fs.excess[i]

\* Every place of the orphan blocks that is acquired is used or given back, on
\* every way out of unlink, rename, tmpfile, a failed create and evict: unlink
\* never fails for want of a place that no orphan has.
OrphanAccount == fs.ino_num = Cardinality(fs.orphans)

\* What mounting deletes was never reachable: no inode of the orphan list, in
\* memory or in the checkpoint, has a name there.
OrphansUnlinked ==
  \A f \in {fs, ckpt} : \A i \in f.orphans : f.node[i] /\ f.nlink[i] = 0 /\ Entries(f, i) = {}

\* An inode that lost its last name is on the orphan list of memory and of
\* every checkpoint until its node is removed, so that a crash at any point
\* does not leak it.  The exceptions: the list was full when a failed create
\* wanted a place (the code asks for fsck), and a directory removed with the
\* link too many of LinkCounts.
UnlinkedIsOrphan ==
  \A f \in {fs, ckpt} : \A i \in Ino :
    f.node[i] /\ i # Root /\ Entries(f, i) = {} =>
      i \in f.orphans \cup f.left \/ f.excess[i] > 0

\* No entry names an inode without a node.
NoDanglingEntry ==
  \A f \in {fs, ckpt} : \A d \in Ino, n \in Names :
    f.entry[d][n] # Nil => f.node[f.entry[d][n]]

\* i_pino, with which roll-forward recovery links a file again, names a
\* directory that has the file, whenever it is not marked as lost; except when
\* fsync took it from a dentry the VFS was about to move or delete.
PinoTrusted ==
  \A i \in Ino :
    fs.node[i] /\ i # Root /\ i \notin fs.lost \cup fs.raced /\ Entries(fs, i) # {} =>
      \E n \in Names : fs.entry[fs.pino[i]][n] = i

\* ".." of a directory is the directory that has it, except after a whiteout
\* rename to another directory, which leaves it alone (namei.c:1102).
DotDotNamesParent ==
  \A i \in Ino : IsDir(fs, i) /\ fs.node[i] /\ i \notin fs.kept =>
    \A e \in Entries(fs, i) : fs.dotdot[i] = e[1]

\* The tree and its link counts agree, and every entry leads to an inode (dir.c:804,
\* dir.c:904, namei.c:946), whichever step of a name operation fails.
EntriesCounted == TypeOK /\ LinkCounts /\ NoDanglingEntry

\* The orphan list is exactly the unlinked inodes, in memory and in the checkpoint,
\* and its places are counted right (checkpoint.c:601).
OrphansExact == OrphanAccount /\ OrphansUnlinked /\ UnlinkedIsOrphan

\* Every inode knows its parent: through i_pino, which roll-forward recovery uses,
\* and a directory through its ".." entry.
ParentKnown == PinoTrusted /\ DotDotNamesParent

=============================================================================
