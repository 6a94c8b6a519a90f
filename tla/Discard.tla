------------------------------ MODULE Discard ------------------------------
(***************************************************************************)
(* Discard commands: ranges of free blocks are collected by a checkpoint,  *)
(* kept in a tree of disjoint commands, sent to the device by              *)
(* issue_discard_thread (or by umount and remount), and taken back block   *)
(* by block when f3fs_allocate_data_block2 reuses a block.                 *)
(* src/f2fs/segment.c:870-2079, 2976-3138; super.c:1566, 2376-2390;        *)
(* file.c:2199-2203.                                                       *)
(*                                                                         *)
(* A command is a member of the tree dcs, known by a number that stands    *)
(* for its address.  pend_list[] holds exactly the commands in state       *)
(* D_PREP, bio_ref is the number of its bios in flight.  The statistics    *)
(* (issued_discard, undiscard_blks, trimmed), bio errors (only printed)    *)
(* and multiple devices are left out.  queued_discard is zero only when    *)
(* wait_list is empty, and waiting for an empty list does nothing, so the  *)
(* thread's test of it is left out.  cmd_lock is held across steps only by *)
(* a submission in several bios, between which bios may complete; it is    *)
(* released after each command, where the code may go on with the next     *)
(* one: more interleavings, none lost.  Which pending command is taken     *)
(* next, and when the loop gives up because of I/O or time, is free.       *)
(***************************************************************************)
EXTENDS Integers, FiniteSets, Sequences, FiniteSetsExt, SequencesExt

CONSTANTS
  Segs,          \* number of segments of the main area
  BlksPerSeg,    \* sbi->blocks_per_seg
  Writers,       \* tasks that write, each through a log of its own
  MaxDiscard,    \* bdev_max_discard_sectors, in blocks
  MaxRequests,   \* dcc->max_discard_request
  Granularity,   \* dcc->discard_granularity
  DefaultGranularity, \* DEFAULT_DISCARD_GRANULARITY
  Targets,       \* bound: the blocks a single overwrite or truncation frees
  MaxOps,        \* bound: writes, events, and truncations, which count twice
  MaxCkpts,      \* bound: checkpoints before the one of umount
  MaxEvents      \* bound: FITRIM calls, failing calls of __blkdev_issue_discard,
                 \* SBI_NEED_FSCK set elsewhere, remounts that turn discard off
                 \* and shutdowns, together

ASSUME SizeAssumption ==
  /\ {Segs, BlksPerSeg, MaxDiscard, MaxRequests, Granularity} \subseteq Nat \ {0}
  /\ Cardinality(Writers) < Segs
  /\ Granularity <= DefaultGranularity

VARIABLES
  cur_valid_map, ckpt_valid_map, discard_map,  \* sets of blocks
  free_segmap,   \* segments a log may be opened in
  curseg,        \* [segno, next_blkoff] of each writer's log
  writer,        \* [old, dc] of a writer waiting for dc; dc = 0: none
  todo,          \* ranges the running checkpoint still has to queue
  dcs,           \* dcc->root: command number -> command
  wait_list,     \* dcc->wait_list, with fstrim_list
  bios,          \* discard bios in flight
  submission,    \* the submission holding cmd_lock, or None
  proc,          \* discard thread and the caller of umount, remount, shutdown
  realtime,      \* f3fs_realtime_discard_enable
  should_stop,   \* kthread_should_stop of the discard thread
  need_fsck,     \* SBI_NEED_FSCK
  mounted, down, \* not yet in put_super; shut down
  budget         \* what is left of the bounds

spaceVars == <<cur_valid_map, ckpt_valid_map, discard_map, free_segmap, curseg>>
cmdVars   == <<dcs, wait_list, bios, submission>>
mountVars == <<realtime, should_stop, need_fsck, mounted, down>>
vars == <<spaceVars, writer, todo, cmdVars, proc, mountVars, budget>>

\* One of the events that MaxEvents bounds; it counts as an operation as well.
Event ==
  /\ budget.events > 0 /\ budget.ops > 0
  /\ budget' = [budget EXCEPT !.events = @ - 1, !.ops = @ - 1]

None   == [by |-> "none"]
Procs  == {"thread", "caller"}
Blocks == 0 .. Segs * BlksPerSeg - 1
NoBlk  == -1

GET_SEGNO(b) == b \div BlksPerSeg
SegBlocks(s) == s * BlksPerSeg .. (s + 1) * BlksPerSeg - 1
AllSegs      == 0 .. Segs - 1
IsCurseg(s)  == \E w \in Writers : curseg[w].segno = s
NextFree(w)  == curseg[w].segno * BlksPerSeg + curseg[w].next_blkoff

\* Blocks a range or a command stands for.
Covers(r) == r.lstart .. r.lstart + r.len - 1
BioRef(d) == Cardinality({b \in bios : b.dc = d})
Unlocked  == submission = None

\* Maximal runs of consecutive blocks of S, in address order.
Runs(S) ==
  LET starts == {b \in S : b - 1 \notin S}
      Length(b) == Min({e \in b + 1 .. b + Cardinality(S) : e \notin S}) - b
  IN  SetToSortSeq({[lstart |-> b, len |-> Length(b)] : b \in starts},
                   LAMBDA x, y : x.lstart < y.lstart)

----------------------------------------------------------------------------
(* The tree of commands. *)

\* A command that no tree t holds yet, added to it.
Attach(t, r) ==
  LET d == CHOOSE i \in 1 .. Cardinality(DOMAIN t) + 1 : i \notin DOMAIN t
  IN  [i \in DOMAIN t \cup {d} |-> IF i # d THEN t[i]
        ELSE [lstart |-> r.lstart, len |-> r.len, state |-> "D_PREP", ref |-> 0]]

Detach(t, D) == [i \in DOMAIN t \ D |-> t[i]]

\* The pending commands of t next to the run r and short enough to be merged.
BackMergeable(t, r) ==
  {d \in DOMAIN t : t[d].state = "D_PREP" /\ t[d].lstart + t[d].len = r.lstart
                    /\ t[d].len + r.len <= MaxDiscard}
FrontMergeable(t, r) ==
  {d \in DOMAIN t : t[d].state = "D_PREP" /\ r.lstart + r.len = t[d].lstart
                    /\ r.len + t[d].len <= MaxDiscard}

\* One iteration of __update_discard_tree_range: a run no command covers.
InsertRun(t, r) ==
  LET back   == BackMergeable(t, r)
      joined == IF back = {} THEN r
                ELSE LET p == CHOOSE d \in back : TRUE
                     IN  [lstart |-> t[p].lstart, len |-> t[p].len + r.len]
      front  == FrontMergeable(t, joined)
      Grow(D, len) == [i \in DOMAIN t |-> IF i \in D
          THEN [t[i] EXCEPT !.lstart = joined.lstart, !.len = len] ELSE t[i]]
  IN  IF front # {}
      THEN Detach(Grow(front, joined.len + t[CHOOSE d \in front : TRUE].len), back)
      ELSE IF back # {} THEN Grow(back, joined.len)
      ELSE Attach(t, r)

update_discard_tree_range(t, r) ==
  LET covered == UNION {Covers(t[d]) : d \in DOMAIN t}
  IN  FoldLeft(InsertRun, t, Runs(Covers(r) \ covered))

\* Mutant: the command's start is not moved past its first block.
PunchKeepsStart(t, d, b) ==
  IF t[d].len = 1 THEN Detach(t, {d}) ELSE [t EXCEPT ![d].len = @ - 1]

\* __punch_discard_cmd: the part of pending command d left of b keeps d.
punch_discard_cmd(t, d, b) ==
  LET left  == b - t[d].lstart
      right == t[d].len - left - 1
      rest  == [lstart |-> b + 1, len |-> right]
  IN  IF t[d].len = 1 THEN Detach(t, {d})
      ELSE IF left = 0
      THEN [t EXCEPT ![d].lstart = b + 1, ![d].len = right]
      ELSE LET cut == [t EXCEPT ![d].len = left]
           IN  IF right = 0 THEN cut ELSE Attach(cut, rest)

\* __remove_discard_cmd of the commands D.
RemoveCmds(D) ==
  /\ dcs' = Detach(dcs, D)
  /\ wait_list' = SelectSeq(wait_list, LAMBDA i : i \notin D)

\* __wait_one_discard_bio after the completion: the last one removes it.
WaitedFor(d) ==
  /\ dcs[d].state = "D_DONE"
  /\ IF dcs[d].ref = 1 THEN RemoveCmds({d})
     ELSE dcs' = [dcs EXCEPT ![d].ref = @ - 1] /\ UNCHANGED wait_list

----------------------------------------------------------------------------
(* Writers. *)

\* local_locks held by writers that wait in f3fs_wait_discard_bio.
SegsOf(w, old) == {curseg[w].segno, GET_SEGNO(old)} \cap AllSegs
Waiting    == {w \in Writers : writer[w].dc # 0}
LockedSegs == UNION {SegsOf(w, writer[w].old) : w \in Waiting}
LastBlock(w) == curseg[w].next_blkoff + 1 = BlksPerSeg

\* The rest of f3fs_allocate_data_block2: b becomes valid, old invalid, and a
\* full segment is left for a free one.
TakeBlock(w, old) ==
  LET b == NextFree(w)
  IN  /\ cur_valid_map' = (cur_valid_map \cup {b}) \ {old}
      /\ discard_map' = (discard_map \cup {b}) \ {old}
      /\ IF LastBlock(w)
         THEN \E s \in free_segmap :
                /\ curseg' = [curseg EXCEPT ![w] = [segno |-> s, next_blkoff |-> 0]]
                /\ free_segmap' = free_segmap \ {s}
         ELSE /\ curseg' = [curseg EXCEPT ![w].next_blkoff = @ + 1]
              /\ UNCHANGED free_segmap
      /\ UNCHANGED ckpt_valid_map

\* f3fs_allocate_data_block2 up to and with f3fs_wait_discard_bio.  f3fs_balance_fs
\* has left a free segment for every write that fills one.
Write(w, old) ==
  LET b  == NextFree(w)
      ds == {d \in DOMAIN dcs : b \in Covers(dcs[d])}
  IN  /\ mounted /\ ~down /\ todo = <<>> /\ Unlocked
      /\ writer[w].dc = 0 /\ budget.ops > 0
      /\ SegsOf(w, old) \cap LockedSegs = {}
      /\ LastBlock(w) => Cardinality(free_segmap) > Cardinality({x \in Waiting : LastBlock(x)})
      /\ budget' = [budget EXCEPT !.ops = @ - 1]
      /\ \/ /\ ds = {}
            /\ TakeBlock(w, old)
            /\ UNCHANGED <<dcs, writer>>
         \/ /\ \E d \in ds : /\ dcs[d].state = "D_PREP"
                             /\ dcs' = punch_discard_cmd(dcs, d, b)
            /\ TakeBlock(w, old)
            /\ UNCHANGED writer
         \/ /\ \E d \in ds : /\ dcs[d].state # "D_PREP"
                             /\ dcs' = [dcs EXCEPT ![d].ref = @ + 1]
                             /\ writer' = [writer EXCEPT ![w] = [old |-> old, dc |-> d]]
            /\ UNCHANGED spaceVars
      /\ UNCHANGED <<todo, wait_list, bios, submission, proc, mountVars>>

\* A writer woken by the completion of the command it waited for.
WriteWoken(w) ==
  /\ writer[w].dc # 0 /\ Unlocked
  /\ WaitedFor(writer[w].dc)
  /\ TakeBlock(w, writer[w].old)
  /\ writer' = [writer EXCEPT ![w] = [old |-> NoBlk, dc |-> 0]]
  /\ UNCHANGED <<todo, bios, submission, proc, mountVars, budget>>

\* f3fs_invalidate_blocks, which takes no local_lock, for each of the blocks S of
\* a truncation; the node page's lock keeps it from a block being overwritten.
Truncate(S) ==
  /\ mounted /\ ~down /\ todo = <<>> /\ budget.ops > 1
  /\ cur_valid_map' = cur_valid_map \ S
  /\ discard_map' = discard_map \ S
  /\ budget' = [budget EXCEPT !.ops = @ - 2]
  /\ UNCHANGED <<ckpt_valid_map, free_segmap, curseg, writer, todo, cmdVars,
                 proc, mountVars>>

----------------------------------------------------------------------------
(* Checkpoints. *)

\* dirty_segmap[PRE]: emptied segments no log owns and no checkpoint freed.
Prefree == {s \in AllSegs \ free_segmap :
              ~IsCurseg(s) /\ SegBlocks(s) \cap cur_valid_map = {}}

\* add_discard_addrs for segment s: small discards, in block units.
SmallDiscards(s) ==
  LET valid == cur_valid_map \cap SegBlocks(s)
  IN  IF valid = {} THEN {} ELSE (ckpt_valid_map \ valid) \cap SegBlocks(s)

ForcedDiscards(s) == SegBlocks(s) \ (cur_valid_map \cup discard_map)

PerSegment(Cand(_)) ==
  FoldLeft(LAMBDA q, s : q \o Runs(Cand(s)), <<>>, [i \in 1 .. Segs |-> i - 1])

\* f3fs_flush_sit_entries, the commit, and the ranges f3fs_clear_prefree_segments
\* is going to queue.  Writers are held off until they all are queued.
StartCheckpoint(force) ==
  /\ todo = <<>> /\ Waiting = {}
  /\ todo' = IF force THEN PerSegment(ForcedDiscards)
             ELSE IF realtime
             THEN Runs(UNION {SegBlocks(s) : s \in Prefree}) \o PerSegment(SmallDiscards)
             ELSE <<>>
  /\ ckpt_valid_map' = cur_valid_map
  /\ free_segmap' = free_segmap \cup Prefree
  /\ UNCHANGED <<cur_valid_map, discard_map, curseg>>

Checkpoint ==
  /\ mounted /\ ~down /\ budget.ckpts > 0
  /\ StartCheckpoint(FALSE)
  /\ budget' = [budget EXCEPT !.ckpts = @ - 1]
  /\ UNCHANGED <<writer, cmdVars, proc, mountVars>>

\* f3fs_trim_fs over the whole area, with candidates.  f3fs_exist_trim_candidates
\* has an unconditional f3fs_bug_on, which sets SBI_NEED_FSCK; nothing is
\* submitted after that, so the issuing part of f3fs_trim_fs has no effect.
Trim ==
  /\ mounted /\ ~down /\ Event /\ ~need_fsck
  /\ ~(Blocks \subseteq ckpt_valid_map \cup discard_map)
  /\ StartCheckpoint(TRUE)
  /\ need_fsck' = TRUE
  /\ UNCHANGED <<writer, cmdVars, proc, realtime, should_stop, mounted, down>>

\* SBI_NEED_FSCK set by F3FS_GOING_DOWN_NEED_FSCK, by a f3fs_trim_fs that finds
\* no candidate, or by any other f3fs_bug_on.
NeedFsck ==
  /\ Event /\ ~need_fsck
  /\ need_fsck' = TRUE
  /\ UNCHANGED <<spaceVars, writer, todo, cmdVars, proc, realtime, should_stop,
                 mounted, down>>

\* f3fs_issue_discard for the next range of f3fs_clear_prefree_segments.
QueueDiscard ==
  /\ todo # <<>> /\ Unlocked
  /\ dcs' = update_discard_tree_range(dcs, Head(todo))
  /\ discard_map' = discard_map \cup Covers(Head(todo))
  /\ todo' = Tail(todo)
  /\ UNCHANGED <<cur_valid_map, ckpt_valid_map, free_segmap, curseg, writer,
                 wait_list, bios, submission, proc, mountVars, budget>>

----------------------------------------------------------------------------
(* Submission and completion. *)

\* A process at program point pc, with nothing issued and nothing waited for.
At(pc) == [pc |-> pc, issued |-> 0, background |-> FALSE, gran |-> 1, dc |-> 0]

Goto(p, pc) == proc' = [proc EXCEPT ![p].pc = pc]

MoveTail(d) == Append(SelectSeq(wait_list, LAMBDA i : i # d), d)

\* The bio that makes the command D_SUBMIT: the last of it, or of the round.
\* Mutant: a bio of exactly max_discard_blocks counts as not the last.
LastStrict(n, left, issued) == left < MaxDiscard \/ issued = MaxRequests
LastBio(n, left, issued) == n = left \/ issued = MaxRequests

\* One round of the loop of __submit_discard_cmd whose bio is accepted.
SubmitBio(p, d, ordered, pos, left) ==
  LET n      == Min({left, MaxDiscard})
      issued == proc[p].issued + 1
      final  == n = left \/ issued = MaxRequests
      sent   == [dcs EXCEPT ![d].len = pos + n - dcs[d].lstart,
                            ![d].state = IF LastBio(n, left, issued) THEN "D_SUBMIT"
                                         ELSE "D_PARTIAL"]
      rest   == [lstart |-> pos + n, len |-> left - n]
  IN  /\ bios' = bios \cup {[dc |-> d, lstart |-> pos, len |-> n]}
      /\ wait_list' = MoveTail(d)
      /\ proc' = [proc EXCEPT ![p].issued = issued]
      /\ dcs' = IF final /\ n < left THEN update_discard_tree_range(sent, rest) ELSE sent
      /\ submission' = IF final THEN None
           ELSE [by |-> p, dc |-> d, ordered |-> ordered, pos |-> pos + n, left |-> left - n]
      /\ UNCHANGED budget

\* The same when __blkdev_issue_discard fails, and what the callers do then:
\* the orderly loop removes the command unless bios are in flight.
SubmitFails(p, d, ordered, pos, left) ==
  LET n      == Min({left, MaxDiscard})
      issued == proc[p].issued + 1
  IN  /\ Event
      /\ IF ordered /\ issued < MaxRequests /\ BioRef(d) = 0
         THEN RemoveCmds({d})
         ELSE /\ dcs' = [dcs EXCEPT ![d].len = pos + n - dcs[d].lstart,
                           ![d].state = IF @ = "D_PARTIAL" THEN "D_SUBMIT" ELSE @]
              /\ UNCHANGED wait_list
      /\ proc' = [proc EXCEPT ![p].issued = issued]
      /\ submission' = None
      /\ UNCHANGED bios

Submit(p, d, ordered, pos, left) ==
  \/ SubmitBio(p, d, ordered, pos, left)
  \/ SubmitFails(p, d, ordered, pos, left)

\* __issue_discard_cmd takes a command from the lists, read from the longest
\* commands down to the policy's granularity; a background policy leaves the
\* short ones to the orderly walk.
IssueBySize(p) ==
  \E d \in DOMAIN dcs :
    /\ dcs[d].state = "D_PREP"
    /\ dcs[d].len >= proc[p].gran
    /\ proc[p].background => dcs[d].len > DefaultGranularity
    /\ Submit(p, d, FALSE, dcs[d].lstart, dcs[d].len)

\* __issue_discard_cmd_orderly takes any command, walking the tree.
IssueOrderly(p) ==
  /\ proc[p].background
  /\ \E d \in DOMAIN dcs : /\ dcs[d].state = "D_PREP"
                           /\ Submit(p, d, TRUE, dcs[d].lstart, dcs[d].len)

IssueNext(p) ==
  /\ proc[p].pc = "issue" /\ Unlocked /\ ~need_fsck
  /\ proc[p].issued < MaxRequests
  /\ IssueBySize(p) \/ IssueOrderly(p)
  /\ UNCHANGED <<spaceVars, writer, todo, mountVars>>

SubmitNext(p) ==
  /\ submission # None /\ submission.by = p
  /\ Submit(p, submission.dc, submission.ordered, submission.pos, submission.left)
  /\ UNCHANGED <<spaceVars, writer, todo, mountVars>>

\* f3fs_submit_discard_endio.
Endio(b) ==
  /\ bios' = bios \ {b}
  /\ dcs' = IF BioRef(b.dc) = 1 /\ dcs[b.dc].state = "D_SUBMIT"
            THEN [dcs EXCEPT ![b.dc].state = "D_DONE"] ELSE dcs
  /\ UNCHANGED <<spaceVars, writer, todo, wait_list, submission, proc, mountVars, budget>>

\* __wait_discard_cmd_range: commands that are done are removed, in list order,
\* up to the first one to wait for; with none, p goes on as done says.
ScanList(p, gran, waiting, done) ==
  LET long   == SelectSeq(wait_list, LAMBDA i : dcs[i].len >= gran)
      Ripe(i) == dcs[i].state = "D_DONE" /\ dcs[i].ref = 0
      k      == SelectInSeq(long, LAMBDA i : ~Ripe(i))
      reaped == ToSet(IF k = 0 THEN long ELSE SubSeq(long, 1, k - 1))
  IN  /\ Unlocked
      /\ wait_list' = SelectSeq(wait_list, LAMBDA i : i \notin reaped)
      /\ IF k = 0
         THEN /\ dcs' = Detach(dcs, reaped)
              /\ proc' = [proc EXCEPT ![p] = done]
         ELSE /\ dcs' = [Detach(dcs, reaped) EXCEPT ![long[k]].ref = @ + 1]
              /\ proc' = [proc EXCEPT ![p].pc = waiting, ![p].dc = long[k]]
      /\ UNCHANGED <<spaceVars, writer, todo, bios, submission, mountVars, budget>>

\* __wait_one_discard_bio of that loop; it starts over from the list's head.
ScanWoken(p, waiting, again) ==
  /\ proc[p].pc = waiting /\ Unlocked
  /\ WaitedFor(proc[p].dc)
  /\ proc' = [proc EXCEPT ![p].pc = again, ![p].dc = 0]
  /\ UNCHANGED <<spaceVars, writer, todo, bios, submission, mountVars, budget>>

----------------------------------------------------------------------------
(* issue_discard_thread. *)

\* kthread_should_stop at the end of a round.
AfterRound == IF should_stop THEN At("off") ELSE At("sleep")

\* What follows the clean-up: DPOLICY_FORCE, or DPOLICY_BG; the finer granularity
\* of DPOLICY_BG in a full file system is left out.
Policies == {<<FALSE, 1>>, <<TRUE, Granularity>>}
Decisions ==
  IF should_stop \/ need_fsck \/ DOMAIN dcs = {} THEN {AfterRound}
  ELSE {[At("issue") EXCEPT !.background = pol[1], !.gran = pol[2]] : pol \in Policies}

ThreadCleans ==
  /\ proc["thread"].pc \in {"sleep", "clean"}
  /\ \E done \in Decisions : ScanList("thread", 1, "cleanWait", done)

\* __issue_discard_cmd returns to the thread.
ThreadIssued ==
  /\ proc["thread"].pc = "issue" /\ Unlocked
  /\ proc' = [proc EXCEPT !["thread"] =
                IF @.issued > 0 THEN [@ EXCEPT !.pc = "scan"] ELSE AfterRound]
  /\ UNCHANGED <<spaceVars, writer, todo, cmdVars, mountVars, budget>>

ThreadScans ==
  proc["thread"].pc = "scan" /\ ScanList("thread", proc["thread"].gran, "scanWait", AfterRound)

Thread ==
  \/ ThreadCleans \/ IssueNext("thread") \/ SubmitNext("thread")
  \/ ThreadIssued \/ ThreadScans
  \/ ScanWoken("thread", "cleanWait", "clean")
  \/ ScanWoken("thread", "scanWait", "scan")

----------------------------------------------------------------------------
(* f3fs_put_super, f3fs_remount and F3FS_IOC_SHUTDOWN. *)

Idle == proc["caller"].pc = "idle"

\* f3fs_put_super: nobody uses the file system, the last checkpoint is written.
Umount ==
  /\ mounted /\ Idle
  /\ Waiting = {}
  /\ IF down THEN todo = <<>> /\ UNCHANGED <<spaceVars, todo>>
     ELSE StartCheckpoint(FALSE)
  /\ mounted' = FALSE
  /\ Goto("caller", "umount")
  /\ UNCHANGED <<writer, cmdVars, realtime, should_stop, need_fsck, down, budget>>

\* f3fs_remount turns the option discard off; f3fs_stop_discard_thread.
RemountOff ==
  /\ mounted /\ ~down /\ Idle /\ realtime /\ Event
  /\ realtime' = FALSE /\ should_stop' = TRUE
  /\ Goto("caller", "remount")
  /\ UNCHANGED <<spaceVars, writer, todo, cmdVars, need_fsck, mounted, down>>

RemountOn ==
  /\ mounted /\ ~down /\ Idle /\ ~realtime
  /\ realtime' = TRUE /\ should_stop' = FALSE
  /\ Goto("thread", "sleep")
  /\ UNCHANGED <<spaceVars, writer, todo, cmdVars, need_fsck, mounted, down, budget>>

\* Once it is down, no write and no checkpoint begins.
Shutdown ==
  /\ mounted /\ ~down /\ Idle /\ Event
  /\ down' = TRUE /\ should_stop' = TRUE
  /\ Goto("caller", "shutdown")
  /\ UNCHANGED <<spaceVars, writer, todo, cmdVars, realtime, need_fsck, mounted>>

\* f3fs_issue_discard_timeout begins: at umount, or after the thread stopped
\* when a remount finds commands left.
CallerIssues ==
  /\ \/ proc["caller"].pc = "umount" /\ todo = <<>>
     \/ proc["caller"].pc = "remount" /\ proc["thread"].pc = "off"
  /\ Goto("caller", IF ~mounted \/ DOMAIN dcs # {} THEN "issue" ELSE "idle")
  /\ UNCHANGED <<spaceVars, writer, todo, cmdVars, mountVars, budget>>

\* __issue_discard_cmd of DPOLICY_UMOUNT: waits and retries until a round
\* issues nothing.
CallerIssued ==
  /\ proc["caller"].pc = "issue" /\ Unlocked
  /\ Goto("caller", IF proc["caller"].issued > 0 THEN "scan" ELSE "drop")
  /\ UNCHANGED <<spaceVars, writer, todo, cmdVars, mountVars, budget>>

CallerScans ==
  proc["caller"].pc = "scan" /\ ScanList("caller", 1, "scanWait", At("issue"))

\* __drop_discard_cmd.
CallerDrops ==
  /\ Unlocked
  /\ RemoveCmds({d \in DOMAIN dcs : dcs[d].state = "D_PREP"})
  /\ \/ /\ proc["caller"].pc = "drop"
        /\ Goto("caller", "clean")
        /\ UNCHANGED mountVars
     \/ /\ proc["caller"].pc = "shutdown" /\ proc["thread"].pc = "off"
        /\ Goto("caller", "idle")
        /\ realtime' = FALSE
        /\ UNCHANGED <<should_stop, need_fsck, mounted, down>>
  /\ UNCHANGED <<spaceVars, writer, todo, bios, submission, budget>>

CallerCleans == proc["caller"].pc = "clean" /\ ScanList("caller", 1, "cleanWait", At("drained"))

\* The f3fs_bug_on that ends f3fs_issue_discard_timeout; umount then stops the
\* thread in destroy_discard_cmd_control.
CallerDrained ==
  /\ proc["caller"].pc = "drained"
  /\ need_fsck' = (need_fsck \/ DOMAIN dcs # {})
  /\ should_stop' = (should_stop \/ ~mounted)
  /\ Goto("caller", IF mounted THEN "idle" ELSE "destroy")
  /\ UNCHANGED <<spaceVars, writer, todo, cmdVars, realtime, mounted, down, budget>>

CallerDestroys ==
  /\ proc["caller"].pc = "destroy" /\ proc["thread"].pc = "off"
  /\ Goto("caller", "done")
  /\ UNCHANGED <<spaceVars, writer, todo, cmdVars, mountVars, budget>>

Caller ==
  \/ CallerIssues \/ CallerIssued \/ CallerScans \/ CallerDrops
  \/ CallerCleans \/ CallerDrained \/ CallerDestroys
  \/ IssueNext("caller") \/ SubmitNext("caller")
  \/ ScanWoken("caller", "cleanWait", "clean")
  \/ ScanWoken("caller", "scanWait", "scan")

----------------------------------------------------------------------------
\* A mounted file system: the last segments are the writers' logs, in which
\* one block is left; the others are full.  build_sit_entries makes
\* discard_map a copy of cur_valid_map.
Init ==
  /\ LET logs == SetToSeq(Writers)
     IN  curseg = [w \in Writers |-> [segno |-> Segs - CHOOSE i \in DOMAIN logs : logs[i] = w,
                                      next_blkoff |-> BlksPerSeg - 1]]
  /\ cur_valid_map = Blocks \ {NextFree(w) : w \in Writers}
  /\ ckpt_valid_map = cur_valid_map
  /\ discard_map = cur_valid_map
  /\ free_segmap = {}
  /\ writer = [w \in Writers |-> [old |-> NoBlk, dc |-> 0]]
  /\ todo = <<>> /\ dcs = <<>> /\ wait_list = <<>> /\ bios = {} /\ submission = None
  /\ proc = [p \in Procs |-> At(IF p = "thread" THEN "sleep" ELSE "idle")]
  /\ realtime = TRUE /\ should_stop = FALSE /\ need_fsck = FALSE
  /\ mounted = TRUE /\ down = FALSE
  /\ budget = [ops |-> MaxOps, ckpts |-> MaxCkpts, events |-> MaxEvents]

\* What one truncation frees: one block, or every block.
Unowned  == cur_valid_map \ {writer[w].old : w \in Waiting}
Freeable == Targets \cap Unowned
Truncations == {{b} : b \in Freeable} \cup {Unowned}

Next ==
  \/ \E w \in Writers : (\E old \in Freeable \cup {NoBlk} : Write(w, old)) \/ WriteWoken(w)
  \/ \E S \in Truncations : Truncate(S)
  \/ Checkpoint \/ Trim \/ NeedFsck \/ QueueDiscard
  \/ \E b \in bios : Endio(b)
  \/ Thread \/ Caller
  \/ Umount \/ RemountOff \/ RemountOn \/ Shutdown

\* The device completes every bio, a submission goes on, and a writer that waits
\* for cmd_lock, a fair mutex, eventually gets it.
Fairness ==
  /\ WF_vars(\E b \in bios : Endio(b))
  /\ \A p \in Procs : WF_vars(SubmitNext(p))
  /\ \A w \in Writers : SF_vars(WriteWoken(w))

Spec == Init /\ [][Next]_vars /\ Fairness

Commands == [lstart : Blocks, len : 0 .. Segs * BlksPerSeg, ref : Nat,
             state : {"D_PREP", "D_PARTIAL", "D_SUBMIT", "D_DONE"}]

TypeOK ==
  /\ cur_valid_map \subseteq Blocks /\ ckpt_valid_map \subseteq Blocks
  /\ discard_map \subseteq Blocks /\ free_segmap \subseteq AllSegs
  /\ \A d \in DOMAIN dcs : dcs[d] \in Commands
  /\ ToSet(wait_list) = {d \in DOMAIN dcs : dcs[d].state # "D_PREP"}
  /\ \A b \in bios : b.dc \in DOMAIN dcs /\ Covers(b) \subseteq Covers(dcs[b.dc])

\* The device is never told to discard a block that holds data: no pending
\* command and no bio in flight covers a block that is valid now or in the last
\* checkpoint (f3fs_wait_discard_bio, add_discard_addrs, __punch_discard_cmd).
\* And no command outlives the drain of umount, after which
\* destroy_discard_cmd_control frees what a bio's completion refers to (the
\* f3fs_bug_on at the end of f3fs_issue_discard_timeout).
NoLiveDiscard ==
  LET pending == {dcs[d] : d \in {i \in DOMAIN dcs : dcs[i].state = "D_PREP"}}
  IN  /\ TypeOK
      /\ \A r \in pending \cup bios :
             Covers(r) \cap (cur_valid_map \cup ckpt_valid_map) = {}
      /\ proc["caller"].pc \in {"destroy", "done"} => DOMAIN dcs = {}

\* A command whose submission failed after its earlier bios had completed:
\* D_SUBMIT, with nobody left to complete it.
Orphaned(d) == dcs[d].state = "D_SUBMIT" /\ BioRef(d) = 0

\* A writer that waits for a discard of the block it takes, holding the log and
\* the entries' locks, gets its block, unless the command is orphaned
\* (f3fs_wait_discard_bio, __submit_discard_cmd, f3fs_submit_discard_endio).
DiscardWaitEnds ==
  \A w \in Writers :
    (writer[w].dc # 0) ~> (writer[w].dc = 0 \/ Orphaned(writer[w].dc))
=============================================================================
