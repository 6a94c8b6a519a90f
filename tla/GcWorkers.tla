------------------------------ MODULE GcWorkers ------------------------------
(***************************************************************************)
(* Garbage collection by several workers (gc.c): the GC thread, the worker *)
(* threads it and every other caller of f3fs_gc hand the work to, the      *)
(* choice of victim sections, and the callers: f3fs_balance_fs, the GC,    *)
(* GC-range and flush-device ioctls, and f3fs_resize_fs.                   *)
(*                                                                         *)
(* A section is one segment, as the allocator asserts.  The logs are one   *)
(* log that allocates out of place; which log a block goes to, and the     *)
(* data, are the business of SegmentManager and FileData.  The volume is   *)
(* mounted (SB_ACTIVE) and checkpointing is not disabled.                  *)
(***************************************************************************)
EXTENDS Integers, FiniteSets, FiniteSetsExt

CONSTANTS NSegs,          \* segments of the main area
          SegBlocks,      \* blocks of a segment
          NWorkers,       \* num_gc_thread
          VICTIM_COUNT,   \* victims a worker keeps
          Reserved,       \* reserved_sections
          NrLogs,         \* NR_CURSEG_PERSIST_TYPE
          MAX_SKIP,       \* MAX_SKIP_GC_COUNT
          GC_MERGE,       \* the mount option
          Age,            \* cost of a segment by its age, for background GC
          Offsets,        \* where last_victim lets a search begin
          Areas,          \* initial states of the main area
          Requests,       \* calls the user may make
          Modes,          \* gc_urgent and gc_urgent_high_remaining, as sysfs left them
          MaxWork         \* bound: calls, background rounds, updates, faults, stops

VARIABLES area,  \* the main area: segment table, dirty lists, victim map
          sb,    \* super block: error and fsck flags, freeze, writers, GC mode
          th,    \* the GC thread: present, waiters on fggc_wq
          wk,    \* worker_args of every worker
          pr,    \* where every thread is
          ctl,   \* the gc_control of the holder of gc_lock
          gh,    \* ghosts
          n      \* what has happened so far, for MaxWork

vars == <<area, sb, th, wk, pr, ctl, gh, n>>

Segs == 1 .. NSegs
NULL_SEGNO == 0
Workers == 1 .. NWorkers
Gct == NWorkers + 1           \* gc_thread_func
Usr == NWorkers + 2           \* whoever calls f3fs_gc
Adm == NWorkers + 3           \* remount, shutdown and resize
Slots == 1 .. VICTIM_COUNT

EIO == -5
EAGAIN == -11
EBUSY == -16
EINVAL == -22
ENODATA == -61

Event == n < MaxWork /\ n' = n + 1

-------------------------------------------------------------------------------
(* The main area *)

(* locate_dirty_segment2: a segment without valid blocks is prefree, and   *)
(* no longer a victim; a partly valid one is dirty                         *)
Locate(a, s) ==
  IF s = a.cur THEN a
  ELSE IF a.valid[s] = 0
  THEN [a EXCEPT !.pre = @ \cup {s}, !.dirty = @ \ {s}, !.bits = @ \ {s}]
  ELSE IF a.valid[s] = SegBlocks THEN [a EXCEPT !.dirty = @ \ {s}]
  ELSE IF s \in a.pre THEN a ELSE [a EXCEPT !.dirty = @ \cup {s}]

Free(a) == {s \in a.free : s <= a.main}      \* MAIN_SECS bounds the search

new_curseg(a) == LET s == Min(Free(a))
                 IN  [a EXCEPT !.cur = s, !.room = SegBlocks, !.free = @ \ {s}]

(* a block goes to the log; a full segment is replaced by a free one *)
CanAppend(a) == a.room > 1 \/ Free(a) # {}
Filled(a) == IF a.room > 0 THEN a ELSE Locate(new_curseg(a), a.cur)
Append1(a) == Filled([a EXCEPT !.valid[a.cur] = @ + 1, !.room = @ - 1])
Invalidate(a, s) == Locate([a EXCEPT !.valid[s] = @ - 1], s)

valid_user_blocks(a) == FoldSet(LAMBDA s, x : a.valid[s] + x, 0, Segs)

(* an update of a block, by its owner or by the cleaner *)
Rewrite(a, s) == Invalidate(Append1(a), s)

NotEnough(a, freed) == Cardinality(Free(a)) + freed <= Reserved

(* sec_usage_check *)
InUse(a, s) == s = a.cur \/ s = a.victim

(* the sections a thread holds: kept for later, or being collected *)
Held(w, p) == {w[q].slot[i] : q \in Workers, i \in Slots}
                \cup {p[q].seg : q \in {r \in DOMAIN p : p[r].pc \in {"collect", "scan"}}}

(* f3fs_write_checkpoint as far as it matters here: prefree segments are   *)
(* free.  Ghosts: a held section that is freed is no longer the section    *)
(* that was chosen, and a segment freed with valid blocks loses them.      *)
Reclaim(a) == [a EXCEPT !.free = @ \cup a.pre, !.pre = {}]
AfterCheckpoint(g, a) ==
  [g EXCEPT !.shared = @ \cup (a.pre \cap Held(wk, pr)),
            !.lost   = @ \/ \E s \in a.pre : a.valid[s] > 0]

-------------------------------------------------------------------------------
(* Threads *)

Idle == [pc |-> "idle", k |-> "none", type |-> "BG", seg |-> NULL_SEGNO, seen |-> {},
         max |-> 0, off |-> 0, cost |-> <<>>, skr |-> 0, rnd |-> 0, sk |-> FALSE, i |-> 0,
         ret |-> 0, fg |-> FALSE, next |-> 0, end |-> 0, got |-> 0, kept |-> 0, sync |-> FALSE]

Stop(r, e) == [r EXCEPT !.pc = "stop", !.ret = e]
More(r) == [r EXCEPT !.seg = NULL_SEGNO, !.sk = FALSE, !.i = 0]

(* f3fs_balance_fs does not want background GC *)
Choose(r, c) == IF r.type = "BG" /\ c.nobg THEN Stop(r, EINVAL)
                ELSE [r EXCEPT !.pc = "victim"]

(* do_gc from gc_more to the choice of a victim: background GC turns into  *)
(* foreground GC when a checkpoint cannot make enough sections free        *)
Low(a, r) == r.type = "BG" /\ NotEnough(a, 0)
GcMore(a, r, c) ==
  IF sb.cperr THEN Stop(r, EIO)
  ELSE IF Low(a, r) /\ a.pre # {} THEN [r EXCEPT !.pc = "cp1"]
  ELSE Choose(IF Low(a, r) THEN [r EXCEPT !.type = "FG"] ELSE r, c)

(* the condition under which a round ends with a checkpoint, read again    *)
(* under gc_internal_cp                                                    *)
ShortOfFree == Cardinality(Free(area)) < NrLogs /\ area.pre # {}

(* the three checkpoints of do_gc, under gc_internal_cp; the last one      *)
(* leaves with the mutex held when the checkpoint fails                    *)
Unlocks(pc) == pc # "cp2"

GcCheckpoint(p) ==
  LET r == pr[p]
      b == Reclaim(area)
  IN  /\ r.pc \in {"cp1", "cp2", "cpskip"} /\ ~sb.stuck
      /\ \/ /\ ~sb.cperr /\ (r.pc = "cp2" => ShortOfFree)
            /\ area' = b /\ gh' = AfterCheckpoint(gh, area)
            /\ pr' = [pr EXCEPT ![p] =
                        CASE r.pc = "cp1" -> GcMore(b, r, ctl)
                          [] r.pc = "cp2" -> GcMore(b, More(r), ctl)
                          [] OTHER -> Stop(r, 0)]
            /\ UNCHANGED <<sb, n>>
         \/ /\ r.pc = "cp2" /\ ~ShortOfFree
            /\ pr' = [pr EXCEPT ![p] = GcMore(area, More(r), ctl)]
            /\ UNCHANGED <<area, sb, gh, n>>
         \/ /\ r.pc = "cp2" => ShortOfFree
            /\ IF sb.cperr THEN UNCHANGED n ELSE Event
            /\ sb' = [sb EXCEPT !.cperr = TRUE, !.stuck = ~Unlocks(r.pc)]
            /\ pr' = [pr EXCEPT ![p] = Stop(r, EIO)]
            /\ UNCHANGED <<area, gh>>
      /\ UNCHANGED <<th, wk, ctl>>

-------------------------------------------------------------------------------
(* The choice of a victim *)

Collect(r, s) == [r EXCEPT !.pc = "collect", !.seg = s]
SetVictim(a, r, s) == IF r.type = "FG" THEN [a EXCEPT !.victim = s] ELSE a

(* ghost: a section chosen anew is nobody else's unless it was before *)
Chosen(g, s) == [g EXCEPT !.shared = IF s \in Held(wk, pr) THEN @ ELSE @ \ {s},
                          !.leak = @ \ {s}]

(* no victim: foreground GC gives the sections with pinned files a try *)
NoVictim(p) ==
  LET r     == [pr[p] EXCEPT !.seen = {}, !.max = 0, !.off = 0]
      again == r.type = "FG" /\ area.pinned # {}
  IN  /\ area' = IF again THEN [area EXCEPT !.pinned = {}, !.pin = FALSE] ELSE area
      /\ pr' = [pr EXCEPT ![p] = IF again THEN [r EXCEPT !.pc = "victim"] ELSE Stop(r, ENODATA)]

(* a section named by the caller: get_victim_by_default leaves the victim  *)
(* map alone, so every worker takes it                                     *)
GivenVictim(p) ==
  LET r == pr[p]
  IN  /\ r.pc = "victim" /\ r.seg # NULL_SEGNO
      /\ \/ area.valid[r.seg] = 0 /\ NoVictim(p) /\ UNCHANGED gh
         \/ /\ area.valid[r.seg] > 0
            /\ pr' = [pr EXCEPT ![p] = IF InUse(area, r.seg) THEN Stop(r, EBUSY)
                                       ELSE Collect(r, r.seg)]
            /\ gh' = [gh EXCEPT !.shared = @ \cup {r.seg}]
            /\ UNCHANGED area
      /\ UNCHANGED <<sb, th, wk, ctl, n>>

section_is_pinned(a, s) == a.pin /\ s \in a.pinned

EligibleUnmarked(a, r, s) ==
  /\ s <= a.main /\ ~InUse(a, s)
  /\ r.type = "FG" => ~section_is_pinned(a, s)

(* what a search passes over *)
Eligible(a, r, s) ==
  /\ s <= a.main /\ ~InUse(a, s) /\ s \notin a.bits
  /\ r.type = "FG" => ~section_is_pinned(a, s)

(* select_gc_type: greedy in the foreground and in urgent mode; otherwise  *)
(* get_cb_cost weighs age and utilisation, a fixed order here              *)
Greedy(r) == r.type = "FG" \/ sb.mode = "urgent"
get_gc_cost(a, r, s) == IF Greedy(r) THEN a.valid[s] ELSE Age[s]

(* get_victim_by_default without the GC thread, under seglist_lock: the    *)
(* cheapest section                                                        *)
SingleVictim(p) ==
  LET r    == pr[p]
      C    == {s \in area.dirty : Eligible(area, r, s)}
      best == {s \in C : \A u \in C : get_gc_cost(area, r, s) <= get_gc_cost(area, r, u)}
  IN  /\ r.pc = "victim" /\ r.seg = NULL_SEGNO /\ p \notin Workers
      /\ \/ C = {} /\ NoVictim(p) /\ UNCHANGED gh
         \/ \E s \in best :
              /\ area' = SetVictim([area EXCEPT !.bits = @ \cup {s}], r, s)
              /\ pr' = [pr EXCEPT ![p] = Collect(r, s)]
              /\ gh' = Chosen(gh, s)
      /\ UNCHANGED <<sb, th, wk, ctl, n>>

(* __get_victim of a worker: the victims it kept, oldest first.  One that  *)
(* is empty or in use is dropped as it is; one that is not dirty is given  *)
(* back to the victim map.                                                 *)
Usable(s) == s # NULL_SEGNO /\ area.valid[s] > 0 /\ ~InUse(area, s) /\ s \in area.dirty
GivenBack(s) == s # NULL_SEGNO /\ area.valid[s] > 0 /\ ~InUse(area, s) /\ s \notin area.dirty

KeptVictim(w) ==
  LET r    == pr[w]
      slot == wk[w].slot
      good == {i \in Slots : Usable(slot[i])}
      done == IF good = {} THEN Slots ELSE 1 .. Min(good)
      back == {slot[i] : i \in {j \in done : GivenBack(slot[j])}}
      a    == [area EXCEPT !.bits = @ \ back]
  IN  /\ r.pc = "victim" /\ r.seg = NULL_SEGNO
      /\ wk' = [wk EXCEPT ![w].slot = [i \in Slots |-> IF i \in done THEN NULL_SEGNO ELSE @[i]]]
      /\ IF good = {}
         THEN /\ area' = a
              /\ \E o \in Offsets :
                   pr' = [pr EXCEPT ![w] = [@ EXCEPT !.pc = "scan", !.off = o,
                                                    !.max = Cardinality(area.dirty)]]
         ELSE /\ area' = SetVictim(a, r, slot[Min(good)])
              /\ pr' = [pr EXCEPT ![w] = Collect(r, slot[Min(good)])]
      /\ UNCHANGED <<sb, th, ctl, gh, n>>

(* get_multiple_victim_by_default: one candidate.  The search takes no     *)
(* lock; test_and_set_bit decides who gets a section.  A full set gives up *)
(* its costliest member for a cheaper one; the bit cleared for a slot that *)
(* was empty lies outside the map.                                         *)
TakeSlot(w, i, s, c) ==
  /\ area' = [area EXCEPT !.bits = (@ \ {wk[w].slot[i]}) \cup {s}]
  /\ wk' = [wk EXCEPT ![w].slot[i] = s]
  /\ pr' = [pr EXCEPT ![w].seen = @ \cup {s},
                      ![w].cost = [j \in DOMAIN @ \cup {i} |-> IF j = i THEN c ELSE @[j]]]
  /\ gh' = Chosen(gh, s)

get_local_max(r) == CHOOSE i \in DOMAIN r.cost :
                      \A j \in DOMAIN r.cost : r.cost[j] < r.cost[i] \/ (r.cost[j] = r.cost[i] /\ i <= j)

(* the candidates, upwards from the offset and then from the start *)
Unseen(a, r) == {s \in a.dirty \ r.seen : s <= a.main}
NextOf(r, U) == LET up == {s \in U : s >= r.off} IN IF up = {} THEN Min(U) ELSE Min(up)

ScanOne(w) ==
  LET r == pr[w]
      k == Cardinality(DOMAIN r.cost)
  IN  /\ r.pc = "scan" /\ Cardinality(r.seen) < r.max /\ Unseen(area, r) # {}
      /\ \E s \in {NextOf(r, Unseen(area, r))} : \E c \in {get_gc_cost(area, r, s)} :
           \/ Eligible(area, r, s) /\ k < VICTIM_COUNT /\ TakeSlot(w, k + 1, s, c)
           \/ /\ Eligible(area, r, s) /\ k = VICTIM_COUNT
              /\ \E m \in {get_local_max(r)} : c < r.cost[m] /\ TakeSlot(w, m, s, c)
           \/ /\ Eligible(area, r, s) => k = VICTIM_COUNT /\ \A i \in Slots : c >= r.cost[i]
              /\ pr' = [pr EXCEPT ![w].seen = @ \cup {s}]
              /\ UNCHANGED <<area, wk, gh>>
      /\ UNCHANGED <<sb, th, ctl, n>>

(* the end of the search: the bits of the chosen sections are set once     *)
(* more, of those emptied meanwhile as well; the first is collected        *)
SetAgain(a, S) == [a EXCEPT !.bits = @ \cup S]

ScanEnd(w) ==
  LET r == pr[w]
      S == {wk[w].slot[i] : i \in DOMAIN r.cost}
      s == wk[w].slot[1]
  IN  /\ r.pc = "scan"
      /\ Cardinality(r.seen) >= r.max \/ Unseen(area, r) = {}
      /\ IF S = {} THEN NoVictim(w) /\ UNCHANGED <<wk, gh>>
         ELSE /\ area' = SetVictim(SetAgain(area, S), r, s)
              /\ wk' = [wk EXCEPT ![w].slot[1] = NULL_SEGNO]
              /\ pr' = [pr EXCEPT ![w] = [Collect(r, s) EXCEPT !.seen = {}, !.cost = <<>>, !.max = 0, !.off = 0]]
              /\ gh' = [gh EXCEPT !.leak = @ \cup (S \ area.bits)]
      /\ UNCHANGED <<sb, th, ctl, n>>

-------------------------------------------------------------------------------
(* Collecting a section: do_garbage_collect and the rest of do_gc *)

Full(s) == ~ctl.migrate /\ area.valid[s] = SegBlocks

(* one block moved by foreground GC; background GC leaves the moving to    *)
(* write-back                                                              *)
MoveBlock(p) ==
  LET r == pr[p]
  IN  /\ r.pc = "collect" /\ r.type = "FG" /\ ~r.sk /\ r.i < SegBlocks
      /\ area.valid[r.seg] > 0 /\ ~Full(r.seg) /\ ~sb.cperr /\ CanAppend(area)
      /\ area' = Rewrite(area, r.seg)
      /\ pr' = [pr EXCEPT ![p].i = @ + 1]
      /\ UNCHANGED <<sb, th, wk, ctl, gh, n>>

(* f3fs_pin_section *)
PinSection(a, s) == IF a.pin THEN [a EXCEPT !.pinned = @ \cup {s}] ELSE a

(* a block stays where it is: its file is locked, or pinned *)
SkipBlock(p) ==
  LET r == pr[p]
  IN  /\ r.pc = "collect" /\ r.type = "FG" /\ ~r.sk /\ area.valid[r.seg] > 0 /\ Event
      /\ pr' = [pr EXCEPT ![p].sk = TRUE]
      /\ \/ ctl' = [ctl EXCEPT !.skipped = TRUE] /\ UNCHANGED area
         \/ area' = PinSection(area, r.seg) /\ UNCHANGED ctl
      /\ UNCHANGED <<sb, th, wk, gh>>

Through(r) ==
  \/ r.type = "BG" \/ r.sk \/ sb.cperr \/ r.i = SegBlocks
  \/ area.valid[r.seg] = 0 \/ Full(r.seg)

ReleaseNot(a, s, freed) == a

(* a section that is not freed may be chosen again *)
Release(a, s, freed) ==
  IF ~freed /\ a.valid[s] > 0 THEN [a EXCEPT !.bits = @ \ {s}] ELSE a

(* what follows a collected section: stop, another round, or a checkpoint *)
NextRound(r, freed) ==
  LET q == IF ctl.skipped THEN r.skr + 1 ELSE r.skr
      x == [r EXCEPT !.skr = q, !.rnd = @ + 1]
      fg == r.type = "FG"
  IN  IF ctl.init = "FG" \/ ~NotEnough(area, IF fg THEN freed ELSE 0)
      THEN IF fg /\ freed < ctl.nr THEN GcMore(area, More(r), ctl) ELSE Stop(r, 0)
      ELSE IF fg /\ q > MAX_SKIP /\ 2 * q >= x.rnd THEN [x EXCEPT !.pc = "cpskip"]
      ELSE LET y == IF fg THEN x ELSE r
           IN  IF ShortOfFree THEN [y EXCEPT !.pc = "cp2"] ELSE GcMore(area, More(y), ctl)

Finish(p) ==
  LET r     == pr[p]
      freed == r.type = "FG" /\ area.valid[r.seg] = 0
      k     == IF freed THEN ctl.freed + 1 ELSE ctl.freed
  IN  /\ r.pc = "collect" /\ Through(r)
      /\ area' = [Release(area, r.seg, freed) EXCEPT
                    !.victim = IF r.type = "FG" THEN NULL_SEGNO ELSE @]
      /\ ctl' = [ctl EXCEPT !.freed = k]
      /\ gh' = [gh EXCEPT !.truth = IF freed THEN @ + 1 ELSE @]
      /\ pr' = [pr EXCEPT ![p] = NextRound(r, k)]
      /\ UNCHANGED <<sb, th, wk, n>>

ResultUnskipped(r) == r.ret

(* the end of do_gc; a caller that asked for it hears that nothing was     *)
(* freed                                                                   *)
Result(r) == IF ctl.errskip /\ r.ret = 0 /\ ctl.freed = 0 THEN EAGAIN ELSE r.ret
unpin_all(a, r) == IF r.type = "FG" THEN [a EXCEPT !.pinned = {}, !.pin = TRUE] ELSE a

(* f3fs_gc returns: gc_lock is released *)
Return(c, ret) ==
  /\ pr' = [pr EXCEPT ![c] = [Idle EXCEPT !.pc = "ret", !.k = pr[c].k, !.fg = pr[c].fg, !.ret = ret,
                                          !.next = pr[c].next, !.end = pr[c].end,
                                          !.got = gh.truth, !.kept = ctl.freed,
                                          !.sync = ctl.errskip]]
  /\ ctl' = [ctl EXCEPT !.owner = 0]

AnswerStillBusy(a, e) == [a EXCEPT !.ret = e]

(* a worker answers its caller *)
Answer(a, e) == [a EXCEPT !.ret = e, !.state = 0]

StopGc(p) ==
  LET r == pr[p]
  IN  /\ r.pc = "stop"
      /\ area' = unpin_all(area, r)
      /\ IF p \in Workers
         THEN /\ wk' = [wk EXCEPT ![p] = Answer(@, Result(r))]
              /\ pr' = [pr EXCEPT ![p] = Idle]
              /\ UNCHANGED ctl
         ELSE Return(p, Result(r)) /\ UNCHANGED wk
      /\ UNCHANGED <<sb, th, gh, n>>

-------------------------------------------------------------------------------
(* f3fs_gc: with the GC thread the work is handed to every worker; the     *)
(* count of freed sections is reset each time                              *)

StartGc(r, c) == GcMore(area, [r EXCEPT !.type = c.init, !.seg = c.given], c)

EnterGc(c, r) ==
  /\ pr' = [pr EXCEPT ![c] = IF th.on THEN [r EXCEPT !.pc = "dispatch", !.i = 1] ELSE StartGc(r, ctl')]

(* whoever looks for the thread after it is stopped dereferences NULL *)
Oops(c) == pr' = [pr EXCEPT ![c] = [Idle EXCEPT !.pc = "oops"]]

Dispatch(c) ==
  LET r == pr[c]
  IN  /\ r.pc = "dispatch"
      /\ IF ~th.on THEN Oops(c) /\ UNCHANGED <<wk, ctl, gh>>
         ELSE /\ ctl' = [ctl EXCEPT !.freed = 0]
              /\ gh' = IF r.i = 1 THEN [gh EXCEPT !.truth = 0] ELSE gh
              /\ wk' = [wk EXCEPT ![r.i].state = 1]
              /\ pr' = [pr EXCEPT ![c] = IF r.i = NWorkers THEN [r EXCEPT !.pc = "await", !.i = 1]
                                         ELSE [r EXCEPT !.i = @ + 1]]
      /\ UNCHANGED <<area, sb, th, n>>

(* gc_worker_func *)
WorkerTake(w) ==
  /\ pr[w].pc = "idle" /\ wk[w].state = 1
  /\ ctl' = [ctl EXCEPT !.skipped = FALSE]
  /\ pr' = [pr EXCEPT ![w] = StartGc(Idle, ctl)]
  /\ UNCHANGED <<area, sb, th, wk, gh, n>>

WorkerExit(w) ==
  /\ pr[w].pc = "idle" /\ th.stop = 2
  /\ pr' = [pr EXCEPT ![w] = [Idle EXCEPT !.pc = "exit"]]
  /\ UNCHANGED <<area, sb, th, wk, ctl, gh, n>>

(* all answers are awaited; the first error is the result, and without one *)
(* the number of freed sections                                            *)
FirstError == LET F == {w \in Workers : wk[w].ret < 0}
              IN  IF F = {} THEN ctl.freed ELSE wk[Min(F)].ret

Await(c) ==
  /\ pr[c].pc = "await"
  /\ \/ ~th.on /\ Oops(c) /\ UNCHANGED ctl
     \/ /\ th.on /\ \A w \in Workers : wk[w].state = 0
        /\ Return(c, FirstError)
  /\ UNCHANGED <<area, sb, th, wk, gh, n>>

-------------------------------------------------------------------------------
(* The GC thread *)

Control(c, init, nobg, given, nr, errskip, migrate, freed) ==
  [init |-> init, nobg |-> nobg, given |-> given, nr |-> nr, errskip |-> errskip,
   migrate |-> migrate, freed |-> freed, skipped |-> FALSE, owner |-> c]

Enter(q) == [sb EXCEPT !.writers = @ + q]

(* f3fs_gc by the GC thread: foreground when f3fs_balance_fs waits for it *)
GctGc(r, sync) ==
  /\ ctl' = Control(Gct, IF sync /\ ~r.fg THEN "FG" ELSE "BG", r.fg, NULL_SEGNO,
                    IF r.fg THEN 1 ELSE 0, FALSE, FALSE, 0)
  /\ EnterGc(Gct, r)

(* one round up to gc_lock.  The round that finds the urgent budget used   *)
(* up leaves without sb_end_write.                                         *)
UrgentEnds == sb.mode = "urgent" /\ sb.limited /\ sb.left = 0

GctRound ==
  LET fg == GC_MERGE /\ th.wait
      r  == [Idle EXCEPT !.k = "thread", !.fg = fg]
      s  == [Enter(1) EXCEPT !.left = IF sb.mode = "urgent" /\ sb.limited THEN @ - 1 ELSE @]
  IN  /\ pr[Gct].pc = "idle" /\ th.stop = 0 /\ ~sb.frozen
      /\ IF fg THEN UNCHANGED n
         ELSE Event
      /\ \/ /\ UrgentEnds
            /\ sb' = [Enter(1) EXCEPT !.mode = "normal", !.limited = FALSE]
            /\ UNCHANGED <<pr, ctl>>
         \/ /\ ~UrgentEnds /\ (fg \/ sb.mode = "urgent")
            /\ sb' = s /\ pr' = [pr EXCEPT ![Gct] = [r EXCEPT !.pc = "lock"]]
            /\ UNCHANGED ctl
         \/ /\ ~fg /\ sb.mode = "normal" /\ ctl.owner = 0
            /\ sb' = s
            /\ \E sync \in BOOLEAN : GctGc(r, sync)
      /\ UNCHANGED <<area, th, wk, gh>>

GctLock ==
  /\ pr[Gct].pc = "lock" /\ ctl.owner = 0
  /\ \E sync \in BOOLEAN : GctGc(pr[Gct], sync)
  /\ UNCHANGED <<area, sb, th, wk, gh, n>>

(* f3fs_resize_fs keeps checkpoints out *)
CpBlocked == pr[Adm].pc \in {"rz1", "rz2"}

Checkpoint == ~CpBlocked /\ ~sb.cperr /\ area' = Reclaim(area) /\ gh' = AfterCheckpoint(gh, area)

(* f3fs_balance_fs_bg: with too much dirty or too long ago, a checkpoint *)
BalanceBg ==
  \/ Event /\ Checkpoint
  \/ UNCHANGED <<area, gh, n>>

(* the waiters of a foreground round are woken *)
GctDone ==
  /\ pr[Gct].pc = "ret"
  /\ th' = IF pr[Gct].fg THEN [th EXCEPT !.wait = FALSE] ELSE th
  /\ BalanceBg
  /\ sb' = Enter(-1)
  /\ pr' = [pr EXCEPT ![Gct] = Idle]
  /\ UNCHANGED <<wk, ctl>>

GctExit ==
  /\ pr[Gct].pc = "idle" /\ th.stop > 0
  /\ pr' = [pr EXCEPT ![Gct] = [Idle EXCEPT !.pc = "exit"]]
  /\ UNCHANGED <<area, sb, th, wk, ctl, gh, n>>

-------------------------------------------------------------------------------
(* The callers of f3fs_gc; q is the request: its kind, whether it waits    *)
(* for gc_lock, and the sections it names                                  *)

UsrCall(q) ==
  /\ pr[Usr].pc = "idle" /\ ~sb.frozen /\ Event
  /\ q.k = "balance" => NotEnough(area, 0)
  /\ sb' = Enter(1)
  /\ LET r == [Idle EXCEPT !.k = q.k, !.sync = q.sync, !.next = q.from, !.end = q.to]
     IN  IF q.k = "balance" /\ GC_MERGE /\ th.on
         THEN /\ th' = [th EXCEPT !.wait = TRUE]
              /\ pr' = [pr EXCEPT ![Usr] = [r EXCEPT !.pc = "fgwait"]]
         ELSE pr' = [pr EXCEPT ![Usr] = [r EXCEPT !.pc = "lock"]] /\ UNCHANGED th
  /\ UNCHANGED <<area, wk, ctl, gh>>

(* the gc_control each of them fills in; the range ioctl keeps one for all *)
(* its sections                                                            *)
UsrControl(r) ==
  CASE r.k = "balance" -> Control(Usr, "BG", TRUE, NULL_SEGNO, 1, FALSE, FALSE, 0)
    [] r.k = "flush"   -> Control(Usr, "FG", FALSE, r.next, 0, TRUE, TRUE, r.kept)
    [] OTHER           -> Control(Usr, IF r.sync THEN "FG" ELSE "BG", FALSE, r.next, 0, r.sync, FALSE, r.kept)

Leave == sb' = Enter(-1) /\ pr' = [pr EXCEPT ![Usr] = Idle]

Trylock(r) == r.k = "flush" \/ (r.k \in {"gc", "range"} /\ ~r.sync)

UsrLock ==
  LET r == pr[Usr]
  IN  /\ r.pc = "lock"
      /\ \/ /\ ctl.owner = 0
            /\ ctl' = UsrControl(r)
            /\ gh' = [gh EXCEPT !.truth = r.got]
            /\ EnterGc(Usr, r)
            /\ UNCHANGED sb
         \/ /\ ctl.owner # 0 /\ Trylock(r)
            /\ Leave
            /\ UNCHANGED <<ctl, gh>>
      /\ UNCHANGED <<area, th, wk, n>>

(* the range goes on after a 0, flush_device after a skipped section too *)
GoesOn(r) ==
  /\ r.next < r.end
  /\ \/ r.k = "range" /\ r.ret = 0
     \/ r.k = "flush" /\ (r.ret = EAGAIN \/ r.ret >= 0)

UsrDone ==
  LET r == pr[Usr]
  IN  /\ r.pc = "ret"
      /\ IF GoesOn(r)
         THEN /\ pr' = [pr EXCEPT ![Usr] = [r EXCEPT !.pc = "lock", !.next = @ + 1, !.ret = 0]]
              /\ UNCHANGED sb
         ELSE Leave
      /\ UNCHANGED <<area, th, wk, ctl, gh, n>>

(* f3fs_balance_fs is woken *)
UsrWoken ==
  /\ pr[Usr].pc = "fgwait" /\ ~th.wait
  /\ Leave
  /\ UNCHANGED <<area, th, wk, ctl, gh, n>>

-------------------------------------------------------------------------------
(* f3fs_resize_fs: the last section is cut off *)

NoSpace(a) == SegBlocks + valid_user_blocks(a) > a.user

(* f3fs_allocate_segment_for_resize, if the log is in the range.  Its call *)
(* of locate_dirty_segment2 swaps the last two arguments: the segment type *)
(* stands for the number of valid blocks, and the hot data log has type 0. *)
MisLocate(a, s, hot) ==
  IF hot THEN [a EXCEPT !.pre = @ \cup {s}, !.dirty = @ \ {s}, !.bits = @ \ {s}]
  ELSE IF s \in a.pre THEN a ELSE [a EXCEPT !.dirty = @ \cup {s}]

MoveLogNot(a, hot) == a

MoveLog(a, hot) == IF a.cur <= a.main THEN a ELSE MisLocate(new_curseg(a), a.cur, hot)

(* free_segment_range up to the collection of the section *)
Shrink(a, hot) == MoveLog([a EXCEPT !.main = @ - 1], hot)
Grow(a) == [a EXCEPT !.main = @ + 1]
update_fs_metadata(a, secs) == [a EXCEPT !.main = @ + secs]
Recover(a) == [a EXCEPT !.user = @ + SegBlocks]            \* recover_out
CanShrink(a) == a.cur = a.main => \E s \in Free(a) : s < a.main

ResizeBegin ==
  /\ pr[Adm].pc = "idle" /\ Event /\ [k |-> "resize"] \in Requests
  /\ ~sb.fsck /\ ctl.owner = 0 /\ ~NoSpace(area) /\ CanShrink(area)
  /\ \E hot \in BOOLEAN : area' = Shrink(area, hot)
  /\ sb' = [sb EXCEPT !.fsck = TRUE]        \* f3fs_bug_on(sbi, true)
  /\ ctl' = [ctl EXCEPT !.owner = Adm]
  /\ pr' = [pr EXCEPT ![Adm] = [Idle EXCEPT !.pc = "rz1", !.seg = area.main]]
  /\ UNCHANGED <<th, wk, gh>>

(* do_garbage_collect for the section; a block may be skipped *)
ResizeMove ==
  LET s == pr[Adm].seg
  IN  /\ pr[Adm].pc \in {"rz1", "rz2"} /\ ~pr[Adm].sk /\ area.valid[s] > 0
      /\ \/ ~sb.cperr /\ CanAppend(area) /\ area' = Rewrite(area, s) /\ UNCHANGED <<pr, n>>
         \/ /\ IF sb.cperr THEN UNCHANGED n ELSE Event
            /\ pr' = [pr EXCEPT ![Adm].sk = TRUE] /\ UNCHANGED area
      /\ UNCHANGED <<sb, th, wk, ctl, gh>>

Collected == pr[Adm].sk \/ area.valid[pr[Adm].seg] = 0

(* the first pass only collects; then new writers are kept out *)
ResizeFreeze ==
  /\ pr[Adm].pc = "rz1" /\ Collected
  /\ area' = Grow(area)
  /\ sb' = [sb EXCEPT !.frozen = TRUE]
  /\ ctl' = [ctl EXCEPT !.owner = 0]
  /\ pr' = [pr EXCEPT ![Adm] = [@ EXCEPT !.pc = "freeze", !.sk = FALSE]]
  /\ UNCHANGED <<th, wk, gh, n>>

(* freeze_super: the last writer is gone, and the file system is synced *)
ResizeSync ==
  /\ pr[Adm].pc = "freeze" /\ sb.writers = 0
  /\ Checkpoint \/ (sb.cperr /\ UNCHANGED <<area, gh>>)
  /\ pr' = [pr EXCEPT ![Adm].pc = "rzlock"]
  /\ UNCHANGED <<sb, th, wk, ctl, n>>

(* the second pass *)
ResizeAgain ==
  /\ pr[Adm].pc = "rzlock" /\ ctl.owner = 0
  /\ \/ /\ NoSpace(area) \/ ~CanShrink(area)
        /\ sb' = [sb EXCEPT !.frozen = FALSE]
        /\ pr' = [pr EXCEPT ![Adm] = Idle]
        /\ UNCHANGED <<area, ctl>>
     \/ /\ ~NoSpace(area) /\ CanShrink(area)
        /\ \E hot \in BOOLEAN : area' = [Shrink(area, hot) EXCEPT !.user = @ - SegBlocks]
        /\ ctl' = [ctl EXCEPT !.owner = Adm]
        /\ pr' = [pr EXCEPT ![Adm].pc = "rz2"]
        /\ UNCHANGED sb
  /\ UNCHANGED <<th, wk, gh, n>>

(* what is left in the section fails the resize *)
StillValid(a, s) == a.valid[s] > 0

(* free_segment_range gives the section back and writes a checkpoint;      *)
(* f3fs_commit_super and a second checkpoint make the smaller size last,   *)
(* and an error of either undoes it                                        *)
ResizeEnd ==
  LET s == pr[Adm].seg
      a == Grow(area)
  IN  /\ pr[Adm].pc = "rz2" /\ Collected
      /\ \/ /\ StillValid(area, s) \/ sb.cperr
            /\ area' = Recover(a)
            /\ UNCHANGED <<gh, n>>
         \/ /\ ~StillValid(area, s) /\ ~sb.cperr
            /\ area' = update_fs_metadata(Reclaim(a), -1) /\ gh' = AfterCheckpoint(gh, area)
            /\ UNCHANGED n
         \/ /\ ~StillValid(area, s) /\ ~sb.cperr /\ Event
            /\ area' = Recover(Reclaim(a)) /\ gh' = AfterCheckpoint(gh, area)
      /\ sb' = [sb EXCEPT !.frozen = FALSE]
      /\ ctl' = [ctl EXCEPT !.owner = 0]
      /\ pr' = [pr EXCEPT ![Adm] = Idle]
      /\ UNCHANGED <<th, wk>>

-------------------------------------------------------------------------------
(* Starting and stopping the thread: remount and shutdown *)

NoSlots == [i \in Slots |-> NULL_SEGNO]

(* gc_thread is NULL before anybody is told *)
StopThread(shutdown) ==
  /\ pr[Adm].pc = "idle" /\ th.on /\ Event
  /\ sb' = [sb EXCEPT !.cperr = @ \/ shutdown]
  /\ th' = [th EXCEPT !.on = FALSE, !.stop = 1]
  /\ pr' = [pr EXCEPT ![Adm].pc = "stop"]
  /\ UNCHANGED <<area, wk, ctl, gh>>

StopWorkers ==
  /\ pr[Adm].pc = "stop" /\ th.stop = 1 /\ pr[Gct].pc \in {"exit", "oops"}
  /\ th' = [th EXCEPT !.stop = 2]
  /\ UNCHANGED <<area, sb, wk, pr, ctl, gh, n>>

(* the waiters are woken, and the victims the workers kept are forgotten;  *)
(* a caller still waiting for a worker waits in freed memory               *)
StopEnd ==
  /\ pr[Adm].pc = "stop" /\ th.stop = 2 /\ \A w \in Workers : pr[w].pc = "exit"
  /\ th' = [th EXCEPT !.wait = FALSE]
  /\ wk' = [w \in Workers |-> [state |-> 0, ret |-> 0, slot |-> NoSlots]]
  /\ gh' = [gh EXCEPT !.leak = @ \cup (area.bits \cap {wk[w].slot[i] : w \in Workers, i \in Slots})]
  /\ pr' = [pr EXCEPT ![Adm] = Idle,
                      ![Usr].pc = IF @ \in {"dispatch", "await"} THEN "oops" ELSE @]
  /\ UNCHANGED <<area, sb, ctl, n>>

StartThread ==
  /\ pr[Adm].pc = "idle" /\ ~th.on /\ ~sb.cperr /\ Event
  /\ pr[Gct].pc = "exit"
  /\ th' = [th EXCEPT !.on = TRUE, !.stop = 0]
  /\ pr' = [p \in DOMAIN pr |-> IF p \in Workers \cup {Gct} THEN Idle ELSE pr[p]]
  /\ UNCHANGED <<area, sb, wk, ctl, gh>>

Shutdown == StopThread(TRUE)

(* a remount turns background GC off or on *)
Remount == StopThread(FALSE) \/ StartThread

-------------------------------------------------------------------------------
(* The rest of the file system *)

UserRoom == area.room > 1 \/ Cardinality(Free(area)) > Reserved

Update(s) ==       \* user writes leave the reserved sections alone
  /\ ~sb.frozen /\ area.valid[s] > 0 /\ UserRoom /\ Event
  /\ area' = Rewrite(area, s)
  /\ UNCHANGED <<sb, th, wk, pr, ctl, gh>>

Write ==
  /\ ~sb.frozen /\ valid_user_blocks(area) < area.user /\ UserRoom /\ Event
  /\ area' = Append1(area)
  /\ UNCHANGED <<sb, th, wk, pr, ctl, gh>>

Delete(s) ==
  /\ ~sb.frozen /\ area.valid[s] > 0 /\ Event
  /\ area' = Invalidate(area, s)
  /\ UNCHANGED <<sb, th, wk, pr, ctl, gh>>

Sync == ~sb.frozen /\ area.pre # {} /\ Event /\ Checkpoint /\ UNCHANGED <<sb, th, wk, pr, ctl>>

-------------------------------------------------------------------------------
TypeOK ==
  /\ area.valid \in [Segs -> 0 .. SegBlocks] /\ area.room \in 1 .. SegBlocks
  /\ area.dirty \cup area.pre \cup area.free \cup area.bits \cup area.pinned \subseteq Segs
  /\ sb.writers \in Nat /\ ctl.owner \in 0 .. Adm
  /\ wk \in [Workers -> [state : {0, 1}, ret : Int, slot : [Slots -> 0 .. NSegs]]]

Init ==
  /\ area \in Areas
  /\ \E u \in Modes :
       sb = [cperr |-> FALSE, stuck |-> FALSE, fsck |-> FALSE, frozen |-> FALSE, writers |-> 0,
             mode |-> u.mode, limited |-> u.limited, left |-> u.left]
  /\ \E on \in BOOLEAN :           \* background_gc=off has no thread
       /\ th = [on |-> on, stop |-> IF on THEN 0 ELSE 2, wait |-> FALSE]
       /\ pr = [p \in 1 .. Adm |-> [Idle EXCEPT !.pc = IF ~on /\ p <= Gct THEN "exit" ELSE @]]
  /\ wk = [w \in Workers |-> [state |-> 0, ret |-> 0, slot |-> NoSlots]]
  /\ ctl = Control(0, "BG", FALSE, NULL_SEGNO, 0, FALSE, FALSE, 0)
  /\ gh = [shared |-> {}, leak |-> {}, truth |-> 0, lost |-> FALSE]
  /\ n = 0

DoGc(p) == GcCheckpoint(p) \/ GivenVictim(p) \/ MoveBlock(p) \/ SkipBlock(p) \/ Finish(p) \/ StopGc(p)
Search(w) == KeptVictim(w) \/ ScanOne(w) \/ ScanEnd(w)
WorkerLoop(w) == WorkerTake(w) \/ WorkerExit(w)
F3fsGc(c) == Dispatch(c) \/ Await(c) \/ SingleVictim(c)
GctLoop == GctRound \/ GctLock \/ GctDone \/ GctExit
UsrLoop == UsrLock \/ UsrDone \/ UsrWoken
Resize == ResizeMove \/ ResizeFreeze \/ ResizeSync \/ ResizeAgain \/ ResizeEnd
Admin == StopWorkers \/ StopEnd \/ Resize

Next ==
  /\ ~gh.lost
  /\ \/ \E p \in Workers \cup {Gct, Usr} : DoGc(p)
     \/ \E w \in Workers : Search(w) \/ WorkerLoop(w)
     \/ \E c \in {Gct, Usr} : F3fsGc(c)
     \/ GctLoop \/ UsrLoop \/ Admin
     \/ \E q \in Requests : q.k # "resize" /\ UsrCall(q)
     \/ ResizeBegin
     \/ Shutdown
     \/ Remount
     \/ \E s \in Segs : Update(s) \/ Delete(s)
     \/ Write \/ Sync

Spec == Init /\ [][Next]_vars

(* every thread goes on: a kernel thread or a task inside a system call is *)
(* scheduled; the GC thread looks at fggc_wq and at kthread_should_stop in *)
(* every round                                                             *)
Fairness ==
  /\ \A w \in Workers : WF_vars(~gh.lost /\ (Search(w) \/ WorkerLoop(w) \/ DoGc(w)))
  /\ WF_vars(~gh.lost /\ (GctLoop \/ F3fsGc(Gct) \/ DoGc(Gct)))
  /\ WF_vars(~gh.lost /\ (UsrLoop \/ F3fsGc(Usr) \/ DoGc(Usr)))
  /\ WF_vars(~gh.lost /\ Admin)

FairSpec == Spec /\ Fairness

-------------------------------------------------------------------------------
(* Properties *)

Collecting(p) == pr[p].pc = "collect"
Holders(s) ==
  {<<w, i>> \in Workers \X Slots : wk[w].slot[i] = s}
    \cup {<<p, 0>> : p \in {q \in 1 .. Adm : Collecting(q) /\ pr[q].seg = s}}

(* No two workers collect, or keep for later, the same section, and nobody *)
(* collects the segment the log writes to: test_and_set_bit on             *)
(* victim_secmap decides, although the searches take no lock.  Excepted    *)
(* are a section named by the caller, which every worker is given, and a   *)
(* section that was emptied and freed while a worker kept it for later.    *)
VictimsHeldOnce ==
  /\ TypeOK
  /\ \A s \in Segs \ gh.shared :
       /\ Cardinality(Holders(s)) <= 1
       /\ Holders(s) # {} => s # area.cur /\ (s \in area.bits \/ area.valid[s] = 0)

(* A section marked in victim_secmap is some worker's: a section that was  *)
(* skipped, given up for a cheaper one, or not freed can be chosen again.  *)
(* Excepted are the sections that were emptied during the search that      *)
(* chose them, or freed while they were kept, those the thread kept when   *)
(* it was stopped, and empty ones on the dirty list, where the swapped     *)
(* arguments of f3fs_allocate_segment_for_resize put them.                 *)
VictimBitsHeld ==
  \A s \in area.bits :
    \/ Holders(s) # {} \/ s \in gh.leak \cup gh.shared
    \/ area.valid[s] = 0 /\ s \in area.dirty

(* A caller that asked to hear of skipped sections is told of success only *)
(* if its call freed a section, and of no more sections than it freed,     *)
(* although the count is reset while workers already run.                  *)
SyncGcFreed ==
  pr[Usr].pc = "ret" /\ pr[Usr].sync /\ pr[Usr].ret >= 0 =>
    pr[Usr].got > 0 /\ pr[Usr].ret <= pr[Usr].got

(* What is cut off from the main area holds no valid block, is not written *)
(* to and is not collected, whoever wrote or collected while               *)
(* f3fs_resize_fs moved the blocks out.                                    *)
ShrunkAreaEmpty ==
  \A s \in Segs : s > area.main /\ ~CpBlocked =>
    area.valid[s] = 0 /\ s # area.cur /\ ~\E p \in 1 .. Adm : Collecting(p) /\ pr[p].seg = s

(* Every GC call, every caller that waits for the GC thread, every resize  *)
(* and every stop of the thread comes to an end.  Excepted: valid blocks   *)
(* were freed, the thread was stopped under a caller, the mutex around     *)
(* GC's checkpoints was left behind by a failed one, the log has no        *)
(* segment left, and a freeze that waits for a writer that is gone, or     *)
(* that itself waits for the GC thread, which a frozen file system stops.  *)
Inside == {p \in {Gct, Usr} : pr[p].pc \notin {"idle", "exit"}}
FreezeBlocked == sb.frozen /\ (th.wait \/ sb.writers > Cardinality(Inside))
Excepted == \/ gh.lost \/ sb.stuck \/ ~CanAppend(area) \/ FreezeBlocked
            \/ \E p \in {Gct, Usr} : pr[p].pc = "oops"
GcReturns == \A p \in {Usr, Adm} : []<>(pr[p].pc = "idle" \/ Excepted)
===============================================================================
