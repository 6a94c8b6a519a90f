------------------------------- MODULE FileData -------------------------------
(***************************************************************************)
(* The data path of one regular file: the block addresses in its node, the *)
(* page cache, the extent tree, inline data, the log that blocks are       *)
(* written to, and everything that moves data between them: buffered and   *)
(* direct writes, mmap stores, write-back, truncation, fallocate in all    *)
(* its modes, atomic writes, defragmentation, garbage collection of the    *)
(* file's blocks, and checkpoints.  (file.c, data.c, inline.c,             *)
(* extent_cache.c, and the migration half of gc.c.)                        *)
(*                                                                         *)
(* Sizes and offsets count units, two of them to a page, so that a file    *)
(* end may fall inside a page; MAX_INLINE is one unit.  A datum is the     *)
(* number of the call that wrote it, 0 the zero byte.  A section under a   *)
(* page lock and the node lock is one step.  `want' and `lost' in the      *)
(* state record are history: the contents the completed calls promise, and *)
(* the pages for which a named race of the code breaks that promise.       *)
(***************************************************************************)
EXTENDS ExtentTree, Sequences, SequencesExt

CONSTANTS NP,                  \* pages of the file
          NSegs, SegBlocks,    \* the main area, in segments and blocks
          Images,              \* the files the run starts from
          Calls,               \* the system calls of the run
          MaxCalls,            \* calls in a run
          MaxEvents            \* stores, block moves, checkpoints, trims and faults

ASSUME Shape == {NP, NSegs, SegBlocks, MIN_EXTENT_LEN} \subseteq Nat \ {0}

VARIABLES fs,                  \* the file, its cached pages and the device
          op,                  \* the call holding inode_lock
          gc,                  \* the block the cleaner is moving
          cp,                  \* the file as the last checkpoint has it
          n                    \* the budgets used up

vars == <<fs, op, gc, cp, n>>

NULL_ADDR == 0
NEW_ADDR == -1
MAX_INLINE == 1
Zero == <<0, 0>>
Pages == 0 .. NP - 1
Units == 0 .. 2 * NP - 1
Blocks == 1 .. NSegs * SegBlocks
SegOf(b) == (b - 1) \div SegBlocks
PgUp(u) == (u + 1) \div 2
PgDown(u) == u \div 2
Least(x, y) == IF x < y THEN x ELSE y
Most(x, y) == IF x < y THEN y ELSE x

NoPage == [up |-> FALSE, dirty |-> FALSE, gcing |-> FALSE, wb |-> 0, d |-> Zero]
Settled == [by |-> "none", d |-> Zero]
Idle == [k |-> "none", a |-> 0, z |-> 0, to |-> 0, keep |-> FALSE,
         pc |-> "none", i |-> 0, v |-> 0, pre |-> FALSE]
NoMove == [b |-> 0, p |-> 0, cow |-> FALSE, raw |-> FALSE, d |-> Zero]

-------------------------------------------------------------------------------
(* Addresses, space and the log *)

IsData(a) == a > 0                         \* __is_valid_data_blkaddr

(* f3fs_update_data_blkaddr: the node and the extent cache together *)
SetAddr(s, p, a) ==
  [s EXCEPT !.addr[p] = a,
            !.et = UpdateRange(@, p, IF IsData(a) THEN a ELSE 0, 1)]

(* f3fs_reserve_new_block: a hole becomes NEW_ADDR and is counted *)
Reserve(s, p) ==
  IF s.addr[p] # NULL_ADDR THEN s
  ELSE [s EXCEPT !.addr[p] = NEW_ADDR, !.nblk = @ + 1]

(* f3fs_truncate_data_blocks_range over the pages [a, z) *)
TruncRange(s, a, z) ==
  LET gone == {p \in Pages : a <= p /\ p < z /\ s.addr[p] # NULL_ADDR}
  IN  IF gone = {} THEN s
      ELSE [s EXCEPT !.addr = [p \in Pages |-> IF p \in gone THEN NULL_ADDR ELSE @[p]],
                     !.sit  = @ \ {s.addr[p] : p \in gone},
                     !.nblk = @ - Cardinality(gone),
                     !.et   = UpdateRange(@, a, 0, z - a)]

(* room in the current segment and in the free ones *)
CanAlloc(s, k) ==
  k <= SegBlocks * Cardinality(s.free)
         + (IF s.next = 0 THEN 0 ELSE SegBlocks - ((s.next - 1) % SegBlocks))

LogHead(s) ==
  IF s.next # 0 THEN s.next
  ELSE 1 + SegBlocks * (CHOOSE g \in s.free : \A h \in s.free : g <= h)

(* f3fs_allocate_data_block: the next block of the log replaces `old' *)
Take(s, old) ==
  LET b == LogHead(s)
  IN  [s EXCEPT !.next = IF b % SegBlocks = 0 THEN 0 ELSE b + 1,
                !.free = @ \ {SegOf(b)},
                !.sit  = (@ \ {old}) \cup {b}]

Submit(s, b, d, by) == [s EXCEPT !.pend[b] = [by |-> by, d |-> d]]

(* f3fs_outplace_write_data, f3fs_outplace_write_data2 *)
Outplace(s, p, d, by) ==
  Submit(SetAddr(Take(s, s.addr[p]), p, LogHead(s)), LogHead(s), d, by)

(* what f3fs_wait_on_block_writeback waits for: a write to the block *)
InFlight(s, a) == IsData(a) /\ s.pend[a].by # "none"
BlockData(s, b) == IF InFlight(s, b) THEN s.pend[b].d ELSE s.media[b]

-------------------------------------------------------------------------------
(* Pages *)

Dirty(s, p, d) ==
  [s EXCEPT !.pg[p].up = TRUE, !.pg[p].dirty = TRUE, !.pg[p].d = d]

(* f3fs_read_inline_data: the tail of the page is zeroed *)
InlineData(s) == <<s.idata, 0>>

(* f3fs_read_single_page: a mapped block from the device, anything else as *)
(* zeros; a write to the block still on its way is not waited for          *)
DiskData(s, a) == IF IsData(a) THEN s.media[a] ELSE Zero

(* f3fs_get_read_data_page: a page that is not cached is read from where   *)
(* the inode's own node says, never from the COW inode of an atomic write  *)
LoadPage(s, p) ==
  LET a == s.addr[p]
  IN  IF s.pg[p].up THEN s
      ELSE [s EXCEPT !.pg[p].up = TRUE,
                     !.pg[p].d = IF s.inline THEN InlineData(s) ELSE DiskData(s, a),
                     !.lost = IF InFlight(s, a) \/ s.cow[p] # NULL_ADDR
                              THEN @ \cup {p} ELSE @]

(* f3fs_get_new_data_page *)
NewPage(s, p) == LoadPage(Reserve(s, p), p)

Wipe(d, from, to) == [i \in 1 .. 2 |-> IF from < i /\ i <= to THEN 0 ELSE d[i]]

(* truncate_pagecache: whole pages go, the tail of the last is zeroed *)
DropPages(s, from) ==
  [s EXCEPT !.pg = [p \in Pages |->
     IF p >= PgUp(from) THEN NoPage
     ELSE IF p = PgDown(from) THEN [@[p] EXCEPT !.d = Wipe(@, from % 2, 2)]
     ELSE @[p]]]

DropRange(s, P) == [s EXCEPT !.pg = [p \in Pages |-> IF p \in P THEN NoPage ELSE @[p]]]

TruncateBlocksWholePages(s, from) ==
  IF s.inline THEN s ELSE TruncRange(s, PgUp(from), NP)

(* f3fs_truncate_inline_inode, and the cached copy *)
TruncateInline(s, from) ==
  [s EXCEPT !.idata = IF from < MAX_INLINE THEN 0 ELSE @,
            !.exist = @ /\ from > 0,
            !.pg[0].d = IF PgDown(from) = 0 THEN Wipe(@, from % 2, 2) ELSE @]

(* f3fs_do_truncate_blocks, with truncate_partial_data_page *)
TruncateBlocks(s, from) ==
  LET p == PgDown(from)
      t == TruncRange(s, PgUp(from), NP)
      r == LoadPage(t, p)
  IN  IF s.inline THEN TruncateInline(s, from)
      ELSE IF from % 2 = 0 \/ t.addr[p] = NULL_ADDR THEN t
      ELSE Dirty(r, p, Wipe(r.pg[p].d, 1, 2))

(* fill_zero: part of a page zeroed through the cache *)
FillZero(s, p, from, to) ==
  LET r == NewPage(s, p)
  IN  Dirty(r, p, Wipe(r.pg[p].d, from, to))

(* f3fs_convert_inline_page: the data gets a block, and is waited for *)
Convert(s) ==
  LET d == IF s.pg[0].up THEN s.pg[0].d ELSE InlineData(s)
      t == Outplace(Reserve(s, 0), 0, d, "user")
      b == t.addr[0]
  IN  IF ~s.exist THEN [s EXCEPT !.inline = FALSE]
      ELSE [t EXCEPT !.inline = FALSE, !.idata = 0, !.exist = FALSE,
                     !.media[b] = d, !.pend[b] = Settled,
                     !.pg[0] = [NoPage EXCEPT !.up = TRUE, !.d = d]]

-------------------------------------------------------------------------------
(* Moving blocks between file offsets: __exchange_data_block *)

Steps(len) == [i \in 1 .. len |-> i - 1]

(* f3fs_is_checkpointed_data tests the bit of ckpt_valid_map and sets it *)
TestAndSetCkpt(s, a) == IF IsData(a) THEN [s EXCEPT !.ckpt = @ \cup {a}] ELSE s

(* __read_out_blkaddrs: a block the checkpoint does not hold is unhooked   *)
(* to be moved as it is, unless the volume is log structured               *)
ReadOut(s, src, len) ==
  LET step(x, i) ==
        LET a == x.s.addr[src + i]
            t == TestAndSetCkpt(x.s, a)
        IN  IF ~x.ok THEN x
            ELSE IF ~IsData(a) \/ a \in x.s.ckpt THEN x
            ELSE IF s.lfs THEN [x EXCEPT !.s = t, !.ok = FALSE]
            ELSE [x EXCEPT !.s = SetAddr(t, src + i, NULL_ADDR), !.rep = @ \cup {i}]
  IN  FoldLeft(step, [s |-> s, rep |-> {}, ok |-> TRUE], Steps(len))

(* f3fs_replace_block: the address changes hands, the segment table keeps  *)
(* its entry for it                                                        *)
ReplaceBlock(s, p, a) == SetAddr(s, p, a)

(* one round of __clone_blkaddrs; a is the address read out *)
CloneBlock(s, src, dst, a, replace, full) ==
  LET cut  == TruncRange(s, dst, dst + 1)
      from == LoadPage(s, src)
      grow(t) == [t EXCEPT !.size = Most(@, 2 * (dst + 1))]
  IN  IF a = NULL_ADDR /\ ~full THEN s
      ELSE IF replace THEN grow(ReplaceBlock(cut, dst, a))
      ELSE IF a = NULL_ADDR THEN grow(cut)
      ELSE TruncRange(grow(Dirty(Reserve(from, dst), dst, from.pg[src].d)), src, src + 1)

(* __roll_back_blkaddrs: what was unhooked and not moved goes back *)
RollBack(s, src, addr, I) ==
  LET step(t, i) == IF i \in I THEN SetAddr(t, src + i, addr[src + i]) ELSE t
  IN  FoldLeft(step, s, Steps(NP))

(* the rounds of the exchange, and the roll-back of what they did not reach *)
CloneBlocks(s, out, src, dst, len, full, fail) ==
  LET step(t, i) == IF i >= fail \/ ~out.ok THEN t
                    ELSE CloneBlock(t, src + i, dst + i, s.addr[src + i],
                                    i \in out.rep, full)
  IN  [s  |-> RollBack(FoldLeft(step, out.s, Steps(len)), src, s.addr,
                       {i \in out.rep : i >= fail \/ ~out.ok}),
       ok |-> out.ok /\ fail >= len]

(* the whole exchange; `fail' rounds succeed, `len' of them when none fails *)
Exchange(s, src, dst, len, full, fail) ==
  CloneBlocks(s, ReadOut(s, src, len), src, dst, len, full, fail)

-------------------------------------------------------------------------------
(* The call in progress: every one runs under inode_lock *)

PFrom == PgDown(op.a)
PTo == PgUp(op.z)
Span == {p \in Pages : PFrom <= p /\ p < PTo}
Whole == {p \in Pages : PgUp(op.a) <= p /\ p < PgDown(op.z)}
Onward == {p \in Pages : PFrom <= p}
Clean(P) == \A p \in P : ~fs.pg[p].dirty /\ fs.pg[p].wb = 0
Written(P) == \A p \in P : fs.pg[p].wb = 0      \* f3fs_wait_on_page_writeback

Goto(pc) == op' = [op EXCEPT !.pc = pc]
Return == op' = Idle
Event == n.events < MaxEvents /\ n' = [n EXCEPT !.events = @ + 1]
Fault == Event

(* the first step of a call after the inline data is out of the way, and   *)
(* the one after filemap_write_and_wait_range                              *)
Entry == [write |-> "map", dio |-> "dio", truncate |-> "setsize",
          punch |-> "fill", zero |-> "sync", collapse |-> "sync",
          insert |-> "cut", expand |-> "map", start |-> "sync",
          commit |-> "sync", abort |-> "end", move |-> "sync", defrag |-> "sync"]
AfterSync == [zero |-> "fill", collapse |-> "shift", insert |-> "shift",
              start |-> "end", commit |-> "end", move |-> "end", defrag |-> "end"]

(* which calls leave inline data where it is *)
FitsInline(c) ==
  \/ c.k \in {"write", "truncate"} /\ c.z <= MAX_INLINE
  \/ c.k \in {"commit", "abort", "defrag"}

(* the argument checks at the head of each call; only writes, commit and   *)
(* abort are issued while an atomic write is open                          *)
Accepts(c) ==
  /\ IF fs.atomic THEN c.k \in {"write", "commit", "abort"}
                  ELSE c.k \notin {"commit", "abort"}
  /\ c.k = "collapse" => c.z < fs.size
  /\ c.k = "insert"   => c.a < fs.size /\ PgUp(fs.size) + PgDown(c.z - c.a) <= NP
  /\ c.k = "move"     => c.z <= 2 * PgUp(fs.size)
  /\ c.k \in {"punch", "defrag"} => c.a < fs.size
  /\ c.k = "defrag"   => ~fs.inline

Begin(c) ==
  /\ op.k = "none" /\ n.calls < MaxCalls
  /\ Accepts(c)
  /\ op' = [Idle EXCEPT !.k = c.k, !.a = c.a, !.z = c.z, !.to = c.to, !.keep = c.keep,
               !.pc = IF fs.inline /\ ~FitsInline(c) THEN "convert"
                      ELSE IF fs.inline /\ c.k = "write" THEN "page" ELSE Entry[c.k],
               !.i = PgDown(c.a), !.v = n.calls + 1]
  /\ n' = [n EXCEPT !.calls = @ + 1]
  /\ UNCHANGED <<fs, gc, cp>>

(* f3fs_convert_inline_inode *)
ConvertInline ==
  /\ op.pc = "convert" /\ Written({0})
  /\ \/ /\ fs.exist => CanAlloc(fs, 1)
        /\ fs' = Convert(fs) /\ Goto(Entry[op.k]) /\ UNCHANGED n
     \/ fs.exist /\ Fault /\ Return /\ UNCHANGED fs
  /\ UNCHANGED <<gc, cp>>

(* filemap_write_and_wait_range: the pages named are clean when it returns *)
SyncPages ==
  CASE op.k \in {"zero", "defrag"} -> Span
    [] op.k \in {"collapse", "insert"} -> Onward
    [] op.k = "move" -> Span \cup {p \in Pages : PgDown(op.to) <= p
                                    /\ p < PgDown(op.to) + PTo - PFrom}
    [] OTHER -> Pages

SyncRange ==
  /\ op.pc = "sync" /\ Clean(SyncPages)
  /\ Goto(AfterSync[op.k])
  /\ UNCHANGED <<fs, gc, cp, n>>

Put(w, a, z, v) == [u \in Units |-> IF a <= u /\ u < z THEN v ELSE w[u]]

(* f3fs_map_blocks(PRE_AIO): the holes of the range are reserved *)
ReserveAll(s, P) ==
  FoldLeft(LAMBDA t, p : IF p \in P THEN Reserve(t, p) ELSE t, s, Steps(NP))

(* f3fs_preallocate_blocks: the pages written whole; without space what    *)
(* was got stays for the write, or is given back past the file end         *)
Preallocate ==
  /\ op.k = "write" /\ op.pc = "map"
  /\ \/ /\ fs' = ReserveAll(fs, Whole)
        /\ op' = [op EXCEPT !.pc = "page", !.pre = Whole # {}]
        /\ UNCHANGED n
     \/ \E k \in {p \in Whole : fs.addr[p] = NULL_ADDR} :
          LET got == {p \in Whole : p < k}
              t   == ReserveAll(fs, got)
          IN  /\ Fault
              /\ fs' = IF got = {} /\ t.size < op.z THEN TruncateBlocks(t, t.size) ELSE t
              /\ op' = IF got = {} THEN Idle ELSE [op EXCEPT !.pc = "page"]
  /\ UNCHANGED <<gc, cp>>

(* f3fs_expand_inode_data: without space what was got is kept *)
Expand ==
  /\ op.k = "expand" /\ op.pc = "map"
  /\ LET grow(P, to) == [ReserveAll(fs, P) EXCEPT
                           !.size = IF op.keep \/ P = {} THEN @ ELSE Most(@, to)]
     IN  \/ fs' = grow(Span, op.z) /\ UNCHANGED n
         \/ \E k \in {p \in Span : fs.addr[p] = NULL_ADDR} :
              Fault /\ fs' = grow({p \in Span : p < k}, 2 * k)
  /\ Return
  /\ UNCHANGED <<gc, cp>>

-------------------------------------------------------------------------------
(* Buffered and direct writes *)

(* prepare_atomic_write_begin: the block is reserved in the COW inode *)
ReserveCow(s, p) ==
  IF s.cow[p] # NULL_ADDR THEN s
  ELSE [s EXCEPT !.cow[p] = NEW_ADDR, !.cowblk = @ + 1]

(* prepare_write_begin: inline data is brought in, and a hole reserved     *)
(* unless the whole page was preallocated                                  *)
PrepareWriteBegin(s, p, skip) ==
  IF s.inline THEN [LoadPage(s, 0) EXCEPT !.exist = TRUE]
  ELSE IF s.atomic THEN ReserveCow(s, p)
  ELSE IF skip THEN s ELSE Reserve(s, p)

(* f3fs_write_begin for the units [lo, hi) of page p: the rest of the page *)
(* comes from the cache, from the COW inode or from the file               *)
WriteBegin(s, p, lo, hi, pre) ==
  LET whole == hi - lo = 2
      t     == PrepareWriteBegin(s, p, whole /\ pre)
      from  == IF s.atomic /\ s.cow[p] # NULL_ADDR THEN s.cow[p]
               ELSE IF s.atomic /\ 2 * p >= s.size THEN NEW_ADDR ELSE s.addr[p]
      fresh == whole \/ (lo = 2 * p /\ hi >= s.size)
  IN  IF t.pg[p].up THEN t
      ELSE [t EXCEPT !.pg[p].up = TRUE,
                     !.pg[p].d  = IF fresh THEN Zero ELSE DiskData(t, from),
                     !.lost     = IF ~fresh /\ InFlight(t, from) THEN @ \cup {p} ELSE @]

(* f3fs_write_end: the page is dirtied and the file grows *)
WriteEnd(s, p, lo, hi, v) ==
  LET new(i) == IF 2 * p + i - 1 \in lo .. hi - 1 THEN v ELSE s.pg[p].d[i]
  IN  [Dirty(s, p, <<new(1), new(2)>>) EXCEPT
         !.size = Most(@, hi),
         !.want = Put(@, lo, hi, v),
         !.lost = IF hi - lo = 2 THEN @ \ {p} ELSE @]

(* f3fs_write_failed: nothing stays reserved past the file end *)
WriteFailed(s, to) ==
  IF to > s.size THEN TruncateBlocks(DropPages(s, s.size), s.size) ELSE s

(* one page of f3fs_buffered_write_iter *)
WritePage ==
  /\ op.pc = "page"
  /\ LET p  == op.i
         lo == Most(op.a, 2 * p)
         hi == Least(op.z, 2 * p + 2)
     IN \/ /\ fs' = WriteEnd(WriteBegin(fs, p, lo, hi, op.pre), p, lo, hi, op.v)
           /\ IF hi = op.z THEN Return ELSE op' = [op EXCEPT !.i = @ + 1]
           /\ UNCHANGED n
        \/ /\ ~fs.inline /\ Fault /\ Return
           /\ IF fs.atomic THEN fs.cow[p] = NULL_ADDR
              ELSE fs.addr[p] = NULL_ADDR
           /\ Written({q \in Pages : q >= PgDown(fs.size)})
           /\ fs' = WriteFailed(fs, op.z)
  /\ UNCHANGED <<gc, cp>>

DioBlockInPlace(s, p, v) ==
  IF IsData(s.addr[p]) THEN Submit(s, s.addr[p], <<v, v>>, "user")
  ELSE Outplace([s EXCEPT !.nblk = IF s.addr[p] = NULL_ADDR THEN @ + 1 ELSE @],
                p, <<v, v>>, "user")

(* __allocate_data_block: a hole, a reservation or, when log structured,   *)
(* any block of the range gets a new address, and the data is sent there   *)
DioBlock(s, p, v) ==
  IF ~s.lfs /\ IsData(s.addr[p]) THEN Submit(s, s.addr[p], <<v, v>>, "user")
  ELSE Outplace([s EXCEPT !.nblk = IF s.addr[p] = NULL_ADDR THEN @ + 1 ELSE @],
                p, <<v, v>>, "user")

(* f3fs_iomap_begin over the range of the write *)
DioMap(s, P, v) ==
  FoldLeft(LAMBDA t, p : IF p \in P THEN DioBlock(t, p, v) ELSE t, s, Steps(NP))

(* f3fs_dio_write_iter: cached pages written and dropped, then the I/O *)
DioSubmit ==
  /\ op.pc = "dio" /\ Clean(Span) /\ CanAlloc(fs, Cardinality(Span))
  /\ \A p \in Span : ~InFlight(fs, fs.addr[p])
  /\ fs' = DioMap(DropRange(fs, Span), Span, op.v)
  /\ Goto("dwait")
  /\ UNCHANGED <<gc, cp, n>>

(* iomap_dio_complete: clean pages read in meanwhile are dropped again *)
DioComplete ==
  /\ op.pc = "dwait" /\ \A p \in Span : ~InFlight(fs, fs.addr[p])
  /\ fs' = [DropRange(fs, {p \in Span : ~fs.pg[p].dirty /\ fs.pg[p].wb = 0}) EXCEPT
              !.size = Most(@, op.z), !.want = Put(@, op.a, op.z, op.v),
              !.lost = @ \ Span]
  /\ Return
  /\ UNCHANGED <<gc, cp, n>>

-------------------------------------------------------------------------------
(* Truncation and fallocate *)

(* f3fs_setattr, first half: i_size is written under the gc and the        *)
(* invalidate lock, then the cached pages are waited for                   *)
SetSize ==
  /\ op.pc = "setsize"
  /\ fs' = [fs EXCEPT !.size = op.a, !.want = Put(@, op.a, 2 * NP, 0)]
  /\ IF op.a <= fs.size THEN Goto("trunc") ELSE Return
  /\ UNCHANGED <<gc, cp, n>>

(* second half: truncate_pagecache and f3fs_truncate *)
Truncate ==
  /\ op.pc = "trunc" /\ Written({p \in Pages : p >= PgDown(op.a)})
  /\ fs' = [TruncateBlocks(DropPages(fs, op.a), op.a) EXCEPT
              !.lost = @ \ {p \in Pages : p >= PgUp(op.a)}]
  /\ Return
  /\ UNCHANGED <<gc, cp, n>>

(* the pages the range covers in part, f3fs_punch_hole and f3fs_zero_range *)
Edges(s, a, z) ==
  LET head == IF a % 2 = 1 THEN FillZero(s, PgDown(a), 1, 2) ELSE s
  IN  IF z % 2 = 1 THEN FillZero(head, PgDown(z), 0, 1) ELSE head

FillEdges ==
  /\ op.pc = "fill"
  /\ fs' = [Edges(fs, op.a, op.z) EXCEPT
              !.want = [u \in Units |-> IF op.a <= u /\ u < op.z /\ PgDown(u) \notin Whole
                                        THEN 0 ELSE @[u]]]
  /\ Goto("hole")
  /\ UNCHANGED <<gc, cp, n>>

ZeroBlocksKeepExtent(s, P) ==
  LET r == ReserveAll(s, P)
  IN  [r EXCEPT !.addr = [p \in Pages |-> IF p \in P THEN NEW_ADDR ELSE @[p]],
                !.sit  = @ \ {r.addr[p] : p \in P}]

(* f3fs_do_zero_range: every block of [a, z) becomes NEW_ADDR *)
ZeroBlocks(s, P) ==
  LET r == ReserveAll(s, P)
  IN  IF P = {} THEN s
      ELSE [r EXCEPT !.addr = [p \in Pages |-> IF p \in P THEN NEW_ADDR ELSE @[p]],
                     !.sit  = @ \ {r.addr[p] : p \in P},
                     !.et   = UpdateRange(@, PgUp(op.a), 0, Cardinality(P))]

(* f3fs_truncate_hole *)
TruncateHole(s) == TruncRange(s, PgUp(op.a), Most(PgUp(op.a), PgDown(op.z)))

(* the pages the range covers whole: their cached pages are dropped under  *)
(* the gc and invalidate locks and the blocks truncated or zeroed          *)
MakeHole ==
  /\ op.pc = "hole" /\ Written(Whole)
  /\ LET t == DropRange(fs, Whole)
         r == IF op.k = "punch" THEN TruncateHole(t) ELSE ZeroBlocks(t, Whole)
     IN  fs' = [r EXCEPT
           !.want = [u \in Units |-> IF PgDown(u) \in Whole THEN 0 ELSE @[u]],
           !.lost = @ \ Whole,
           !.size = IF op.k = "zero" /\ ~op.keep THEN Most(@, op.z) ELSE @]
  /\ Return
  /\ UNCHANGED <<gc, cp, n>>

(* a page dirtied after the write-back above is dropped unwritten *)
Discarded(s, P) == \E p \in P : s.pg[p].dirty

Slide(w, a, len) ==
  [u \in Units |-> IF u < a THEN w[u] ELSE IF u + len \in Units THEN w[u + len] ELSE 0]
Spread(w, a, len) ==
  [u \in Units |-> IF u < a THEN w[u] ELSE IF u < a + len THEN 0 ELSE w[u - len]]

(* f3fs_do_collapse: one critical section *)
Collapse ==
  /\ op.k = "collapse" /\ op.pc = "shift" /\ Written(Onward)
  /\ LET len == PgUp(fs.size) - PTo
         t   == DropPages([fs EXCEPT !.et = DropTree(@)], op.a)
         bad == Discarded(fs, Onward)
     IN  \/ \E r \in {Exchange(t, PTo, PFrom, len, TRUE, len)} :
                /\ fs' = IF r.ok
                         THEN [r.s EXCEPT !.want = Slide(@, op.a, op.z - op.a),
                                          !.lost = IF bad \/ @ # {} THEN Pages ELSE @]
                         ELSE [r.s EXCEPT !.lost = IF bad THEN Pages ELSE @]
                /\ IF r.ok THEN Goto("settle") ELSE Return
                /\ UNCHANGED n
         \/ /\ Fault /\ Return
            /\ \E k \in 0 .. len - 1 :
                 fs' = [Exchange(t, PTo, PFrom, len, TRUE, k).s EXCEPT !.lost = Pages]
  /\ UNCHANGED <<gc, cp>>

(* f3fs_insert_range: what lies past the file end is cut off first *)
CutTail ==
  /\ op.pc = "cut" /\ Written({p \in Pages : p = PgDown(fs.size)})
  /\ fs' = TruncateBlocks(fs, fs.size)
  /\ Goto("sync")
  /\ UNCHANGED <<gc, cp, n>>

(* the cached pages are dropped, and the gc and invalidate locks held *)
InsertBegin ==
  /\ op.k = "insert" /\ op.pc = "shift" /\ Written(Onward)
  /\ fs' = [DropPages(fs, op.a) EXCEPT
              !.lost = IF Discarded(fs, Onward) \/ @ # {} THEN Pages ELSE @]
  /\ op' = [op EXCEPT !.pc = "chunk", !.i = PgUp(fs.size), !.v = fs.size]
  /\ UNCHANGED <<gc, cp, n>>

(* one chunk, from the end of the file backwards, inside f3fs_lock_op *)
InsertChunk ==
  /\ op.pc = "chunk"
  /\ LET delta == PTo - PFrom
         k     == Least(delta, op.i - PFrom)
         src   == op.i - k
         t     == [fs EXCEPT !.et = DropTree(@)]
         last  == src = PFrom
     IN  \/ \E r \in {Exchange(t, src, src + delta, k, FALSE, k)} :
                /\ fs' = IF ~r.ok THEN [r.s EXCEPT !.lost = Pages]
                         ELSE [r.s EXCEPT
                           !.want = IF last THEN Spread(@, op.a, op.z - op.a) ELSE @,
                           !.lost = IF @ # {} THEN Pages ELSE @]
                /\ op' = [op EXCEPT !.pc = IF ~r.ok \/ last THEN "settle" ELSE @,
                                    !.i = src, !.pre = r.ok]
                /\ UNCHANGED n
         \/ /\ Fault
            /\ fs' = [Exchange(t, src, src + delta, k, FALSE, 0).s EXCEPT !.lost = Pages]
            /\ op' = [op EXCEPT !.pc = "settle", !.pre = FALSE]
  /\ UNCHANGED <<gc, cp>>

(* the end of collapse and of insert: the moved pages are written out and  *)
(* the cache dropped in one section of the invalidate lock                 *)
Settle ==
  /\ op.pc = "settle" /\ Clean(Onward)
  /\ LET t   == DropPages(fs, op.a)
         end == fs.size - (op.z - op.a)
     IN  fs' = IF op.k = "collapse"
               THEN [TruncateBlocks(t, end) EXCEPT !.size = end, !.want = Put(@, end, 2 * NP, 0)]
               ELSE IF op.pre THEN [t EXCEPT !.size = op.v + op.z - op.a]
               ELSE t
  /\ Return
  /\ UNCHANGED <<gc, cp, n>>

-------------------------------------------------------------------------------
(* Atomic writes, range moves, defragmentation *)

(* f3fs_ioc_start_atomic_write, after the write-back *)
AtomicStart ==
  /\ op.k = "start" /\ op.pc = "end"
  /\ fs' = [fs EXCEPT !.atomic = TRUE, !.saved = [want |-> fs.want, lost |-> fs.lost]]
  /\ Return
  /\ UNCHANGED <<gc, cp, n>>

(* the COW inode goes away with whatever it still holds *)
DropCow(s) ==
  [s EXCEPT !.atomic = FALSE, !.cowblk = 0, !.cow = [p \in Pages |-> NULL_ADDR],
            !.sit = @ \ {s.cow[p] : p \in Pages},
            !.saved = [want |-> [u \in Units |-> 0], lost |-> {}]]

CommitBlockKeepsOld(s, p) ==
  [SetAddr(s, p, s.cow[p]) EXCEPT !.nblk = IF s.addr[p] = NULL_ADDR THEN @ + 1 ELSE @,
                                  !.cowblk = @ - 1, !.cow[p] = NULL_ADDR]

(* __replace_atomic_write_block forward: the COW block becomes the file's *)
CommitBlock(s, p) ==
  LET t == TruncRange(s, p, p + 1)
  IN  [ReplaceBlock(t, p, s.cow[p]) EXCEPT !.nblk = @ + 1, !.cowblk = @ - 1,
                                           !.cow[p] = NULL_ADDR]

(* and backward: f3fs_do_replace_block leaves the segment table alone, so  *)
(* the old block comes back unmarked and the new one stays marked          *)
RevokeBlock(s, p, old) ==
  IF IsData(old) THEN [ReplaceBlock(s, p, old) EXCEPT !.revoked = @ \cup {old, s.addr[p]}]
  ELSE [SetAddr(s, p, old) EXCEPT !.sit = @ \ {s.addr[p]},
                                  !.nblk = IF old = NULL_ADDR THEN @ - 1 ELSE @]

(* __f3fs_commit_atomic_write; a failure takes the blocks already moved    *)
(* back out of the file, and the file stays in its atomic state            *)
AtomicCommit ==
  /\ op.k = "commit" /\ op.pc = "end"
  /\ LET P == {p \in Pages : p < PgUp(fs.size) /\ IsData(fs.cow[p])}
         move(Q) == FoldLeft(LAMBDA t, p : IF p \in Q THEN CommitBlock(t, p) ELSE t,
                             fs, Steps(NP))
     IN \/ fs' = DropCow(move(P)) /\ UNCHANGED n
        \/ /\ Fault
           /\ \E k \in P :
                LET Q == {p \in P : p < k}
                IN  fs' = [FoldLeft(LAMBDA t, p : IF p \in Q THEN RevokeBlock(t, p, fs.addr[p])
                                                  ELSE t, move(Q), Steps(NP)) EXCEPT
                             !.lost = @ \cup Q]
  /\ Return
  /\ UNCHANGED <<gc, cp>>

(* f3fs_abort_atomic_write(clean): the cached pages are dropped *)
AtomicAbort ==
  /\ op.k = "abort" /\ op.pc = "end" /\ Written(Pages)
  /\ fs' = [DropCow(DropPages(fs, 0)) EXCEPT !.want = fs.saved.want, !.lost = fs.saved.lost]
  /\ Return
  /\ UNCHANGED <<gc, cp, n>>

(* f3fs_move_file_range inside one file: holes of the source leave the     *)
(* target as it was, and cached pages are not dropped                      *)
MoveRange ==
  /\ op.k = "move" /\ op.pc = "end"
  /\ LET len == PTo - PFrom
         dst == PgDown(op.to)
         mv  == {i \in 0 .. len - 1 : fs.addr[PFrom + i] # NULL_ADDR}
         swap(i) == ~fs.lfs /\ IsData(fs.addr[PFrom + i]) /\ fs.addr[PFrom + i] \notin fs.ckpt
         new(u) == IF PgDown(u) - dst \in mv THEN fs.want[u - 2 * (dst - PFrom)]
                   ELSE IF PgDown(u) - PFrom \in mv THEN 0 ELSE fs.want[u]
     IN \/ /\ \E r \in {Exchange(fs, PFrom, dst, len, FALSE, len)} :
                fs' = IF ~r.ok THEN r.s
                     ELSE [r.s EXCEPT
                        !.size = Most(fs.size, op.to + Least(op.z, fs.size) - op.a),
                        !.want = [u \in Units |-> new(u)],
                        !.lost = (@ \ {dst + i : i \in mv})
                                 \cup {PFrom + i : i \in {j \in mv : r.s.pg[PFrom + j].up}}
                                 \cup {dst + i : i \in {j \in mv : (swap(j) /\ (fs.pg[dst + j].up \/ fs.pg[PFrom + j].dirty))
                                                               \/ PFrom + j \in @}}]
           /\ UNCHANGED n
        \/ /\ Fault
           /\ \E k \in 0 .. len - 1 :
                fs' = [Exchange(fs, PFrom, dst, len, FALSE, k).s EXCEPT !.lost = Pages]
  /\ Return
  /\ UNCHANGED <<gc, cp>>

(* f3fs_defragment_range: unless the blocks are contiguous already, every  *)
(* mapped page is dirtied while FI_SKIP_WRITES holds write-back off, so    *)
(* that they are written to the log in one go                              *)
Contiguous(P) ==
  \A p, q \in P : (IsData(fs.addr[p]) /\ IsData(fs.addr[q])
                    /\ p < q /\ \A r \in P : p < r /\ r < q => ~IsData(fs.addr[r]))
                   => fs.addr[q] = fs.addr[p] + 1

Defragment ==
  /\ op.k = "defrag" /\ op.pc = "end"
  /\ LET P == {p \in Span : IsData(fs.addr[p])}
         mark(t, p) == IF p \notin P THEN t
                       ELSE [Dirty(LoadPage(t, p), p, LoadPage(t, p).pg[p].d) EXCEPT
                               !.pg[p].gcing = TRUE]
     IN  fs' = IF Contiguous(P) THEN fs ELSE FoldLeft(mark, fs, Steps(NP))
  /\ Return
  /\ UNCHANGED <<gc, cp, n>>

-------------------------------------------------------------------------------
(* Everything that runs beside the calls *)

InvalidateLocked == op.pc \in {"trunc", "chunk"}
GcLocked == op.pc \in {"trunc", "chunk", "dwait"} \/ (op.k = "start" /\ op.pc = "sync")

(* filemap_read and filemap_fault bring a page in *)
ReadPage(p) ==
  /\ ~fs.pg[p].up /\ 2 * p < fs.size /\ ~InvalidateLocked
  /\ fs' = LoadPage(fs, p)
  /\ UNCHANGED <<op, gc, cp, n>>

(* collapse and insert leave cached pages whose block they have moved away *)
(* until their last step; dirtied before that, one brings old data back    *)
LeftOver(s, p) ==
  /\ op.pc = "settle" /\ s.pg[p].up /\ ~s.pg[p].dirty /\ s.pg[p].wb = 0
  /\ s.pg[p].d # IF IsData(s.addr[p]) THEN BlockData(s, s.addr[p]) ELSE Zero

(* f3fs_vm_page_mkwrite and the store behind it.  No program stores to a   *)
(* page it is writing directly, or to a file it is writing atomically.     *)
StorePage(s, p, v) ==
  LET r == IF s.inline THEN Convert(s) ELSE s
      t == NewPage(r, p)
      d == IF s.size = 2 * p + 1 THEN Wipe(t.pg[p].d, 1, 2) ELSE t.pg[p].d
  IN  [Dirty(t, p, [d EXCEPT ![1] = v]) EXCEPT
         !.want[2 * p] = v,
         !.lost = IF LeftOver(s, p) THEN @ \cup {p} ELSE @]

MmapStore(p) ==
  /\ Event /\ 2 * p < fs.size
  /\ ~InvalidateLocked /\ ~fs.atomic /\ op.k # "start"
  /\ ~(op.pc = "dwait" /\ p \in Span)
  /\ fs.inline => Written({0}) /\ CanAlloc(fs, 1)
  /\ fs' = StorePage(fs, p, MaxCalls + 1 + n.events)
  /\ UNCHANGED <<op, gc, cp>>

WriteDataPageToFile(s, p, inplace) ==
  LET b == LogHead(s)
  IN  IF s.addr[p] = NULL_ADDR THEN [s EXCEPT !.pg[p] = NoPage]
      ELSE [Submit(SetAddr(Take(s, s.addr[p]), p, b), b, s.pg[p].d, "user") EXCEPT
              !.pg[p].dirty = FALSE, !.pg[p].wb = b]

(* f3fs_do_write_data_page for page p of the file *)
WriteDataPage(s, p, inplace) ==
  LET c    == s.pg[p]
      a    == IF s.atomic THEN s.cow[p] ELSE s.addr[p]
      sent(t, b) == [Submit(t, b, c.d, "user") EXCEPT !.pg[p].dirty = FALSE, !.pg[p].wb = b]
      b    == LogHead(s)
  IN  IF a = NULL_ADDR THEN [s EXCEPT !.pg[p] = NoPage]
      ELSE IF inplace THEN sent(s, a)
      ELSE IF s.atomic THEN sent([Take(s, a) EXCEPT !.cow[p] = b], b)
      ELSE sent(SetAddr(Take(s, a), p, b), b)

(* f3fs_should_update_inplace and _outplace: never on a log structured     *)
(* volume, for an atomic write or for a page the cleaner moves; otherwise  *)
(* a matter of policy                                                      *)
MayInplace(s, p) ==
  /\ ~s.lfs /\ ~s.atomic /\ ~s.pg[p].gcing
  /\ IsData(s.addr[p]) /\ ~InFlight(s, s.addr[p])

(* the pages f3fs_write_cache_pages takes: dirty, and not being written *)
ToWrite(s, p) == s.pg[p].dirty /\ s.pg[p].wb = 0

(* f3fs_write_single_data_page: nothing past the file end is written, the  *)
(* tail of its last page goes out as zeros, inline data goes to the inode. *)
Writeback(p) ==
  LET s == IF fs.size = 2 * p + 1 THEN [fs EXCEPT !.pg[p].d = Wipe(@, 1, 2)] ELSE fs
  IN  /\ ToWrite(fs, p)
      /\ \/ 2 * p >= fs.size /\ fs' = [fs EXCEPT !.pg[p].dirty = FALSE]
         \/ /\ 2 * p < fs.size /\ fs.inline
            /\ fs' = [s EXCEPT !.pg[p].dirty = FALSE, !.idata = s.pg[0].d[1], !.exist = TRUE]
         \/ /\ 2 * p < fs.size /\ ~fs.inline /\ CanAlloc(fs, 1)
            /\ \E inplace \in BOOLEAN :
                 /\ inplace => MayInplace(fs, p)
                 /\ fs' = WriteDataPage(s, p, inplace)
      /\ UNCHANGED <<op, gc, cp, n>>

(* f3fs_write_end_io *)
IoDone(b) ==
  /\ InFlight(fs, b)
  /\ fs' = [fs EXCEPT
       !.media[b] = fs.pend[b].d, !.pend[b] = Settled,
       !.pg = [p \in Pages |-> IF @[p].wb = b THEN [@[p] EXCEPT !.wb = 0, !.gcing = FALSE]
                               ELSE @[p]]]
  /\ UNCHANGED <<op, gc, cp, n>>

Reclaim(p) ==
  /\ fs.pg[p].up /\ ~fs.pg[p].dirty /\ fs.pg[p].wb = 0
  /\ fs' = [fs EXCEPT !.pg[p] = NoPage]
  /\ UNCHANGED <<op, gc, cp, n>>

ShrinkExtent ==
  /\ Event /\ \E e \in fs.et.nodes : fs' = [fs EXCEPT !.et = ShrinkNode(@, e)]
  /\ UNCHANGED <<op, gc, cp>>

(* f3fs_precache_extents: the run of blocks that starts at p *)
RunAt(s, p) ==
  CHOOSE k \in 1 .. NP - p :
    /\ \A i \in 0 .. k - 1 : s.addr[p + i] = s.addr[p] + i
    /\ p + k < NP => s.addr[p + k] # s.addr[p] + k

Precache(p) ==
  /\ Event /\ IsData(fs.addr[p]) /\ ~fs.et.off /\ ~GcLocked
  /\ fs' = [fs EXCEPT !.et = UpdateRange(@, p, fs.addr[p], RunAt(fs, p))]
  /\ fs' # fs
  /\ UNCHANGED <<op, gc, cp>>

-------------------------------------------------------------------------------
(* Cleaning: gc_data_segment, phases 3 and 4, for one block *)

Held(s) == {s.addr[p] : p \in Pages} \cup {s.cow[p] : p \in Pages}

(* f3fs_get_read_data_page_without_cache: the block as the device has it *)
Copy(s, b) == s.media[b]

(* Phase 3: the owner is found alive and its page range locked for a       *)
(* moment.  The block is read into a private buffer, or into the cache     *)
(* when no buffer can be had.                                              *)
GcRead(b) ==
  /\ gc.b = 0 /\ Event /\ ~GcLocked
  /\ b \in fs.sit /\ SegOf(b) \notin fs.free
  /\ fs.next # 0 => SegOf(b) # SegOf(fs.next)
  /\ \E p \in Pages, cow \in BOOLEAN, raw \in BOOLEAN :
       /\ b = IF cow THEN fs.cow[p] ELSE fs.addr[p]
       /\ cow => raw
       /\ gc' = [b |-> b, p |-> p, cow |-> cow, raw |-> raw,
                 d |-> IF raw THEN Copy(fs, b) ELSE Zero]
       /\ fs' = IF raw THEN fs ELSE LoadPage(fs, p)
  /\ UNCHANGED <<op, cp>>

(* is_alive: the owner's node still names the block *)
Alive(s, g) == g.b = IF g.cow THEN s.cow[g.p] ELSE s.addr[g.p]

(* f3fs_do_write_data_page2: the private copy goes to the head of the log; *)
(* in a file being written atomically the COW node is consulted and never  *)
(* matches a block of the file itself                                      *)
MoveRaw(s, g) ==
  LET b == LogHead(s)
      t == IF g.cow THEN Submit([Take(s, g.b) EXCEPT !.cow[g.p] = b], b, g.d, "gc")
           ELSE Outplace(s, g.p, g.d, "gc")
  IN  IF s.atomic /\ ~g.cow THEN s
      ELSE [t EXCEPT !.lost = IF g.d # BlockData(s, g.b) THEN @ \cup {g.p} ELSE @]

(* move_data_page: background cleaning dirties the cached page, foreground *)
(* cleaning writes it                                                      *)
MoveCached(s, g, fg) ==
  LET t == LoadPage(s, g.p)
      u == [Dirty(t, g.p, t.pg[g.p].d) EXCEPT
              !.pg[g.p].gcing = TRUE,
              !.lost = IF LeftOver(s, g.p) THEN @ \cup {g.p} ELSE @]
  IN  IF fg THEN WriteDataPage(u, g.p, FALSE) ELSE u

(* Phase 4: the owner is looked up again, both page ranges try-locked;     *)
(* a failure leaves the block where it is                                  *)
GcMove ==
  /\ gc.b # 0
  /\ \/ (GcLocked \/ ~Alive(fs, gc)) /\ UNCHANGED fs
     \/ /\ ~GcLocked /\ Alive(fs, gc) /\ gc.b \in fs.sit /\ CanAlloc(fs, 1)
        /\ IF gc.raw THEN fs' = MoveRaw(fs, gc)
           ELSE \E fg \in BOOLEAN : fs.pg[gc.p].wb = 0 /\ fs' = MoveCached(fs, gc, fg)
  /\ gc' = NoMove
  /\ UNCHANGED <<op, cp, n>>

(* f3fs_write_checkpoint: waits for the F3FS_WB_CP_DATA pages, that is for *)
(* cached pages under GC write-back; frees the segments with no block left *)
CkptWaits(s) == \E p \in Pages : s.pg[p].gcing /\ s.pg[p].wb # 0

Checkpoint ==
  /\ Event /\ ~CkptWaits(fs)
  /\ cp' = [addr |-> fs.addr,
            d |-> [p \in Pages |-> IF IsData(fs.addr[p]) THEN BlockData(fs, fs.addr[p]) ELSE Zero],
            gcing |-> {p \in Pages : fs.pg[p].gcing /\ fs.pg[p].wb # 0}]
  /\ fs' = [fs EXCEPT !.ckpt = fs.sit,
             !.free = {g \in 0 .. NSegs - 1 :
                         /\ \A b \in fs.sit : SegOf(b) # g
                         /\ fs.next # 0 => SegOf(fs.next) # g}]
  /\ UNCHANGED <<op, gc>>

-------------------------------------------------------------------------------
Init ==
  /\ \E im \in Images, lfs \in BOOLEAN :
       LET sit == {im.addr[p] : p \in Pages} \cap Blocks
       IN  fs = [lfs |-> lfs, size |-> im.size, inline |-> im.inline, idata |-> im.idata,
                 exist |-> im.inline /\ im.size > 0,
                 addr |-> im.addr,
                 nblk |-> Cardinality({p \in Pages : im.addr[p] # NULL_ADDR}),
                 atomic |-> im.atomic, cow |-> [p \in Pages |-> NULL_ADDR], cowblk |-> 0,
                 et |-> InitTree(im.ext), pg |-> [p \in Pages |-> NoPage],
                 sit |-> sit, ckpt |-> sit,
                 free |-> {g \in 0 .. NSegs - 1 : g > SegOf(im.next)}, next |-> im.next,
                 media |-> [b \in Blocks |-> im.media[b]],
                 pend |-> [b \in Blocks |-> Settled],
                 want |-> im.want, lost |-> {}, revoked |-> {},
                 saved |-> [want |-> IF im.atomic THEN im.want ELSE [u \in Units |-> 0],
                            lost |-> {}]]
  /\ cp = [addr |-> fs.addr, gcing |-> {},
           d |-> [p \in Pages |-> IF IsData(fs.addr[p]) THEN fs.media[fs.addr[p]] ELSE Zero]]
  /\ op = Idle /\ gc = NoMove
  /\ n = [calls |-> 0, events |-> 0]

Call ==
  \/ \E c \in Calls : Begin(c)
  \/ ConvertInline \/ SyncRange \/ Preallocate \/ Expand \/ WritePage
  \/ DioSubmit \/ DioComplete \/ SetSize \/ Truncate \/ FillEdges \/ MakeHole
  \/ Collapse \/ CutTail \/ InsertBegin \/ InsertChunk \/ Settle
  \/ AtomicStart \/ AtomicCommit \/ AtomicAbort \/ MoveRange \/ Defragment

Background ==
  \/ \E p \in Pages : ReadPage(p) \/ MmapStore(p) \/ Writeback(p) \/ Reclaim(p) \/ Precache(p)
  \/ \E b \in Blocks : IoDone(b) \/ GcRead(b)
  \/ ShrinkExtent \/ GcMove \/ Checkpoint

Next == Call \/ Background

Spec == Init /\ [][Next]_vars

-------------------------------------------------------------------------------
(* Properties *)

(* The state has its shape: addresses are holes, reservations or blocks of *)
(* the main area, an inline file has no block, only an uptodate page is    *)
(* dirty.                                                                  *)
TypeOK ==
  /\ fs.size \in 0 .. 2 * NP /\ fs.inline \in BOOLEAN /\ fs.atomic \in BOOLEAN
  /\ fs.addr \in [Pages -> Blocks \cup {NULL_ADDR, NEW_ADDR}]
  /\ fs.cow \in [Pages -> Blocks \cup {NULL_ADDR, NEW_ADDR}]
  /\ fs.sit \subseteq Blocks /\ fs.free \subseteq 0 .. NSegs - 1
  /\ fs.inline => \A p \in Pages : fs.addr[p] = NULL_ADDR
  /\ \A p \in Pages : fs.pg[p].dirty => fs.pg[p].up

(* what a reader of unit u gets, now or after its page is evicted *)
Seen(u) ==
  LET p == PgDown(u)
      a == fs.addr[p]
      d == IF fs.pg[p].up THEN fs.pg[p].d
           ELSE IF fs.inline THEN <<fs.idata, 0>>
           ELSE IF IsData(a) THEN BlockData(fs, a) ELSE Zero
  IN  d[(u % 2) + 1]

(* Between calls the file reads as the completed calls promise, whatever   *)
(* write-back, reclaim, the cleaner, checkpoints and conversions out of    *)
(* the inode have done to its pages and blocks in the meantime (f3fs       *)
(* data.c, file.c, gc.c:1717); only pages hit by one of the races that     *)
(* `lost' and `revoked' name are excepted.                                 *)
ContentKept ==
  op.k = "none" /\ ~fs.atomic =>
    \A u \in 0 .. fs.size - 1 :
      PgDown(u) \in fs.lost \/ fs.addr[PgDown(u)] \in fs.revoked \/ Seen(u) = fs.want[u]

(* While an atomic write is open, and through a commit that fails, the     *)
(* file's own blocks hold the contents from before it: a crash or an abort *)
(* gives those back (data.c:3012, segment.c:274).                          *)
AtomicIsolated ==
  fs.atomic => \A u \in Units :
    LET p == PgDown(u)
        a == fs.addr[p]
    IN  \/ p \in fs.saved.lost \/ a \in fs.revoked
        \/ (IF IsData(a) THEN BlockData(fs, a) ELSE Zero)[(u % 2) + 1] = fs.saved.want[u]

(* The extent cache never gives an address the node does not have, through *)
(* every move, split, merge and truncation (extent_cache.c:530).           *)
ExtentsAgree ==
  /\ \A p \in Pages : Lookup(fs.et, p) \in {0, fs.addr[p]}
  /\ \A e, f \in fs.et.nodes : e = f \/ End(e) <= f.fofs \/ End(f) <= e.fofs

(* i_blocks of the file and of its COW inode count the addresses that are  *)
(* not holes, and the valid blocks are the ones the two name, each named   *)
(* once: nothing leaks and nothing is shared, also after a call that       *)
(* failed half way (file.c:1184, segment.c:274), unless a failed atomic    *)
(* commit was revoked (segment.c:3650).                                    *)
SpaceMatchesFile ==
  /\ TypeOK
  /\ fs.nblk = Cardinality({p \in Pages : fs.addr[p] # NULL_ADDR})
  /\ fs.cowblk = Cardinality({p \in Pages : fs.cow[p] # NULL_ADDR})
  /\ fs.revoked = {} =>
       /\ fs.sit = Held(fs) \cap Blocks
       /\ \A p, q \in Pages : IsData(fs.addr[p]) /\ fs.addr[p] = fs.addr[q] => p = q
       /\ \A p, q \in Pages : IsData(fs.cow[p]) => fs.cow[p] # fs.addr[q]

(* On a log structured volume the blocks of the last checkpoint keep their *)
(* data until the next one, so that a crash falls back on it.  On any      *)
(* volume a checkpoint never records the new address of a cached page that *)
(* the cleaner is still writing there (data.c:53, checkpoint.c:1560).      *)
CheckpointIntact ==
  /\ fs.lfs => \A p \in Pages : LET b == cp.addr[p] IN
       IsData(b) /\ b \notin fs.revoked => BlockData(fs, b) = cp.d[p]
  /\ cp.gcing = {}
===============================================================================
