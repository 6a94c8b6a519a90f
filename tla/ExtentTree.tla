------------------------------ MODULE ExtentTree ------------------------------
(***************************************************************************)
(* The extent tree of one inode (extent_cache.c): the rb-tree nodes, the   *)
(* largest extent kept beside it, and the FI_NO_EXTENT flag.  An extent    *)
(* [fofs, blk, len] says that file block fofs + i lies at blk + i.  The    *)
(* operators are the whole critical sections under et->lock; the lru list  *)
(* and the hit statistics are left out.                                    *)
(***************************************************************************)
EXTENDS Integers, FiniteSets, FiniteSetsExt

CONSTANT MIN_EXTENT_LEN        \* F3FS_MIN_EXTENT_LEN

NoExtent == [fofs |-> 0, blk |-> 0, len |-> 0]

End(e) == e.fofs + e.len

Covers(e, p) == e.fofs <= p /\ p < End(e)

(* f3fs_lookup_extent_tree: largest first, then the tree; 0 is a miss *)
Lookup(t, p) ==
  LET found == {e \in t.nodes : Covers(e, p)}
      at(e) == e.blk + (p - e.fofs)
  IN  IF t.off THEN 0
      ELSE IF Covers(t.largest, p) THEN at(t.largest)
      ELSE IF found # {} THEN at(CHOOSE e \in found : TRUE)
      ELSE 0

(* __try_update_largest_extent, for the nodes a call has touched *)
Largest(l, S) ==
  LET longer == {e \in S : e.len > l.len}
  IN  IF longer = {} THEN l
      ELSE CHOOSE e \in longer : \A o \in longer : o.len < e.len
                                   \/ (o.len = e.len /\ e.fofs <= o.fofs)

(* what __f3fs_update_extent_tree_range keeps of a node it cuts [a, z) from *)
Parts(e, a, z) ==
  {x \in {[e EXCEPT !.len = a - e.fofs],
          [fofs |-> z, blk |-> e.blk + (z - e.fofs), len |-> End(e) - z]} :
     x.len > 0 /\ x.len >= MIN_EXTENT_LEN}

(* __drop_largest_extent *)
DropLargest(l, a, z) == IF l.fofs < z /\ a < End(l) THEN NoExtent ELSE l

(* the one extent that adjacent extents make *)
Merged(S) ==
  LET first == CHOOSE x \in S : \A y \in S : x.fofs <= y.fofs
  IN  [first EXCEPT !.len = FoldSet(LAMBDA x, n : x.len + n, 0, S)]

(* __try_merge_extent_node, or __insert_extent_tree when nothing merges *)
Insert(nodes, e) ==
  Merged({e} \cup {b \in nodes : End(b) = e.fofs /\ b.blk + b.len = e.blk}
           \cup {f \in nodes : End(e) = f.fofs /\ e.blk + e.len = f.blk})

(* the end of f3fs_update_extent_tree_range: the new node joins the rest,  *)
(* and small scattered updates turn the cache off                          *)
Join(t, hit, kept, new, top) ==
  IF hit # {} /\ t.largest.len < MIN_EXTENT_LEN /\ top.len < MIN_EXTENT_LEN
  THEN [nodes |-> {}, largest |-> NoExtent, off |-> TRUE]
  ELSE [t EXCEPT !.nodes = {e \in kept : ~(new.fofs <= e.fofs /\ End(e) <= End(new))}
                             \cup {new},
                 !.largest = top]

(* its middle: the nodes that are cut have left, an address brings a node *)
Cut(t, hit, kept, most, new) ==
  IF new.blk = 0 THEN [t EXCEPT !.nodes = kept, !.largest = most]
  ELSE Join(t, hit, kept, new, Largest(most, {new}))

(* f3fs_update_extent_tree_range: file blocks [a, a+len) now lie at blk,   *)
(* or nowhere when blk is 0                                                *)
UpdateRange(t, a, blk, len) ==
  LET z     == a + len
      hit   == {e \in t.nodes : e.fofs < z /\ a < End(e)}
      parts == UNION {Parts(e, a, z) : e \in hit}
      kept  == (t.nodes \ hit) \cup parts
  IN  IF t.off THEN t
      ELSE Cut(t, hit, kept, Largest(DropLargest(t.largest, a, z), parts),
               IF blk = 0 THEN NoExtent
               ELSE Insert(kept, [fofs |-> a, blk |-> blk, len |-> len]))

(* f3fs_drop_extent_tree: FI_NO_EXTENT, and every extent forgotten *)
DropTree(t) == [nodes |-> {}, largest |-> NoExtent, off |-> TRUE]

(* one node taken by the shrinker, f3fs_shrink_extent_tree *)
ShrinkNode(t, e) == [t EXCEPT !.nodes = @ \ {e}]

(* f3fs_init_extent_tree: the tree starts from the extent in the inode *)
InitTree(e) ==
  [nodes |-> IF e.len = 0 THEN {} ELSE {e}, largest |-> e, off |-> FALSE]
===============================================================================
