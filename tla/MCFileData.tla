---------------------------- MODULE MCFileData ----------------------------
EXTENDS FileData

C(k, a, z) == [k |-> k, a |-> a, z |-> z, to |-> 0, keep |-> FALSE]

(* ranges that start and end inside, at and past page and file boundaries *)
MCCalls ==
  {C("write", 1, 4), C("write", 0, 1), C("dio", 0, 2), C("truncate", 1, 1),
   C("punch", 1, 4), C("zero", 0, 3), C("collapse", 0, 2), C("insert", 2, 4), C("expand", 0, 4),
   [C("expand", 2, 6) EXCEPT !.keep = TRUE],
   C("start", 0, 0), C("commit", 0, 0), C("abort", 0, 0),
   [C("move", 0, 2) EXCEPT !.to = 2], C("defrag", 0, 4)}

(* the image occupies the first segment; the log continues in the second *)
Media == [b \in Blocks |-> IF b <= 2 THEN <<10 + 2*b - 1, 10 + 2 * b>> ELSE Zero]
Addr(f) == [p \in Pages |-> IF p + 1 \in DOMAIN f THEN f[p + 1] ELSE 0]
Want(f) == [u \in Units |-> IF u + 1 \in DOMAIN f THEN f[u + 1] ELSE 0]

(* two mapped pages; inline data; an atomic write already started on a file *)
(* whose first page is a hole                                               *)
Image(size, addr, want, ext) ==
  [size |-> size, inline |-> addr = <<>>, idata |-> IF addr = <<>> THEN want[1] ELSE 0,
   addr |-> Addr(addr), next |-> 3, media |-> Media, want |-> Want(want), ext |-> ext,
   atomic |-> FALSE]

MCImages ==
  { Image(4, <<1, 2>>, <<11, 12, 13, 14>>, [fofs |-> 0, blk |-> 1, len |-> 2]),
    Image(1, <<>>, <<11>>, NoExtent),
    [Image(4, <<0, 2>>, <<0, 0, 13, 14>>, [fofs |-> 1, blk |-> 2, len |-> 1])
       EXCEPT !.atomic = TRUE] }
=============================================================================
