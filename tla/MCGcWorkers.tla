----------------------------- MODULE MCGcWorkers -----------------------------
(* Two workers over five segments of two blocks. *)
EXTENDS GcWorkers

MCArea(valid, cur, room, free, dirty, user) ==
  [valid  |-> valid, cur |-> cur, room |-> room, dirty |-> dirty, pre |-> {}, free |-> free,
   bits   |-> {}, pinned |-> {}, pin |-> TRUE, main |-> 5, user |-> user, victim |-> 0]

MCAreas == {MCArea(<<1, 1, 2, 0, 0>>, 5, 2, {4}, {1, 2}, 6),         \* short of free sections
            MCArea(<<1, 0, 0, 0, 1>>, 5, 1, {2, 3, 4}, {1}, 5)}

MCAge == [s \in 1 .. 5 |-> IF s = 2 THEN 2 ELSE 1]

MCModes == {[mode |-> "normal", limited |-> FALSE, left |-> 0],
            [mode |-> "urgent", limited |-> TRUE, left |-> 0]}

MCRequests ==
  {[k |-> "balance", sync |-> FALSE, from |-> 0, to |-> 0],
   [k |-> "gc", sync |-> TRUE, from |-> 0, to |-> 0],
   [k |-> "gc", sync |-> FALSE, from |-> 0, to |-> 0],
   [k |-> "range", sync |-> TRUE, from |-> 1, to |-> 2],
   [k |-> "flush", sync |-> FALSE, from |-> 1, to |-> 2],
   [k |-> "resize"]}
===============================================================================
