---------------------------- MODULE MCRangeLock -----------------------------
(* RangeLock with small lists. *)
EXTENDS RangeLock, TLC

down_read3 == [start |-> 0, end |-> MAX_SIZE, writer |-> FALSE, try |-> FALSE]
down_write3 == [down_read3 EXCEPT !.writer = TRUE]
write_range_trylock3(page) == [start |-> page, end |-> page + 1, writer |-> TRUE, try |-> TRUE]

MCRequests == {down_read3, down_write3, write_range_trylock3(0), write_range_trylock3(1)}

TaskSymmetry == Permutations(Tasks)
=============================================================================
