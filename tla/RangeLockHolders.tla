-------------------------- MODULE RangeLockHolders --------------------------
(***************************************************************************)
(* What the range lock of lockfree_list.c promises its callers: which      *)
(* requests are never held together.                                       *)
(***************************************************************************)
CONSTANTS Tasks,
          MAX_SIZE,   \* end of a request for the whole file
          Requests,   \* what the callers ask for
          Null        \* no request

VARIABLE held         \* the request every task holds

whole(r) == r.end = MAX_SIZE

\* The ranges overlap and one of the two is for writing.
Conflict(r, q) ==
  /\ r.writer \/ q.writer
  /\ whole(r) \/ whole(q) \/ r.start = q.start

\* The conflicts the lock keeps apart.  A node for one page ends at 1 wherever
\* it starts, so two locks of the same page meet only on page 0.
Excluded(r, q) ==
  /\ Conflict(r, q)
  /\ whole(r) \/ whole(q) \/ r.start = 0

Init == held = [t \in Tasks |-> Null]

\* Task t comes to hold a request that no held one must be kept apart from.
Acquire(t) ==
  /\ held[t] = Null /\ held'[t] \in Requests
  /\ \A u \in Tasks : held[u] # Null => ~Excluded(held'[t], held[u])
  /\ held' = [held EXCEPT ![t] = held'[t]]

Release(t) ==
  /\ held[t] # Null
  /\ held' = [held EXCEPT ![t] = Null]

Next == \E t \in Tasks : Acquire(t) \/ Release(t)

Spec == Init /\ [][Next]_held
=============================================================================
