----------------------------- MODULE RangeLock ------------------------------
(***************************************************************************)
(* The range lock behind i_gc_rwsem: for every bucket a lock-free list of  *)
(* the ranges held.  A lock is taken by inserting a node with compare-and- *)
(* swap and given up by marking the node's next pointer; a marked node is  *)
(* unlinked by whoever meets it and freed after an RCU grace period.       *)
(* src/f2fs/lockfree_list.c, with HASH_MODE.                               *)
(*                                                                         *)
(* Every step reads or swaps one shared pointer and does the local work    *)
(* that follows.  A request is for the whole file, which takes a node in   *)
(* every bucket in turn, or for one page (the garbage collector), which    *)
(* takes a node in the page's bucket.                                      *)
(***************************************************************************)
EXTENDS Integers, FiniteSets

CONSTANTS Tasks,
          BUCKET_CNT,   \* number of lists
          MAX_SIZE,     \* end of a request for the whole file
          Requests,     \* what the callers ask for
          PoolSize,     \* bound: nodes of one task that are not freed
          MaxNodes,     \* bound: nodes of all tasks that are not freed
          Null,         \* the null pointer
          Head          \* the place of the first pointer of a list

Buckets == 0 .. BUCKET_CNT - 1
Nodes   == Tasks \X (1 .. PoolSize)
Request == [start : Nat, end : Nat, writer : BOOLEAN, try : BOOLEAN]
whole(r) == r.end = MAX_SIZE

\* f3fs_down_read3, f3fs_down_write3 and f3fs_down_write_range_trylock3.
ASSUME RequestAssumption ==
  /\ BUCKET_CNT \in Nat \ {0} /\ MAX_SIZE \in Nat
  /\ Requests \subseteq Request
  /\ \A r \in Requests : IF whole(r) THEN r.start = 0 /\ ~r.try
                         ELSE r.end = r.start + 1 /\ r.writer

VARIABLES
  head,    \* list_rl->head of every bucket
  lnode,   \* start, end and reader of every allocated node
  next,    \* the next pointer of every node, with its mark
  rcu,     \* the tasks in read sections that RCU_KFREE of a node waits for
  task     \* program counter and local variables of every task

memory == <<head, lnode, next, rcu>>
vars   == <<memory, task>>

Ptr(n) == [to |-> n, marked |-> FALSE]
Ptrs   == [to : Nodes \cup {Null}, marked : BOOLEAN]
NULL   == Ptr(Null)
Idle   == [pc |-> "idle", req |-> Null, rl |-> [b \in Buckets |-> Null], b |-> 0,
           prev |-> Head, cur |-> NULL, validating |-> FALSE]
Outside == {"idle", "more", "held", "release"}
PCs    == Outside \cup {"start", "look", "advance", "cas", "spin", "respin",
                         "vstart", "vlook", "vadvance", "fault"}

\* Every variable has its type, and the pointer to the first node of a list never
\* carries a mark: InsertNodeRW would start again for ever.
TypeOK ==
  /\ head \in [Buckets -> Ptrs] /\ \A b \in Buckets : ~head[b].marked
  /\ lnode \in [Nodes -> [start : Nat, end : Nat, reader : BOOLEAN] \cup {Null}]
  /\ next \in [Nodes -> Ptrs]
  /\ rcu \in [Nodes -> SUBSET Tasks]
  /\ task \in [Tasks -> [pc : PCs, req : Requests \cup {Null},
                         rl : [Buckets -> Nodes \cup {Null}], b : Buckets,
                         prev : Nodes \cup {Head}, cur : Ptrs, validating : BOOLEAN]]

\* init_f3fs_rwsem3
Init ==
  /\ head = [b \in Buckets |-> NULL]
  /\ lnode = [n \in Nodes |-> Null]
  /\ next = [n \in Nodes |-> NULL]
  /\ rcu = [n \in Nodes |-> {}]
  /\ task = [t \in Tasks |-> Idle]

-----------------------------------------------------------------------------
(* Memory *)

\* Tasks between RCU_LOCK and RCU_UNLOCK of InsertNodeRW.
Readers == {t \in Tasks : task[t].pc \notin Outside}

\* RCU_KFREE
KfreeRcu(n) == rcu' = [rcu EXCEPT ![n] = Readers]

\* RCU_UNLOCK: the nodes that waited for t alone are freed, and those in freed too.
Unlock(t, freed) ==
  LET gone == freed \cup {n \in Nodes : rcu[n] = {t}}
  IN  /\ rcu' = [n \in Nodes |-> rcu[n] \ {t}]
      /\ next' = [n \in Nodes |-> IF n \in gone THEN NULL ELSE next[n]]
      /\ lnode' = [n \in Nodes |-> IF n \in gone THEN Null ELSE lnode[n]]

\* Variant: reader is set the wrong way round.
InitNodeReader(r) ==
  [start |-> r.start, end |-> IF whole(r) THEN MAX_SIZE ELSE 1, reader |-> r.writer]

\* InitNode, as RWRangeAcquire and RWRangeTryAcquire call it.
InitNode(r) ==
  [start |-> r.start, end |-> IF whole(r) THEN MAX_SIZE ELSE 1, reader |-> ~r.writer]

-----------------------------------------------------------------------------
(* InsertNodeRW *)

\* The node of t in the bucket it is working on.
lock(t) == task[t].rl[task[t].b]
Goto(t, pc) == task' = [task EXCEPT ![t].pc = pc]

\* *prev, and a successful CAS on it
Deref(t) == IF task[t].prev = Head THEN head[task[t].b] ELSE next[task[t].prev]
Swap(t, p) ==
  IF task[t].prev = Head
  THEN head' = [head EXCEPT ![task[t].b] = p] /\ UNCHANGED next
  ELSE next' = [next EXCEPT ![task[t].prev] = p] /\ UNCHANGED head

\* Variant: the order of the starts decides, whoever reads.
compareRWNoReaders(lock1, lock2) ==
  IF lock2.start >= lock1.end \/ lock2.start >= lock1.start THEN -1
  ELSE IF lock1.start >= lock2.end THEN 1
  ELSE 0

compareRW(lock1, lock2) ==
  LET readers == lock1.reader /\ lock2.reader
  IN  IF lock2.start >= lock1.end \/ (lock2.start >= lock1.start /\ readers) THEN -1
      ELSE IF lock1.start >= lock2.end \/ (lock1.start >= lock2.start /\ readers) THEN 1
      ELSE 0

\* RWRangeAcquire and RWRangeTryAcquire in bucket b: a new node, and the walk begins at
\* the head of the list.
Unused(t) == {n \in Nodes : n[1] = t /\ lnode[n] = Null}
AcquireIn(t, r, b) ==
  LET new == CHOOSE n \in Unused(t) : \A m \in Unused(t) : n[2] <= m[2]
  IN
  /\ Unused(t) # {} /\ Cardinality({n \in Nodes : lnode[n] # Null}) < MaxNodes
  /\ lnode' = [lnode EXCEPT ![new] = InitNode(r)]
  /\ task' = [task EXCEPT ![t].pc = "look", ![t].req = r, ![t].b = b, ![t].rl[b] = new,
                          ![t].cur = head[b]]
  /\ UNCHANGED <<head, next, rcu>>

Acquire(t, r) ==
  /\ task[t].pc = "idle"
  /\ AcquireIn(t, r, IF whole(r) THEN 0 ELSE r.start % BUCKET_CNT)

AcquireMore(t) ==
  /\ task[t].pc = "more"
  /\ AcquireIn(t, task[t].req, task[t].b + 1)

\* The walk begins again.
Restart(t) ==
  /\ task[t].pc = "start"
  /\ task' = [task EXCEPT ![t].pc = "look", ![t].cur = head[task[t].b]]
  /\ UNCHANGED memory

\* cur = *prev; the walk starts again when it stands in a deleted node.
Advance(t) ==
  /\ task[t].pc = "advance"
  /\ task' = IF Deref(t).marked
             THEN [task EXCEPT ![t].pc = "start", ![t].prev = Head]
             ELSE [task EXCEPT ![t].pc = "look", ![t].cur = Deref(t)]
  /\ UNCHANGED memory

\* cur is not deleted: how its range compares with the new one decides.
Compares(t, ret) ==
  LET cur == task[t].cur.to
  IN  /\ task[t].pc = "look"
      /\ cur # Null => ~next[cur].marked
      /\ ret = IF cur = Null THEN 1 ELSE compareRW(lnode[cur], lnode[lock(t)])

PassNode(t) ==
  /\ Compares(t, -1)
  /\ task' = [task EXCEPT ![t].pc = "advance", ![t].prev = task[t].cur.to, ![t].cur = NULL]
  /\ UNCHANGED memory

\* A blocking request waits for the conflicting node to be deleted.
Wait(t) ==
  /\ Compares(t, 0) /\ ~task[t].req.try
  /\ Goto(t, "spin")
  /\ UNCHANGED memory

\* RWRangeTryAcquire gives up and frees the node.
TryFails(t) ==
  /\ Compares(t, 0) /\ task[t].req.try
  /\ Unlock(t, {lock(t)})
  /\ task' = [task EXCEPT ![t] = Idle]
  /\ UNCHANGED head

\* lock->next = cur
Place(t) ==
  /\ Compares(t, 1)
  /\ next' = [next EXCEPT ![lock(t)] = task[t].cur]
  /\ Goto(t, "cas")
  /\ UNCHANGED <<head, lnode, rcu>>

\* Variant: a store instead of a compare-and-swap.
InsertStore(t) ==
  /\ task[t].pc = "cas"
  /\ Swap(t, Ptr(lock(t)))
  /\ task' = [task EXCEPT ![t].pc = "vstart", ![t].prev = Head, ![t].cur = NULL]
  /\ UNCHANGED <<lnode, rcu>>

\* CAS(prev, cur, lock)
Insert(t) ==
  /\ task[t].pc = "cas"
  /\ IF Deref(t) = task[t].cur
     THEN /\ Swap(t, Ptr(lock(t)))
          /\ task' = [task EXCEPT ![t].pc = "vstart", ![t].prev = Head, ![t].cur = NULL]
     ELSE /\ task' = [task EXCEPT ![t].pc = "advance", ![t].cur = NULL]
          /\ UNCHANGED <<head, next>>
  /\ UNCHANGED <<lnode, rcu>>

\* while (!marked(cur->next)) cur = *prev, here and in r_validate: the test.
Spin(t) ==
  /\ task[t].pc = "spin"
  /\ Goto(t, IF ~next[task[t].cur.to].marked THEN "respin"
             ELSE IF task[t].validating THEN "vlook" ELSE "look")
  /\ UNCHANGED memory

\* The assignment.  The test that follows goes through cur even if the node has been
\* unlinked and nothing is left, or prev stands in a deleted node.
Respin(t) ==
  LET cur == Deref(t)
  IN
  /\ task[t].pc = "respin"
  /\ task' = [task EXCEPT ![t].cur = cur,
                          ![t].pc = IF cur.to = Null \/ cur.marked THEN "fault" ELSE "spin"]
  /\ UNCHANGED memory

\* cur is deleted: CAS(prev, cur, unmark(cur->next)), here and in the validations.  A
\* marked pointer no longer changes, so the test and the swap are one step.
Unlink(t) ==
  LET cur == task[t].cur.to
      after == Ptr(next[cur].to)
  IN
  /\ task[t].pc \in {"look", "vlook"} /\ cur \notin {Null, lock(t)} /\ next[cur].marked
  /\ IF Deref(t) = task[t].cur
     THEN Swap(t, after) /\ KfreeRcu(cur)
     ELSE UNCHANGED <<head, next, rcu>>
  /\ task' = [task EXCEPT ![t].cur = after]
  /\ UNCHANGED lnode

-----------------------------------------------------------------------------
(* w_validate, from the head to the new node; r_validate, from the new node on *)

\* RCU_UNLOCK, then the next bucket or the return.
Return(t) ==
  LET req == task[t].req
      more == whole(req) /\ task[t].b + 1 \in Buckets
  IN
  /\ Unlock(t, {})
  /\ task' = [task EXCEPT ![t].pc = IF more THEN "more" ELSE "held",
                          ![t].b = IF whole(req) /\ ~more THEN 0 ELSE @,
                          ![t].prev = Head, ![t].cur = NULL, ![t].validating = FALSE]

\* The walk reads p at prev, and ends at the new node or at the end of the list.
ValidateAt(t, prev, p) ==
  IF p.to \in {Null, lock(t)} THEN Return(t)
  ELSE /\ task' = [task EXCEPT ![t].pc = "vlook", ![t].prev = prev, ![t].cur = Ptr(p.to),
                               ![t].validating = TRUE]
       /\ UNCHANGED <<lnode, next, rcu>>

ValidateStart(t) ==
  /\ task[t].pc = "vstart"
  /\ IF lnode[lock(t)].reader THEN ValidateAt(t, lock(t), next[lock(t)])
     ELSE ValidateAt(t, Head, head[task[t].b])
  /\ UNCHANGED head

\* A node in use is passed unless it conflicts: then r_validate waits, and w_validate
\* deletes the new node, with which the insertion is tried again.
ValidateNode(t) ==
  LET cur == task[t].cur.to
      new == lnode[lock(t)]
  IN
  /\ task[t].pc = "vlook" /\ cur \notin {Null, lock(t)} /\ ~next[cur].marked
  /\ IF IF new.reader THEN lnode[cur].reader ELSE lnode[cur].end <= new.start
     THEN /\ task' = [task EXCEPT ![t].pc = "vadvance", ![t].prev = cur, ![t].cur = NULL]
          /\ UNCHANGED next
     ELSE IF new.reader
     THEN Goto(t, "spin") /\ UNCHANGED next
     ELSE /\ task' = [task EXCEPT ![t].pc = "start", ![t].prev = Head, ![t].cur = NULL,
                                  ![t].validating = FALSE]
          /\ next' = [next EXCEPT ![lock(t)].marked = TRUE]
  /\ UNCHANGED <<head, lnode, rcu>>

ValidateAdvance(t) ==
  /\ task[t].pc = "vadvance"
  /\ ValidateAt(t, task[t].prev, Deref(t))
  /\ UNCHANGED head

\* The end is reached after the removal of a deleted node.
ValidateEnd(t) ==
  /\ task[t].pc = "vlook" /\ task[t].cur.to \in {Null, lock(t)}
  /\ Return(t)
  /\ UNCHANGED head

-----------------------------------------------------------------------------
\* MutexRangeRelease: DeleteNode in every bucket the lock has a node in.
Release(t) ==
  /\ task[t].pc \in {"held", "release"}
  /\ next' = [next EXCEPT ![lock(t)].marked = TRUE]
  /\ task' = IF whole(task[t].req) /\ task[t].b + 1 \in Buckets
             THEN [task EXCEPT ![t].pc = "release", ![t].b = @ + 1]
             ELSE [task EXCEPT ![t] = Idle]
  /\ UNCHANGED <<head, lnode, rcu>>

Next ==
  \E t \in Tasks :
    \/ \E r \in Requests : Acquire(t, r)
    \/ AcquireMore(t)
    \/ Restart(t) \/ Advance(t) \/ PassNode(t) \/ Wait(t) \/ TryFails(t) \/ Place(t)
    \/ Insert(t) \/ Spin(t) \/ Respin(t) \/ Unlink(t)
    \/ ValidateStart(t) \/ ValidateNode(t) \/ ValidateAdvance(t) \/ ValidateEnd(t)
    \/ Release(t)

Spec == Init /\ [][Next]_vars

-----------------------------------------------------------------------------
(* Properties *)

held == [t \in Tasks |-> IF task[t].pc = "held" THEN task[t].req ELSE Null]
Holders == INSTANCE RangeLockHolders WITH held <- held

\* The list of nodes implements the lock its callers see: a request is granted only
\* while no task holds one it must be kept apart from.
GrantsAsPromised == Holders!Spec

\* Every node from the head of bucket b on, deleted ones included.
InList(b) ==
  LET reach[k \in 0 .. MaxNodes] ==
        IF k = 0 THEN {head[b].to}
        ELSE reach[k - 1] \cup {next[n].to : n \in reach[k - 1] \ {Null}}
  IN  reach[MaxNodes] \ {Null}

\* No concurrent insertion or unlinking loses the node of a lock that is held, or
\* deletes it: later requests still meet it.
HeldLocksListed ==
  \A t \in Tasks, b \in Buckets :
    task[t].pc = "held" /\ task[t].rl[b] # Null
      => task[t].rl[b] \in InList(b) /\ ~next[task[t].rl[b]].marked

\* The grace period suffices: nothing a walk can reach, from the head of a list or from
\* where it stands, has been freed.
NoPointerToFreed ==
  LET Allocated(p) == p.to # Null => lnode[p.to] # Null
  IN  /\ \A b \in Buckets : Allocated(head[b])
      /\ \A n \in Nodes : lnode[n] # Null => Allocated(next[n])
      /\ \A t \in Readers : /\ Allocated(task[t].cur)
                            /\ task[t].prev # Head => lnode[task[t].prev] # Null

\* The swap that inserts a node leaves nothing for the validations to find: they never
\* delete a new node, which would go back into the list with its mark cleared while it
\* is still linked, and never wait.
ValidationFindsNothing ==
  \A t \in Readers : ~next[lock(t)].marked /\ ~(task[t].validating /\ task[t].pc = "spin")

\* A task waits at the head of a list only, so the pointer it reads again is never a
\* marked one; the only bad pointer it can meet there is the null pointer.
WaitsAtHead ==
  \A t \in Tasks : task[t].pc \in {"spin", "respin", "fault"}
                     => task[t].prev = Head /\ ~task[t].cur.marked

\* The list a walk goes through is sound under any insertions, unlinkings and frees
\* around it: it has the node of every lock that is held (lockfree_list.c:100) and
\* nothing that was freed.
ListSound == TypeOK /\ HeldLocksListed /\ NoPointerToFreed

\* The only place where a task waits is the head of a list, while its own node is
\* not linked yet (lockfree_list.c:162).
WaitsBeforeLinking == ValidationFindsNothing /\ WaitsAtHead

=============================================================================
