--------------------------- MODULE CkptReqProofs ----------------------------
(***************************************************************************)
(* Any number of tasks that ask for checkpoints: no request is lost or     *)
(* held twice, queued_ckpt agrees with the requests, and a call returns    *)
(* success only after a checkpoint that began after it, unless another     *)
(* actor still holds its request.                                          *)
(***************************************************************************)
EXTENDS CkptReq, FiniteSetTheorems, TLAPS

\* The request of t is on the list or in the hands of an actor.
Queued(t) == t \in issue_list \/ \E a \in Actors : t \in dispatch_list[a]

\* An actor has a batch exactly while it writes the checkpoint and completes it;
\* the thread and the remounting task write one only for a batch.
Batches ==
  /\ \A a \in Actors : dispatch_list[a] # {} => pc[a] \in {"begin", "end", "complete"}
  /\ \A a \in Actors : taken[a] # 0 => pc[a] \in {"begin", "end", "complete", "subtract"}
  /\ \A a \in Actors : pc[a] \in {"begin", "end"} /\ taken[a] # 0 => dispatch_list[a] # {}
  /\ \A a \in Actors \ Tasks : pc[a] \in {"begin", "end"} => dispatch_list[a] # {}

\* A request is queued by a call that has begun, and completed once.
QueuedRequests ==
  \A t \in Tasks : /\ Queued(t) => pc[t] \notin {"idle", "add"} /\ t \notin completed
                   /\ pc[t] \in {"idle", "add"} => t \notin completed
                   /\ t \in issue_list => pc[t] \in {"count", "choose", "flush", "wait", "take"}

OnePlace ==
  /\ \A a, b \in Actors : a # b => dispatch_list[a] \cap dispatch_list[b] = {}
  /\ \A a \in Actors : dispatch_list[a] \cap issue_list = {}

\* From llist_add until it returns, a call's request is queued or completed.
Enqueued(t) == \/ pc[t] \in {"count", "choose", "flush", "wait", "take", "complete", "subtract"}
               \/ pc[t] \in {"begin", "end"} /\ dispatch_list[t] # {}
NoneLost == \A t \in Tasks : Enqueued(t) => Queued(t) \/ t \in completed

\* A running checkpoint began after the calls it is written for.
Writing ==
  \A a \in Actors : /\ pc[a] = "end" <=> gc_lock = a
                    /\ pc[a] = "end" => dispatch_list[a] \subseteq began
                    /\ pc[a] = "end" /\ a \in Tasks => a \in began

\* A result of 0 reaches only calls whose changes are on the device.
ResultsTrue ==
  /\ \A a \in Actors : pc[a] = "complete" /\ err[a] = "ok" => dispatch_list[a] \subseteq durable
  /\ \A t \in Tasks : t \in completed /\ pc[t] # "returned" /\ ret[t] = "ok" => t \in durable

\* No second thread is started while one runs.
ThreadKnown ==
  (~f3fs_issue_ckpt /\ pc[Remounter] \notin {"stop", "join"}) \/ pc[Remounter] = "failed"
    => pc[Thread] = "none"

ReqInv == Batches /\ QueuedRequests /\ OnePlace /\ NoneLost /\ Writing /\ ResultsTrue /\ ThreadKnown

\* The inductive invariant.
IInv == TypeOK /\ QueuedCkptAccount /\ ReqInv

-----------------------------------------------------------------------------
\* The requests taken by actors and not yet subtracted from queued_ckpt, when k
\* says how many every actor has taken, and the calls not yet counted.
N == Cardinality(Tasks)
Pending(k)   == {x \in Actors \X (1 .. N) : x[2] <= k[x[1]]}
Uncounted(p) == {t \in Tasks : p[t] = "count"}

\* The sets that are counted are finite.
LEMMA FiniteSubsets ==
  /\ N \in Nat
  /\ IsFiniteSet(Actors \X (1 .. N))
  /\ \A S \in SUBSET Tasks : IsFiniteSet(S) /\ Cardinality(S) \in 0 .. N
<1>1. IsFiniteSet(Tasks) /\ N \in Nat
  BY ActorAssumption, FS_CardinalityType DEF N
<1>2. IsFiniteSet({Thread}) /\ IsFiniteSet({Remounter})
  BY FS_Singleton
<1>3. IsFiniteSet(Tasks \cup {Thread})
  BY <1>1, <1>2, FS_Union
<1>4. IsFiniteSet((Tasks \cup {Thread}) \cup {Remounter})
  BY <1>2, <1>3, FS_Union
<1>5. IsFiniteSet(Actors)
  <2>1. Actors = (Tasks \cup {Thread}) \cup {Remounter}
    BY DEF Actors
  <2> QED BY <1>4, <2>1
<1>6. IsFiniteSet(1 .. N)
  BY <1>1, FS_Interval
<1>7. IsFiniteSet(Actors \X (1 .. N))
  BY <1>5, <1>6, FS_Product
<1>8. ASSUME NEW S \in SUBSET Tasks PROVE IsFiniteSet(S) /\ Cardinality(S) \in 0 .. N
  <2>1. IsFiniteSet(S) /\ Cardinality(S) <= N
    BY <1>1, FS_Subset DEF N
  <2>2. Cardinality(S) \in Nat
    BY <2>1, FS_CardinalityType
  <2> QED BY <1>1, <2>1, <2>2
<1> QED BY <1>1, <1>7, <1>8

\* So are the pending requests.
LEMMA PendingFinite ==
  ASSUME NEW k \in [Actors -> 0 .. N]
  PROVE  IsFiniteSet(Pending(k)) /\ Cardinality(Pending(k)) \in Nat
<1>1. Pending(k) \subseteq Actors \X (1 .. N) /\ IsFiniteSet(Actors \X (1 .. N))
  BY FiniteSubsets DEF Pending
<1> QED BY <1>1, FS_Subset, FS_CardinalityType

\* An actor without requests that takes n of them adds n to the pending ones.
LEMMA PendingStep ==
  ASSUME NEW k \in [Actors -> 0 .. N], NEW a \in Actors, k[a] = 0, NEW n \in 0 .. N
  PROVE  /\ Cardinality(Pending(k)) \in Nat
         /\ Cardinality(Pending([k EXCEPT ![a] = n])) = Cardinality(Pending(k)) + n
<1> DEFINE P == {a} \X (1 .. n)
<1>1. N \in Nat /\ IsFiniteSet(Actors \X (1 .. N))
  BY FiniteSubsets
<1>2. IsFiniteSet(Pending(k)) /\ Cardinality(Pending(k)) \in Nat
  BY PendingFinite
<1>3. IsFiniteSet(P) /\ Cardinality(P) = n
  <2>1. IsFiniteSet({a}) /\ Cardinality({a}) = 1
    BY FS_Singleton
  <2>2. IsFiniteSet(1 .. n) /\ Cardinality(1 .. n) = n
    BY FS_Interval
  <2>3. IsFiniteSet(P) /\ Cardinality(P) = Cardinality({a}) * Cardinality(1 .. n)
    BY <2>1, <2>2, FS_Product
  <2> QED BY <2>1, <2>2, <2>3
<1>4. Pending([k EXCEPT ![a] = n]) = Pending(k) \cup P
  BY <1>1 DEF Pending
<1>5. Pending(k) \cap P = {}
  BY <1>1 DEF Pending
<1> HIDE DEF P
<1>6. Cardinality(Pending(k) \cup P)
        = Cardinality(Pending(k)) + Cardinality(P) - Cardinality(Pending(k) \cap P)
  BY <1>2, <1>3, FS_Union
<1>7. Cardinality(Pending(k) \cap P) = 0
  BY <1>5, FS_EmptySet
<1>8. Cardinality(Pending([k EXCEPT ![a] = n]))
        = Cardinality(Pending(k)) + Cardinality(P) - Cardinality(Pending(k) \cap P)
  BY <1>4, <1>6, Zenon
<1> QED BY <1>2, <1>3, <1>7, <1>8

\* The account in terms of these sets.
LEMMA AccountDef ==
  /\ QueuedCkptAccount <=>
       queued_ckpt + Cardinality(Uncounted(pc)) = Cardinality(issue_list) + Cardinality(Pending(taken))
  /\ QueuedCkptAccount' <=>
       queued_ckpt' + Cardinality(Uncounted(pc')) = Cardinality(issue_list') + Cardinality(Pending(taken'))
BY DEF QueuedCkptAccount, Uncounted, Pending, N

\* A step that counts nothing keeps the account.
LEMMA AccountStays ==
  ASSUME QueuedCkptAccount, UNCHANGED <<queued_ckpt, issue_list, taken>>,
         Uncounted(pc') = Uncounted(pc)
  PROVE  QueuedCkptAccount'
BY AccountDef

\* Steps from and to other program points than "count" leave the uncounted calls.
LEMMA UncountedStays ==
  ASSUME TypeOK, NEW a \in Actors, NEW x, pc' = [pc EXCEPT ![a] = x],
         a \in Tasks => pc[a] # "count" /\ x # "count"
  PROVE  Uncounted(pc') = Uncounted(pc)
BY DEF Uncounted, TypeOK

\* A call begins.
LEMMA IssueInv ==
  ASSUME IInv, NEW t \in Tasks, NEW merge \in BOOLEAN, Issue(t, merge)
  PROVE  IInv'
<1> USE DEF IInv
<1>1. PICK x \in {"add", "begin"} : pc' = [pc EXCEPT ![t] = x]
  BY DEF Issue, Goto
<1>2. t \in Actors
  BY ActorAssumption DEF Actors
<1>3. Uncounted(pc') = Uncounted(pc)
  BY <1>1, <1>2, UncountedStays DEF Issue, Goto
<1>4. QueuedCkptAccount'
  BY <1>3, AccountStays DEF Issue, queueVars, batchVars
<1>5. TypeOK'
  BY <1>1, <1>2 DEF Issue, TypeOK, Labels, Results, threadVars, queueVars, batchVars, cpVars, reqVars
<1>6. ReqInv'
  BY <1>1, <1>2, ActorAssumption DEF Issue, Goto, Actors, TypeOK, threadVars, queueVars, batchVars, cpVars, reqVars,
     ReqInv, Batches, QueuedRequests, OnePlace, NoneLost, Writing,
     ResultsTrue, ThreadKnown, Queued, Enqueued
<1> QED BY <1>4, <1>5, <1>6

\* The caller looks for the thread again.
LEMMA ChooseInv ==
  ASSUME IInv, NEW t \in Tasks, Choose(t)
  PROVE  IInv'
<1> USE DEF IInv
<1>1. PICK x \in {"wait", "flush"} : pc' = [pc EXCEPT ![t] = x]
  BY DEF Choose, Goto
<1>2. t \in Actors
  BY ActorAssumption DEF Actors
<1>3. Uncounted(pc') = Uncounted(pc)
  BY <1>1, <1>2, UncountedStays DEF Choose, Goto
<1>4. QueuedCkptAccount'
  BY <1>3, AccountStays DEF Choose, queueVars, batchVars
<1>5. TypeOK'
  BY <1>1, <1>2 DEF Choose, TypeOK, Labels, Results, threadVars, queueVars, batchVars, cpVars, reqVars
<1>6. ReqInv'
  BY <1>1, <1>2, ActorAssumption DEF Choose, Goto, Actors, TypeOK, threadVars, queueVars, batchVars, cpVars, reqVars,
     ReqInv, Batches, QueuedRequests, OnePlace, NoneLost, Writing,
     ResultsTrue, ThreadKnown, Queued, Enqueued
<1> QED BY <1>4, <1>5, <1>6

\* A waiting call returns.
LEMMA WaitInv ==
  ASSUME IInv, NEW t \in Tasks, Wait(t)
  PROVE  IInv'
<1> USE DEF IInv
<1>1. pc' = [pc EXCEPT ![t] = "returned"]
  BY DEF Wait, Goto
<1>2. t \in Actors
  BY ActorAssumption DEF Actors
<1>3. Uncounted(pc') = Uncounted(pc)
  BY <1>1, <1>2, UncountedStays DEF Wait, Goto
<1>4. QueuedCkptAccount'
  BY <1>3, AccountStays DEF Wait, queueVars, batchVars
<1>5. TypeOK'
  BY <1>1, <1>2 DEF Wait, TypeOK, Labels, Results, threadVars, queueVars, batchVars, cpVars, reqVars
<1>6. ReqInv'
  BY <1>1, <1>2, ActorAssumption DEF Wait, Goto, Actors, TypeOK, threadVars, queueVars, batchVars, cpVars, reqVars,
     ReqInv, Batches, QueuedRequests, OnePlace, NoneLost, Writing,
     ResultsTrue, ThreadKnown, Queued, Enqueued
<1> QED BY <1>4, <1>5, <1>6

\* An actor looks for requests nobody has taken.
LEMMA FlushRemainedInv ==
  ASSUME IInv, NEW a \in Actors, FlushRemained(a)
  PROVE  IInv'
<1> USE DEF IInv
<1>1. PICK x \in {"take", "wait", "idle"} : pc' = [pc EXCEPT ![a] = x]
  BY DEF FlushRemained, Goto
<1>2. a \in Actors
  BY ActorAssumption DEF Actors
<1>3. Uncounted(pc') = Uncounted(pc)
  BY <1>1, <1>2, UncountedStays DEF FlushRemained, Goto
<1>4. QueuedCkptAccount'
  BY <1>3, AccountStays DEF FlushRemained, queueVars, batchVars
<1>5. TypeOK'
  BY <1>1, <1>2 DEF FlushRemained, TypeOK, Labels, Results, threadVars, queueVars, batchVars, cpVars, reqVars
<1>6. ReqInv'
  BY <1>1, <1>2, ActorAssumption DEF FlushRemained, Goto, Actors, TypeOK, threadVars, queueVars, batchVars, cpVars, reqVars,
     ReqInv, Batches, QueuedRequests, OnePlace, NoneLost, Writing,
     ResultsTrue, ThreadKnown, Queued, Enqueued
<1> QED BY <1>4, <1>5, <1>6

\* A checkpoint begins.
LEMMA BeginInv ==
  ASSUME IInv, NEW a \in Actors, Begin(a)
  PROVE  IInv'
<1> USE DEF IInv
<1>1. pc' = [pc EXCEPT ![a] = "end"]
  BY DEF Begin, Goto
<1>2. a \in Actors
  BY ActorAssumption DEF Actors
<1>3. Uncounted(pc') = Uncounted(pc)
  BY <1>1, <1>2, UncountedStays DEF Begin, Goto
<1>4. QueuedCkptAccount'
  BY <1>3, AccountStays DEF Begin, queueVars, batchVars
<1>5. TypeOK'
  BY <1>1, <1>2 DEF Begin, TypeOK, Labels, Results, threadVars, queueVars, batchVars, cpVars, reqVars
<1>6. ReqInv'
  BY <1>1, <1>2, ActorAssumption DEF Begin, Goto, Actors, TypeOK, threadVars, queueVars, batchVars, cpVars, reqVars,
     ReqInv, Batches, QueuedRequests, OnePlace, NoneLost, Writing,
     ResultsTrue, ThreadKnown, Queued, Enqueued
<1> QED BY <1>4, <1>5, <1>6

\* The thread looks for work.
LEMMA ThreadTopInv ==
  ASSUME IInv, ThreadTop
  PROVE  IInv'
<1> USE DEF IInv
<1>1. PICK x \in {"none", "take", "sleep"} : pc' = [pc EXCEPT ![Thread] = x]
  BY DEF ThreadTop, Goto
<1>2. Thread \in Actors /\ Thread \notin Tasks
  BY ActorAssumption DEF Actors
<1>3. Uncounted(pc') = Uncounted(pc)
  BY <1>1, <1>2, UncountedStays DEF ThreadTop, Goto
<1>4. QueuedCkptAccount'
  BY <1>3, AccountStays DEF ThreadTop, queueVars, batchVars
<1>5. TypeOK'
  BY <1>1, <1>2 DEF ThreadTop, TypeOK, Labels, Results, threadVars, queueVars, batchVars, cpVars, reqVars
<1>6. ReqInv'
  BY <1>1, <1>2, ActorAssumption DEF ThreadTop, Goto, Actors, TypeOK, threadVars, queueVars, batchVars, cpVars, reqVars,
     ReqInv, Batches, QueuedRequests, OnePlace, NoneLost, Writing,
     ResultsTrue, ThreadKnown, Queued, Enqueued
<1> QED BY <1>4, <1>5, <1>6

\* The thread wakes up.
LEMMA ThreadWakeInv ==
  ASSUME IInv, ThreadWake
  PROVE  IInv'
<1> USE DEF IInv
<1>1. pc' = [pc EXCEPT ![Thread] = "top"]
  BY DEF ThreadWake, Goto
<1>2. Thread \in Actors /\ Thread \notin Tasks
  BY ActorAssumption DEF Actors
<1>3. Uncounted(pc') = Uncounted(pc)
  BY <1>1, <1>2, UncountedStays DEF ThreadWake, Goto
<1>4. QueuedCkptAccount'
  BY <1>3, AccountStays DEF ThreadWake, queueVars, batchVars
<1>5. TypeOK'
  BY <1>1, <1>2 DEF ThreadWake, TypeOK, Labels, Results, threadVars, queueVars, batchVars, cpVars, reqVars
<1>6. ReqInv'
  BY <1>1, <1>2, ActorAssumption DEF ThreadWake, Goto, Actors, TypeOK, threadVars, queueVars, batchVars, cpVars, reqVars,
     ReqInv, Batches, QueuedRequests, OnePlace, NoneLost, Writing,
     ResultsTrue, ThreadKnown, Queued, Enqueued
<1> QED BY <1>4, <1>5, <1>6

\* A thread is started; none ran.
LEMMA StartThreadInv ==
  ASSUME IInv, StartThread
  PROVE  IInv'
<1> USE DEF IInv
<1>1. pc' = [pc EXCEPT ![Thread] = "top"]
  BY DEF StartThread, Goto
<1>2. Thread \in Actors /\ Thread \notin Tasks
  BY ActorAssumption DEF Actors
<1>3. Uncounted(pc') = Uncounted(pc)
  BY <1>1, <1>2, UncountedStays DEF StartThread, Goto
<1>4. QueuedCkptAccount'
  BY <1>3, AccountStays DEF StartThread, queueVars, batchVars
<1>5. TypeOK'
  BY <1>1, <1>2 DEF StartThread, TypeOK, Labels, Results, threadVars, queueVars, batchVars, cpVars, reqVars
<1>6. ReqInv'
  BY <1>1, <1>2, ActorAssumption DEF StartThread, Goto, Actors, TypeOK, threadVars, queueVars, batchVars, cpVars, reqVars,
     ReqInv, Batches, QueuedRequests, OnePlace, NoneLost, Writing,
     ResultsTrue, ThreadKnown, Queued, Enqueued
<1> QED BY <1>4, <1>5, <1>6

\* kthread_run fails.
LEMMA StartFailsInv ==
  ASSUME IInv, StartFails
  PROVE  IInv'
<1> USE DEF IInv
<1>1. pc' = [pc EXCEPT ![Remounter] = "failed"]
  BY DEF StartFails, Goto
<1>2. Remounter \in Actors /\ Remounter \notin Tasks
  BY ActorAssumption DEF Actors
<1>3. Uncounted(pc') = Uncounted(pc)
  BY <1>1, <1>2, UncountedStays DEF StartFails, Goto
<1>4. QueuedCkptAccount'
  BY <1>3, AccountStays DEF StartFails, queueVars, batchVars
<1>5. TypeOK'
  BY <1>1, <1>2 DEF StartFails, TypeOK, Labels, Results, threadVars, queueVars, batchVars, cpVars, reqVars
<1>6. ReqInv'
  BY <1>1, <1>2, ActorAssumption DEF StartFails, Goto, Actors, TypeOK, threadVars, queueVars, batchVars, cpVars, reqVars,
     ReqInv, Batches, QueuedRequests, OnePlace, NoneLost, Writing,
     ResultsTrue, ThreadKnown, Queued, Enqueued
<1> QED BY <1>4, <1>5, <1>6

\* Its error pointer is replaced.
LEMMA StartResetInv ==
  ASSUME IInv, StartReset
  PROVE  IInv'
<1> USE DEF IInv
<1>1. pc' = [pc EXCEPT ![Remounter] = "idle"]
  BY DEF StartReset, Goto
<1>2. Remounter \in Actors /\ Remounter \notin Tasks
  BY ActorAssumption DEF Actors
<1>3. Uncounted(pc') = Uncounted(pc)
  BY <1>1, <1>2, UncountedStays DEF StartReset, Goto
<1>4. QueuedCkptAccount'
  BY <1>3, AccountStays DEF StartReset, queueVars, batchVars
<1>5. TypeOK'
  BY <1>1, <1>2 DEF StartReset, TypeOK, Labels, Results, threadVars, queueVars, batchVars, cpVars, reqVars
<1>6. ReqInv'
  BY <1>1, <1>2, ActorAssumption DEF StartReset, Goto, Actors, TypeOK, threadVars, queueVars, batchVars, cpVars, reqVars,
     ReqInv, Batches, QueuedRequests, OnePlace, NoneLost, Writing,
     ResultsTrue, ThreadKnown, Queued, Enqueued
<1> QED BY <1>4, <1>5, <1>6

\* The thread is hidden from new calls.
LEMMA StopThreadInv ==
  ASSUME IInv, StopThread
  PROVE  IInv'
<1> USE DEF IInv
<1>1. pc' = [pc EXCEPT ![Remounter] = "stop"]
  BY DEF StopThread, Goto
<1>2. Remounter \in Actors /\ Remounter \notin Tasks
  BY ActorAssumption DEF Actors
<1>3. Uncounted(pc') = Uncounted(pc)
  BY <1>1, <1>2, UncountedStays DEF StopThread, Goto
<1>4. QueuedCkptAccount'
  BY <1>3, AccountStays DEF StopThread, queueVars, batchVars
<1>5. TypeOK'
  BY <1>1, <1>2 DEF StopThread, TypeOK, Labels, Results, threadVars, queueVars, batchVars, cpVars, reqVars
<1>6. ReqInv'
  <2>1. Batches' /\ QueuedRequests' /\ NoneLost'
    BY <1>1, <1>2, ActorAssumption DEF StopThread, Goto, Actors, TypeOK, threadVars, queueVars, batchVars, cpVars, reqVars,
       ReqInv, Batches, QueuedRequests, NoneLost, Queued, Enqueued
  <2>2. OnePlace' /\ ThreadKnown'
    BY <1>1, <1>2, ActorAssumption DEF StopThread, Goto, Actors, TypeOK, threadVars, queueVars, batchVars, reqVars,
       ReqInv, OnePlace, ThreadKnown
  <2>3. Writing' /\ ResultsTrue'
    BY <1>1, <1>2, ActorAssumption DEF StopThread, Goto, Actors, TypeOK, threadVars, queueVars, batchVars, cpVars, reqVars,
       ReqInv, Writing, ResultsTrue
  <2> QED BY <2>1, <2>2, <2>3 DEF ReqInv
<1> QED BY <1>4, <1>5, <1>6

\* It is told to stop.
LEMMA KthreadStopInv ==
  ASSUME IInv, KthreadStop
  PROVE  IInv'
<1> USE DEF IInv
<1>1. pc' = [pc EXCEPT ![Remounter] = "join"]
  BY DEF KthreadStop, Goto
<1>2. Remounter \in Actors /\ Remounter \notin Tasks
  BY ActorAssumption DEF Actors
<1>3. Uncounted(pc') = Uncounted(pc)
  BY <1>1, <1>2, UncountedStays DEF KthreadStop, Goto
<1>4. QueuedCkptAccount'
  BY <1>3, AccountStays DEF KthreadStop, queueVars, batchVars
<1>5. TypeOK'
  BY <1>1, <1>2 DEF KthreadStop, TypeOK, Labels, Results, threadVars, queueVars, batchVars, cpVars, reqVars
<1>6. ReqInv'
  <2>1. Batches' /\ QueuedRequests' /\ NoneLost'
    BY <1>1, <1>2, ActorAssumption DEF KthreadStop, Goto, Actors, TypeOK, threadVars, queueVars, batchVars, cpVars, reqVars,
       ReqInv, Batches, QueuedRequests, NoneLost, Queued, Enqueued
  <2>2. OnePlace' /\ ThreadKnown'
    BY <1>1, <1>2, ActorAssumption DEF KthreadStop, Goto, Actors, TypeOK, threadVars, queueVars, batchVars, reqVars,
       ReqInv, OnePlace, ThreadKnown
  <2>3. Writing' /\ ResultsTrue'
    BY <1>1, <1>2, ActorAssumption DEF KthreadStop, Goto, Actors, TypeOK, threadVars, queueVars, batchVars, cpVars, reqVars,
       ReqInv, Writing, ResultsTrue
  <2> QED BY <2>1, <2>2, <2>3 DEF ReqInv
<1> QED BY <1>4, <1>5, <1>6

\* It has stopped.
LEMMA JoinThreadInv ==
  ASSUME IInv, JoinThread
  PROVE  IInv'
<1> USE DEF IInv
<1>1. pc' = [pc EXCEPT ![Remounter] = "flush"]
  BY DEF JoinThread, Goto
<1>2. Remounter \in Actors /\ Remounter \notin Tasks
  BY ActorAssumption DEF Actors
<1>3. Uncounted(pc') = Uncounted(pc)
  BY <1>1, <1>2, UncountedStays DEF JoinThread, Goto
<1>4. QueuedCkptAccount'
  BY <1>3, AccountStays DEF JoinThread, queueVars, batchVars
<1>5. TypeOK'
  BY <1>1, <1>2 DEF JoinThread, TypeOK, Labels, Results, threadVars, queueVars, batchVars, cpVars, reqVars
<1>6. ReqInv'
  <2>1. Batches' /\ QueuedRequests' /\ NoneLost'
    BY <1>1, <1>2, ActorAssumption DEF JoinThread, Goto, Actors, TypeOK, threadVars, queueVars, batchVars, cpVars, reqVars,
       ReqInv, Batches, QueuedRequests, NoneLost, Queued, Enqueued
  <2>2. OnePlace' /\ ThreadKnown'
    BY <1>1, <1>2, ActorAssumption DEF JoinThread, Goto, Actors, TypeOK, threadVars, queueVars, batchVars, reqVars,
       ReqInv, OnePlace, ThreadKnown
  <2>3. Writing' /\ ResultsTrue'
    BY <1>1, <1>2, ActorAssumption DEF JoinThread, Goto, Actors, TypeOK, threadVars, queueVars, batchVars, cpVars, reqVars,
       ReqInv, Writing, ResultsTrue
  <2> QED BY <2>1, <2>2, <2>3 DEF ReqInv
<1> QED BY <1>4, <1>5, <1>6

\* A request is added to the list.
LEMMA AddInv ==
  ASSUME IInv, NEW t \in Tasks, Add(t)
  PROVE  IInv'
<1> USE DEF IInv
<1>1. pc' = [pc EXCEPT ![t] = "count"] /\ pc[t] = "add" /\ t \in Actors
  BY DEF Add, Goto, Actors
<1>2. t \notin issue_list
  BY <1>1 DEF ReqInv, QueuedRequests, Queued
<1>3. Uncounted(pc') = Uncounted(pc) \cup {t} /\ t \notin Uncounted(pc)
  BY <1>1 DEF Uncounted, TypeOK
<1>4. Cardinality(Uncounted(pc')) = Cardinality(Uncounted(pc)) + 1
  <2>1. IsFiniteSet(Uncounted(pc))
    BY FiniteSubsets DEF Uncounted
  <2> QED BY <1>3, <2>1, FS_AddElement
<1>5. Cardinality(issue_list') = Cardinality(issue_list) + 1
  <2>1. IsFiniteSet(issue_list)
    BY FiniteSubsets DEF TypeOK
  <2> QED BY <1>2, <2>1, FS_AddElement DEF Add
<1>6. QueuedCkptAccount'
  <2>1. Cardinality(Uncounted(pc)) \in Nat /\ Cardinality(issue_list) \in Nat
    BY FiniteSubsets DEF Uncounted, TypeOK
  <2>2. queued_ckpt' = queued_ckpt /\ taken' = taken /\ queued_ckpt \in Int
    BY DEF Add, batchVars, TypeOK
  <2>3. Cardinality(Pending(taken)) \in Nat
    BY PendingFinite DEF TypeOK, N
  <2> QED BY <1>4, <1>5, <2>1, <2>2, <2>3, AccountDef
<1>7. TypeOK'
  BY <1>1 DEF Add, TypeOK, Labels, threadVars, batchVars, cpVars, reqVars
<1>8. ReqInv'
  BY <1>1, ActorAssumption DEF Add, Actors, TypeOK, threadVars, batchVars, cpVars, reqVars,
     ReqInv, Batches, QueuedRequests, OnePlace, NoneLost, Writing, ResultsTrue, ThreadKnown,
     Queued, Enqueued
<1> QED BY <1>6, <1>7, <1>8

\* The call counts its request.
LEMMA CountInv ==
  ASSUME IInv, NEW t \in Tasks, Count(t)
  PROVE  IInv'
<1> USE DEF IInv
<1>1. pc' = [pc EXCEPT ![t] = "choose"] /\ pc[t] = "count" /\ t \in Actors
  BY DEF Count, Goto, Actors
<1>2. Uncounted(pc') = Uncounted(pc) \ {t} /\ t \in Uncounted(pc)
  BY <1>1 DEF Uncounted, TypeOK
<1>3. IsFiniteSet(Uncounted(pc)) /\ Cardinality(Uncounted(pc)) \in Nat
  BY FiniteSubsets DEF Uncounted
<1>4. Cardinality(Uncounted(pc')) = Cardinality(Uncounted(pc)) - 1
  BY <1>2, <1>3, FS_RemoveElement
<1>5. QueuedCkptAccount'
  <2>1. queued_ckpt' = queued_ckpt + 1 /\ issue_list' = issue_list /\ taken' = taken
    BY DEF Count, batchVars
  <2>2. queued_ckpt \in Int
    BY DEF TypeOK
  <2> QED BY <1>3, <1>4, <2>1, <2>2, AccountDef
<1>6. TypeOK'
  BY <1>1 DEF Count, TypeOK, Labels, threadVars, batchVars, cpVars, reqVars
<1>7. ReqInv'
  BY <1>1, ActorAssumption DEF Count, Actors, TypeOK, threadVars, batchVars, cpVars, reqVars,
     ReqInv, Batches, QueuedRequests, OnePlace, NoneLost, Writing, ResultsTrue, ThreadKnown,
     Queued, Enqueued
<1> QED BY <1>5, <1>6, <1>7

\* An actor takes the whole list, its own batch being empty before.
LEMMA TakeInv ==
  ASSUME IInv, NEW a \in Actors, Take(a)
  PROVE  IInv'
<1> USE DEF IInv
<1>1. PICK x \in {"returned", "sleep", "idle", "begin"} :
        /\ pc' = [pc EXCEPT ![a] = x]
        /\ issue_list # {} <=> x = "begin"
        /\ a \in Tasks => x # "idle"
  BY DEF Take, Goto, After
<1>2. pc[a] = "take" /\ dispatch_list[a] = {} /\ taken[a] = 0
  BY DEF Take, Goto, ReqInv, Batches
<1>3. Uncounted(pc') = Uncounted(pc)
  BY <1>1, <1>2, UncountedStays
<1>4. Cardinality(issue_list) \in 0 .. N /\ taken \in [Actors -> 0 .. N]
  BY FiniteSubsets DEF TypeOK, N
<1>5. QueuedCkptAccount'
  <2>1. taken' = [taken EXCEPT ![a] = Cardinality(issue_list)]
    BY DEF Take
  <2>2. Cardinality(Pending(taken')) = Cardinality(Pending(taken)) + Cardinality(issue_list)
    BY <1>2, <1>4, <2>1, PendingStep
  <2>3. Cardinality(issue_list') = 0 /\ queued_ckpt' = queued_ckpt
    BY FS_EmptySet DEF Take
  <2>4. Cardinality(Pending(taken)) \in Nat /\ N \in Nat
    BY <1>4, PendingFinite, FiniteSubsets
  <2>5. Cardinality(Pending(taken')) + Cardinality(issue_list')
          = Cardinality(issue_list) + Cardinality(Pending(taken))
    BY <1>4, <2>2, <2>3, <2>4
  <2>6. Cardinality(Pending(taken')) + Cardinality(issue_list')
          = Cardinality(issue_list') + Cardinality(Pending(taken'))
    BY <1>4, <2>2, <2>3, <2>4
  <2> QED BY <1>3, <2>3, <2>5, <2>6, AccountDef
<1>6. TypeOK'
  BY <1>1, <1>4 DEF Take, TypeOK, Labels, N, threadVars, cpVars, reqVars
<1>7. Batches' /\ OnePlace'
  BY <1>1, <1>2, FS_EmptySet DEF Take, Actors, TypeOK, ReqInv, Batches, OnePlace
<1>8. QueuedRequests' /\ NoneLost'
  BY <1>1, <1>2 DEF Take, TypeOK, reqVars, ReqInv, Batches, QueuedRequests, NoneLost, Queued, Enqueued
<1>9. Writing' /\ ResultsTrue' /\ ThreadKnown'
  BY <1>1, <1>2, ActorAssumption DEF Take, Actors, TypeOK, threadVars, cpVars, reqVars,
     ReqInv, Batches, Writing, ResultsTrue, ThreadKnown
<1> QED BY <1>5, <1>6, <1>7, <1>8, <1>9 DEF ReqInv

\* A checkpoint ends: the calls it was written for are on the device if it
\* succeeded.
LEMMA EndInv ==
  ASSUME IInv, NEW a \in Actors, End(a)
  PROVE  IInv'
<1> USE DEF IInv
<1>1. PICK result \in Results :
        /\ Goto(a, "end", IF dispatch_list[a] = {} THEN "returned" ELSE "complete")
        /\ gc_lock' = Nobody
        /\ began' = {}
        /\ durable' = IF result = "ok" THEN durable \cup began ELSE durable
        /\ err' = [err EXCEPT ![a] = result]
        /\ ret' = IF dispatch_list[a] = {} THEN [ret EXCEPT ![a] = result] ELSE ret
        /\ UNCHANGED <<threadVars, queueVars, batchVars, completed>>
  BY DEF End
<1>2. PICK x \in {"returned", "complete"} :
        pc' = [pc EXCEPT ![a] = x] /\ (dispatch_list[a] = {} <=> x = "returned")
  BY <1>1 DEF Goto
<1>3. pc[a] = "end"
  BY <1>1 DEF Goto
<1>4. Uncounted(pc') = Uncounted(pc)
  BY <1>2, <1>3, UncountedStays
<1>5. QueuedCkptAccount'
  BY <1>1, <1>4, AccountStays DEF queueVars, batchVars
<1>6. TypeOK'
  BY <1>1, <1>2 DEF TypeOK, Labels, threadVars, queueVars, batchVars
<1>7. /\ Batches'
      /\ OnePlace' /\ ThreadKnown' /\ QueuedRequests' /\ NoneLost'
  <2>1. Batches'
    BY <1>1, <1>2, <1>3 DEF TypeOK, batchVars, ReqInv, Batches
  <2>2. OnePlace' /\ ThreadKnown'
    BY <1>1, <1>2, <1>3, ActorAssumption DEF Actors, TypeOK, threadVars, queueVars, batchVars,
       ReqInv, OnePlace, ThreadKnown
  <2>3. QueuedRequests' /\ NoneLost'
    BY <1>1, <1>2, <1>3 DEF TypeOK, queueVars, batchVars,
       ReqInv, QueuedRequests, NoneLost, Queued, Enqueued
  <2> QED BY <2>1, <2>2, <2>3
<1>8. Writing'
  BY <1>1, <1>2, <1>3, ActorAssumption DEF TypeOK, ReqInv, Writing
<1>9. ResultsTrue'
  BY <1>1, <1>2, <1>3 DEF TypeOK, batchVars, ReqInv, Writing, ResultsTrue, Results
<1> QED BY <1>5, <1>6, <1>7, <1>8, <1>9 DEF ReqInv

\* An actor completes one request of its batch.
LEMMA CompleteInv ==
  ASSUME IInv, NEW a \in Actors, NEW r \in Tasks, Complete(a, r)
  PROVE  IInv'
<1> USE DEF IInv
<1>1. PICK x \in {"subtract", "complete"} :
        pc' = [pc EXCEPT ![a] = x] /\ (dispatch_list[a] = {r} <=> x = "subtract")
  BY DEF Complete, TypeOK
<1>2. pc[a] = "complete" /\ r \in dispatch_list[a]
  BY DEF Complete
<1>3. Uncounted(pc') = Uncounted(pc)
  BY <1>1, <1>2, UncountedStays
<1>4. QueuedCkptAccount'
  BY <1>3, AccountStays DEF Complete, queueVars
<1>5. TypeOK'
  BY <1>1 DEF Complete, TypeOK, Labels, threadVars, queueVars, cpVars
<1>6. Batches' /\ OnePlace' /\ Writing' /\ ThreadKnown'
  <2>1. Batches'
    BY <1>1, <1>2 DEF Complete, TypeOK, ReqInv, Batches
  <2>2. OnePlace'
    BY <1>1, <1>2 DEF Complete, TypeOK, queueVars, ReqInv, OnePlace
  <2>3. Writing' /\ ThreadKnown'
    BY <1>1, <1>2, ActorAssumption DEF Complete, Actors, TypeOK, threadVars, cpVars,
       ReqInv, Writing, ThreadKnown
  <2> QED BY <2>1, <2>2, <2>3
<1>7. QueuedRequests' /\ NoneLost'
  BY <1>1, <1>2 DEF Complete, TypeOK, queueVars, ReqInv, QueuedRequests, OnePlace, NoneLost,
     Queued, Enqueued
<1>8. ResultsTrue'
  BY <1>1, <1>2 DEF Complete, TypeOK, cpVars, ReqInv, ResultsTrue
<1> QED BY <1>4, <1>5, <1>6, <1>7, <1>8 DEF ReqInv

\* An actor takes its batch off queued_ckpt.
LEMMA SubtractInv ==
  ASSUME IInv, NEW a \in Actors, Subtract(a)
  PROVE  IInv'
<1> USE DEF IInv
<1>1. PICK x \in {"returned", "sleep", "idle"} :
        pc' = [pc EXCEPT ![a] = x] /\ (a \in Tasks => x # "idle")
  BY DEF Subtract, Goto, After
<1>2. pc[a] = "subtract" /\ taken' = [taken EXCEPT ![a] = 0]
  BY DEF Subtract, Goto
<1>3. Uncounted(pc') = Uncounted(pc)
  BY <1>1, <1>2, UncountedStays
<1>4. taken \in [Actors -> 0 .. N] /\ N \in Nat /\ taken[a] \in 0 .. N
  BY FiniteSubsets DEF TypeOK, N
<1>5. QueuedCkptAccount'
  <2>1. taken' \in [Actors -> 0 .. N] /\ taken'[a] = 0 /\ taken = [taken' EXCEPT ![a] = taken[a]]
    <3> DEFINE k == [taken EXCEPT ![a] = 0]
    <3>1. k \in [Actors -> 0 .. N] /\ k[a] = 0
      BY <1>4
    <3>2. taken = [k EXCEPT ![a] = taken[a]]
      BY <1>4
    <3> QED BY <1>2, <3>1, <3>2, Zenon
  <2>2. Cardinality(Pending(taken)) = Cardinality(Pending(taken')) + taken[a]
    BY <1>4, <2>1, PendingStep
  <2>3. queued_ckpt' = queued_ckpt - taken[a] /\ issue_list' = issue_list /\ queued_ckpt \in Int
    BY DEF Subtract, TypeOK
  <2>4. /\ Cardinality(Pending(taken')) \in Nat
        /\ Cardinality(Uncounted(pc)) \in Nat /\ Cardinality(issue_list) \in Nat
    BY <2>1, PendingFinite, FiniteSubsets DEF TypeOK, Uncounted
  <2>5. queued_ckpt' + Cardinality(Uncounted(pc))
          = Cardinality(issue_list) + Cardinality(Pending(taken'))
    BY <1>4, <2>2, <2>3, <2>4, AccountDef
  <2> QED BY <1>3, <2>3, <2>5, AccountDef
<1>6. TypeOK'
  BY <1>1, <1>2, <1>4 DEF Subtract, TypeOK, Labels, N, threadVars, cpVars, reqVars
<1>7. Batches' /\ OnePlace'
  BY <1>1, <1>2, ActorAssumption DEF Subtract, Actors, TypeOK, ReqInv, Batches, OnePlace
<1>8. QueuedRequests' /\ NoneLost'
  BY <1>1, <1>2 DEF Subtract, TypeOK, reqVars, ReqInv, Batches, QueuedRequests, NoneLost, Queued, Enqueued
<1>9. Writing' /\ ResultsTrue' /\ ThreadKnown'
  BY <1>1, <1>2, ActorAssumption DEF Subtract, Actors, TypeOK, threadVars, cpVars, reqVars,
     ReqInv, Batches, Writing, ResultsTrue, ThreadKnown
<1> QED BY <1>5, <1>6, <1>7, <1>8, <1>9 DEF ReqInv

-----------------------------------------------------------------------------
\* A mounted volume without a checkpoint thread satisfies the invariant.
LEMMA InitInv == Init => IInv
<1> SUFFICES ASSUME Init PROVE IInv
  OBVIOUS
<1>1. Uncounted(pc) = {} /\ Cardinality({}) = 0 /\ N \in Nat
  BY ActorAssumption, FS_EmptySet, FiniteSubsets DEF Init, Uncounted, Actors
<1>2. Pending(taken) = {}
  BY <1>1 DEF Init, Pending
<1>3. QueuedCkptAccount
  BY <1>1, <1>2, AccountDef DEF Init
<1>4. TypeOK
  <2>1. pc \in [Actors -> Labels] /\ taken \in [Actors -> 0 .. Cardinality(Tasks)]
    BY <1>1 DEF Init, Labels, N
  <2>2. /\ dispatch_list \in [Actors -> SUBSET Tasks]
        /\ err \in [Actors -> Results] /\ ret \in [Tasks -> Results]
    BY DEF Init, Results
  <2>3. f3fs_issue_ckpt \in BOOLEAN /\ should_stop \in BOOLEAN /\ create_failed \in BOOLEAN
    BY DEF Init
  <2>4. /\ issue_list \subseteq Tasks /\ queued_ckpt \in Int /\ gc_lock \in Actors \cup {Nobody}
        /\ began \subseteq Tasks /\ completed \subseteq Tasks /\ durable \subseteq Tasks
    BY DEF Init
  <2> QED BY <2>1, <2>2, <2>3, <2>4 DEF TypeOK
<1>5. ReqInv
  BY ActorAssumption DEF Init, Actors, ReqInv, Batches, QueuedRequests, OnePlace, NoneLost,
     Writing, ResultsTrue, ThreadKnown, Queued, Enqueued
<1> QED BY <1>3, <1>4, <1>5 DEF IInv

\* The invariant holds in every reachable state, for any number of tasks.
THEOREM CkptReqInvariant == Spec => []IInv
<1>1. IInv /\ [Next]_vars => IInv'
  <2> SUFFICES ASSUME IInv, [Next]_vars PROVE IInv'
    OBVIOUS
  <2>1. ASSUME NEW t \in Tasks, NEW merge \in BOOLEAN, Issue(t, merge) PROVE IInv'
    BY <2>1, IssueInv
  <2>2. ASSUME NEW t \in Tasks, TaskStep(t) PROVE IInv'
    BY <2>2, AddInv, CountInv, ChooseInv, WaitInv DEF TaskStep
  <2>3. ASSUME NEW a \in Actors, Dispatch(a) PROVE IInv'
    BY <2>3, FlushRemainedInv, TakeInv, BeginInv, EndInv, CompleteInv, SubtractInv DEF Dispatch
  <2>4. CASE ThreadTop \/ ThreadWake
    BY <2>4, ThreadTopInv, ThreadWakeInv
  <2>5. CASE StartThread \/ StartFails \/ StopThread \/ RemountStep
    BY <2>5, StartThreadInv, StartFailsInv, StopThreadInv, StartResetInv, KthreadStopInv,
       JoinThreadInv DEF RemountStep
  <2>6. CASE UNCHANGED vars
    <3>1. UNCHANGED <<pc, queued_ckpt, issue_list, taken>>
      BY <2>6 DEF vars, queueVars, batchVars
    <3>2. QueuedCkptAccount'
      BY <3>1, AccountDef DEF IInv
    <3>3. TypeOK' /\ ReqInv'
      BY <2>6 DEF vars, threadVars, queueVars, batchVars, cpVars, reqVars, IInv, TypeOK, ReqInv,
         Batches, QueuedRequests, OnePlace, NoneLost, Writing, ResultsTrue, ThreadKnown,
         Queued, Enqueued
    <3> QED BY <3>2, <3>3 DEF IInv
  <2> QED BY <2>1, <2>2, <2>3, <2>4, <2>5, <2>6 DEF Next
<1> QED BY <1>1, InitInv, PTL DEF Spec

\* Every request is in one place until it is completed, and queued_ckpt is the
\* number of the requests that are queued or being dispatched, up to the calls
\* between llist_add and atomic_inc.
THEOREM RequestsAccountedAlways == Spec => []RequestsAccounted
<1>1. ASSUME IInv PROVE RequestInOnePlace
  <2> SUFFICES ASSUME NEW t \in Tasks
               PROVE  LET holders == {a \in Actors : t \in dispatch_list[a]} IN
                      /\ Cardinality(holders) <= 1
                      /\ t \in issue_list => holders = {} /\ t \notin completed
                      /\ pc[t] \in {"count", "choose", "flush", "wait"} /\ t \notin completed
                           => t \in issue_list \/ holders # {}
    BY DEF RequestInOnePlace
  <2> DEFINE holders == {a \in Actors : t \in dispatch_list[a]}
  <2>1. Cardinality(holders) <= 1
    <3>1. CASE holders = {}
      BY <3>1, FS_EmptySet
    <3>2. ASSUME NEW a \in holders PROVE Cardinality(holders) <= 1
      <4>1. holders = {a}
        BY <1>1 DEF IInv, ReqInv, OnePlace
      <4>2. Cardinality({a}) = 1
        BY FS_Singleton
      <4> QED BY <4>1, <4>2
    <3> QED BY <3>1, <3>2
  <2>2. t \in issue_list => holders = {} /\ t \notin completed
    BY <1>1 DEF IInv, ReqInv, OnePlace, QueuedRequests, Queued
  <2>3. pc[t] \in {"count", "choose", "flush", "wait"} /\ t \notin completed
          => t \in issue_list \/ holders # {}
    BY <1>1 DEF IInv, ReqInv, NoneLost, Queued, Enqueued
  <2> QED BY <2>1, <2>2, <2>3
<1>2. IInv => RequestsAccounted
  BY <1>1 DEF IInv, RequestsAccounted
<1> QED BY <1>2, CkptReqInvariant, PTL

\* A call of f3fs_issue_checkpoint that returns 0 finds its changes in a
\* checkpoint, unless another actor still holds its request as it returns.
THEOREM CheckpointedUnlessTakenAlways == Spec => CheckpointedUnlessTaken
<1> DEFINE Kept(t) == t \in durable' \/ \E a \in Actors \ {t} : t \in dispatch_list[a]
           Step == \A t \in Tasks :
                     pc[t] # "returned" /\ pc'[t] = "returned" /\ ret'[t] = "ok" => Kept(t)
<1>1. IInv /\ [Next]_vars => [Step]_vars
  <2> SUFFICES ASSUME IInv, Next, NEW t \in Tasks,
                      pc[t] # "returned", pc'[t] = "returned", ret'[t] = "ok"
               PROVE  Kept(t)
    OBVIOUS
  <2> USE DEF IInv
  <2>1. t # Thread /\ t # Remounter /\ t \in Actors
    BY ActorAssumption DEF Actors
  <2>2. ASSUME NEW u \in Tasks, NEW merge \in BOOLEAN, Issue(u, merge) PROVE Kept(t)
    BY <2>2 DEF Issue, Goto, TypeOK
  <2>3. ASSUME NEW u \in Tasks, TaskStep(u) PROVE Kept(t)
    <3>1. CASE Add(u) \/ Count(u) \/ Choose(u)
      BY <3>1, <2>1 DEF Add, Count, Choose, Goto, TypeOK
    <3>2. CASE Wait(u)
      BY <3>2, <2>1 DEF Wait, Goto, TypeOK, reqVars, cpVars, ReqInv, ResultsTrue
    <3> QED BY <2>3, <3>1, <3>2 DEF TaskStep
  <2>4. ASSUME NEW a \in Actors, Dispatch(a) PROVE Kept(t)
    <3>1. CASE FlushRemained(a) \/ Begin(a)
      BY <3>1, <2>1 DEF FlushRemained, Begin, Goto, TypeOK
    <3>2. CASE Take(a) \/ Subtract(a)
      <4>1. a = t /\ pc[t] \in {"take", "subtract"} /\ (Take(a) => issue_list = {})
        BY <3>2, <2>1 DEF Take, Subtract, Goto, After, TypeOK
      <4>2. dispatch_list[t] = {} /\ ret' = ret /\ durable' = durable
        BY <3>2, <4>1, <2>1 DEF Take, Subtract, ReqInv, Batches, reqVars, cpVars
      <4>3. t \notin issue_list
        BY <3>2, <4>1 DEF Subtract, Goto, ReqInv, QueuedRequests
      <4> QED BY <4>1, <4>2, <4>3, <2>1 DEF ReqInv, NoneLost, Enqueued, Queued, ResultsTrue
    <3>3. CASE End(a)
      BY <3>3, <2>1 DEF End, Goto, TypeOK, ReqInv, Writing
    <3>4. ASSUME NEW r \in Tasks, Complete(a, r) PROVE Kept(t)
      BY <3>4, <2>1 DEF Complete, TypeOK
    <3> QED BY <2>4, <3>1, <3>2, <3>3, <3>4 DEF Dispatch
  <2>5. CASE ThreadTop \/ ThreadWake \/ StartThread \/ StartFails \/ StopThread \/ RemountStep
    BY <2>5, <2>1 DEF ThreadTop, ThreadWake, StartThread, StartFails, StopThread, RemountStep,
       StartReset, KthreadStop, JoinThread, Goto, TypeOK
  <2> QED BY <2>2, <2>3, <2>4, <2>5 DEF Next
<1> QED BY <1>1, CkptReqInvariant, PTL DEF Spec, CheckpointedUnlessTaken

=============================================================================
