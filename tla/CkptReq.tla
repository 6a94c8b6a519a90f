------------------------------ MODULE CkptReq -------------------------------
(***************************************************************************)
(* Merged checkpoint requests: f3fs_issue_checkpoint, the checkpoint       *)
(* thread, and starting and stopping it on remount.                        *)
(* src/f2fs/checkpoint.c.                                                  *)
(*                                                                         *)
(* Every task makes one call.  A checkpoint is a begin and an end under    *)
(* gc_lock; the changes a task wants on the device are in it when it       *)
(* begins after the task's call.  The request lives on the task's stack.   *)
(***************************************************************************)
EXTENDS Integers, FiniteSets

CONSTANTS Tasks,        \* callers of f3fs_issue_checkpoint
          Thread,       \* the checkpoint thread
          Remounter,    \* the task that starts and stops it
          Nobody

Actors == Tasks \cup {Thread, Remounter}

ASSUME ActorAssumption ==
  /\ Thread # Remounter
  /\ {Thread, Remounter} \cap Tasks = {}
  /\ Nobody \notin Actors
  /\ IsFiniteSet(Tasks)

VARIABLES
  pc,               \* where every actor is
  f3fs_issue_ckpt,  \* cprc->f3fs_issue_ckpt is not NULL
  should_stop,      \* kthread_should_stop of the thread
  create_failed,    \* kthread_run has failed once
  issue_list,       \* requests queued
  queued_ckpt,      \* cprc->queued_ckpt
  dispatch_list,    \* requests an actor has taken and not completed
  taken,            \* how many it had taken
  gc_lock,          \* the actor writing a checkpoint
  began,            \* tasks whose call preceded the running checkpoint
  err,              \* the result of an actor's f3fs_write_checkpoint
  ret,              \* req->ret, or the value a direct call returns
  completed,        \* requests with req->wait completed
  durable           \* tasks whose changes a finished checkpoint contains

threadVars == <<f3fs_issue_ckpt, should_stop, create_failed>>
queueVars  == <<issue_list, queued_ckpt>>
batchVars  == <<dispatch_list, taken>>
cpVars     == <<gc_lock, began, durable>>
reqVars    == <<ret, completed>>
vars == <<pc, threadVars, queueVars, batchVars, cpVars, err, reqVars>>

Labels == {"idle", "begin", "end", "add", "count", "choose", "flush", "wait", "take",
           "complete", "subtract", "returned", "none", "top", "sleep", "stop", "join",
           "failed"}
Results == {"ok", "error"}

\* Every variable has the range its C declaration and its use give it.
TypeOK ==
  /\ pc \in [Actors -> Labels]
  /\ f3fs_issue_ckpt \in BOOLEAN
  /\ should_stop \in BOOLEAN
  /\ create_failed \in BOOLEAN
  /\ issue_list \subseteq Tasks
  /\ queued_ckpt \in Int
  /\ dispatch_list \in [Actors -> SUBSET Tasks]
  /\ taken \in [Actors -> 0 .. Cardinality(Tasks)]
  /\ gc_lock \in Actors \cup {Nobody}
  /\ began \subseteq Tasks
  /\ err \in [Actors -> Results]
  /\ ret \in [Tasks -> Results]
  /\ completed \subseteq Tasks
  /\ durable \subseteq Tasks

\* The volume is mounted and the thread has not been started.
Init ==
  /\ pc = [a \in Actors |-> IF a = Thread THEN "none" ELSE "idle"]
  /\ f3fs_issue_ckpt = FALSE
  /\ should_stop = FALSE
  /\ create_failed = FALSE
  /\ issue_list = {}
  /\ queued_ckpt = 0
  /\ dispatch_list = [a \in Actors |-> {}]
  /\ taken = [a \in Actors |-> 0]
  /\ gc_lock = Nobody
  /\ began = {}
  /\ err = [a \in Actors |-> "ok"]
  /\ ret = [t \in Tasks |-> "ok"]
  /\ completed = {}
  /\ durable = {}

Goto(a, from, to) == pc[a] = from /\ pc' = [pc EXCEPT ![a] = to]

-----------------------------------------------------------------------------
\* f3fs_issue_checkpoint: without the MERGE_CHECKPOINT option, for another
\* reason than CP_SYNC, or without a thread, the task writes the checkpoint.
Issue(t, merge) ==
  /\ Goto(t, "idle", IF merge /\ f3fs_issue_ckpt THEN "add" ELSE "begin")
  /\ UNCHANGED <<threadVars, queueVars, batchVars, cpVars, err, reqVars>>

\* init_ckpt_req and llist_add
Add(t) ==
  /\ Goto(t, "add", "count")
  /\ issue_list' = issue_list \cup {t}
  /\ UNCHANGED <<threadVars, queued_ckpt, batchVars, cpVars, err, reqVars>>

\* atomic_inc(&cprc->queued_ckpt), and the wake-up of a sleeping thread
Count(t) ==
  /\ Goto(t, "count", "choose")
  /\ queued_ckpt' = queued_ckpt + 1
  /\ UNCHANGED <<threadVars, issue_list, batchVars, cpVars, err, reqVars>>

\* The second look at cprc->f3fs_issue_ckpt
Choose(t) ==
  /\ Goto(t, "choose", IF f3fs_issue_ckpt THEN "wait" ELSE "flush")
  /\ UNCHANGED <<threadVars, queueVars, batchVars, cpVars, err, reqVars>>

\* Variant: the wait can be interrupted.
WaitInterrupted(t) ==
  /\ Goto(t, "wait", "returned")
  /\ UNCHANGED <<threadVars, queueVars, batchVars, cpVars, err, reqVars>>

\* wait_for_completion
Wait(t) ==
  /\ Goto(t, "wait", "returned")
  /\ t \in completed
  /\ UNCHANGED <<threadVars, queueVars, batchVars, cpVars, err, reqVars>>

-----------------------------------------------------------------------------
\* flush_remained_ckpt_reqs, by a task that found no thread or by
\* f3fs_stop_ckpt_thread.
FlushRemained(a) ==
  /\ Goto(a, "flush", IF issue_list # {} THEN "take"
                      ELSE IF a \in Tasks THEN "wait" ELSE "idle")
  /\ UNCHANGED <<threadVars, queueVars, batchVars, cpVars, err, reqVars>>

\* Where an actor goes after __checkpoint_and_complete_reqs: a task returns
\* req.ret, the thread goes to sleep, f3fs_stop_ckpt_thread returns.
After(a) == IF a \in Tasks THEN "returned" ELSE IF a = Thread THEN "sleep" ELSE "idle"

\* llist_del_all
Take(a) ==
  /\ Goto(a, "take", IF issue_list = {} THEN After(a) ELSE "begin")
  /\ dispatch_list' = [dispatch_list EXCEPT ![a] = issue_list]
  /\ taken' = [taken EXCEPT ![a] = Cardinality(issue_list)]
  /\ issue_list' = {}
  /\ UNCHANGED <<threadVars, queued_ckpt, cpVars, err, reqVars>>

\* f3fs_write_checkpoint, under gc_lock
Begin(a) ==
  /\ Goto(a, "begin", "end")
  /\ gc_lock = Nobody
  /\ gc_lock' = a
  /\ began' = {t \in Tasks : pc[t] # "idle"}
  /\ UNCHANGED <<threadVars, queueVars, batchVars, durable, err, reqVars>>

\* Its end, with any result; a task that called it directly returns.
End(a) ==
  LET direct == dispatch_list[a] = {} IN
  \E result \in Results :
    /\ Goto(a, "end", IF direct THEN "returned" ELSE "complete")
    /\ gc_lock' = Nobody
    /\ began' = {}
    /\ durable' = IF result = "ok" THEN durable \cup began ELSE durable
    /\ err' = [err EXCEPT ![a] = result]
    /\ ret' = IF direct THEN [ret EXCEPT ![a] = result] ELSE ret
    /\ UNCHANGED <<threadVars, queueVars, batchVars, completed>>

\* req->ret = ret; complete(&req->wait).  Stores to the request of a task that
\* has returned change nothing here.
Complete(a, r) ==
  /\ pc[a] = "complete"
  /\ r \in dispatch_list[a]
  /\ dispatch_list' = [dispatch_list EXCEPT ![a] = @ \ {r}]
  /\ pc' = [pc EXCEPT ![a] = IF dispatch_list[a] = {r} THEN "subtract" ELSE @]
  /\ ret' = IF pc[r] = "returned" THEN ret ELSE [ret EXCEPT ![r] = err[a]]
  /\ completed' = completed \cup {r}
  /\ UNCHANGED <<threadVars, queueVars, taken, cpVars, err>>

\* Variant: one request at most is counted.
SubtractOne(a) ==
  /\ Goto(a, "subtract", After(a))
  /\ queued_ckpt' = queued_ckpt - 1
  /\ taken' = [taken EXCEPT ![a] = 0]
  /\ UNCHANGED <<threadVars, issue_list, dispatch_list, cpVars, err, reqVars>>

\* atomic_sub(count, &cprc->queued_ckpt)
Subtract(a) ==
  /\ Goto(a, "subtract", After(a))
  /\ queued_ckpt' = queued_ckpt - taken[a]
  /\ taken' = [taken EXCEPT ![a] = 0]
  /\ UNCHANGED <<threadVars, issue_list, dispatch_list, cpVars, err, reqVars>>

-----------------------------------------------------------------------------
\* issue_checkpoint_thread
ThreadTop ==
  /\ Goto(Thread, "top", IF should_stop THEN "none"
                         ELSE IF issue_list # {} THEN "take" ELSE "sleep")
  /\ UNCHANGED <<threadVars, queueVars, batchVars, cpVars, err, reqVars>>

ThreadWake ==
  /\ Goto(Thread, "sleep", "top")
  /\ should_stop \/ issue_list # {}
  /\ UNCHANGED <<threadVars, queueVars, batchVars, cpVars, err, reqVars>>

\* f3fs_start_ckpt_thread: kthread_run succeeds,
StartThread ==
  /\ pc[Remounter] = "idle"
  /\ ~f3fs_issue_ckpt
  /\ pc' = [pc EXCEPT ![Thread] = "top"]
  /\ f3fs_issue_ckpt' = TRUE
  /\ should_stop' = FALSE
  /\ UNCHANGED <<create_failed, queueVars, batchVars, cpVars, err, reqVars>>

\* or leaves an error pointer,
StartFails ==
  /\ Goto(Remounter, "idle", "failed")
  /\ ~f3fs_issue_ckpt
  /\ f3fs_issue_ckpt' = TRUE
  /\ create_failed' = TRUE
  /\ UNCHANGED <<should_stop, queueVars, batchVars, cpVars, err, reqVars>>

\* which is replaced by NULL.
StartReset ==
  /\ Goto(Remounter, "failed", "idle")
  /\ f3fs_issue_ckpt' = FALSE
  /\ UNCHANGED <<should_stop, create_failed, queueVars, batchVars, cpVars, err, reqVars>>

\* f3fs_stop_ckpt_thread
StopThread ==
  /\ Goto(Remounter, "idle", "stop")
  /\ f3fs_issue_ckpt
  /\ f3fs_issue_ckpt' = FALSE
  /\ UNCHANGED <<should_stop, create_failed, queueVars, batchVars, cpVars, err, reqVars>>

\* kthread_stop
KthreadStop ==
  /\ Goto(Remounter, "stop", "join")
  /\ should_stop' = TRUE
  /\ UNCHANGED <<f3fs_issue_ckpt, create_failed, queueVars, batchVars, cpVars, err, reqVars>>

\* Variant: requests still queued are not looked for.
JoinThreadOnly ==
  /\ Goto(Remounter, "join", "idle")
  /\ pc[Thread] = "none"
  /\ UNCHANGED <<threadVars, queueVars, batchVars, cpVars, err, reqVars>>

JoinThread ==
  /\ Goto(Remounter, "join", "flush")
  /\ pc[Thread] = "none"
  /\ UNCHANGED <<threadVars, queueVars, batchVars, cpVars, err, reqVars>>

-----------------------------------------------------------------------------
TaskStep(t) == Add(t) \/ Count(t) \/ Choose(t) \/ Wait(t)

Dispatch(a) ==
  \/ FlushRemained(a) \/ Take(a) \/ Begin(a) \/ End(a)
  \/ \E r \in Tasks : Complete(a, r)
  \/ Subtract(a)

RemountStep == StartReset \/ KthreadStop \/ JoinThread

Next ==
  \/ \E t \in Tasks, merge \in BOOLEAN : Issue(t, merge)
  \/ \E t \in Tasks : TaskStep(t)
  \/ \E a \in Actors : Dispatch(a)
  \/ ThreadTop \/ ThreadWake
  \/ StartThread \/ StartFails \/ StopThread \/ RemountStep

\* The scheduler runs every runnable task; gc_lock is a fair rw_semaphore.
Fairness ==
  /\ \A t \in Tasks : WF_vars(TaskStep(t))
  /\ \A a \in Actors : WF_vars(FlushRemained(a) \/ Take(a) \/ End(a)
                                \/ (\E r \in Tasks : Complete(a, r)) \/ Subtract(a))
  /\ \A a \in Actors : SF_vars(Begin(a))
  /\ WF_vars(ThreadTop \/ ThreadWake)
  /\ WF_vars(RemountStep)

Spec == Init /\ [][Next]_vars
FairSpec == Spec /\ Fairness

-----------------------------------------------------------------------------
\* A request queued and not completed is in one place, the issue list or one
\* dispatch list, so no request is completed twice and none is lost.
RequestInOnePlace ==
  \A t \in Tasks :
    LET holders == {a \in Actors : t \in dispatch_list[a]} IN
    /\ Cardinality(holders) <= 1
    /\ t \in issue_list => holders = {} /\ t \notin completed
    /\ pc[t] \in {"count", "choose", "flush", "wait"} /\ t \notin completed
         => t \in issue_list \/ holders # {}

\* queued_ckpt counts the requests that are queued or being dispatched: it is
\* exact up to the calls between llist_add and atomic_inc.
QueuedCkptAccount ==
  LET Uncounted == {t \in Tasks : pc[t] = "count"}
      Pending   == {x \in Actors \X (1 .. Cardinality(Tasks)) : x[2] <= taken[x[1]]}
  IN queued_ckpt + Cardinality(Uncounted) = Cardinality(issue_list) + Cardinality(Pending)

\* A task whose f3fs_issue_checkpoint returns success finds its changes in a
\* checkpoint, unless another actor still holds its request as it returns.
CheckpointedUnlessTaken ==
  [][\A t \in Tasks : pc[t] # "returned" /\ pc'[t] = "returned" /\ ret'[t] = "ok" =>
       t \in durable' \/ \E a \in Actors \ {t} : t \in dispatch_list[a]]_vars

\* Every call of f3fs_issue_checkpoint returns, whether or not the thread is
\* stopped meanwhile.  When kthread_run fails its error pointer passes for a
\* thread, and a task that sees it waits for nobody.
RequestAnswered ==
  \A t \in Tasks : pc[t] # "idle" ~> (pc[t] = "returned" \/ create_failed)

\* The checkpoint requests are accounted for: each is in one place until it is
\* completed (checkpoint.c:1744), and queued_ckpt agrees with them.
RequestsAccounted == TypeOK /\ RequestInOnePlace /\ QueuedCkptAccount

=============================================================================
