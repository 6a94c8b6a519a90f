----------------------------- MODULE FlushMerge -----------------------------
(***************************************************************************)
(* Merging of device cache flushes: f3fs_issue_flush (called by fsync),    *)
(* the thread issue_flush_thread, and the creation and destruction of that *)
(* thread by a remount.  src/f2fs/segment.c:489-673, super.c:2360-2374.    *)
(*                                                                         *)
(* A command lives on the stack of its caller, so a task stands for its    *)
(* command: issue_list and the lists taken from it are sets of tasks.      *)
(* The statistics counter issued_flush is left out.  The memory-exhaustion *)
(* path of kthread_run is left out.  nobarrier mounts, where               *)
(* f3fs_issue_flush returns at once, are not considered.                   *)
(***************************************************************************)
EXTENDS Naturals, FiniteSets

CONSTANTS Tasks,          \* tasks that call fsync
          KThread         \* identity of issue_flush_thread as a flusher

ASSUME KThreadAssumption == KThread \notin Tasks /\ IsFiniteSet(Tasks)

Flushers == Tasks \cup {KThread}

VARIABLES
  pc,                 \* where each task is in f3fs_issue_flush
  issue_list,         \* fcc->issue_list
  taken,              \* list each flusher took: dispatch_list, or "list"
  queued_flush,       \* fcc->queued_flush
  cmd_ret,            \* cmd.ret of each command, "unset" until written
  completed,          \* commands whose completion is signalled
  thread,             \* program point of issue_flush_thread
  f3fs_issue_flush,   \* fcc->f3fs_issue_flush is non-NULL
  should_stop,        \* kthread_should_stop()
  flush_merge,        \* mount option FLUSH_MERGE
  remount,            \* program point of the remounting task
  multi_device,       \* f3fs_is_multi_device(sbi)
  inflight,           \* calls in progress when a device flush was submitted
  covered             \* calls for which such a flush ended successfully

taskVars   == <<pc, cmd_ret, completed, queued_flush, issue_list>>
threadVars == <<thread, should_stop>>
mountVars  == <<f3fs_issue_flush, flush_merge, remount, multi_device>>
flushVars  == <<taken, inflight, covered>>
vars       == <<taskVars, threadVars, mountVars, flushVars>>

Status == {"ok", "err"}

\* Calls that have begun and not returned.
InProgress == {t \in Tasks : pc[t] \notin {"idle", "returned", "stranded"}}

TypeOK ==
  /\ pc \in [Tasks -> {"idle", "submit", "flushing", "add", "check", "steal",
                       "stolen", "stolenFlushing", "wait", "returned", "stranded"}]
  /\ issue_list \subseteq Tasks
  /\ taken \in [Flushers -> SUBSET Tasks]
  /\ queued_flush \in 0..Cardinality(Tasks)
  /\ cmd_ret \in [Tasks -> Status \cup {"unset"}]
  /\ completed \subseteq Tasks
  /\ thread \in {"off", "top", "flushing", "sleep"}
  /\ f3fs_issue_flush \in BOOLEAN
  /\ should_stop \in BOOLEAN
  /\ flush_merge \in BOOLEAN
  /\ remount \in {"idle", "parsed", "stopping"}
  /\ multi_device \in BOOLEAN
  /\ inflight \in [Flushers -> SUBSET Tasks]
  /\ covered \subseteq Tasks

\* A mounted file system: the thread runs exactly when FLUSH_MERGE is set.
Init ==
  /\ pc = [t \in Tasks |-> "idle"]
  /\ issue_list = {}
  /\ taken = [f \in Flushers |-> {}]
  /\ queued_flush = 0
  /\ cmd_ret = [t \in Tasks |-> "unset"]
  /\ completed = {}
  /\ flush_merge \in BOOLEAN
  /\ thread = IF flush_merge THEN "top" ELSE "off"
  /\ f3fs_issue_flush = flush_merge
  /\ should_stop = FALSE
  /\ remount = "idle"
  /\ multi_device \in BOOLEAN
  /\ inflight = [f \in Flushers |-> {}]
  /\ covered = {}

-----------------------------------------------------------------------------
\* submit_flush_wait: the device flush makes durable what was written before
\* it was submitted, and ends with a status.  With several devices only the
\* ones the caller's file has written are flushed.
SubmitFlush(f) ==
  inflight' = [inflight EXCEPT ![f] = IF multi_device THEN {f} ELSE InProgress]

EndFlush(f, ret) ==
  /\ covered' = IF ret = "ok" THEN covered \cup inflight[f] ELSE covered
  /\ inflight' = [inflight EXCEPT ![f] = {}]

-----------------------------------------------------------------------------
\* f3fs_issue_flush is entered: atomic_inc(queued_flush), then the caller
\* flushes by itself unless flushes are merged and another one is queued.
IssueFlush(t) ==
  /\ pc[t] = "idle"
  /\ queued_flush' = queued_flush + 1
  /\ pc' = [pc EXCEPT ![t] =
              IF ~flush_merge \/ queued_flush' = 1 \/ multi_device
              THEN "submit" ELSE "add"]
  /\ cmd_ret' = [cmd_ret EXCEPT ![t] = "unset"]
  /\ completed' = completed \ {t}
  /\ covered' = covered \ {t}
  /\ UNCHANGED <<issue_list, taken, inflight, threadVars, mountVars>>

SubmitDirect(t) ==
  /\ pc[t] = "submit"
  /\ SubmitFlush(t)
  /\ pc' = [pc EXCEPT ![t] = "flushing"]
  /\ UNCHANGED <<issue_list, queued_flush, cmd_ret, completed, taken, covered,
                 threadVars, mountVars>>

FinishDirect(t) ==
  /\ pc[t] = "flushing"
  /\ \E ret \in Status :
       /\ EndFlush(t, ret)
       /\ cmd_ret' = [cmd_ret EXCEPT ![t] = ret]
  /\ queued_flush' = queued_flush - 1
  /\ pc' = [pc EXCEPT ![t] = "returned"]
  /\ UNCHANGED <<issue_list, completed, taken, threadVars, mountVars>>

\* llist_add(&cmd.llnode, &fcc->issue_list)
AddCommand(t) ==
  /\ pc[t] = "add"
  /\ issue_list' = issue_list \cup {t}
  /\ pc' = [pc EXCEPT ![t] = "check"]
  /\ UNCHANGED <<queued_flush, cmd_ret, completed, flushVars, threadVars, mountVars>>

\* if (fcc->f3fs_issue_flush) wait_for_completion ... else take the list
CheckThread(t) ==
  /\ pc[t] = "check"
  /\ pc' = [pc EXCEPT ![t] = IF f3fs_issue_flush THEN "wait" ELSE "steal"]
  /\ UNCHANGED <<issue_list, queued_flush, cmd_ret, completed, flushVars,
                 threadVars, mountVars>>

\* Variant: the list is read but not emptied.
StealListNotEmptied(t) ==
  /\ pc[t] = "steal"
  /\ pc' = [pc EXCEPT ![t] = IF issue_list = {} THEN "wait" ELSE "stolen"]
  /\ taken' = [taken EXCEPT ![t] = issue_list]
  /\ UNCHANGED <<issue_list, queued_flush, cmd_ret, completed, inflight, covered,
                 threadVars, mountVars>>

\* list = llist_del_all(&fcc->issue_list); an empty list means that somebody
\* else has taken the command.
StealList(t) ==
  /\ pc[t] = "steal"
  /\ pc' = [pc EXCEPT ![t] = IF issue_list = {} THEN "wait" ELSE "stolen"]
  /\ taken' = [taken EXCEPT ![t] = issue_list]
  /\ issue_list' = {}
  /\ UNCHANGED <<queued_flush, cmd_ret, completed, inflight, covered,
                 threadVars, mountVars>>

SubmitStolen(t) ==
  /\ pc[t] = "stolen"
  /\ SubmitFlush(t)
  /\ pc' = [pc EXCEPT ![t] = "stolenFlushing"]
  /\ UNCHANGED <<issue_list, queued_flush, cmd_ret, completed, taken, covered,
                 threadVars, mountVars>>

\* The loop over the stolen list sets every cmd->ret, and completes every
\* command but the caller's own, for which it drops queued_flush.  A caller
\* whose own command is not in the list it stole returns a cmd.ret nobody has
\* set (or one already completed elsewhere) and leaves queued_flush raised:
\* that task is "stranded", and what it does next is not modelled.
FinishStolen(t) ==
  /\ pc[t] = "stolenFlushing"
  /\ \E ret \in Status :
       /\ EndFlush(t, ret)
       /\ cmd_ret' = [u \in Tasks |-> IF u \in taken[t] THEN ret ELSE cmd_ret[u]]
  /\ completed' = completed \cup (taken[t] \ {t})
  /\ queued_flush' = IF t \in taken[t] THEN queued_flush - 1 ELSE queued_flush
  /\ pc' = [pc EXCEPT ![t] = IF t \in taken[t] THEN "returned" ELSE "stranded"]
  /\ taken' = [taken EXCEPT ![t] = {}]
  /\ UNCHANGED <<issue_list, threadVars, mountVars>>

\* wait_for_completion(&cmd.wait); atomic_dec(&fcc->queued_flush)
WaitDone(t) ==
  /\ pc[t] = "wait"
  /\ t \in completed
  /\ queued_flush' = queued_flush - 1
  /\ pc' = [pc EXCEPT ![t] = "returned"]
  /\ UNCHANGED <<issue_list, cmd_ret, completed, flushVars, threadVars, mountVars>>

\* The caller goes on and may call fsync again.
Leave(t) ==
  /\ pc[t] = "returned"
  /\ pc' = [pc EXCEPT ![t] = "idle"]
  /\ UNCHANGED <<issue_list, queued_flush, cmd_ret, completed, flushVars,
                 threadVars, mountVars>>

-----------------------------------------------------------------------------
\* issue_flush_thread: stop if asked to, else take the whole list and submit
\* one flush for it, else sleep.
ThreadTop ==
  /\ thread = "top"
  /\ \/ /\ should_stop
        /\ thread' = "off"
        /\ UNCHANGED <<issue_list, taken, inflight>>
     \/ /\ ~should_stop
        /\ issue_list # {}
        /\ taken' = [taken EXCEPT ![KThread] = issue_list]
        /\ issue_list' = {}
        /\ SubmitFlush(KThread)
        /\ thread' = "flushing"
     \/ /\ ~should_stop
        /\ issue_list = {}
        /\ thread' = "sleep"
        /\ UNCHANGED <<issue_list, taken, inflight>>
  /\ UNCHANGED <<pc, queued_flush, cmd_ret, completed, covered, should_stop, mountVars>>

\* Variant: commands queued during the flush are completed by it.
ThreadCompleteAll ==
  LET all == taken[KThread] \cup issue_list IN
  /\ thread = "flushing"
  /\ \E ret \in Status :
       /\ EndFlush(KThread, ret)
       /\ cmd_ret' = [u \in Tasks |-> IF u \in all THEN ret ELSE cmd_ret[u]]
  /\ completed' = completed \cup all
  /\ taken' = [taken EXCEPT ![KThread] = {}]
  /\ issue_list' = {}
  /\ thread' = "sleep"
  /\ UNCHANGED <<pc, queued_flush, should_stop, mountVars>>

\* Every command of dispatch_list gets the status and is completed.
ThreadComplete ==
  /\ thread = "flushing"
  /\ \E ret \in Status :
       /\ EndFlush(KThread, ret)
       /\ cmd_ret' = [u \in Tasks |-> IF u \in taken[KThread] THEN ret ELSE cmd_ret[u]]
  /\ completed' = completed \cup taken[KThread]
  /\ taken' = [taken EXCEPT ![KThread] = {}]
  /\ thread' = "sleep"
  /\ UNCHANGED <<pc, queued_flush, issue_list, should_stop, mountVars>>

\* Variant: the thread wakes up only to stop.
ThreadWakeToStop ==
  /\ thread = "sleep"
  /\ should_stop
  /\ thread' = "top"
  /\ UNCHANGED <<taskVars, flushVars, should_stop, mountVars>>

\* wait_event_interruptible on flush_wait_queue returns.
ThreadWake ==
  /\ thread = "sleep"
  /\ should_stop \/ issue_list # {}
  /\ thread' = "top"
  /\ UNCHANGED <<taskVars, flushVars, should_stop, mountVars>>

-----------------------------------------------------------------------------
\* f3fs_remount parses the options; FLUSH_MERGE is on by default and may be
\* switched off, and concurrent fsync calls see the value at once.
RemountParse ==
  /\ remount = "idle"
  /\ remount' = "parsed"
  /\ flush_merge' \in BOOLEAN
  /\ UNCHANGED <<taskVars, flushVars, threadVars, f3fs_issue_flush, multi_device>>

\* Read-only or noflush_merge: f3fs_destroy_flush_cmd_control(sbi, false).
\* A read-only remount clears FLUSH_MERGE first.
RemountDestroy ==
  /\ remount = "parsed"
  /\ flush_merge' = FALSE
  /\ IF f3fs_issue_flush
     THEN /\ f3fs_issue_flush' = FALSE
          /\ should_stop' = TRUE
          /\ remount' = "stopping"
     ELSE /\ remount' = "idle"
          /\ UNCHANGED <<f3fs_issue_flush, should_stop>>
  /\ UNCHANGED <<taskVars, flushVars, thread, multi_device>>

\* kthread_stop returns once the thread has left its loop.
RemountStopped ==
  /\ remount = "stopping"
  /\ thread = "off"
  /\ remount' = "idle"
  /\ UNCHANGED <<taskVars, flushVars, threadVars, f3fs_issue_flush, flush_merge,
                 multi_device>>

\* f3fs_create_flush_cmd_control: start the thread unless there is one.
RemountCreate ==
  /\ remount = "parsed"
  /\ flush_merge
  /\ remount' = "idle"
  /\ IF f3fs_issue_flush
     THEN UNCHANGED <<threadVars, f3fs_issue_flush>>
     ELSE /\ f3fs_issue_flush' = TRUE
          /\ thread' = "top"
          /\ should_stop' = FALSE
  /\ UNCHANGED <<taskVars, flushVars, flush_merge, multi_device>>

-----------------------------------------------------------------------------
TaskStep(t) ==
  \/ IssueFlush(t) \/ SubmitDirect(t) \/ FinishDirect(t) \/ AddCommand(t)
  \/ CheckThread(t) \/ StealList(t) \/ SubmitStolen(t) \/ FinishStolen(t)
  \/ WaitDone(t) \/ Leave(t)

ThreadStep == ThreadTop \/ ThreadComplete \/ ThreadWake

RemountStep == RemountParse \/ RemountDestroy \/ RemountStopped \/ RemountCreate

Next == ThreadStep \/ RemountStep \/ \E t \in Tasks : TaskStep(t)

\* A task that has entered f3fs_issue_flush keeps running, the device answers
\* every flush, and the kernel schedules the flush thread.  Nothing makes a
\* task call fsync again or an administrator remount.
Fairness ==
  /\ WF_vars(ThreadStep)
  /\ WF_vars(RemountDestroy \/ RemountStopped \/ RemountCreate)
  /\ \A t \in Tasks : WF_vars(pc[t] # "idle" /\ TaskStep(t))

Spec == Init /\ [][Next]_vars
FairSpec == Spec /\ Fairness

-----------------------------------------------------------------------------
\* The durability promise of fsync: a call of f3fs_issue_flush that returns 0
\* is preceded by a device flush that was submitted after the call began and
\* ended without error, whoever submitted it.
FlushedBeforeReturn ==
  \A t \in Tasks : pc[t] = "returned" /\ cmd_ret[t] = "ok" => t \in covered

\* A waiting caller's command is on the issue list, in the hands of exactly one
\* flusher, or already completed: the lists taken with llist_del_all never
\* share a command and never lose one.
CommandHasOneOwner ==
  /\ \A t \in Tasks : pc[t] = "wait" =>
       t \in issue_list \cup completed \cup UNION {taken[f] : f \in Flushers}
  /\ \A f, g \in Flushers : f # g => taken[f] \cap taken[g] = {}
  /\ \A f \in Flushers : taken[f] \cap issue_list = {}

\* queued_flush, which decides whether a caller flushes by itself, counts the
\* calls in progress and the ones that left without dropping it.
QueuedFlushAccount ==
  queued_flush =
    Cardinality(InProgress) + Cardinality({t \in Tasks : pc[t] = "stranded"})

\* While the flush thread exists a queued flush is eventually answered: no
\* wake-up between llist_add and the thread's wait_event is lost.
WaiterReturns ==
  \A t \in Tasks : pc[t] = "wait" ~> (pc[t] # "wait" \/ ~f3fs_issue_flush)

\* The flush commands are accounted for: each has one owner until it is completed,
\* and queued_flush, which decides whether a caller flushes by itself
\* (segment.c:598), agrees with them.
CommandsAccounted == TypeOK /\ CommandHasOneOwner /\ QueuedFlushAccount

=============================================================================
