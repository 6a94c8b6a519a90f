-------------------------- MODULE FlushMergeProofs --------------------------
(***************************************************************************)
(* Any number of tasks that merge their flushes: every call is covered by  *)
(* a flush submitted after it began, every command has one owner, and      *)
(* queued_flush agrees with the calls in progress.                         *)
(***************************************************************************)
EXTENDS FlushMerge, FiniteSetTheorems, TLAPS

Stranded == {t \in Tasks : pc[t] = "stranded"}

\* Flusher f has submitted the flush for the commands it took.
Flushing(f) == IF f = KThread THEN thread = "flushing" ELSE pc[f] = "stolenFlushing"
Holding(f)  == Flushing(f) \/ (f # KThread /\ pc[f] = "stolen")

\* A command is on a list only while its caller is inside f3fs_issue_flush, has
\* added it and has not seen it completed.
Listed == {"check", "steal", "stolen", "stolenFlushing", "wait", "stranded"}
Queued == {t \in Tasks : t \in issue_list \/ \E f \in Flushers : t \in taken[f]}
QueuedCommands ==
  /\ \A t \in Queued : pc[t] \in Listed /\ t \notin completed
  /\ \A t \in Tasks : pc[t] = "add" => t \notin completed

\* A flusher keeps a list only while it flushes for it.
TakenWhileHolding == \A f \in Flushers : taken[f] # {} => Holding(f)

\* A flush covers the calls it is made for.
FlushCovers ==
  /\ \A t \in Tasks : pc[t] = "flushing" => t \in inflight[t]
  /\ \A f \in Flushers : Flushing(f) => taken[f] \subseteq inflight[f] \cup Stranded

\* With several devices every caller flushes by itself.
NoMergeOfDevices ==
  multi_device => \A t \in Tasks : pc[t] \in {"idle", "submit", "flushing", "returned"}

\* A command with status 0 is covered from the moment the status is stored.
StatusCovered ==
  \A t \in Tasks : pc[t] \notin {"idle", "stranded"} /\ cmd_ret[t] = "ok" => t \in covered

\* A command that was added is queued or completed, also before the caller waits.
NoneLost ==
  \A t \in Tasks : pc[t] \in {"check", "steal", "wait"} => t \in Queued \cup completed

ListsDisjoint ==
  /\ \A f, g \in Flushers : f # g => taken[f] \cap taken[g] = {}
  /\ \A f \in Flushers : taken[f] \cap issue_list = {}

\* The thread runs, or is being waited for, while anybody sees it.
ThreadKnown == ~f3fs_issue_flush /\ remount # "stopping" => thread = "off"

ListInv ==
  /\ QueuedCommands /\ TakenWhileHolding /\ FlushCovers /\ NoMergeOfDevices
  /\ StatusCovered /\ NoneLost /\ ListsDisjoint /\ ThreadKnown

\* The inductive invariant.
IInv ==
  /\ TypeOK /\ QueuedFlushAccount /\ ListInv

-----------------------------------------------------------------------------
\* Sets of tasks are finite, and their cardinality follows their elements.
LEMMA TaskSets ==
  ASSUME NEW S \in SUBSET Tasks
  PROVE  /\ IsFiniteSet(S)
         /\ Cardinality(S) \in Nat
         /\ \A t \in Tasks \ S : Cardinality(S \cup {t}) = Cardinality(S) + 1
         /\ \A t \in S : Cardinality(S \ {t}) = Cardinality(S) - 1
<1>1. IsFiniteSet(S)
  BY FS_Subset, KThreadAssumption
<1>2. Cardinality(S) \in Nat
  BY <1>1, FS_CardinalityType
<1>3. ASSUME NEW t \in Tasks \ S PROVE Cardinality(S \cup {t}) = Cardinality(S) + 1
  BY <1>1, FS_AddElement
<1>4. ASSUME NEW t \in S PROVE Cardinality(S \ {t}) = Cardinality(S) - 1
  BY <1>1, FS_RemoveElement
<1> QED BY <1>1, <1>2, <1>3, <1>4

\* The calls that raised queued_flush and have not dropped it, for program points p.
Raised(p) == {t \in Tasks : p[t] \notin {"idle", "returned"}}

\* They are the calls in progress and the stranded ones, which are distinct tasks.
LEMMA RaisedCount ==
  ASSUME NEW p
  PROVE  /\ Cardinality({t \in Tasks : p[t] \notin {"idle", "returned", "stranded"}})
              + Cardinality({t \in Tasks : p[t] = "stranded"}) = Cardinality(Raised(p))
         /\ Cardinality(Raised(p)) \in 0 .. Cardinality(Tasks)
<1> DEFINE S == {t \in Tasks : p[t] \notin {"idle", "returned", "stranded"}}
           T == {t \in Tasks : p[t] = "stranded"}
<1>1. S \in SUBSET Tasks /\ T \in SUBSET Tasks /\ Raised(p) \in SUBSET Tasks
  BY DEF Raised
<1>2. S \cap T = {} /\ S \cup T = Raised(p)
  BY DEF Raised
<1> HIDE DEF S, T
<1>3. IsFiniteSet(S) /\ IsFiniteSet(T) /\ IsFiniteSet(Tasks)
  BY <1>1, TaskSets
<1>4. Cardinality(S \cup T) = Cardinality(S) + Cardinality(T) - Cardinality(S \cap T)
  BY <1>3, FS_Union
<1>5. Cardinality(S \cap T) = 0
  BY <1>2, FS_EmptySet
<1>6. Cardinality(S) \in Nat /\ Cardinality(T) \in Nat /\ Cardinality(Tasks) \in Nat
  BY <1>1, TaskSets
<1>7. Cardinality(S) + Cardinality(T) = Cardinality(Raised(p))
  <2>1. Cardinality(Raised(p)) = Cardinality(S) + Cardinality(T) - Cardinality(S \cap T)
    BY <1>2, <1>4, Zenon
  <2> QED BY <2>1, <1>5, <1>6
<1>8. Cardinality(Raised(p)) <= Cardinality(Tasks)
  BY <1>1, <1>3, FS_Subset
<1>9. Cardinality(Raised(p)) \in Nat
  BY <1>1, TaskSets
<1> QED BY <1>6, <1>7, <1>8, <1>9 DEF S, T

\* So queued_flush is their number.
LEMMA QueuedIsRaised ==
  /\ QueuedFlushAccount <=> queued_flush = Cardinality(Raised(pc))
  /\ QueuedFlushAccount' <=> queued_flush' = Cardinality(Raised(pc'))
<1>1. Cardinality(InProgress) + Cardinality({t \in Tasks : pc[t] = "stranded"})
        = Cardinality(Raised(pc))
  BY RaisedCount DEF InProgress
<1>2. Cardinality(InProgress') + Cardinality({t \in Tasks : pc'[t] = "stranded"})
        = Cardinality(Raised(pc'))
  BY RaisedCount DEF InProgress
<1> QED BY <1>1, <1>2 DEF QueuedFlushAccount

\* What a step of one task does to the number.
LEMMA RaisedStep ==
  ASSUME TypeOK, NEW t \in Tasks, NEW x, pc' = [pc EXCEPT ![t] = x]
  PROVE  /\ pc[t] \in {"idle", "returned"} /\ x \notin {"idle", "returned"} =>
              Cardinality(Raised(pc')) = Cardinality(Raised(pc)) + 1
         /\ pc[t] \notin {"idle", "returned"} /\ x \in {"idle", "returned"} =>
              Cardinality(Raised(pc')) = Cardinality(Raised(pc)) - 1
         /\ (pc[t] \in {"idle", "returned"} <=> x \in {"idle", "returned"}) =>
              Raised(pc') = Raised(pc)
<1>1. Raised(pc) \in SUBSET Tasks
  BY DEF Raised
<1>2. ASSUME pc[t] \in {"idle", "returned"}, x \notin {"idle", "returned"}
      PROVE  Raised(pc') = Raised(pc) \cup {t} /\ t \notin Raised(pc)
  BY <1>2 DEF Raised, TypeOK
<1>3. ASSUME pc[t] \notin {"idle", "returned"}, x \in {"idle", "returned"}
      PROVE  Raised(pc') = Raised(pc) \ {t} /\ t \in Raised(pc)
  BY <1>3 DEF Raised, TypeOK
<1>4. ASSUME pc[t] \in {"idle", "returned"} <=> x \in {"idle", "returned"}
      PROVE  Raised(pc') = Raised(pc)
  BY <1>4 DEF Raised, TypeOK
<1> QED BY <1>1, <1>2, <1>3, <1>4, TaskSets

-----------------------------------------------------------------------------
\* A mounted file system satisfies the invariant.
LEMMA InitInv == Init => IInv
<1> SUFFICES ASSUME Init PROVE IInv
  OBVIOUS
<1>1. Raised(pc) = {} /\ Cardinality({}) = 0
  BY FS_EmptySet DEF Init, Raised
<1>2. QueuedFlushAccount
  BY <1>1, QueuedIsRaised DEF Init
<1>3. queued_flush \in 0 .. Cardinality(Tasks)
  BY <1>1, RaisedCount DEF Init
<1>4. Queued = {}
  BY DEF Init, Queued
<1>5. TypeOK
  BY <1>3 DEF Init, TypeOK, Flushers, Status
<1>6. QueuedCommands /\ TakenWhileHolding /\ NoneLost /\ ListsDisjoint
  BY <1>4 DEF Init, QueuedCommands, TakenWhileHolding, NoneLost, ListsDisjoint
<1>7. FlushCovers
  BY KThreadAssumption DEF Init, FlushCovers, Flushing, Flushers
<1>8. NoMergeOfDevices /\ StatusCovered /\ ThreadKnown
  BY DEF Init, NoMergeOfDevices, StatusCovered, ThreadKnown
<1> QED BY <1>2, <1>5, <1>6, <1>7, <1>8 DEF IInv, ListInv

-----------------------------------------------------------------------------
\* A call begins.
LEMMA IssueFlushInv ==
  ASSUME IInv, NEW t \in Tasks, IssueFlush(t)
  PROVE  IInv'
<1> USE DEF IInv
<1>1. PICK x \in {"submit", "add"} : pc' = [pc EXCEPT ![t] = x]
  BY DEF IssueFlush
<1>2. Cardinality(Raised(pc')) = Cardinality(Raised(pc)) + 1
  BY <1>1, RaisedStep DEF IssueFlush
<1>3. QueuedFlushAccount' /\ queued_flush' \in 0 .. Cardinality(Tasks)
  BY <1>2, QueuedIsRaised, RaisedCount DEF IssueFlush
<1>4. TypeOK'
  BY <1>1, <1>3 DEF IssueFlush, TypeOK, threadVars, mountVars
<1>5. ListInv'
  BY <1>1, KThreadAssumption DEF IssueFlush, TypeOK, threadVars, mountVars,
     ListInv, QueuedCommands, TakenWhileHolding, FlushCovers,
     NoMergeOfDevices, StatusCovered, NoneLost, ListsDisjoint, ThreadKnown, Queued, Listed,
     Holding, Flushing, Stranded, Flushers, Status
<1> QED BY <1>3, <1>4, <1>5

\* A caller submits its own flush, which covers its call.
LEMMA SubmitDirectInv ==
  ASSUME IInv, NEW t \in Tasks, SubmitDirect(t)
  PROVE  IInv'
<1> USE DEF IInv
<1>1. pc' = [pc EXCEPT ![t] = "flushing"]
  BY DEF SubmitDirect
<1>2. Raised(pc') = Raised(pc)
  BY <1>1, RaisedStep DEF SubmitDirect
<1>3. QueuedFlushAccount' /\ queued_flush' \in 0 .. Cardinality(Tasks)
  BY <1>2, QueuedIsRaised, RaisedCount DEF SubmitDirect
<1>4. TypeOK'
  BY <1>1, <1>3 DEF SubmitDirect, TypeOK, threadVars, mountVars, SubmitFlush, InProgress, Flushers
<1>5. ListInv'
  BY <1>1, KThreadAssumption DEF SubmitDirect, TypeOK, threadVars, mountVars, SubmitFlush, InProgress,
     ListInv, QueuedCommands, TakenWhileHolding, FlushCovers,
     NoMergeOfDevices, StatusCovered, NoneLost, ListsDisjoint, ThreadKnown, Queued, Listed,
     Holding, Flushing, Stranded, Flushers, Status
<1> QED BY <1>3, <1>4, <1>5

\* The caller's own flush ends.
LEMMA FinishDirectInv ==
  ASSUME IInv, NEW t \in Tasks, FinishDirect(t)
  PROVE  IInv'
<1> USE DEF IInv
<1>1. pc' = [pc EXCEPT ![t] = "returned"]
  BY DEF FinishDirect
<1>2. Cardinality(Raised(pc')) = Cardinality(Raised(pc)) - 1
  BY <1>1, RaisedStep DEF FinishDirect
<1>3. QueuedFlushAccount' /\ queued_flush' \in 0 .. Cardinality(Tasks)
  BY <1>2, QueuedIsRaised, RaisedCount DEF FinishDirect
<1>4. TypeOK'
  BY <1>1, <1>3 DEF FinishDirect, TypeOK, threadVars, mountVars, EndFlush, Flushers, Status
<1>5. ListInv'
  BY <1>1, KThreadAssumption DEF FinishDirect, TypeOK, threadVars, mountVars, EndFlush,
     ListInv, QueuedCommands, TakenWhileHolding, FlushCovers,
     NoMergeOfDevices, StatusCovered, NoneLost, ListsDisjoint, ThreadKnown, Queued, Listed,
     Holding, Flushing, Stranded, Flushers, Status
<1> QED BY <1>3, <1>4, <1>5

\* A command is added to the list.
LEMMA AddCommandInv ==
  ASSUME IInv, NEW t \in Tasks, AddCommand(t)
  PROVE  IInv'
<1> USE DEF IInv
<1>1. pc' = [pc EXCEPT ![t] = "check"]
  BY DEF AddCommand
<1>2. Raised(pc') = Raised(pc)
  BY <1>1, RaisedStep DEF AddCommand
<1>3. QueuedFlushAccount' /\ queued_flush' \in 0 .. Cardinality(Tasks)
  BY <1>2, QueuedIsRaised, RaisedCount DEF AddCommand
<1>4. TypeOK'
  BY <1>1, <1>3 DEF AddCommand, TypeOK, threadVars, mountVars, flushVars
<1>5. ListInv'
  BY <1>1, KThreadAssumption DEF AddCommand, TypeOK, threadVars, mountVars, flushVars,
     ListInv, QueuedCommands, TakenWhileHolding, FlushCovers,
     NoMergeOfDevices, StatusCovered, NoneLost, ListsDisjoint, ThreadKnown, Queued, Listed,
     Holding, Flushing, Stranded, Flushers, Status
<1> QED BY <1>3, <1>4, <1>5

\* The caller looks for the thread.
LEMMA CheckThreadInv ==
  ASSUME IInv, NEW t \in Tasks, CheckThread(t)
  PROVE  IInv'
<1> USE DEF IInv
<1>1. PICK x \in {"wait", "steal"} : pc' = [pc EXCEPT ![t] = x]
  BY DEF CheckThread
<1>2. Raised(pc') = Raised(pc)
  BY <1>1, RaisedStep DEF CheckThread
<1>3. QueuedFlushAccount' /\ queued_flush' \in 0 .. Cardinality(Tasks)
  BY <1>2, QueuedIsRaised, RaisedCount DEF CheckThread
<1>4. TypeOK'
  BY <1>1, <1>3 DEF CheckThread, TypeOK, threadVars, mountVars, flushVars
<1>5. ListInv'
  BY <1>1, KThreadAssumption DEF CheckThread, TypeOK, threadVars, mountVars, flushVars,
     ListInv, QueuedCommands, TakenWhileHolding, FlushCovers,
     NoMergeOfDevices, StatusCovered, NoneLost, ListsDisjoint, ThreadKnown, Queued, Listed,
     Holding, Flushing, Stranded, Flushers, Status
<1> QED BY <1>3, <1>4, <1>5

\* The caller takes the list, its own list being empty before.
LEMMA StealListInv ==
  ASSUME IInv, NEW t \in Tasks, StealList(t)
  PROVE  IInv'
<1> USE DEF IInv
<1>1. PICK x \in {"wait", "stolen"} : pc' = [pc EXCEPT ![t] = x]
  BY DEF StealList
<1>2. Raised(pc') = Raised(pc)
  BY <1>1, RaisedStep DEF StealList
<1>3. QueuedFlushAccount' /\ queued_flush' \in 0 .. Cardinality(Tasks)
  BY <1>2, QueuedIsRaised, RaisedCount DEF StealList
<1>4. TypeOK'
  BY <1>1, <1>3 DEF StealList, TypeOK, threadVars, mountVars, Flushers
<1>5. ListInv'
  BY <1>1, KThreadAssumption DEF StealList, TypeOK, threadVars, mountVars,
     ListInv, QueuedCommands, TakenWhileHolding, FlushCovers,
     NoMergeOfDevices, StatusCovered, NoneLost, ListsDisjoint, ThreadKnown, Queued, Listed,
     Holding, Flushing, Stranded, Flushers, Status
<1> QED BY <1>3, <1>4, <1>5

\* The flush for a stolen list covers every call on it that is not stranded.
LEMMA SubmitStolenInv ==
  ASSUME IInv, NEW t \in Tasks, SubmitStolen(t)
  PROVE  IInv'
<1> USE DEF IInv
<1>1. pc' = [pc EXCEPT ![t] = "stolenFlushing"]
  BY DEF SubmitStolen
<1>2. Raised(pc') = Raised(pc)
  BY <1>1, RaisedStep DEF SubmitStolen
<1>3. QueuedFlushAccount' /\ queued_flush' \in 0 .. Cardinality(Tasks)
  BY <1>2, QueuedIsRaised, RaisedCount DEF SubmitStolen
<1>4. TypeOK'
  BY <1>1, <1>3 DEF SubmitStolen, TypeOK, threadVars, mountVars, SubmitFlush, InProgress, Flushers
<1>5. ListInv'
  BY <1>1, KThreadAssumption DEF SubmitStolen, TypeOK, threadVars, mountVars, SubmitFlush, InProgress,
     ListInv, QueuedCommands, TakenWhileHolding, FlushCovers,
     NoMergeOfDevices, StatusCovered, NoneLost, ListsDisjoint, ThreadKnown, Queued, Listed,
     Holding, Flushing, Stranded, Flushers, Status
<1> QED BY <1>3, <1>4, <1>5

\* The flush for a stolen list ends: its commands get the status, and the caller
\* returns, or is stranded when its own command was in another list.
LEMMA FinishStolenInv ==
  ASSUME IInv, NEW t \in Tasks, FinishStolen(t)
  PROVE  IInv'
<1> USE DEF IInv
<1>1. PICK ret \in Status :
        /\ covered' = IF ret = "ok" THEN covered \cup inflight[t] ELSE covered
        /\ inflight' = [inflight EXCEPT ![t] = {}]
        /\ cmd_ret' = [u \in Tasks |-> IF u \in taken[t] THEN ret ELSE cmd_ret[u]]
  BY DEF FinishStolen, EndFlush
<1>2. PICK x \in {"returned", "stranded"} :
        pc' = [pc EXCEPT ![t] = x] /\ (x = "returned" <=> t \in taken[t])
  BY DEF FinishStolen
<1>3. QueuedFlushAccount' /\ queued_flush' \in 0 .. Cardinality(Tasks)
  <2>1. CASE x = "returned"
    <3>1. Cardinality(Raised(pc')) = Cardinality(Raised(pc)) - 1
      BY <1>2, <2>1, RaisedStep DEF FinishStolen
    <3>2. queued_flush' = queued_flush - 1
      BY <1>2, <2>1 DEF FinishStolen
    <3> QED BY <3>1, <3>2, QueuedIsRaised, RaisedCount
  <2>2. CASE x = "stranded"
    <3>1. Raised(pc') = Raised(pc)
      BY <1>2, <2>2, RaisedStep DEF FinishStolen
    <3>2. queued_flush' = queued_flush
      BY <1>2, <2>2 DEF FinishStolen
    <3> QED BY <3>1, <3>2, QueuedIsRaised, RaisedCount
  <2> QED BY <2>1, <2>2
<1>4. TypeOK'
  BY <1>1, <1>2, <1>3 DEF FinishStolen, TypeOK, threadVars, mountVars, Flushers, Status
<1>5. t # KThread /\ pc[t] = "stolenFlushing" /\ t \in Flushers
  BY KThreadAssumption DEF FinishStolen, Flushers
<1>6. taken[t] \subseteq inflight[t] \cup Stranded
  BY <1>5 DEF ListInv, FlushCovers, Flushing
<1>7. StatusCovered'
  BY <1>1, <1>2, <1>5, <1>6 DEF ListInv, StatusCovered, Stranded, TypeOK, Status
<1>8. QueuedCommands' /\ NoneLost' /\ ListsDisjoint'
  BY <1>1, <1>2, <1>5 DEF FinishStolen, ListInv, QueuedCommands, NoneLost, ListsDisjoint,
     Queued, Listed, TypeOK
<1>9. TakenWhileHolding' /\ FlushCovers'
  BY <1>1, <1>2, <1>5 DEF FinishStolen, ListInv, TakenWhileHolding, FlushCovers, Holding,
     Flushing, Stranded, Flushers, threadVars, TypeOK
<1>10. NoMergeOfDevices' /\ ThreadKnown'
  BY <1>2, <1>5 DEF FinishStolen, ListInv, NoMergeOfDevices, ThreadKnown, threadVars, mountVars, TypeOK
<1> QED BY <1>3, <1>4, <1>7, <1>8, <1>9, <1>10 DEF ListInv

\* A waiting caller is woken.
LEMMA WaitDoneInv ==
  ASSUME IInv, NEW t \in Tasks, WaitDone(t)
  PROVE  IInv'
<1> USE DEF IInv
<1>1. pc' = [pc EXCEPT ![t] = "returned"]
  BY DEF WaitDone
<1>2. Cardinality(Raised(pc')) = Cardinality(Raised(pc)) - 1
  BY <1>1, RaisedStep DEF WaitDone
<1>3. QueuedFlushAccount' /\ queued_flush' \in 0 .. Cardinality(Tasks)
  BY <1>2, QueuedIsRaised, RaisedCount DEF WaitDone
<1>4. TypeOK'
  BY <1>1, <1>3 DEF WaitDone, TypeOK, threadVars, mountVars, flushVars
<1>5. ListInv'
  BY <1>1, KThreadAssumption DEF WaitDone, TypeOK, threadVars, mountVars, flushVars,
     ListInv, QueuedCommands, TakenWhileHolding, FlushCovers,
     NoMergeOfDevices, StatusCovered, NoneLost, ListsDisjoint, ThreadKnown, Queued, Listed,
     Holding, Flushing, Stranded, Flushers, Status
<1> QED BY <1>3, <1>4, <1>5

\* A call is over.
LEMMA LeaveInv ==
  ASSUME IInv, NEW t \in Tasks, Leave(t)
  PROVE  IInv'
<1> USE DEF IInv
<1>1. pc' = [pc EXCEPT ![t] = "idle"]
  BY DEF Leave
<1>2. Raised(pc') = Raised(pc)
  BY <1>1, RaisedStep DEF Leave
<1>3. QueuedFlushAccount' /\ queued_flush' \in 0 .. Cardinality(Tasks)
  BY <1>2, QueuedIsRaised, RaisedCount DEF Leave
<1>4. TypeOK'
  BY <1>1, <1>3 DEF Leave, TypeOK, threadVars, mountVars, flushVars
<1>5. ListInv'
  BY <1>1, KThreadAssumption DEF Leave, TypeOK, threadVars, mountVars, flushVars,
     ListInv, QueuedCommands, TakenWhileHolding, FlushCovers,
     NoMergeOfDevices, StatusCovered, NoneLost, ListsDisjoint, ThreadKnown, Queued, Listed,
     Holding, Flushing, Stranded, Flushers, Status
<1> QED BY <1>3, <1>4, <1>5

\* The thread completes the commands it took.
LEMMA ThreadCompleteInv ==
  ASSUME IInv, ThreadComplete
  PROVE  IInv'
<1> USE DEF IInv
<1>2. pc' = pc /\ queued_flush' = queued_flush
  BY DEF ThreadComplete
<1>3. QueuedFlushAccount' /\ queued_flush' \in 0 .. Cardinality(Tasks)
  BY <1>2, QueuedIsRaised, RaisedCount
<1>4. TypeOK'
  BY <1>2, <1>3 DEF ThreadComplete, TypeOK, mountVars, EndFlush, Flushers, Status
<1>5. ListInv'
  BY <1>2, KThreadAssumption DEF ThreadComplete, TypeOK, mountVars, EndFlush,
     ListInv, QueuedCommands, TakenWhileHolding, FlushCovers,
     NoMergeOfDevices, StatusCovered, NoneLost, ListsDisjoint, ThreadKnown, Queued, Listed,
     Holding, Flushing, Stranded, Flushers, Status
<1> QED BY <1>3, <1>4, <1>5

\* The thread takes the list, or stops, or goes to sleep.
LEMMA ThreadTopInv ==
  ASSUME IInv, ThreadTop
  PROVE  IInv'
<1> USE DEF IInv
<1>2. pc' = pc /\ queued_flush' = queued_flush
  BY DEF ThreadTop
<1>3. QueuedFlushAccount' /\ queued_flush' \in 0 .. Cardinality(Tasks)
  BY <1>2, QueuedIsRaised, RaisedCount
<1>4. TypeOK'
  <2>1. issue_list # {} => ~multi_device
    BY DEF ListInv, TypeOK, NoMergeOfDevices, QueuedCommands, Queued, Listed
  <2> QED BY <1>2, <1>3, <2>1 DEF ThreadTop, TypeOK, mountVars, SubmitFlush, InProgress, Flushers
<1>5. ListInv'
  BY <1>2, KThreadAssumption DEF ThreadTop, TypeOK, mountVars, SubmitFlush, InProgress,
     ListInv, QueuedCommands, TakenWhileHolding, FlushCovers,
     NoMergeOfDevices, StatusCovered, NoneLost, ListsDisjoint, ThreadKnown, Queued, Listed,
     Holding, Flushing, Stranded, Flushers, Status
<1> QED BY <1>3, <1>4, <1>5

\* The thread wakes up.
LEMMA ThreadWakeInv ==
  ASSUME IInv, ThreadWake
  PROVE  IInv'
<1> USE DEF IInv
<1>2. pc' = pc /\ queued_flush' = queued_flush
  BY DEF ThreadWake, taskVars
<1>3. QueuedFlushAccount' /\ queued_flush' \in 0 .. Cardinality(Tasks)
  BY <1>2, QueuedIsRaised, RaisedCount
<1>4. TypeOK'
  BY <1>2, <1>3 DEF ThreadWake, TypeOK, mountVars, taskVars, flushVars
<1>5. ListInv'
  BY <1>2, KThreadAssumption DEF ThreadWake, TypeOK, mountVars, taskVars, flushVars,
     ListInv, QueuedCommands, TakenWhileHolding, FlushCovers,
     NoMergeOfDevices, StatusCovered, NoneLost, ListsDisjoint, ThreadKnown, Queued, Listed,
     Holding, Flushing, Stranded, Flushers, Status
<1> QED BY <1>3, <1>4, <1>5

\* A remount changes the option.
LEMMA RemountParseInv ==
  ASSUME IInv, RemountParse
  PROVE  IInv'
<1> USE DEF IInv
<1>2. pc' = pc /\ queued_flush' = queued_flush
  BY DEF RemountParse, taskVars
<1>3. QueuedFlushAccount' /\ queued_flush' \in 0 .. Cardinality(Tasks)
  BY <1>2, QueuedIsRaised, RaisedCount
<1>4. TypeOK'
  BY <1>2, <1>3 DEF RemountParse, TypeOK, threadVars, taskVars, flushVars
<1>5. ListInv'
  BY <1>2, KThreadAssumption DEF RemountParse, TypeOK, threadVars, taskVars, flushVars,
     ListInv, QueuedCommands, TakenWhileHolding, FlushCovers,
     NoMergeOfDevices, StatusCovered, NoneLost, ListsDisjoint, ThreadKnown, Queued, Listed,
     Holding, Flushing, Stranded, Flushers, Status
<1> QED BY <1>3, <1>4, <1>5

\* A remount tells the thread to stop.
LEMMA RemountDestroyInv ==
  ASSUME IInv, RemountDestroy
  PROVE  IInv'
<1> USE DEF IInv
<1>2. pc' = pc /\ queued_flush' = queued_flush
  BY DEF RemountDestroy, taskVars
<1>3. QueuedFlushAccount' /\ queued_flush' \in 0 .. Cardinality(Tasks)
  BY <1>2, QueuedIsRaised, RaisedCount
<1>4. TypeOK'
  BY <1>2, <1>3 DEF RemountDestroy, TypeOK, taskVars, flushVars
<1>5. ListInv'
  BY <1>2, KThreadAssumption DEF RemountDestroy, TypeOK, taskVars, flushVars,
     ListInv, QueuedCommands, TakenWhileHolding, FlushCovers,
     NoMergeOfDevices, StatusCovered, NoneLost, ListsDisjoint, ThreadKnown, Queued, Listed,
     Holding, Flushing, Stranded, Flushers, Status
<1> QED BY <1>3, <1>4, <1>5

\* The thread has stopped.
LEMMA RemountStoppedInv ==
  ASSUME IInv, RemountStopped
  PROVE  IInv'
<1> USE DEF IInv
<1>2. pc' = pc /\ queued_flush' = queued_flush
  BY DEF RemountStopped, taskVars
<1>3. QueuedFlushAccount' /\ queued_flush' \in 0 .. Cardinality(Tasks)
  BY <1>2, QueuedIsRaised, RaisedCount
<1>4. TypeOK'
  BY <1>2, <1>3 DEF RemountStopped, TypeOK, threadVars, taskVars, flushVars
<1>5. ListInv'
  BY <1>2, KThreadAssumption DEF RemountStopped, TypeOK, threadVars, taskVars, flushVars,
     ListInv, QueuedCommands, TakenWhileHolding, FlushCovers,
     NoMergeOfDevices, StatusCovered, NoneLost, ListsDisjoint, ThreadKnown, Queued, Listed,
     Holding, Flushing, Stranded, Flushers, Status
<1> QED BY <1>3, <1>4, <1>5

\* A remount starts the thread, which held no list.
LEMMA RemountCreateInv ==
  ASSUME IInv, RemountCreate
  PROVE  IInv'
<1> USE DEF IInv
<1>2. pc' = pc /\ queued_flush' = queued_flush
  BY DEF RemountCreate, taskVars
<1>3. QueuedFlushAccount' /\ queued_flush' \in 0 .. Cardinality(Tasks)
  BY <1>2, QueuedIsRaised, RaisedCount
<1>4. TypeOK'
  BY <1>2, <1>3 DEF RemountCreate, TypeOK, threadVars, taskVars, flushVars
<1>5. ListInv'
  BY <1>2, KThreadAssumption DEF RemountCreate, TypeOK, threadVars, taskVars, flushVars,
     ListInv, QueuedCommands, TakenWhileHolding, FlushCovers,
     NoMergeOfDevices, StatusCovered, NoneLost, ListsDisjoint, ThreadKnown, Queued, Listed,
     Holding, Flushing, Stranded, Flushers, Status
<1> QED BY <1>3, <1>4, <1>5

-----------------------------------------------------------------------------
\* The invariant holds in every reachable state, for any number of tasks.
THEOREM FlushMergeInvariant == Spec => []IInv
<1>1. IInv /\ [Next]_vars => IInv'
  <2> SUFFICES ASSUME IInv, [Next]_vars PROVE IInv'
    OBVIOUS
  <2>1. ASSUME NEW t \in Tasks, TaskStep(t) PROVE IInv'
    BY <2>1, IssueFlushInv, SubmitDirectInv, FinishDirectInv, AddCommandInv, CheckThreadInv,
       StealListInv, SubmitStolenInv, FinishStolenInv, WaitDoneInv, LeaveInv DEF TaskStep
  <2>2. CASE ThreadStep
    BY <2>2, ThreadTopInv, ThreadCompleteInv, ThreadWakeInv DEF ThreadStep
  <2>3. CASE RemountStep
    BY <2>3, RemountParseInv, RemountDestroyInv, RemountStoppedInv, RemountCreateInv
    DEF RemountStep
  <2>4. CASE UNCHANGED vars
    <3>1. pc' = pc /\ queued_flush' = queued_flush
      BY <2>4 DEF vars, taskVars
    <3>2. QueuedFlushAccount'
      BY <3>1, QueuedIsRaised DEF IInv
    <3>3. TypeOK' /\ ListInv'
      BY <2>4 DEF vars, taskVars, threadVars, mountVars, flushVars, IInv, TypeOK, ListInv,
         QueuedCommands, TakenWhileHolding, FlushCovers, NoMergeOfDevices, StatusCovered,
         NoneLost, ListsDisjoint, ThreadKnown, Queued, Holding, Flushing, Stranded
    <3> QED BY <3>2, <3>3 DEF IInv
  <2> QED BY <2>1, <2>2, <2>3, <2>4 DEF Next
<1> QED BY <1>1, InitInv, PTL DEF Spec

\* fsync's promise: a call of f3fs_issue_flush that returns 0 was covered by a
\* device flush submitted after it began, whoever submitted that flush.
THEOREM FlushedBeforeReturnAlways == Spec => []FlushedBeforeReturn
<1>1. IInv => FlushedBeforeReturn
  BY DEF IInv, ListInv, StatusCovered, FlushedBeforeReturn
<1> QED BY <1>1, FlushMergeInvariant, PTL

\* The lists taken with llist_del_all neither share nor lose a command, and
\* queued_flush is the number of calls in progress or stranded.
THEOREM CommandsAccountedAlways == Spec => []CommandsAccounted
<1>1. IInv => CommandHasOneOwner
  BY DEF IInv, ListInv, TypeOK, NoneLost, ListsDisjoint, Queued, CommandHasOneOwner
<1>2. IInv => CommandsAccounted
  BY <1>1 DEF IInv, CommandsAccounted
<1> QED BY <1>2, FlushMergeInvariant, PTL

=============================================================================
