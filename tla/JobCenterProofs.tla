-------------------------- MODULE JobCenterProofs ---------------------------
(***************************************************************************)
(* The proof that IndInv is an invariant of JobCenter for every value of   *)
(* the constants, and what follows from it.  Each lemma shows that a step  *)
(* keeps one part of IndInv; the steps are taken action by action.         *)
(***************************************************************************)
EXTENDS JobCenter, FiniteSetTheorems, TLAPS

-----------------------------------------------------------------------------
(* The permits.                                                            *)

\* The set of permit holders is finite, and one that has a member leaves
\* less than MaxConcurrency permits free.
LEMMA HoldersBound ==
  ASSUME PermitAccounting, free \in Nat
  PROVE  /\ IsFiniteSet(Holders)
         /\ Cardinality(Holders) \in Nat
         /\ \A j \in Holders : free < MaxConcurrency
<1>1. IsFiniteSet(Holders) /\ Cardinality(Holders) \in Nat
  <2>1. Holders \subseteq Jobs
    BY DEF Holders
  <2>2. IsFiniteSet(Jobs)
    BY ConstantsAssumption
  <2> QED BY <2>1, <2>2, FS_Subset, FS_CardinalityType
<1>2. ASSUME NEW j \in Holders PROVE free < MaxConcurrency
  <2>1. Cardinality(Holders) # 0
    BY <1>1, <1>2, FS_EmptySet
  <2> QED BY <1>1, <2>1, ConstantsAssumption DEF PermitAccounting
<1> QED BY <1>1, <1>2

\* A step of one task that takes or keeps no permit and gives none back.
LEMMA HoldersKept ==
  ASSUME PermitAccounting, free' = free,
         \A j \in Jobs : task'[j] \in Holding <=> task[j] \in Holding
  PROVE  PermitAccounting'
<1>1. Holders' = Holders
  BY DEF Holders
<1> QED BY <1>1 DEF PermitAccounting

\* TaskAcquire: the semaphore hands one permit to a task that held none.
LEMMA HolderAdded ==
  ASSUME TypeOK, PermitAccounting, NEW j \in Jobs,
         task[j] \notin Holding, free > 0, free' = free - 1,
         \A i \in Jobs : task'[i] \in Holding <=> (task[i] \in Holding \/ i = j)
  PROVE  PermitAccounting'
<1>1. Holders' = Holders \cup {j} /\ j \notin Holders
  BY DEF Holders
<1>2. free \in Nat /\ IsFiniteSet(Holders) /\ Cardinality(Holders) \in Nat
  BY HoldersBound, ConstantsAssumption DEF TypeOK
<1>3. Cardinality(Holders') = Cardinality(Holders) + 1
  BY <1>1, <1>2, FS_AddElement
<1> QED BY <1>2, <1>3, ConstantsAssumption DEF PermitAccounting

\* TaskAbandon and TaskClose: the permit of the task goes back.
LEMMA HolderRemoved ==
  ASSUME TypeOK, PermitAccounting, NEW j \in Jobs,
         task[j] \in Holding, free' = free + 1,
         \A i \in Jobs : task'[i] \in Holding <=> (task[i] \in Holding /\ i # j)
  PROVE  PermitAccounting'
<1>1. Holders' = Holders \ {j} /\ j \in Holders
  BY DEF Holders
<1>2. free \in Nat /\ IsFiniteSet(Holders) /\ Cardinality(Holders) \in Nat
  BY HoldersBound, ConstantsAssumption DEF TypeOK
<1>3. Cardinality(Holders') = Cardinality(Holders) - 1
  BY <1>1, <1>2, FS_RemoveElement
<1> QED BY <1>2, <1>3, ConstantsAssumption DEF PermitAccounting

-----------------------------------------------------------------------------
(* Types.                                                                  *)

\* Every step keeps the types.  A permit is taken only while one is free and
\* given back only by a holder, hence the accounting among the hypotheses.
LEMMA TypeStep ==
  ASSUME TypeOK, ResultOK, PermitAccounting, [Next]_vars
  PROVE  TypeOK' /\ ResultOK'
<1> USE ConstantsAssumption DEF TypeOK, ResultOK, shared, store, process, Entry,
        JobStatus, Active, Live, Terminal, Absent, Control, SubPC, TaskPC,
        Holding, Executing, HandlerEnd
<1> DEFINE TypeInv == TypeOK /\ ResultOK
<1> free \in Nat /\ \A j \in Holders : free < MaxConcurrency
  BY HoldersBound
<1>1. ASSUME NEW j \in Jobs, SubmitNext(j) PROVE TypeInv'
  <2>1. CASE Submit(j) \/ \E i \in Jobs : Restart(i, j)
    BY <2>1 DEF Submit, Restart, Admit
  <2>2. CASE SubmitList(j) BY <2>2 DEF SubmitList
  <2>3. CASE SubmitLock(j) BY <2>3 DEF SubmitLock
  <2>4. CASE SubmitSpawn(j) BY <2>4 DEF SubmitSpawn
  <2> QED BY <1>1, <2>1, <2>2, <2>3, <2>4 DEF SubmitNext
<1>2. ASSUME NEW j \in Jobs, TaskNext(j) PROVE TypeInv'
  <2> USE DEF Step
  <2>1. CASE TaskInsert(j) BY <2>1 DEF TaskInsert, Write
  <2>2. CASE TaskInserted(j) BY <2>2 DEF TaskInserted
  <2>3. CASE TaskAcquire(j) BY <2>3 DEF TaskAcquire
  <2>4. CASE TryStart(j) BY <2>4 DEF TryStart, Persist, Write
  <2>5. CASE TaskAbandon(j) BY <2>5 DEF TaskAbandon, Holders
  <2>6. CASE Enter(j) BY <2>6 DEF Enter
  <2>7. CASE CheckpointPause(j) BY <2>7 DEF CheckpointPause
  <2>8. CASE Wake(j) BY <2>8 DEF Wake
  <2>9. CASE CheckpointCancel(j) BY <2>9 DEF CheckpointCancel
  <2>10. CASE HandlerReturn(j) BY <2>10 DEF HandlerReturn
  <2>11. CASE Judge(j) BY <2>11 DEF Judge, Verdict
  <2>12. CASE TaskFinish(j)
    BY <2>12 DEF TaskFinish, Finish, FinishIgnored, Persist, Write
  <2>13. CASE TaskRelease(j) BY <2>13 DEF TaskRelease, Release
  <2>14. CASE TaskClose(j) BY <2>14 DEF TaskClose, Holders
  <2>15. CASE Sample(j) BY <2>15 DEF Sample, Persist, Write
  <2> QED BY <1>2, <2>1, <2>2, <2>3, <2>4, <2>5, <2>6, <2>7, <2>8, <2>9, <2>10,
             <2>11, <2>12, <2>13, <2>14, <2>15 DEF TaskNext
<1>3. ASSUME NEW c \in Clients, ClientAct(c) PROVE TypeInv'
  <2> USE DEF At, Continue, Reply, Send, ClientState, Idle, ClientStep
  <2>1. CASE PauseSend(c) BY <2>1 DEF PauseSend
  <2>2. CASE ResumeSend(c) BY <2>2 DEF ResumeSend
  <2>3. CASE LocalResumeState(c) BY <2>3 DEF LocalResumeState
  <2>4. CASE CancelQueuedSend(c) BY <2>4 DEF CancelQueuedSend
  <2>5. CASE CancelQueuedFinish(c)
    BY <2>5 DEF CancelQueuedFinish, Finish, FinishIgnored, Persist, Write
  <2>6. CASE CancelQueuedRelease(c) BY <2>6 DEF CancelQueuedRelease, Release
  <2>7. CASE MarkCancelling(c) BY <2>7 DEF MarkCancelling, Persist, Write
  <2>8. CASE CancelSend(c) BY <2>8 DEF CancelSend
  <2>9. CASE ArchiveStore(c) BY <2>9 DEF ArchiveStore, HistoryRow
  <2>10. CASE ArchiveDrop(c) BY <2>10 DEF ArchiveDrop
  <2> QED BY <1>3, <2>1, <2>2, <2>3, <2>4, <2>5, <2>6, <2>7, <2>8, <2>9, <2>10
          DEF ClientAct
<1>4. ASSUME NEW c \in Clients, NEW j \in Jobs, ClientRead(c, j) PROVE TypeInv'
  BY <1>4 DEF ClientRead, Begin, ClientState, ClientStep
<1>5. ASSUME NEW w \in writes, Land(w) \/ Lose(w) PROVE TypeInv'
  BY <1>5 DEF Land, Lose, InsertRow, UpdateRow, Write
<1>6. CASE CrashRestart
  <2>1. table' \in [Jobs -> Entry] /\ lock' \in [Singletons -> Jobs \cup {NoJob}]
        /\ signal' \in [Jobs -> Control] /\ open' \subseteq Jobs
    BY <1>6 DEF CrashRestart
  <2>2. sub' \in [Jobs -> SubPC] /\ client' \in [Clients -> ClientState]
    BY <1>6 DEF CrashRestart, ClientState
  <2>3. /\ task' \in [Jobs -> TaskPC]
        /\ result' \in [Jobs -> {"none"} \cup HandlerEnd \cup Terminal]
        /\ ResultOK'
    BY <1>6 DEF CrashRestart
  <2>4. free' \in 0..MaxConcurrency /\ crashes' \in 0..MaxCrashes
    BY <1>6 DEF CrashRestart
  <2>5. writes' \subseteq Write /\ orphans' \subseteq Jobs /\ up' \in BOOLEAN
    BY <1>6 DEF CrashRestart
  <2>6. UNCHANGED <<db, hist>> /\ lost' \in 0..MaxLost
    BY <1>6 DEF CrashRestart
  <2> QED BY <2>1, <2>2, <2>3, <2>4, <2>5, <2>6
<1>7. CASE RecoverNext
  <2>1. CASE RecoverDone BY <2>1 DEF RecoverDone
  <2>2. ASSUME NEW j \in Jobs, RecoverRequeue(j) PROVE TypeInv'
    <3>1. db' \in [Jobs -> Entry] /\ lost' \in 0..MaxLost
      BY <2>2 DEF RecoverRequeue, RecoverWrite
    <3>2. /\ table' \in [Jobs -> Entry] /\ signal' \in [Jobs -> Control]
          /\ open' \subseteq Jobs /\ task' \in [Jobs -> TaskPC]
          /\ orphans' \subseteq Jobs /\ ResultOK'
      BY <2>2 DEF RecoverRequeue
    <3>3. UNCHANGED <<lock, sub, result, free, client, writes, hist, up, crashes>>
      BY <2>2 DEF RecoverRequeue
    <3> QED BY <3>1, <3>2, <3>3
  <2>3. ASSUME NEW j \in Jobs, RecoverFail(j) PROVE TypeInv'
    <3>1. db' \in [Jobs -> Entry] /\ lost' \in 0..MaxLost
      BY <2>3 DEF RecoverFail, RecoverWrite
    <3> QED BY <2>3, <3>1 DEF RecoverFail
  <2> QED BY <1>7, <2>1, <2>2, <2>3 DEF RecoverNext
<1>8. CASE UNCHANGED vars
  BY <1>8 DEF vars
<1> QED BY <1>1, <1>2, <1>3, <1>4, <1>5, <1>6, <1>7, <1>8 DEF Next

\* Every way out of the task gives back the permit it holds, and no other
\* step touches the semaphore.
LEMMA PermitStep ==
  ASSUME TypeOK, PermitAccounting, Fresh, OrphansApart, [Next]_vars
  PROVE  PermitAccounting'
<1> USE DEF shared, store, process
<1>1. ASSUME NEW j \in Jobs, SubmitNext(j) PROVE PermitAccounting'
  <2>1. CASE UNCHANGED <<task, free>>
    BY <2>1, HoldersKept DEF TypeOK
  <2>2. CASE SubmitSpawn(j)
    <3>1. task[j] = "none"
      BY <2>2 DEF SubmitSpawn, Fresh
    <3>2. \A i \in Jobs : task'[i] \in Holding <=> task[i] \in Holding
      BY <2>2, <3>1 DEF SubmitSpawn, TypeOK, Holding, Executing
    <3> QED BY <2>2, <3>2, HoldersKept DEF SubmitSpawn
  <2> QED BY <1>1, <2>1, <2>2
          DEF SubmitNext, Submit, Restart, Admit, SubmitList, SubmitLock
<1>2. ASSUME NEW j \in Jobs, TaskNext(j) PROVE PermitAccounting'
  <2>1. CASE UNCHANGED <<task, free>>
    BY <2>1, HoldersKept DEF TypeOK
  <2>2. CASE TaskAcquire(j)
    BY <2>2, HolderAdded DEF TaskAcquire, Step, TypeOK, Holding, Executing
  <2>3. CASE TaskAbandon(j) \/ TaskClose(j)
    BY <2>3, HolderRemoved
       DEF TaskAbandon, TaskClose, Step, TypeOK, Holding, Executing
  <2>4. CASE UNCHANGED free /\ \E from, to \in TaskPC :
               Step(j, from, to) /\ (from \in Holding <=> to \in Holding)
    <3>1. \A i \in Jobs : task'[i] \in Holding <=> task[i] \in Holding
      BY <2>4 DEF Step, TypeOK
    <3> QED BY <2>4, <3>1, HoldersKept
  <2>5. CASE TaskInsert(j) \/ TaskInserted(j)
    BY <2>4, <2>5 DEF TaskInsert, TaskInserted, TaskPC, Holding, Executing
  <2>6. CASE TryStart(j) \/ Enter(j) \/ CheckpointPause(j) \/ Wake(j)
    BY <2>4, <2>6
       DEF TryStart, Enter, CheckpointPause, Wake, TaskPC, Holding, Executing
  <2>7. CASE CheckpointCancel(j) \/ HandlerReturn(j) \/ Judge(j)
    BY <2>4, <2>7
       DEF CheckpointCancel, HandlerReturn, Judge, TaskPC, Holding, Executing
  <2>8. CASE TaskFinish(j) \/ TaskRelease(j)
    BY <2>4, <2>8 DEF TaskFinish, TaskRelease, TaskPC, Holding, Executing
  <2>9. CASE Sample(j)
    BY <2>1, <2>9 DEF Sample
  <2> QED BY <1>2, <2>2, <2>3, <2>5, <2>6, <2>7, <2>8, <2>9 DEF TaskNext
<1>3. CASE UNCHANGED <<task, free>>
  BY <1>3, HoldersKept DEF TypeOK
<1>4. ASSUME NEW c \in Clients, ClientAct(c) PROVE UNCHANGED <<task, free>>
  BY <1>4 DEF ClientAct, PauseSend, ResumeSend, LocalResumeState,
     CancelQueuedSend, CancelQueuedFinish, CancelQueuedRelease, MarkCancelling,
     CancelSend, ArchiveStore, ArchiveDrop
<1>5. CASE CrashRestart
  <2>1. Holders' = {}
    BY <1>5 DEF CrashRestart, Holders, Holding, Executing
  <2> QED BY <1>5, <2>1, FS_EmptySet, ConstantsAssumption
          DEF CrashRestart, PermitAccounting
<1>6. CASE RecoverNext
  <2>1. ASSUME NEW j \in Jobs, RecoverRequeue(j) PROVE PermitAccounting'
    <3>1. \A i \in Jobs : task'[i] \in Holding <=> task[i] \in Holding
      BY <2>1 DEF RecoverRequeue, OrphansApart, TypeOK, Holding, Executing
    <3> QED BY <2>1, <3>1, HoldersKept DEF RecoverRequeue
  <2> QED BY <1>3, <1>6, <2>1 DEF RecoverNext, RecoverDone, RecoverFail
<1> QED BY <1>1, <1>2, <1>3, <1>4, <1>5, <1>6
        DEF Next, ClientRead, Land, Lose, vars

-----------------------------------------------------------------------------
(* What the points reached by submit(), the task and the callers say of    *)
(* the status.                                                             *)

Flow ==
  /\ Fresh /\ OrphansApart /\ StatusFollowsTask /\ ClientsRight
  /\ UpdatesAfterStart /\ Recovering

\* Every step keeps what the program points of submit(), of the task, of the
\* callers and of recover() say of the status of their job.
LEMMA FlowStep ==
  ASSUME TypeOK, ResultOK, Flow, [Next]_vars
  PROVE  Flow'
<1> USE ConstantsAssumption DEF TypeOK, Flow, Fresh, OrphansApart,
        StatusFollowsTask, ClientsRight, UpdatesAfterStart, Recovering,
        At, shared, store, process, Entry,
        JobStatus, Active, Live, Terminal, Absent, Control, SubPC, TaskPC,
        Holding, Executing
<1>1. ASSUME NEW j \in Jobs, SubmitNext(j) PROVE Flow'
  <2>1. CASE Submit(j) \/ \E i \in Jobs : Restart(i, j)
    <3>1. Admit(j)
      BY <2>1 DEF Submit, Restart
    <3> QED BY <3>1 DEF Admit
  <2>2. CASE SubmitList(j) BY <2>2 DEF SubmitList
  <2>3. CASE SubmitLock(j) BY <2>3 DEF SubmitLock
  <2>4. CASE SubmitSpawn(j) BY <2>4 DEF SubmitSpawn
  <2> QED BY <1>1, <2>1, <2>2, <2>3, <2>4 DEF SubmitNext
<1>2. ASSUME NEW j \in Jobs, TaskNext(j) PROVE Flow'
  <2> USE DEF Step
  <2>1. CASE TaskInsert(j) BY <2>1 DEF TaskInsert
  <2>2. CASE TaskInserted(j) \/ TaskAcquire(j) BY <2>2 DEF TaskInserted, TaskAcquire
  <2>3. CASE TryStart(j) BY <2>3 DEF TryStart, Persist
  <2>4. CASE TaskAbandon(j) BY <2>4 DEF TaskAbandon
  <2>5. CASE Enter(j) BY <2>5 DEF Enter
  <2>6. CASE CheckpointPause(j) BY <2>6 DEF CheckpointPause
  <2>7. CASE Wake(j) BY <2>7 DEF Wake
  <2>8. CASE CheckpointCancel(j) BY <2>8 DEF CheckpointCancel
  <2>9. CASE HandlerReturn(j) \/ Judge(j) BY <2>9 DEF HandlerReturn, Judge
  <2>10. CASE TaskFinish(j)
    <3>1. CASE Step(j, "judged", "finished") /\ Finish(j, result[j])
      <4>1. result[j] \in Terminal /\ sub[j] = "done"
        BY <3>1 DEF ResultOK
      <4> QED BY <2>10, <3>1, <4>1 DEF TaskFinish, Finish, Persist
    <3>2. CASE Step(j, "judged", "closing") /\ FinishIgnored(j)
      BY <2>10, <3>2 DEF TaskFinish, FinishIgnored
    <3> QED BY <2>10, <3>1, <3>2 DEF TaskFinish
  <2>11. CASE TaskRelease(j) BY <2>11 DEF TaskRelease, Release
  <2>12. CASE TaskClose(j) BY <2>12 DEF TaskClose
  <2>13. CASE Sample(j) BY <2>13 DEF Sample, Persist
  <2> QED BY <1>2, <2>1, <2>2, <2>3, <2>4, <2>5, <2>6, <2>7, <2>8, <2>9, <2>10,
             <2>11, <2>12, <2>13 DEF TaskNext
<1>3. ASSUME NEW c \in Clients, ClientAct(c) PROVE Flow'
  <2> client[c].step # "idle" => client[c].job \in Jobs
    BY DEF ClientState, ClientStep, Idle
  <2> USE DEF Continue, Reply, Send, ClientState, ClientStep, Idle
  <2>1. CASE PauseSend(c) BY <2>1 DEF PauseSend
  <2>2. CASE ResumeSend(c) BY <2>2 DEF ResumeSend
  <2>3. CASE LocalResumeState(c) BY <2>3 DEF LocalResumeState
  <2>4. CASE CancelQueuedSend(c) BY <2>4 DEF CancelQueuedSend
  <2>5. CASE CancelQueuedFinish(c)
    BY <2>5 DEF CancelQueuedFinish, Finish, FinishIgnored, Persist
  <2>6. CASE CancelQueuedRelease(c) BY <2>6 DEF CancelQueuedRelease, Release
  <2>7. CASE MarkCancelling(c) BY <2>7 DEF MarkCancelling, Persist
  <2>8. CASE CancelSend(c) BY <2>8 DEF CancelSend
  <2>9. CASE ArchiveStore(c) BY <2>9 DEF ArchiveStore
  <2>10. CASE ArchiveDrop(c) BY <2>10 DEF ArchiveDrop
  <2> QED BY <1>3, <2>1, <2>2, <2>3, <2>4, <2>5, <2>6, <2>7, <2>8, <2>9, <2>10
          DEF ClientAct
<1>4. ASSUME NEW c \in Clients, NEW j \in Jobs, ClientRead(c, j) PROVE Flow'
  BY <1>4 DEF ClientRead, Begin, Known, ClientState, ClientStep, Idle
<1>5. ASSUME NEW w \in writes, Land(w) \/ Lose(w) PROVE Flow'
  BY <1>5 DEF Land, Lose, InsertRow, UpdateRow, Write
<1>6. CASE CrashRestart
  BY <1>6 DEF CrashRestart, IsOrphan, Idle
<1>7. CASE RecoverNext
  <2>1. CASE RecoverDone BY <2>1 DEF RecoverDone
  <2>2. ASSUME NEW j \in Jobs, RecoverRequeue(j) PROVE Flow'
    BY <2>2 DEF RecoverRequeue, RecoverWrite
  <2>3. ASSUME NEW j \in Jobs, RecoverFail(j) PROVE Flow'
    BY <2>3 DEF RecoverFail, RecoverWrite
  <2> QED BY <1>7, <2>1, <2>2, <2>3 DEF RecoverNext
<1>8. CASE UNCHANGED vars
  BY <1>8 DEF vars
<1> QED BY <1>1, <1>2, <1>3, <1>4, <1>5, <1>6, <1>7, <1>8 DEF Next

-----------------------------------------------------------------------------
(* The invariant.                                                          *)

\* A manager that has just been created satisfies the invariant.
LEMMA InvInit == Init => IndInv
<1> SUFFICES ASSUME Init PROVE IndInv
  OBVIOUS
<1> USE ConstantsAssumption DEF Init
<1>1. TypeOK /\ ResultOK
  BY DEF TypeOK, ResultOK, Entry, Absent, Control, SubPC, TaskPC, ClientState
<1>2. PermitAccounting
  <2>1. Holders = {}
    BY DEF Holders, Holding, Executing
  <2> QED BY <2>1, FS_EmptySet DEF PermitAccounting
<1>3. Flow
  BY DEF Flow, Fresh, OrphansApart, StatusFollowsTask, ClientsRight, At, Idle,
     UpdatesAfterStart, Recovering, Absent, Active, Live, Executing
<1> QED BY <1>1, <1>2, <1>3 DEF IndInv, Flow

\* The invariant is inductive.
LEMMA InvStep == IndInv /\ [Next]_vars => IndInv'
<1> SUFFICES ASSUME IndInv, [Next]_vars PROVE IndInv'
  OBVIOUS
<1>1. TypeOK' /\ ResultOK'
  BY TypeStep DEF IndInv
<1>2. PermitAccounting'
  BY PermitStep DEF IndInv
<1>3. Flow'
  BY FlowStep DEF IndInv, Flow
<1> QED BY <1>1, <1>2, <1>3 DEF IndInv, Flow

\* The inductive invariant: types, permit accounting, and what the points
\* that submit(), run_job(), execute_core() and the callers of the control
\* interface have reached say of the status of a job.
THEOREM Invariance == Spec => []IndInv
BY InvInit, InvStep, PTL DEF Spec

\* Every variable keeps its type: in particular a task that has ended its
\* handler reaches finish() with a terminal status.
THEOREM TypeCorrectness == Spec => []TypeOK
<1>1. IndInv => TypeOK
  BY DEF IndInv
<1> QED BY <1>1, Invariance, PTL

\* No path through run_job() and execute_core() loses or doubles a permit.
THEOREM PermitsAccounted == Spec => []PermitAccounting
<1>1. IndInv => PermitAccounting
  BY DEF IndInv
<1> QED BY <1>1, Invariance, PTL

-----------------------------------------------------------------------------
(* The manager implements the life cycle.                                  *)

\* The life cycle counts the busy jobs as the manager counts the holders.
LEMMA SameCount == \A S : Lifecycle!Cardinality(S) = Cardinality(S)
BY DEF Cardinality, Lifecycle!Cardinality

\* A job that a permit holder is about to start leaves room for it: an
\* active job holds a permit.
LEMMA RoomToStart ==
  ASSUME IndInv, NEW j \in Jobs, task[j] = "permitted", table[j] = "Pending"
  PROVE  Cardinality(Lifecycle!Busy) < MaxConcurrency
<1> DEFINE Others == Holders \ {j}
<1>1. Lifecycle!Busy \subseteq Others
  BY DEF IndInv, StatusFollowsTask, Lifecycle!Busy, Lifecycle!Active,
     Holders, Holding, Active
<1>2. free \in Nat /\ IsFiniteSet(Holders) /\ Cardinality(Holders) \in Nat
  BY HoldersBound, ConstantsAssumption DEF IndInv, TypeOK
<1>3. j \in Holders
  BY DEF Holders, Holding
<1>4. IsFiniteSet(Others) /\ Cardinality(Others) = Cardinality(Holders) - 1
  BY <1>2, <1>3, FS_RemoveElement
<1>5. /\ Cardinality(Lifecycle!Busy) \in Nat
      /\ Cardinality(Lifecycle!Busy) <= Cardinality(Others)
  BY <1>1, <1>4, FS_Subset, FS_CardinalityType
<1> QED BY <1>2, <1>4, <1>5, ConstantsAssumption DEF IndInv, PermitAccounting

\* Every step is a step of the life cycle or leaves the table alone.
LEMMA LifecycleStep ==
  ASSUME IndInv, [Next]_vars
  PROVE  [Lifecycle!Next]_table
<1> USE DEF shared, store, process, Terminal, Active, Absent, Lifecycle!Next,
        Lifecycle!Move, Lifecycle!Terminal, Lifecycle!Active, Lifecycle!Absent
<1>a. TypeOK /\ ResultOK /\ Fresh /\ OrphansApart /\ StatusFollowsTask /\ ClientsRight
  BY DEF IndInv
<1>1. ASSUME NEW j \in Jobs, SubmitNext(j) PROVE [Lifecycle!Next]_table
  <2>1. CASE SubmitList(j)
    <3>1. table[j] = Absent
      BY <1>a, <2>1 DEF SubmitList, Fresh
    <3> QED BY <2>1, <3>1 DEF SubmitList, Lifecycle!Enqueue
  <2> QED BY <1>1, <2>1 DEF SubmitNext, Submit, Restart, Admit, SubmitLock, SubmitSpawn
<1>2. ASSUME NEW j \in Jobs, TaskNext(j) PROVE [Lifecycle!Next]_table
  <2>1. CASE TryStart(j)
    <3>1. Cardinality(Lifecycle!Busy) < MaxConcurrency
      BY <2>1, RoomToStart DEF TryStart, Step
    <3>2. Lifecycle!Start(j)
      BY <2>1, <3>1, SameCount DEF TryStart, Lifecycle!Start
    <3> QED BY <3>2
  <2>2. CASE CheckpointPause(j)
    BY <2>2 DEF CheckpointPause, Lifecycle!Pause
  <2>3. CASE Wake(j)
    BY <2>3 DEF Wake, Lifecycle!Resume
  <2>4. CASE TaskFinish(j)
    <3>1. CASE Step(j, "judged", "finished") /\ Finish(j, result[j])
      <4>1. result[j] \in Terminal /\ table[j] \in Active
        BY <1>a, <3>1 DEF Step, Finish, ResultOK, StatusFollowsTask, Live, Executing
      <4> QED BY <3>1, <4>1 DEF Finish, Lifecycle!End
    <3> QED BY <2>4, <3>1 DEF TaskFinish, FinishIgnored
  <2> QED BY <1>2, <2>1, <2>2, <2>3, <2>4
          DEF TaskNext, TaskInsert, TaskInserted, TaskAcquire, TaskAbandon, Enter,
              CheckpointCancel, HandlerReturn, Judge, TaskRelease, TaskClose, Sample
<1>3. ASSUME NEW c \in Clients, ClientAct(c) PROVE [Lifecycle!Next]_table
  <2> DEFINE j == client[c].job
  <2>a. client[c].step # "idle" => j \in Jobs
    BY <1>a DEF TypeOK, ClientState, ClientStep, Idle
  <2>1. CASE LocalResumeState(c)
    BY <2>1, <2>a DEF LocalResumeState, At, Lifecycle!Resume
  <2>2. CASE CancelQueuedFinish(c)
    <3>1. CASE Finish(j, "Cancelled")
      BY <2>2, <2>a, <3>1 DEF CancelQueuedFinish, At, Finish, Live, Terminal,
         Lifecycle!StopQueued, Lifecycle!End
    <3> QED BY <2>2, <3>1 DEF CancelQueuedFinish, FinishIgnored
  <2>3. CASE MarkCancelling(c)
    <3>1. j \in Jobs /\ table[j] # "Pending"
      BY <1>a, <2>3, <2>a DEF MarkCancelling, At, ClientsRight
    <3> QED BY <2>3, <3>1 DEF MarkCancelling, Live, Active, Lifecycle!Stop
  <2>4. CASE ArchiveDrop(c)
    <3>1. j \in Jobs /\ table[j] \in Terminal \cup {Absent}
      BY <1>a, <2>4, <2>a DEF ArchiveDrop, At, ClientsRight, TypeOK, Entry, JobStatus, Live
    <3> QED BY <1>a, <2>4, <3>1 DEF ArchiveDrop, TypeOK, Lifecycle!Archive
  <2> QED BY <1>3, <2>1, <2>2, <2>3, <2>4
          DEF ClientAct, PauseSend, ResumeSend, CancelQueuedSend, CancelQueuedRelease,
              CancelSend, ArchiveStore
<1>4. CASE CrashRestart
  BY <1>4 DEF CrashRestart, Lifecycle!Crash
<1>5. CASE RecoverNext
  <2>1. ASSUME NEW j \in Jobs, RecoverRequeue(j) PROVE [Lifecycle!Next]_table
    BY <1>a, <2>1 DEF RecoverRequeue, OrphansApart, Lifecycle!Enqueue
  <2> QED BY <1>5, <2>1 DEF RecoverNext, RecoverDone, RecoverFail
<1> QED BY <1>1, <1>2, <1>3, <1>4, <1>5 DEF Next, ClientRead, Land, Lose, vars

\* Whatever the submissions, the tasks and the callers do, the status of
\* every job moves as model.rs draws it, and a job becomes active only when
\* fewer than max_concurrency jobs are.
THEOREM LifecycleImplemented == Spec => ImplementsLifecycle
<1>1. Init => Lifecycle!Init
  BY DEF Init, Lifecycle!Init, Lifecycle!Absent, Absent
<1> QED BY <1>1, LifecycleStep, Invariance, PTL DEF Spec, ImplementsLifecycle, Lifecycle!Spec

\* An ended job keeps its status until it leaves the memory table: the
\* idempotence of finish() holds against every other writer.
THEOREM EndIsFinal == Spec => TerminalIsFinal
<1>1. ASSUME IndInv, [Next]_vars
      PROVE  \A j \in Jobs : table[j] \in Terminal => table'[j] \in {table[j], Absent}
  <2>1. [Lifecycle!Next]_table /\ table \in [Jobs -> Entry]
    BY <1>1, LifecycleStep DEF IndInv, TypeOK
  <2> QED BY <2>1 DEF Lifecycle!Next, Lifecycle!Move, Lifecycle!Enqueue,
         Lifecycle!Start, Lifecycle!Pause, Lifecycle!Resume, Lifecycle!Stop,
         Lifecycle!StopQueued, Lifecycle!End, Lifecycle!Archive, Lifecycle!Crash,
         Lifecycle!Terminal, Lifecycle!Active, Lifecycle!Absent, Terminal, Active, Absent
<1> QED BY <1>1, Invariance, PTL DEF Spec, TerminalIsFinal

-----------------------------------------------------------------------------
(* The rows.                                                               *)

\* How a step changes the rows: a write lands, an archive removes the row,
\* or recovery treats it.
LEMMA RowStep ==
  ASSUME [Next]_vars, db' # db
  PROVE  \/ \E w \in writes : Land(w)
         \/ \E c \in Clients : ArchiveStore(c)
         \/ \E j \in Jobs : RecoverRequeue(j) \/ RecoverFail(j)
<1> USE DEF shared, store, process
<1>1. ASSUME NEW j \in Jobs, SubmitNext(j) PROVE FALSE
  BY <1>1 DEF SubmitNext, Submit, Restart, Admit, SubmitList, SubmitLock, SubmitSpawn
<1>2. ASSUME NEW j \in Jobs, TaskNext(j) PROVE FALSE
  BY <1>2 DEF TaskNext, TaskInsert, TaskInserted, TaskAcquire, TryStart, TaskAbandon,
     Enter, CheckpointPause, Wake, CheckpointCancel, HandlerReturn, Judge, TaskFinish,
     TaskRelease, TaskClose, Sample
<1>3. ASSUME NEW c \in Clients, ClientAct(c) PROVE ArchiveStore(c)
  BY <1>3 DEF ClientAct, PauseSend, ResumeSend, LocalResumeState, CancelQueuedSend,
     CancelQueuedFinish, CancelQueuedRelease, MarkCancelling, CancelSend, ArchiveDrop
<1> QED BY <1>1, <1>2, <1>3
        DEF Next, ClientRead, Lose, CrashRestart, RecoverNext, RecoverDone, vars

\* Outside recovery no row goes back to Pending: the insert of a job never
\* meets a row with another status and every update comes after the start.
THEOREM RowsNeverRequeued == Spec => RowNeverRequeued
<1>1. ASSUME IndInv, [Next]_vars, NEW j \in Jobs \ orphans,
             db[j] # Absent, db'[j] = "Pending"
      PROVE  db[j] = "Pending"
  <2> USE <1>1 DEF IndInv, TypeOK, Absent
  <2>1. CASE db' = db
    BY <2>1
  <2>2. ASSUME NEW w \in writes, Land(w) PROVE db[j] = "Pending"
    BY <2>2 DEF Land, InsertRow, UpdateRow, UpdatesAfterStart, Write
  <2>3. ASSUME NEW c \in Clients, ArchiveStore(c) PROVE db[j] = "Pending"
    BY <2>3 DEF ArchiveStore
  <2>4. ASSUME NEW i \in Jobs, RecoverRequeue(i) \/ RecoverFail(i)
        PROVE  db[j] = "Pending"
    BY <2>4 DEF RecoverRequeue, RecoverFail, RecoverWrite
  <2> QED BY <2>1, <2>2, <2>3, <2>4, RowStep
<1>2. IndInv /\ [Next]_vars =>
        \A j \in Jobs \ orphans :
          db[j] # Absent /\ db'[j] = "Pending" => db[j] = "Pending"
  BY <1>1
<1> QED BY <1>2, Invariance, PTL DEF Spec, RowNeverRequeued

\* No step makes a settled job unsettled: a job whose task is over is not
\* live in memory, so no caller and no task writes for it, and recovery
\* treats rows only that have not ended.
THEOREM SettledForGood == Spec => EndedStaysEnded
<1>1. ASSUME IndInv, [Next]_vars, NEW j \in Jobs, Settled(j)
      PROVE  Settled(j)'
  <2> USE <1>1 DEF Settled, shared, store, process
  <2>a. table[j] \notin Live /\ task[j] \notin Executing /\ j \notin orphans
    BY DEF IndInv, TypeOK, StatusFollowsTask, OrphansApart, Live, Executing
  <2>b. /\ sub \in [Jobs -> SubPC] /\ task \in [Jobs -> TaskPC]
        /\ db \in [Jobs -> Entry]
    BY DEF IndInv, TypeOK
  <2>1. ASSUME NEW i \in Jobs, SubmitNext(i) PROVE Settled(j)'
    BY <2>1, <2>b DEF SubmitNext, Submit, Restart, Admit, SubmitList, SubmitLock,
       SubmitSpawn
  <2>2. ASSUME NEW i \in Jobs, TaskNext(i) PROVE Settled(j)'
    <3>1. ASSUME NEW from, NEW to, Step(i, from, to), from \notin {"none", "done"}
          PROVE  i # j /\ task'[j] = task[j]
      BY <2>b, <3>1 DEF Step
    <3>2. CASE TaskInsert(i)
      BY <3>1, <3>2 DEF TaskInsert
    <3>3. CASE TaskInserted(i) \/ TaskAcquire(i) \/ Enter(i) \/ Judge(i)
      BY <3>1, <3>3 DEF TaskInserted, TaskAcquire, Enter, Judge
    <3>4. CASE TryStart(i)
      BY <3>1, <3>4 DEF TryStart, Persist
    <3>5. CASE TaskAbandon(i) \/ TaskClose(i) \/ TaskRelease(i)
      BY <3>1, <3>5 DEF TaskAbandon, TaskClose, TaskRelease
    <3>6. CASE CheckpointPause(i) \/ Wake(i) \/ CheckpointCancel(i) \/ HandlerReturn(i)
      BY <3>1, <3>6 DEF CheckpointPause, Wake, CheckpointCancel, HandlerReturn
    <3>7. CASE TaskFinish(i)
      BY <3>1, <3>7 DEF TaskFinish, Finish, FinishIgnored, Persist
    <3>8. CASE Sample(i)
      BY <3>8 DEF Sample, Persist
    <3> QED BY <2>2, <3>2, <3>3, <3>4, <3>5, <3>6, <3>7, <3>8 DEF TaskNext
  <2>3. ASSUME NEW c \in Clients, ClientAct(c) PROVE Settled(j)'
    <3>1. CASE PauseSend(c) \/ ResumeSend(c) \/ LocalResumeState(c)
      BY <3>1 DEF PauseSend, ResumeSend, LocalResumeState
    <3>2. CASE CancelQueuedSend(c) \/ CancelQueuedRelease(c) \/ CancelSend(c)
      BY <3>2 DEF CancelQueuedSend, CancelQueuedRelease, CancelSend
    <3>3. CASE CancelQueuedFinish(c)
      BY <2>a, <3>3 DEF CancelQueuedFinish, Finish, FinishIgnored, Persist
    <3>4. CASE MarkCancelling(c)
      BY <2>a, <3>4 DEF MarkCancelling, Persist
    <3>5. CASE ArchiveStore(c)
      BY <2>b, <3>5 DEF ArchiveStore, Live, Active, Absent
    <3>6. CASE ArchiveDrop(c)
      BY <3>6 DEF ArchiveDrop
    <3> QED BY <2>3, <3>1, <3>2, <3>3, <3>4, <3>5, <3>6 DEF ClientAct
  <2>4. CASE \E c \in Clients, i \in Jobs : ClientRead(c, i)
    BY <2>4 DEF ClientRead
  <2>5. CASE \E w \in writes : Land(w) \/ Lose(w)
    BY <2>b, <2>5 DEF Land, Lose
  <2>6. CASE CrashRestart
    BY <2>6 DEF CrashRestart
  <2>7. CASE RecoverNext
    BY <2>a, <2>b, <2>7 DEF RecoverNext, RecoverDone, RecoverRequeue, RecoverFail, RecoverWrite
  <2> QED BY <2>1, <2>2, <2>3, <2>4, <2>5, <2>6, <2>7 DEF Next, vars
<1>2. IndInv /\ [Next]_vars => \A j \in Jobs : Settled(j) => Settled(j)'
  BY <1>1
<1> QED BY <1>2, Invariance, PTL DEF Spec, EndedStaysEnded

\* When recovery is over and no write has failed, every row that has not
\* ended has its job in memory.
THEOREM OrphansTreated == Spec => NoOrphanLeft
<1>1. ASSUME IndInv, [Next]_vars, ~up, up', lost = 0, NEW j \in Jobs, db[j] \in Live
      PROVE  table[j] # Absent
  <2>1. RecoverDone
    BY <1>1 DEF Next, SubmitNext, Submit, Restart, Admit, SubmitList, SubmitLock,
       SubmitSpawn, TaskNext, TaskInsert, TaskInserted, TaskAcquire, TryStart,
       TaskAbandon, Enter, CheckpointPause, Wake, CheckpointCancel, HandlerReturn,
       Judge, TaskFinish, TaskRelease, TaskClose, Sample, ClientAct, PauseSend,
       ResumeSend, LocalResumeState, CancelQueuedSend, CancelQueuedFinish,
       CancelQueuedRelease, MarkCancelling, CancelSend, ArchiveStore, ArchiveDrop,
       ClientRead, Land, Lose, CrashRestart, RecoverNext, RecoverRequeue,
       RecoverFail, process, vars
  <2> QED BY <1>1, <2>1 DEF RecoverDone, IndInv, Recovering
<1>2. IndInv /\ [Next]_vars =>
        (~up /\ up' /\ lost = 0 =>
           \A j \in Jobs : db[j] \in Live => table[j] # Absent)
  BY <1>1
<1> QED BY <1>2, Invariance, PTL DEF Spec, NoOrphanLeft

-----------------------------------------------------------------------------
(* Singletons.                                                             *)

\* Outside the two ways SingletonsApart names, every step keeps the entry of
\* active_singletons on the live job of its kind.
LEMMA LockStep ==
  ASSUME IndInv, LockCovers, [SingletonsApart /\ Next]_vars
  PROVE  LockCovers'
<1> USE ConstantsAssumption DEF shared, store, process
<1>a. /\ Fresh /\ StatusFollowsTask /\ ClientsRight /\ OrphansApart
      /\ lock \in [Singletons -> Jobs \cup {NoJob}] /\ table \in [Jobs -> Entry]
      /\ sub \in [Jobs -> SubPC]
  BY DEF IndInv, TypeOK
<1>1. ASSUME sub' = sub,
             \A i \in Jobs : table'[i] \in Live => table[i] \in Live,
             \A k \in Singletons : lock'[k] # lock[k] => table[lock[k]] \notin Live
      PROVE  LockCovers'
  BY <1>1, <1>a DEF LockCovers, Submitting
<1>2. ASSUME NEW j \in Jobs, SubmitNext(j) PROVE LockCovers'
  <2>1. CASE Submit(j) \/ \E i \in Jobs : Restart(i, j)
    <3>1. Admit(j)
      BY <2>1 DEF Submit, Restart
    <3>2. \A i \in Submitting :
            KindOf[i] = KindOf[j] => KindOf[j] \notin Singletons
      <4>1. sub[j] = "new" /\ sub'[j] = "checked"
        BY <1>a, <3>1 DEF Admit
      <4> QED BY <4>1 DEF SingletonsApart, vars
    <3>3. \A i \in Jobs : KindOf[i] = KindOf[j] /\ KindOf[j] \in Singletons =>
            table[i] \notin Live
      <4> SUFFICES ASSUME NEW i \in Jobs, KindOf[i] = KindOf[j],
                          KindOf[j] \in Singletons, table[i] \in Live
                   PROVE  FALSE
        OBVIOUS
      <4>1. sub[i] = "done"
        BY <1>a, <3>2 DEF Fresh, Submitting, SubPC, Live, Active, Absent
      <4>2. lock[KindOf[j]] = i
        BY <4>1 DEF LockCovers
      <4> QED BY <3>1, <4>2 DEF Admit, SingletonAdmits
    <3> QED BY <1>a, <3>1, <3>2, <3>3 DEF Admit, LockCovers, Submitting
  <2>2. CASE SubmitList(j)
    BY <1>a, <2>2 DEF SubmitList, LockCovers, Submitting, Live, Active
  <2>3. CASE SubmitLock(j)
    BY <1>a, <2>3 DEF SubmitLock, LockCovers, Submitting
  <2>4. CASE SubmitSpawn(j)
    BY <1>a, <2>4 DEF SubmitSpawn, LockCovers, Submitting
  <2> QED BY <1>2, <2>1, <2>2, <2>3, <2>4 DEF SubmitNext
<1>3. ASSUME NEW j \in Jobs, TaskNext(j) PROVE LockCovers'
  <2>1. CASE TryStart(j)
    BY <1>1, <2>1 DEF TryStart, Live
  <2>2. CASE CheckpointPause(j) \/ Wake(j)
    <3>1. \A i \in Jobs : table'[i] \in Live => table[i] \in Live
      BY <1>a, <2>2 DEF CheckpointPause, Wake, Live, Active
    <3> QED BY <1>1, <2>2, <3>1 DEF CheckpointPause, Wake
  <2>3. CASE TaskFinish(j)
    <3>1. ASSUME Finish(j, result[j]) PROVE \A i \in Jobs : table'[i] \in Live => table[i] \in Live
      BY <1>a, <3>1 DEF Finish
    <3> QED BY <1>1, <2>3, <3>1 DEF TaskFinish, FinishIgnored
  <2>4. CASE TaskRelease(j)
    <3>1. table[j] \notin Live
      BY <1>a, <2>4 DEF TaskRelease, Step, StatusFollowsTask, Live, Executing
    <3>2. \A k \in Singletons : lock'[k] # lock[k] => lock[k] = j
      BY <1>a, <2>4 DEF TaskRelease, Release
    <3> QED BY <1>1, <2>4, <3>1, <3>2 DEF TaskRelease
  <2> QED BY <1>1, <1>3, <2>1, <2>2, <2>3, <2>4
          DEF TaskNext, TaskInsert, TaskInserted, TaskAcquire, TaskAbandon, Enter,
              CheckpointCancel, HandlerReturn, Judge, TaskClose, Sample
<1>4. ASSUME NEW c \in Clients, ClientAct(c) PROVE LockCovers'
  <2>1. CASE LocalResumeState(c)
    BY <1>1, <2>1 DEF LocalResumeState, Live, Active
  <2>2. CASE CancelQueuedFinish(c)
    BY <1>1, <1>a, <2>2 DEF CancelQueuedFinish, Finish, FinishIgnored, Live, Active
  <2>3. CASE MarkCancelling(c)
    BY <1>1, <1>a, <2>3 DEF MarkCancelling, Live, Active
  <2>4. CASE ArchiveDrop(c)
    BY <1>1, <1>a, <2>4 DEF ArchiveDrop, Live, Active, Absent
  <2>5. CASE CancelQueuedRelease(c)
    <3>1. table[client[c].job] \notin Live
      BY <1>a, <2>5 DEF CancelQueuedRelease, At, ClientsRight
    <3>2. \A k \in Singletons : lock'[k] # lock[k] => lock[k] = client[c].job
      BY <1>a, <2>5 DEF CancelQueuedRelease, Release
    <3> QED BY <1>1, <2>5, <3>1, <3>2 DEF CancelQueuedRelease
  <2> QED BY <1>1, <1>4, <2>1, <2>2, <2>3, <2>4, <2>5
          DEF ClientAct, PauseSend, ResumeSend, CancelQueuedSend, CancelSend, ArchiveStore
<1>5. CASE CrashRestart
  <2>1. \A i \in Jobs : table'[i] \notin Live /\ sub'[i] \in {"new", "done"}
    BY <1>5 DEF CrashRestart, Live, Active, Absent
  <2> QED BY <2>1 DEF LockCovers, Submitting
<1>6. CASE RecoverNext
  <2>1. CASE RecoverDone \/ \E j \in Jobs : RecoverFail(j)
    BY <1>1, <2>1 DEF RecoverDone, RecoverFail
  <2>2. ASSUME NEW j \in Jobs, RecoverRequeue(j) PROVE LockCovers'
    <3>1. KindOf[j] \notin Singletons
      BY <1>a, <2>2 DEF SingletonsApart, vars, RecoverRequeue, OrphansApart
    <3>2. /\ sub' = sub /\ lock' = lock
          /\ \A i \in Jobs : KindOf[i] \in Singletons => table'[i] = table[i]
      BY <1>a, <2>2, <3>1 DEF RecoverRequeue
    <3> QED BY <3>2 DEF LockCovers, Submitting
  <2> QED BY <1>6, <2>1, <2>2 DEF RecoverNext
<1> QED BY <1>1, <1>2, <1>3, <1>4, <1>5, <1>6
        DEF Next, ClientRead, Land, Lose, vars

\* Two live jobs of a singleton kind come about in two ways only: by two
\* submissions of the kind at the same time, or by recovery putting one back
\* to work.  In an execution that takes neither, active_singletons admits one
\* at most, although an entry is given back after the job has ended, when the
\* next submission may own it already, and through crashes.
THEOREM SingletonsAlone ==
  Spec /\ [][SingletonsApart]_vars => []SingletonAlive
<1>1. Init => LockCovers
  BY DEF Init, LockCovers, Submitting, Live, Active, Absent
<1>2. IndInv /\ LockCovers /\ [SingletonsApart /\ Next]_vars => LockCovers'
  BY LockStep
<1>3. IndInv /\ LockCovers => SingletonAlive
  <2> SUFFICES ASSUME IndInv, LockCovers, NEW i \in Jobs, NEW j \in Jobs, i # j,
                      KindOf[i] = KindOf[j], KindOf[i] \in Singletons,
                      table[i] \in Live, table[j] \in Live
               PROVE  FALSE
    BY DEF SingletonAlive
  <2>1. sub[i] \in {"listed", "locked", "done"} /\ sub[j] \in {"listed", "locked", "done"}
    BY DEF IndInv, TypeOK, Fresh, SubPC, Live, Active, Absent
  <2> QED BY <2>1 DEF LockCovers
<1>4. [Next]_vars /\ [SingletonsApart]_vars => [SingletonsApart /\ Next]_vars
  OBVIOUS
<1> QED BY <1>1, <1>2, <1>3, <1>4, Invariance, PTL DEF Spec
=============================================================================
