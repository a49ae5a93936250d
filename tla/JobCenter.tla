----------------------------- MODULE JobCenter ------------------------------
(***************************************************************************)
(* The job manager of one process (cmx-job-core/src/manager.rs) in its     *)
(* single-node mode, with the store it writes through to                   *)
(* (cmx-job-store-pg/src/lib.rs) and the crash recovery it runs at start.  *)
(*                                                                         *)
(* Everything in the manager is shared by the tasks of a multi-threaded    *)
(* tokio runtime.  An access to one of its concurrent maps is atomic; two  *)
(* accesses are not, so every operation is cut where another task can run: *)
(*   sub[j]    how far submit() of job j has come;                         *)
(*   task[j]   how far the task that runs job j has come (run_job,         *)
(*             execute_core, and the handler inside them);                 *)
(*   client[c] the request a caller of the control interface is inside;    *)
(*   writes    the UPDATEs and INSERTs handed to the database and not yet  *)
(*             applied: each is a task of its own, so they land in any     *)
(*             order.                                                      *)
(* A job id is used once.  KindOf[j] stands for the kind together with the *)
(* business key of j, which is what the singleton lock is keyed by.        *)
(***************************************************************************)
EXTENDS Naturals, FiniteSets, JobModel

CONSTANTS
  Jobs,            \* job ids
  NoJob,           \* not a job id
  Kinds,           \* registered kinds (with business key)
  KindOf,          \* the kind of each job
  Singletons,      \* kinds whose capabilities say singleton
  Idempotent,      \* kinds whose capabilities say idempotent
  Restartable,     \* kinds whose restart mode is not None
  Clients,         \* concurrent callers of pause, resume, cancel, archive
  MaxConcurrency,  \* permits of the semaphore
  Persistent,      \* a database store, or the NullStore
  MaxSubmitters,   \* bound: submissions in progress at the same time
  MaxCrashes,      \* bound: process crashes
  MaxLost          \* bound: database statements that fail (only logged)

ASSUME ConstantsAssumption ==
  /\ IsFiniteSet(Jobs)
  /\ NoJob \notin Jobs
  /\ KindOf \in [Jobs -> Kinds]
  /\ Singletons \subseteq Kinds
  /\ Idempotent \subseteq Kinds
  /\ Restartable \subseteq Kinds
  /\ MaxConcurrency \in Nat \ {0}
  /\ Persistent \in BOOLEAN
  /\ MaxSubmitters \in Nat
  /\ MaxCrashes \in Nat
  /\ MaxLost \in Nat

VARIABLES
  table,    \* in-memory status of each job
  lock,     \* active_singletons
  signal,   \* the value held by the control channel of each job
  open,     \* jobs whose channel is in the controls map
  sub, task, result, free, client,
  writes, db, hist,
  orphans,  \* rows the start-up recovery has still to treat
  up,       \* the manager is published: requests are served
  crashes, lost

shared  == <<table, lock, signal, open>>
store   == <<writes, db, hist>>
process == <<orphans, up, crashes>>
vars == <<shared, sub, task, result, free, client, store, process, lost>>

-----------------------------------------------------------------------------
(* Program counters.                                                       *)

SubPC == {"new", "checked", "listed", "locked", "done"}

Submitting == {j \in Jobs : sub[j] \in {"checked", "listed", "locked"}}

\* The handler of the job is running, suspended or has just returned.
Executing == {"entering", "running", "suspended", "returned", "judged"}

\* Points of the task at which it owns a permit.
Holding == {"permitted", "finished", "closing"} \cup Executing

Holders == {j \in Jobs : task[j] \in Holding}

TaskPC == {"none", "spawned", "inserting", "queued", "done"} \cup Holding

\* How a handler ends: Ok, Err with code 499, another Err, or a panic.
HandlerEnd == {"ok", "stopped", "error", "panic"}

ClientStep == {"pause", "resume", "resumed", "cancelQueued", "finishQueued",
               "releaseQueued", "cancel", "signalCancel", "archive", "drop"}

Idle == [step |-> "idle", job |-> NoJob]

ClientState == {Idle} \cup [step : ClientStep, job : Jobs]

Write == [op : {"insert", "update"}, job : Jobs, status : JobStatus]

TypeOK ==
  /\ table \in [Jobs -> Entry]
  /\ lock \in [Singletons -> Jobs \cup {NoJob}]
  /\ signal \in [Jobs -> Control]
  /\ open \subseteq Jobs
  /\ sub \in [Jobs -> SubPC]
  /\ task \in [Jobs -> TaskPC]
  /\ result \in [Jobs -> {"none"} \cup HandlerEnd \cup Terminal]
  /\ free \in 0..MaxConcurrency
  /\ client \in [Clients -> ClientState]
  /\ writes \subseteq Write
  /\ db \in [Jobs -> Entry]
  /\ hist \in [Jobs -> Entry]
  /\ orphans \subseteq Jobs
  /\ up \in BOOLEAN
  /\ crashes \in 0..MaxCrashes
  /\ lost \in 0..MaxLost

-----------------------------------------------------------------------------
(* Helpers.                                                                *)

\* persist_status and persist_finish: a write is handed over, nobody waits.
Persist(j, s) ==
  writes' = IF Persistent
            THEN writes \cup {[op |-> "update", job |-> j, status |-> s]}
            ELSE writes

\* send_control: the channel is updated only while it is in the map.
Send(j, c) == signal' = IF j \in open THEN [signal EXCEPT ![j] = c] ELSE signal

\* finish() gives back every singleton entry that names the job.
Release(j) ==
  lock' = [k \in Singletons |-> IF lock[k] = j THEN NoJob ELSE lock[k]]

\* Mutant: finish() does not look whether the job has ended.
FinishAlways(j, s) ==
  /\ table[j] # Absent
  /\ table' = [table EXCEPT ![j] = s]
  /\ Persist(j, s)

\* The part of finish() up to the write of the final row; it does nothing
\* for a job that is gone or has ended.
Finish(j, s) ==
  /\ table[j] \in Live
  /\ table' = [table EXCEPT ![j] = s]
  /\ Persist(j, s)

FinishIgnored(j) ==
  /\ table[j] \notin Live
  /\ UNCHANGED <<table, writes>>

\* What get() answers: the memory table first, then the store.
Known(j) == IF table[j] # Absent THEN table[j] ELSE db[j]

-----------------------------------------------------------------------------
(* submit(): admission, memory table, singleton entry, channel and task.   *)

\* Mutant: a job that waits for its turn does not count as alive.
SingletonAdmitsBesidePending(k) ==
  k \in Singletons /\ lock[k] # NoJob => table[lock[k]] \notin Active

SingletonAdmits(k) ==
  k \in Singletons /\ lock[k] # NoJob => table[lock[k]] \notin Live

Admit(j) ==
  /\ up
  /\ sub[j] = "new"
  /\ Cardinality(Submitting) < MaxSubmitters
  /\ SingletonAdmits(KindOf[j])
  /\ sub' = [sub EXCEPT ![j] = "checked"]
  /\ UNCHANGED <<shared, task, result, free, client, store, process, lost>>

Submit(j) == Admit(j)

\* restart(): an ended, not completed job of a restartable kind is the
\* template of a new submission.
Restart(j, n) ==
  /\ Known(j) \in Terminal \ {"Completed"}
  /\ KindOf[j] \in Restartable
  /\ KindOf[n] = KindOf[j]
  /\ Admit(n)

SubmitList(j) ==
  /\ sub[j] = "checked"
  /\ sub' = [sub EXCEPT ![j] = "listed"]
  /\ table' = [table EXCEPT ![j] = "Pending"]
  /\ UNCHANGED <<lock, signal, open, task, result, free, client, store,
                 process, lost>>

SubmitLock(j) ==
  /\ sub[j] = "listed"
  /\ sub' = [sub EXCEPT ![j] = "locked"]
  /\ lock' = [k \in Singletons |-> IF k = KindOf[j] THEN j ELSE lock[k]]
  /\ UNCHANGED <<table, signal, open, task, result, free, client, store,
                 process, lost>>

\* The channel is created and the task that runs the job is spawned.
SubmitSpawn(j) ==
  /\ sub[j] = "locked"
  /\ sub' = [sub EXCEPT ![j] = "done"]
  /\ signal' = [signal EXCEPT ![j] = "Run"]
  /\ open' = open \cup {j}
  /\ task' = [task EXCEPT ![j] = "spawned"]
  /\ UNCHANGED <<table, lock, result, free, client, store, process, lost>>

-----------------------------------------------------------------------------
(* run_job(): the row is inserted and awaited, then a permit, then start.  *)

Step(j, from, to) ==
  /\ task[j] = from
  /\ task' = [task EXCEPT ![j] = to]

\* The status inserted is the one read before the wait.
TaskInsert(j) ==
  /\ Step(j, "spawned", "inserting")
  /\ writes' = IF Persistent /\ table[j] # Absent
               THEN writes \cup {[op |-> "insert", job |-> j,
                                  status |-> table[j]]}
               ELSE writes
  /\ UNCHANGED <<shared, sub, result, free, client, db, hist, process, lost>>

TaskInserted(j) ==
  /\ Step(j, "inserting", "queued")
  /\ \A w \in writes : ~(w.op = "insert" /\ w.job = j)
  /\ UNCHANGED <<shared, sub, result, free, client, store, process, lost>>

TaskAcquire(j) ==
  /\ Step(j, "queued", "permitted")
  /\ free > 0
  /\ free' = free - 1
  /\ UNCHANGED <<shared, sub, result, client, store, process, lost>>

\* Mutant: the status is overwritten without a look.
TryStartUnchecked(j) ==
  /\ Step(j, "permitted", "entering")
  /\ table' = [table EXCEPT ![j] = "Running"]
  /\ Persist(j, "Running")
  /\ UNCHANGED <<lock, signal, open, sub, result, free, client, db, hist,
                 process, lost>>

TryStart(j) ==
  /\ Step(j, "permitted", "entering")
  /\ table[j] = "Pending"
  /\ table' = [table EXCEPT ![j] = "Running"]
  /\ Persist(j, "Running")
  /\ UNCHANGED <<lock, signal, open, sub, result, free, client, db, hist,
                 process, lost>>

\* Mutant: the early return keeps the permit.
TaskAbandonKeepsPermit(j) ==
  /\ Step(j, "permitted", "done")
  /\ table[j] # "Pending"
  /\ open' = open \ {j}
  /\ UNCHANGED <<table, lock, signal, sub, result, free, client, store, process,
                 lost>>

\* try_start refused: the job was stopped while it waited.
TaskAbandon(j) ==
  /\ Step(j, "permitted", "done")
  /\ table[j] # "Pending"
  /\ open' = open \ {j}
  /\ free' = free + 1
  /\ UNCHANGED <<table, lock, signal, sub, result, client, store, process, lost>>

-----------------------------------------------------------------------------
(* execute_core() and the handler.  Between two checkpoints the handler    *)
(* works; a checkpoint that reads Run changes nothing.                     *)

\* The channel of the submission is used again; a fresh one is made when
\* the entry has been removed meanwhile.
Enter(j) ==
  /\ Step(j, "entering", "running")
  /\ open' = open \cup {j}
  /\ signal' = IF j \in open THEN signal ELSE [signal EXCEPT ![j] = "Run"]
  /\ UNCHANGED <<table, lock, sub, result, free, client, store, process, lost>>

CheckpointPause(j) ==
  /\ Step(j, "running", "suspended")
  /\ signal[j] = "Pause"
  /\ table' = IF table[j] = "Running"
              THEN [table EXCEPT ![j] = "Paused"] ELSE table
  /\ UNCHANGED <<lock, signal, open, sub, result, free, client, store,
                 process, lost>>

Wake(j) ==
  /\ Step(j, "suspended", "running")
  /\ signal[j] = "Run"
  /\ table' = IF table[j] = "Paused"
              THEN [table EXCEPT ![j] = "Running"] ELSE table
  /\ UNCHANGED <<lock, signal, open, sub, result, free, client, store,
                 process, lost>>

\* Mutant: a suspended handler waits for Run only.
CheckpointCancelNoWake(j) ==
  /\ Step(j, "running", "returned")
  /\ signal[j] = "Cancel"
  /\ \E e \in HandlerEnd : result' = [result EXCEPT ![j] = e]
  /\ UNCHANGED <<shared, sub, free, client, store, process, lost>>

\* A checkpoint that reads Cancel fails.  The handler hands the error on, or
\* drains and returns Ok (DemoConsumerJob), or fails while it cleans up.
CheckpointCancel(j) ==
  /\ \/ Step(j, "running", "returned")
     \/ Step(j, "suspended", "returned")
  /\ signal[j] = "Cancel"
  /\ \E e \in HandlerEnd : result' = [result EXCEPT ![j] = e]
  /\ UNCHANGED <<shared, sub, free, client, store, process, lost>>

HandlerReturn(j) ==
  /\ Step(j, "running", "returned")
  /\ \E e \in HandlerEnd \ {"stopped"} : result' = [result EXCEPT ![j] = e]
  /\ UNCHANGED <<shared, sub, free, client, store, process, lost>>

\* Mutant: the outcome is taken for the status.
VerdictRaw(end, intent) == end

\* The terminal status for the way the handler ended and the intent the
\* channel holds when it has ended.
Verdict(end, intent) ==
  CASE end = "ok" -> "Completed"
    [] end = "stopped" -> "Cancelled"
    [] end = "error" -> IF intent = "Cancel" THEN "Cancelled" ELSE "Failed"
    [] end = "panic" -> "Failed"

Judge(j) ==
  /\ Step(j, "returned", "judged")
  /\ result' = [result EXCEPT ![j] = Verdict(result[j], signal[j])]
  /\ UNCHANGED <<shared, sub, free, client, store, process, lost>>

\* finish() called by the task.
TaskFinish(j) ==
  /\ \/ Step(j, "judged", "finished") /\ Finish(j, result[j])
     \/ Step(j, "judged", "closing") /\ FinishIgnored(j)
  /\ UNCHANGED <<lock, signal, open, sub, result, free, client, db, hist,
                 process, lost>>

TaskRelease(j) ==
  /\ Step(j, "finished", "closing")
  /\ Release(j)
  /\ UNCHANGED <<table, signal, open, sub, result, free, client, store,
                 process, lost>>

\* The channel leaves the map and the permit is dropped.
TaskClose(j) ==
  /\ Step(j, "closing", "done")
  /\ open' = open \ {j}
  /\ free' = free + 1
  /\ UNCHANGED <<table, lock, signal, sub, result, client, store, process, lost>>

\* maybe_persist_progress: the sampler beside a handler stores the status it
\* reads when that is Paused or Cancelling, and any other one when enough
\* progress has been made since the last time.
Sample(j) ==
  /\ task[j] \in {"running", "suspended"}
  /\ table[j] # Absent
  /\ Persist(j, table[j])
  /\ UNCHANGED <<shared, sub, task, result, free, client, db, hist, process,
                 lost>>

-----------------------------------------------------------------------------
(* The control interface.  Every request reads the status first and acts   *)
(* on what it read; a refused request changes nothing and is left out.     *)

Begin(c, step, j) ==
  /\ up
  /\ client[c] = Idle
  /\ client' = [client EXCEPT ![c] = [step |-> step, job |-> j]]

At(c, step) == client[c].step = step

Continue(c, step) == client' = [client EXCEPT ![c].step = step]

Reply(c) == client' = [client EXCEPT ![c] = Idle]

\* pause(), resume() and cancel() read current_status; archive() falls back
\* on the row.
ClientRead(c, j) ==
  /\ \/ table[j] \in {"Running", "Pending"} /\ Begin(c, "pause", j)
     \/ table[j] \in {"Paused", "Pending"}  /\ Begin(c, "resume", j)
     \/ table[j] = "Pending"                /\ Begin(c, "cancelQueued", j)
     \/ table[j] \in {"Running", "Paused"}  /\ Begin(c, "cancel", j)
     \/ Known(j) \in Terminal               /\ Begin(c, "archive", j)
  /\ UNCHANGED <<shared, sub, task, result, free, store, process, lost>>

PauseSend(c) ==
  /\ At(c, "pause")
  /\ Send(client[c].job, "Pause")
  /\ Reply(c)
  /\ UNCHANGED <<table, lock, open, sub, task, result, free, store, process,
                 lost>>

ResumeSend(c) ==
  /\ At(c, "resume")
  /\ Send(client[c].job, "Run")
  /\ Continue(c, "resumed")
  /\ UNCHANGED <<table, lock, open, sub, task, result, free, store, process,
                 lost>>

LocalResumeState(c) ==
  /\ At(c, "resumed")
  /\ LET j == client[c].job IN
     table' = IF table[j] = "Paused" THEN [table EXCEPT ![j] = "Running"]
              ELSE table
  /\ Reply(c)
  /\ UNCHANGED <<lock, signal, open, sub, task, result, free, store, process,
                 lost>>

\* cancel() of a job that was read Pending: the channel, then finish().
CancelQueuedSend(c) ==
  /\ At(c, "cancelQueued")
  /\ Send(client[c].job, "Cancel")
  /\ Continue(c, "finishQueued")
  /\ UNCHANGED <<table, lock, open, sub, task, result, free, store, process,
                 lost>>

CancelQueuedFinish(c) ==
  /\ At(c, "finishQueued")
  /\ \/ Finish(client[c].job, "Cancelled") /\ Continue(c, "releaseQueued")
     \/ FinishIgnored(client[c].job) /\ Reply(c)
  /\ UNCHANGED <<lock, signal, open, sub, task, result, free, db, hist,
                 process, lost>>

CancelQueuedRelease(c) ==
  /\ At(c, "releaseQueued")
  /\ Release(client[c].job)
  /\ Reply(c)
  /\ UNCHANGED <<table, signal, open, sub, task, result, free, store, process,
                 lost>>

\* Mutant: what cancel() has read is not looked at again.
MarkCancellingBlind(c) ==
  /\ At(c, "cancel")
  /\ table' = [table EXCEPT ![client[c].job] = "Cancelling"]
  /\ Persist(client[c].job, "Cancelling")
  /\ Continue(c, "signalCancel")
  /\ UNCHANGED <<lock, signal, open, sub, task, result, free, db, hist,
                 process, lost>>

\* cancel() of a job that was read Running or Paused: the status, then the
\* channel.
MarkCancelling(c) ==
  /\ At(c, "cancel")
  /\ LET j == client[c].job IN
     IF table[j] \in Live \ {"Cancelling"}
     THEN table' = [table EXCEPT ![j] = "Cancelling"] /\ Persist(j, "Cancelling")
     ELSE UNCHANGED <<table, writes>>
  /\ Continue(c, "signalCancel")
  /\ UNCHANGED <<lock, signal, open, sub, task, result, free, db, hist,
                 process, lost>>

CancelSend(c) ==
  /\ At(c, "signalCancel")
  /\ Send(client[c].job, "Cancel")
  /\ Reply(c)
  /\ UNCHANGED <<table, lock, open, sub, task, result, free, store, process,
                 lost>>

\* INSERT ... SELECT ... ON CONFLICT DO NOTHING into the history table.
HistoryRow(old, row) == IF old = Absent THEN row ELSE old

\* One database transaction: the row moves to the history unless one is
\* there already.  A failure is rolled back and only logged.
ArchiveStore(c) ==
  /\ At(c, "archive")
  /\ LET j == client[c].job IN
     \/ /\ db' = [db EXCEPT ![j] = Absent]
        /\ hist' = [hist EXCEPT ![j] = HistoryRow(@, db[j])]
        /\ UNCHANGED lost
     \/ /\ lost < MaxLost /\ lost' = lost + 1
        /\ UNCHANGED <<db, hist>>
  /\ Continue(c, "drop")
  /\ UNCHANGED <<shared, sub, task, result, free, writes, process>>

ArchiveDrop(c) ==
  /\ At(c, "drop")
  /\ table' = [table EXCEPT ![client[c].job] = Absent]
  /\ open' = open \ {client[c].job}
  /\ Reply(c)
  /\ UNCHANGED <<lock, signal, sub, task, result, free, store, process, lost>>

-----------------------------------------------------------------------------
(* The database.                                                           *)

\* Mutant: INSERT ... ON CONFLICT DO UPDATE.
UpsertRow(old, s) == s

\* INSERT ... ON CONFLICT DO NOTHING.
InsertRow(old, s) == IF old = Absent THEN s ELSE old

\* UPDATE ... WHERE id = ...
UpdateRow(old, s) == IF old = Absent THEN Absent ELSE s

Land(w) ==
  /\ w \in writes
  /\ writes' = writes \ {w}
  /\ db' = [db EXCEPT ![w.job] = IF w.op = "insert" THEN InsertRow(@, w.status)
                                 ELSE UpdateRow(@, w.status)]
  /\ UNCHANGED <<shared, sub, task, result, free, client, hist, process, lost>>

\* A statement that fails is logged and forgotten.
Lose(w) ==
  /\ w \in writes
  /\ lost < MaxLost
  /\ lost' = lost + 1
  /\ writes' = writes \ {w}
  /\ UNCHANGED <<shared, sub, task, result, free, client, db, hist, process>>

-----------------------------------------------------------------------------
(* Crash, and recover() before the manager is published.                   *)

\* Mutant: only rows that had started are loaded.
IsOrphanStarted(j) == db[j] \in Active

\* load_active: the rows that have not ended.
IsOrphan(j) == db[j] \in Live

\* The memory of the process and the writes that have not reached the
\* database are gone; the new process reads the rows that have not ended.
\* A query that fails answers no rows.
CrashRestart ==
  /\ crashes < MaxCrashes
  /\ crashes' = crashes + 1
  /\ up' = FALSE
  /\ \/ orphans' = {j \in Jobs : IsOrphan(j)} /\ UNCHANGED lost
     \/ orphans' = {} /\ lost < MaxLost /\ lost' = lost + 1
  /\ table' = [j \in Jobs |-> Absent]
  /\ lock' = [k \in Singletons |-> NoJob]
  /\ signal' = [j \in Jobs |-> "Run"]
  /\ open' = {}
  /\ sub' = [j \in Jobs |-> IF sub[j] = "new" THEN "new" ELSE "done"]
  /\ task' = [j \in Jobs |-> "none"]
  /\ result' = [j \in Jobs |-> "none"]
  /\ free' = MaxConcurrency
  /\ client' = [c \in Clients |-> Idle]
  /\ writes' = {}
  /\ UNCHANGED <<db, hist>>

\* The awaited write of a recovered row, which may fail as well.
RecoverWrite(j, s) ==
  \/ db' = [db EXCEPT ![j] = s] /\ UNCHANGED lost
  \/ lost < MaxLost /\ lost' = lost + 1 /\ UNCHANGED db

\* An idempotent orphan goes back into the table under its id and is run
\* again (requeue_existing); any other one is written off.
RecoverRequeue(j) ==
  /\ j \in orphans /\ KindOf[j] \in Idempotent
  /\ table' = [table EXCEPT ![j] = "Pending"]
  /\ RecoverWrite(j, "Pending")
  /\ signal' = [signal EXCEPT ![j] = "Run"]
  /\ open' = open \cup {j}
  /\ task' = [task EXCEPT ![j] = "spawned"]
  /\ orphans' = orphans \ {j}
  /\ UNCHANGED <<lock, sub, result, free, client, writes, hist, up, crashes>>

RecoverFail(j) ==
  /\ j \in orphans /\ KindOf[j] \notin Idempotent
  /\ RecoverWrite(j, "Failed")
  /\ orphans' = orphans \ {j}
  /\ UNCHANGED <<shared, sub, task, result, free, client, writes, hist, up,
                 crashes>>

RecoverDone ==
  /\ ~up /\ orphans = {}
  /\ up' = TRUE
  /\ UNCHANGED <<shared, sub, task, result, free, client, store, orphans,
                 crashes, lost>>

-----------------------------------------------------------------------------
Init ==
  /\ table = [j \in Jobs |-> Absent]
  /\ lock = [k \in Singletons |-> NoJob]
  /\ signal = [j \in Jobs |-> "Run"]
  /\ open = {}
  /\ sub = [j \in Jobs |-> "new"]
  /\ task = [j \in Jobs |-> "none"]
  /\ result = [j \in Jobs |-> "none"]
  /\ free = MaxConcurrency
  /\ client = [c \in Clients |-> Idle]
  /\ writes = {}
  /\ db = [j \in Jobs |-> Absent]
  /\ hist = [j \in Jobs |-> Absent]
  /\ orphans = {}
  /\ up = TRUE
  /\ crashes = 0
  /\ lost = 0

SubmitNext(j) ==
  \/ Submit(j) \/ SubmitList(j) \/ SubmitLock(j) \/ SubmitSpawn(j)
  \/ \E i \in Jobs : Restart(i, j)

TaskNext(j) ==
  \/ TaskInsert(j) \/ TaskInserted(j) \/ TaskAcquire(j)
  \/ TryStart(j) \/ TaskAbandon(j) \/ Enter(j)
  \/ CheckpointPause(j) \/ Wake(j) \/ CheckpointCancel(j) \/ HandlerReturn(j)
  \/ Judge(j) \/ TaskFinish(j) \/ TaskRelease(j) \/ TaskClose(j)
  \/ Sample(j)

ClientAct(c) ==
  \/ PauseSend(c) \/ ResumeSend(c) \/ LocalResumeState(c)
  \/ CancelQueuedSend(c) \/ CancelQueuedFinish(c) \/ CancelQueuedRelease(c)
  \/ MarkCancelling(c) \/ CancelSend(c)
  \/ ArchiveStore(c) \/ ArchiveDrop(c)

RecoverNext == RecoverDone \/ \E j \in Jobs : RecoverRequeue(j) \/ RecoverFail(j)

Next ==
  \/ \E j \in Jobs : SubmitNext(j) \/ TaskNext(j)
  \/ \E c \in Clients : ClientAct(c) \/ \E j \in Jobs : ClientRead(c, j)
  \/ \E w \in writes : Land(w) \/ Lose(w)
  \/ CrashRestart
  \/ RecoverNext

Spec == Init /\ [][Next]_vars

-----------------------------------------------------------------------------
(* Fairness.  The runtime polls every task that can go on, the semaphore   *)
(* serves its waiters in order, the database answers, and a handler that   *)
(* works reaches its next checkpoint.  Nothing forces a caller to send a   *)
(* request, nor a handler to end by itself (a consumer runs until it is    *)
(* stopped), nor the process to crash.                                     *)

TaskFairness(j) ==
  /\ WF_vars(SubmitList(j)) /\ WF_vars(SubmitLock(j)) /\ WF_vars(SubmitSpawn(j))
  /\ WF_vars(TaskInsert(j)) /\ WF_vars(TaskInserted(j)) /\ SF_vars(TaskAcquire(j))
  /\ WF_vars(TryStart(j) \/ TaskAbandon(j)) /\ WF_vars(Enter(j))
  /\ WF_vars(CheckpointPause(j) \/ Wake(j) \/ CheckpointCancel(j))
  /\ WF_vars(Judge(j)) /\ WF_vars(TaskFinish(j)) /\ WF_vars(TaskRelease(j))
  /\ WF_vars(TaskClose(j))

Fairness ==
  /\ \A j \in Jobs : TaskFairness(j)
  /\ \A c \in Clients : WF_vars(ClientAct(c))
  /\ WF_vars(\E w \in writes : Land(w))
  /\ WF_vars(RecoverNext)

FairSpec == Spec /\ Fairness

-----------------------------------------------------------------------------
(* Properties.                                                             *)

\* The semaphore is accounted for: free permits and tasks that hold one add
\* up to MaxConcurrency, on every path out of run_job and execute_core.
PermitAccounting ==
  free + Cardinality(Holders) = MaxConcurrency

\* finish() is idempotent and every other writer of the status looks before
\* it writes: whatever the tasks, the callers and the handler do, an ended
\* job keeps its status until it is archived or the process crashes.
TerminalIsFinal ==
  [][\A j \in Jobs : table[j] \in Terminal => table'[j] \in {table[j], Absent}]_vars

\* As long as submissions do not overlap and the process has not crashed,
\* the active_singletons entry keeps two jobs of a singleton kind from being
\* alive together, however their ends interleave with the release.
SingletonAlive ==
  \A i, j \in Jobs :
    i # j /\ KindOf[i] = KindOf[j] /\ KindOf[i] \in Singletons =>
      table[i] \notin Live \/ table[j] \notin Live

\* run_job inserts the row before it does anything else and the insert never
\* updates: only recovery takes an existing row back to Pending.
RowNeverRequeued ==
  [][\A j \in Jobs \ orphans :
       db[j] # Absent /\ db'[j] = "Pending" => db[j] = "Pending"]_vars

\* Recovery treats every row that has not ended: when the manager serves
\* requests again, no such row is without a job in memory, where it would
\* wait for the next restart.  (A failed statement may leave one.)
NoOrphanLeft ==
  [][~up /\ up' /\ lost = 0 =>
       \A j \in Jobs : db[j] \in Live => table[j] # Absent]_vars

\* The task of the job is over, its row has ended or is gone, and no write of
\* it is under way.
Settled(j) ==
  /\ sub[j] = "done" /\ task[j] \in {"none", "done"}
  /\ db[j] \notin Live
  /\ \A w \in writes : w.job # j

\* A settled job stays settled: no caller that has read an older status, no
\* late write, no crash and no recovery makes it run again or its row live.
EndedStaysEnded == [][\A j \in Jobs : Settled(j) => Settled(j)']_vars

\* With one caller at a time a stop that was accepted takes effect: the
\* handler meets the Cancel, the job ends and its permit comes back.
CancelTakesEffect ==
  \A j \in Jobs : table[j] = "Cancelling" ~> table[j] \notin Live /\ task[j] \notin Holding

\* The manager implements the life cycle it documents, concurrency bound
\* included.
Lifecycle == INSTANCE JobLifecycle WITH status <- table

ImplementsLifecycle == Lifecycle!Spec

-----------------------------------------------------------------------------
(* The inductive strengthening of the safety properties: what the points   *)
(* reached by submit(), by the task and by the callers say of the status.  *)

\* A finished handler left an end or a verdict for the step that follows.
ResultOK ==
  \A j \in Jobs :
    /\ task[j] = "returned" => result[j] \in HandlerEnd
    /\ task[j] = "judged" => result[j] \in Terminal

\* Nothing of a job exists before submit() has listed it, and its task not
\* before submit() has ended.
Fresh ==
  \A j \in Jobs :
    /\ sub[j] \in {"new", "checked"} =>
         /\ table[j] = Absent /\ db[j] = Absent
         /\ \A w \in writes : w.job # j
    /\ sub[j] # "done" => task[j] = "none"

\* An orphan exists in the database only, and no request is served before
\* the last one has been treated.
OrphansApart ==
  /\ up => orphans = {}
  /\ \A j \in orphans : /\ table[j] = Absent /\ db[j] \in Live
                        /\ task[j] = "none" /\ sub[j] = "done"

\* An active status is backed by a task that executes, a task that has
\* started never sees its job Pending again, and a job that waits has a task.
StatusFollowsTask ==
  \A j \in Jobs :
    /\ table[j] \in Active => task[j] \in Executing
    /\ task[j] \in Executing \cup {"finished", "closing", "done"} =>
         table[j] # "Pending"
    /\ sub[j] = "done" /\ task[j] = "none" => table[j] # "Pending"

\* What a caller has read stays true enough for what it does next.
ClientsRight ==
  \A c \in Clients :
    LET j == client[c].job IN
    /\ At(c, "cancel") => table[j] # "Pending"
    /\ client[c].step \in {"releaseQueued", "archive", "drop"} => table[j] \notin Live
    /\ client[c].step \in {"cancel", "releaseQueued", "archive", "drop"} =>
         sub[j] \notin {"new", "checked"} /\ j \notin orphans

\* Nobody stores Pending for a job after its row has been inserted.
UpdatesAfterStart == \A w \in writes : w.op = "update" => w.status # "Pending"

\* While recovery is at work no request is served, what is written concerns
\* jobs in memory, and a row that has not ended is still to be treated or
\* has its job in memory.
Recovering ==
  ~up => /\ \A c \in Clients : client[c] = Idle
         /\ \A w \in writes : table[w.job] # Absent
         /\ lost = 0 => \A j \in Jobs :
                         db[j] \in Live => j \in orphans \/ table[j] # Absent

IndInv ==
  /\ TypeOK /\ ResultOK /\ PermitAccounting
  /\ Fresh /\ OrphansApart /\ StatusFollowsTask /\ ClientsRight
  /\ UpdatesAfterStart /\ Recovering

\* The two ways out of SingletonAlive (manager.rs:254 and 864) are not taken:
\* a submission of a singleton kind beside another one of the kind, and
\* recovery putting a job of such a kind back to work.
SingletonsApart ==
  \A j \in Jobs : KindOf[j] \in Singletons =>
    /\ sub[j] = "new" /\ sub'[j] = "checked" =>
         \A i \in Submitting : KindOf[i] # KindOf[j]
    /\ ~RecoverRequeue(j)

\* Why SingletonAlive holds then: the entry names the live job of its kind
\* from SubmitLock on, and before that the admission still stands.
LockCovers ==
  \A i \in Jobs : KindOf[i] \in Singletons =>
    /\ sub[i] \in {"locked", "done"} /\ table[i] \in Live => lock[KindOf[i]] = i
    /\ sub[i] \in {"checked", "listed"} =>
         \A j \in Jobs \ {i} : KindOf[j] = KindOf[i] => table[j] \notin Live
    /\ \A j \in Submitting : i \in Submitting /\ KindOf[j] = KindOf[i] => i = j

-----------------------------------------------------------------------------
(* What the code and its documentation say and the interleavings refute.   *)

\* No caller is in the middle of a request about the job.
Quiet(j) == \A c \in Clients : client[c].job # j

\* "Terminal: makes no more progress, may safely be removed from memory"
\* (model.rs): no handler is at work for a job that has ended.
TerminalMeansStopped ==
  \A j \in Jobs :
    table[j] \in Terminal => task[j] \notin {"entering", "running", "suspended"}

\* "Cancelling: the stop signal has been sent" (model.rs): once the request
\* is over the channel of a job in Cancelling says Cancel.
CancellingIsSignalled ==
  \A j \in Jobs : table[j] = "Cancelling" /\ Quiet(j) => signal[j] = "Cancel"

\* The awaited insert "rules out overwriting out of order" (manager.rs):
\* when every write of an ended job has landed its row has its status.
RowConverges ==
  \A j \in Jobs :
    /\ task[j] = "done" /\ table[j] \in Terminal
    /\ \A w \in writes : w.job # j
    => db[j] \in {table[j], Absent}

=============================================================================
