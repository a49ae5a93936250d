---------------------------- MODULE JobLifecycle ----------------------------
(***************************************************************************)
(* What the job centre promises about the status of a job, whoever runs it *)
(* and whatever is asked of it: the state machine of JobStatus in          *)
(* cmx-job-core/src/model.rs, and the bound of JobConfig.max_concurrency   *)
(* on the jobs that are active (they occupy a worker slot, paused ones     *)
(* too).  A job that is not in the memory table is Absent.                 *)
(***************************************************************************)
EXTENDS Naturals, FiniteSets, JobModel

CONSTANTS Jobs, MaxConcurrency

VARIABLE status

Move(j, from, to) ==
  /\ status[j] \in from
  /\ status' = [status EXCEPT ![j] = to]

Busy == {j \in Jobs : status[j] \in Active}

Enqueue(j) == Move(j, {Absent}, "Pending")

Start(j) == Move(j, {"Pending"}, "Running") /\ Cardinality(Busy) < MaxConcurrency

Pause(j) == Move(j, {"Running"}, "Paused")

Resume(j) == Move(j, {"Paused"}, "Running")

Stop(j) == Move(j, {"Running", "Paused"}, "Cancelling")

StopQueued(j) == Move(j, {"Pending"}, "Cancelled")

End(j) == \E s \in Terminal : Move(j, Active, s)

Archive(j) == Move(j, Terminal, Absent)

Crash == status' = [j \in Jobs |-> Absent]

Init == status = [j \in Jobs |-> Absent]

Next ==
  \/ Crash
  \/ \E j \in Jobs :
       \/ Enqueue(j) \/ Start(j) \/ Pause(j) \/ Resume(j)
       \/ Stop(j) \/ StopQueued(j) \/ End(j) \/ Archive(j)

Spec == Init /\ [][Next]_status
=============================================================================
