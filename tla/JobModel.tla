------------------------------ MODULE JobModel ------------------------------
(***************************************************************************)
(* The domain vocabulary of the job centre (cmx-job-core/src/model.rs and  *)
(* context.rs): the seven job statuses, their classification, and the      *)
(* three values a control channel can hold.                                *)
(***************************************************************************)

Terminal == {"Cancelled", "Completed", "Failed"}

Active == {"Running", "Paused", "Cancelling"}

JobStatus == {"Pending"} \cup Active \cup Terminal

\* A job that has not ended: what the singleton check calls alive, what a
\* crash leaves to recover.
Live == {"Pending"} \cup Active

\* No entry for the job: not in the memory table, or no row in the database.
Absent == "Absent"

Entry == JobStatus \cup {Absent}

Control == {"Run", "Pause", "Cancel"}

=============================================================================
