------------------------------ MODULE JobLease ------------------------------
(***************************************************************************)
(* What the nodes of the distributed job centre can rely on for every job, *)
(* whichever of them asks: the job has one holder at most, somebody takes  *)
(* it only while its row waits and nobody holds it, and its row goes back  *)
(* to waiting, or ends, only after the holder has let go.  Nobody is       *)
(* handed a job by another holder.  Jobs are independent: one step may     *)
(* move several of them, each in its own way.                              *)
(***************************************************************************)
CONSTANTS Jobs, Nodes, NoNode

VARIABLES
  holder,  \* the node that has claimed the job or shows it as active
  phase    \* the row: "new", "waiting", "taken", "ended" or "gone"

Moves(j, from, to) == phase[j] \in from /\ phase'[j] = to

Free(j)  == holder[j] = NoNode
Holds(j) == holder'[j] = holder[j]

\* The INSERT of submit().
Insert(j) == Moves(j, {"new"}, "waiting") /\ Free(j) /\ Holds(j)

\* A claim; when its answer is lost nobody holds the job.
Take(j) == Moves(j, {"waiting"}, "taken") /\ Free(j) /\ holder'[j] \in Nodes \cup {NoNode}

\* The execution ends, an archive drops the entry, or the node dies.
Leave(j) == phase'[j] = phase[j] /\ holder'[j] = NoNode

\* The reaper takes back what nobody holds.
Requeue(j) == Moves(j, {"taken"}, "waiting") /\ Free(j) /\ Holds(j)

\* A waiting job is stopped, or the end of an execution reaches the row.
End(j) == Moves(j, {"waiting", "taken"}, "ended") /\ Free(j) /\ Holds(j)

\* A status write that was late lands after the end; the reaper will see it.
Revive(j) == Moves(j, {"ended"}, "taken") /\ Free(j) /\ Holds(j)

\* The row is archived, or its INSERT is lost: nobody will take the job again.
Forget(j) == phase'[j] = "gone" /\ Holds(j)

Stay(j) == phase'[j] = phase[j] /\ Holds(j)

Init ==
  /\ holder = [j \in Jobs |-> NoNode]
  /\ phase = [j \in Jobs |-> "new"]

Next ==
  \A j \in Jobs :
    \/ Insert(j) \/ Take(j) \/ Leave(j) \/ Requeue(j)
    \/ End(j) \/ Revive(j) \/ Forget(j) \/ Stay(j)

Spec == Init /\ [][Next]_<<holder, phase>>
=============================================================================
