-------------------------- MODULE JobClusterProofs --------------------------
(***************************************************************************)
(* The proof that IndInv holds in every execution of JobCluster that takes *)
(* none of the four steps Undisturbed excludes, for any number of nodes,   *)
(* jobs, executions, callers, crashes and lost statements, and what        *)
(* follows from it.  The code does take those steps, and two of them are   *)
(* followed to a second handler by SubmitRace.cfg and ArchiveRace.cfg; so  *)
(* the theorems say that there is no other way to one.  The types and what *)
(* has been archived need no such condition.  Each lemma shows that a step *)
(* keeps one part of IndInv.                                               *)
(***************************************************************************)
EXTENDS JobCluster, FiniteSetTheorems, TLAPS

-----------------------------------------------------------------------------
(* The sets of values.                                                     *)

\* The statuses a job, an entry and a row can have.
LEMMA Statuses ==
  /\ JobStatus \subseteq Entry /\ Absent \in Entry
  /\ Active \subseteq JobStatus /\ Terminal \subseteq JobStatus
  /\ {"Pending", "Running", "Paused", "Cancelling", "Cancelled"} \subseteq JobStatus
BY DEF Entry, JobStatus, Active, Terminal, Absent

\* What the statements make of a row is a row.
LEMMA RowUpdates ==
  ASSUME NEW x \in Row
  PROVE  /\ \A s \in Entry : [x EXCEPT !.status = s] \in Row
         /\ \A b \in {"none", "fresh", "stale"} : [x EXCEPT !.beat = b] \in Row
         /\ \A i \in Intent \cup {"none"} : [x EXCEPT !.intent = i] \in Row
         /\ \A n \in Nodes : ClaimedBy(x, n) \in Row
         /\ [x EXCEPT !.status = "Pending", !.node = NoNode, !.beat = "none"] \in Row
         /\ NoRow \in Row
<1>1. \A s \in Entry : [x EXCEPT !.status = s] \in Row
  BY DEF Row
<1>2. \A b \in {"none", "fresh", "stale"} : [x EXCEPT !.beat = b] \in Row
  BY DEF Row
<1>3. \A i \in Intent \cup {"none"} : [x EXCEPT !.intent = i] \in Row
  BY DEF Row
<1>4. \A n \in Nodes : ClaimedBy(x, n) \in Row
  BY Statuses DEF Row, ClaimedBy
<1>5. [x EXCEPT !.status = "Pending", !.node = NoNode, !.beat = "none"] \in Row
  BY Statuses DEF Row
<1>6. NoRow \in Row
  BY Statuses DEF Row, NoRow
<1> QED BY <1>1, <1>2, <1>3, <1>4, <1>5, <1>6

\* One cell of a table of tables changes.
LEMMA CellUpdate ==
  ASSUME NEW S, NEW T, NEW V, NEW f \in [S -> [T -> V]],
         NEW n \in S, NEW j \in T, NEW v \in V
  PROVE  /\ [f EXCEPT ![n][j] = v] \in [S -> [T -> V]]
         /\ \A m \in S, i \in T :
              [f EXCEPT ![n][j] = v][m][i] = IF m = n /\ i = j THEN v ELSE f[m][i]
<1> DEFINE g == [f[n] EXCEPT ![j] = v]
<1>1. g \in [T -> V] /\ \A i \in T : g[i] = IF i = j THEN v ELSE f[n][i]
  OBVIOUS
<1> HIDE DEF g
<1>2. /\ [f EXCEPT ![n] = g] \in [S -> [T -> V]]
      /\ \A m \in S, i \in T :
           [f EXCEPT ![n] = g][m][i] = IF m = n /\ i = j THEN v ELSE f[m][i]
  BY <1>1
<1>3. [f EXCEPT ![n][j] = v] = [f EXCEPT ![n] = g]
  BY DEF g
<1> QED BY <1>2, <1>3

\* SetEntry changes one entry of one node.
LEMMA EntryUpdate ==
  ASSUME table \in [Nodes -> [Jobs -> Entry]],
         NEW n \in Nodes, NEW j \in Jobs, NEW s \in Entry, SetEntry(n, j, s)
  PROVE  /\ table' \in [Nodes -> [Jobs -> Entry]]
         /\ \A m \in Nodes, i \in Jobs :
              table'[m][i] = IF m = n /\ i = j THEN s ELSE table[m][i]
BY CellUpdate DEF SetEntry

LEMMA ChannelUpdate ==
  ASSUME channel \in [Nodes -> [Jobs -> Control]],
         NEW n \in Nodes, NEW j \in Jobs, NEW c \in Control,
         channel' = [channel EXCEPT ![n][j] = c]
  PROVE  channel' \in [Nodes -> [Jobs -> Control]]
BY CellUpdate

\* An execution that is not over has a node and a job, and stays an execution
\* when its state or what it hears changes.
LEMMA RunUpdates ==
  ASSUME NEW x \in Run, x.pc \notin {"none", "over"} \/ x.node # NoNode
  PROVE  /\ x.pc \in {"waiting", "running", "suspended"}
         /\ x.node \in Nodes /\ x.job \in Jobs /\ x.signal \in Control
         /\ \A p \in {"waiting", "running", "suspended"} : [x EXCEPT !.pc = p] \in Run
         /\ \A s \in Control : [x EXCEPT !.signal = s] \in Run
<1>1. x \in [pc : {"waiting", "running", "suspended"}, node : Nodes, job : Jobs,
             signal : Control]
  BY DEF Run, NoRun, Over
<1> QED BY <1>1 DEF Run

\* An execution at work is one of a job on a node.
LEMMA AtWorkTyped ==
  ASSUME TypeOK, NEW r \in Runs, run[r].pc \in {"waiting", "running", "suspended"}
  PROVE  run[r].node \in Nodes /\ run[r].job \in Jobs /\ AtWork(r, run[r].job)
<1>1. run[r] \in Run BY DEF TypeOK
<1>2. run[r].pc \notin {"none", "over"} OBVIOUS
<1> QED BY <1>1, <1>2, RunUpdates DEF AtWork

\* What a control puts into the channel changes what executions hear, and
\* nothing else about them.
LEMMA SendEffect ==
  ASSUME TypeOK, NEW n \in Nodes, NEW j \in Jobs, NEW c \in Control, Send(n, j, c)
  PROVE  /\ channel' \in [Nodes -> [Jobs -> Control]]
         /\ run' \in [Runs -> Run]
         /\ \A r \in Runs : /\ run'[r].pc = run[r].pc
                            /\ run'[r].node = run[r].node
                            /\ run'[r].job = run[r].job
<1>1. CASE <<n, j>> \in open
  <2>1. channel' \in [Nodes -> [Jobs -> Control]]
    BY <1>1, ChannelUpdate DEF TypeOK, Send
  <2>2. ASSUME NEW r \in Runs
        PROVE  /\ run'[r] \in Run
               /\ run'[r].pc = run[r].pc /\ run'[r].node = run[r].node
               /\ run'[r].job = run[r].job
    <3>1. run[r] \in Run
      BY DEF TypeOK
    <3>2. CASE r \in tuned /\ run[r].node = n /\ run[r].job = j
      <4>1. run'[r] = [run[r] EXCEPT !.signal = c]
        BY <1>1, <3>2 DEF Send
      <4>2. run[r].node # NoNode
        BY <3>2, ClusterAssumption
      <4>3. [run[r] EXCEPT !.signal = c] \in Run
        BY <3>1, <4>2, RunUpdates
      <4>4. run[r] \in [pc : {"waiting", "running", "suspended"}, node : Nodes, job : Jobs,
                        signal : Control]
        BY <3>1, <4>2 DEF Run, NoRun, Over
      <4> QED BY <4>1, <4>3, <4>4
    <3>3. CASE ~(r \in tuned /\ run[r].node = n /\ run[r].job = j)
      <4>1. run'[r] = run[r]
        BY <1>1, <3>3 DEF Send
      <4> QED BY <3>1, <4>1
    <3> QED BY <3>2, <3>3
  <2>3. run' \in [Runs -> Run]
    <3>1. run' = [r \in Runs |-> run'[r]]
      BY <1>1 DEF Send
    <3> QED BY <2>2, <3>1
  <2> QED BY <2>1, <2>2, <2>3
<1>2. CASE <<n, j>> \notin open
  BY <1>2 DEF TypeOK, Send
<1> QED BY <1>1, <1>2

\* available_permits() is at most the size of the semaphore.
LEMMA PermitsBound ==
  ASSUME NEW n \in Nodes
  PROVE  Permits(n) \in Int /\ Permits(n) <= MaxConcurrency
<1> DEFINE Holders == {r \in Runs : /\ run[r].node = n
                                    /\ run[r].pc \in {"running", "suspended"}}
<1>1. IsFiniteSet(Holders)
  <2>1. Holders \subseteq Runs OBVIOUS
  <2> QED BY <2>1, ClusterAssumption, FS_Subset
<1>2. Cardinality(Holders) \in Nat
  BY <1>1, FS_CardinalityType
<1> HIDE DEF Holders
<1>3. Permits(n) = MaxConcurrency - Cardinality(Holders)
  BY DEF Permits, Holders
<1> QED BY <1>2, <1>3, ClusterAssumption

-----------------------------------------------------------------------------
(* Types.                                                                  *)

\* Every step keeps the types.
LEMMA TypeStep ==
  ASSUME TypeOK, [Next]_vars
  PROVE  TypeOK'
<1> USE ClusterAssumption DEF TypeOK, database, memory, claims, control, exec, faults
<1>1. ASSUME NEW n \in Nodes, ClaimNext(n) PROVE TypeOK'
  <2>1. CASE ClaimAsk(n)
    <3>1. Permits(n) \in 0..MaxConcurrency
      BY <2>1, PermitsBound DEF ClaimAsk
    <3> QED BY <2>1, <3>1 DEF ClaimAsk
  <2>2. ASSUME NEW S \in SUBSET Jobs, Granted(n, S)
        PROVE  row' \in [Jobs -> Row] /\ limit' \in [Nodes -> 0..MaxConcurrency]
    <3>1. \A j \in Jobs : ClaimedBy(row[j], n) \in Row
      BY RowUpdates
    <3> QED BY <2>2, <3>1 DEF Granted
  <2>3. CASE ClaimRows(n)
    BY <2>2, <2>3 DEF ClaimRows
  <2>4. CASE ClaimFails(n)
    BY <2>2, <2>4 DEF ClaimFails
  <2>5. ASSUME NEW j \in Jobs, NEW r \in Runs, RunClaimed(n, j, r) PROVE TypeOK'
    <3>1. table' \in [Nodes -> [Jobs -> Entry]]
      BY <2>5, Statuses, EntryUpdate DEF RunClaimed
    <3>2. channel' \in [Nodes -> [Jobs -> Control]]
      BY <2>5, ChannelUpdate DEF RunClaimed, Control
    <3>3. run' \in [Runs -> Run]
      BY <2>5 DEF RunClaimed, Run, Control
    <3> QED BY <2>5, <3>1, <3>2, <3>3 DEF RunClaimed, Untuned
  <2> QED BY <1>1, <2>1, <2>3, <2>4, <2>5 DEF ClaimNext
<1>2. ASSUME NEW n \in Nodes, ControlNext(n) PROVE TypeOK'
  <2>1. CASE TakeRead(n)
    <3>1. \A j \in Jobs : row[j].intent # "none" => row[j].intent \in Intent
      BY DEF Row
    <3> QED BY <2>1, <3>1 DEF TakeRead
  <2>2. CASE TakeClear(n)
    BY <2>2, RowUpdates DEF TakeClear
  <2>3. ASSUME NEW j \in Jobs, NEW i \in Intent, Consume(n, j, i) PROVE TypeOK'
    <3>1. table' = table \/ \E s \in Entry : SetEntry(n, j, s)
      <4>1. CASE table[n][j] = Absent
        BY <2>3, <4>1 DEF Consume
      <4>2. CASE table[n][j] # Absent
        <5>1. table[n][j] \in Entry
          OBVIOUS
        <5> QED BY <2>3, <4>2, <5>1, Statuses DEF Consume, Intent
      <4> QED BY <4>1, <4>2
    <3>2. table' \in [Nodes -> [Jobs -> Entry]]
      BY <3>1, EntryUpdate
    <3>4. writes' = writes \/ Persist(n, j, "Cancelling")
      BY <2>3 DEF Consume, Intent
    <3>5. writes' \subseteq Write
      BY <3>4, Statuses DEF Persist, Write
    <3>3. channel' \in [Nodes -> [Jobs -> Control]] /\ run' \in [Runs -> Run]
      BY <2>3, SendEffect DEF Consume, Intent, Control
    <3> QED BY <2>3, <3>2, <3>3, <3>5 DEF Consume
  <2> QED BY <1>2, <2>1, <2>2, <2>3 DEF ControlNext
<1>3. ASSUME NEW n \in Nodes, Heartbeat(n) \/ Reap(n) PROVE TypeOK'
  <2>1. row' \in [Jobs -> Row]
    <3>1. \A j \in Jobs :
            /\ [row[j] EXCEPT !.beat = "fresh"] \in Row
            /\ [row[j] EXCEPT !.status = "Pending", !.node = NoNode, !.beat = "none"] \in Row
      BY RowUpdates
    <3>2. \A j \in Jobs : row'[j] \in Row
      <4> SUFFICES ASSUME NEW j \in Jobs PROVE row'[j] \in Row
        OBVIOUS
      <4>1. CASE Heartbeat(n)
        <5>1. row'[j] = IF Beats(n, j) THEN [row[j] EXCEPT !.beat = "fresh"] ELSE row[j]
          BY <4>1 DEF Heartbeat
        <5> QED BY <3>1, <5>1
      <4>2. CASE Reap(n)
        <5>1. \/ row'[j] = row[j]
              \/ row'[j] = [row[j] EXCEPT !.status = "Pending", !.node = NoNode, !.beat = "none"]
          BY <4>2 DEF Reap
        <5> QED BY <3>1, <5>1
      <4> QED BY <1>3, <4>1, <4>2
    <3>3. row' = [j \in Jobs |-> row'[j]]
      BY <1>3 DEF Heartbeat, Reap
    <3> QED BY <3>2, <3>3
  <2> QED BY <1>3, <2>1 DEF Heartbeat, Reap
<1>4. ASSUME NEW n \in Nodes, Crash(n) PROVE TypeOK'
  <2>1. run' \in [Runs -> Run]
    BY <1>4 DEF Crash, Run
  <2>2. table' \in [Nodes -> [Jobs -> Entry]] /\ channel' \in [Nodes -> [Jobs -> Control]]
    BY <1>4, Statuses DEF Crash, Control
  <2>3. client' \in [Clients -> Request]
    BY <1>4 DEF Crash, Request
  <2>4. sub' \in [Jobs -> {"new", "inserting", "done"}] /\ home' \in [Jobs -> Nodes \cup {NoNode}]
    BY <1>4 DEF Crash
  <2> QED BY <1>4, <2>1, <2>2, <2>3, <2>4 DEF Crash
<1>5. ASSUME NEW n \in Nodes, Return(n) PROVE TypeOK'
  BY <1>5 DEF Return
<1>6. ASSUME NEW n \in Nodes, NEW j \in Jobs, Submit(n, j) PROVE TypeOK'
  <2>1. table' \in [Nodes -> [Jobs -> Entry]] /\ writes' \subseteq Write
    BY <1>6, Statuses DEF Submit, SetEntry, Write
  <2>2. channel' \in [Nodes -> [Jobs -> Control]]
    BY <1>6 DEF Submit, Control
  <2> QED BY <1>6, <2>1, <2>2 DEF Submit
<1>7. ASSUME NEW n \in Nodes, NEW j \in Jobs, LocalRequest(n, j) PROVE TypeOK'
  <2>1. table' \in [Nodes -> [Jobs -> Entry]]
    <3>1. table' = table \/ \E s \in Entry : SetEntry(n, j, s)
      BY <1>7, Statuses DEF LocalRequest, PauseLocal, ResumeLocal, CancelLocal
    <3> QED BY <3>1, EntryUpdate
  <2>2. writes' \subseteq Write
    BY <1>7, Statuses DEF LocalRequest, PauseLocal, ResumeLocal, CancelLocal, Persist, Write
  <2>3. channel' \in [Nodes -> [Jobs -> Control]] /\ run' \in [Runs -> Run]
    BY <1>7, SendEffect DEF LocalRequest, PauseLocal, ResumeLocal, CancelLocal, Control
  <2> QED BY <1>7, <2>1, <2>2, <2>3 DEF LocalRequest, Counted
<1>8. ASSUME NEW j \in Jobs, SubmitInserted(j) PROVE TypeOK'
  BY <1>8, Statuses DEF SubmitInserted, SetEntry
<1>9. ASSUME NEW j \in Jobs, Expire(j) PROVE TypeOK'
  BY <1>9, RowUpdates DEF Expire
<1>10. ASSUME NEW r \in Runs, RunNext(r) PROVE TypeOK'
  <2> DEFINE n == run[r].node
             j == run[r].job
  <2>1. run[r] \in Run
    OBVIOUS
  <2>2. /\ n \in Nodes /\ j \in Jobs
        /\ \A p \in {"waiting", "running", "suspended"} : [run[r] EXCEPT !.pc = p] \in Run
    <3>1. run[r].pc \notin {"none", "over"}
      BY <1>10 DEF RunNext, Enter, CheckpointPause, Wake, RunEnd, Sample
    <3> QED BY <2>1, <3>1, RunUpdates
  <2>3. CASE Enter(r)
    <3> DEFINE heard == IF <<n, j>> \in open THEN channel[n][j] ELSE "Run"
               next == [[run[r] EXCEPT !.pc = "running"] EXCEPT !.signal = heard]
    <3>1. heard \in Control
      BY <2>2 DEF Control
    <3>2. next \in Run
      <4> HIDE DEF heard
      <4>1. [run[r] EXCEPT !.pc = "running"] \in Run
        BY <2>2
      <4>2. [run[r] EXCEPT !.pc = "running"].pc \notin {"none", "over"}
        BY <2>1 DEF Run, NoRun, Over
      <4> QED BY <3>1, <4>1, <4>2, RunUpdates
    <3>3. run' = [run EXCEPT ![r] = next]
      BY <2>3 DEF Enter
    <3>4. run' \in [Runs -> Run]
      <4> HIDE DEF next
      <4> QED BY <3>2, <3>3
    <3>5. channel' \in [Nodes -> [Jobs -> Control]]
      BY <2>2, <2>3, <3>1 DEF Enter
    <3> QED BY <2>2, <2>3, <3>4, <3>5 DEF Enter
  <2>4. CASE CheckpointPause(r) \/ Wake(r)
    <3>1. table' \in [Nodes -> [Jobs -> Entry]]
      <4>1. \E s \in Entry : SetEntry(n, j, s)
        BY <2>2, <2>4, Statuses DEF CheckpointPause, Wake
      <4> QED BY <2>2, <4>1, EntryUpdate
    <3>2. run' \in [Runs -> Run]
      BY <2>2, <2>4 DEF CheckpointPause, Wake
    <3> QED BY <2>4, <3>1, <3>2 DEF CheckpointPause, Wake
  <2>5. CASE RunEnd(r)
    <3>1. run' \in [Runs -> Run]
      BY <2>5 DEF RunEnd, Run
    <3>2. \/ UNCHANGED <<table, writes>>
          \/ \E s \in Terminal : SetEntry(n, j, s) /\ Persist(n, j, s)
      BY <2>5 DEF RunEnd
    <3>3. table' \in [Nodes -> [Jobs -> Entry]]
      BY <2>2, <3>2, Statuses, EntryUpdate
    <3>4. writes' \subseteq Write
      BY <2>2, <3>2, Statuses DEF Persist, Write
    <3>5. channel' \in [Nodes -> [Jobs -> Control]]
      BY <2>2, <2>5, ChannelUpdate DEF RunEnd, Close, Control
    <3> QED BY <2>5, <3>1, <3>3, <3>4, <3>5 DEF RunEnd, Close, Untuned
  <2>6. CASE Sample(r)
    <3>1. writes' \subseteq Write
      BY <2>2, <2>6 DEF Sample, Persist, Write, Entry
    <3> QED BY <2>6, <3>1 DEF Sample
  <2> QED BY <1>10, <2>3, <2>4, <2>5, <2>6 DEF RunNext
<1>11. ASSUME NEW c \in Clients, ClientNext(c) PROVE TypeOK'
  <2>1. ASSUME NEW n \in Nodes, NEW j \in Jobs, RouteRead(c, n, j) \/ ArchiveRead(c, n, j)
        PROVE TypeOK'
    <3>1. client' \in [Clients -> Request]
      <4>1. \E q \in Request : client' = [client EXCEPT ![c] = q]
        <5>1. CASE RouteRead(c, n, j)
          BY <5>1 DEF RouteRead, Request
        <5>2. CASE ArchiveRead(c, n, j)
          <6>1. [Idle EXCEPT !.step = "archive", !.node = n, !.job = j] \in Request
            BY DEF Request, Idle
          <6> QED BY <5>2, <6>1 DEF ArchiveRead
        <5> QED BY <2>1, <5>1, <5>2
      <4> QED BY <4>1
    <3> QED BY <2>1, <3>1 DEF RouteRead, ArchiveRead, Counted
  <2>2. ASSUME client[c].step # "idle"
        PROVE  /\ client[c].node \in Nodes /\ client[c].job \in Jobs
               /\ client[c].step = "archive" => [client[c] EXCEPT !.step = "drop"] \in Request
               /\ client[c].step \in {"stopPending", "leave"} =>
                    /\ client[c].intent \in Intent
                    /\ [client[c] EXCEPT !.step = "leave"] \in Request
    <3> DEFINE q == client[c]
    <3>1. q \in Request /\ q # Idle
      BY <2>2 DEF Idle
    <3>2. CASE q \in [step : {"stopPending", "leave"}, node : Nodes, job : Jobs, intent : Intent]
      BY <3>2 DEF Request
    <3>3. CASE q \in [step : {"archive", "drop"}, node : Nodes, job : Jobs, intent : {"none"}]
      BY <3>3 DEF Request
    <3> QED BY <3>1, <3>2, <3>3 DEF Request
  <2>3. CASE RouteStopPending(c)
    <3>1. client' \in [Clients -> Request]
      BY <2>2, <2>3 DEF RouteStopPending
    <3>2. row' \in [Jobs -> Row]
      <4>1. \A s \in Entry : [row[client[c].job] EXCEPT !.status = s] \in Row
        BY <2>2, <2>3, RowUpdates DEF RouteStopPending
      <4>2. \E s \in Entry : row' = [row EXCEPT ![client[c].job] =
                                       [row[client[c].job] EXCEPT !.status = s]]
        <5>1. row[client[c].job].status \in Entry
          BY <2>2, <2>3 DEF RouteStopPending, Row
        <5> QED BY <2>3, <5>1, Statuses DEF RouteStopPending
      <4>3. \E x \in Row : row' = [row EXCEPT ![client[c].job] = x]
        BY <4>1, <4>2
      <4> QED BY <4>3
    <3> QED BY <2>3, <3>1, <3>2 DEF RouteStopPending
  <2>4. CASE RouteLeave(c)
    <3>1. client' \in [Clients -> Request]
      BY <2>4 DEF RouteLeave, Request
    <3>2. row' \in [Jobs -> Row]
      <4>1. \A i \in Intent \cup {"none"} : [row[client[c].job] EXCEPT !.intent = i] \in Row
        BY <2>2, <2>4, RowUpdates DEF RouteLeave
      <4>2. \E i \in Intent \cup {"none"} :
              row' = [row EXCEPT ![client[c].job] = [row[client[c].job] EXCEPT !.intent = i]]
        <5>1. row[client[c].job].intent \in Intent \cup {"none"}
          BY <2>2, <2>4 DEF RouteLeave, Row
        <5> QED BY <2>2, <2>4, <5>1 DEF RouteLeave
      <4>3. \E x \in Row : row' = [row EXCEPT ![client[c].job] = x]
        BY <4>1, <4>2
      <4> QED BY <4>3
    <3> QED BY <2>4, <3>1, <3>2 DEF RouteLeave
  <2>5. CASE ArchiveStore(c)
    <3>1. client' \in [Clients -> Request]
      BY <2>2, <2>5 DEF ArchiveStore
    <3>2. row' \in [Jobs -> Row]
      BY <2>2, <2>5, RowUpdates DEF ArchiveStore
    <3> QED BY <2>5, <3>1, <3>2 DEF ArchiveStore
  <2>6. CASE ArchiveDrop(c)
    <3>1. client' \in [Clients -> Request]
      BY <2>6 DEF ArchiveDrop, Request
    <3>2. table' \in [Nodes -> [Jobs -> Entry]]
      BY <2>2, <2>6, Statuses DEF ArchiveDrop, SetEntry
    <3>3. channel' \in [Nodes -> [Jobs -> Control]]
      BY <2>6 DEF ArchiveDrop, Close, Control
    <3> QED BY <2>6, <3>1, <3>2, <3>3 DEF ArchiveDrop, Close, Untuned
  <2> QED BY <1>11, <2>1, <2>3, <2>4, <2>5, <2>6 DEF ClientNext
<1>12. ASSUME NEW w \in writes, Land(w) \/ Lose(w) PROVE TypeOK'
  <2>1. w.job \in Jobs /\ w.status \in Entry
    BY Statuses DEF Write
  <2>2. row' \in [Jobs -> Row]
    <3>1. \A s \in Entry : [row[w.job] EXCEPT !.status = s] \in Row
      BY <2>1, RowUpdates
    <3>2. row[w.job].status \in Entry
      BY <2>1 DEF Row
    <3>3. \/ row' = row
          \/ \E s \in Entry : row' = [row EXCEPT ![w.job] = [row[w.job] EXCEPT !.status = s]]
      BY <1>12, <2>1, <3>2 DEF Land, Lose
    <3>4. row' = row \/ \E x \in Row : row' = [row EXCEPT ![w.job] = x]
      BY <3>1, <3>3
    <3> QED BY <3>4
  <2> QED BY <1>12, <2>2 DEF Land, Lose
<1>13. CASE UNCHANGED vars
  BY <1>13 DEF vars
<1> QED BY <1>1, <1>2, <1>3, <1>4, <1>5, <1>6, <1>7, <1>8, <1>9, <1>10, <1>11, <1>12, <1>13
        DEF Next

\* Every variable keeps its type, whoever is late and whatever is lost.
THEOREM TypeCorrectness == Spec => []TypeOK
<1>1. Init => TypeOK
  <2>1. NoRow \in Row
    BY Statuses DEF Row, NoRow
  <2> QED BY <2>1, Statuses, ClusterAssumption DEF Init, TypeOK, Run, Control, Request
<1> QED BY <1>1, TypeStep, PTL DEF Spec

-----------------------------------------------------------------------------
(* Steps that leave the owner of a job alone.                              *)

\* For job j the step changes no owner and no claim, and begins and ends no
\* execution: it may let a worker write an active status, lose writes, drop
\* claims, hand intents of an owned row over, let archives begin or end.
Calm(j) ==
  /\ up \subseteq up' /\ sub'[j] = sub[j] /\ home'[j] = home[j]
  /\ \A n \in Nodes : j \in claimed'[n] => j \in claimed[n]
  /\ /\ row'[j].status = row[j].status
     /\ row'[j].node = row[j].node
     /\ row'[j].beat = row[j].beat
  /\ \A n \in Nodes :
       table'[n][j] = table[n][j] \/ {table'[n][j], table[n][j]} \subseteq Active
  /\ \A r \in Runs : AtWork(r, j)' => AtWork(r, j) /\ run'[r].node = run[r].node
  /\ \A w \in writes' : w.job = j =>
       w \in writes \/ (w.op = "update" /\ w.status \in Active /\ Works(w.node, j))
  /\ \A n \in Nodes, i \in Intent :
       <<j, i>> \in intents'[n] \cup taken'[n] =>
         <<j, i>> \in intents[n] \cup taken[n] \/ row[j].node # NoNode
  /\ \A c \in Clients :
       client'[c].job = j /\ client'[c].step \in {"archive", "drop"} =>
         client'[c] = client[c] \/ (client'[c].step = "archive" /\ Inserted(j))

\* Such a step keeps what IndInv says of the job.
LEMMA CalmStep ==
  ASSUME TypeOK, TypeOK', NEW j \in Jobs, JobInv(j), Calm(j)
  PROVE  JobInv(j)'
<1> USE DEF JobInv, Calm
<1>1. \A n \in Nodes : Works(n, j)' => Works(n, j)
  BY DEF Works
<1>2. Inserted(j) => Inserted(j)'
  BY DEF Inserted
<1>3. \A w \in writes' : w.node \in Nodes
  BY DEF TypeOK, Write
<1>4. NotBeforeSubmitted(j)'
  BY <1>1, <1>2 DEF NotBeforeSubmitted, Active, Absent
<1>5. WritesAreOfOwner(j)'
  <2> SUFFICES ASSUME NEW w \in writes', w.job = j
               PROVE  /\ w.node \in up'
                      /\ w.op = "insert" =>
                           /\ w.status = "Pending" /\ sub'[j] = "inserting"
                           /\ home'[j] = w.node /\ row'[j].status = Absent
                      /\ w.op = "update" =>
                           /\ w.status # "Pending" /\ sub'[j] = "done"
                           /\ row'[j].status # Absent =>
                                row'[j].node = w.node /\ row'[j].beat = "fresh"
                           /\ w.status \in Terminal => \A n \in Nodes : ~Works(n, j)'
    BY DEF WritesAreOfOwner
  <2>1. CASE w \in writes
    BY <1>1, <1>3, <2>1 DEF WritesAreOfOwner
  <2>2. CASE w.op = "update" /\ w.status \in Active /\ Works(w.node, j)
    BY <1>1, <1>3, <2>2 DEF WorkerIsOwner, NotBeforeSubmitted, Active, Terminal, Works, Absent
  <2> QED BY <2>1, <2>2
<1>6. RowShape(j)'
  BY DEF RowShape
<1>7. WorkerIsOwner(j)'
  BY <1>1 DEF WorkerIsOwner
<1>8. RunsAreBacked(j)'
  <2> SUFFICES ASSUME NEW r \in Runs, AtWork(r, j)'
               PROVE  /\ run'[r].node \in up'
                      /\ \/ table'[run'[r].node][j] \in Active
                         \/ row'[j].status = Absent /\ table'[run'[r].node][j] = Absent
                      /\ \A m \in Nodes : j \notin claimed'[m]
                      /\ \A p \in Runs : AtWork(p, j)' => p = r
    BY DEF RunsAreBacked
  <2>1. AtWork(r, j) /\ run'[r].node = run[r].node
    OBVIOUS
  <2>2. run[r].node \in Nodes
    BY <2>1, AtWorkTyped DEF AtWork
  <2> QED BY <2>1, <2>2 DEF RunsAreBacked
<1>9. ArchivesAreOfEnded(j)'
  BY <1>2 DEF ArchivesAreOfEnded
<1> QED BY <1>4, <1>5, <1>6, <1>7, <1>8, <1>9

\* A row that is there and whose heartbeat is not fresh is nobody's: no node
\* works at the job, no execution is left, no write is on its way.
LEMMA Unserved ==
  ASSUME TypeOK, NEW j \in Jobs, JobInv(j),
         row[j].status # Absent, row[j].beat # "fresh"
  PROVE  /\ \A n \in Nodes : ~Works(n, j)
         /\ \A r \in Runs : ~AtWork(r, j)
         /\ \A w \in writes : w.job # j
<1>1. \A n \in Nodes : ~Works(n, j)
  BY DEF JobInv, WorkerIsOwner
<1>2. ASSUME NEW r \in Runs, AtWork(r, j) PROVE FALSE
  <2>1. run[r].node \in Nodes
    BY <1>2, AtWorkTyped DEF AtWork
  <2> QED BY <1>1, <1>2, <2>1 DEF JobInv, RunsAreBacked, Works
<1>3. ASSUME NEW w \in writes, w.job = j PROVE FALSE
  <2>1. w.op \in {"insert", "update"}
    BY DEF TypeOK, Write
  <2> QED BY <1>3, <2>1 DEF JobInv, WritesAreOfOwner
<1> QED BY <1>1, <1>2, <1>3

\* The asking for rows, an execution that gets its permit, a node that comes
\* back, a write that is lost, and a step that changes nothing.
LEMMA CalmLoops ==
  ASSUME TypeOK, NEW k \in Jobs,
         \/ \E n \in Nodes : ClaimAsk(n) \/ Return(n)
         \/ \E r \in Runs : Enter(r)
         \/ \E w \in writes : Lose(w)
         \/ UNCHANGED vars
  PROVE  Calm(k)
<1> USE DEF Calm, database, memory, claims, control, exec, faults
<1>1. CASE \E n \in Nodes : ClaimAsk(n) \/ Return(n)
  BY <1>1 DEF ClaimAsk, Return, AtWork
<1>2. ASSUME NEW r \in Runs, Enter(r) PROVE Calm(k)
  <2>1. \A p \in Runs : AtWork(p, k)' => AtWork(p, k) /\ run'[p].node = run[p].node
    <3> DEFINE heard == IF <<run[r].node, run[r].job>> \in open
                        THEN channel[run[r].node][run[r].job] ELSE "Run"
    <3>1. run' = [run EXCEPT ![r].pc = "running", ![r].signal = heard]
      BY <1>2 DEF Enter
    <3> HIDE DEF heard
    <3>2. run[r].pc = "waiting" BY <1>2 DEF Enter
    <3>3. run[r] \in [pc : {"waiting", "running", "suspended"}, node : Nodes, job : Jobs,
                      signal : Control]
      BY <3>2 DEF TypeOK, Run, NoRun, Over
    <3>4. /\ run'[r].pc = "running" /\ run'[r].node = run[r].node
          /\ run'[r].job = run[r].job
      BY <3>1, <3>3 DEF TypeOK
    <3>5. \A p \in Runs : p # r => run'[p] = run[p]
      BY <3>1 DEF TypeOK
    <3> QED BY <3>2, <3>4, <3>5 DEF AtWork
  <2> QED BY <1>2, <2>1 DEF Enter
<1>3. CASE \E w \in writes : Lose(w)
  BY <1>3 DEF Lose, AtWork
<1>4. CASE UNCHANGED vars
  BY <1>4 DEF vars, AtWork
<1> QED BY <1>1, <1>2, <1>3, <1>4

\* The heartbeat: what it writes is written already.
LEMMA CalmHeartbeat ==
  ASSUME TypeOK, NEW k \in Jobs, JobInv(k), NEW n \in Nodes, Heartbeat(n)
  PROVE  Calm(k)
<1>1. Beats(n, k) => row[k].beat = "fresh"
  BY DEF Beats, JobInv, WorkerIsOwner, Works, Active, Absent
<1>2. row'[k] = IF Beats(n, k) THEN [row[k] EXCEPT !.beat = "fresh"] ELSE row[k]
  BY DEF Heartbeat
<1>3. row[k] \in Row
  BY DEF TypeOK
<1>4. /\ row'[k].status = row[k].status /\ row'[k].node = row[k].node
      /\ row'[k].beat = row[k].beat
  BY <1>1, <1>2, <1>3 DEF Row
<1> QED BY <1>4 DEF Calm, Heartbeat, memory, claims, control, exec, faults, AtWork

\* Signals: what a local request or a consumed intent does to an entry turns
\* one active status into another.
LEMMA CalmRequests ==
  ASSUME TypeOK, NEW k \in Jobs, NEW n \in Nodes, NEW j \in Jobs, JobInv(j),
         LocalRequest(n, j) => sub[j] # "inserting",
         LocalRequest(n, j) \/ \E i \in Intent : Consume(n, j, i)
  PROVE  Calm(k)
<1>1. table[n][j] # "Pending"
  <2>1. CASE LocalRequest(n, j)
    BY <2>1 DEF LocalRequest, JobInv, NotBeforeSubmitted
  <2>2. ASSUME NEW i \in Intent, Consume(n, j, i) PROVE table[n][j] # "Pending"
    BY <2>2 DEF Consume, JobInv, NotBeforeSubmitted
  <2> QED BY <2>1, <2>2
<1>2. \A r \in Runs : AtWork(r, k)' => AtWork(r, k) /\ run'[r].node = run[r].node
  <2>1. \/ \E c \in Control : Send(n, j, c)
        \/ UNCHANGED run
    BY DEF LocalRequest, PauseLocal, ResumeLocal, CancelLocal, Consume, Control, Intent
  <2> QED BY <2>1, SendEffect DEF AtWork
<1>3. \/ UNCHANGED <<table, writes>>
      \/ /\ table[n][j] \in Active
         /\ \E s \in Active : SetEntry(n, j, s)
         /\ writes' = writes \/ Persist(n, j, "Cancelling")
  <2>1. CASE LocalRequest(n, j)
    <3>1. CASE PauseLocal(n, j)
      BY <3>1 DEF PauseLocal
    <3>2. CASE ResumeLocal(n, j)
      BY <3>2, <1>1 DEF ResumeLocal, Active
    <3>3. CASE CancelLocal(n, j)
      BY <3>3, <1>1 DEF CancelLocal, Active
    <3> QED BY <2>1, <3>1, <3>2, <3>3 DEF LocalRequest
  <2>2. ASSUME NEW i \in Intent, Consume(n, j, i)
        PROVE  \/ UNCHANGED <<table, writes>>
               \/ /\ table[n][j] \in Active
                  /\ \E s \in Active : SetEntry(n, j, s)
                  /\ writes' = writes \/ Persist(n, j, "Cancelling")
    <3>1. CASE table[n][j] = Absent \/ i = "pause"
      BY <2>2, <3>1 DEF Consume
    <3>2. CASE table[n][j] # Absent /\ i = "resume"
      <4>1. SetEntry(n, j, IF table[n][j] = "Paused" THEN "Running" ELSE table[n][j])
            /\ UNCHANGED writes
        BY <2>2, <3>2 DEF Consume
      <4>2. CASE table[n][j] = "Paused"
        BY <4>1, <4>2 DEF Active
      <4>3. CASE table[n][j] # "Paused"
        BY <4>1, <4>3 DEF SetEntry, TypeOK
      <4> QED BY <4>2, <4>3
    <3>3. CASE table[n][j] # Absent /\ i = "cancel"
      BY <1>1, <2>2, <3>3 DEF Consume, Active, Live
    <3> QED BY <3>1, <3>2, <3>3 DEF Intent
  <2> QED BY <2>1, <2>2
<1>4. \A m \in Nodes : table'[m][k] = table[m][k] \/ {table'[m][k], table[m][k]} \subseteq Active
  BY <1>3, Statuses, EntryUpdate DEF TypeOK
<1>5. \A w \in writes' : w \in writes \/ (/\ w.op = "update" /\ w.status \in Active
                                          /\ Works(w.node, w.job))
  BY <1>3 DEF Persist, Works, Active
<1>6. /\ UNCHANGED <<up, sub, home, claimed, row, intents, client>>
      /\ \A m \in Nodes : taken'[m] \subseteq taken[m]
  <2>1. CASE LocalRequest(n, j)
    BY <2>1 DEF LocalRequest, claims, control
  <2>2. ASSUME NEW i \in Intent, Consume(n, j, i)
        PROVE  /\ UNCHANGED <<up, sub, home, claimed, row, intents, client>>
               /\ \A m \in Nodes : taken'[m] \subseteq taken[m]
    <3>1. taken' = [taken EXCEPT ![n] = @ \ {<<j, i>>}]
      BY <2>2 DEF Consume
    <3> QED BY <2>2, <3>1 DEF Consume, claims, faults, TypeOK
  <2> QED BY <2>1, <2>2
<1> QED BY <1>2, <1>4, <1>5, <1>6 DEF Calm

\* Checkpoints and samples of an execution at work.
LEMMA CalmRuns ==
  ASSUME TypeOK, NEW k \in Jobs, NEW r \in Runs, JobInv(run[r].job),
         CheckpointPause(r) \/ Wake(r) \/ Sample(r)
  PROVE  Calm(k)
<1> DEFINE n == run[r].node
           j == run[r].job
<1>1. n \in Nodes /\ j \in Jobs /\ AtWork(r, j)
  BY AtWorkTyped DEF CheckpointPause, Wake, Sample
<1>2. table[n][j] \in Active \cup {Absent}
  BY <1>1 DEF JobInv, RunsAreBacked
<1>3. \A p \in Runs : AtWork(p, k)' => AtWork(p, k) /\ run'[p].node = run[p].node
  <2>1. run[r] \in Run
    BY DEF TypeOK
  <2>2. \/ UNCHANGED run
        \/ \E c \in {"running", "suspended"} : run' = [run EXCEPT ![r].pc = c]
    BY DEF CheckpointPause, Wake, Sample, exec
  <2>3. ASSUME NEW c \in {"running", "suspended"}, run' = [run EXCEPT ![r].pc = c],
               NEW p \in Runs, AtWork(p, k)'
        PROVE  AtWork(p, k) /\ run'[p].node = run[p].node
    <3>1. CASE p = r
      <4>1. run'[r] = [run[r] EXCEPT !.pc = c]
        BY <2>3 DEF TypeOK
      <4>2. run[r] \in [pc : {"waiting", "running", "suspended"}, node : Nodes, job : Jobs,
                        signal : Control]
        BY <1>1, <2>1 DEF AtWork, Run, NoRun, Over
      <4> QED BY <2>3, <3>1, <4>1, <4>2 DEF AtWork
    <3>2. CASE p # r
      BY <2>3, <3>2 DEF AtWork, TypeOK
    <3> QED BY <3>1, <3>2
  <2>4. CASE UNCHANGED run
    BY <2>4 DEF AtWork
  <2> QED BY <2>2, <2>3, <2>4
<1> HIDE DEF n, j
<1>4. \/ UNCHANGED table
      \/ table[n][j] \in Active /\ \E s \in Active : SetEntry(n, j, s)
      \/ table[n][j] = Absent /\ SetEntry(n, j, Absent)
  BY <1>2 DEF CheckpointPause, Wake, Sample, memory, Active, n, j
<1>5. \A m \in Nodes : table'[m][k] = table[m][k] \/ {table'[m][k], table[m][k]} \subseteq Active
  BY <1>1, <1>4, Statuses, EntryUpdate DEF TypeOK
<1>6. \A w \in writes' : w \in writes \/ (/\ w.op = "update" /\ w.status \in Active
                                          /\ Works(w.node, w.job))
  BY <1>2 DEF CheckpointPause, Wake, Sample, database, Persist, Works, n, j
<1>7. UNCHANGED <<up, sub, home, claimed, row, intents, taken, client>>
  BY DEF CheckpointPause, Wake, Sample, database, memory, claims, control, faults
<1> QED BY <1>3, <1>5, <1>6, <1>7 DEF Calm

\* Intents that are handed over.
LEMMA CalmIntents ==
  ASSUME TypeOK, NEW k \in Jobs, NEW n \in Nodes, TakeRead(n) \/ TakeClear(n)
  PROVE  Calm(k)
<1> USE DEF Calm, database, memory, claims, exec, faults, AtWork
<1>1. CASE TakeRead(n)
  <2>1. ASSUME NEW i \in Intent, <<k, i>> \in intents'[n] PROVE row[k].node # NoNode
    <3>1. intents'[n] = {<<j, row[j].intent>> :
                           j \in {j \in Jobs : row[j].node = n /\ row[j].intent # "none"}}
      BY <1>1 DEF TakeRead, TypeOK
    <3> QED BY <2>1, <3>1, ClusterAssumption
  <2>2. \A m \in Nodes : m # n => intents'[m] = intents[m]
    BY <1>1 DEF TakeRead, TypeOK
  <2> QED BY <1>1, <2>1, <2>2 DEF TakeRead
<1>2. CASE TakeClear(n)
  <2>1. row'[k] = IF \E i \in Intent : <<k, i>> \in intents[n]
                  THEN [row[k] EXCEPT !.intent = "none"] ELSE row[k]
    BY <1>2 DEF TakeClear
  <2>2. row[k] \in Row
    BY DEF TypeOK
  <2>3. /\ row'[k].status = row[k].status /\ row'[k].node = row[k].node
        /\ row'[k].beat = row[k].beat
    BY <2>1, <2>2 DEF Row
  <2>4. \A m \in Nodes, i \in Intent :
          <<k, i>> \in intents'[m] \cup taken'[m] => <<k, i>> \in intents[m] \cup taken[m]
    BY <1>2 DEF TakeClear, TypeOK
  <2> QED BY <1>2, <2>3, <2>4 DEF TakeClear
<1> QED BY <1>1, <1>2

\* Requests routed to another node, and archives that begin.
LEMMA CalmClients ==
  ASSUME TypeOK, \A j \in Jobs : JobInv(j), NEW k \in Jobs, NEW c \in Clients,
         \/ \E n \in Nodes, j \in Jobs : RouteRead(c, n, j) \/ ArchiveRead(c, n, j)
         \/ RouteLeave(c)
  PROVE  Calm(k)
<1> USE DEF Calm, database, memory, claims, control, exec, faults, AtWork
<1>1. ASSUME NEW n \in Nodes, NEW j \in Jobs, RouteRead(c, n, j) PROVE Calm(k)
  BY <1>1 DEF RouteRead, TypeOK
<1>2. ASSUME NEW n \in Nodes, NEW j \in Jobs, ArchiveRead(c, n, j) PROVE Calm(k)
  <2>1. Inserted(j)
    <3>1. sub[j] = "done" => Inserted(j)
      BY DEF JobInv, WritesAreOfOwner, Inserted
    <3>2. table[n][j] \notin {Absent, "Pending"} \/ row[j].status # Absent
      BY <1>2 DEF ArchiveRead, Terminal, Absent
    <3> QED BY <3>1, <3>2 DEF JobInv, NotBeforeSubmitted
  <2>2. client'[c].job = j /\ client'[c].step = "archive"
    BY <1>2 DEF ArchiveRead, TypeOK, Idle
  <2>3. \A d \in Clients : d # c => client'[d] = client[d]
    BY <1>2 DEF ArchiveRead, TypeOK
  <2> QED BY <1>2, <2>1, <2>2, <2>3 DEF ArchiveRead
<1>3. CASE RouteLeave(c)
  <2>1. /\ row'[k].status = row[k].status /\ row'[k].node = row[k].node
        /\ row'[k].beat = row[k].beat
    BY <1>3 DEF RouteLeave, TypeOK, Row
  <2>2. client' = [client EXCEPT ![c] = Idle]
    BY <1>3 DEF RouteLeave
  <2> QED BY <1>3, <2>1, <2>2 DEF RouteLeave, TypeOK, Idle
<1> QED BY <1>1, <1>2, <1>3

-----------------------------------------------------------------------------
(* Steps that change an owner, a claim or the end of an execution.         *)

\* A row nobody serves: only its own shape is left to show.
LEMMA UnservedStep ==
  ASSUME TypeOK, TypeOK', NEW j \in Jobs, JobInv(j),
         \A n \in Nodes : ~Works(n, j)',
         \A r \in Runs : ~AtWork(r, j)',
         \A w \in writes' : w.job # j,
         UNCHANGED <<sub, home, table, intents, taken>>,
         row[j].status # Absent, row'[j].status # Absent,
         row'[j].node \in {NoNode, row[j].node}, RowShape(j)',
         \A c \in Clients :
           client'[c].job = j /\ client'[c].step \in {"archive", "drop"} =>
             client'[c] = client[c]
  PROVE  JobInv(j)'
<1> USE DEF JobInv
<1>1. Inserted(j) /\ Inserted(j)'
  BY DEF NotBeforeSubmitted, Inserted
<1>2. NotBeforeSubmitted(j)'
  BY <1>1 DEF NotBeforeSubmitted, Works
<1>3. WritesAreOfOwner(j)' /\ WorkerIsOwner(j)' /\ RunsAreBacked(j)'
  BY DEF WritesAreOfOwner, WorkerIsOwner, RunsAreBacked
<1>4. ArchivesAreOfEnded(j)'
  BY <1>1 DEF ArchivesAreOfEnded
<1> QED BY <1>2, <1>3, <1>4

\* submit() lists the job: no row, no claim and no execution exist yet.
LEMMA SubmitStep ==
  ASSUME TypeOK, TypeOK', NEW n \in Nodes, NEW j \in Jobs, Submit(n, j),
         NEW k \in Jobs, JobInv(k)
  PROVE  JobInv(k)'
<1> USE DEF Submit, database, memory, claims, control, exec, faults
<1> DEFINE insert == [op |-> "insert", job |-> j, status |-> "Pending", node |-> n]
<1>1. /\ sub'[k] = IF k = j THEN "inserting" ELSE sub[k]
      /\ home'[k] = IF k = j THEN n ELSE home[k]
      /\ UNCHANGED <<up, row, claimed, intents, taken, run, client>>
      /\ writes' = writes \cup {insert}
  BY DEF TypeOK
<1>2. \A m \in Nodes : table'[m][k] = IF m = n /\ k = j THEN "Pending" ELSE table[m][k]
  BY Statuses, EntryUpdate DEF TypeOK
<1>3. n \in up /\ sub[j] = "new"
  OBVIOUS
<1>4. \A r \in Runs : AtWork(r, k)' <=> AtWork(r, k)
  BY <1>1 DEF AtWork
<1>5. insert.op = "insert" /\ insert.job = j /\ insert.status = "Pending" /\ insert.node = n
  OBVIOUS
<1> HIDE DEF Submit, insert
<1>6. CASE k # j
  <2>1. Calm(k)
    BY <1>1, <1>2, <1>4, <1>5, <1>6 DEF Calm
  <2> QED BY <2>1, CalmStep
<1>7. CASE k = j
  <2> USE DEF JobInv
  <2>1. /\ row[j].status = Absent /\ row[j].node = NoNode /\ row[j].beat = "none"
        /\ \A m \in Nodes : table[m][j] = Absent /\ j \notin claimed[m]
        /\ \A r \in Runs : ~AtWork(r, j)
        /\ \A w \in writes : w.job # j
        /\ \A m \in Nodes, i \in Intent : <<j, i>> \notin intents[m] \cup taken[m]
        /\ \A c \in Clients : client[c].job = j => client[c].step \notin {"archive", "drop"}
    <3>1. row[j].status = Absent /\ row[j].node = NoNode /\ row[j].beat = "none"
      BY <1>3, <1>7 DEF NotBeforeSubmitted, Inserted, RowShape
    <3>2. \A w \in writes : w.op \in {"insert", "update"}
      BY DEF TypeOK, Write
    <3>3. \A w \in writes : w.job # j
      BY <1>3, <1>7, <3>2 DEF WritesAreOfOwner
    <3> QED BY <1>3, <1>7, <3>1, <3>3 DEF NotBeforeSubmitted, ArchivesAreOfEnded, Inserted
  <2>2. \A m \in Nodes : ~Works(m, j)'
    BY <1>1, <1>2, <1>7, <2>1 DEF Works, Active, Absent
  <2>3. NotBeforeSubmitted(j)'
    BY <1>1, <1>2, <1>4, <1>7, <2>1 DEF NotBeforeSubmitted, Absent
  <2>4. WritesAreOfOwner(j)'
    BY <1>1, <1>3, <1>5, <1>7, <2>1 DEF WritesAreOfOwner
  <2>5. RowShape(j)'
    BY <1>1, <1>7 DEF RowShape
  <2>6. WorkerIsOwner(j)' /\ RunsAreBacked(j)' /\ ArchivesAreOfEnded(j)'
    BY <1>1, <1>4, <1>7, <2>1, <2>2 DEF WorkerIsOwner, RunsAreBacked, ArchivesAreOfEnded
  <2> QED BY <1>7, <2>3, <2>4, <2>5, <2>6
<1> QED BY <1>6, <1>7

\* submit() has been answered: the entry of its node goes.
LEMMA SubmitInsertedStep ==
  ASSUME TypeOK, TypeOK', NEW j \in Jobs, SubmitInserted(j), NEW k \in Jobs, JobInv(k), JobInv(j)
  PROVE  JobInv(k)'
<1>1. /\ sub'[k] = IF k = j THEN "done" ELSE sub[k]
      /\ home'[k] = IF k = j THEN NoNode ELSE home[k]
      /\ UNCHANGED <<up, row, writes, claimed, intents, taken, run, client>>
      /\ sub[j] = "inserting" /\ \A w \in writes : ~(w.op = "insert" /\ w.job = j)
      /\ SetEntry(home[j], j, Absent)
  BY DEF SubmitInserted, database, claims, control, exec, faults, TypeOK
<1>2. home[j] \in Nodes
  BY <1>1 DEF JobInv, NotBeforeSubmitted
<1>3. \A m \in Nodes : table'[m][k] = IF m = home[j] /\ k = j THEN Absent ELSE table[m][k]
  BY <1>1, <1>2, Statuses, EntryUpdate DEF TypeOK
<1>4. \A r \in Runs : AtWork(r, k)' <=> AtWork(r, k)
  BY <1>1 DEF AtWork
<1>5. CASE k # j
  <2>1. Calm(k)
    BY <1>1, <1>3, <1>4, <1>5 DEF Calm
  <2> QED BY <2>1, CalmStep
<1>6. CASE k = j
  <2> USE DEF JobInv
  <2>1. /\ \A m \in Nodes : table'[m][j] = Absent /\ j \notin claimed[m]
        /\ \A r \in Runs : ~AtWork(r, j)
        /\ \A w \in writes : w.job # j
    <3>1. \A w \in writes : w.op \in {"insert", "update"}
      BY DEF TypeOK, Write
    <3>2. \A w \in writes : w.job # j
      BY <1>1, <1>6, <3>1 DEF WritesAreOfOwner
    <3> QED BY <1>1, <1>3, <1>6, <3>2 DEF NotBeforeSubmitted
  <2>2. \A m \in Nodes : ~Works(m, j)'
    BY <1>1, <2>1 DEF Works, Active, Absent
  <2>3. NotBeforeSubmitted(j)'
    BY <1>1, <1>4, <1>6, <2>1 DEF NotBeforeSubmitted, Inserted, Absent
  <2>4. WritesAreOfOwner(j)' /\ RowShape(j)' /\ WorkerIsOwner(j)' /\ RunsAreBacked(j)'
    BY <1>1, <1>4, <1>6, <2>1, <2>2 DEF WritesAreOfOwner, RowShape, WorkerIsOwner, RunsAreBacked
  <2>5. ArchivesAreOfEnded(j)'
    BY <1>1, <1>6, <2>1 DEF ArchivesAreOfEnded, Inserted
  <2> QED BY <1>6, <2>3, <2>4, <2>5
<1> QED BY <1>5, <1>6

\* The claim: the rows given out were nobody's, and are the claimer's now.
LEMMA ClaimStep ==
  ASSUME TypeOK, TypeOK', NEW n \in Nodes, ClaimRows(n) \/ ClaimFails(n),
         NEW k \in Jobs, JobInv(k), sub[k] = "inserting" => row'[k] = row[k]
  PROVE  JobInv(k)'
<1>1. PICK S \in SUBSET Jobs :
        /\ Granted(n, S)
        /\ claimed' = [claimed EXCEPT ![n] = S] \/ UNCHANGED claimed
  BY DEF ClaimRows, ClaimFails
<1>2. /\ UNCHANGED <<up, writes, table, sub, home, intents, taken, run, client>>
      /\ n \in up
  BY DEF ClaimRows, ClaimFails, memory, control, exec, faults
<1>3. \A r \in Runs : AtWork(r, k)' <=> AtWork(r, k)
  BY <1>2 DEF AtWork
<1>4. \A m \in Nodes : k \in claimed'[m] => k \in claimed[m] \/ (m = n /\ k \in S)
  BY <1>1 DEF TypeOK
<1>5. CASE k \notin S
  <2>1. row'[k] = row[k]
    BY <1>1, <1>5 DEF Granted
  <2>2. Calm(k)
    BY <1>2, <1>3, <1>4, <1>5, <2>1 DEF Calm
  <2> QED BY <2>2, CalmStep
<1>6. CASE k \in S
  <2>a. row[k].status = "Pending" /\ row'[k] = ClaimedBy(row[k], n)
    BY <1>1, <1>6 DEF Granted, Claimable
  <2>2. /\ row'[k].status = "Running" /\ row'[k].node = n /\ row'[k].beat = "fresh"
    BY <2>a DEF ClaimedBy, TypeOK, Row
  <2>1. row[k].status = "Pending" /\ sub[k] # "inserting"
    BY <2>a, <2>2
  <2>3. row[k].beat = "none"
    BY <2>1 DEF JobInv, RowShape
  <2>4. /\ \A m \in Nodes : ~Works(m, k)
        /\ \A r \in Runs : ~AtWork(r, k)
        /\ \A w \in writes : w.job # k
    BY <2>1, <2>3, Unserved DEF Absent
  <2>5. sub[k] = "done" /\ Inserted(k) /\ Inserted(k)'
    <3>1. Inserted(k)
      BY <2>1 DEF JobInv, NotBeforeSubmitted, Absent
    <3> QED BY <1>2, <2>1, <3>1 DEF Inserted, TypeOK
  <2>6. \A m \in Nodes : /\ Works(m, k)' => m = n
                         /\ table'[m][k] \notin Active
                         /\ ~(k \in claimed[m])
    BY <1>2, <1>4, <2>4 DEF Works
  <2> USE DEF JobInv
  <2>7. NotBeforeSubmitted(k)'
    BY <1>2, <2>5 DEF NotBeforeSubmitted
  <2>8. WritesAreOfOwner(k)' /\ RunsAreBacked(k)'
    BY <1>2, <1>3, <2>4 DEF WritesAreOfOwner, RunsAreBacked
  <2>9. RowShape(k)'
    BY <2>2, ClusterAssumption DEF RowShape, Active, Absent
  <2>10. WorkerIsOwner(k)'
    BY <1>2, <2>2, <2>6 DEF WorkerIsOwner, Active
  <2>11. ArchivesAreOfEnded(k)'
    BY <1>2, <2>1, <2>5 DEF ArchivesAreOfEnded, Absent
  <2> QED BY <2>7, <2>8, <2>9, <2>10, <2>11
<1> QED BY <1>5, <1>6

\* A claimed job gets its entry and its execution, the only ones.
LEMMA RunClaimedStep ==
  ASSUME TypeOK, TypeOK', NEW n \in Nodes, NEW j \in Jobs, NEW r \in Runs,
         RunClaimed(n, j, r), NEW k \in Jobs, JobInv(k)
  PROVE  JobInv(k)'
<1> DEFINE new == [pc |-> "waiting", node |-> n, job |-> j, signal |-> "Run"]
<1>1. /\ UNCHANGED <<up, sub, home, row, writes, intents, taken, client>>
      /\ n \in up /\ j \in claimed[n] /\ run[r].pc = "none"
      /\ run' = [run EXCEPT ![r] = new]
      /\ SetEntry(n, j, "Running")
  BY DEF RunClaimed, database, control, faults
<1>2. \A m \in Nodes : k \in claimed'[m] <=> k \in claimed[m] /\ ~(m = n /\ k = j)
  BY DEF RunClaimed, TypeOK
<1>3. \A m \in Nodes : table'[m][k] = IF m = n /\ k = j THEN "Running" ELSE table[m][k]
  BY <1>1, Statuses, EntryUpdate DEF TypeOK
<1>4. \A p \in Runs : /\ AtWork(p, k)' <=> AtWork(p, k) \/ (p = r /\ k = j)
                      /\ p # r => run'[p].node = run[p].node
  BY <1>1 DEF AtWork, TypeOK
<1>5. run'[r].node = n /\ ~AtWork(r, k)
  BY <1>1 DEF AtWork, TypeOK
<1> HIDE DEF new
<1>6. CASE k # j
  <2>1. \A p \in Runs : AtWork(p, k)' => AtWork(p, k) /\ run'[p].node = run[p].node
    BY <1>4, <1>5, <1>6
  <2>2. Calm(k)
    BY <1>1, <1>2, <1>3, <1>6, <2>1 DEF Calm
  <2> QED BY <2>2, CalmStep
<1>7. CASE k = j
  <2> USE DEF JobInv
  <2>1. /\ Works(n, j) /\ sub[j] = "done"
        /\ \A m \in Nodes : m # n => ~Works(m, j)
        /\ \A p \in Runs : ~AtWork(p, j)
    <3>1. Works(n, j)
      BY <1>1 DEF Works
    <3>2. sub[j] = "done"
      BY <1>1, <1>7 DEF NotBeforeSubmitted
    <3> QED BY <1>1, <1>7, <3>1, <3>2 DEF WorkerIsOwner, RunsAreBacked
  <2>2. \A m \in Nodes : (Works(m, j)' <=> m = n) /\ j \notin claimed'[m]
    BY <1>2, <1>3, <1>7, <2>1 DEF Works, Active
  <2>3. NotBeforeSubmitted(j)'
    BY <1>1, <1>3, <1>7, <2>1 DEF NotBeforeSubmitted, Inserted
  <2>4. WritesAreOfOwner(j)' /\ RowShape(j)' /\ ArchivesAreOfEnded(j)'
    BY <1>1, <1>7, <2>1 DEF WritesAreOfOwner, RowShape, ArchivesAreOfEnded, Inserted
  <2>5. WorkerIsOwner(j)'
    BY <1>1, <1>7, <2>1, <2>2 DEF WorkerIsOwner
  <2>6. RunsAreBacked(j)'
    BY <1>1, <1>3, <1>4, <1>5, <1>7, <2>1, <2>2 DEF RunsAreBacked, Active
  <2> QED BY <1>7, <2>3, <2>4, <2>5, <2>6
<1> QED BY <1>6, <1>7

\* A handler ends: its node stops to work at the job, and sends the end to the
\* row if the job has not been archived.
LEMMA RunEndStep ==
  ASSUME TypeOK, TypeOK', NEW r \in Runs, RunEnd(r),
         \A j \in Jobs : JobInv(j), NEW k \in Jobs
  PROVE  JobInv(k)'
<1> DEFINE n == run[r].node
           j == run[r].job
<1>1. n \in Nodes /\ j \in Jobs /\ AtWork(r, j)
  BY AtWorkTyped DEF RunEnd
<1>2. /\ UNCHANGED <<up, sub, home, row, claimed, intents, taken, client>>
      /\ run' = [run EXCEPT ![r] = Over]
      /\ IF table[n][j] \in Live
         THEN \E s \in Terminal : SetEntry(n, j, s) /\ Persist(n, j, s)
         ELSE UNCHANGED <<table, writes>>
  BY DEF RunEnd, claims, control, faults
<1>3. \A p \in Runs : /\ AtWork(p, k)' <=> AtWork(p, k) /\ p # r
                      /\ p # r => run'[p].node = run[p].node
  BY <1>2 DEF AtWork, TypeOK, Over, NoRun
<1> HIDE DEF n, j
<1>4. /\ n \in up /\ sub[j] = "done"
      /\ \A m \in Nodes : j \notin claimed[m]
      /\ \A p \in Runs : AtWork(p, j) => p = r
      /\ table[n][j] \in Active \/ (row[j].status = Absent /\ table[n][j] = Absent)
  BY <1>1 DEF JobInv, RunsAreBacked, NotBeforeSubmitted, n
<1>5. CASE table[n][j] \notin Active \/ k # j
  <2>1. \A m \in Nodes : table'[m][k] = table[m][k]
    <3>1. CASE table[n][j] \in Live /\ k # j
      BY <1>1, <1>2, <3>1, Statuses, EntryUpdate DEF TypeOK
    <3>2. CASE table[n][j] \notin Live
      BY <1>2, <3>2
    <3>3. table[n][j] \in Live => table[n][j] \in Active
      BY <1>4 DEF Live, Active, Absent
    <3> QED BY <1>5, <3>1, <3>2, <3>3
  <2>2. \A w \in writes' : w.job = k => w \in writes
    <3>1. CASE table[n][j] \in Live
      BY <1>2, <1>4, <1>5, <3>1 DEF Persist, Live, Absent
    <3>2. CASE table[n][j] \notin Live
      BY <1>2, <3>2
    <3> QED BY <3>1, <3>2
  <2>3. Calm(k)
    BY <1>2, <1>3, <2>1, <2>2 DEF Calm
  <2> QED BY <2>3, CalmStep
<1>6. CASE table[n][j] \in Active /\ k = j
  <2> USE DEF JobInv
  <2>1. PICK s \in Terminal : SetEntry(n, k, s) /\ Persist(n, k, s)
    BY <1>2, <1>6 DEF Live, Active
  <2> DEFINE end == [op |-> "update", job |-> k, status |-> s, node |-> n]
  <2>2. \A m \in Nodes : table'[m][k] = IF m = n THEN s ELSE table[m][k]
    BY <1>1, <2>1, Statuses, EntryUpdate DEF TypeOK
  <2>3. /\ writes' = writes \cup {end}
        /\ end.op = "update" /\ end.job = k /\ end.status = s /\ end.node = n
    BY <2>1 DEF Persist
  <2> HIDE DEF end
  <2>4. s # "Pending" /\ s \notin Active
    BY DEF Terminal, Active
  <2>5. \A m \in Nodes : m # n => ~Works(m, k)
    BY <1>1, <1>6 DEF WorkerIsOwner, Works
  <2>6. row[k].status # Absent => row[k].node = n /\ row[k].beat = "fresh"
    BY <1>1, <1>6 DEF WorkerIsOwner, Works
  <2>7. \A m \in Nodes : ~Works(m, k)'
    BY <1>2, <1>4, <1>6, <2>2, <2>4, <2>5 DEF Works
  <2>8. \A p \in Runs : ~AtWork(p, k)'
    BY <1>3, <1>4, <1>6
  <2>9. NotBeforeSubmitted(k)'
    BY <1>1, <1>2, <1>4, <1>6, <2>2, <2>3, <2>4 DEF NotBeforeSubmitted, Inserted
  <2>10. WritesAreOfOwner(k)'
    BY <1>1, <1>2, <1>4, <1>6, <2>3, <2>4, <2>6, <2>7 DEF WritesAreOfOwner
  <2>11. RowShape(k)' /\ ArchivesAreOfEnded(k)'
    BY <1>1, <1>2, <1>6, <2>3 DEF RowShape, ArchivesAreOfEnded, Inserted
  <2>12. WorkerIsOwner(k)' /\ RunsAreBacked(k)'
    BY <2>7, <2>8 DEF WorkerIsOwner, RunsAreBacked
  <2> QED BY <2>9, <2>10, <2>11, <2>12
<1> QED BY <1>5, <1>6

\* owner_timeout_ms pass without a slow owner: the owner, or a node that has
\* crashed, has nothing to do with the job any more.
LEMMA ExpireStep ==
  ASSUME TypeOK, TypeOK', NEW j \in Jobs, Expire(j), Quiet(j), NEW k \in Jobs,
         JobInv(k), JobInv(j)
  PROVE  JobInv(k)'
<1>1. UNCHANGED <<up, table, sub, home, writes, claimed, intents, taken, run, client>>
  BY DEF Expire, memory, claims, control, exec, faults
<1>2. \A r \in Runs : AtWork(r, k)' <=> AtWork(r, k)
  BY <1>1 DEF AtWork
<1>3. CASE k # j
  <2>1. row'[k] = row[k]
    BY <1>3 DEF Expire, TypeOK
  <2>2. Calm(k)
    BY <1>1, <1>2, <2>1 DEF Calm
  <2> QED BY <2>2, CalmStep
<1>4. CASE k = j
  <2> USE DEF JobInv
  <2>1. /\ row'[j].status = row[j].status /\ row'[j].node = row[j].node
        /\ row'[j].beat = "stale"
    BY DEF Expire, TypeOK, Row
  <2>2. row[j].beat = "fresh" /\ Quiet(j) /\ row[j].status # Absent
    BY DEF Expire, RowShape
  <2>3. \A m \in Nodes : ~Works(m, j)
    <3> SUFFICES ASSUME NEW m \in Nodes, Works(m, j) PROVE FALSE
      OBVIOUS
    <3>1. m \in up /\ row[j].node = m /\ row[j].status \in Active
      BY <2>2 DEF WorkerIsOwner
    <3>2. ~Beats(m, j) /\ j \notin claimed[m]
      BY <2>2, <3>1 DEF Quiet
    <3> QED BY <3>1, <3>2 DEF Works, Beats
  <2>4. \A w \in writes : w.job # j
    <3> SUFFICES ASSUME NEW w \in writes, w.job = j PROVE FALSE
      OBVIOUS
    <3>1. w.op \in {"insert", "update"}
      BY DEF TypeOK, Write
    <3>2. row[j].node = w.node /\ w.node \in up
      BY <2>2, <3>1 DEF WritesAreOfOwner
    <3> QED BY <2>2, <3>2 DEF Quiet
  <2>5. \A r \in Runs : ~AtWork(r, j)
    <3> SUFFICES ASSUME NEW r \in Runs, AtWork(r, j) PROVE FALSE
      OBVIOUS
    <3>1. run[r].node \in Nodes
      BY AtWorkTyped DEF AtWork
    <3> QED BY <2>2, <2>3, <3>1 DEF RunsAreBacked, Works
  <2>6. RowShape(j)'
    BY <2>1, <2>2 DEF RowShape
  <2>7. \A m \in Nodes : ~Works(m, j)'
    BY <1>1, <2>3 DEF Works
  <2> QED BY <1>1, <1>2, <1>4, <2>1, <2>2, <2>4, <2>5, <2>6, <2>7, UnservedStep
<1> QED BY <1>3, <1>4

\* The reaper: a row that is taken back is nobody's.
LEMMA ReapStep ==
  ASSUME TypeOK, TypeOK', NEW n \in Nodes, Reap(n), NEW k \in Jobs, JobInv(k)
  PROVE  JobInv(k)'
<1>1. UNCHANGED <<up, table, sub, home, writes, claimed, intents, taken, run, client>>
  BY DEF Reap, memory, claims, control, exec, faults
<1>2. \A r \in Runs : AtWork(r, k)' <=> AtWork(r, k)
  BY <1>1 DEF AtWork
<1>3. CASE ~Reapable(k)
  <2>1. row'[k] = row[k]
    BY <1>3 DEF Reap
  <2>2. Calm(k)
    BY <1>1, <1>2, <2>1 DEF Calm
  <2> QED BY <2>2, CalmStep
<1>4. CASE Reapable(k)
  <2>1. row'[k] = [row[k] EXCEPT !.status = "Pending", !.node = NoNode, !.beat = "none"]
    BY <1>4 DEF Reap
  <2>2. /\ row'[k].status = "Pending" /\ row'[k].node = NoNode /\ row'[k].beat = "none"
    BY <2>1 DEF TypeOK, Row
  <2>3. row[k].status # Absent /\ row[k].beat # "fresh" /\ row'[k].status # Absent
    BY <1>4, <2>2 DEF Reapable, Active, Absent
  <2>4. RowShape(k)'
    BY <2>2 DEF RowShape, Active
  <2>5. \A m \in Nodes : ~Works(m, k)'
    BY <1>1, <2>3, Unserved DEF Works
  <2> QED BY <1>1, <1>2, <2>2, <2>3, <2>4, <2>5, Unserved, UnservedStep
<1> QED BY <1>3, <1>4

\* A Pending row is stopped in the database.
LEMMA StopPendingStep ==
  ASSUME TypeOK, TypeOK', NEW c \in Clients, RouteStopPending(c), NEW k \in Jobs, JobInv(k)
  PROVE  JobInv(k)'
<1>1. UNCHANGED <<up, table, sub, home, writes, claimed, intents, taken, run>>
  BY DEF RouteStopPending, memory, claims, exec, faults
<1>2. \A r \in Runs : AtWork(r, k)' <=> AtWork(r, k)
  BY <1>1 DEF AtWork
<1>3. \A d \in Clients : client'[d].step \in {"archive", "drop"} => client'[d] = client[d]
  <2>1. client[c] \in Request /\ client[c].step = "stopPending"
    BY DEF RouteStopPending, TypeOK
  <2>2. client[c] \in [step : {"stopPending", "leave"}, node : Nodes, job : Jobs,
                       intent : Intent]
    BY <2>1 DEF Request, Idle
  <2>3. client'[c].step = "leave"
    BY <2>2 DEF RouteStopPending, TypeOK
  <2>4. \A d \in Clients : d # c => client'[d] = client[d]
    BY DEF RouteStopPending, TypeOK
  <2> QED BY <2>3, <2>4
<1>4. row' = [row EXCEPT ![client[c].job].status = IF @ = "Pending" THEN "Cancelled" ELSE @]
  BY DEF RouteStopPending
<1>5. row[k] \in Row
  BY DEF TypeOK
<1>6. CASE client[c].job = k /\ row[k].status = "Pending"
  <2>1. row'[k].status = "Cancelled" /\ row'[k].node = row[k].node
    BY <1>4, <1>5, <1>6 DEF TypeOK, Row
  <2>2. row[k].status # Absent /\ row[k].beat # "fresh" /\ row'[k].status # Absent
    BY <1>6, <2>1 DEF JobInv, RowShape, Absent
  <2>3. RowShape(k)'
    BY <2>1 DEF RowShape, Active, Absent
  <2>4. \A m \in Nodes : ~Works(m, k)'
    BY <1>1, <2>2, Unserved DEF Works
  <2> QED BY <1>1, <1>2, <1>3, <2>1, <2>2, <2>3, <2>4, Unserved, UnservedStep
<1>7. CASE ~(client[c].job = k /\ row[k].status = "Pending")
  <2>1. /\ row'[k].status = row[k].status /\ row'[k].node = row[k].node
        /\ row'[k].beat = row[k].beat
    BY <1>4, <1>5, <1>7 DEF TypeOK, Row
  <2>2. Calm(k)
    BY <1>1, <1>2, <1>3, <2>1 DEF Calm
  <2> QED BY <2>2, CalmStep
<1> QED BY <1>6, <1>7

\* archive() reaches the database: the row is gone.
LEMMA ArchiveStoreStep ==
  ASSUME TypeOK, TypeOK', NEW c \in Clients, ArchiveStore(c),
         row'[client[c].job] = NoRow, NEW k \in Jobs, JobInv(k)
  PROVE  JobInv(k)'
<1>1. /\ UNCHANGED <<up, table, sub, home, writes, claimed, intents, taken, run>>
      /\ row' = [row EXCEPT ![client[c].job] = NoRow]
      /\ client[c].step = "archive"
      /\ client' = [client EXCEPT ![c].step = "drop"]
  BY DEF ArchiveStore, memory, claims, exec, faults, TypeOK
<1>2. \A r \in Runs : AtWork(r, k)' <=> AtWork(r, k)
  BY <1>1 DEF AtWork
<1>3. /\ client'[c].step = "drop" /\ client'[c].job = client[c].job
      /\ \A d \in Clients : d # c => client'[d] = client[d]
  <2>1. client[c] \in [step : {"archive", "drop"}, node : Nodes, job : Jobs, intent : {"none"}]
    <3>1. client[c] \in Request
      BY DEF TypeOK
    <3> QED BY <1>1, <3>1 DEF Request, Idle
  <2> QED BY <1>1, <2>1 DEF TypeOK
<1>4. CASE client[c].job # k
  <2>1. row'[k] = row[k]
    BY <1>1, <1>4 DEF TypeOK
  <2>2. Calm(k)
    BY <1>1, <1>2, <1>3, <1>4, <2>1 DEF Calm
  <2> QED BY <2>2, CalmStep
<1>5. CASE client[c].job = k
  <2> USE DEF JobInv
  <2>1. /\ row'[k].status = Absent /\ row'[k].node = NoNode /\ row'[k].beat = "none"
    BY <1>1, <1>5 DEF TypeOK, NoRow
  <2>2. Inserted(k) /\ Inserted(k)'
    <3>1. Inserted(k)
      BY <1>1, <1>5 DEF ArchivesAreOfEnded
    <3> QED BY <1>1, <3>1 DEF Inserted
  <2>3. \A n \in Nodes : Works(n, k)' <=> Works(n, k)
    BY <1>1 DEF Works
  <2>4. NotBeforeSubmitted(k)'
    BY <1>1, <1>2, <2>1 DEF NotBeforeSubmitted
  <2>5. WritesAreOfOwner(k)'
    BY <1>1, <2>1, <2>2, <2>3 DEF WritesAreOfOwner, Inserted
  <2>6. RowShape(k)'
    BY <2>1 DEF RowShape, Active, Absent
  <2>7. WorkerIsOwner(k)'
    BY <1>1, <2>1, <2>3 DEF WorkerIsOwner
  <2>8. RunsAreBacked(k)'
    BY <1>1, <1>2, <2>1 DEF RunsAreBacked
  <2>9. ArchivesAreOfEnded(k)'
    BY <2>1, <2>2 DEF ArchivesAreOfEnded
  <2> QED BY <2>4, <2>5, <2>6, <2>7, <2>8, <2>9
<1> QED BY <1>4, <1>5

\* archive() removes the entry of a job whose row is gone.
LEMMA ArchiveDropStep ==
  ASSUME TypeOK, TypeOK', NEW c \in Clients, ArchiveDrop(c), NEW k \in Jobs, JobInv(k)
  PROVE  JobInv(k)'
<1> DEFINE n == client[c].node
           j == client[c].job
<1>1. n \in Nodes /\ j \in Jobs
  <2>1. client[c] \in [step : {"archive", "drop"}, node : Nodes, job : Jobs, intent : {"none"}]
    <3>1. client[c] \in Request /\ client[c].step = "drop"
      BY DEF ArchiveDrop, TypeOK
    <3> QED BY <3>1 DEF Request, Idle
  <2> QED BY <2>1
<1>2. /\ UNCHANGED <<up, sub, home, row, writes, claimed, intents, taken, run>>
      /\ client[c].step = "drop" /\ client' = [client EXCEPT ![c] = Idle]
      /\ SetEntry(n, j, Absent)
  BY DEF ArchiveDrop, database, claims, faults
<1>3. \A d \in Clients : client'[d].step \in {"archive", "drop"} => client'[d] = client[d]
  BY <1>2 DEF TypeOK, Idle
<1>4. \A r \in Runs : AtWork(r, k)' <=> AtWork(r, k)
  BY <1>2 DEF AtWork
<1> HIDE DEF n, j
<1>5. \A m \in Nodes : table'[m][k] = IF m = n /\ k = j THEN Absent ELSE table[m][k]
  BY <1>1, <1>2, Statuses, EntryUpdate DEF TypeOK
<1>6. CASE k # j
  <2>1. Calm(k)
    BY <1>2, <1>3, <1>4, <1>5, <1>6 DEF Calm
  <2> QED BY <2>1, CalmStep
<1>7. CASE k = j
  <2> USE DEF JobInv
  <2>1. row[k].status = Absent
    BY <1>2, <1>7 DEF ArchivesAreOfEnded, j
  <2>2. \A m \in Nodes : Works(m, k)' => Works(m, k)
    BY <1>2, <1>5 DEF Works, Active, Absent
  <2>3. NotBeforeSubmitted(k)'
    BY <1>2, <1>4, <1>5, <2>1 DEF NotBeforeSubmitted, Absent
  <2>4. WritesAreOfOwner(k)'
    BY <1>2, <2>2 DEF WritesAreOfOwner
  <2>5. RowShape(k)'
    BY <1>2 DEF RowShape
  <2>6. WorkerIsOwner(k)'
    BY <1>2, <1>5, <2>1, <2>2 DEF WorkerIsOwner, Active, Absent
  <2>7. RunsAreBacked(k)'
    <3> SUFFICES ASSUME NEW r \in Runs, AtWork(r, k)
                 PROVE  /\ run[r].node \in up
                        /\ \/ table'[run[r].node][k] \in Active
                           \/ row[k].status = Absent /\ table'[run[r].node][k] = Absent
                        /\ \A m \in Nodes : k \notin claimed[m]
                        /\ \A p \in Runs : AtWork(p, k) => p = r
      BY <1>2, <1>4 DEF RunsAreBacked
    <3>1. run[r].node \in Nodes
      BY AtWorkTyped DEF AtWork
    <3> QED BY <1>5, <2>1, <3>1 DEF RunsAreBacked
  <2>8. ArchivesAreOfEnded(k)'
    BY <1>2, <1>3 DEF ArchivesAreOfEnded, Inserted
  <2> QED BY <2>3, <2>4, <2>5, <2>6, <2>7, <2>8
<1> QED BY <1>6, <1>7

\* A write lands: an INSERT makes the row, an UPDATE is of its owner.
LEMMA LandStep ==
  ASSUME TypeOK, TypeOK', NEW w \in writes, Land(w), NEW k \in Jobs, JobInv(k)
  PROVE  JobInv(k)'
<1>1. /\ UNCHANGED <<up, table, sub, home, claimed, intents, taken, run, client>>
      /\ writes' = writes \ {w}
      /\ row' = [row EXCEPT ![w.job].status =
                  CASE w.op = "insert" /\ @ = Absent -> w.status
                    [] w.op = "update" /\ @ # Absent -> w.status
                    [] OTHER -> @]
  BY DEF Land, memory, claims, control, exec, faults
<1>2. w \in Write
  BY DEF TypeOK
<1>3. w.op \in {"insert", "update"} /\ w.job \in Jobs /\ w.status \in JobStatus
  BY <1>2 DEF Write
<1>4. \A r \in Runs : AtWork(r, k)' <=> AtWork(r, k)
  BY <1>1 DEF AtWork
<1>5. row[k] \in Row
  BY DEF TypeOK
<1> DEFINE lands == w.job = k /\ (w.op = "insert" <=> row[k].status = Absent)
<1>6. /\ row'[k].node = row[k].node /\ row'[k].beat = row[k].beat
      /\ row'[k].status = IF lands THEN w.status ELSE row[k].status
  <2>1. CASE w.job = k
    <3> DEFINE s == CASE w.op = "insert" /\ row[k].status = Absent -> w.status
                      [] w.op = "update" /\ row[k].status # Absent -> w.status
                      [] OTHER -> row[k].status
    <3>1. s = IF lands THEN w.status ELSE row[k].status
      BY <1>3, <2>1
    <3>2. row'[k] = [row[k] EXCEPT !.status = s]
      BY <1>1, <2>1 DEF TypeOK
    <3> HIDE DEF s, lands
    <3> QED BY <1>5, <3>1, <3>2 DEF Row
  <2>2. CASE w.job # k
    BY <1>1, <2>2 DEF TypeOK
  <2> QED BY <2>1, <2>2
<1> HIDE DEF lands
<1>7. CASE ~lands
  <2>1. Calm(k)
    BY <1>1, <1>4, <1>6, <1>7 DEF Calm
  <2> QED BY <2>1, CalmStep
<1>8. CASE lands
  <2> USE DEF JobInv
  <2>1. w.job = k /\ (w.op = "insert" <=> row[k].status = Absent)
    BY <1>8 DEF lands
  <2>2. row'[k].status = w.status /\ w.status # Absent
    BY <1>3, <1>6, <1>8 DEF JobStatus, Active, Terminal, Absent
  <2>3. CASE w.op = "insert"
    <3>1. /\ w.status = "Pending" /\ sub[k] = "inserting" /\ home[k] = w.node
          /\ row[k].status = Absent /\ row[k].node = NoNode /\ row[k].beat = "none"
      BY <2>1, <2>3 DEF WritesAreOfOwner, RowShape
    <3>2. ~Inserted(k)
      BY <2>1, <2>3 DEF Inserted
    <3>3. \A x \in writes' : x.job # k
      <4> SUFFICES ASSUME NEW x \in writes, x.job = k PROVE x = w
        BY <1>1
      <4>1. x \in Write
        BY DEF TypeOK
      <4>2. x.op = "insert" /\ x.status = "Pending" /\ x.node = home[k]
        BY <3>1, <4>1 DEF WritesAreOfOwner, Write
      <4> QED BY <1>2, <2>1, <2>3, <3>1, <4>1, <4>2 DEF Write
    <3>4. Inserted(k)'
      BY <1>1, <3>1, <3>3 DEF Inserted
    <3>5. NotBeforeSubmitted(k)'
      BY <1>1, <1>4, <1>6, <3>4 DEF NotBeforeSubmitted
    <3>6. \A n \in Nodes : ~Works(n, k)'
      BY <1>1, <3>1 DEF NotBeforeSubmitted, Works, Active, Absent
    <3>7. \A r \in Runs : ~AtWork(r, k)'
      BY <1>4, <3>1 DEF NotBeforeSubmitted
    <3>8. RowShape(k)'
      BY <1>6, <2>2, <3>1 DEF RowShape, Active
    <3>9. ArchivesAreOfEnded(k)'
      BY <1>1, <3>2, <3>4 DEF ArchivesAreOfEnded
    <3> QED BY <3>3, <3>5, <3>6, <3>7, <3>8, <3>9
            DEF WritesAreOfOwner, WorkerIsOwner, RunsAreBacked
  <2>4. CASE w.op = "update"
    <3>1. row[k].status # Absent
      BY <2>1, <2>4
    <3>2. /\ w.status # "Pending" /\ row[k].node = w.node /\ row[k].beat = "fresh"
          /\ w.status \in Terminal => \A n \in Nodes : ~Works(n, k)
      BY <2>1, <2>4, <3>1 DEF WritesAreOfOwner
    <3>3. w.status \in Active \cup Terminal /\ w.node \in Nodes
      BY <1>2, <1>3, <3>2 DEF JobStatus, Write
    <3>4. \A n \in Nodes : Works(n, k)' <=> Works(n, k)
      BY <1>1 DEF Works
    <3>5. Inserted(k) /\ Inserted(k)'
      BY <1>1, <3>1 DEF NotBeforeSubmitted, Inserted
    <3>6. NotBeforeSubmitted(k)'
      BY <1>1, <1>4, <1>6, <3>5 DEF NotBeforeSubmitted
    <3>7. WritesAreOfOwner(k)'
      BY <1>1, <1>6, <3>1, <3>4 DEF WritesAreOfOwner
    <3>8. RowShape(k)'
      BY <1>6, <2>2, <3>2, <3>3, ClusterAssumption DEF RowShape
    <3>9. WorkerIsOwner(k)'
      BY <1>1, <1>6, <2>2, <3>1, <3>2, <3>3, <3>4 DEF WorkerIsOwner
    <3>10. RunsAreBacked(k)'
      BY <1>1, <1>4, <3>1 DEF RunsAreBacked
    <3>11. ArchivesAreOfEnded(k)'
      BY <1>1, <3>1, <3>5 DEF ArchivesAreOfEnded
    <3> QED BY <3>6, <3>7, <3>8, <3>9, <3>10, <3>11
  <2> QED BY <1>3, <2>3, <2>4
<1> QED BY <1>7, <1>8

\* A node crashes: its entries, claims, executions and writes go with it.
LEMMA CrashStep ==
  ASSUME TypeOK, TypeOK', NEW n \in Nodes, Crash(n), NEW k \in Jobs, JobInv(k)
  PROVE  JobInv(k)'
<1> USE DEF JobInv
<1>1. /\ up' = up \ {n} /\ UNCHANGED row
      /\ writes' = {w \in writes : w.node # n}
      /\ home'[k] = IF home[k] = n THEN NoNode ELSE home[k]
      /\ sub'[k] = IF home[k] = n THEN "done" ELSE sub[k]
  BY DEF Crash, TypeOK
<1>2. \A m \in Nodes :
        /\ table'[m][k] = IF m = n THEN Absent ELSE table[m][k]
        /\ k \in claimed'[m] <=> m # n /\ k \in claimed[m]
        /\ \A i \in Intent : <<k, i>> \in intents'[m] \cup taken'[m] =>
             <<k, i>> \in intents[m] \cup taken[m]
  BY DEF Crash, TypeOK
<1>3. \A m \in Nodes : Works(m, k)' <=> m # n /\ Works(m, k)
  BY <1>2 DEF Works, Active, Absent
<1>4. \A r \in Runs : AtWork(r, k)' => /\ AtWork(r, k)
                                       /\ run'[r].node = run[r].node /\ run[r].node # n
  <2> SUFFICES ASSUME NEW r \in Runs, AtWork(r, k)'
               PROVE  AtWork(r, k) /\ run'[r].node = run[r].node /\ run[r].node # n
    OBVIOUS
  <2>1. run'[r] = IF run[r].node = n THEN Over ELSE run[r]
    BY DEF Crash
  <2> QED BY <2>1 DEF AtWork, Over, NoRun
<1>5. \A c \in Clients :
        client'[c].step \in {"archive", "drop"} => client'[c] = client[c]
  BY DEF Crash, Idle
<1>6. Inserted(k) => Inserted(k)'
  BY <1>1 DEF Inserted
<1>7. NotBeforeSubmitted(k)'
  <2>1. sub'[k] = "inserting" => home'[k] \in Nodes
    BY <1>1 DEF NotBeforeSubmitted
  <2>2. \A m \in Nodes : table'[m][k] = "Pending" => sub'[k] = "inserting" /\ home'[k] = m
    BY <1>1, <1>2 DEF NotBeforeSubmitted, Absent
  <2>3. sub'[k] # "done" =>
          /\ \A m \in Nodes : table'[m][k] \in {Absent, "Pending"} /\ k \notin claimed'[m]
          /\ \A r \in Runs : ~AtWork(r, k)'
    BY <1>1, <1>2, <1>4 DEF NotBeforeSubmitted
  <2>4. /\ row'[k].status # Absent => Inserted(k)'
        /\ row'[k].node # NoNode => sub'[k] = "done"
        /\ \A m \in Nodes, i \in Intent :
             <<k, i>> \in intents'[m] \cup taken'[m] => sub'[k] = "done"
    BY <1>1, <1>2, <1>6 DEF NotBeforeSubmitted
  <2> QED BY <2>1, <2>2, <2>3, <2>4 DEF NotBeforeSubmitted
<1>8. WritesAreOfOwner(k)'
  BY <1>1, <1>3 DEF WritesAreOfOwner
<1>9. RowShape(k)'
  BY <1>1 DEF RowShape
<1>10. WorkerIsOwner(k)'
  BY <1>1, <1>2, <1>3 DEF WorkerIsOwner
<1>11. RunsAreBacked(k)'
  <2> SUFFICES ASSUME NEW r \in Runs, AtWork(r, k)'
               PROVE  /\ run'[r].node \in up'
                      /\ \/ table'[run'[r].node][k] \in Active
                         \/ row'[k].status = Absent /\ table'[run'[r].node][k] = Absent
                      /\ \A m \in Nodes : k \notin claimed'[m]
                      /\ \A p \in Runs : AtWork(p, k)' => p = r
    BY DEF RunsAreBacked
  <2>1. run[r].node \in Nodes
    BY <1>4, AtWorkTyped DEF AtWork
  <2> QED BY <1>1, <1>2, <1>4, <2>1 DEF RunsAreBacked
<1>12. ArchivesAreOfEnded(k)'
  BY <1>1, <1>5, <1>6 DEF ArchivesAreOfEnded
<1> QED BY <1>7, <1>8, <1>9, <1>10, <1>11, <1>12

-----------------------------------------------------------------------------
(* The invariant, and what it means.                                       *)

\* Every step keeps the inductive invariant.
LEMMA IndInvStep ==
  ASSUME IndInv, [Undisturbed /\ Next]_vars
  PROVE  IndInv'
<1>1. TypeOK /\ \A j \in Jobs : JobInv(j)
  BY DEF IndInv
<1>2. TypeOK'
  BY <1>1, TypeStep
<1> SUFFICES ASSUME NEW k \in Jobs PROVE JobInv(k)'
  BY <1>2 DEF IndInv
<1>0. CASE UNCHANGED vars
  BY <1>1, <1>2, <1>0, CalmLoops, CalmStep
<1> SUFFICES ASSUME Undisturbed PROVE JobInv(k)'
  BY <1>0
<1>3. ASSUME NEW n \in Nodes, ClaimNext(n) PROVE JobInv(k)'
  <2>1. CASE ClaimAsk(n)
    BY <1>1, <1>2, <2>1, CalmLoops, CalmStep
  <2>2. CASE ClaimRows(n) \/ ClaimFails(n)
    <3>1. sub[k] = "inserting" => row'[k] = row[k]
      BY <2>2 DEF Undisturbed
    <3> QED BY <1>1, <1>2, <2>2, <3>1, ClaimStep
  <2>3. ASSUME NEW j \in Jobs, NEW r \in Runs, RunClaimed(n, j, r) PROVE JobInv(k)'
    BY <1>1, <1>2, <2>3, RunClaimedStep
  <2> QED BY <1>3, <2>1, <2>2, <2>3 DEF ClaimNext
<1>4. ASSUME NEW n \in Nodes, ControlNext(n) PROVE JobInv(k)'
  <2>1. CASE TakeRead(n) \/ TakeClear(n)
    BY <1>1, <1>2, <2>1, CalmIntents, CalmStep
  <2>2. ASSUME NEW j \in Jobs, NEW i \in Intent, Consume(n, j, i) PROVE JobInv(k)'
    <3>1. LocalRequest(n, j) => sub[j] # "inserting"
      BY DEF Undisturbed
    <3>2. Calm(k)
      BY <1>1, <2>2, <3>1, CalmRequests
    <3> QED BY <1>1, <1>2, <3>2, CalmStep
  <2> QED BY <1>4, <2>1, <2>2 DEF ControlNext
<1>5. ASSUME NEW n \in Nodes, Heartbeat(n) PROVE JobInv(k)'
  BY <1>1, <1>2, <1>5, CalmHeartbeat, CalmStep
<1>6. ASSUME NEW n \in Nodes, Reap(n) PROVE JobInv(k)'
  BY <1>1, <1>2, <1>6, ReapStep
<1>7. ASSUME NEW n \in Nodes, Crash(n) PROVE JobInv(k)'
  BY <1>1, <1>2, <1>7, CrashStep
<1>8. ASSUME NEW n \in Nodes, Return(n) PROVE JobInv(k)'
  BY <1>1, <1>2, <1>8, CalmLoops, CalmStep
<1>9. ASSUME NEW n \in Nodes, NEW j \in Jobs, Submit(n, j) PROVE JobInv(k)'
  BY <1>1, <1>2, <1>9, SubmitStep
<1>10. ASSUME NEW n \in Nodes, NEW j \in Jobs, LocalRequest(n, j) PROVE JobInv(k)'
  <2>1. sub[j] # "inserting"
    BY <1>10 DEF Undisturbed
  <2>2. Calm(k)
    BY <1>1, <1>10, <2>1, CalmRequests
  <2> QED BY <1>1, <1>2, <2>2, CalmStep
<1>11. ASSUME NEW j \in Jobs, SubmitInserted(j) PROVE JobInv(k)'
  BY <1>1, <1>2, <1>11, SubmitInsertedStep
<1>12. ASSUME NEW j \in Jobs, Expire(j) PROVE JobInv(k)'
  <2>1. Quiet(j)
    BY <1>12 DEF Undisturbed
  <2> QED BY <1>1, <1>2, <1>12, <2>1, ExpireStep
<1>13. ASSUME NEW r \in Runs, RunNext(r) PROVE JobInv(k)'
  <2>1. CASE Enter(r)
    BY <1>1, <1>2, <2>1, CalmLoops, CalmStep
  <2>2. CASE CheckpointPause(r) \/ Wake(r) \/ Sample(r)
    <3>1. JobInv(run[r].job)
      <4>1. run[r].job \in Jobs
        BY <1>1, <2>2, AtWorkTyped DEF CheckpointPause, Wake, Sample
      <4> QED BY <1>1, <4>1
    <3>2. Calm(k)
      BY <1>1, <2>2, <3>1, CalmRuns
    <3> QED BY <1>1, <1>2, <3>2, CalmStep
  <2>3. CASE RunEnd(r)
    BY <1>1, <1>2, <2>3, RunEndStep
  <2> QED BY <1>13, <2>1, <2>2, <2>3 DEF RunNext
<1>14. ASSUME NEW c \in Clients, ClientNext(c) PROVE JobInv(k)'
  <2>1. CASE \/ \E n \in Nodes, j \in Jobs : RouteRead(c, n, j) \/ ArchiveRead(c, n, j)
             \/ RouteLeave(c)
    <3>1. Calm(k)
      BY <1>1, <2>1, CalmClients
    <3> QED BY <1>1, <1>2, <3>1, CalmStep
  <2>2. CASE RouteStopPending(c)
    BY <1>1, <1>2, <2>2, StopPendingStep
  <2>3. CASE ArchiveStore(c)
    <3>1. row'[client[c].job] = NoRow
      BY <2>3 DEF Undisturbed
    <3> QED BY <1>1, <1>2, <2>3, <3>1, ArchiveStoreStep
  <2>4. CASE ArchiveDrop(c)
    BY <1>1, <1>2, <2>4, ArchiveDropStep
  <2> QED BY <1>14, <2>1, <2>2, <2>3, <2>4 DEF ClientNext
<1>15. ASSUME NEW w \in writes, Land(w) PROVE JobInv(k)'
  BY <1>1, <1>2, <1>15, LandStep
<1>16. ASSUME NEW w \in writes, Lose(w) PROVE JobInv(k)'
  BY <1>1, <1>2, <1>16, CalmLoops, CalmStep
<1> QED BY <1>0, <1>3, <1>4, <1>5, <1>6, <1>7, <1>8, <1>9, <1>10, <1>11, <1>12, <1>13, <1>14,
           <1>15, <1>16 DEF Next

\* Row, tables, claims, executions and writes of all nodes agree at any time
\* in an execution that takes none of the four steps.
THEOREM Invariance ==
  Spec /\ [][Undisturbed]_vars => []IndInv
<1>1. Init => IndInv
  <2> SUFFICES ASSUME Init PROVE IndInv
    OBVIOUS
  <2>1. TypeOK
    <3>1. NoRow \in Row
      BY Statuses DEF Row, NoRow
    <3> QED BY <3>1, Statuses, ClusterAssumption DEF Init, TypeOK, Run, Control, Request
  <2> SUFFICES ASSUME NEW j \in Jobs PROVE JobInv(j)
    BY <2>1 DEF IndInv
  <2>2. /\ row[j].status = Absent /\ row[j].node = NoNode /\ row[j].beat = "none"
        /\ \A n \in Nodes : /\ table[n][j] = Absent /\ j \notin claimed[n]
                            /\ intents[n] = {} /\ taken[n] = {}
        /\ sub[j] = "new" /\ writes = {}
        /\ \A r \in Runs : ~AtWork(r, j)
        /\ \A c \in Clients : client[c].step = "idle"
    BY DEF Init, NoRow, NoRun, Idle, AtWork
  <2>3. \A n \in Nodes : ~Works(n, j)
    BY <2>2 DEF Works, Active, Absent
  <2>4. NotBeforeSubmitted(j) /\ WritesAreOfOwner(j)
    BY <2>2 DEF NotBeforeSubmitted, WritesAreOfOwner, Absent
  <2>5. RowShape(j) /\ WorkerIsOwner(j) /\ RunsAreBacked(j) /\ ArchivesAreOfEnded(j)
    BY <2>2, <2>3 DEF RowShape, WorkerIsOwner, RunsAreBacked, ArchivesAreOfEnded, Active, Absent
  <2> QED BY <2>4, <2>5 DEF JobInv
<1>2. IndInv /\ [Undisturbed /\ Next]_vars => IndInv'
  BY IndInvStep
<1>3. [Next]_vars /\ [Undisturbed]_vars => [Undisturbed /\ Next]_vars
  OBVIOUS
<1> QED BY <1>1, <1>2, <1>3, PTL DEF Spec

\* At most one node shows a job as active, unless one of the four steps is
\* taken.
THEOREM OneOwner ==
  Spec /\ [][Undisturbed]_vars => []OneActiveOwner
<1>1. IndInv => OneActiveOwner
  BY DEF IndInv, JobInv, WorkerIsOwner, Works, OneActiveOwner
<1> QED BY <1>1, Invariance, PTL

\* A node that shows a job as active owns its row while that has not ended,
\* unless one of the four steps is taken.
THEOREM OwnersAreKnown ==
  Spec /\ [][Undisturbed]_vars => []OwnerKnown
<1>1. IndInv => OwnerKnown
  BY DEF IndInv, JobInv, WorkerIsOwner, Works, OwnerKnown, Live, Active, Absent
<1> QED BY <1>1, Invariance, PTL

\* No active row is left without an owner and a heartbeat, so that the reaper
\* of some node can always take it back, unless one of the four steps is taken.
THEOREM ActiveRowsAreOwned ==
  Spec /\ [][Undisturbed]_vars => []ActiveRowIsOwned
<1>1. IndInv => ActiveRowIsOwned
  BY DEF IndInv, JobInv, RowShape, ActiveRowIsOwned
<1> QED BY <1>1, Invariance, PTL

\* The four steps are the only ways to two handlers at work for one job:
\* without them there are never two, whatever is claimed, reaped, stopped,
\* archived, lost or crashed.
THEOREM NoDoubleRun ==
  Spec /\ [][Undisturbed]_vars => []NoDoubleExecution
<1>1. IndInv => NoDoubleExecution
  <2> SUFFICES ASSUME IndInv, NEW p \in Runs, NEW r \in Runs, p # r,
                      run[p].pc \in {"running", "suspended"},
                      run[r].pc \in {"running", "suspended"},
                      run[p].job = run[r].job
               PROVE  FALSE
    BY DEF NoDoubleExecution
  <2>1. run[p].job \in Jobs /\ AtWork(p, run[p].job) /\ AtWork(r, run[p].job)
    BY AtWorkTyped DEF IndInv, AtWork
  <2> QED BY <2>1 DEF IndInv, JobInv, RunsAreBacked
<1> QED BY <1>1, Invariance, PTL

-----------------------------------------------------------------------------
(* What survives all four steps: an archived row stays gone.               *)

\* An INSERT on its way has a submit() of its node waiting for it, whatever
\* is late, lost or killed.
LEMMA Awaited == Spec => []InsertsAreAwaited
<1> USE DEF database, memory, claims, control, exec, faults
<1>1. Init => InsertsAreAwaited
  BY DEF Init, InsertsAreAwaited
<1>2. ASSUME TypeOK, InsertsAreAwaited, [Next]_vars
      PROVE  InsertsAreAwaited'
  <2> SUFFICES ASSUME NEW w \in writes', w.op = "insert"
               PROVE  sub'[w.job] = "inserting" /\ home'[w.job] = w.node
    BY DEF InsertsAreAwaited
  <2>1. CASE w \in writes /\ UNCHANGED <<sub, home>>
    BY <1>2, <2>1 DEF InsertsAreAwaited
  <2>2. ASSUME NEW n \in Nodes, NEW j \in Jobs, Submit(n, j)
        PROVE  sub'[w.job] = "inserting" /\ home'[w.job] = w.node
    <3>1. sub[j] = "new" /\ sub'[j] = "inserting" /\ home'[j] = n
      BY <1>2, <2>2 DEF Submit, TypeOK
    <3>2. \A k \in Jobs : k # j => sub'[k] = sub[k] /\ home'[k] = home[k]
      BY <1>2, <2>2 DEF Submit, TypeOK
    <3>3. w \in writes \/ (w.job = j /\ w.node = n)
      BY <2>2 DEF Submit
    <3>4. CASE w \in writes
      BY <1>2, <3>1, <3>2, <3>4 DEF InsertsAreAwaited, TypeOK, Write
    <3> QED BY <3>1, <3>3, <3>4
  <2>3. ASSUME NEW j \in Jobs, SubmitInserted(j)
        PROVE  sub'[w.job] = "inserting" /\ home'[w.job] = w.node
    <3>1. w \in writes /\ w.job # j
      BY <2>3 DEF SubmitInserted
    <3>2. \A k \in Jobs : k # j => sub'[k] = sub[k] /\ home'[k] = home[k]
      BY <1>2, <2>3 DEF SubmitInserted, TypeOK
    <3> QED BY <1>2, <3>1, <3>2 DEF InsertsAreAwaited, TypeOK, Write
  <2>4. ASSUME NEW n \in Nodes, Crash(n)
        PROVE  sub'[w.job] = "inserting" /\ home'[w.job] = w.node
    <3>1. w \in writes /\ w.node # n
      BY <2>4 DEF Crash
    <3>2. home[w.job] = w.node /\ sub[w.job] = "inserting" /\ w.job \in Jobs
      BY <1>2, <3>1 DEF InsertsAreAwaited, TypeOK, Write
    <3> QED BY <2>4, <3>1, <3>2 DEF Crash
  <2>5. ASSUME NEW n \in Nodes, ClaimNext(n) \/ Heartbeat(n) \/ Reap(n) \/ Return(n)
        PROVE  w \in writes /\ UNCHANGED <<sub, home>>
    BY <2>5 DEF ClaimNext, ClaimAsk, ClaimRows, ClaimFails, RunClaimed, Heartbeat, Reap, Return
  <2>6. ASSUME NEW n \in Nodes, NEW j \in Jobs,
               LocalRequest(n, j) \/ \E i \in Intent : Consume(n, j, i)
        PROVE  w \in writes /\ UNCHANGED <<sub, home>>
    <3>1. \/ writes' = writes
          \/ Persist(n, j, "Cancelled") \/ Persist(n, j, "Cancelling")
      <4>1. CASE LocalRequest(n, j)
        <5>1. CASE CancelLocal(n, j)
          BY <5>1, Zenon DEF CancelLocal
        <5> QED BY <4>1, <5>1 DEF LocalRequest, PauseLocal, ResumeLocal
      <4>2. ASSUME NEW i \in Intent, Consume(n, j, i)
            PROVE  writes' = writes \/ Persist(n, j, "Cancelling")
        BY <4>2, Zenon DEF Consume, Intent
      <4> QED BY <2>6, <4>1, <4>2
    <3>2. UNCHANGED <<sub, home>>
      BY <2>6 DEF LocalRequest, Consume
    <3> QED BY <3>1, <3>2 DEF Persist
  <2>10. ASSUME NEW n \in Nodes, TakeRead(n) \/ TakeClear(n)
        PROVE  w \in writes /\ UNCHANGED <<sub, home>>
    BY <2>10 DEF TakeRead, TakeClear
  <2>7. ASSUME NEW r \in Runs, RunNext(r)
        PROVE  w \in writes /\ UNCHANGED <<sub, home>>
    BY <2>7 DEF RunNext, Enter, CheckpointPause, Wake, RunEnd, Sample, Persist
  <2>8. ASSUME NEW c \in Clients, ClientNext(c)
        PROVE  w \in writes /\ UNCHANGED <<sub, home>>
    BY <2>8 DEF ClientNext, RouteRead, ArchiveRead, RouteStopPending, RouteLeave,
                ArchiveStore, ArchiveDrop
  <2>9. CASE \/ \E j \in Jobs : Expire(j)
             \/ \E v \in writes : Land(v) \/ Lose(v)
             \/ UNCHANGED vars
    BY <2>1, <2>9 DEF Expire, Land, Lose, vars
  <2> QED BY <1>2, <2>1, <2>2, <2>3, <2>4, <2>5, <2>6, <2>7, <2>8, <2>9, <2>10
          DEF Next, ControlNext
<1> QED BY <1>1, <1>2, TypeCorrectness, PTL DEF Spec

\* A row that has left the table after its submission never comes back: no
\* update, claim, heartbeat, reaper or intent makes a row of nothing, and the
\* INSERT has been awaited before.
THEOREM ArchivedForGood == Spec => ArchivedStaysGone
<1> USE DEF database, memory, claims, control, exec, faults
<1>1. ASSUME TypeOK, InsertsAreAwaited, [Next]_vars, NEW j \in Jobs,
             sub[j] = "done", row[j].status = Absent
      PROVE  row'[j].status = Absent
  <2> USE <1>1
  <2>0. row \in [Jobs -> Row] /\ row[j] \in Row
    BY DEF TypeOK
  <2>1. CASE row' = row
    BY <2>1
  <2>2. ASSUME NEW n \in Nodes, ClaimRows(n) \/ ClaimFails(n) PROVE row'[j].status = Absent
    BY <2>2 DEF ClaimRows, ClaimFails, Granted, Claimable, Absent
  <2>3. ASSUME NEW n \in Nodes, Heartbeat(n) \/ Reap(n) PROVE row'[j].status = Absent
    BY <2>3 DEF Heartbeat, Reap, Beats, Reapable, Active, Absent
  <2>4. ASSUME NEW n \in Nodes, TakeClear(n) PROVE row'[j].status = Absent
    BY <2>0, <2>4 DEF TakeClear, Row
  <2>5. ASSUME NEW k \in Jobs, Expire(k) PROVE row'[j].status = Absent
    <3>1. [row[j] EXCEPT !.beat = "stale"].status = row[j].status
      BY <2>0 DEF Row
    <3> QED BY <2>0, <2>5, <3>1 DEF Expire
  <2>6. ASSUME NEW c \in Clients, ClientNext(c) PROVE row'[j].status = Absent
    <3>1. CASE ArchiveStore(c)
      <4>1. row' = row \/ row' = [row EXCEPT ![client[c].job] = NoRow]
        BY <3>1 DEF ArchiveStore
      <4> QED BY <2>0, <4>1 DEF NoRow
    <3>2. CASE RouteStopPending(c)
      BY <2>0, <3>2 DEF RouteStopPending, Row, Absent
    <3>3. CASE RouteLeave(c)
      BY <2>0, <3>3 DEF RouteLeave, Row
    <3> QED BY <2>6, <3>1, <3>2, <3>3 DEF ClientNext, RouteRead, ArchiveRead, ArchiveDrop
  <2>7. ASSUME NEW w \in writes, Land(w) PROVE row'[j].status = Absent
    <3>1. w.op = "insert" => w.job # j
      BY DEF InsertsAreAwaited
    <3>2. w.op \in {"insert", "update"}
      BY DEF TypeOK, Write
    <3> QED BY <2>0, <2>7, <3>1, <3>2 DEF Land, Row
  <2>8. ASSUME NEW n \in Nodes,
               \/ ClaimAsk(n) \/ TakeRead(n) \/ Crash(n) \/ Return(n)
               \/ \E k \in Jobs : \/ Submit(n, k) \/ LocalRequest(n, k)
                                  \/ \E r \in Runs : RunClaimed(n, k, r)
                                  \/ \E i \in Intent : Consume(n, k, i)
        PROVE  row' = row
    BY <2>8 DEF ClaimAsk, TakeRead, Crash, Return, Submit, LocalRequest, RunClaimed, Consume
  <2>9. CASE \/ \E k \in Jobs : SubmitInserted(k)
             \/ \E r \in Runs : RunNext(r)
             \/ \E w \in writes : Lose(w)
             \/ UNCHANGED vars
    BY <2>9 DEF SubmitInserted, RunNext, Enter, CheckpointPause, Wake, RunEnd, Sample, Lose, vars
  <2> QED BY <2>1, <2>2, <2>3, <2>4, <2>5, <2>6, <2>7, <2>8, <2>9
          DEF Next, ClaimNext, ControlNext
<1>2. TypeOK /\ InsertsAreAwaited /\ [Next]_vars =>
        \A j \in Jobs : sub[j] = "done" /\ row[j].status = Absent => row'[j].status = Absent
  BY <1>1
<1> QED BY <1>2, TypeCorrectness, Awaited, PTL DEF Spec, ArchivedStaysGone

-----------------------------------------------------------------------------
(* The nodes implement JobLease.  With IndInv before and after the step,   *)
(* every step of JobCluster is of one of three kinds for a job: its row    *)
(* keeps its status, and nobody begins to work at it (Steady); its row     *)
(* changes, and whoever works at it goes on (Moved, by RowMoves); or it is *)
(* claimed.                                                                *)

-----------------------------------------------------------------------------
(* The holder and the phase of a job.                                      *)

\* One step of the lease, for job j.
LeaseMove(j) ==
  \/ Phase(j) = "new" /\ Phase(j)' = "waiting" /\ Holder(j) = NoNode /\ Holder(j)' = NoNode
  \/ /\ Phase(j) = "waiting" /\ Phase(j)' = "taken"
     /\ Holder(j) = NoNode /\ Holder(j)' \in Nodes \cup {NoNode}
  \/ Phase(j)' = Phase(j) /\ Holder(j)' \in {NoNode, Holder(j)}
  \/ Phase(j) = "taken" /\ Phase(j)' = "waiting" /\ Holder(j) = NoNode /\ Holder(j)' = NoNode
  \/ /\ Phase(j) \in {"waiting", "taken"} /\ Phase(j)' = "ended"
     /\ Holder(j) = NoNode /\ Holder(j)' = NoNode
  \/ Phase(j) = "ended" /\ Phase(j)' = "taken" /\ Holder(j) = NoNode /\ Holder(j)' = NoNode
  \/ Phase(j)' = "gone" /\ Holder(j)' = Holder(j)

LEMMA LeaseMoves ==
  ASSUME \A j \in Jobs : LeaseMove(j)
  PROVE  Lease!Next
<1> SUFFICES ASSUME NEW j \in Jobs
             PROVE  \/ Lease!Insert(j) \/ Lease!Take(j) \/ Lease!Leave(j) \/ Lease!Requeue(j)
                    \/ Lease!End(j) \/ Lease!Revive(j) \/ Lease!Forget(j) \/ Lease!Stay(j)
  BY DEF Lease!Next
<1>1. /\ [i \in Jobs |-> Holder(i)][j] = Holder(j)
      /\ [i \in Jobs |-> Holder(i)]'[j] = Holder(j)'
      /\ [i \in Jobs |-> Phase(i)][j] = Phase(j)
      /\ [i \in Jobs |-> Phase(i)]'[j] = Phase(j)'
  OBVIOUS
<1>2. LeaseMove(j)
  OBVIOUS
<1> QED BY <1>1, <1>2 DEF LeaseMove, Lease!Insert, Lease!Take, Lease!Leave, Lease!Requeue,
       Lease!End, Lease!Revive, Lease!Forget, Lease!Stay, Lease!Moves, Lease!Free, Lease!Holds

\* The holder is the node that works at the job, if any does.
LEMMA Holders ==
  ASSUME NEW j \in Jobs, WorkerIsOwner(j), WorkerIsOwner(j)'
  PROVE  /\ (\A n \in Nodes : ~Works(n, j)) => Holder(j) = NoNode
         /\ (\A n \in Nodes : ~Works(n, j)') => Holder(j)' = NoNode
         /\ \A n \in Nodes : Works(n, j) => Holder(j) = n
         /\ \A n \in Nodes : Works(n, j)' => Holder(j)' = n
<1>1. \A m, n \in Nodes : Works(m, j) /\ Works(n, j) => m = n
  BY DEF WorkerIsOwner
<1>2. \A m, n \in Nodes : Works(m, j)' /\ Works(n, j)' => m = n
  BY DEF WorkerIsOwner
<1>3. \A n \in Nodes : Works(n, j) => Holder(j) = n
  BY <1>1 DEF Holder
<1>4. \A n \in Nodes : Works(n, j)' => Holder(j)' = n
  BY <1>2 DEF Holder
<1> QED BY <1>3, <1>4 DEF Holder

\* The phase follows the row.
LEMMA Phases ==
  ASSUME NEW j \in Jobs
  PROVE  /\ row[j].status = Absent /\ ~Inserted(j) => Phase(j) = "new"
         /\ row[j].status = Absent /\ Inserted(j) => Phase(j) = "gone"
         /\ row[j].status = "Pending" => Phase(j) = "waiting"
         /\ row[j].status \in Active => Phase(j) = "taken"
         /\ row[j].status \in Terminal => Phase(j) = "ended"
         /\ row'[j].status = Absent /\ Inserted(j)' => Phase(j)' = "gone"
         /\ row'[j].status = "Pending" => Phase(j)' = "waiting"
         /\ row'[j].status \in Active => Phase(j)' = "taken"
         /\ row'[j].status \in Terminal => Phase(j)' = "ended"
         /\ row'[j].status = row[j].status /\ (Inserted(j)' <=> Inserted(j)) =>
              Phase(j)' = Phase(j)
BY DEF Phase, Active, Terminal, Absent

\* A job whose row is still to come is nobody's.
LEMMA NewIsFree ==
  ASSUME TypeOK, NEW j \in Jobs, JobInv(j), ~Inserted(j)
  PROVE  /\ \A n \in Nodes : ~Works(n, j)
         /\ row[j].status = Absent
<1>1. sub[j] # "done"
  BY DEF JobInv, WritesAreOfOwner, Inserted
<1> QED BY <1>1 DEF JobInv, NotBeforeSubmitted, Works, Active, Absent

-----------------------------------------------------------------------------
(* The kinds of steps.                                                     *)

\* The row of job j keeps its status and nobody begins to work at j.
Steady(j) ==
  /\ row'[j].status = row[j].status
  /\ \A n \in Nodes : Works(n, j)' => Works(n, j)
  /\ Inserted(j) => Inserted(j)'

LEMMA SteadyMove ==
  ASSUME TypeOK, TypeOK', NEW j \in Jobs, JobInv(j), JobInv(j)', Steady(j)
  PROVE  LeaseMove(j)
<1> USE DEF JobInv
<1>1. Holder(j)' \in {NoNode, Holder(j)}
  BY Holders DEF Steady
<1>2. CASE Phase(j)' = Phase(j)
  BY <1>1, <1>2 DEF LeaseMove
<1>3. CASE Phase(j)' # Phase(j)
  <2>1. ~Inserted(j) /\ Inserted(j)' /\ row'[j].status = Absent
    BY <1>3, NewIsFree, Phases DEF Steady
  <2>2. Phase(j)' = "gone"
    BY <2>1, Phases
  <2>3. \A n \in Nodes : ~Works(n, j) /\ ~Works(n, j)'
    BY <2>1, NewIsFree DEF Steady
  <2>4. Holder(j)' = Holder(j)
    BY <2>3, Holders
  <2> QED BY <2>2, <2>4 DEF LeaseMove
<1> QED BY <1>2, <1>3

\* The status of the row of job j changes and whoever works at j goes on.
RowMoves(j) ==
  /\ \A n \in Nodes : Works(n, j)' <=> Works(n, j)
  /\ Inserted(j) => Inserted(j)'
  /\ \/ row[j].status = Absent /\ row'[j].status = "Pending" /\ ~Inserted(j)
     \/ row[j].status # Absent /\ row'[j].status = Absent
     \/ row[j].status \in Active /\ row'[j].status \in Active \cup Terminal \cup {"Pending"}
     \/ row[j].status = "Pending" /\ row'[j].status \in Terminal
     \/ row[j].status \in Terminal /\ row'[j].status \in Active \cup Terminal

LEMMA RowMove ==
  ASSUME TypeOK, TypeOK', NEW j \in Jobs, JobInv(j), JobInv(j)', RowMoves(j)
  PROVE  LeaseMove(j)
<1> USE DEF JobInv
<1>1. Holder(j)' = Holder(j)
  <2>1. CASE \E n \in Nodes : Works(n, j)
    BY <2>1, Holders DEF RowMoves
  <2>2. CASE \A n \in Nodes : ~Works(n, j)
    BY <2>2, Holders DEF RowMoves
  <2> QED BY <2>1, <2>2
<1>2. row[j].status \in {"Pending"} \cup Terminal \/ row'[j].status \in {"Pending"} \cup Terminal
        => Holder(j) = NoNode
  <2>1. row[j].status \in {"Pending"} \cup Terminal => \A n \in Nodes : ~Works(n, j)
    BY DEF WorkerIsOwner, Terminal, Active, Absent
  <2>2. row'[j].status \in {"Pending"} \cup Terminal => \A n \in Nodes : ~Works(n, j)'
    BY DEF WorkerIsOwner, Terminal, Active, Absent
  <2> QED BY <1>1, <2>1, <2>2, Holders
<1>3. CASE row[j].status = Absent /\ row'[j].status = "Pending" /\ ~Inserted(j)
  BY <1>1, <1>2, <1>3, Phases DEF LeaseMove
<1>4. CASE row[j].status # Absent /\ row'[j].status = Absent
  <2>1. Inserted(j)'
    BY <1>4 DEF NotBeforeSubmitted, RowMoves
  <2> QED BY <1>1, <1>4, <2>1, Phases DEF LeaseMove
<1>5. CASE row[j].status \in Active /\ row'[j].status \in Active \cup Terminal \cup {"Pending"}
  <2>1. Phase(j) = "taken"
    BY <1>5, Phases
  <2>2. CASE row'[j].status \in Active
    BY <1>1, <2>1, <2>2, Phases DEF LeaseMove
  <2>3. CASE row'[j].status \in Terminal
    BY <1>1, <1>2, <2>1, <2>3, Phases DEF LeaseMove
  <2>4. CASE row'[j].status = "Pending"
    BY <1>1, <1>2, <2>1, <2>4, Phases DEF LeaseMove
  <2> QED BY <1>5, <2>2, <2>3, <2>4
<1>6. CASE row[j].status = "Pending" /\ row'[j].status \in Terminal
  BY <1>1, <1>2, <1>6, Phases DEF LeaseMove
<1>7. CASE row[j].status \in Terminal /\ row'[j].status \in Active \cup Terminal
  <2>1. Phase(j) = "ended" /\ Holder(j) = NoNode
    BY <1>2, <1>7, Phases
  <2>2. Phase(j)' \in {"taken", "ended"}
    BY <1>7, Phases
  <2> QED BY <1>1, <2>1, <2>2 DEF LeaseMove
<1> QED BY <1>3, <1>4, <1>5, <1>6, <1>7 DEF RowMoves

-----------------------------------------------------------------------------
(* The steps of JobCluster.                                                *)

\* What is calm for the owner of a job is steady for its lease.
LEMMA CalmIsSteady ==
  ASSUME NEW j \in Jobs, Calm(j)
  PROVE  Steady(j)
BY DEF Calm, Steady, Works, Inserted

\* submit(), from its first step to its last.
LEMMA SubmitIsSteady ==
  ASSUME TypeOK, NEW k \in Jobs, JobInv(k), NEW j \in Jobs,
         SubmitInserted(j) \/ \E n \in Nodes : Submit(n, j)
  PROVE  Steady(k)
<1> USE DEF Steady, Works, Inserted, database, memory, claims, control, exec, faults
<1>1. ASSUME NEW n \in Nodes, Submit(n, j) PROVE Steady(k)
  <2>1. \A m \in Nodes : table'[m][k] = IF m = n /\ k = j THEN "Pending" ELSE table[m][k]
    BY <1>1, Statuses, EntryUpdate DEF Submit, TypeOK
  <2>2. \A m \in Nodes : Works(m, k)' => Works(m, k)
    BY <1>1, <2>1 DEF Submit, Active
  <2>3. sub'[k] = (IF k = j THEN "inserting" ELSE sub[k]) /\ sub[j] = "new"
    BY <1>1 DEF Submit, TypeOK
  <2>4. Inserted(k) => Inserted(k)'
    BY <1>1, <2>3 DEF Submit
  <2> HIDE DEF Works, Inserted
  <2> QED BY <1>1, <2>2, <2>4 DEF Submit
<1>2. CASE SubmitInserted(j)
  <2>1. (home[j] \in Nodes /\ sub[j] = "inserting") \/ k # j
    BY <1>2 DEF SubmitInserted, JobInv, NotBeforeSubmitted
  <2>2. \A m \in Nodes : table'[m][k] \in {Absent, table[m][k]}
    <3>1. table' = [table EXCEPT ![home[j]][j] = Absent]
      BY <1>2 DEF SubmitInserted, SetEntry
    <3> QED BY <3>1 DEF TypeOK
  <2>3. \A m \in Nodes : Works(m, k)' => Works(m, k)
    BY <1>2, <2>2 DEF SubmitInserted, Active, Absent
  <2>4. sub'[k] = IF k = j THEN "done" ELSE sub[k]
    BY <1>2 DEF SubmitInserted, TypeOK
  <2>5. Inserted(k) => Inserted(k)'
    BY <1>2, <2>4 DEF SubmitInserted
  <2> HIDE DEF Works, Inserted
  <2> QED BY <1>2, <2>3, <2>5 DEF SubmitInserted
<1> QED BY <1>1, <1>2

\* The run of a claimed job, its end, and an archive that drops the entry.
LEMMA ExecutionIsSteady ==
  ASSUME TypeOK, NEW k \in Jobs,
         \/ \E n \in Nodes, j \in Jobs, r \in Runs : RunClaimed(n, j, r)
         \/ \E r \in Runs : RunEnd(r)
         \/ \E c \in Clients : ArchiveDrop(c)
  PROVE  Steady(k)
<1> USE DEF Steady, Works, Inserted, database, memory, claims, control, exec, faults
<1>1. ASSUME NEW n \in Nodes, NEW j \in Jobs, NEW r \in Runs, RunClaimed(n, j, r)
      PROVE  Steady(k)
  <2>1. \A m \in Nodes : table'[m][k] = IF m = n /\ k = j THEN "Running" ELSE table[m][k]
    BY <1>1, Statuses, EntryUpdate DEF RunClaimed, TypeOK
  <2>2. \A m \in Nodes : claimed'[m] \subseteq claimed[m]
    BY <1>1 DEF RunClaimed, TypeOK
  <2>3. j \in claimed[n]
    BY <1>1 DEF RunClaimed
  <2> QED BY <1>1, <2>1, <2>2, <2>3 DEF RunClaimed
<1>2. ASSUME NEW r \in Runs, RunEnd(r) PROVE Steady(k)
  <2> DEFINE n == run[r].node
             j == run[r].job
  <2>1. n \in Nodes /\ j \in Jobs
    BY <1>2, AtWorkTyped DEF RunEnd
  <2>2. table' = table \/ \E s \in Terminal : SetEntry(n, j, s)
    BY <1>2 DEF RunEnd
  <2>3. \A m \in Nodes : table'[m][k] \in Terminal \cup {table[m][k]}
    <3> HIDE DEF n, j
    <3> QED BY <2>1, <2>2, Statuses, EntryUpdate DEF TypeOK
  <2>4. \A m \in Nodes : Works(m, k)' => Works(m, k)
    BY <1>2, <2>3 DEF RunEnd, Active, Terminal
  <2>5. \A w \in writes' : w \in writes \/ w.op = "update"
    BY <1>2 DEF RunEnd, Persist
  <2>6. Inserted(k) => Inserted(k)'
    BY <1>2, <2>5 DEF RunEnd
  <2> HIDE DEF Works, Inserted
  <2> QED BY <1>2, <2>4, <2>6 DEF RunEnd
<1>3. ASSUME NEW c \in Clients, ArchiveDrop(c) PROVE Steady(k)
  <2>1. \A m \in Nodes : table'[m][k] \in {Absent, table[m][k]}
    <3>1. table' = [table EXCEPT ![client[c].node][client[c].job] = Absent]
      BY <1>3 DEF ArchiveDrop, SetEntry
    <3> QED BY <3>1 DEF TypeOK
  <2> QED BY <1>3, <2>1 DEF ArchiveDrop, Active, Absent
<1> QED BY <1>1, <1>2, <1>3

\* Silence of an owner, and its death.
LEMMA SilenceIsSteady ==
  ASSUME TypeOK, NEW k \in Jobs,
         (\E j \in Jobs : Expire(j)) \/ (\E n \in Nodes : Crash(n))
  PROVE  Steady(k)
<1> USE DEF Steady, Works, Inserted, database, memory, claims, control, exec, faults
<1>1. ASSUME NEW j \in Jobs, Expire(j) PROVE Steady(k)
  <2>1. row[j] \in Row /\ row \in [Jobs -> Row]
    BY DEF TypeOK
  <2>2. row'[k].status = row[k].status
    BY <1>1, <2>1 DEF Expire, Row
  <2> QED BY <1>1, <2>2 DEF Expire
<1>2. ASSUME NEW n \in Nodes, Crash(n) PROVE Steady(k)
  <2>1. \A m \in Nodes : table'[m][k] \in {Absent, table[m][k]}
    BY <1>2 DEF Crash, TypeOK
  <2>2. \A m \in Nodes : claimed'[m] \subseteq claimed[m]
    BY <1>2 DEF Crash, TypeOK
  <2>3. sub'[k] \in {"done", sub[k]} /\ writes' \subseteq writes
    BY <1>2 DEF Crash
  <2> QED BY <1>2, <2>1, <2>2, <2>3 DEF Crash, Active, Absent
<1> QED BY <1>1, <1>2

\* The reaper, a stop of a waiting row, and the transaction of an archive.
LEMMA TableMoves ==
  ASSUME TypeOK, NEW k \in Jobs, JobInv(k),
         \A c \in Clients : ArchiveStore(c) => row'[client[c].job] = NoRow,
         \/ \E n \in Nodes : Reap(n)
         \/ \E c \in Clients : RouteStopPending(c) \/ ArchiveStore(c)
  PROVE  Steady(k) \/ RowMoves(k)
<1> USE DEF database, memory, claims, control, exec, faults
<1>1. row[k] \in Row /\ row \in [Jobs -> Row]
  BY DEF TypeOK
<1>2. /\ \A n \in Nodes : Works(n, k)' <=> Works(n, k)
      /\ Inserted(k) => Inserted(k)'
  BY DEF Works, Inserted, Reap, RouteStopPending, ArchiveStore
<1>3. CASE row'[k].status = row[k].status
  BY <1>2, <1>3 DEF Steady
<1>4. ASSUME NEW n \in Nodes, Reap(n), row'[k].status # row[k].status
      PROVE  row[k].status \in Active /\ row'[k].status = "Pending"
  BY <1>1, <1>4 DEF Reap, Reapable, Row
<1>5. ASSUME NEW c \in Clients, RouteStopPending(c), row'[k].status # row[k].status
      PROVE  row[k].status = "Pending" /\ row'[k].status \in Terminal
  BY <1>1, <1>5 DEF RouteStopPending, Row, Terminal
<1>6. ASSUME NEW c \in Clients, ArchiveStore(c), row'[k].status # row[k].status
      PROVE  row[k].status # Absent /\ row'[k].status = Absent
  <2>1. row' = [row EXCEPT ![client[c].job] = NoRow]
    BY <1>1, <1>6 DEF ArchiveStore
  <2>2. row'[k] \in {row[k], NoRow}
    BY <1>1, <2>1
  <2> QED BY <1>6, <2>2 DEF NoRow
<1> QED BY <1>2, <1>3, <1>4, <1>5, <1>6 DEF RowMoves

\* A write that lands: an INSERT before anybody could know the job, an UPDATE
\* of the owner, or of one that has let go.
LEMMA LandMoves ==
  ASSUME TypeOK, NEW k \in Jobs, JobInv(k), NEW w \in writes, Land(w)
  PROVE  Steady(k) \/ RowMoves(k)
<1> USE DEF database, memory, claims, control, exec, faults, JobInv
<1>1. row[k] \in Row /\ row \in [Jobs -> Row] /\ w \in Write
  BY DEF TypeOK
<1>2. /\ \A n \in Nodes : Works(n, k)' <=> Works(n, k)
      /\ Inserted(k) => Inserted(k)'
  BY DEF Works, Inserted, Land
<1>3. CASE row'[k].status = row[k].status
  BY <1>2, <1>3 DEF Steady
<1>4. CASE row'[k].status # row[k].status
  <2>1. /\ w.job = k /\ row'[k].status = w.status
        /\ \/ w.op = "insert" /\ row[k].status = Absent
           \/ w.op = "update" /\ row[k].status # Absent
    <3>1. row' = [row EXCEPT ![w.job].status =
                    IF w.op = "insert" /\ @ = Absent THEN w.status
                    ELSE IF w.op = "update" /\ @ # Absent THEN w.status ELSE @]
      BY Zenon DEF Land
    <3> QED BY <1>1, <1>4, <3>1 DEF Row
  <2>2. CASE w.op = "insert" /\ row[k].status = Absent
    <3>1. w.status = "Pending" /\ ~Inserted(k)
      BY <2>1, <2>2 DEF WritesAreOfOwner, Inserted
    <3> QED BY <1>2, <2>1, <2>2, <3>1 DEF RowMoves
  <2>3. CASE w.op = "update" /\ row[k].status # Absent
    <3>1. w.status # "Pending" /\ row[k].node = w.node
      BY <2>1, <2>3 DEF WritesAreOfOwner
    <3>2. row[k].status # "Pending"
      BY <1>1, <3>1, ClusterAssumption DEF RowShape, Write
    <3>3. w.status \in Active \cup Terminal /\ row[k].status \in Active \cup Terminal
      BY <1>1, <2>3, <3>1, <3>2 DEF Row, Write, Entry, JobStatus, Active, Terminal
    <3> QED BY <1>2, <2>1, <3>3 DEF RowMoves
  <2> QED BY <2>1, <2>2, <2>3
<1> QED BY <1>3, <1>4

\* A claim takes waiting rows that nobody holds.
LEMMA ClaimMove ==
  ASSUME TypeOK, TypeOK', NEW k \in Jobs, JobInv(k), JobInv(k)',
         NEW n \in Nodes, ClaimRows(n) \/ ClaimFails(n)
  PROVE  LeaseMove(k)
<1> USE DEF database, memory, claims, control, exec, faults
<1>1. PICK S \in SUBSET Jobs :
        /\ Granted(n, S)
        /\ claimed' \in {claimed, [claimed EXCEPT ![n] = S]}
  BY DEF ClaimRows, ClaimFails
<1>2. UNCHANGED <<table, sub, writes>>
  BY DEF ClaimRows, ClaimFails
<1>3. claimed \in [Nodes -> SUBSET Jobs]
  BY DEF TypeOK
<1>4. CASE k \in S
  <2>1. /\ row[k].status = "Pending" /\ row'[k].status = "Running"
    <3>1. row[k] \in Row
      BY DEF TypeOK
    <3> QED BY <1>1, <1>4, <3>1 DEF Granted, Claimable, ClaimedBy, Row
  <2>2. \A m \in Nodes : ~Works(m, k)
    BY <2>1 DEF JobInv, WorkerIsOwner, Active, Absent
  <2>3. Phase(k) = "waiting" /\ Phase(k)' = "taken"
    BY <2>1, Phases DEF Active
  <2>4. Holder(k) = NoNode /\ Holder(k)' \in Nodes \cup {NoNode}
    BY <2>2, Holders DEF JobInv
  <2> QED BY <2>3, <2>4 DEF LeaseMove
<1>5. CASE k \notin S
  <2>1. row'[k] = row[k]
    BY <1>1, <1>5 DEF Granted
  <2>2. \A m \in Nodes : Works(m, k)' => Works(m, k)
    BY <1>1, <1>2, <1>3, <1>5 DEF Works
  <2>3. Steady(k)
    BY <1>2, <2>1, <2>2 DEF Steady, Inserted
  <2> QED BY <2>3, SteadyMove
<1> QED BY <1>4, <1>5

-----------------------------------------------------------------------------
(* The implementation.                                                     *)

LEMMA LeaseStep ==
  ASSUME IndInv, [Undisturbed /\ Next]_vars, NEW k \in Jobs
  PROVE  LeaseMove(k)
<1>1. TypeOK /\ \A j \in Jobs : JobInv(j)
  BY DEF IndInv
<1>2. TypeOK' /\ JobInv(k)'
  <2>1. IndInv'
    BY IndInvStep
  <2> QED BY <2>1 DEF IndInv
<1>3. Steady(k) => LeaseMove(k)
  BY <1>1, <1>2, SteadyMove
<1>4. RowMoves(k) => LeaseMove(k)
  BY <1>1, <1>2, RowMove
<1>0. CASE UNCHANGED vars
  BY <1>1, <1>3, <1>0, CalmLoops, CalmIsSteady
<1> SUFFICES ASSUME Undisturbed PROVE LeaseMove(k)
  BY <1>0
<1>5. ASSUME NEW n \in Nodes, ClaimNext(n) PROVE LeaseMove(k)
  <2>1. CASE ClaimAsk(n)
    BY <1>1, <1>3, <2>1, CalmLoops, CalmIsSteady
  <2>2. CASE ClaimRows(n) \/ ClaimFails(n)
    BY <1>1, <1>2, <2>2, ClaimMove
  <2>3. ASSUME NEW j \in Jobs, NEW r \in Runs, RunClaimed(n, j, r) PROVE LeaseMove(k)
    BY <1>1, <1>3, <2>3, ExecutionIsSteady
  <2> QED BY <1>5, <2>1, <2>2, <2>3 DEF ClaimNext
<1>6. ASSUME NEW n \in Nodes, ControlNext(n) PROVE LeaseMove(k)
  <2>1. CASE TakeRead(n) \/ TakeClear(n)
    BY <1>1, <1>3, <2>1, CalmIntents, CalmIsSteady
  <2>2. ASSUME NEW j \in Jobs, NEW i \in Intent, Consume(n, j, i) PROVE LeaseMove(k)
    <3>1. LocalRequest(n, j) => sub[j] # "inserting"
      BY DEF Undisturbed
    <3>2. Calm(k)
      BY <1>1, <2>2, <3>1, CalmRequests
    <3> QED BY <1>3, <3>2, CalmIsSteady
  <2> QED BY <1>6, <2>1, <2>2 DEF ControlNext
<1>7. ASSUME NEW n \in Nodes, Heartbeat(n) \/ Return(n) PROVE LeaseMove(k)
  <2>1. Calm(k)
    BY <1>1, <1>7, CalmHeartbeat, CalmLoops
  <2> QED BY <1>3, <2>1, CalmIsSteady
<1>a. \A c \in Clients : ArchiveStore(c) => row'[client[c].job] = NoRow
  BY DEF Undisturbed
<1>8. ASSUME NEW n \in Nodes, Reap(n) PROVE LeaseMove(k)
  BY <1>1, <1>3, <1>4, <1>8, <1>a, TableMoves
<1>9. ASSUME NEW n \in Nodes, Crash(n) PROVE LeaseMove(k)
  BY <1>1, <1>3, <1>9, SilenceIsSteady
<1>10. ASSUME NEW n \in Nodes, NEW j \in Jobs, Submit(n, j) PROVE LeaseMove(k)
  BY <1>1, <1>3, <1>10, SubmitIsSteady
<1>11. ASSUME NEW n \in Nodes, NEW j \in Jobs, LocalRequest(n, j) PROVE LeaseMove(k)
  <2>1. sub[j] # "inserting"
    BY <1>11 DEF Undisturbed
  <2>2. Calm(k)
    BY <1>1, <1>11, <2>1, CalmRequests
  <2> QED BY <1>3, <2>2, CalmIsSteady
<1>12. ASSUME NEW j \in Jobs, SubmitInserted(j) PROVE LeaseMove(k)
  BY <1>1, <1>3, <1>12, SubmitIsSteady
<1>13. ASSUME NEW j \in Jobs, Expire(j) PROVE LeaseMove(k)
  BY <1>1, <1>3, <1>13, SilenceIsSteady
<1>14. ASSUME NEW r \in Runs, RunNext(r) PROVE LeaseMove(k)
  <2>1. CASE Enter(r)
    BY <1>1, <1>3, <2>1, CalmLoops, CalmIsSteady
  <2>2. CASE CheckpointPause(r) \/ Wake(r) \/ Sample(r)
    <3>1. run[r].job \in Jobs
      BY <1>1, <2>2, AtWorkTyped DEF CheckpointPause, Wake, Sample
    <3>2. Calm(k)
      BY <1>1, <2>2, <3>1, CalmRuns
    <3> QED BY <1>3, <3>2, CalmIsSteady
  <2>3. CASE RunEnd(r)
    BY <1>1, <1>3, <2>3, ExecutionIsSteady
  <2> QED BY <1>14, <2>1, <2>2, <2>3 DEF RunNext
<1>15. ASSUME NEW c \in Clients, ClientNext(c) PROVE LeaseMove(k)
  <2>1. CASE \/ \E n \in Nodes, j \in Jobs : RouteRead(c, n, j) \/ ArchiveRead(c, n, j)
             \/ RouteLeave(c)
    <3>1. Calm(k)
      BY <1>1, <2>1, CalmClients
    <3> QED BY <1>3, <3>1, CalmIsSteady
  <2>2. CASE RouteStopPending(c) \/ ArchiveStore(c)
    BY <1>1, <1>3, <1>4, <1>a, <2>2, TableMoves
  <2>3. CASE ArchiveDrop(c)
    BY <1>1, <1>3, <2>3, ExecutionIsSteady
  <2> QED BY <1>15, <2>1, <2>2, <2>3 DEF ClientNext
<1>16. ASSUME NEW w \in writes, Land(w) PROVE LeaseMove(k)
  BY <1>1, <1>3, <1>4, <1>16, LandMoves
<1>17. ASSUME NEW w \in writes, Lose(w) PROVE LeaseMove(k)
  BY <1>1, <1>3, <1>17, CalmLoops, CalmIsSteady
<1> QED BY <1>0, <1>5, <1>6, <1>7, <1>8, <1>9, <1>10, <1>11, <1>12, <1>13, <1>14, <1>15,
           <1>16, <1>17 DEF Next

\* Without the four steps the nodes implement the lease: a job goes from no
\* holder to one and from a holder to none, never from one to another, and its
\* row waits or ends only while nobody holds it.
THEOREM LeaseImplemented ==
  Spec /\ [][Undisturbed]_vars => ImplementsLease
<1>1. Init => Lease!Init
  <2> SUFFICES ASSUME Init, NEW j \in Jobs
               PROVE  Holder(j) = NoNode /\ Phase(j) = "new"
    BY DEF Lease!Init
  <2>1. row[j].status = Absent /\ ~Inserted(j)
    BY DEF Init, NoRow, Inserted
  <2>2. \A n \in Nodes : ~Works(n, j)
    BY DEF Init, Works, Active, Absent
  <2> QED BY <2>1, <2>2, Phases DEF Holder
<1>2. IndInv /\ [Undisturbed /\ Next]_vars => Lease!Next
  BY LeaseStep, LeaseMoves
<1>3. [Next]_vars /\ [Undisturbed]_vars => [Undisturbed /\ Next]_vars
  OBVIOUS
<1> QED BY <1>1, <1>2, <1>3, Invariance, PTL DEF Spec, ImplementsLease, Lease!Spec
=============================================================================
