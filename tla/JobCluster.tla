----------------------------- MODULE JobCluster -----------------------------
(***************************************************************************)
(* The job centre in its distributed mode: managers of several nodes share *)
(* the table cmx_job.  A submission only writes the row; every node claims *)
(* Pending rows (FOR UPDATE SKIP LOCKED), beats the heart of the rows it   *)
(* runs, takes the rows of silent owners back to Pending, and consumes the *)
(* control intents other nodes have left in its rows.                      *)
(*                                                                         *)
(* JobCenter cuts submit(), execute_core() and the local requests at every *)
(* access to shared memory.  Here they are cut only where they wait for    *)
(* the database: what one node does between two awaits is one step.        *)
(* A claim creates a run, numbered from Runs; a job may have several.      *)
(***************************************************************************)
EXTENDS Naturals, FiniteSets, TLC, JobModel

CONSTANTS
  Nodes, NoNode,
  Jobs,            \* one use of each id; their singleton kinds are left out
  Clients, NoJob,
  Runs,            \* bound: executions of claimed jobs
  MaxConcurrency,  \* permits of each node's semaphore
  MaxCrashes,      \* bound: crashes of nodes
  MaxLost,         \* bound: database statements that fail (only logged)
  MaxRequests,     \* bound: requests of the clients
  InWindow,        \* bound: claims and requests may meet a job whose row is
                   \* there and whose submit() has not yet removed the entry
  ArchiveFails,    \* bound: the transaction of archive() may fail
  Timely           \* database and nodes answer within owner_timeout_ms

ASSUME ClusterAssumption ==
  /\ NoNode \notin Nodes
  /\ NoJob \notin Jobs
  /\ IsFiniteSet(Runs)
  /\ MaxConcurrency \in Nat \ {0}
  /\ MaxCrashes \in Nat
  /\ MaxLost \in Nat
  /\ MaxRequests \in Nat
  /\ InWindow \in BOOLEAN
  /\ ArchiveFails \in BOOLEAN
  /\ Timely \in BOOLEAN

VARIABLES
  row,      \* the table cmx_job
  writes,   \* INSERTs and UPDATEs handed over and not yet applied
  up,       \* nodes that are alive
  table,    \* memory table of each node
  open,     \* <<n, j>>: the controls map of n has a channel for j
  channel,  \* the value of that channel
  sub, home,      \* progress of submit(), and its node
  limit, claimed, \* claim loop: permits it read, rows it was given
  intents, taken, \* control loop: snapshot it reads, intents it consumes
  run,      \* the executions
  tuned,    \* executions that listen to the channel in the map
  client,   \* archives, and requests that are routed to another node
  requests, crashes, lost

database == <<row, writes>>
memory   == <<table, open, channel, sub, home>>
claims   == <<limit, claimed>>
control  == <<intents, taken, client>>
exec     == <<run, tuned>>
faults   == <<up, requests, crashes, lost>>
vars == <<database, memory, claims, control, exec, faults>>

-----------------------------------------------------------------------------
Intent == {"pause", "resume", "cancel"}

Row == [status : Entry, node : Nodes \cup {NoNode},
        beat : {"none", "fresh", "stale"}, intent : Intent \cup {"none"}]

NoRow == [status |-> Absent, node |-> NoNode, beat |-> "none", intent |-> "none"]

Write == [op : {"insert", "update"}, job : Jobs, status : JobStatus, node : Nodes]

NoRun == [pc |-> "none", node |-> NoNode, job |-> NoJob, signal |-> "Run"]

Over == [NoRun EXCEPT !.pc = "over"]

Run == {NoRun, Over}
  \cup [pc : {"waiting", "running", "suspended"}, node : Nodes, job : Jobs, signal : Control]

Idle == [step |-> "idle", node |-> NoNode, job |-> NoJob, intent |-> "none"]

Request == {Idle}
  \cup [step : {"stopPending", "leave"}, node : Nodes, job : Jobs, intent : Intent]
  \cup [step : {"archive", "drop"}, node : Nodes, job : Jobs, intent : {"none"}]

TypeOK ==
  /\ row \in [Jobs -> Row]
  /\ writes \subseteq Write
  /\ up \subseteq Nodes
  /\ table \in [Nodes -> [Jobs -> Entry]]
  /\ open \subseteq Nodes \X Jobs
  /\ channel \in [Nodes -> [Jobs -> Control]]
  /\ sub \in [Jobs -> {"new", "inserting", "done"}]
  /\ home \in [Jobs -> Nodes \cup {NoNode}]
  /\ limit \in [Nodes -> 0..MaxConcurrency]
  /\ claimed \in [Nodes -> SUBSET Jobs]
  /\ intents \in [Nodes -> SUBSET (Jobs \X Intent)]
  /\ taken \in [Nodes -> SUBSET (Jobs \X Intent)]
  /\ run \in [Runs -> Run]
  /\ tuned \subseteq Runs
  /\ client \in [Clients -> Request]
  /\ requests \in 0..MaxRequests
  /\ crashes \in 0..MaxCrashes
  /\ lost \in 0..MaxLost

-----------------------------------------------------------------------------
(* Helpers.                                                                *)

\* available_permits() of the semaphore of a node.
Permits(n) ==
  MaxConcurrency - Cardinality({r \in Runs : /\ run[r].node = n
                                             /\ run[r].pc \in {"running", "suspended"}})

SetEntry(n, j, s) == table' = [table EXCEPT ![n][j] = s]

\* persist_status and persist_finish: handed over, nobody waits.
Persist(n, j, s) ==
  writes' = writes \cup {[op |-> "update", job |-> j, status |-> s, node |-> n]}

\* send_control: through the channel in the map to whoever listens to it.
Send(n, j, c) ==
  IF <<n, j>> \in open
  THEN /\ channel' = [channel EXCEPT ![n][j] = c]
       /\ run' = [r \in Runs |->
                   IF r \in tuned /\ run[r].node = n /\ run[r].job = j
                   THEN [run[r] EXCEPT !.signal = c] ELSE run[r]]
  ELSE UNCHANGED <<channel, run>>

\* The runs of job j on node n hear no more of the map's channel.
Untuned(n, j) == {r \in tuned : ~(run[r].node = n /\ run[r].job = j)}

\* The channel is taken out of the map.
Close(n, j) ==
  /\ open' = open \ {<<n, j>>}
  /\ channel' = [channel EXCEPT ![n][j] = "Run"]
  /\ tuned' = Untuned(n, j)

-----------------------------------------------------------------------------
(* submit(): the job is listed, its row inserted and awaited, and then the *)
(* entry is removed again; the channel stays.                              *)

Submit(n, j) ==
  /\ n \in up /\ sub[j] = "new"
  /\ sub' = [sub EXCEPT ![j] = "inserting"]
  /\ home' = [home EXCEPT ![j] = n]
  /\ SetEntry(n, j, "Pending")
  /\ open' = open \cup {<<n, j>>}
  /\ channel' = [channel EXCEPT ![n][j] = "Run"]
  /\ writes' = writes \cup {[op |-> "insert", job |-> j, status |-> "Pending",
                             node |-> n]}
  /\ UNCHANGED <<row, claims, control, exec, faults>>

\* Mutant: the end of submit() does not wait for the INSERT.
SubmitUnawaited(j) ==
  /\ sub[j] = "inserting"
  /\ sub' = [sub EXCEPT ![j] = "done"]
  /\ SetEntry(home[j], j, Absent)
  /\ home' = [home EXCEPT ![j] = NoNode]
  /\ UNCHANGED <<open, channel, database, claims, control, exec, faults>>

SubmitInserted(j) ==
  /\ sub[j] = "inserting"
  /\ \A w \in writes : ~(w.op = "insert" /\ w.job = j)
  /\ sub' = [sub EXCEPT ![j] = "done"]
  /\ SetEntry(home[j], j, Absent)
  /\ home' = [home EXCEPT ![j] = NoNode]
  /\ UNCHANGED <<open, channel, database, claims, control, exec, faults>>

-----------------------------------------------------------------------------
(* The claim loop.  It asks for as many rows as permits were free before   *)
(* the statement; what it is given it runs one by one.                     *)

ClaimAsk(n) ==
  /\ n \in up /\ limit[n] = 0 /\ claimed[n] = {}
  /\ Permits(n) > 0
  /\ limit' = [limit EXCEPT ![n] = Permits(n)]
  /\ UNCHANGED <<claimed, database, memory, control, exec, faults>>

\* Mutant: the statement takes rows that somebody runs already.
ClaimableAnyLive(j) == row[j].status \in Live

Claimable(j) == row[j].status = "Pending" /\ (sub[j] = "inserting" => InWindow)

\* Mutant: the claim writes no heartbeat, the first one is left to the loop.
ClaimedBySilent(r, n) == [r EXCEPT !.status = "Running", !.node = n]

\* The intent of an earlier life of the row stays.
ClaimedBy(r, n) == [r EXCEPT !.status = "Running", !.node = n, !.beat = "fresh"]

\* One UPDATE over a subselect with SKIP LOCKED: rows that the statement of
\* another node has locked are left to that node.
Granted(n, S) ==
  /\ S \subseteq {j \in Jobs : Claimable(j)}
  /\ Cardinality(S) <= limit[n]
  /\ row' = [j \in Jobs |-> IF j \in S THEN ClaimedBy(row[j], n) ELSE row[j]]
  /\ limit' = [limit EXCEPT ![n] = 0]

ClaimRows(n) ==
  /\ n \in up /\ limit[n] > 0
  /\ \E S \in SUBSET Jobs :
       /\ Granted(n, S)
       /\ S = {} => \A j \in Jobs : ~Claimable(j)
       /\ claimed' = [claimed EXCEPT ![n] = S]
  /\ UNCHANGED <<writes, memory, control, exec, faults>>

\* A query that fails answers no rows, even when it has been executed.
ClaimFails(n) ==
  /\ n \in up /\ limit[n] > 0
  /\ lost < MaxLost /\ lost' = lost + 1
  /\ \E S \in SUBSET Jobs : Granted(n, S)
  /\ UNCHANGED <<writes, claimed, memory, control, exec, up, requests, crashes>>

\* run_claimed: entry and channel are overwritten and a task is spawned.
RunClaimed(n, j, r) ==
  /\ n \in up /\ j \in claimed[n]
  /\ run[r].pc = "none"
  /\ claimed' = [claimed EXCEPT ![n] = @ \ {j}]
  /\ SetEntry(n, j, "Running")
  /\ open' = open \cup {<<n, j>>}
  /\ channel' = [channel EXCEPT ![n][j] = "Run"]
  /\ tuned' = Untuned(n, j)
  /\ run' = [run EXCEPT ![r] = [pc |-> "waiting", node |-> n, job |-> j, signal |-> "Run"]]
  /\ UNCHANGED <<sub, home, database, limit, control, faults>>

-----------------------------------------------------------------------------
(* An execution: a permit, execute_core, the handler and its end.          *)

\* The channel in the map is used, or a new one when there is none.
Enter(r) ==
  LET n == run[r].node
      j == run[r].job
      heard == IF <<n, j>> \in open THEN channel[n][j] ELSE "Run"
  IN /\ run[r].pc = "waiting"
     /\ Permits(n) > 0
     /\ run' = [run EXCEPT ![r].pc = "running", ![r].signal = heard]
     /\ tuned' = tuned \cup {r}
     /\ open' = open \cup {<<n, j>>}
     /\ channel' = [channel EXCEPT ![n][j] = heard]
     /\ UNCHANGED <<table, sub, home, database, claims, control, faults>>

CheckpointPause(r) ==
  LET n == run[r].node
      j == run[r].job
  IN /\ run[r].pc = "running" /\ run[r].signal = "Pause"
     /\ run' = [run EXCEPT ![r].pc = "suspended"]
     /\ SetEntry(n, j, IF table[n][j] = "Running" THEN "Paused" ELSE table[n][j])
     /\ UNCHANGED <<open, channel, sub, home, database, claims, control, tuned,
                    faults>>

Wake(r) ==
  LET n == run[r].node
      j == run[r].job
  IN /\ run[r].pc = "suspended" /\ run[r].signal = "Run"
     /\ run' = [run EXCEPT ![r].pc = "running"]
     /\ SetEntry(n, j, IF table[n][j] = "Paused" THEN "Running" ELSE table[n][j])
     /\ UNCHANGED <<open, channel, sub, home, database, claims, control, tuned,
                    faults>>

\* The handler has ended, by itself (a reporter that misses its entry
\* panics, which is Failed) or at a checkpoint that read Cancel, with the
\* status execute_core makes of it (an error is Cancelled when the channel
\* says Cancel or the handler uses its code).  finish() does nothing for a job that is
\* not in the table; the channel is removed in any case.
RunEnd(r) ==
  LET n == run[r].node
      j == run[r].job
  IN /\ \/ run[r].pc = "running"
        \/ run[r].pc = "suspended" /\ run[r].signal = "Cancel"
     /\ run' = [run EXCEPT ![r] = Over]
     /\ Close(n, j)
     /\ IF table[n][j] \in Live
        THEN \E s \in Terminal : SetEntry(n, j, s) /\ Persist(n, j, s)
        ELSE UNCHANGED <<table, writes>>
     /\ UNCHANGED <<sub, home, row, claims, control, faults>>

\* maybe_persist_progress, once a second beside the handler.
Sample(r) ==
  LET n == run[r].node
      j == run[r].job
  IN /\ run[r].pc \in {"running", "suspended"}
     /\ table[n][j] # Absent
     /\ Persist(n, j, table[n][j])
     /\ UNCHANGED <<row, memory, claims, control, exec, faults>>

-----------------------------------------------------------------------------
(* Heartbeat, silence and the reaper.                                      *)

\* The statement touches active rows this node owns.
Beats(n, j) == table[n][j] \in Active /\ row[j].node = n /\ row[j].status \in Active

Heartbeat(n) ==
  /\ n \in up
  /\ \E j \in Jobs : Beats(n, j)
  /\ row' = [j \in Jobs |->
              IF Beats(n, j) THEN [row[j] EXCEPT !.beat = "fresh"] ELSE row[j]]
  /\ UNCHANGED <<writes, memory, claims, control, exec, faults>>

\* owner_timeout_ms pass without a heartbeat.  When everybody answers in
\* time that happens only to a row its owner does not beat any more, and not
\* before what concerns the row has reached the database and its claimer.
Quiet(j) ==
  LET n == row[j].node IN
  n \in up => /\ ~Beats(n, j)
              /\ j \notin claimed[n]
              /\ \A w \in writes : w.job # j

Expire(j) ==
  /\ row[j].beat = "fresh"
  /\ Timely => Quiet(j)
  /\ row' = [row EXCEPT ![j].beat = "stale"]
  /\ UNCHANGED <<writes, memory, claims, control, exec, faults>>

\* Mutant: every active row is taken back.
ReapableAlways(j) == row[j].status \in Active

\* Mutant: only rows whose job was not suspended.
ReapableRunning(j) == row[j].status = "Running" /\ row[j].beat = "stale"

Reapable(j) == row[j].status \in Active /\ row[j].beat = "stale"

\* reap_dead_owners: back to Pending without an owner; the intent stays.
Reap(n) ==
  /\ n \in up
  /\ \E j \in Jobs : Reapable(j)
  /\ row' = [j \in Jobs |->
              IF Reapable(j)
              THEN [row[j] EXCEPT !.status = "Pending", !.node = NoNode, !.beat = "none"]
              ELSE row[j]]
  /\ UNCHANGED <<writes, memory, claims, control, exec, faults>>

-----------------------------------------------------------------------------
(* Requests for a job that is in the table of the node asked.              *)

Counted == requests < MaxRequests /\ requests' = requests + 1

PauseLocal(n, j) ==
  /\ table[n][j] \in {"Running", "Pending"}
  /\ Send(n, j, "Pause")
  /\ UNCHANGED <<table, writes>>

ResumeLocal(n, j) ==
  /\ table[n][j] \in {"Paused", "Pending"}
  /\ Send(n, j, "Run")
  /\ SetEntry(n, j, IF table[n][j] = "Paused" THEN "Running" ELSE table[n][j])
  /\ UNCHANGED writes

CancelLocal(n, j) ==
  LET s == IF table[n][j] = "Pending" THEN "Cancelled" ELSE "Cancelling"
  IN /\ table[n][j] \in {"Pending", "Running", "Paused"}
     /\ Send(n, j, "Cancel")
     /\ SetEntry(n, j, s)
     /\ Persist(n, j, s)

LocalRequest(n, j) ==
  /\ n \in up /\ Counted
  /\ sub[j] = "inserting" => InWindow
  /\ PauseLocal(n, j) \/ ResumeLocal(n, j) \/ CancelLocal(n, j)
  /\ UNCHANGED <<open, sub, home, row, claims, control, tuned, up, crashes, lost>>

\* archive(): the status is read, the row leaves the table in a transaction
\* (which may fail), and the entry and the channel are removed.
ArchiveRead(c, n, j) ==
  /\ client[c] = Idle /\ n \in up /\ Counted
  /\ (IF table[n][j] # Absent THEN table[n][j] ELSE row[j].status) \in Terminal
  /\ client' = [client EXCEPT ![c] = [Idle EXCEPT !.step = "archive", !.node = n, !.job = j]]
  /\ UNCHANGED <<database, memory, claims, intents, taken, exec, up, crashes, lost>>

ArchiveStore(c) ==
  /\ client[c].step = "archive"
  /\ client' = [client EXCEPT ![c].step = "drop"]
  /\ \/ row' = [row EXCEPT ![client[c].job] = NoRow] /\ UNCHANGED lost
     \/ ArchiveFails /\ lost < MaxLost /\ lost' = lost + 1 /\ UNCHANGED row
  /\ UNCHANGED <<writes, memory, claims, intents, taken, exec, up, requests, crashes>>

ArchiveDrop(c) ==
  /\ client[c].step = "drop"
  /\ client' = [client EXCEPT ![c] = Idle]
  /\ SetEntry(client[c].node, client[c].job, Absent)
  /\ Close(client[c].node, client[c].job)
  /\ UNCHANGED <<sub, home, database, claims, intents, taken, run, faults>>

-----------------------------------------------------------------------------
(* Requests for a job of another node: route_remote_control reads the row, *)
(* then set_control_intent runs its statements.                            *)

RouteRead(c, n, j) ==
  /\ client[c] = Idle /\ n \in up /\ Counted
  /\ table[n][j] = Absent
  /\ row[j].status \in Live
  /\ \E i \in Intent :
       client' = [client EXCEPT ![c] =
                   [step |-> IF i = "cancel" THEN "stopPending" ELSE "leave",
                    node |-> n, job |-> j, intent |-> i]]
  /\ UNCHANGED <<database, memory, claims, intents, taken, exec, up, crashes, lost>>

\* Mutant: the statement does not ask again whether the row is Pending.
StopLiveRow(c) ==
  /\ client[c].step = "stopPending"
  /\ client' = [client EXCEPT ![c].step = "leave"]
  /\ row' = [row EXCEPT ![client[c].job].status = IF @ \in Live THEN "Cancelled" ELSE @]
  /\ UNCHANGED <<writes, memory, claims, intents, taken, exec, faults>>

\* A Pending row is stopped in the database.
RouteStopPending(c) ==
  /\ client[c].step = "stopPending"
  /\ client' = [client EXCEPT ![c].step = "leave"]
  /\ row' = [row EXCEPT ![client[c].job].status =
              IF @ = "Pending" THEN "Cancelled" ELSE @]
  /\ UNCHANGED <<writes, memory, claims, intents, taken, exec, faults>>

\* An active one gets the intent, in a single slot.
RouteLeave(c) ==
  /\ client[c].step = "leave"
  /\ client' = [client EXCEPT ![c] = Idle]
  /\ row' = [row EXCEPT ![client[c].job].intent =
              IF row[client[c].job].status \in Active THEN client[c].intent ELSE @]
  /\ UNCHANGED <<writes, memory, claims, intents, taken, exec, faults>>

\* take_control_intents is one statement: its snapshot and its UPDATE see
\* different states of a row that is changed meanwhile.
TakeRead(n) ==
  LET waiting == {j \in Jobs : row[j].node = n /\ row[j].intent # "none"}
  IN /\ n \in up /\ intents[n] = {} /\ taken[n] = {}
     /\ waiting # {}
     /\ intents' = [intents EXCEPT ![n] = {<<j, row[j].intent>> : j \in waiting}]
     /\ UNCHANGED <<taken, client, database, memory, claims, exec, faults>>

TakeClear(n) ==
  /\ intents[n] # {}
  /\ row' = [j \in Jobs |->
              IF \E i \in Intent : <<j, i>> \in intents[n]
              THEN [row[j] EXCEPT !.intent = "none"] ELSE row[j]]
  /\ taken' = [taken EXCEPT ![n] = intents[n]]
  /\ intents' = [intents EXCEPT ![n] = {}]
  /\ UNCHANGED <<client, writes, memory, claims, exec, faults>>

\* The control loop applies an intent to a job in its table, without a look
\* at the status except for mark_cancelling, and drops any other one.
Consume(n, j, i) ==
  /\ <<j, i>> \in taken[n]
  /\ taken' = [taken EXCEPT ![n] = @ \ {<<j, i>>}]
  /\ CASE table[n][j] = Absent ->
            UNCHANGED <<table, channel, run, writes>>
       [] table[n][j] # Absent /\ i = "pause" ->
            Send(n, j, "Pause") /\ UNCHANGED <<table, writes>>
       [] table[n][j] # Absent /\ i = "resume" ->
            /\ Send(n, j, "Run")
            /\ SetEntry(n, j, IF table[n][j] = "Paused" THEN "Running" ELSE table[n][j])
            /\ UNCHANGED writes
       [] table[n][j] # Absent /\ i = "cancel" ->
            /\ Send(n, j, "Cancel")
            /\ IF table[n][j] \in Live \ {"Cancelling"}
               THEN SetEntry(n, j, "Cancelling") /\ Persist(n, j, "Cancelling")
               ELSE UNCHANGED <<table, writes>>
  /\ UNCHANGED <<open, sub, home, row, claims, intents, client, tuned, faults>>

-----------------------------------------------------------------------------
(* The database, and crashes of nodes.                                     *)

\* INSERT ... ON CONFLICT DO NOTHING, or UPDATE ... WHERE id: neither asks
\* who owns the row.
Land(w) ==
  /\ w \in writes
  /\ writes' = writes \ {w}
  /\ row' = [row EXCEPT ![w.job].status =
              CASE w.op = "insert" /\ @ = Absent -> w.status
                [] w.op = "update" /\ @ # Absent -> w.status
                [] OTHER -> @]
  /\ UNCHANGED <<memory, claims, control, exec, faults>>

Lose(w) ==
  /\ w \in writes
  /\ lost < MaxLost
  /\ lost' = lost + 1
  /\ writes' = writes \ {w}
  /\ UNCHANGED <<row, up, requests, crashes, memory, claims, control, exec>>

Crash(n) ==
  /\ n \in up /\ crashes < MaxCrashes
  /\ crashes' = crashes + 1
  /\ up' = up \ {n}
  /\ writes' = {w \in writes : w.node # n}
  /\ table' = [table EXCEPT ![n] = [j \in Jobs |-> Absent]]
  /\ open' = {p \in open : p[1] # n}
  /\ channel' = [channel EXCEPT ![n] = [j \in Jobs |-> "Run"]]
  /\ sub' = [j \in Jobs |-> IF home[j] = n THEN "done" ELSE sub[j]]
  /\ home' = [j \in Jobs |-> IF home[j] = n THEN NoNode ELSE home[j]]
  /\ limit' = [limit EXCEPT ![n] = 0]
  /\ claimed' = [claimed EXCEPT ![n] = {}]
  /\ intents' = [intents EXCEPT ![n] = {}]
  /\ taken' = [taken EXCEPT ![n] = {}]
  /\ tuned' = {r \in tuned : run[r].node # n}
  /\ run' = [r \in Runs |-> IF run[r].node = n THEN Over ELSE run[r]]
  /\ client' = [c \in Clients |-> IF client[c].node = n THEN Idle ELSE client[c]]
  /\ UNCHANGED <<row, requests, lost>>

\* A node that comes back does not recover: the reapers take its rows.
Return(n) ==
  /\ n \notin up
  /\ up' = up \cup {n}
  /\ UNCHANGED <<database, memory, claims, control, exec, requests, crashes, lost>>

-----------------------------------------------------------------------------
Init ==
  /\ row = [j \in Jobs |-> NoRow]
  /\ writes = {}
  /\ up = Nodes
  /\ table = [n \in Nodes |-> [j \in Jobs |-> Absent]]
  /\ open = {}
  /\ channel = [n \in Nodes |-> [j \in Jobs |-> "Run"]]
  /\ sub = [j \in Jobs |-> "new"]
  /\ home = [j \in Jobs |-> NoNode]
  /\ limit = [n \in Nodes |-> 0]
  /\ claimed = [n \in Nodes |-> {}]
  /\ intents = [n \in Nodes |-> {}]
  /\ taken = [n \in Nodes |-> {}]
  /\ run = [r \in Runs |-> NoRun]
  /\ tuned = {}
  /\ client = [c \in Clients |-> Idle]
  /\ requests = 0
  /\ crashes = 0
  /\ lost = 0

ClaimNext(n) ==
  \/ ClaimAsk(n) \/ ClaimRows(n) \/ ClaimFails(n)
  \/ \E j \in Jobs, r \in Runs : RunClaimed(n, j, r)

ControlNext(n) ==
  TakeRead(n) \/ TakeClear(n) \/ \E j \in Jobs, i \in Intent : Consume(n, j, i)

RunNext(r) ==
  Enter(r) \/ CheckpointPause(r) \/ Wake(r) \/ RunEnd(r) \/ Sample(r)

ClientNext(c) ==
  \/ \E n \in Nodes, j \in Jobs : RouteRead(c, n, j) \/ ArchiveRead(c, n, j)
  \/ RouteStopPending(c) \/ RouteLeave(c)
  \/ ArchiveStore(c) \/ ArchiveDrop(c)

Next ==
  \/ \E n \in Nodes :
       \/ ClaimNext(n) \/ ControlNext(n) \/ Heartbeat(n) \/ Reap(n)
       \/ Crash(n) \/ Return(n)
       \/ \E j \in Jobs : Submit(n, j) \/ LocalRequest(n, j)
  \/ \E j \in Jobs : SubmitInserted(j) \/ Expire(j)
  \/ \E r \in Runs : RunNext(r)
  \/ \E c \in Clients : ClientNext(c)
  \/ \E w \in writes : Land(w) \/ Lose(w)

Spec == Init /\ [][Next]_vars

\* The loops of a node that is up tick, the database answers, an execution
\* gets its permit, owner_timeout_ms pass for a row nobody beats.  Nothing
\* is asked of the handlers and of crashed nodes.
Fairness ==
  /\ \A j \in Jobs : WF_vars(SubmitInserted(j)) /\ WF_vars(Expire(j))
  /\ \A n \in Nodes :
       /\ WF_vars(ClaimAsk(n)) /\ WF_vars(ClaimRows(n)) /\ WF_vars(Reap(n))
       /\ \A j \in Jobs : WF_vars(\E r \in Runs : RunClaimed(n, j, r))

FairSpec == Spec /\ Fairness

-----------------------------------------------------------------------------
(* Properties.                                                             *)

\* When everybody answers in time at most one node shows a job as active:
\* SKIP LOCKED, the heartbeat and the reaper together keep the claims apart.
OneActiveOwner ==
  \A j \in Jobs, m, n \in Nodes :
    m # n => ~(table[m][j] \in Active /\ table[n][j] \in Active)

\* A node that shows a job as active is the owner of its row, as long as
\* the row has not ended.
OwnerKnown ==
  \A j \in Jobs, n \in Nodes :
    table[n][j] \in Active /\ row[j].status \in Live => row[j].node = n

\* An active row has an owner and a heartbeat, without which no reaper would
\* ever take it back.
ActiveRowIsOwned ==
  \A j \in Jobs :
    row[j].status \in Active => row[j].node # NoNode /\ row[j].beat # "none"

\* No two handlers are at work for one job: claimed again it may be, run
\* twice at a time it may not ("the core of distributed no-rerun").
NoDoubleExecution ==
  \A p, r \in Runs :
    /\ p # r
    /\ run[p].pc \in {"running", "suspended"}
    /\ run[r].pc \in {"running", "suspended"}
    => run[p].job # run[r].job

\* Whatever is late, lost or killed: a row that has left the table after the
\* submission never comes back.  An update meets no row, and the INSERT is
\* awaited before anybody could have archived it; the single node hands it
\* over like any other write and does get such a row back.
ArchivedStaysGone ==
  [][\A j \in Jobs : sub[j] = "done" /\ row[j].status = Absent
                     => row'[j].status = Absent]_vars

\* The invariant it rests on: an INSERT on its way has a submit() waiting for it.
InsertsAreAwaited ==
  \A w \in writes : w.op = "insert" => sub[w.job] = "inserting" /\ home[w.job] = w.node

\* What makes them true, as long as none of four steps is taken, each of which
\* the code does take: a heartbeat expires under an owner that is only slow
\* (lib.rs:505), a request or a claim meets a job whose submit() is still at
\* work (manager.rs:329), and the transaction of an archive is rolled back
\* (manager.rs:774).
Undisturbed ==
  /\ \A j \in Jobs : Expire(j) => Quiet(j)
  /\ \A n \in Nodes, j \in Jobs :
       sub[j] = "inserting" => /\ ~LocalRequest(n, j)
                               /\ ClaimRows(n) \/ ClaimFails(n) => row'[j] = row[j]
  /\ \A c \in Clients : ArchiveStore(c) => row'[client[c].job] = NoRow

\* The job is with node n: in its table as active, or claimed and not yet run.
Works(n, j) == table[n][j] \in Active \/ j \in claimed[n]

\* The execution is of job j, queued for a permit or with its handler at work.
AtWork(r, j) == run[r].job = j /\ run[r].pc \in {"waiting", "running", "suspended"}

\* The row has been inserted, or its INSERT has been lost.
Inserted(j) == sub[j] # "new" /\ \A w \in writes : ~(w.op = "insert" /\ w.job = j)

\* Until submit() is over nobody works at the job.
NotBeforeSubmitted(j) ==
  /\ sub[j] = "inserting" => home[j] \in Nodes
  /\ \A n \in Nodes : table[n][j] = "Pending" => sub[j] = "inserting" /\ home[j] = n
  /\ sub[j] # "done" =>
       /\ \A n \in Nodes : table[n][j] \in {Absent, "Pending"} /\ j \notin claimed[n]
       /\ \A r \in Runs : ~AtWork(r, j)
  /\ row[j].status # Absent => Inserted(j)
  /\ row[j].node # NoNode => sub[j] = "done"
  /\ \A n \in Nodes, i \in Intent :
       <<j, i>> \in intents[n] \cup taken[n] => sub[j] = "done"

\* A write on its way is of the owner, whose heartbeat is fresh, and an end
\* is on its way only when nobody works at the job any more.
WritesAreOfOwner(j) ==
  \A w \in writes : w.job = j =>
    /\ w.node \in up
    /\ w.op = "insert" =>
         /\ w.status = "Pending" /\ sub[j] = "inserting"
         /\ home[j] = w.node /\ row[j].status = Absent
    /\ w.op = "update" =>
         /\ w.status # "Pending" /\ sub[j] = "done"
         /\ row[j].status # Absent => row[j].node = w.node /\ row[j].beat = "fresh"
         /\ w.status \in Terminal => \A n \in Nodes : ~Works(n, j)

\* Only an owned row has a node and a heartbeat, and an active one has both.
RowShape(j) ==
  /\ row[j].status \in {Absent, "Pending"} => row[j].node = NoNode /\ row[j].beat = "none"
  /\ row[j].status \in Active => row[j].node # NoNode /\ row[j].beat # "none"

\* Who works at a job is alive and alone, and the owner of its row, active and
\* with a fresh heartbeat, unless the row has been archived.
WorkerIsOwner(j) ==
  \A n \in Nodes : Works(n, j) =>
    /\ n \in up
    /\ \A m \in Nodes : Works(m, j) => m = n
    /\ j \in claimed[n] => table[n][j] \notin Active
    /\ row[j].status # Absent =>
         row[j].node = n /\ row[j].status \in Active /\ row[j].beat = "fresh"

\* An execution is the only one of its job, nobody has claimed the job a
\* second time, and its node shows it as active unless it has been archived.
RunsAreBacked(j) ==
  \A r \in Runs : AtWork(r, j) =>
    LET n == run[r].node
    IN /\ n \in up
       /\ table[n][j] \in Active \/ (row[j].status = Absent /\ table[n][j] = Absent)
       /\ \A m \in Nodes : j \notin claimed[m]
       /\ \A p \in Runs : AtWork(p, j) => p = r

\* An archive drops the entry of a job whose row is gone for good.
ArchivesAreOfEnded(j) ==
  \A c \in Clients : client[c].job = j =>
    /\ client[c].step \in {"archive", "drop"} => Inserted(j)
    /\ client[c].step = "drop" => row[j].status = Absent

\* What row, tables, claims, executions and writes say of one job agrees.
JobInv(j) ==
  /\ NotBeforeSubmitted(j)
  /\ WritesAreOfOwner(j)
  /\ RowShape(j)
  /\ WorkerIsOwner(j)
  /\ RunsAreBacked(j)
  /\ ArchivesAreOfEnded(j)

\* The inductive invariant.
IndInv == TypeOK /\ \A j \in Jobs : JobInv(j)

\* With that the nodes implement the lease any of them relies on: who works
\* at a job holds it, and the phase of the job is the state of its row.
Holder(j) ==
  IF \E n \in Nodes : Works(n, j) THEN CHOOSE n \in Nodes : Works(n, j) ELSE NoNode

Phase(j) ==
  IF row[j].status = Absent THEN IF Inserted(j) THEN "gone" ELSE "new"
  ELSE IF row[j].status = "Pending" THEN "waiting"
  ELSE IF row[j].status \in Active THEN "taken"
  ELSE "ended"

Lease == INSTANCE JobLease WITH holder <- [j \in Jobs |-> Holder(j)],
                                phase <- [j \in Jobs |-> Phase(j)]

ImplementsLease == Lease!Spec

\* The row of a crashed owner does not stay active with that owner.
OrphanOf(j, n) == row[j].status \in Active /\ row[j].node = n /\ n \notin up

OrphansReclaimed ==
  \A j \in Jobs, n \in Nodes : OrphanOf(j, n) ~> ~OrphanOf(j, n)

\* Nodes, clients and runs are interchangeable in a small instance.
Symmetry == Permutations(Nodes) \cup Permutations(Clients) \cup Permutations(Runs)
=============================================================================
