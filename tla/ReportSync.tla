------------------------------ MODULE ReportSync ------------------------------
(***************************************************************************)
(* The report designer sends its edits as operations while the report is   *)
(* open (designer.js): a queue that is flushed after a pause, batches that *)
(* overlap and fail, timers that end with the last page of the report.     *)
(* What the edits do to the bindings is ReportDesigner's; saving the whole *)
(* layout is ReportLayout's.  The service that records the operations is   *)
(* not in this repository: it is what the page expects of it.              *)
(***************************************************************************)
EXTENDS Integers, Sequences, FiniteSets, TLAPS, FiniteSetTheorems, SequenceTheorems

CONSTANTS
    NoTarget,               \* the target of a structural operation
    Targets,                \* kinds of edits of one cell: what may be merged
    MaxEdits,               \* bound: operations recorded
    MaxBatches,             \* bound: batches on the way at a time
    MaxLost                 \* bound: batches whose answer is an error

SyncAssumption == /\ MaxEdits \in Nat /\ MaxBatches \in Nat /\ MaxLost \in Nat
                         /\ NoTarget \notin Targets

VARIABLES
    hosts,                  \* the pages of the report on the screen
    loading,                \* the layout is being put on the screen
    ops,                    \* the queue of operations and its counter
    timers,                 \* the timers that are running
    wire,                   \* batches on the way, with their answers
    log,                    \* how often the service has recorded each operation
    lost,                   \* batches that have failed
    refused                 \* operations the page has been told are rejected

vars == <<hosts, loading, ops, timers, wire, log, lost, refused>>

Views == {"content", "property"}
Timers == {"flush", "poll", "selection"}

(* born: the operations before this one belong to a report closed before.  *)
Fresh(serial) == [queue |-> << >>, serial |-> serial, born |-> serial]

Init ==
    /\ hosts = {} /\ loading = FALSE /\ ops = Fresh(0) /\ timers = {}
    /\ wire = {} /\ log = [id \in 1..MaxEdits |-> 0] /\ lost = 0 /\ refused = {}

-----------------------------------------------------------------------------

Mount(h) ==
    /\ h \notin hosts
    /\ h = "property" => hosts # {}
    /\ hosts' = hosts \union {h}
    /\ loading' = (h = "content")
    /\ UNCHANGED <<ops, timers, wire, log, lost, refused>>

(* The layout is there: the page follows the log and the selected cell.    *)
InitOpsSync ==
    /\ loading /\ "content" \in hosts
    /\ loading' = FALSE
    /\ timers' = timers \union {"poll", "selection"}
    /\ UNCHANGED <<hosts, ops, wire, log, lost, refused>>

Close(h) ==
    /\ h \in hosts /\ ~loading
    /\ hosts' = hosts \ {h}
    /\ UNCHANGED <<loading, ops, timers, wire, log, lost, refused>>

(* A poll that finds no designer on the screen ends itself.  When no other *)
(* page of the report is left either, its state goes, with all its timers. *)
PollStops(t) ==
    /\ t \in timers \ {"flush"} /\ "content" \notin hosts
    /\ IF hosts = {}
       THEN /\ timers' = {}
            /\ ops' = Fresh(ops.serial)
            /\ wire' = {r \in wire : r.status = "asked"}
       ELSE timers' = timers \ {t} /\ UNCHANGED <<ops, wire>>
    /\ UNCHANGED <<hosts, loading, log, lost, refused>>

-----------------------------------------------------------------------------

Op(target) == [id |-> ops.serial + 1, target |-> target, again |-> FALSE]

Record(target) ==
    /\ ops.serial < MaxEdits
    /\ ops' = [ops EXCEPT !.queue = Append(@, Op(target)), !.serial = @ + 1]

(* The same edit of the same cell replaces the value of a queued one that  *)
(* has not been sent yet.  While the layout is loading nothing is queued.  *)
Mergeable(target) == \E i \in DOMAIN ops.queue :
    ~ops.queue[i].again /\ ops.queue[i].target = target

EnqueueOp(target) ==
    /\ hosts # {} /\ ~loading
    /\ IF Mergeable(target) THEN UNCHANGED ops ELSE Record(target)
    /\ timers' = timers \union {"flush"}
    /\ UNCHANGED <<hosts, loading, wire, log, lost, refused>>

(* Structural operations are never merged.                                 *)
EnqueueStructuralOp ==
    /\ "content" \in hosts /\ ~loading
    /\ Record(NoTarget)
    /\ timers' = timers \union {"flush"}
    /\ UNCHANGED <<hosts, loading, wire, log, lost, refused>>

(* The whole queue goes out, whatever is on the way already.               *)
FlushOps ==
    /\ "flush" \in timers
    /\ Cardinality(wire) < MaxBatches
    /\ wire' = IF ops.queue = << >> THEN wire
               ELSE wire \union {[ops |-> ops.queue, born |-> ops.born, status |-> "asked"]}
    /\ ops' = [ops EXCEPT !.queue = << >>]
    /\ timers' = timers \ {"flush"}
    /\ UNCHANGED <<hosts, loading, log, lost, refused>>

Mine == {r \in wire : r.born = ops.born}

(* A failed batch goes back to the head of the queue, under its old ids;   *)
(* no timer is started for it.                                             *)
Flushed(r) ==
    /\ r \in Mine /\ r.status # "asked"
    /\ wire' = wire \ {r}
    /\ ops' = IF r.status = "done" THEN ops
              ELSE [ops EXCEPT !.queue = [i \in DOMAIN r.ops |-> [r.ops[i] EXCEPT !.again = TRUE]] \o @]
    /\ UNCHANGED <<hosts, loading, timers, log, lost, refused>>

-----------------------------------------------------------------------------
(* The service records what a batch brings that it does not know by its    *)
(* id, but for structural operations it rejects: those are answered too,   *)
(* and the page lets go of them.                                           *)

Ids(s) == {s[i].id : i \in DOMAIN s}

Copies(s, id) == {i \in DOMAIN s : s[i].id = id}

Rejectable(s) == {id \in Ids(s) : log[id] = 0 /\ \A i \in Copies(s, id) : s[i].target = NoTarget}

Serve(r) ==
    /\ r.status = "asked"
    /\ \E rejected \in SUBSET Rejectable(r.ops) :
         /\ log' = [id \in 1..MaxEdits |->
                      IF log[id] = 0 /\ id \notin rejected THEN Cardinality(Copies(r.ops, id)) ELSE log[id]]
         /\ \/ /\ wire' = (wire \ {r}) \union IF r \in Mine THEN {[r EXCEPT !.status = "done"]} ELSE {}
               /\ refused' = refused \union rejected
               /\ UNCHANGED lost
            \/ /\ lost < MaxLost /\ r \in Mine
               /\ wire' = (wire \ {r}) \union {[r EXCEPT !.status = "failed"]}
               /\ lost' = lost + 1
               /\ UNCHANGED refused
    /\ UNCHANGED <<hosts, loading, ops, timers>>

(* The batch itself is lost.                                               *)
Lose(r) ==
    /\ r.status = "asked" /\ lost < MaxLost
    /\ wire' = (wire \ {r}) \union IF r \in Mine THEN {[r EXCEPT !.status = "failed"]} ELSE {}
    /\ lost' = lost + 1
    /\ UNCHANGED <<hosts, loading, ops, timers, log, refused>>

-----------------------------------------------------------------------------

Next == \/ \E h \in Views : Mount(h) \/ Close(h)
        \/ InitOpsSync
        \/ \E t \in Timers : PollStops(t)
        \/ \E target \in Targets : EnqueueOp(target)
        \/ EnqueueStructuralOp
        \/ FlushOps
        \/ \E r \in wire : Flushed(r) \/ Serve(r) \/ Lose(r)

Spec == Init /\ [][Next]_vars

(* The timers of a page run and the service answers.                       *)
Fairness == /\ \A t \in Timers : WF_vars(PollStops(t))
            /\ WF_vars(FlushOps)
            /\ WF_vars(\E r \in wire : Serve(r) \/ Flushed(r))

-----------------------------------------------------------------------------

(* The state keeps to its types.                                          *)
TypeOK ==
    /\ hosts \subseteq Views /\ loading \in BOOLEAN /\ timers \subseteq Timers
    /\ refused \subseteq 1..MaxEdits
    /\ lost \in 0..MaxLost /\ ops.born \in 0..ops.serial /\ ops.serial \in 0..MaxEdits
    /\ Ids(ops.queue) \subseteq 1..ops.serial
    /\ log \in [1..MaxEdits -> Nat] /\ \A id \in ops.serial + 1 .. MaxEdits : log[id] = 0

(* The service has answered for an operation.                              *)
Settled(id) == log[id] > 0 \/ id \in refused

(* Every operation the open report has recorded is in its queue, in a      *)
(* batch on the way, or in the log, and in the log once, unless the        *)
(* service has told the page that it rejects it: neither a failed batch,   *)
(* nor an edit made while one is on the way, nor a batch sent again        *)
(* because its answer was lost, loses or doubles one (flushOps).           *)
NoOpLost ==
    /\ \A id \in ops.born + 1 .. ops.serial :
         id \in Ids(ops.queue) \/ (\E r \in Mine : id \in Ids(r.ops)) \/ Settled(id)
    /\ \A id \in 1..MaxEdits : log[id] <= 1

(* With its last page gone a report leaves no timer behind it that goes on *)
(* asking the service.                                                     *)
TimersEnd == hosts = {} ~> (hosts # {} \/ timers = {})

-----------------------------------------------------------------------------
(* Proofs, for any kinds of edits and any bounds.                          *)

Operation == [id : 1..MaxEdits, target : Targets \union {NoTarget}, again : BOOLEAN]

Batch == [ops : Seq(Operation), born : 0..MaxEdits, status : {"asked", "done", "failed"}]

\* No operation is twice in a sequence, none in two.
Once(s) == \A i, j \in DOMAIN s : s[i].id = s[j].id => i = j

Apart(s, t) == Ids(s) \cap Ids(t) = {}

Shape ==
  /\ hosts \subseteq Views /\ loading \in BOOLEAN /\ timers \subseteq Timers /\ lost \in 0..MaxLost
  /\ ops \in [queue : Seq(Operation), serial : 0..MaxEdits, born : 0..MaxEdits]
  /\ wire \subseteq Batch
  /\ log \in [1..MaxEdits -> {0, 1}] /\ refused \subseteq 1..MaxEdits

\* What is queued is of the report that is open; a batch is of it or older.
Numbered ==
  /\ ops.born <= ops.serial
  /\ Ids(ops.queue) \subseteq ops.born + 1 .. ops.serial
  /\ \A r \in wire : r.born <= ops.born /\ Ids(r.ops) \subseteq r.born + 1 .. ops.serial
  /\ \A id \in ops.serial + 1 .. MaxEdits : log[id] = 0

Separate ==
  /\ Once(ops.queue) /\ \A r \in wire : Once(r.ops)
  /\ \A r \in Mine : Apart(r.ops, ops.queue)
  /\ \A r, q \in Mine : r # q => Apart(r.ops, q.ops)

Kept ==
  /\ \A id \in ops.born + 1 .. ops.serial :
       id \in Ids(ops.queue) \/ (\E r \in Mine : id \in Ids(r.ops)) \/ Settled(id)
  /\ \A r \in wire : r.status = "done" => \A id \in Ids(r.ops) : Settled(id)

SyncInv == Shape /\ Numbered /\ Separate /\ Kept

\* An operation at the end of the queue.
LEMMA AppendIs ==
  ASSUME NEW s \in Seq(Operation), NEW o \in Operation
  PROVE  /\ Append(s, o) \in Seq(Operation)
         /\ Ids(Append(s, o)) = Ids(s) \union {o.id}
         /\ Once(s) /\ o.id \notin Ids(s) => Once(Append(s, o))
<1> DEFINE t == Append(s, o)
<1>1. /\ t \in Seq(Operation) /\ Len(s) \in Nat
      /\ DOMAIN s = 1..Len(s) /\ DOMAIN t = 1..Len(s) + 1
      /\ \A i \in 1..Len(s) : t[i] = s[i]
      /\ t[Len(s) + 1] = o
  BY AppendProperties
<1> HIDE DEF t
<1>2. Ids(t) = Ids(s) \union {o.id}
  BY <1>1 DEF Ids
<1>3. ASSUME Once(s), o.id \notin Ids(s) PROVE Once(t)
  BY <1>1, <1>3 DEF Once, Ids
<1> QED BY <1>1, <1>2, <1>3 DEF t

\* A batch before the queue.
LEMMA JoinIs ==
  ASSUME NEW s \in Seq(Operation), NEW q \in Seq(Operation)
  PROVE  /\ s \o q \in Seq(Operation)
         /\ Ids(s \o q) = Ids(s) \union Ids(q)
         /\ Once(s) /\ Once(q) /\ Apart(s, q) => Once(s \o q)
<1> DEFINE t == s \o q
<1>1. /\ t \in Seq(Operation) /\ Len(s) \in Nat /\ Len(q) \in Nat
      /\ DOMAIN s = 1..Len(s) /\ DOMAIN q = 1..Len(q) /\ DOMAIN t = 1..Len(s) + Len(q)
      /\ \A i \in 1..Len(s) : t[i] = s[i]
      /\ \A i \in Len(s) + 1 .. Len(s) + Len(q) : t[i] = q[i - Len(s)]
  BY ConcatProperties
<1> HIDE DEF t
<1>2. \A i \in 1..Len(q) : t[Len(s) + i] = q[i]
  BY <1>1
<1>3. \A i \in DOMAIN t : i \in DOMAIN s \/ \E k \in DOMAIN q : i = Len(s) + k
  <2> TAKE i \in DOMAIN t
  <2>1. i \in 1..Len(s) \/ i - Len(s) \in 1..Len(q)
    BY <1>1
  <2> QED BY <1>1, <2>1
<1>4. Ids(t) = Ids(s) \union Ids(q)
  <2>1. \A i \in DOMAIN t : t[i].id \in Ids(s) \union Ids(q)
    BY <1>1, <1>2, <1>3 DEF Ids
  <2>2. \A i \in DOMAIN s : i \in DOMAIN t /\ t[i] = s[i]
    BY <1>1
  <2>3. \A i \in DOMAIN q : Len(s) + i \in DOMAIN t /\ t[Len(s) + i] = q[i]
    BY <1>1, <1>2
  <2> QED BY <2>1, <2>2, <2>3 DEF Ids
<1>5. ASSUME Once(s), Once(q), Apart(s, q) PROVE Once(t)
  <2> SUFFICES ASSUME NEW i \in DOMAIN t, NEW j \in DOMAIN t, t[i].id = t[j].id PROVE i = j
    BY DEF Once
  <2>0. \A a \in DOMAIN s, b \in DOMAIN q : s[a].id # q[b].id
    BY <1>5 DEF Apart, Ids
  <2>a. /\ \A a \in DOMAIN s : t[a] = s[a]
        /\ \A b \in DOMAIN q : t[Len(s) + b] = q[b]
    BY <1>1, <1>2
  <2>1. CASE i \in DOMAIN s /\ j \in DOMAIN s
    BY <1>5, <2>1, <2>a DEF Once
  <2>2. ASSUME NEW k \in DOMAIN q, NEW l \in DOMAIN q, i = Len(s) + k, j = Len(s) + l PROVE i = j
    <3>1. q[k].id = q[l].id
      BY <2>2, <2>a
    <3> QED BY <1>5, <2>2, <3>1 DEF Once
  <2>3. ASSUME i \in DOMAIN s, NEW l \in DOMAIN q, j = Len(s) + l PROVE FALSE
    BY <2>0, <2>3, <2>a
  <2>4. ASSUME j \in DOMAIN s, NEW l \in DOMAIN q, i = Len(s) + l PROVE FALSE
    BY <2>0, <2>4, <2>a
  <2> QED BY <1>3, <2>1, <2>2, <2>3, <2>4
<1> QED BY <1>1, <1>4, <1>5 DEF t

\* A batch that goes back keeps its operations.
LEMMA AgainIs ==
  ASSUME NEW s \in Seq(Operation)
  PROVE  LET t == [i \in DOMAIN s |-> [s[i] EXCEPT !.again = TRUE]]
         IN  t \in Seq(Operation) /\ Ids(t) = Ids(s) /\ (Once(s) => Once(t))
<1> DEFINE t == [i \in DOMAIN s |-> [s[i] EXCEPT !.again = TRUE]]
<1>1. Len(s) \in Nat /\ DOMAIN s = 1..Len(s) /\ \A i \in DOMAIN s : s[i] \in Operation
  BY LenProperties, ElementOfSeq
<1>2. \A i \in DOMAIN s : [s[i] EXCEPT !.again = TRUE] \in Operation /\ [s[i] EXCEPT !.again = TRUE].id = s[i].id
  BY <1>1 DEF Operation
<1>3. DOMAIN t = DOMAIN s /\ \A i \in DOMAIN s : t[i] \in Operation /\ t[i].id = s[i].id
  BY <1>2
<1>4. t \in [1..Len(s) -> Operation]
  BY <1>1, <1>2
<1>5. t \in Seq(Operation)
  BY <1>1, <1>4, SeqDef
<1> HIDE DEF t
<1> QED BY <1>3, <1>5 DEF Ids, Once, t

\* The service finds an operation of a batch once.
LEMMA OneCopy ==
  ASSUME NEW s, Once(s), NEW id
  PROVE  Cardinality(Copies(s, id)) = IF id \in Ids(s) THEN 1 ELSE 0
<1>1. CASE id \in Ids(s)
  <2>1. PICK i \in DOMAIN s : s[i].id = id
    BY <1>1 DEF Ids
  <2>2. Copies(s, id) = {i}
    BY <2>1 DEF Copies, Once
  <2> QED BY <1>1, <2>2, FS_Singleton
<1>2. CASE id \notin Ids(s)
  <2>1. Copies(s, id) = {}
    BY <1>2 DEF Copies, Ids
  <2> QED BY <1>2, <2>1, FS_EmptySet
<1> QED BY <1>1, <1>2

\* Steps that leave the operations where they are.
LEMMA StillIs ==
  ASSUME SyncInv, UNCHANGED <<ops, wire, log, refused>>
  PROVE  Numbered' /\ Separate' /\ Kept'
BY DEF SyncInv, Numbered, Separate, Kept, Mine, Settled

\* The last page of the report goes: what was recorded is of no open report.
LEMMA StopKeeps ==
  ASSUME SyncAssumption, SyncInv, NEW t \in Timers, PollStops(t)
  PROVE  SyncInv'
<1>1. Shape'
  <2>1. Fresh(ops.serial) \in [queue : Seq(Operation), serial : 0..MaxEdits, born : 0..MaxEdits]
    <3>1. << >> \in Seq(Operation)
      OBVIOUS
    <3> QED BY <3>1 DEF SyncInv, Shape, Fresh
  <2>2. ops' \in {ops, Fresh(ops.serial)} /\ wire' \subseteq wire /\ timers' \subseteq timers
    BY DEF PollStops
  <2> QED BY <2>1, <2>2 DEF SyncInv, Shape, PollStops
<1>2. CASE hosts # {}
  BY <1>1, <1>2, StillIs DEF PollStops, SyncInv
<1>3. CASE hosts = {}
  <2>1. /\ ops' = [queue |-> << >>, serial |-> ops.serial, born |-> ops.serial]
        /\ wire' \subseteq wire /\ log' = log /\ refused' = refused
    BY <1>3 DEF PollStops, Fresh
  <2>2. Ids(ops'.queue) = {} /\ Once(ops'.queue)
    BY <2>1 DEF Ids, Once
  <2>3. /\ ops'.serial = ops.serial /\ ops'.born = ops.serial /\ ops.serial \in Int /\ ops.born \in Int
        /\ \A r \in wire' : r \in wire /\ r.born \in Int
    BY <2>1 DEF SyncInv, Shape, Batch
  <2>4. Numbered'
    BY <2>1, <2>2, <2>3 DEF SyncInv, Numbered
  <2>5. \A r \in Mine' : Ids(r.ops) = {}
    BY <2>3 DEF Mine, SyncInv, Numbered
  <2>6. Separate'
    BY <2>2, <2>3, <2>5 DEF SyncInv, Separate, Apart, Mine
  <2>7. Kept'
    BY <2>1, <2>3 DEF SyncInv, Kept, Settled
  <2> QED BY <1>1, <2>4, <2>6, <2>7 DEF SyncInv
<1> QED BY <1>2, <1>3

\* An edit is queued.
LEMMA RecordKeeps ==
  ASSUME SyncAssumption, SyncInv, NEW target \in Targets \union {NoTarget}, Record(target), UNCHANGED <<wire, log, refused>>
  PROVE  /\ ops' \in [queue : Seq(Operation), serial : 0..MaxEdits, born : 0..MaxEdits]
         /\ Numbered' /\ Separate' /\ Kept'
<1>1. /\ ops = [queue |-> ops.queue, serial |-> ops.serial, born |-> ops.born] /\ ops.queue \in Seq(Operation)
      /\ ops.serial \in 0..MaxEdits /\ ops.born \in 0..MaxEdits /\ MaxEdits \in Nat /\ ops.born <= ops.serial
      /\ ops.serial < MaxEdits /\ wire \subseteq Batch
  BY DEF SyncInv, Shape, Numbered, Record, SyncAssumption
<1>2. Op(target) \in Operation /\ Op(target).id = ops.serial + 1
  BY <1>1 DEF Op, Operation
<1>3. ops' = [queue |-> Append(ops.queue, Op(target)), serial |-> ops.serial + 1, born |-> ops.born]
  BY <1>1 DEF Record
<1> DEFINE id == ops.serial + 1
<1>4. id \notin Ids(ops.queue)
  BY <1>1 DEF SyncInv, Numbered
<1>5. /\ ops'.queue \in Seq(Operation) /\ Ids(ops'.queue) = Ids(ops.queue) \union {id}
      /\ Once(ops'.queue)
  BY <1>1, <1>2, <1>3, <1>4, AppendIs DEF SyncInv, Separate
<1>6. ops'.serial = id /\ ops'.born = ops.born
  BY <1>3
<1>7. ops' \in [queue : Seq(Operation), serial : 0..MaxEdits, born : 0..MaxEdits]
  BY <1>1, <1>3, <1>5
<1>8. Numbered'
  <2>1. ops.born + 1 .. ops.serial \subseteq ops.born + 1 .. id /\ id \in ops.born + 1 .. id
    BY <1>1
  <2>2. Ids(ops'.queue) \subseteq ops'.born + 1 .. ops'.serial
    BY <1>5, <1>6, <2>1 DEF SyncInv, Numbered
  <2>3. ASSUME NEW r \in wire PROVE r.born <= ops.born /\ Ids(r.ops) \subseteq r.born + 1 .. id
    <3>1. r.born \in Int /\ r.born <= ops.born /\ Ids(r.ops) \subseteq r.born + 1 .. ops.serial
      BY <1>1 DEF SyncInv, Numbered, Batch
    <3>2. r.born + 1 .. ops.serial \subseteq r.born + 1 .. id
      BY <1>1, <3>1
    <3> QED BY <3>1, <3>2
  <2>4. \A k \in id + 1 .. MaxEdits : log[k] = 0
    BY <1>1 DEF SyncInv, Numbered
  <2> QED BY <1>1, <1>6, <2>2, <2>3, <2>4 DEF Numbered
<1>9. Mine' = Mine
  BY <1>6 DEF Mine
<1>10. Separate'
  <2>1. \A r \in Mine : id \notin Ids(r.ops)
    BY <1>1 DEF SyncInv, Numbered, Mine
  <2> QED BY <1>5, <1>9, <2>1 DEF SyncInv, Separate, Apart
<1>11. Kept'
  <2> SUFFICES ASSUME NEW k \in ops'.born + 1 .. ops'.serial
               PROVE  k \in Ids(ops'.queue) \/ (\E r \in Mine' : k \in Ids(r.ops)) \/ Settled(k)'
    BY DEF SyncInv, Kept, Settled
  <2>1. k = id \/ k \in ops.born + 1 .. ops.serial
    BY <1>1, <1>6
  <2> QED BY <1>5, <1>9, <2>1 DEF SyncInv, Kept, Settled
<1> QED BY <1>7, <1>8, <1>10, <1>11

\* The queue becomes a batch.
LEMMA FlushKeeps ==
  ASSUME SyncAssumption, SyncInv, FlushOps
  PROVE  SyncInv'
<1>1. /\ ops = [queue |-> ops.queue, serial |-> ops.serial, born |-> ops.born] /\ ops.queue \in Seq(Operation)
      /\ ops.serial \in 0..MaxEdits /\ ops.born \in 0..MaxEdits
  BY DEF SyncInv, Shape
<1>2. ops' = [queue |-> << >>, serial |-> ops.serial, born |-> ops.born]
  BY <1>1 DEF FlushOps
<1>3. Ids(<< >>) = {} /\ Once(<< >>) /\ << >> \in Seq(Operation)
  BY DEF Ids, Once
<1> DEFINE b == [ops |-> ops.queue, born |-> ops.born, status |-> "asked"]
<1>4. b \in Batch
  BY <1>1 DEF Batch
<1>5. (wire' = wire /\ Ids(ops.queue) = {}) \/ wire' = wire \union {b}
  BY <1>3 DEF FlushOps
<1>6. Shape'
  BY <1>2, <1>3, <1>4, <1>5 DEF SyncInv, Shape, FlushOps
<1>7. /\ ops'.queue = << >> /\ ops'.serial = ops.serial /\ ops'.born = ops.born /\ log' = log /\ refused' = refused
      /\ b.ops = ops.queue /\ b.born = ops.born /\ b.status = "asked"
  BY <1>2 DEF FlushOps
<1> HIDE DEF b
<1>8. Numbered'
  BY <1>1, <1>3, <1>5, <1>7 DEF SyncInv, Numbered
<1>9. (Mine' = Mine /\ Ids(ops.queue) = {}) \/ Mine' = Mine \union {b}
  BY <1>5, <1>7 DEF Mine
<1>10. Separate'
  BY <1>3, <1>5, <1>7, <1>9 DEF SyncInv, Separate, Apart
<1>11. Kept'
  BY <1>5, <1>7, <1>9 DEF SyncInv, Kept, Settled
<1> QED BY <1>6, <1>8, <1>10, <1>11 DEF SyncInv

\* A batch is answered on the page; one that failed goes back.
LEMMA FlushedKeeps ==
  ASSUME SyncAssumption, SyncInv, NEW r \in wire, Flushed(r)
  PROVE  SyncInv'
<1>1. /\ ops = [queue |-> ops.queue, serial |-> ops.serial, born |-> ops.born] /\ ops.queue \in Seq(Operation)
      /\ ops.serial \in 0..MaxEdits /\ ops.born \in 0..MaxEdits /\ r.ops \in Seq(Operation)
      /\ r \in Mine /\ wire' = wire \ {r} /\ log' = log /\ refused' = refused
  BY DEF SyncInv, Shape, Batch, Flushed
<1> DEFINE again == [i \in DOMAIN r.ops |-> [r.ops[i] EXCEPT !.again = TRUE]]
<1>2. again \in Seq(Operation) /\ Ids(again) = Ids(r.ops) /\ Once(again)
  BY <1>1, AgainIs DEF SyncInv, Separate
<1>3. ops' = IF r.status = "done" THEN ops ELSE [queue |-> again \o ops.queue, serial |-> ops.serial, born |-> ops.born]
  <2>1. ops' = IF r.status = "done" THEN ops ELSE [ops EXCEPT !.queue = again \o ops.queue]
    BY DEF Flushed
  <2>2. \A q : [ops EXCEPT !.queue = q] = [queue |-> q, serial |-> ops.serial, born |-> ops.born]
    BY DEF SyncInv, Shape
  <2> HIDE DEF again
  <2> QED BY <2>1, <2>2
<1> HIDE DEF again
<1>4. Apart(again, ops.queue)
  BY <1>1, <1>2 DEF SyncInv, Separate, Apart
<1>5. /\ again \o ops.queue \in Seq(Operation) /\ Ids(again \o ops.queue) = Ids(r.ops) \union Ids(ops.queue)
      /\ Once(again \o ops.queue)
  BY <1>1, <1>2, <1>4, JoinIs DEF SyncInv, Separate
<1>6. Shape'
  <2>1. ops' \in [queue : Seq(Operation), serial : 0..MaxEdits, born : 0..MaxEdits]
    BY <1>1, <1>3, <1>5
  <2>2. UNCHANGED <<hosts, loading, timers, lost>>
    BY DEF Flushed
  <2> QED BY <1>1, <2>1, <2>2 DEF SyncInv, Shape
<1>7. ops'.serial = ops.serial /\ ops'.born = ops.born /\ Mine' = Mine \ {r}
  BY <1>1, <1>3 DEF Mine
<1>8. CASE r.status = "done"
  <2>1. ops' = ops
    BY <1>3, <1>8
  <2>2. Numbered' /\ Separate'
    BY <1>1, <1>7, <2>1 DEF SyncInv, Numbered, Separate
  <2>3. Kept'
    BY <1>1, <1>7, <1>8, <2>1 DEF SyncInv, Kept, Settled
  <2> QED BY <1>6, <2>2, <2>3 DEF SyncInv
<1>9. CASE r.status # "done"
  <2>1. ops'.queue = again \o ops.queue
    BY <1>3, <1>9
  <2>2. Ids(ops'.queue) = Ids(r.ops) \union Ids(ops.queue) /\ Once(ops'.queue)
    BY <1>5, <2>1
  <2>3. Ids(r.ops) \subseteq ops.born + 1 .. ops.serial
    BY <1>1 DEF SyncInv, Numbered, Mine
  <2>4. Numbered'
    BY <1>1, <1>7, <2>2, <2>3 DEF SyncInv, Numbered
  <2>5. Separate'
    <3>1. \A q \in Mine' : q \in Mine /\ q # r /\ Apart(q.ops, r.ops) /\ Apart(q.ops, ops.queue)
      BY <1>1, <1>7 DEF SyncInv, Separate
    <3>2. \A q \in Mine' : Apart(q.ops, ops'.queue)
      BY <2>2, <3>1 DEF Apart
    <3> QED BY <1>1, <2>2, <3>1, <3>2 DEF SyncInv, Separate
  <2>6. Kept'
    BY <1>1, <1>7, <2>2 DEF SyncInv, Kept, Settled
  <2> QED BY <1>6, <2>4, <2>5, <2>6 DEF SyncInv
<1> QED BY <1>8, <1>9

\* A batch gets another status, or goes with the report it was of; an operation
\* it holds may be recorded meanwhile.
LEMMA StatusKeeps ==
  ASSUME SyncAssumption, SyncInv, NEW r \in wire, NEW status \in {"done", "failed"},
         wire' = (wire \ {r}) \union IF r \in Mine THEN {[r EXCEPT !.status = status]} ELSE {},
         UNCHANGED <<hosts, loading, ops, timers>>, lost' \in 0..MaxLost,
         log' \in [1..MaxEdits -> {0, 1}],
         \A id \in 1..MaxEdits : log'[id] = log[id] \/ (id \in Ids(r.ops) /\ log'[id] = 1),
         refused \subseteq refused', refused' \subseteq 1..MaxEdits,
         status = "done" => \A id \in Ids(r.ops) : Settled(id)'
  PROVE  SyncInv'
<1> DEFINE a == [r EXCEPT !.status = status]
<1>1. /\ r \in Batch /\ ops.serial \in 0..MaxEdits /\ ops.born \in 0..MaxEdits /\ r.born \in 0..MaxEdits
      /\ Ids(r.ops) \subseteq r.born + 1 .. ops.serial /\ r.born <= ops.born /\ Once(r.ops) /\ MaxEdits \in Nat
  BY DEF SyncInv, Shape, Batch, Numbered, Separate, SyncAssumption
<1>2. a \in Batch /\ a.ops = r.ops /\ a.born = r.born /\ a.status = status
  BY <1>1 DEF Batch
<1> HIDE DEF a
<1>3. wire' \subseteq (wire \ {r}) \union {a} /\ (r \in Mine => wire' = (wire \ {r}) \union {a}) /\ wire \ {r} \subseteq wire'
  BY DEF a
<1>4. Shape'
  BY <1>2, <1>3 DEF SyncInv, Shape
<1>5. Numbered'
  <2>1. \A id \in ops.serial + 1 .. MaxEdits : log'[id] = 0
    BY <1>1 DEF SyncInv, Numbered
  <2> QED BY <1>1, <1>2, <1>3, <2>1 DEF SyncInv, Numbered
<1>6. IF r \in Mine THEN Mine' = (Mine \ {r}) \union {a} ELSE Mine' = Mine
  BY <1>2, <1>3 DEF Mine
<1>7. Separate'
  <2>1. \A q \in wire' : Once(q.ops)
    BY <1>1, <1>2, <1>3 DEF SyncInv, Separate
  <2>2. \A q \in Mine' : Apart(q.ops, ops'.queue)
    BY <1>2, <1>6 DEF SyncInv, Separate
  <2>3. \A p, q \in Mine' : p # q => Apart(p.ops, q.ops)
    BY <1>2, <1>6 DEF SyncInv, Separate
  <2> QED BY <2>1, <2>2, <2>3 DEF SyncInv, Separate
<1>8. Kept'
  <2>1. ASSUME NEW id \in ops.born + 1 .. ops.serial
        PROVE  id \in Ids(ops.queue) \/ (\E q \in Mine' : id \in Ids(q.ops)) \/ Settled(id)'
    <3>1. id \in 1..MaxEdits /\ (Settled(id) => Settled(id)')
      BY <1>1 DEF SyncInv, Shape, Settled
    <3> QED BY <1>2, <1>6, <3>1 DEF SyncInv, Kept
  <2>2. ASSUME NEW q \in wire', q.status = "done", NEW id \in Ids(q.ops) PROVE Settled(id)'
    <3>1. CASE q = a
      BY <1>2, <2>2, <3>1
    <3>2. CASE q \in wire
      <4>1. Settled(id)
        BY <2>2, <3>2 DEF SyncInv, Kept
      <4>2. q.born \in 0..MaxEdits /\ id \in q.born + 1 .. ops.serial
        BY <2>2, <3>2 DEF SyncInv, Numbered, Shape, Batch
      <4>3. id \in 1..MaxEdits
        BY <1>1, <4>2
      <4> QED BY <4>1, <4>3 DEF Settled
    <3> QED BY <1>3, <3>1, <3>2
  <2> QED BY <2>1, <2>2 DEF Kept, Settled
<1> QED BY <1>4, <1>5, <1>7, <1>8 DEF SyncInv

\* The service records a batch, or it is lost.
LEMMA ServeKeeps ==
  ASSUME SyncAssumption, SyncInv, NEW r \in wire, Serve(r) \/ Lose(r)
  PROVE  SyncInv'
<1>1. /\ log \in [1..MaxEdits -> {0, 1}] /\ Once(r.ops) /\ lost \in 0..MaxLost /\ MaxLost \in Nat
      /\ refused \subseteq 1..MaxEdits
  BY DEF SyncInv, Shape, Separate, SyncAssumption
<1>2. CASE Serve(r)
  <2>1. PICK rejected \in SUBSET Rejectable(r.ops) :
          /\ log' = [id \in 1..MaxEdits |->
                      IF log[id] = 0 /\ id \notin rejected THEN Cardinality(Copies(r.ops, id)) ELSE log[id]]
          /\ \/ /\ wire' = (wire \ {r}) \union IF r \in Mine THEN {[r EXCEPT !.status = "done"]} ELSE {}
                /\ refused' = refused \union rejected
                /\ UNCHANGED lost
             \/ /\ lost < MaxLost /\ r \in Mine
                /\ wire' = (wire \ {r}) \union {[r EXCEPT !.status = "failed"]}
                /\ lost' = lost + 1
                /\ UNCHANGED refused
    BY <1>2 DEF Serve
  <2>2. \A id : Cardinality(Copies(r.ops, id)) = IF id \in Ids(r.ops) THEN 1 ELSE 0
    BY <1>1, OneCopy
  <2>3. /\ log' \in [1..MaxEdits -> {0, 1}]
        /\ \A id \in 1..MaxEdits : log'[id] = log[id] \/ (id \in Ids(r.ops) /\ log'[id] = 1)
        /\ \A id \in 1..MaxEdits : id \in Ids(r.ops) => log'[id] > 0 \/ id \in rejected
    <3>1. \A id \in 1..MaxEdits : log'[id] = IF log[id] = 0 /\ id \notin rejected /\ id \in Ids(r.ops) THEN 1 ELSE log[id]
      BY <2>1, <2>2
    <3>2. DOMAIN log' = 1..MaxEdits /\ log' = [id \in 1..MaxEdits |-> log'[id]]
      BY <2>1
    <3> QED BY <1>1, <3>1, <3>2
  <2>4. Ids(r.ops) \subseteq 1..MaxEdits /\ rejected \subseteq 1..MaxEdits
    <3>1. r.ops \in Seq(Operation) /\ \A i \in DOMAIN r.ops : r.ops[i] \in Operation
      BY ElementOfSeq, LenProperties DEF SyncInv, Shape, Batch
    <3> QED BY <2>1, <3>1 DEF Ids, Operation, Rejectable
  <2>5. UNCHANGED <<hosts, loading, ops, timers>>
    BY <1>2 DEF Serve
  <2>6. lost' \in 0..MaxLost /\ refused \subseteq refused' /\ refused' \subseteq 1..MaxEdits
    BY <1>1, <2>1, <2>4
  <2>7. CASE /\ wire' = (wire \ {r}) \union IF r \in Mine THEN {[r EXCEPT !.status = "done"]} ELSE {}
             /\ refused' = refused \union rejected
    <3>1. \A id \in Ids(r.ops) : Settled(id)'
      BY <2>3, <2>4, <2>7 DEF Settled
    <3> QED BY <2>3, <2>5, <2>6, <2>7, <3>1, StatusKeeps
  <2>8. CASE wire' = (wire \ {r}) \union IF r \in Mine THEN {[r EXCEPT !.status = "failed"]} ELSE {}
    BY <2>3, <2>5, <2>6, <2>8, StatusKeeps
  <2> QED BY <2>1, <2>7, <2>8
<1>3. CASE Lose(r)
  <2>1. lost' \in 0..MaxLost /\ UNCHANGED <<hosts, loading, ops, timers, log, refused>>
    BY <1>1, <1>3 DEF Lose
  <2>2. wire' = (wire \ {r}) \union IF r \in Mine THEN {[r EXCEPT !.status = "failed"]} ELSE {}
    BY <1>3 DEF Lose
  <2> QED BY <1>1, <2>1, <2>2, StatusKeeps
<1> QED BY <1>2, <1>3

\* The strengthening: the operations of the queue and of every batch are
\* numbered from where the report was opened, none is in two of them, and those
\* of a batch that was answered have been recorded or rejected.
THEOREM SyncInvariance ==
  ASSUME SyncAssumption
  PROVE  Spec => []SyncInv
<1>1. Init => SyncInv
  <2> SUFFICES ASSUME Init PROVE SyncInv
    OBVIOUS
  <2>1. ops = [queue |-> << >>, serial |-> 0, born |-> 0] /\ wire = {} /\ Mine = {}
    BY DEF Init, Fresh, Mine
  <2>2. << >> \in Seq(Operation) /\ Ids(<< >>) = {} /\ Once(<< >>)
    BY DEF Ids, Once
  <2>3. Shape
    <3>1. log \in [1..MaxEdits -> {0, 1}] /\ refused \subseteq 1..MaxEdits
      BY DEF Init
    <3>2. ops \in [queue : Seq(Operation), serial : 0..MaxEdits, born : 0..MaxEdits]
      BY <2>1, <2>2 DEF SyncAssumption
    <3>3. /\ hosts \subseteq Views /\ timers \subseteq Timers
          /\ lost \in 0..MaxLost /\ wire \subseteq Batch
      BY DEF Init, SyncAssumption
    <3>4. loading \in BOOLEAN
      BY Zenon DEF Init
    <3> QED BY <3>1, <3>2, <3>3, <3>4 DEF Shape
  <2>4. Numbered
    BY <2>1, <2>2 DEF Numbered, Init, SyncAssumption
  <2>5. Separate
    BY <2>1, <2>2 DEF Separate
  <2>6. Kept
    BY <2>1 DEF Kept
  <2> QED BY <2>3, <2>4, <2>5, <2>6 DEF SyncInv
<1>2. SyncInv /\ [Next]_vars => SyncInv'
  <2> SUFFICES ASSUME SyncInv, [Next]_vars PROVE SyncInv'
    OBVIOUS
  <2>1. ASSUME NEW h \in Views, Mount(h) \/ Close(h) PROVE SyncInv'
    <3>1. Shape'
      BY <2>1 DEF Mount, Close, SyncInv, Shape
    <3>2. UNCHANGED <<ops, wire, log, refused>>
      BY <2>1 DEF Mount, Close
    <3> QED BY <3>1, <3>2, StillIs DEF SyncInv
  <2>2. CASE InitOpsSync
    <3>1. Shape'
      BY <2>2 DEF InitOpsSync, SyncInv, Shape, Timers
    <3>2. UNCHANGED <<ops, wire, log, refused>>
      BY <2>2 DEF InitOpsSync
    <3> QED BY <3>1, <3>2, StillIs DEF SyncInv
  <2>3. ASSUME NEW t \in Timers, PollStops(t) PROVE SyncInv'
    BY <2>3, StopKeeps
  <2>4. ASSUME NEW target \in Targets \union {NoTarget}, Record(target) \/ UNCHANGED ops,
               timers' = timers \union {"flush"}, UNCHANGED <<hosts, loading, wire, log, lost, refused>>
        PROVE  SyncInv'
    <3>1. timers' \subseteq Timers
      BY <2>4 DEF SyncInv, Shape, Timers
    <3>2. CASE UNCHANGED ops
      <4>1. Shape'
        BY <2>4, <3>1, <3>2 DEF SyncInv, Shape
      <4> QED BY <2>4, <3>2, <4>1, StillIs DEF SyncInv
    <3>3. CASE Record(target)
      <4>1. /\ ops' \in [queue : Seq(Operation), serial : 0..MaxEdits, born : 0..MaxEdits]
            /\ Numbered' /\ Separate' /\ Kept'
        BY <2>4, <3>3, RecordKeeps
      <4>2. Shape'
        BY <2>4, <3>1, <4>1 DEF SyncInv, Shape
      <4> QED BY <4>1, <4>2 DEF SyncInv
    <3> QED BY <2>4, <3>2, <3>3
  <2>5. ASSUME NEW target \in Targets, EnqueueOp(target) PROVE SyncInv'
    BY <2>4, <2>5 DEF EnqueueOp
  <2>6. CASE EnqueueStructuralOp
    BY <2>4, <2>6 DEF EnqueueStructuralOp
  <2>7. CASE FlushOps
    BY <2>7, FlushKeeps
  <2>8. ASSUME NEW r \in wire, Flushed(r) \/ Serve(r) \/ Lose(r) PROVE SyncInv'
    BY <2>8, FlushedKeeps, ServeKeeps
  <2>9. CASE UNCHANGED vars
    <3>1. Shape' /\ UNCHANGED <<ops, wire, log, refused>>
      BY <2>9 DEF vars, SyncInv, Shape
    <3> QED BY <3>1, StillIs DEF SyncInv
  <2> QED BY <2>1, <2>2, <2>3, <2>5, <2>6, <2>7, <2>8, <2>9 DEF Next
<1> QED BY <1>1, <1>2, PTL DEF Spec

\* The queue, the batches and the log keep to their types.
THEOREM SyncTyped ==
  ASSUME SyncAssumption
  PROVE  Spec => []TypeOK
<1>1. SyncInv => TypeOK
  <2> SUFFICES ASSUME SyncInv PROVE TypeOK
    OBVIOUS
  <2>1. ops.serial \in 0..MaxEdits /\ ops.born \in 0..MaxEdits /\ ops.born <= ops.serial
    BY DEF SyncInv, Shape, Numbered
  <2>2. Ids(ops.queue) \subseteq 1..ops.serial
    BY <2>1 DEF SyncInv, Numbered
  <2>3. log \in [1..MaxEdits -> Nat]
    BY DEF SyncInv, Shape
  <2> QED BY <2>1, <2>2, <2>3 DEF SyncInv, Shape, Numbered, TypeOK
<1> QED BY <1>1, SyncInvariance, PTL

\* No operation of the open report is lost, but for those the service has told
\* the page it rejects, and none is recorded twice, however its batches overlap,
\* fail and are sent again (designer.js, flushOps).
THEOREM NoOperationLost ==
  ASSUME SyncAssumption
  PROVE  Spec => []NoOpLost
<1>1. SyncInv => NoOpLost
  <2> SUFFICES ASSUME SyncInv PROVE NoOpLost
    OBVIOUS
  <2>1. \A id \in 1..MaxEdits : log[id] <= 1
    BY DEF SyncInv, Shape
  <2> QED BY <2>1 DEF SyncInv, Kept, NoOpLost, Settled
<1> QED BY <1>1, SyncInvariance, PTL
=============================================================================
