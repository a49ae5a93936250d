----------------------------- MODULE PortalDeploy -----------------------------
(***************************************************************************)
(* The page of the cluster's data sources (cluster-datasource.js): a list  *)
(* by filter, the state of the chosen database, and the two operations on  *)
(* it.  Initialising and deploying both run as a plan that is streamed, is *)
(* reviewed by the user, and is then streamed again as it is executed.     *)
(***************************************************************************)
EXTENDS PageRequests

CONSTANTS Dbs, Domains, DomainOf,   \* data sources, and the domain of each
          First,                    \* the first data source of each list
          None,
          MaxVersion,               \* versions a module can be deployed in
          MaxChanges,               \* bound: filters, choices of a database, plans, reloads
          MaxWire                   \* bound: lists and streams on the way

DeployAssumption ==
    /\ MaxVersion \in Nat \ {0} /\ MaxChanges \in Nat /\ MaxWire \in Nat \ {0}
    /\ \A list \in SUBSET Dbs \ {{}} : First[list] \in list

VARIABLES page, wire, srv

vars == <<page, wire, srv>>

Versions == 1..MaxVersion

NoState == [of |-> None, initialized |-> FALSE, applied |-> 0, status |-> "none"]

NoPlan == [of |-> None, version |-> 0]

NoReview == [key |-> "none", status |-> "none", db |-> None, version |-> 0, plan |-> NoPlan]

Init ==
    /\ page = [dbState |-> NoState, loaded |-> FALSE, dsKey |-> None, error |-> FALSE,
               picked |-> FALSE, force |-> FALSE, version |-> 0, review |-> NoReview,
               filter |-> None, list |-> {}, selected |-> None, tab |-> "", running |-> FALSE, initAbort |-> 0,
               agreed |-> {}, changes |-> 0]
    /\ wire = {[kind |-> "list", of |-> None, version |-> 0, n |-> 1, status |-> "asked", got |-> NoState]}
    /\ srv = [d \in Dbs |-> [initialized |-> FALSE, applied |-> 0, status |-> "none"]]

Counted(p) == p.changes < MaxChanges /\ page' = [p EXCEPT !.changes = @ + 1]

-----------------------------------------------------------------------------
(* The state of the chosen database.  A request is called off by the next  *)
(* one and by another choice; what it still brings is dropped.             *)

Streams(w) == Pending(w, {"init-plan", "deploy-plan", "init", "deploy"})

Others(w) == {r \in w : r.kind # "state"}

Asked(w, kind, of, version) ==
    LET m == Cardinality(Others(w)) + 1
    IN  w \union {[kind |-> kind, of |-> of, version |-> version, status |-> "asked", got |-> NoState,
                   n |-> IF kind = "state" THEN 0 ELSE Min(1..m \ {r.n : r \in Others(w)})]}

RoomFor(w) == Cardinality(Others(w)) < MaxWire

Panel(p) == p.selected \in p.list

ResetBuildState(p) ==
    [p EXCEPT !.dbState = NoState, !.loaded = FALSE, !.dsKey = None, !.error = FALSE,
              !.picked = FALSE, !.force = FALSE, !.version = 0, !.review = NoReview]

LoadDbState(p, w) ==
    /\ page' = [p EXCEPT !.error = FALSE, !.dsKey = p.selected]
    /\ wire' = Asked(Others(w), "state", p.selected, 0)

(* Drawing the page loads the state when there is none, unless loading it  *)
(* failed.                                                                 *)
NeedsState(p, w) ==
    /\ Panel(p) /\ ~p.error /\ Pending(w, {"state"}) = {}
    /\ ~p.loaded \/ p.dsKey # p.selected

Drawn(p, w) == IF NeedsState(p, w) THEN LoadDbState(p, w) ELSE page' = p /\ wire' = w

StateAnswer(r) ==
    /\ r.kind = "state" /\ r.status # "asked"
    /\ Drawn(IF r.status = "done" THEN [page EXCEPT !.dbState = r.got, !.loaded = TRUE] ELSE [page EXCEPT !.error = TRUE], wire \ {r})
    /\ UNCHANGED srv

RetryDbState ==
    /\ Panel(page) /\ page.error /\ page.tab = "" /\ page.changes < MaxChanges
    /\ LoadDbState([page EXCEPT !.changes = @ + 1], wire) /\ UNCHANGED srv

(* The tab of the initialisation always loads.                             *)
SetTab(t) ==
    /\ t # page.tab /\ Panel(page) /\ page.changes < MaxChanges
    /\ LET p == [page EXCEPT !.tab = t, !.changes = @ + 1]
       IN  IF t = "init" THEN LoadDbState(p, wire) ELSE Drawn(p, wire)
    /\ UNCHANGED srv

-----------------------------------------------------------------------------
(* The list.                                                               *)

Listed(f) == {d \in Dbs : f = None \/ DomainOf[d] = f}

SetFilter(f) ==
    /\ f # page.filter /\ RoomFor(wire) /\ Counted([page EXCEPT !.filter = f])
    /\ wire' = Asked(wire, "list", f, 0) /\ UNCHANGED srv

Chosen(p, d) == ResetBuildState([p EXCEPT !.selected = d])

Corrected(p) ==
    IF p.list = {} THEN IF p.selected = None THEN p ELSE Chosen(p, None)
    ELSE IF p.selected \in p.list THEN p ELSE Chosen(p, First[p.list])

Kept(p, q, w) == IF p.selected = q.selected THEN w ELSE Others(w)

ListAnswer(r) ==
    /\ r.kind = "list" /\ r.status # "asked"
    /\ LET q == IF r.status = "done" THEN Corrected([page EXCEPT !.list = Listed(r.of)]) ELSE [page EXCEPT !.list = {}]
       IN  Drawn(q, Kept(page, q, wire \ {r}))
    /\ UNCHANGED srv

SelectRow(d) ==
    /\ d \in page.list \ {page.selected} /\ page.changes < MaxChanges
    /\ Drawn(Chosen([page EXCEPT !.changes = @ + 1], d), Others(wire))
    /\ UNCHANGED srv

-----------------------------------------------------------------------------
(* What can be done with a module of the database.                         *)

McScenario(s) ==
    CASE s.status = "failed" -> "retry"
      [] s.status # "failed" /\ s.applied = 0 -> "create"
      [] s.status # "failed" /\ s.applied \in 1..MaxVersion - 1 -> "upgrade"
      [] OTHER -> "current"

Matrix(p) == Panel(p) /\ p.tab = "" /\ Pending(wire, {"state"}) = {} /\ ~p.error /\ p.dbState.of # None

Pickable(p) == McScenario(p.dbState) # "current"

PickedCells(p) == p.picked /\ p.dbState.of # None /\ (Pickable(p) \/ p.force)

PickCell == Matrix(page) /\ Pickable(page) /\ page' = [page EXCEPT !.picked = ~@] /\ UNCHANGED <<wire, srv>>

PickVersion(v) ==
    /\ Matrix(page) /\ Pickable(page) /\ v > page.dbState.applied /\ v # page.version
    /\ page' = [page EXCEPT !.version = v, !.picked = TRUE]
    /\ UNCHANGED <<wire, srv>>

Installed(p) == p.dbState.applied # 0

Recreate ==
    /\ Matrix(page) /\ Installed(page) /\ ~page.force
    /\ page' = [page EXCEPT !.picked = TRUE, !.force = TRUE]
    /\ UNCHANGED <<wire, srv>>

SelectedVersion(p) == IF p.version = 0 THEN MaxVersion ELSE p.version

-----------------------------------------------------------------------------
(* The plan.                                                               *)

Started(p, kind, of, version, status, next) ==
    /\ RoomFor(wire)
    /\ wire' = Asked(wire, kind, of, version)
    /\ page' = [p EXCEPT !.running = TRUE, !.initAbort = (CHOOSE r \in wire' \ wire : TRUE).n, !.review = [next EXCEPT !.status = status]]
    /\ UNCHANGED srv

RunMcGate ==
    /\ Panel(page) /\ page.tab = "init" /\ ~page.running /\ page.review = NoReview /\ page.changes < MaxChanges
    /\ Started([page EXCEPT !.changes = @ + 1], "init-plan", page.selected, 0, "streaming", [NoReview EXCEPT !.key = "init", !.db = page.selected])

RunMcPlan ==
    /\ Panel(page) /\ page.tab = "" /\ ~page.running /\ page.review = NoReview /\ PickedCells(page) /\ page.changes < MaxChanges
    /\ Started([page EXCEPT !.changes = @ + 1], "deploy-plan", page.selected, SelectedVersion(page), "streaming",
               [NoReview EXCEPT !.key = "overview", !.db = page.selected, !.version = SelectedVersion(page)])

ReviewShown(p) == Panel(p) /\ p.review.key = IF p.tab = "init" THEN "init" ELSE "overview"

Approve ==
    /\ ReviewShown(page) /\ page.review.status = "ready"
    /\ page' = [page EXCEPT !.review.status = "approved", !.agreed = @ \union {[of |-> page.review.db, version |-> page.review.version]}]
    /\ UNCHANGED <<wire, srv>>

Back ==
    /\ ReviewShown(page) /\ page.review.status \in {"ready", "approved", "executed", "error"}
    /\ page' = [page EXCEPT !.review = NoReview, !.running = FALSE, !.initAbort = 0]
    /\ UNCHANGED <<wire, srv>>

ExecuteMcGateAfterReview ==
    /\ ReviewShown(page) /\ page.review.key = "init" /\ page.review.status = "approved" /\ ~page.running
    /\ Started(page, "init", page.review.db, 0, "executing", page.review)

ExecuteMcPlanAfterReview ==
    /\ ReviewShown(page) /\ page.review.key = "overview" /\ page.review.status = "approved" /\ ~page.running
    /\ Started(page, "deploy", page.review.db, page.review.version, "executing", page.review)

(* The button is there while a plan or cells are; it leaves the stream.    *)
Clear ==
    /\ Panel(page) /\ page.tab = "" /\ (PickedCells(page) \/ page.review.key = "overview")
    /\ page' = [page EXCEPT !.picked = FALSE, !.force = FALSE, !.version = 0, !.review = NoReview]
    /\ UNCHANGED <<wire, srv>>

(* The initialisation tab shows the button for every stream but a plan of  *)
(* its own; it calls off the stream that began last, if none ended since.  *)
StopMcInit ==
    /\ Panel(page) /\ page.tab = "init" /\ page.running /\ ~(page.review.key = "init" /\ page.review.status = "streaming")
    /\ page' = [page EXCEPT !.running = FALSE, !.initAbort = 0, !.review.status = IF @ = "executing" THEN "error" ELSE @]
    /\ wire' = wire \ {r \in Streams(wire) : r.n = page.initAbort}
    /\ UNCHANGED srv

-----------------------------------------------------------------------------
(* The events of the streams.                                              *)

HandleReviewEvent(p, r) ==
    IF p.review.key = "none" \/ p.review.status = "approved" THEN p
    ELSE IF r.status = "done" THEN [p EXCEPT !.review.status = "ready", !.review.plan = [of |-> r.of, version |-> r.version]]
    ELSE [p EXCEPT !.review.status = "error"]

HandleInit(p, r) ==
    IF p.review.status # "executing" THEN p
    ELSE IF r.status = "done" THEN [p EXCEPT !.review.status = "executed", !.running = FALSE, !.initAbort = 0, !.dbState = r.got]
    ELSE [p EXCEPT !.review.status = "error", !.running = FALSE, !.initAbort = 0]

HandleDeploy(p, r) ==
    IF r.status = "done"
    THEN [p EXCEPT !.review.status = IF p.review.key = "none" THEN @ ELSE "executed", !.running = FALSE, !.initAbort = 0,
                   !.picked = FALSE, !.force = FALSE, !.version = 0, !.dbState = r.got]
    ELSE [p EXCEPT !.review.status = IF p.review.key = "none" THEN @ ELSE "error"]

StreamEvent(r) ==
    /\ r.kind \in {"init-plan", "deploy-plan", "init", "deploy"} /\ r.status \in {"done", "failed"}
    /\ page' = CASE r.kind \in {"init-plan", "deploy-plan"} -> HandleReviewEvent(page, r)
                 [] r.kind = "init" -> HandleInit(page, r)
                 [] r.kind = "deploy" -> HandleDeploy(page, r)
    /\ wire' = Settled(wire, r, [r EXCEPT !.status = "told", !.got = NoState])
    /\ UNCHANGED srv

(* The stream closes a little later, and whatever runs then is not running.*)
StreamEnd(r) ==
    /\ r.status = "told"
    /\ Drawn([page EXCEPT !.running = FALSE, !.initAbort = 0], wire \ {r}) /\ UNCHANGED srv

-----------------------------------------------------------------------------
(* The service.                                                            *)

Now(s, d) == IF d = None THEN NoState ELSE [of |-> d, initialized |-> s[d].initialized, applied |-> s[d].applied, status |-> s[d].status]

Effect(r) ==
    CASE r.kind = "init" -> [srv EXCEPT ![r.of].initialized = TRUE]
      [] r.kind = "deploy" -> [srv EXCEPT ![r.of].applied = r.version, ![r.of].status = "ok"]
      [] OTHER -> srv

Serve(r) ==
    /\ r.status = "asked"
    /\ srv' = Effect(r)
    /\ wire' = Settled(wire, r, [r EXCEPT !.status = "done", !.got = IF r.kind \in {"state", "init", "deploy"} THEN Now(Effect(r), r.of) ELSE NoState])
    /\ UNCHANGED page

Refuse(r) ==
    /\ r.status = "asked"
    /\ srv' = IF r.kind = "deploy" THEN [srv EXCEPT ![r.of].status = "failed"] ELSE srv
    /\ wire' = Refused(wire, r) /\ UNCHANGED page

Answer(r) == StateAnswer(r) \/ ListAnswer(r) \/ StreamEvent(r) \/ StreamEnd(r)

Next == \/ RetryDbState \/ PickCell \/ Recreate \/ RunMcGate \/ RunMcPlan \/ Approve \/ Back \/ Clear \/ StopMcInit
        \/ ExecuteMcGateAfterReview \/ ExecuteMcPlanAfterReview
        \/ \E t \in {"", "init"} : SetTab(t)
        \/ \E f \in Domains \union {None} : SetFilter(f)
        \/ \E d \in Dbs : SelectRow(d)
        \/ \E v \in Versions : PickVersion(v)
        \/ \E r \in wire : Answer(r) \/ Serve(r) \/ Refuse(r)

Spec == Init /\ [][Next]_vars

-----------------------------------------------------------------------------

(* The state keeps to its types.                                          *)
TypeOK ==
    /\ page.list \subseteq Dbs /\ page.selected \in Dbs \union {None} /\ page.tab \in {"", "init"}
    /\ page.review.status \in {"none", "streaming", "ready", "approved", "executing", "executed", "error"}
    /\ \A d \in Dbs : srv[d].applied \in 0..MaxVersion /\ srv[d].status \in {"none", "ok", "failed"}

(* Nothing is executed that the user has not agreed to.                    *)
NothingUnapproved ==
    \A r \in Pending(wire, {"init", "deploy"}) : [of |-> r.of, version |-> r.version] \in page.agreed

(* The page does not stop loading: it has the state of its database, is    *)
(* getting it, or says that it could not.                                  *)
NeverStuck == Panel(page) => page.loaded \/ page.error \/ Pending(wire, {"state"}) # {}

-----------------------------------------------------------------------------
(* Wanted of the page, and not met by the code: README.md, section 7.      *)

(* The state on the page is that of the chosen database: a late answer     *)
(* does not spoil it (148-152, 748).                                       *)
StateIsSelected == page.dbState.of \in {None, page.selected}

(* One operation runs at a time.                                           *)
OneStream == Cardinality({r \in Streams(wire) : r.status # "told"}) <= 1

(* The plan that is reviewed is that of the operation it stands for.       *)
PlanIsReviewed ==
    page.review.status \in {"ready", "approved", "executing"} =>
        page.review.plan = [of |-> page.review.db, version |-> page.review.version]

(* When nothing is on the way the list is that of the filter.              *)
ListIsFiltered == wire = {} /\ page.list # {} => page.list = Listed(page.filter)
=============================================================================
