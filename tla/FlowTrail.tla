------------------------------- MODULE FlowTrail -------------------------------
(***************************************************************************)
(* The trail of a process instance: which of its steps are done, which is  *)
(* current and which are still to come.  The to-do centre and the task     *)
(* form each keep a copy of the computation (todo-center.js 340-517,       *)
(* task-form.js 169-375), which works from what the instance leaves        *)
(* behind: its tokens, its completed tasks and its comments.  The engine   *)
(* that moves the instance is not in the pages; it is modelled as far as   *)
(* the trail can see it.                                                   *)
(***************************************************************************)
EXTENDS PageRequests, SequencesExt

CONSTANTS Definitions,   \* the process definitions: records of a kind for every node and of the edges
          MaxMoves

TrailAssumption == MaxMoves \in Nat

VARIABLES page, wire, srv

vars == <<page, wire, srv>>

TrailNodeKinds == {"startEvent", "userTask", "serviceTask", "businessRuleTask", "callActivity", "subProcess"}

Nodes(d) == DOMAIN d.kind

StartOf(d) == CHOOSE n \in Nodes(d) : d.kind[n] = "startEvent"

After(d, n) == {m \in Nodes(d) : <<n, m>> \in d.edges}

(* srv: the instance.  passed is what really happened: the nodes the flow  *)
(* has gone through and was not sent back over.                            *)
Init ==
    /\ page = [definition |-> FALSE]
    /\ wire = {}
    /\ \E d \in Definitions :
         srv = [definition |-> d, tokens |-> {StartOf(d)}, completed |-> {}, comments |-> <<>>, state |-> "ACTIVE", passed |-> {}, moves |-> 0]

May == srv.moves < MaxMoves /\ srv.state = "ACTIVE"

-----------------------------------------------------------------------------
(* The steps as the to-do centre computes them.                            *)

Graph(i) == IF page.definition THEN i.definition.edges ELSE {}

Downstream(edges, nodes, from) ==
    LET after(S) == {m \in nodes : \E n \in S : <<n, m>> \in edges}
        within[k \in 1..Cardinality(nodes)] ==
            IF k = 1 THEN after({from}) ELSE within[k - 1] \union after(within[k - 1])
    IN  within[Cardinality(nodes)]

Reaches(i, from) == Downstream(Graph(i), Nodes(i.definition), from)

GraphHasBranch(i) == \E a, b \in Graph(i) : a[1] = b[1] /\ a # b

Observed(i) == i.tokens \union i.completed

Axis(i) == (IF page.definition THEN {n \in Nodes(i.definition) : i.definition.kind[n] \in TrailNodeKinds} ELSE {}) \union Observed(i)

\* Mutant: a task that was sent back stays done.
ReturnedNever(i) == {}

(* A node whose task was completed, with a token before it on the graph,   *)
(* was sent back.                                                          *)
Returned(i) ==
    {n \in i.completed \ i.tokens : \E t \in i.tokens \ {n} : n \in Reaches(i, t)}

Evidence(i) == i.tokens \union (i.completed \ Returned(i))

IsStart(i, n) == page.definition /\ i.definition.kind[n] = "startEvent"

StepDone(i, n) ==
    /\ n \notin i.tokens
    /\ \/ n \in i.completed \ Returned(i)
       \/ IsStart(i, n)
       \/ ~GraphHasBranch(i) /\ Reaches(i, n) \intersect Evidence(i) # {}

StatusOf(i, n) == IF n \in i.tokens THEN "current" ELSE IF StepDone(i, n) THEN "done" ELSE "pending"

TodoSteps(i) == [n \in Axis(i) |-> [status |-> StatusOf(i, n), comments |-> SelectSeq(i.comments, LAMBDA c : c = n)]]

UnmatchedActions(i) == SelectSeq(i.comments, LAMBDA c : c \notin Axis(i))

(* The latest action is looked for among the steps' comments and those no  *)
(* step has.                                                               *)
LatestAction(i) == IF i.comments = <<>> THEN "none" ELSE Last(i.comments)

(* The same in the task form.                                              *)
FormSteps(i) ==
    LET back == {n \in i.completed \ i.tokens : \E t \in i.tokens : n \in Reaches(i, t)}
        seen == i.tokens \union (i.completed \ back)
        done(n) == \/ n \in i.completed /\ n \notin back
                   \/ IsStart(i, n)
                   \/ ~GraphHasBranch(i) /\ \E m \in Reaches(i, n) : m \in seen
    IN  [n \in Axis(i) |->
           [status |-> CASE n \in i.tokens -> "current" [] n \notin i.tokens /\ done(n) -> "done" [] OTHER -> "pending",
            comments |-> SelectSeq(i.comments, LAMBDA c : c = n)]]

-----------------------------------------------------------------------------
(* The engine.                                                             *)

Moved(i) == srv' = [i EXCEPT !.moves = @ + 1] /\ UNCHANGED <<page, wire>>

IsTask(n) == srv.definition.kind[n] = "userTask"

Advance(n, m) ==
    /\ May /\ n \in srv.tokens /\ m \in After(srv.definition, n)
    /\ Moved([srv EXCEPT !.tokens = (@ \ {n}) \union {m}, !.passed = (@ \ {m}) \union {n},
                         !.completed = IF IsTask(n) THEN @ \union {n} ELSE @,
                         !.comments = IF IsTask(n) THEN Append(@, n) ELSE @])

Fork(n) ==
    /\ May /\ n \in srv.tokens /\ srv.definition.kind[n] = "parallelGateway"
    /\ Moved([srv EXCEPT !.tokens = (@ \ {n}) \union After(srv.definition, n), !.passed = @ \union {n}])

Finish(n) ==
    /\ May /\ n \in srv.tokens /\ After(srv.definition, n) = {}
    /\ LET left == srv.tokens \ {n}
       IN  Moved([srv EXCEPT !.tokens = left, !.passed = @ \union {n}, !.completed = IF IsTask(n) THEN @ \union {n} ELSE @,
                             !.comments = IF IsTask(n) THEN Append(@, n) ELSE @,
                             !.state = IF left = {} THEN "COMPLETED" ELSE @])

(* An approver sends the task back to one before it.                       *)
Return(n, m) ==
    /\ May /\ srv.tokens = {n} /\ IsTask(n) /\ IsTask(m) /\ m \in srv.passed
    /\ LET after == Downstream(srv.definition.edges, Nodes(srv.definition), m)
       IN  /\ n \in after
           /\ Moved([srv EXCEPT !.tokens = {m}, !.comments = Append(@, n), !.passed = @ \ (after \union {m})])

(* The definition arrives after the instance, or not at all.               *)
LoadFullDefinition == ~page.definition /\ page' = [page EXCEPT !.definition = TRUE] /\ UNCHANGED <<wire, srv>>

Next ==
    \/ LoadFullDefinition
    \/ \E n \in srv.tokens : Fork(n) \/ Finish(n) \/ \E m \in Nodes(srv.definition) : Advance(n, m) \/ Return(n, m)

Spec == Init /\ [][Next]_vars

-----------------------------------------------------------------------------

(* The state keeps to its types.                                          *)
TypeOK ==
    /\ page.definition \in BOOLEAN
    /\ srv.tokens \union srv.completed \union srv.passed \subseteq Nodes(srv.definition)
    /\ srv.state \in {"ACTIVE", "COMPLETED"}

Acyclic(d) == \A n \in Nodes(d) : n \notin Downstream(d.edges, Nodes(d), n)

(* With the definition at hand, a step is shown as done only if the flow   *)
(* went through it and was not sent back over it, and in a definition that *)
(* never branches whenever it did (414-415, 447-466).                      *)
StepsTellHistory ==
    page.definition /\ Acyclic(srv.definition) =>
        LET steps == TodoSteps(srv)
        IN  \A n \in DOMAIN steps :
              /\ steps[n].status = "done" => n \in srv.passed
              /\ n \in srv.passed /\ n \notin srv.tokens /\ (IsTask(n) \/ ~GraphHasBranch(srv)) => steps[n].status = "done"

(* Both pages show the same trail, with every comment on one step or among *)
(* those that have none (340, task-form.js 169).                           *)
CopiesAgree ==
    LET steps == TodoSteps(srv)
    IN  /\ steps = FormSteps(srv)
        /\ \A c \in ToSet(srv.comments) : (c \in DOMAIN steps) # (c \in ToSet(UnmatchedActions(srv)))

-----------------------------------------------------------------------------
(* Wanted of the page, and not met by the code: README.md, section 7.      *)

(* A flow that goes forward does not lose steps that are done: "a token    *)
(* upstream does not reach nodes downstream ... no false hits" (448).      *)
ForwardKeepsDone ==
    page.definition => \A n \in srv.passed \ srv.tokens : IsTask(n) => StatusOf(srv, n) = "done"
=============================================================================
