------------------------------- MODULE FlowTask --------------------------------
(***************************************************************************)
(* The form a task is handled in and the form a process is started with    *)
(* (task-form.js).  The state of a form is kept per instance and task; the *)
(* start forms have neither, so they share one.                            *)
(***************************************************************************)
EXTENDS PageRequests

CONSTANTS StartDefs,       \* the processes that can be started
          Targets,         \* the nodes the task can be returned to
          Direct,          \* the one directly before it
          Workspace,       \* whether the task's form is a workspace of its own
          None, MaxChanges, MaxWire

TaskAssumption == Direct \in Targets /\ None \notin Targets \union StartDefs /\ MaxChanges \in Nat /\ MaxWire \in Nat \ {0}

VARIABLES page, wire, srv

vars == <<page, wire, srv>>

Kinds == {"approve", "reject", "return", "return-pick"}

NewTask ==
    [loading |-> TRUE, loaded |-> FALSE, error |-> FALSE, busy |-> FALSE, submitted |-> FALSE, failed |-> FALSE, tab |-> "handle",
     menu |-> FALSE, pending |-> "approve", comment |-> FALSE, target |-> None, label |-> None, targets |-> {}, asked |-> FALSE, picking |-> FALSE]

NewStart == [of |-> None, busy |-> FALSE, filled |-> FALSE]

Ask(kind, of, act, reason) == [kind |-> kind, of |-> of, act |-> act, reason |-> reason]

(* The to-do centre has opened the task; open holds the tabs by the name   *)
(* of their node.                                                          *)
TaskNode == IF Workspace THEN "flow-wsform" ELSE "flow-task"

Init ==
    /\ page = [task |-> NewTask, start |-> NewStart, open |-> {<<TaskNode, "task">>}, closing |-> {}, changes |-> 0]
    /\ wire = Sent({}, MaxWire, Ask("load", "task", "none", FALSE))
    /\ srv = [handled |-> "no", started |-> {}]

May == page.changes < MaxChanges
Counted(p) == [p EXCEPT !.changes = @ + 1]
Free == Room(wire, MaxWire)
Quiet == UNCHANGED <<wire, srv>>
IsOpen == <<TaskNode, "task">> \in page.open

(* Drawing the page writes the name of the target on the button.           *)
Drawn(t) == [t EXCEPT !.label = t.target]

(* The properties view: the tab to handle the task in is there until it is *)
(* handled.                                                                *)
CanHandle(t) == ~t.submitted

ApproveArea(t) == CanHandle(t) /\ t.tab = "handle" /\ ~t.loading /\ ~t.error

Chosen(t) == t.pending # "approve"

Required(t) == Chosen(t)

PickerShows(t) == IF t.pending = "return-pick" /\ ~t.picking THEN t.targets ELSE {}

Do(guard, t) == May /\ IsOpen /\ guard /\ page' = [Counted(page) EXCEPT !.task = Drawn(t)]

-----------------------------------------------------------------------------
(* Handling the task.                                                      *)

LoadAnswer(r) ==
    /\ r.kind = "load" /\ r.status # "asked"
    /\ page' = [page EXCEPT !.task = Drawn([@ EXCEPT !.loading = FALSE, !.loaded = r.status = "done", !.error = r.status = "failed"])]
    /\ wire' = wire \ {r} /\ UNCHANGED srv

Reload ==
    /\ Do(page.task.error /\ Free, [page.task EXCEPT !.loading = TRUE, !.error = FALSE])
    /\ wire' = Sent(wire, MaxWire, Ask("load", "task", "none", FALSE)) /\ UNCHANGED srv

ShowTab(tab) == Do(CanHandle(page.task) /\ tab # page.task.tab, [page.task EXCEPT !.tab = tab]) /\ Quiet

ToggleMenu == Do(ApproveArea(page.task) /\ ~Chosen(page.task), [page.task EXCEPT !.menu = ~@]) /\ Quiet

(* The targets are asked for once.                                         *)
OpenReturnPicker(t) ==
    IF t.asked THEN page' = [Counted(page) EXCEPT !.task = Drawn(t)] /\ Quiet
    ELSE /\ Free
         /\ page' = [Counted(page) EXCEPT !.task = Drawn([t EXCEPT !.picking = TRUE])]
         /\ wire' = Sent(wire, MaxWire, Ask("targets", "task", "none", FALSE)) /\ UNCHANGED srv

ChooseAction(a) ==
    /\ May /\ IsOpen /\ ApproveArea(page.task) /\ page.task.menu /\ a \in Kinds \ {"approve"}
    /\ LET t == [page.task EXCEPT !.menu = FALSE, !.pending = a, !.failed = FALSE]
       IN  IF a = "return-pick" THEN OpenReturnPicker(t) ELSE page' = [Counted(page) EXCEPT !.task = Drawn(t)] /\ Quiet

CancelAction ==
    /\ Do(ApproveArea(page.task) /\ Chosen(page.task) /\ ~page.task.busy,
          [page.task EXCEPT !.pending = "approve", !.failed = FALSE, !.target = None])
    /\ Quiet

TargetsAnswer(r) ==
    /\ r.kind = "targets" /\ r.status # "asked"
    /\ page' = [page EXCEPT !.task = Drawn([@ EXCEPT !.picking = FALSE, !.asked = TRUE, !.targets = IF r.status = "done" THEN Targets ELSE {},
                                                     !.target = IF r.status = "done" THEN Direct ELSE None])]
    /\ wire' = wire \ {r} /\ UNCHANGED srv

(* Choosing a target and typing do not draw the page anew.                 *)
PickTarget(n) ==
    /\ May /\ IsOpen /\ ApproveArea(page.task) /\ n \in PickerShows(page.task) \ {page.task.target}
    /\ page' = [Counted(page) EXCEPT !.task.target = n, !.task.failed = FALSE] /\ Quiet

TypeComment ==
    /\ May /\ IsOpen /\ ApproveArea(page.task) /\ ~page.task.comment
    /\ page' = [Counted(page) EXCEPT !.task.comment = TRUE, !.task.failed = FALSE] /\ Quiet

ValidateApproval(t) ==
    /\ t.pending \in {"reject", "return"} => t.comment
    /\ t.pending = "return-pick" => t.target # None

\* Mutant: the button works while a submission is on its way.
SubmitApprovalAgain ==
    /\ ApproveArea(page.task) /\ IsOpen /\ ValidateApproval(page.task) /\ Free
    /\ page' = [page EXCEPT !.task = Drawn([@ EXCEPT !.busy = TRUE, !.failed = FALSE])]
    /\ wire' = Sent(wire, MaxWire, Ask("submit", IF page.task.pending = "return-pick" THEN page.task.target ELSE None,
                                       page.task.pending, page.task.comment))
    /\ UNCHANGED srv

SubmitApproval ==
    /\ ApproveArea(page.task) /\ ~page.task.busy /\ IsOpen
    /\ IF ~ValidateApproval(page.task)
       THEN ~page.task.failed /\ page' = [page EXCEPT !.task = Drawn([@ EXCEPT !.failed = TRUE])] /\ Quiet
       ELSE /\ Free
            /\ page' = [page EXCEPT !.task = Drawn([@ EXCEPT !.busy = TRUE, !.failed = FALSE])]
            /\ wire' = Sent(wire, MaxWire, Ask("submit", IF page.task.pending = "return-pick" THEN page.task.target ELSE None,
                                               page.task.pending, page.task.comment))
            /\ UNCHANGED srv

SubmitAnswer(r) ==
    /\ r.kind = "submit" /\ r.status # "asked"
    /\ page' = [page EXCEPT !.task = Drawn([@ EXCEPT !.busy = FALSE, !.submitted = r.status = "done", !.failed = r.status = "failed"]),
                            !.closing = IF r.status = "done" THEN @ \union {<<"flow-task", "task">>} ELSE @]
    /\ wire' = wire \ {r} /\ UNCHANGED srv

(* After a moment the form closes the tab it believes to be its own; the   *)
(* button does the same at once.                                           *)
CloseSelf(tab) == tab \in page.closing /\ page' = [page EXCEPT !.open = @ \ {tab}, !.closing = @ \ {tab}] /\ Quiet

-----------------------------------------------------------------------------
(* Starting a process.  Every start form that is opened takes the one      *)
(* state over.                                                             *)

StartNode(d) == <<"flow-start", d>>

OpenStart(d) ==
    /\ May /\ StartNode(d) \notin page.open
    /\ page' = [Counted(page) EXCEPT !.start.of = d, !.open = @ \union {StartNode(d)}] /\ Quiet

FillIn(d) ==
    /\ May /\ StartNode(d) \in page.open /\ ~page.start.filled
    /\ page' = [Counted(page) EXCEPT !.start.filled = TRUE] /\ Quiet

StartOffered(d) == StartNode(d) \in page.open /\ ~page.start.busy

(* from is the tab whose button was pressed.                               *)
SubmitStart(d) ==
    /\ May /\ Free /\ StartOffered(d)
    /\ page' = [Counted(page) EXCEPT !.start.busy = TRUE]
    /\ wire' = Sent(wire, MaxWire, Ask("start", page.start.of, d, page.start.filled)) /\ UNCHANGED srv

StartAnswer(r) ==
    /\ r.kind = "start" /\ r.status # "asked"
    /\ page' = IF r.status = "failed" THEN [page EXCEPT !.start.busy = FALSE]
               ELSE [page EXCEPT !.closing = @ \union {<<"flow-task", r.of>>}]
    /\ wire' = wire \ {r} /\ UNCHANGED srv

-----------------------------------------------------------------------------
(* The process service.                                                    *)

Serve(r) ==
    /\ r.status = "asked" /\ UNCHANGED page
    /\ CASE r.kind = "submit" -> srv.handled = "no" /\ srv' = [srv EXCEPT !.handled = r.act]
         [] r.kind = "start" -> srv' = [srv EXCEPT !.started = @ \union {<<r.act, r.of>>}]
         [] OTHER -> srv' = srv
    /\ wire' = Settled(wire, r, [r EXCEPT !.status = "done"])

Refuse(r) == r.status = "asked" /\ wire' = Refused(wire, r) /\ UNCHANGED <<page, srv>>

(* The service did what was asked and the answer is lost.                  *)
Lose(r) ==
    /\ r.status = "done" /\ r.kind \in {"submit", "start"} /\ May
    /\ page' = Counted(page) /\ wire' = Refused(wire, r) /\ UNCHANGED srv

Answer(r) == LoadAnswer(r) \/ TargetsAnswer(r) \/ SubmitAnswer(r) \/ StartAnswer(r)

Next ==
    \/ Reload \/ ToggleMenu \/ CancelAction \/ TypeComment \/ SubmitApproval
    \/ \E tab \in {"handle", "trail"} : ShowTab(tab)
    \/ \E a \in Kinds : ChooseAction(a)
    \/ \E n \in Targets : PickTarget(n)
    \/ \E tab \in page.closing : CloseSelf(tab)
    \/ \E d \in StartDefs : OpenStart(d) \/ FillIn(d) \/ SubmitStart(d)
    \/ \E r \in wire : Serve(r) \/ Refuse(r) \/ Lose(r) \/ Answer(r)

Spec == Init /\ [][Next]_vars

-----------------------------------------------------------------------------

(* The state keeps to its types.                                          *)
TypeOK ==
    /\ page.task.pending \in Kinds /\ {page.task.target, page.task.label} \subseteq Targets \union {None}
    /\ page.start.of \in StartDefs \union {None} /\ srv.handled \in Kinds \union {"no"}
    /\ \A r \in wire : r.status \in Statuses

(* One answer to the task is on the way at a time, while it is the form is *)
(* busy, and a form that says it is handled is right.                      *)
HandledOnce ==
    /\ Cardinality(Pending(wire, {"submit"})) <= 1
    /\ page.task.busy = (Pending(wire, {"submit"}) # {})
    /\ page.task.submitted => srv.handled # "no"

(* A rejection or a return always carries a reason, and what is sent is    *)
(* what the button said.                                                   *)
ReasonGivenStep ==
    \A r \in wire' \ wire : r.kind = "submit" /\ r.status = "asked" =>
      r.act = page.task.pending /\ (r.act \in {"reject", "return"} => r.reason)
ReasonGiven == [][ReasonGivenStep]_vars

(* A form that is done with closes its tab.                                *)
ClosesItself == page.task.submitted /\ page.closing = {} => ~IsOpen

-----------------------------------------------------------------------------
(* Wanted of the page, and not met by the code: README.md, section 7.      *)

(* What the form marks as required is there when it is sent (682-683).     *)
RequiredIsThere == \A r \in wire : r.kind = "submit" /\ r.act # "approve" => r.reason

(* The task goes back to the node the button names (663).                  *)
ReturnsWhereItSays ==
    [][\A r \in wire' \ wire : r.kind = "submit" /\ r.act = "return-pick" /\ r.status = "asked" => r.of = page.task.label]_vars

(* "One state for every (instance, task)" (109): the process started is    *)
(* that of the tab whose button was pressed.                               *)
StartsWhatItShows == \A s \in srv.started : s[1] = s[2]

(* A start form can be sent unless one is being sent.                      *)
StartIsReady == page.start.busy => Pending(wire, {"start"}) # {}
=============================================================================
