------------------------------- MODULE FlowTodo --------------------------------
(***************************************************************************)
(* The to-do centre (todo-center.js): the lists of a user's tasks, the     *)
(* trail of the chosen one, claiming, transferring, cancelling and         *)
(* withdrawing, and opening the form a task is handled in.                 *)
(***************************************************************************)
EXTENDS PageRequests, SequencesExt

CONSTANTS Tasks,               \* the tasks, as numbers in the order of the lists
          FirstIn,             \* the list each is in at first
          FormOf,              \* what its form is bound to: workspace, native or missing
          ConsoleOf,           \* whether the platform's approval console goes with it
          PageSize, MaxChanges, MaxWire

TodoAssumption == Tasks \subseteq Nat \ {0} /\ PageSize \in Nat \ {0} /\ MaxChanges \in Nat /\ MaxWire \in Nat \ {0}

VARIABLES page, wire, srv

vars == <<page, wire, srv>>

Categories == {"todo", "claimable", "initiate", "initiated", "cc", "done"}

NoRow == [id |-> 0, cat |-> "none"]

NoDialog == [kind |-> "none", op |-> "none", of |-> 0, loading |-> FALSE, submitting |-> FALSE, user |-> FALSE, error |-> FALSE]


Fresh ==
    [category |-> "todo", rows |-> <<>>, total |-> 0, at |-> 1, filter |-> 0, loading |-> TRUE, error |-> FALSE,
     selected |-> NoRow, trail |-> 0, trailLoading |-> FALSE, trailError |-> FALSE, menu |-> 0, dialog |-> NoDialog, changes |-> 0]

List(p) == [kind |-> "list", of |-> 0, op |-> "none", cat |-> p.category, at |-> p.at, filter |-> p.filter, rows |-> <<>>, total |-> 0]

Ask(kind, op, of) == [kind |-> kind, of |-> of, op |-> op, cat |-> "none", at |-> 0, filter |-> 0, rows |-> <<>>, total |-> 0]

Init ==
    /\ page = Fresh
    /\ wire = Sent({}, MaxWire, List(Fresh))
    /\ srv = [in |-> FirstIn, cancelled |-> {}, opened |-> {}]

May == page.changes < MaxChanges
Counted(p) == [p EXCEPT !.changes = @ + 1]
Free == Room(wire, MaxWire)
Quiet == UNCHANGED <<wire, srv>>

-----------------------------------------------------------------------------
(* What the page shows and offers.                                         *)

RowsShown(p) == IF p.loading \/ p.error THEN <<>> ELSE p.rows

Modal(p) == p.dialog.kind # "none"

(* The buttons of a card are those of the list the page is on, whatever    *)
(* list the card came with (282-303).                                      *)
Acts(p, row) ==
    CASE p.category = "initiated" -> {"view"} \union IF p.menu = row.id /\ row.id \notin srv.cancelled THEN {"withdraw", "cancel"} ELSE {}
      [] p.category = "cc" -> {"view", "ccread"}
      [] p.category = "done" -> {"view"}
      [] p.category = "initiate" -> {"start"}
      [] OTHER -> IF row.cat = "claimable" THEN {"claim"}
                  ELSE {"open"} \union IF p.menu = row.id THEN {"transfer"} ELSE {}

HasMenu(p, row) == p.category = "initiated" \/ (p.category \in {"todo", "claimable"} /\ row.cat # "claimable")

Pages(p) == Max({1, (p.total + PageSize - 1) \div PageSize})

Pager(p) == LET shown == Min({p.at, Pages(p)})
            IN  (IF shown > 1 THEN {"first", "prev"} ELSE {}) \union (IF shown < Pages(p) THEN {"next", "last"} ELSE {})

Click(act, row) == May /\ Free /\ ~Modal(page) /\ row \in ToSet(RowsShown(page)) /\ act \in Acts(page, row)

-----------------------------------------------------------------------------
(* The lists.                                                              *)

Reload(p, w) ==
    LET q == [p EXCEPT !.menu = 0, !.loading = TRUE, !.error = FALSE]
    IN  page' = q /\ wire' = Sent(w, MaxWire, List(q)) /\ UNCHANGED srv

LoadTodos == May /\ Free /\ ~Modal(page) /\ Reload(Counted(page), wire)

(* The tree is beside the page: a dialog on the page does not cover it.    *)
SwitchCategory(c) ==
    /\ May /\ Free /\ c # page.category
    /\ Reload([Counted(page) EXCEPT !.category = c, !.selected = NoRow, !.trail = 0, !.trailLoading = FALSE, !.trailError = FALSE,
                                    !.dialog = IF @.submitting THEN @ ELSE NoDialog, !.at = 1, !.filter = 0], wire)

SetFilter(f) == May /\ Free /\ ~Modal(page) /\ f # page.filter /\ Reload([Counted(page) EXCEPT !.filter = f, !.at = 1], wire)

Turn(button) ==
    /\ May /\ Free /\ ~Modal(page) /\ page.category # "initiate" /\ button \in Pager(page)
    /\ LET to == CASE button = "first" -> 1 [] button = "prev" -> page.at - 1 [] button = "next" -> page.at + 1 [] OTHER -> Pages(page)
           np == Min({Max({1, to}), Pages(page)})
       IN  np # page.at /\ Reload([Counted(page) EXCEPT !.at = np], wire)

ListAnswer(r) ==
    /\ r.kind = "list" /\ r.status # "asked"
    /\ page' = [page EXCEPT !.loading = FALSE, !.error = r.status = "failed",
                            !.rows = IF r.status = "done" THEN r.rows ELSE <<>>, !.total = IF r.status = "done" THEN r.total ELSE 0]
    /\ wire' = wire \ {r} /\ UNCHANGED srv

OpenMenu(row) ==
    /\ May /\ ~Modal(page) /\ row \in ToSet(RowsShown(page)) /\ HasMenu(page, row)
    /\ page' = [Counted(page) EXCEPT !.menu = IF @ = row.id THEN 0 ELSE row.id] /\ Quiet

CloseMenu == page.menu # 0 /\ page' = [page EXCEPT !.menu = 0] /\ Quiet

-----------------------------------------------------------------------------
(* The trail of the chosen task.                                           *)

Selected(p, row) ==
    [p EXCEPT !.selected = row, !.menu = 0, !.trail = 0, !.trailLoading = TRUE, !.trailError = FALSE]

SelectTodo(row) ==
    /\ May /\ Free /\ ~Modal(page) /\ row \in ToSet(RowsShown(page)) /\ row # page.selected
    /\ page' = Selected(Counted(page), row) /\ wire' = Sent(wire, MaxWire, Ask("trail", "none", row.id)) /\ UNCHANGED srv

ReloadTrail ==
    /\ May /\ Free /\ page.trailError
    /\ page' = Selected(Counted(page), page.selected)
    /\ wire' = Sent(wire, MaxWire, Ask("trail", "none", page.selected.id)) /\ UNCHANGED srv

TrailAnswer(r) ==
    /\ r.kind = "trail" /\ r.status # "asked"
    /\ page' = [page EXCEPT !.trailLoading = FALSE, !.trail = IF r.status = "done" THEN r.of ELSE 0, !.trailError = @ \/ r.status = "failed"]
    /\ wire' = wire \ {r} /\ UNCHANGED srv

-----------------------------------------------------------------------------
(* Opening the form of a task, to handle it or to look at it.              *)

OpenForm(act, row) ==
    /\ act \in {"open", "view", "start"} /\ Click(act, row)
    /\ page' = Counted(page) /\ wire' = Sent(wire, MaxWire, Ask("form", act, row.id)) /\ UNCHANGED srv

Opened(of, act, console) == [srv EXCEPT !.opened = @ \union {[of |-> of, act |-> act, console |-> console]}]

(* The platform's form, with the approval console unless the form has its  *)
(* own.                                                                    *)
BuildAndOpenTaskForm(r) == srv' = Opened(r.of, r.op, ConsoleOf[r.of] = "platform")

ViewFallsBack(r) ==
    IF r.of \in {row.id : row \in ToSet(page.rows)} /\ page.selected.id # r.of
    THEN /\ page' = Selected(page, CHOOSE row \in ToSet(page.rows) : row.id = r.of)
         /\ wire' = Sent(wire \ {r}, MaxWire, Ask("trail", "none", r.of)) /\ UNCHANGED srv
    ELSE page' = page /\ wire' = wire \ {r} /\ UNCHANGED srv

FormAnswer(r) ==
    /\ r.kind = "form" /\ r.status # "asked"
    /\ LET found == r.status = "done" /\ FormOf[r.of] # "missing"
       IN  IF r.op # "start" /\ found /\ FormOf[r.of] = "workspace"
           THEN page' = page /\ wire' = Sent(wire \ {r}, MaxWire, Ask("node", r.op, r.of)) /\ UNCHANGED srv
           ELSE CASE r.op = "view" -> ViewFallsBack(r)
                  [] r.op = "open" /\ found -> page' = page /\ wire' = wire \ {r} /\ BuildAndOpenTaskForm(r)
                  [] r.op = "start" /\ found -> page' = page /\ wire' = wire \ {r} /\ srv' = Opened(r.of, "start", FALSE)
                  [] OTHER -> page' = page /\ wire' = wire \ {r} /\ UNCHANGED srv

(* The workspace of the form gets one more view, read-only when the task   *)
(* is only looked at.                                                      *)
BuildWorkspaceWorknode(r) ==
    /\ r.kind = "node" /\ r.status # "asked"
    /\ IF r.status = "done" THEN srv' = Opened(r.of, r.op, r.op = "open" /\ ConsoleOf[r.of] = "platform")
       ELSE BuildAndOpenTaskForm(r)
    /\ page' = page /\ wire' = wire \ {r}

-----------------------------------------------------------------------------
(* What is done to a task.                                                 *)

Direct(act, row) ==
    /\ act \in {"claim", "ccread"} /\ Click(act, row)
    /\ page' = Counted(page) /\ wire' = Sent(wire, MaxWire, Ask("act", act, row.id)) /\ UNCHANGED srv

OpenTransferDialog(row) ==
    /\ Click("transfer", row)
    /\ page' = [Counted(page) EXCEPT !.menu = 0, !.dialog = [NoDialog EXCEPT !.kind = "transfer", !.op = "transfer", !.of = row.id, !.loading = TRUE]]
    /\ wire' = Sent(wire, MaxWire, Ask("users", "none", row.id)) /\ UNCHANGED srv

UsersAnswer(r) ==
    /\ r.kind = "users" /\ r.status # "asked"
    /\ page' = IF page.dialog.kind # "transfer" \/ page.dialog.of # r.of THEN page
               ELSE [page EXCEPT !.dialog.loading = FALSE, !.dialog.error = r.status = "failed"]
    /\ wire' = wire \ {r} /\ UNCHANGED srv

OpenConfirmDialog(act, row) ==
    /\ act \in {"cancel", "withdraw"} /\ Click(act, row)
    /\ page' = [Counted(page) EXCEPT !.menu = 0, !.dialog = [NoDialog EXCEPT !.kind = "confirm", !.op = act, !.of = row.id]] /\ Quiet

PickUser ==
    /\ May /\ page.dialog.kind = "transfer" /\ ~page.dialog.loading /\ ~page.dialog.user
    /\ page' = [Counted(page) EXCEPT !.dialog.user = TRUE] /\ Quiet

CloseDialog == Modal(page) /\ ~page.dialog.submitting /\ page' = [page EXCEPT !.dialog = NoDialog] /\ Quiet

ConfirmDialogAction ==
    /\ Free /\ Modal(page) /\ ~page.dialog.submitting /\ (page.dialog.kind = "transfer" => page.dialog.user)
    /\ page' = [page EXCEPT !.dialog.submitting = TRUE]
    /\ wire' = Sent(wire, MaxWire, Ask("act", page.dialog.op, page.dialog.of)) /\ UNCHANGED srv

ActAnswer(r) ==
    /\ r.kind = "act" /\ r.status # "asked"
    /\ LET of == page.dialog.submitting /\ page.dialog.op = r.op
       IN  IF r.status = "done" THEN Reload(IF of THEN [page EXCEPT !.dialog = NoDialog] ELSE page, wire \ {r})
           ELSE /\ page' = IF of THEN [page EXCEPT !.dialog.submitting = FALSE, !.dialog.error = TRUE] ELSE page
                /\ wire' = wire \ {r} /\ UNCHANGED srv

(* A form that is done with its task says so to every page.                *)
TaskDone(o) ==
    /\ Free /\ o \in srv.opened /\ o.console /\ srv.in[o.of] = "todo"
    /\ page' = [page EXCEPT !.menu = 0, !.loading = TRUE, !.error = FALSE]
    /\ wire' = Sent(wire, MaxWire, List(page)) /\ srv' = [srv EXCEPT !.in[o.of] = "done"]

-----------------------------------------------------------------------------
(* The process service.                                                    *)

Matching(r) == SetToSortSeq({t \in Tasks : srv.in[t] = r.cat /\ r.filter \in {0, t}}, <)

Listed(r) ==
    LET all == Matching(r)
        rows == IF r.cat = "initiate" THEN all ELSE SubSeq(all, (r.at - 1) * PageSize + 1, Min({r.at * PageSize, Len(all)}))
    IN  [r EXCEPT !.status = "done", !.total = Len(all), !.rows = [i \in DOMAIN rows |-> [id |-> rows[i], cat |-> r.cat]]]

Done(r) ==
    CASE r.op = "claim" -> [srv EXCEPT !.in[r.of] = "todo"]
      [] r.op = "cancel" -> [srv EXCEPT !.cancelled = @ \union {r.of}]
      [] r.op = "withdraw" -> [srv EXCEPT !.in[r.of] = "todo"]
      [] OTHER -> [srv EXCEPT !.in[r.of] = "gone"]

Accepts(r) ==
    LET from == [claim |-> "claimable", transfer |-> "todo", ccread |-> "cc", cancel |-> "initiated", withdraw |-> "initiated"]
    IN  srv.in[r.of] = from[r.op] /\ r.of \notin srv.cancelled

Serve(r) ==
    /\ r.status = "asked" /\ UNCHANGED page
    /\ IF r.kind = "act"
       THEN Accepts(r) /\ srv' = Done(r) /\ wire' = Settled(wire, r, [r EXCEPT !.status = "done"])
       ELSE srv' = srv /\ wire' = Settled(wire, r, IF r.kind = "list" THEN Listed(r) ELSE [r EXCEPT !.status = "done"])

Refuse(r) == r.status = "asked" /\ wire' = Refused(wire, r) /\ UNCHANGED <<page, srv>>

Answer(r) ==
    ListAnswer(r) \/ TrailAnswer(r) \/ FormAnswer(r) \/ BuildWorkspaceWorknode(r) \/ UsersAnswer(r) \/ ActAnswer(r)

Next ==
    \/ LoadTodos \/ CloseMenu \/ ReloadTrail \/ PickUser \/ CloseDialog \/ ConfirmDialogAction
    \/ \E c \in Categories : SwitchCategory(c)
    \/ \E f \in {0} \union Tasks : SetFilter(f)
    \/ \E b \in {"first", "prev", "next", "last"} : Turn(b)
    \/ \E row \in ToSet(RowsShown(page)) :
         \/ OpenMenu(row) \/ SelectTodo(row) \/ OpenTransferDialog(row)
         \/ \E act \in Acts(page, row) : OpenForm(act, row) \/ Direct(act, row) \/ OpenConfirmDialog(act, row)
    \/ \E o \in srv.opened : TaskDone(o)
    \/ \E r \in wire : Serve(r) \/ Refuse(r) \/ Answer(r)

Spec == Init /\ [][Next]_vars

-----------------------------------------------------------------------------

(* The state keeps to its types.                                          *)
TypeOK ==
    /\ page.category \in Categories /\ page.at \in Nat \ {0} /\ page.menu \in {0} \union Tasks
    /\ ToSet(page.rows) \subseteq [id : Tasks, cat : Categories]
    /\ \A r \in wire : r.status \in Statuses

(* What the page shows as under way is under way: a list, a trail, the     *)
(* users of a dialog, a submission.                                        *)
BusyIsReal ==
    /\ page.loading => Pending(wire, {"list"}) # {}
    /\ page.trailLoading => \E r \in Pending(wire, {"trail"}) : r.of = page.selected.id
    /\ page.dialog.loading => \E r \in Pending(wire, {"users"}) : r.of = page.dialog.of
    /\ page.dialog.submitting => \E r \in Pending(wire, {"act"}) : r.of = page.dialog.of /\ r.op = page.dialog.op

(* An instance is cancelled or withdrawn, and a task handed to another     *)
(* user, only by a dialog that named it, with a user chosen.               *)
ConfirmedFirstStep ==
    \A r \in wire' \ wire : r.kind = "act" /\ r.op \in {"cancel", "withdraw", "transfer"} /\ r.status = "asked" =>
      page.dialog.of = r.of /\ page.dialog.op = r.op /\ (r.op = "transfer" => page.dialog.user)
ConfirmedFirst == [][ConfirmedFirstStep]_vars

-----------------------------------------------------------------------------
(* Wanted of the page, and not met by the code: README.md, section 7.      *)

(* When nothing is on the way the list is that of the category and filter. *)
ListIsOfCategory ==
    wire = {} /\ ~page.error => \A row \in ToSet(page.rows) : row.cat = page.category /\ page.filter \in {0, row.id}

(* The trail shown is that of the chosen task.                             *)
TrailIsOfChosen == page.trail # 0 /\ page.selected # NoRow /\ ~page.trailLoading => page.trail = page.selected.id

(* When there are tasks they are shown, or a button of the pager leads to  *)
(* them.                                                                   *)
PagerLeadsBack ==
    wire = {} /\ page.category # "initiate" /\ page.total > 0 /\ ~page.error => page.rows # <<>> \/ Pager(page) # {}

(* Who only looks at a task gets no approval console: "the trail and the   *)
(* comments only, no approve or reject" (950-951).                         *)
ViewIsReadOnly == \A o \in srv.opened : o.act = "view" => ~o.console
=============================================================================
