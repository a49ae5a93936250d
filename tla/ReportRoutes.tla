----------------------------- MODULE ReportRoutes -----------------------------
(***************************************************************************)
(* The dialog of the routes of a report's sources (designer.js): the list  *)
(* of the bindings of a document type, the form that adds or edits one,    *)
(* and the deletion of one.  A binding is a document type and what a row   *)
(* of the list does not show of it, priority and remark: its `rest`.       *)
(***************************************************************************)
EXTENDS Integers, FiniteSets, FiniteSetsExt

CONSTANTS Keys,             \* document types
          Ids,              \* bindings there may be
          None,
          MaxWire           \* bound: requests on the way

RoutesAssumption == Keys # {} /\ MaxWire \in Nat

VARIABLES page, wire, srv

vars == <<page, wire, srv>>

NoRow == [key |-> None, rest |-> FALSE]

Init ==
    /\ page = [open |-> FALSE, key |-> None, rows |-> {}, form |-> None, confirm |-> None]
    /\ wire = {}
    /\ srv = [i \in Ids |-> NoRow]

Ask(kind, key, id) ==
    /\ Cardinality(wire) < MaxWire
    /\ wire' = wire \union {[kind |-> kind, key |-> key, id |-> id, rows |-> {}, status |-> "asked", own |-> TRUE,
                             n |-> Min(1..MaxWire \ {q.n : q \in wire})]}

RcOpenDialog ==
    /\ ~page.open
    /\ page' = [page EXCEPT !.open = TRUE, !.key = None, !.rows = {}]
    /\ UNCHANGED <<wire, srv>>

CloseDialog ==
    /\ page.open /\ page.form = None /\ page.confirm = None
    /\ page' = [page EXCEPT !.open = FALSE, !.key = None, !.rows = {}]
    /\ wire' = {r \in wire : r.kind # "list"} /\ UNCHANGED srv

(* Another key empties the list once it is loaded, not when it is typed.   *)
TypeKey(k) ==
    /\ page.open /\ page.form = None /\ k # page.key
    /\ page' = [page EXCEPT !.key = k]
    /\ UNCHANGED <<wire, srv>>

LoadList ==
    /\ page.open /\ page.key # None
    /\ Ask("list", page.key, None)
    /\ page' = [page EXCEPT !.rows = {}] /\ UNCHANGED srv

ListAnswer(r) ==
    /\ r.kind = "list" /\ r.status # "asked"
    /\ page' = [page EXCEPT !.rows = IF r.status = "done" THEN r.rows ELSE {}]
    /\ wire' = wire \ {r} /\ UNCHANGED srv

(* The form is filled from the row; the identity of a new one is free.     *)
RcOpenForm(i, k) ==
    /\ page.open /\ page.form = None /\ page.confirm = None
    /\ page' = [page EXCEPT !.form = [id |-> i, key |-> k]]
    /\ UNCHANGED <<wire, srv>>

AddRow(i) == srv[i].key = None /\ \E k \in Keys : RcOpenForm(i, k)
EditRow(row) == row \in page.rows /\ RcOpenForm(row.id, row.key)

Reload(r) ==
    IF r.status = "done" /\ page.open /\ page.key # None
    THEN {[r EXCEPT !.kind = "list", !.key = page.key, !.status = "asked", !.own = TRUE]} ELSE {}

Disowned == {[r EXCEPT !.own = @ /\ r.kind # "save"] : r \in wire}

(* The save of a form that was given up goes on without it.                *)
CancelForm == page.form # None /\ page' = [page EXCEPT !.form = None] /\ wire' = Disowned /\ UNCHANGED srv

(* All fields of the form are sent; a refused one leaves it open.          *)
SubmitForm ==
    /\ page.form # None
    /\ Ask("save", page.form.key, page.form.id)
    /\ UNCHANGED <<page, srv>>

FormSaved(r) ==
    /\ r.kind = "save" /\ r.status # "asked"
    /\ page' = [page EXCEPT !.form = IF r.status = "done" /\ r.own THEN None ELSE @]
    /\ wire' = {q \in IF r.status = "done" /\ r.own THEN Disowned ELSE wire : q.n # r.n} \union Reload(r)
    /\ UNCHANGED srv

AskDelete(row) ==
    /\ row \in page.rows /\ page.form = None /\ page.confirm = None
    /\ page' = [page EXCEPT !.confirm = row.id]
    /\ UNCHANGED <<wire, srv>>

DeleteRow(sure) ==
    /\ page.confirm # None
    /\ IF sure THEN Ask("delete", None, page.confirm) ELSE UNCHANGED wire
    /\ page' = [page EXCEPT !.confirm = None]
    /\ UNCHANGED srv

Deleted(r) ==
    /\ r.kind = "delete" /\ r.status # "asked"
    /\ wire' = (wire \ {r}) \union Reload(r)
    /\ UNCHANGED <<page, srv>>

-----------------------------------------------------------------------------
(* The service; the rest of a binding is set by somebody else.             *)

Effect(r) ==
    CASE r.kind = "save"   -> [srv EXCEPT ![r.id] = [key |-> r.key, rest |-> FALSE]]
      [] r.kind = "delete" -> [srv EXCEPT ![r.id] = NoRow]
      [] OTHER -> srv

Serve(r) ==
    /\ r.status = "asked"
    /\ srv' = Effect(r)
    /\ wire' = (wire \ {r}) \union {[r EXCEPT !.status = "done",
         !.rows = IF r.kind = "list" THEN {[id |-> i, key |-> r.key] : i \in {j \in Ids : srv[j].key = r.key}} ELSE {}]}
    /\ UNCHANGED page

Refuse(r) ==
    /\ r.status = "asked"
    /\ wire' = (wire \ {r}) \union {[r EXCEPT !.status = "failed"]}
    /\ UNCHANGED <<page, srv>>

SetRest(i) ==
    /\ srv[i].key # None /\ ~srv[i].rest
    /\ srv' = [srv EXCEPT ![i].rest = TRUE]
    /\ UNCHANGED <<page, wire>>

-----------------------------------------------------------------------------

Answer(r) == ListAnswer(r) \/ FormSaved(r) \/ Deleted(r)

Next == \/ RcOpenDialog \/ CloseDialog \/ LoadList \/ CancelForm \/ SubmitForm
        \/ \E k \in Keys : TypeKey(k)
        \/ \E i \in Ids : AddRow(i) \/ SetRest(i)
        \/ \E row \in page.rows : EditRow(row) \/ AskDelete(row)
        \/ \E sure \in BOOLEAN : DeleteRow(sure)
        \/ \E r \in wire : Answer(r) \/ Serve(r) \/ Refuse(r)

Spec == Init /\ [][Next]_vars

-----------------------------------------------------------------------------

(* The state keeps to its types.                                          *)
TypeOK ==
    /\ page.key \in Keys \union {None} /\ page.confirm \in Ids \union {None}
    /\ page.rows \subseteq [id : Ids, key : Keys]
    /\ srv \in [Ids -> [key : Keys \union {None}, rest : BOOLEAN]]

(* A binding disappears only when its own deletion was confirmed, whatever *)
(* list the dialog shows by then.                                          *)
DeletesConfirmedStep ==
    \A i \in Ids : (srv[i].key # None /\ srv'[i].key = None)
      => \E r \in wire : r.kind = "delete" /\ r.id = i
DeletesConfirmed == [][DeletesConfirmedStep]_vars

-----------------------------------------------------------------------------
(* Wanted of the page, and not met by the code: README.md, section 7.      *)

(* An edit leaves what the form does not show of a binding as it was.      *)
EditKeepsRest == [][\A i \in Ids : (srv[i].rest /\ srv'[i].key # None) => srv'[i].rest]_vars
=============================================================================
