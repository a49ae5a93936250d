------------------------------- MODULE DctEditor -------------------------------
(***************************************************************************)
(* The dictionary data page (data-editor.js): rows edited in a grid, the   *)
(* changes kept beside it until they are saved, the update time of a row   *)
(* as its optimistic lock, deletion, import and export with the dialogs    *)
(* before them.  One dictionary; switching between dictionaries is the     *)
(* matter of DctTree.                                                      *)
(***************************************************************************)
EXTENDS PageRequests

CONSTANTS Ids, System,     \* the stored rows, and those the system brings along
          Temp,            \* the temporary ids of rows that were added
          Views, Shows,    \* the pages, searches and tree nodes, and the rows each shows
          Database,        \* the database the page was opened for
          MaxChanges, MaxOthers, MaxWire

EditorAssumption ==
    /\ System \subseteq Ids /\ \E w \in Views : \A u \in Views : Shows[u] \subseteq Shows[w]
    /\ MaxChanges \in Nat /\ MaxOthers \in Nat /\ MaxWire \in Nat \ {0}

VARIABLES page, wire, srv

vars == <<page, wire, srv>>

Blank == ""
Values == {Blank, "kept", "mine"}

(* One field stands for the editable ones; keys, audit fields and derived  *)
(* ones are not edited.                                                    *)
Editable(id) == id \in Ids \union Temp

First == CHOOSE w \in Views : \A u \in Views : Shows[u] \subseteq Shows[w]

NoDialog == [ask |-> "none", ids |-> {}, file |-> FALSE]

Request(kind, of, db) == [kind |-> kind, view |-> First, upd |-> {}, ins |-> {}, del |-> {}, rows |-> {}, of |-> of, db |-> db]

(* Every opening of the page starts from nothing.                          *)
Entered == [view |-> First, rows |-> {}, added |-> {}, dirty |-> {}, newIds |-> {}, baseline |-> {}, selected |-> {},
            dialog |-> NoDialog, changes |-> 0]

Init ==
    /\ page = Entered
    /\ wire = Sent({}, MaxWire, Request("data", "none", Database))
    /\ srv = [rows |-> {[id |-> i, v |-> "kept", t |-> 1] : i \in Ids}, inserted |-> [t \in Temp |-> 0], others |-> 0]

(* A dialog covers the page.                                               *)
May == page.changes < MaxChanges /\ page.dialog = NoDialog
Counted(p) == [p EXCEPT !.changes = @ + 1]
Free == Room(wire, MaxWire)
Quiet == UNCHANGED <<wire, srv>>

-----------------------------------------------------------------------------
(* Loading.  What the grid shows is replaced; the changes are kept.        *)

Load(p, w) == Sent(w, MaxWire, [Request("data", "none", Database) EXCEPT !.view = p.view])

ApplyRowsToGrid(p, rows) == [p EXCEPT !.rows = rows, !.added = {}, !.selected = {}]

BaselineOf(p, id) == IF \E b \in p.baseline : b[1] = id THEN (CHOOSE b \in p.baseline : b[1] = id)[2] ELSE 0

Reloaded(p, rows) ==
    ApplyRowsToGrid([p EXCEPT !.baseline = {b \in @ : \A r \in rows : r.id # b[1]} \union {<<r.id, r.t>> : r \in rows}], rows)

DataAnswer(r) ==
    /\ r.kind = "data" /\ r.status # "asked"
    /\ page' = IF r.status = "done" THEN Reloaded(page, r.rows) ELSE page
    /\ wire' = wire \ {r} /\ UNCHANGED srv

(* Turning the page, searching, clearing the search, choosing a tree node, *)
(* and loading again: none of them asks what becomes of the changes.       *)
Reload(w) ==
    /\ May /\ Free
    /\ page' = [Counted(page) EXCEPT !.view = w] /\ wire' = Load(page', wire) /\ UNCHANGED srv

-----------------------------------------------------------------------------
(* Editing.                                                                *)

CellChanged(row, v) ==
    /\ May /\ row \in page.rows /\ Editable(row.id) /\ v # row.v
    /\ LET old == {d \in page.dirty : d.id = row.id}
           base == IF old = {} THEN BaselineOf(page, row.id) ELSE (CHOOSE d \in old : TRUE).base
       IN  page' = [Counted(page) EXCEPT !.rows = (@ \ {row}) \union {[row EXCEPT !.v = v]},
                                         !.dirty = (@ \ old) \union {[id |-> row.id, v |-> v, base |-> base]}]
    /\ Quiet

AddRow(t) ==
    /\ May /\ t \in Temp /\ t \notin page.newIds /\ srv.inserted[t] = 0
    /\ page' = [Counted(page) EXCEPT !.newIds = @ \union {t}, !.added = @ \union {[id |-> t, v |-> Blank]}] /\ Quiet

(* A new row is sent as a whole; its edits are not kept one by one.        *)
FillNewRow(row) ==
    /\ May /\ row \in page.added /\ row.v = Blank
    /\ page' = [Counted(page) EXCEPT !.added = (@ \ {row}) \union {[row EXCEPT !.v = "mine"]}] /\ Quiet

-----------------------------------------------------------------------------
(* Saving.                                                                 *)

Inserted(p) == {row \in p.added : row.id \in p.newIds}

Violations(p) == {row \in Inserted(p) : row.v = Blank} \union {d \in p.dirty : d.v = Blank}

Save ==
    /\ Inserted(page) # {} \/ page.dirty # {}
    /\ May /\ Free /\ Violations(page) = {}
    /\ page' = Counted(page)
    /\ wire' = Sent(wire, MaxWire, [Request("save", "none", Database) EXCEPT !.upd = page.dirty, !.ins = {row.id : row \in Inserted(page)}])
    /\ UNCHANGED srv

Cleared(p) == [p EXCEPT !.dirty = {}, !.newIds = {}]

\* Mutant: the changes are dropped however the save ended.
SaveAnswerClears(r) ==
    /\ r.kind = "save" /\ r.status # "asked"
    /\ page' = Cleared(page) /\ wire' = Load(page, wire \ {r}) /\ UNCHANGED srv

SaveAnswer(r) ==
    /\ r.kind = "save" /\ r.status # "asked"
    /\ CASE r.status = "done" -> page' = [Cleared(page) EXCEPT !.baseline = {}] /\ wire' = Load(page, wire \ {r})
         [] r.status = "conflict" -> page' = Cleared(page) /\ wire' = Load(page, wire \ {r})
         [] OTHER -> page' = page /\ wire' = wire \ {r}
    /\ UNCHANGED srv

-----------------------------------------------------------------------------
(* Deleting, at once and not with the next save.                           *)

Select(ids) ==
    /\ May /\ ids # page.selected /\ ids \subseteq {row.id : row \in page.rows \union page.added}
    /\ page' = [Counted(page) EXCEPT !.selected = ids] /\ Quiet

Opened(ask, ids) == page' = [Counted(page) EXCEPT !.dialog = [NoDialog EXCEPT !.ask = ask, !.ids = ids]] /\ Quiet

\* Mutant: rows of the system can be deleted.
AskDeleteAny == May /\ page.selected # {} /\ Opened("delete", page.selected)

AskDelete ==
    /\ May /\ page.selected # {} /\ page.selected \intersect System = {}
    /\ Opened("delete", page.selected)

(* The rows are those of the question; which of them are new is looked up  *)
(* when it is answered.                                                    *)
DeleteSelected ==
    /\ page.dialog.ask = "delete"
    /\ LET ids == page.dialog.ids
           real == ids \ page.newIds
       IN  /\ page' = [page EXCEPT !.newIds = @ \ ids, !.dirty = {d \in @ : d.id \notin real}, !.rows = {row \in @ : row.id \notin ids},
                                   !.added = {row \in @ : row.id \notin ids}, !.selected = @ \ ids, !.dialog = NoDialog]
           /\ IF real = {} THEN wire' = wire
              ELSE Free /\ wire' = Sent(wire, MaxWire, [Request("delete", "none", Database) EXCEPT !.del = real])
    /\ UNCHANGED srv

CloseDialog == page.dialog # NoDialog /\ page' = [page EXCEPT !.dialog = NoDialog] /\ Quiet

DeleteAnswer(r) ==
    /\ r.kind = "delete" /\ r.status # "asked"
    /\ page' = page /\ wire' = Load(page, wire \ {r}) /\ UNCHANGED srv

-----------------------------------------------------------------------------
(* Export and import.  Import goes by a fetch of its own, which names no   *)
(* database: what it changes is in another one than the page shows.        *)

OnExportClick == May /\ Opened("export", {})

DoExport ==
    /\ page.dialog.ask = "export" /\ Free
    /\ page' = [page EXCEPT !.dialog = NoDialog] /\ wire' = Sent(wire, MaxWire, Request("export", "none", Database)) /\ UNCHANGED srv

ExportAnswer(r) == r.kind = "export" /\ r.status # "asked" /\ page' = page /\ wire' = wire \ {r} /\ UNCHANGED srv

OnImportClick == May /\ Opened("file", {})

(* The button is disabled until there is a file.                           *)
PickFile == page.dialog.ask = "file" /\ ~page.dialog.file /\ page' = [page EXCEPT !.dialog.file = TRUE] /\ Quiet

Modes == {"upsert", "insert_only", "replace"}

(* Replacing empties the dictionary first, so there is a second question.  *)
PickReplace == page.dialog.ask = "file" /\ page.dialog.file /\ page' = [page EXCEPT !.dialog.ask = "replace"] /\ Quiet

DoImport(mode) ==
    /\ page.dialog.ask = (IF mode = "replace" THEN "replace" ELSE "file") /\ page.dialog.file /\ Free
    /\ page' = [page EXCEPT !.dialog = NoDialog] /\ wire' = Sent(wire, MaxWire, Request("import", mode, "default")) /\ UNCHANGED srv

ImportAnswer(r) ==
    /\ r.kind = "import" /\ r.status # "asked"
    /\ page' = page /\ wire' = (IF r.status = "done" THEN Load(page, wire \ {r}) ELSE wire \ {r}) /\ UNCHANGED srv

-----------------------------------------------------------------------------
(* The dictionary service: a save with an update time that is not that of  *)
(* the row is a conflict, as a whole.                                      *)

Found(id) == {row \in srv.rows : row.id = id}

Conflicts(r) == \E u \in r.upd : u.base # 0 /\ \A row \in Found(u.id) : row.t # u.base

Updated(rows, upd) ==
    {row \in rows : \A u \in upd : u.id # row.id}
      \union {[id |-> u.id, v |-> u.v, t |-> (CHOOSE row \in rows : row.id = u.id).t + 1] : u \in {x \in upd : \E row \in rows : row.id = x.id}}

Serve(r) ==
    /\ r.status = "asked" /\ UNCHANGED page
    /\ CASE r.kind = "save" /\ Conflicts(r) -> srv' = srv /\ wire' = Settled(wire, r, [r EXCEPT !.status = "conflict"])
         [] r.kind = "save" /\ ~Conflicts(r) ->
              /\ srv' = [srv EXCEPT !.rows = Updated(@, r.upd), !.inserted = [t \in Temp |-> @[t] + IF t \in r.ins THEN 1 ELSE 0]]
              /\ wire' = Settled(wire, r, [r EXCEPT !.status = "done"])
         [] r.kind = "delete" -> srv' = [srv EXCEPT !.rows = {row \in @ : row.id \notin r.del}]
                                 /\ wire' = Settled(wire, r, [r EXCEPT !.status = "done"])
         [] r.kind = "data" -> srv' = srv /\ wire' = Settled(wire, r, [r EXCEPT !.status = "done", !.rows = {row \in srv.rows : row.id \in Shows[r.view]}])
         [] OTHER -> srv' = srv /\ wire' = Settled(wire, r, [r EXCEPT !.status = "done"])

Refuse(r) == r.status = "asked" /\ wire' = Refused(wire, r) /\ UNCHANGED <<page, srv>>

(* Somebody else changes a row.                                            *)
Other(row) ==
    /\ srv.others < MaxOthers /\ row \in srv.rows
    /\ srv' = [srv EXCEPT !.others = @ + 1, !.rows = Updated(@, {[id |-> row.id, v |-> "kept"]})] /\ UNCHANGED <<page, wire>>

Answer(r) == DataAnswer(r) \/ SaveAnswer(r) \/ DeleteAnswer(r) \/ ImportAnswer(r) \/ ExportAnswer(r)

Next ==
    \/ Save \/ AskDelete \/ DeleteSelected \/ CloseDialog \/ OnExportClick \/ OnImportClick \/ PickFile \/ PickReplace \/ DoExport
    \/ \E w \in Views : Reload(w)
    \/ \E row \in page.rows, v \in Values : CellChanged(row, v)
    \/ \E t \in Temp : AddRow(t)
    \/ \E row \in page.added : FillNewRow(row)
    \/ \E ids \in SUBSET (Ids \union Temp) : Select(ids)
    \/ \E mode \in Modes : DoImport(mode)
    \/ \E row \in srv.rows : Other(row)
    \/ \E r \in wire : Serve(r) \/ Refuse(r) \/ Answer(r)

Spec == Init /\ [][Next]_vars

-----------------------------------------------------------------------------

(* The state keeps to its types.                                          *)
TypeOK ==
    /\ page.rows \subseteq [id : Ids, v : Values, t : Nat] /\ page.added \subseteq [id : Temp, v : Values]
    /\ page.newIds \subseteq Temp /\ page.view \in Views /\ page.dialog.ids \subseteq Ids \union Temp
    /\ \A r \in wire : r.status \in Statuses

(* An edit begins with the update time of the row it is made on, or with   *)
(* none: the lock never lets through a change that was not on the page.    *)
BaselineIsOfShown == \A row \in page.rows : BaselineOf(page, row.id) \in {0, row.t}

(* A row of the system is never asked to be deleted.                       *)
DeletesAreAllowed == \A r \in wire : r.kind = "delete" => r.del \intersect System = {}

(* Only what fails as a whole is kept: a save that was refused leaves      *)
(* every change in place for the next one.                                 *)
RefusalKeepsEditsStep ==
    \A r \in wire \ wire' : r.kind = "save" /\ r.status = "failed" => page.dirty \subseteq page'.dirty /\ page.newIds \subseteq page'.newIds
RefusalKeepsEdits == [][RefusalKeepsEditsStep]_vars

-----------------------------------------------------------------------------
(* Wanted of the page, and not met by the code: README.md, section 7.      *)

(* A row that was added is stored once.                                    *)
InsertedOnce == \A t \in Temp : srv.inserted[t] <= 1

(* Every update carries the lock (608-609, 800-803).                      *)
NoBlindOverwrite == \A r \in wire : r.kind = "save" => \A u \in r.upd : u.base # 0

(* A change leaves the page only saved, deleted or refused for a conflict. *)
NoLostEdit ==
    [][\A d \in page.dirty : (\A e \in page'.dirty : e.id # d.id) =>
         d.id \in page.selected \/ \E r \in wire \ wire' : r.kind = "save" /\ (d \in r.upd \/ r.status = "conflict")]_vars

(* What is saved is on the page.                                           *)
SavesWhatIsShown == \A d \in page.dirty : \E row \in page.rows : row.id = d.id /\ row.v = d.v

(* A row that was added stays on the page until it is saved (634-655).     *)
NewRowsStay == page.newIds \subseteq {row.id : row \in page.added}

(* A row that was never stored is taken off the page only (712-720).       *)
DeletesAreStored == \A r \in wire : r.kind = "delete" => r.del \subseteq Ids

(* Everything goes to the database the page was opened for.                *)
OneDatabase == \A r \in wire : r.db = Database
=============================================================================
