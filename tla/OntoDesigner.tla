------------------------------ MODULE OntoDesigner ------------------------------
(***************************************************************************)
(* The ontology workbench (onto/designer.js): the element selected in the  *)
(* tree or the graph and the definition fetched for it, the rows edited in *)
(* the inspector, and the service calls that save, create, delete and      *)
(* publish, after each of which manifest and graph are loaded again.       *)
(***************************************************************************)
EXTENDS PageRequests, Sequences, SequencesExt

CONSTANTS Objects, Kinetic,      \* object types; actions and functions
          Links, EndsOf,         \* relations, and the object types at their ends
          Keyed,                 \* the object types with materialised objects
          NameAt, Bad, None,     \* the names new rows get, by place; one the inspector marks as wrong
          MaxRows, MaxChanges, MaxWire

OntoAssumption == MaxRows \in Nat /\ MaxChanges \in Nat /\ MaxWire \in Nat \ {0} /\ Keyed \subseteq Objects

VARIABLES page, wire, srv

vars == <<page, wire, srv>>

Names == Range(NameAt)
Ids == Objects \union Kinetic \union Links
KindOf(id) == CASE id \in Objects -> "object" [] id \in Links -> "link" [] OTHER -> "kinetic"

(* A row is a property of an object type or a parameter of an action; rest *)
(* is all it holds besides what the collecting of an action's form reads.  *)
Row(n) == [name |-> n, rest |-> FALSE]
NoDetail == [of |-> None, rows |-> <<>>, pk |-> None, orig |-> None]
NoDialog == [ask |-> "none", of |-> None, row |-> 0, rels |-> {}]

Request(kind, of) ==
    [kind |-> kind, of |-> of, want |-> None, detail |-> NoDetail, rels |-> {}, then |-> "nothing", live |-> TRUE, there |-> {}]

Init ==
    /\ page = [loaded |-> FALSE, sel |-> None, kind |-> None, detail |-> NoDetail, ticks |-> {}, dialog |-> NoDialog, bubble |-> {},
               result |-> None, manifest |-> {}, spec |-> {}, canvas |-> {}, moved |-> {}, changes |-> 0]
    /\ wire = Sent({}, MaxWire, Request("load", None))
    /\ srv = [defs |-> [id \in Ids |-> IF id \in Links THEN <<>> ELSE <<[Row(NameAt[1]) EXCEPT !.rest = TRUE]>>],
              pk |-> [id \in Objects |-> NameAt[1]], there |-> Ids, published |-> {}]

May == page.changes < MaxChanges /\ page.dialog = NoDialog /\ page.loaded
Counted(p) == [p EXCEPT !.changes = @ + 1]
Free == Room(wire, MaxWire)
Quiet == UNCHANGED <<wire, srv>>
Send(w, r) == Sent(w, MaxWire, r)

-----------------------------------------------------------------------------
(* Loading all: the manifest and the graph made from it, and then the rest *)
(* of the catalogues, with the page in use meanwhile.  The places nodes    *)
(* were dragged to are taken over from the graph.                          *)

Load(w, then, of) == Send(w, [Request("load", of) EXCEPT !.then = then])

Nodes(there) == there \intersect Objects

LoadAnswer(r) ==
    /\ r.kind = "load" /\ r.status # "asked"
    /\ IF r.status = "failed" THEN page' = page /\ wire' = wire \ {r}
       ELSE /\ page' = [page EXCEPT !.manifest = r.there, !.spec = Nodes(r.there), !.moved = @ \intersect r.there]
            /\ wire' = Send(wire \ {r}, [Request("rest", r.of) EXCEPT !.then = r.then])
    /\ UNCHANGED srv

(* Dragging a node hands the graph's own specification to the page.        *)
DragNode(n) ==
    /\ May /\ n \in page.canvas \ page.moved
    /\ page' = [Counted(page) EXCEPT !.spec = page.canvas, !.moved = @ \union {n}] /\ Quiet

-----------------------------------------------------------------------------
(* Selecting.  The last selection wins: what was fetched for another one   *)
(* is dropped.  An element already selected is not fetched again.          *)

Unhooked(w) == {IF r.kind = "detail" THEN [r EXCEPT !.live = FALSE] ELSE r : r \in w}

Selected(p, w, kind, id, forced) ==
    LET same == p.sel = id /\ p.kind = kind
        q == [p EXCEPT !.sel = id, !.kind = kind, !.result = IF same THEN @ ELSE None]
    IN  IF same /\ ~forced /\ p.detail.of = id THEN page' = q /\ wire' = Unhooked(w)
        ELSE /\ page' = [q EXCEPT !.ticks = IF kind = "object" THEN {} ELSE @]
             /\ wire' = Send(Unhooked(w), [Request("detail", id) EXCEPT !.want = kind])

Selectable(p) == p.canvas \union p.manifest

SelectElement(id) ==
    /\ May /\ Free /\ id \in Selectable(page) /\ Selected(Counted(page), wire, KindOf(id), id, FALSE) /\ UNCHANGED srv

DetailAnswer(r) ==
    /\ r.kind = "detail" /\ r.status # "asked"
    /\ page' = IF r.live THEN [page EXCEPT !.detail = IF r.status = "done" THEN r.detail ELSE NoDetail] ELSE page
    /\ wire' = wire \ {r} /\ UNCHANGED srv

(* What follows a loading: the reselection of what was saved or created.   *)
RestAnswer(r) ==
    /\ r.kind = "rest" /\ r.status # "asked"
    /\ LET p == [page EXCEPT !.loaded = TRUE, !.canvas = page.spec]
           w == wire \ {r}
       IN  CASE r.then = "object" /\ p.sel # None -> Selected(p, w, "object", p.sel, TRUE)
             [] r.then = "kinetic" /\ p.detail.of # None -> Selected(p, w, "kinetic", p.detail.of, TRUE)
             [] r.then = "link" -> Selected(p, w, "link", r.of, TRUE)
             [] r.then = "new" -> Selected(p, w, KindOf(r.of), r.of, FALSE)
             [] r.then = "deprecated" /\ p.sel = r.of -> Selected(p, w, "object", r.of, TRUE)
             [] OTHER -> page' = p /\ wire' = w
    /\ UNCHANGED srv

-----------------------------------------------------------------------------
(* The inspector of an object type.                                        *)

Editing(kind) == May /\ page.detail.of # None /\ page.kind = kind
Rows == page.detail.rows
Places == DOMAIN Rows
Edited(p, rows) == [Counted(p) EXCEPT !.detail.rows = rows]

AddPropRow == Editing("object") /\ Len(Rows) < MaxRows /\ page' = [Edited(page, Append(Rows, Row(NameAt[Len(Rows) + 1]))) EXCEPT !.ticks = {}] /\ Quiet

AddSharedRef(n) ==
    /\ Editing("object") /\ Len(Rows) < MaxRows /\ \A i \in Places : Rows[i].name # n
    /\ page' = Edited(page, Append(Rows, Row(n))) /\ Quiet

NameRow(i, n) == Editing("object") /\ i \in Places /\ Rows[i].name # n /\ page' = Edited(page, [Rows EXCEPT ![i].name = n]) /\ Quiet
ChangeRest(i) == Editing("object") /\ i \in Places /\ page' = Edited(page, [Rows EXCEPT ![i].rest = ~@]) /\ Quiet
SetPk(i) == Editing("object") /\ i \in Places /\ page.detail.pk # Rows[i].name /\ page' = [Counted(page) EXCEPT !.detail.pk = Rows[i].name] /\ Quiet

Tick(i) == Editing("object") /\ i \in Places /\ page' = [Counted(page) EXCEPT !.ticks = IF i \in @ THEN @ \ {i} ELSE @ \union {i}] /\ Quiet

Without(rows, places) == [j \in 1..(Len(rows) - Cardinality(places \intersect DOMAIN rows)) |->
                             rows[CHOOSE i \in DOMAIN rows \ places : Cardinality({m \in DOMAIN rows \ places : m <= i}) = j]]

BatchDelProps ==
    /\ Editing("object") /\ page.ticks # {}
    /\ page' = [Edited(page, Without(Rows, page.ticks)) EXCEPT !.ticks = {}] /\ Quiet

(* The key is asked about first; the answer comes when it comes.           *)
DelPropRow(i) ==
    /\ Editing("object") /\ i \in Places
    /\ page' = IF Rows[i].name = page.detail.pk THEN [Counted(page) EXCEPT !.dialog = [NoDialog EXCEPT !.ask = "row", !.of = page.detail.of, !.row = i]]
               ELSE [Edited(page, Without(Rows, {i})) EXCEPT !.ticks = {}]
    /\ Quiet

(* An edit of an action or a function collects the whole form: what it has *)
(* no field for is gone.                                                   *)
CollectAction(rows) == [i \in DOMAIN rows |-> Row(rows[i].name)]

EditKinetic == Editing("kinetic") /\ page' = Edited(page, CollectAction(Rows)) /\ Quiet
AcAdd(n) == Editing("kinetic") /\ Len(Rows) < MaxRows /\ page' = Edited(page, Append(CollectAction(Rows), Row(n))) /\ Quiet
AcDel(i) == Editing("kinetic") /\ i \in Places /\ page' = Edited(page, Without(CollectAction(Rows), {i})) /\ Quiet

-----------------------------------------------------------------------------
(* Saving.                                                                 *)

CollectPropIssues(d) ==
    \/ \E i \in DOMAIN d.rows : d.rows[i].name = Bad \/ \E j \in DOMAIN d.rows \ {i} : d.rows[j].name = d.rows[i].name
    \/ d.rows # <<>> /\ d.pk = None
    \/ d.pk # None /\ \A i \in DOMAIN d.rows : d.rows[i].name # d.pk

SaveOf(w, p, then) ==
    IF p.detail.of = None THEN w ELSE Send(w, [Request("save", p.detail.of) EXCEPT !.detail = p.detail, !.then = then])

DoSaveObject ==
    /\ Editing("object") /\ page.detail.of \in Objects /\ Free /\ ~CollectPropIssues(page.detail)
    /\ page' = Counted(page)
    /\ wire' = IF page.detail.orig # None /\ page.detail.pk \notin {None, page.detail.orig}
               THEN Send(wire, [Request("impact", page.detail.of) EXCEPT !.then = "save"])
               ELSE SaveOf(wire, page, "object")
    /\ UNCHANGED srv

DoSaveAction ==
    /\ Editing("kinetic") /\ page.detail.of \in Kinetic /\ Free
    /\ page' = Edited(page, CollectAction(Rows)) /\ wire' = SaveOf(wire, page', "kinetic") /\ UNCHANGED srv

DoSaveLink(id) ==
    /\ May /\ Free /\ page.kind = "link" /\ id = page.sel
    /\ page' = Counted(page) /\ wire' = Send(wire, [Request("save", id) EXCEPT !.then = "link"]) /\ UNCHANGED srv

SaveAnswer(r) ==
    /\ r.kind \in {"save", "publish", "deprecate"} /\ r.status # "asked"
    /\ page' = IF r.status = "done" /\ r.then = "object" THEN [page EXCEPT !.ticks = {}] ELSE page
    /\ wire' = IF r.status = "done" THEN Load(wire \ {r}, r.then, r.of) ELSE wire \ {r}
    /\ UNCHANGED srv

(* A new element is a save under the name that was typed.                  *)
DoNew(id) ==
    /\ May /\ Free /\ id \in Objects \union Kinetic
    /\ page' = Counted(page) /\ wire' = Send(wire, [Request("save", id) EXCEPT !.then = "new"]) /\ UNCHANGED srv

OpenLinkBubble(ends) == May /\ ends \subseteq page.canvas /\ page' = [Counted(page) EXCEPT !.bubble = ends] /\ Quiet

(* The bubble is closed before its relation is sent.                       *)
ConfirmLinkBubble(id) ==
    /\ May /\ Free /\ page.bubble # {} /\ page.bubble = EndsOf[id]
    /\ page' = [Counted(page) EXCEPT !.bubble = {}]
    /\ wire' = Send(wire, [Request("save", id) EXCEPT !.then = "link", !.rels = page.bubble]) /\ UNCHANGED srv

CancelLinkBubble == May /\ page.bubble # {} /\ page' = [Counted(page) EXCEPT !.bubble = {}] /\ Quiet

DoPublish == May /\ Free /\ page' = Counted(page) /\ wire' = Send(wire, Request("publish", None)) /\ UNCHANGED srv

-----------------------------------------------------------------------------
(* Deleting, with the impact looked up first for an object type; trying an *)
(* action out.                                                             *)

RelsOf(there, id) == {l \in Links \intersect there : id \in EndsOf[l]}

DoDel(id) ==
    /\ May /\ page.sel = id
    /\ IF id \in Objects THEN /\ Free /\ page' = Counted(page)
                              /\ wire' = Send(wire, [Request("impact", id) EXCEPT !.then = "delete", !.rels = RelsOf(page.manifest, id)])
       ELSE page' = [Counted(page) EXCEPT !.dialog = [NoDialog EXCEPT !.ask = "delete", !.of = id]] /\ wire' = wire
    /\ UNCHANGED srv

(* A lookup that failed counts as nothing materialised.                    *)
ImpactAnswer(r) ==
    /\ r.kind = "impact" /\ r.status # "asked"
    /\ CASE r.then = "delete" -> page' = [page EXCEPT !.dialog = [NoDialog EXCEPT !.ask = "delete", !.of = r.of, !.rels = r.rels]] /\ wire' = wire \ {r}
         [] r.then = "save" /\ r.status = "done" /\ r.of \in Keyed ->
              page' = [page EXCEPT !.dialog = [NoDialog EXCEPT !.ask = "save", !.of = r.of]] /\ wire' = wire \ {r}
         [] OTHER -> page' = page /\ wire' = SaveOf(wire \ {r}, page, "object")
    /\ UNCHANGED srv

DelAnswer(r) ==
    /\ r.kind = "del" /\ r.status # "asked"
    /\ page' = IF r.status = "done" THEN [page EXCEPT !.sel = None, !.kind = None, !.detail = NoDetail] ELSE page
    /\ wire' = IF r.status = "done" THEN Load(wire \ {r}, "nothing", None) ELSE wire \ {r}
    /\ UNCHANGED srv

DoRunAction ==
    /\ Editing("kinetic") /\ Free
    /\ page' = Edited(page, CollectAction(Rows)) /\ wire' = Send(wire, Request("run", page.detail.of)) /\ UNCHANGED srv

RunAnswer(r) == r.kind = "run" /\ r.status # "asked" /\ page' = [page EXCEPT !.result = r.of] /\ wire' = wire \ {r} /\ UNCHANGED srv

(* A dialog lies over the page; answers still come in under it.            *)
Closed == [page EXCEPT !.dialog = NoDialog]
Cancel == page.dialog # NoDialog /\ page' = Closed /\ Quiet

Confirm ==
    /\ page.dialog # NoDialog
    /\ LET d == page.dialog
       IN  CASE d.ask = "row" -> /\ page' = IF page.detail.of = None THEN Closed
                                            ELSE [Closed EXCEPT !.detail.pk = None, !.detail.rows = Without(Rows, {d.row}), !.ticks = {}]
                                 /\ wire' = wire
             [] d.ask = "save" -> page' = Closed /\ Free /\ wire' = SaveOf(wire, page, "object")
             [] OTHER -> page' = Closed /\ Free /\ wire' = Send(wire, [Request("del", d.of) EXCEPT !.rels = d.rels])
    /\ UNCHANGED srv

Deprecate ==
    /\ page.dialog.ask = "delete" /\ page.dialog.of \in Objects /\ Free
    /\ page' = Closed /\ wire' = Send(wire, [Request("deprecate", page.dialog.of) EXCEPT !.then = "deprecated"]) /\ UNCHANGED srv

-----------------------------------------------------------------------------
(* The ontology service: it stores what it is sent under the name it has.  *)

Stored(r) == [srv EXCEPT !.there = @ \union {r.of}, !.defs[r.of] = r.detail.rows, !.pk = IF r.of \in Objects THEN [@ EXCEPT ![r.of] = r.detail.pk] ELSE @]

Definition(id) ==
    [of |-> id, rows |-> srv.defs[id], pk |-> IF id \in Objects THEN srv.pk[id] ELSE None, orig |-> IF id \in Objects THEN srv.pk[id] ELSE None]

Serve(r) ==
    /\ r.status = "asked" /\ (r.kind = "detail" => r.of \in srv.there /\ KindOf(r.of) = r.want)
    /\ \E gone \in SUBSET r.rels :
         srv' = CASE r.kind = "save" /\ r.of \notin Links -> Stored(r)
                  [] r.kind = "save" /\ r.of \in Links -> [srv EXCEPT !.there = @ \union {r.of}]
                  [] r.kind = "del" -> [srv EXCEPT !.there = @ \ ({r.of} \union gone)]
                  [] r.kind = "publish" -> [srv EXCEPT !.published = @ \union srv.there]
                  [] OTHER -> srv
    /\ wire' = Settled(wire, r, [r EXCEPT !.status = "done", !.there = IF r.kind = "load" THEN srv.there ELSE @,
                                          !.detail = IF r.kind = "detail" THEN Definition(r.of) ELSE @])
    /\ UNCHANGED page

(* Relations that were to go with a refused deletion may be gone.          *)
Refuse(r) ==
    /\ r.status = "asked" /\ wire' = Refused(wire, r) /\ UNCHANGED page
    /\ \E gone \in SUBSET r.rels : srv' = IF r.kind = "del" THEN [srv EXCEPT !.there = @ \ gone] ELSE srv

Answer(r) ==
    DetailAnswer(r) \/ LoadAnswer(r) \/ RestAnswer(r) \/ SaveAnswer(r) \/ ImpactAnswer(r) \/ DelAnswer(r) \/ RunAnswer(r)

Next ==
    \/ AddPropRow \/ BatchDelProps \/ EditKinetic \/ DoSaveObject \/ DoSaveAction \/ CancelLinkBubble \/ DoPublish \/ DoRunAction
    \/ Cancel \/ Confirm \/ Deprecate
    \/ \E id \in Ids : SelectElement(id) \/ DoDel(id) \/ DoNew(id) \/ DoSaveLink(id)
    \/ \E n \in Objects : DragNode(n)
    \/ \E n \in Names : AddSharedRef(n) \/ AcAdd(n)
    \/ \E i \in 1..MaxRows : SetPk(i) \/ Tick(i) \/ DelPropRow(i) \/ ChangeRest(i) \/ AcDel(i) \/ \E n \in Names \union {Bad} : NameRow(i, n)
    \/ \E l \in Links : OpenLinkBubble(EndsOf[l]) \/ ConfirmLinkBubble(l)
    \/ \E r \in wire : Serve(r) \/ Refuse(r) \/ Answer(r)

Spec == Init /\ [][Next]_vars

-----------------------------------------------------------------------------

(* The state keeps to its types.                                          *)
TypeOK ==
    /\ page.sel \in Ids \union {None} /\ page.kind \in {"object", "link", "kinetic", None}
    /\ page.detail.of \in Ids \union {None} /\ Len(page.detail.rows) <= MaxRows
    /\ {page.manifest, page.moved, srv.there} \subseteq SUBSET Ids /\ {page.spec, page.canvas} \subseteq SUBSET Objects
    /\ \A r \in wire : r.status \in Statuses

(* However answers overtake each other: with no fetch of its own under way *)
(* the inspector holds the definition of the element selected, or none.    *)
DetailIsOfSelected ==
    page.sel # None /\ page.detail.of # None =>
        page.detail.of = page.sel \/ \E r \in wire : r.kind = "detail" /\ r.live /\ r.of = page.sel

(* One bubble makes one relation: no second request for the same one.      *)
LinkedOnceStep == \A r \in wire' \ wire : r.kind = "save" /\ r.rels # {} /\ r.status = "asked" => page.bubble = r.rels /\ page'.bubble = {}
LinkedOnce == [][LinkedOnceStep]_vars

-----------------------------------------------------------------------------
(* Wanted of the page, and not met by the code: README.md, section 7.      *)

(* The rows that are ticked are rows of what the inspector shows.          *)
TicksAreRows == page.ticks \subseteq Places

(* A key with objects stored under it is changed after asking only.        *)
KeyChangeIsAsked ==
    [][\A r \in wire' \ wire : r.kind = "save" /\ r.then = "object" /\ r.of \in Keyed /\ r.detail.pk # srv.pk[r.of] /\ r.status = "asked"
                                  => page.dialog.ask = "save"]_vars

(* The inspector's kind is that of the element that is chosen (1275).      *)
KindIsOfSelected == page.sel # None => page.kind = KindOf(page.sel)

(* A relation has both its ends (1357-1359).                               *)
NothingDangles == \A l \in Links \intersect srv.there : EndsOf[l] \subseteq srv.there

(* A creation does not replace what has the name (874-879, 1150).          *)
CreatesOnlyNew == [][\A r \in wire' \ wire : r.kind = "save" /\ r.then = "new" => r.of \notin srv.there]_vars

(* The canvas shows the objects of the manifest (134-153, 346).            *)
CanvasShowsManifest == wire = {} => page.canvas = Nodes(page.manifest)

(* The result that is shown is of the chosen action (643-670).             *)
ResultIsOfSelected == page.result # None => page.result = page.sel

(* An edit keeps what the inspector does not show of a row (829).          *)
EditKeepsRest ==
    [][page'.detail.of = page.detail.of /\ page.kind = "kinetic" /\ wire' = wire =>
         \A i \in DOMAIN page'.detail.rows \intersect Places :
             page'.detail.rows[i].name = Rows[i].name => page'.detail.rows[i].rest = Rows[i].rest]_vars
=============================================================================
