----------------------------- MODULE ReportFloat -----------------------------
(***************************************************************************)
(* The floating rows and columns of a report (report-applier.js): the      *)
(* panel that maintains the rows of a period, and how the service's rows   *)
(* and columns are laid out on the sheet, with an outline that folds the   *)
(* details under their totals.  The service numbers the rows from the row  *)
(* of the template on, a parent before its children (external); a row is   *)
(* known by that number, and `parent` gives it the row above it, or 0.     *)
(***************************************************************************)
EXTENDS PageRequests, Sequences, SequencesExt

CONSTANTS Periods, Home,    \* accounting periods, and the first one chosen
          Columns,          \* columns that may float
          None,
          MaxRows,          \* bound: floating rows of a period
          MaxWire           \* bound: requests on the way

FloatAssumption == Home \in Periods /\ None \notin Periods /\ Columns \subseteq Nat /\ MaxRows \in Nat

VARIABLES page, wire, srv

vars == <<page, wire, srv>>

-----------------------------------------------------------------------------
(* Outlines.                                                               *)

Rows(parent) == DOMAIN parent

RECURSIVE Above(_, _)
Above(parent, i) == IF i = 0 THEN {} ELSE {i} \union Above(parent, parent[i])

(* The hierarchies the service sends: details right below their total.     *)
Hierarchies == {parent \in UNION {[1..k -> 0..MaxRows] : k \in 0..MaxRows} :
                  \A i \in DOMAIN parent : parent[i] = 0 \/ (parent[i] < i /\ parent[i] \in Above(parent, i - 1))}

RECURSIVE Descendants(_, _)
Descendants(parent, p) ==
    LET kids == {i \in Rows(parent) : parent[i] = p} IN kids \union UNION {Descendants(parent, k) : k \in kids}

(* A total and all that is below it: from the first row to the last.       *)
RowGroups(parent) ==
    LET parents == {p \in Rows(parent) : \E i \in Rows(parent) : parent[i] = p}
        span(p) == {p} \union Descendants(parent, p)
    IN  {<<Min(span(p)), Max(span(p))>> : p \in parents}

(* Columns next to each other fold together: one pass from left to right.  *)
ColumnGroups(columns) ==
    LET step(acc, col) ==
          IF acc # << >> /\ col = Last(acc)[2] + 1 THEN Front(acc) \o <<<<Last(acc)[1], col>>>>
          ELSE Append(acc, <<col, col>>)
    IN  FoldLeft(step, << >>, SetToSortSeq(columns, <))

-----------------------------------------------------------------------------

NoRows == << >>

Init ==
    /\ page = [cur |-> Home, panel |-> None, rows |-> 0, draft |-> FALSE,
               sheet |-> 0, index |-> NoRows, outline |-> {}, columns |-> << >>]
    /\ wire = {}
    /\ srv \in [rows : {[p \in Periods |-> h] : h \in Hierarchies}, columns : SUBSET Columns]

Ask(kind, period, rows) ==
    /\ Room(wire, MaxWire)
    /\ wire' = Sent(wire, MaxWire, [kind |-> kind, period |-> period, rows |-> rows, tree |-> NoRows])

SelectPeriod(p) ==
    /\ p # page.cur
    /\ page' = [page EXCEPT !.cur = p, !.sheet = 0, !.index = NoRows, !.outline = {}, !.columns = << >>]
    /\ wire' = wire \ Pending(wire, {"expand"})
    /\ UNCHANGED srv

(* The layout with its floating rows; what an earlier and longer one wrote *)
(* below the last row stays on the sheet.                                  *)
Expand == Ask("expand", page.cur, 0) /\ Pending(wire, {"expand"}) = {} /\ UNCHANGED <<page, srv>>

ApplyFloatExpansion(r) ==
    /\ r.kind = "expand" /\ r.status # "asked"
    /\ page' = IF r.status = "failed" THEN page
               ELSE [page EXCEPT !.sheet = Max({@, Len(r.tree)}), !.index = r.tree,
                                 !.outline = RowGroups(r.tree), !.columns = ColumnGroups(srv.columns)]
    /\ wire' = wire \ {r} /\ UNCHANGED srv

-----------------------------------------------------------------------------
(* The panel: loaded when it is first shown and after its own changes.     *)

LoadFloatItems == Ask("rows", page.cur, 0) /\ UNCHANGED <<page, srv>>

(* An error empties the panel.                                             *)
FloatItemsLoaded(r) ==
    /\ r.kind = "rows" /\ r.status # "asked"
    /\ page' = [page EXCEPT !.panel = r.period, !.draft = FALSE, !.rows = IF r.status = "done" THEN Len(r.tree) ELSE 0]
    /\ wire' = wire \ {r} /\ UNCHANGED srv

AddItem ==
    /\ page.panel # None /\ ~page.draft
    /\ page' = [page EXCEPT !.draft = TRUE]
    /\ UNCHANGED <<wire, srv>>

(* A row that was never saved goes without a request.                      *)
DropDraft ==
    /\ page.draft
    /\ page' = [page EXCEPT !.draft = FALSE]
    /\ UNCHANGED <<wire, srv>>

Shown == page.rows + IF page.draft THEN 1 ELSE 0

SaveFloatItems ==
    /\ page.panel # None /\ Shown <= MaxRows
    /\ Ask("save", page.cur, Shown)
    /\ UNCHANGED <<page, srv>>

SeedFloatItems == page.panel # None /\ Ask("seed", page.cur, 0) /\ UNCHANGED <<page, srv>>

DeleteFloatItem == page.panel # None /\ page.rows > 0 /\ Ask("delete", page.panel, 0) /\ UNCHANGED <<page, srv>>

(* The panel is loaded again, and then the sheet.                          *)
Changed(r) ==
    /\ r.kind \in {"save", "seed", "delete"} /\ r.status # "asked"
    /\ wire' = IF r.status = "failed" THEN wire \ {r}
               ELSE Settled(wire, r, [r EXCEPT !.kind = "rows", !.status = "asked", !.period = page.cur, !.rows = 0])
    /\ UNCHANGED <<page, srv>>

-----------------------------------------------------------------------------
(* The service: a row that is added or seeded has no total above it.       *)

Longer(tree, n) == tree \o [i \in 1..Max({n - Len(tree), 0}) |-> 0]

Effect(r) ==
    CASE r.kind = "save"   -> [srv EXCEPT !.rows[r.period] = Longer(@, r.rows)]
      [] r.kind = "seed"   -> [srv EXCEPT !.rows[r.period] = Longer(@, MaxRows)]
      [] r.kind = "delete" -> [srv EXCEPT !.rows[r.period] = IF @ = NoRows THEN @ ELSE Front(@)]
      [] OTHER -> srv

Serve(r) ==
    /\ r.status = "asked"
    /\ srv' = Effect(r)
    /\ wire' = Settled(wire, r, [r EXCEPT !.status = "done",
         !.tree = IF r.kind \in {"rows", "expand"} THEN srv'.rows[r.period] ELSE NoRows])
    /\ UNCHANGED page

Refuse(r) == r.status = "asked" /\ wire' = Refused(wire, r) /\ UNCHANGED <<page, srv>>

Answer(r) == ApplyFloatExpansion(r) \/ FloatItemsLoaded(r) \/ Changed(r)

Next == \/ Expand \/ LoadFloatItems \/ AddItem \/ DropDraft \/ SaveFloatItems \/ SeedFloatItems \/ DeleteFloatItem
        \/ \E p \in Periods : SelectPeriod(p)
        \/ \E r \in wire : Answer(r) \/ Serve(r) \/ Refuse(r)

Spec == Init /\ [][Next]_vars

-----------------------------------------------------------------------------

(* The state keeps to its types.                                          *)
TypeOK ==
    /\ page.cur \in Periods /\ page.panel \in Periods \union {None}
    /\ page.sheet \in 0..MaxRows /\ page.rows \in 0..MaxRows /\ page.draft \in BOOLEAN
    /\ \A p \in Periods : srv.rows[p] \in Hierarchies

(* The groups of an outline nest: folding one never hides a part of        *)
(* another.  Column groups are the longest runs of floating columns.       *)
GroupsNest ==
    /\ \A g, h \in page.outline : LET a == g[1]..g[2] b == h[1]..h[2]
                                  IN  a \cap b = {} \/ a \subseteq b \/ b \subseteq a
    /\ page.columns # << >> =>
         /\ UNION {g[1]..g[2] : g \in Range(page.columns)} = srv.columns
         /\ \A g \in Range(page.columns) : g[1] - 1 \notin srv.columns /\ g[2] + 1 \notin srv.columns

-----------------------------------------------------------------------------
(* Wanted of the page, and not met by the code: README.md, section 7.      *)

(* The sheet has no floating rows but those of its last layout.            *)
NoLeftRows == page.sheet = Len(page.index)

(* The rows of the panel are saved for the period they were loaded for.    *)
PanelKeepsPeriod == [][\A r \in wire' \ wire : r.kind = "save" => page.panel = r.period]_vars
=============================================================================
