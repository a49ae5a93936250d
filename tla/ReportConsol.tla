----------------------------- MODULE ReportConsol -----------------------------
(***************************************************************************)
(* The workbench of consolidated reports (consol-workbench.js): a scheme,  *)
(* a period and a node of the consolidation scope are selected in turn,    *)
(* each load starting the next; runs (consolidation, reconciliation,       *)
(* change of scope, statements) load what they changed.  What the tables   *)
(* show is known by the selection it was asked for.                        *)
(***************************************************************************)
EXTENDS PageRequests

CONSTANTS Schemes, Periods, Nodes,  \* each scheme has these periods, each period these nodes
          FirstScheme, FirstPeriod, Root,
          None,
          MaxWire                   \* bound: requests on the way

ConsolAssumption ==
    FirstScheme \in Schemes /\ FirstPeriod \in Periods /\ Root \in Nodes /\ None \notin Schemes \union Periods \union Nodes

VARIABLES page, wire,
          srv               \* what the services compute is not modelled

vars == <<page, wire, srv>>

Runs == {"consolidation", "reconcile", "scope", "statements"}
Nothing == [scheme |-> None, period |-> None, node |-> None]

Init ==
    /\ page = [sel |-> Nothing, nodes |-> FALSE, table |-> Nothing, statement |-> FALSE, notes |-> FALSE,
               tab |-> "worksheet", drill |-> FALSE, running |-> FALSE]
    /\ wire = {}
    /\ srv = None

(* run: the workbench waits for it with its buttons disabled.              *)
SelOf(kind, sel) == IF kind = "node" THEN sel ELSE Nothing
Request(kind, sel, run) == [kind |-> kind, sel |-> SelOf(kind, sel), run |-> run]

Ask(kind, sel, run) == Room(wire, MaxWire) /\ wire' = Sent(wire, MaxWire, Request(kind, sel, run))

Continue(r, kind, sel) == Settled(wire, r, [r EXCEPT !.kind = kind, !.sel = SelOf(kind, sel), !.status = "asked"])

Ready(p) == p.sel.scheme # None /\ p.sel.period # None

-----------------------------------------------------------------------------
(* The selection.                                                          *)

LoadSchemes ==
    /\ page.sel.scheme = None
    /\ Ask("schemes", Nothing, FALSE) /\ UNCHANGED <<page, srv>>

(* The node selected before stays until the nodes are there.               *)
WithScheme(p, s) == [p EXCEPT !.sel.scheme = s, !.sel.period = None, !.nodes = FALSE, !.table = Nothing]
WithPeriod(p, q) == [p EXCEPT !.sel.period = q, !.nodes = FALSE, !.table = Nothing]
WithNode(p, n) == [p EXCEPT !.sel.node = n]

LoadScheme(s) ==
    /\ page.sel.scheme # None
    /\ page' = WithScheme(page, s)
    /\ Ask("periods", page'.sel, FALSE) /\ UNCHANGED srv

LoadPeriod(q) ==
    /\ page.sel.period # None
    /\ page' = WithPeriod(page, q)
    /\ Ask("nodes", page'.sel, FALSE) /\ UNCHANGED srv

SelectNode(n) ==
    /\ page.nodes /\ Ready(page)
    /\ page' = WithNode(page, n)
    /\ Ask("node", page'.sel, FALSE) /\ UNCHANGED srv

(* Each list selects its first entry and asks for what hangs on it.        *)
SchemesLoaded(r) ==
    /\ r.kind = "schemes" /\ r.status # "asked"
    /\ LET s == IF page.sel.scheme = None /\ r.status = "done" THEN FirstScheme ELSE page.sel.scheme
       IN  IF s = None THEN UNCHANGED page /\ wire' = wire \ {r}
           ELSE /\ page' = WithScheme(page, s)
                /\ wire' = Continue(r, "periods", page'.sel)
    /\ UNCHANGED srv

PeriodsLoaded(r) ==
    /\ r.kind = "periods" /\ r.status # "asked"
    /\ IF r.status = "failed" THEN UNCHANGED page /\ wire' = wire \ {r}
       ELSE /\ page' = WithPeriod(page, FirstPeriod)
            /\ wire' = Continue(r, "nodes", page'.sel)
    /\ UNCHANGED srv

NodesLoaded(r) ==
    /\ r.kind = "nodes" /\ r.status # "asked"
    /\ LET p == WithNode([page EXCEPT !.nodes = TRUE], Root)
       IN  IF r.status = "failed" THEN UNCHANGED page /\ wire' = wire \ {r}
           ELSE page' = p /\ wire' = IF Ready(p) THEN Continue(r, "node", p.sel) ELSE wire \ {r}
    /\ UNCHANGED srv

(* Worksheet, journal, reconciliation and the rest come together or not at *)
(* all.                                                                    *)
NodeLoaded(r) ==
    /\ r.kind = "node" /\ r.status # "asked"
    /\ page' = [page EXCEPT !.table = IF r.status = "done" THEN r.sel ELSE @, !.running = @ /\ ~r.run]
    /\ wire' = wire \ {r} /\ UNCHANGED srv

-----------------------------------------------------------------------------
(* Runs; their buttons are disabled while one is going on.                 *)

\* Mutant: the buttons stay enabled during a run.
RunAgain(kind) ==
    /\ Ready(page)
    /\ page' = [page EXCEPT !.running = TRUE]
    /\ Ask(kind, page.sel, TRUE) /\ UNCHANGED srv

Run(kind) ==
    /\ ~page.running /\ Ready(page)
    /\ page' = [page EXCEPT !.running = TRUE]
    /\ Ask(kind, page.sel, TRUE) /\ UNCHANGED srv

TabOf(kind) ==
    CASE kind = "reconcile" -> "recon" [] kind = "scope" -> "scope" [] kind = "statements" -> "statements" [] OTHER -> page.tab

RunDone(r) ==
    /\ r.kind \in Runs /\ r.status # "asked"
    /\ LET p == [page EXCEPT !.tab = TabOf(r.kind)]
       IN  IF r.status = "failed" \/ ~Ready(p)
           THEN page' = [p EXCEPT !.running = FALSE, !.tab = IF r.status = "failed" THEN page.tab ELSE @] /\ wire' = wire \ {r}
           ELSE page' = p /\ wire' = Continue(r, IF r.kind = "statements" THEN "statement" ELSE "node", page.sel)
    /\ UNCHANGED srv

-----------------------------------------------------------------------------
(* Statements and notes, computed when their tab is opened.                *)

Tabs == {"worksheet", "recon", "journal", "scope", "statements", "notes"}

(* The buttons in the tables; a table is empty until a node was loaded.    *)
Offers(tab) ==
    CASE tab \in {"worksheet", "journal"} -> IF page.table = Nothing THEN {} ELSE {"drill"}
      [] tab = "statements" -> {"compute"} [] tab = "notes" -> {"generate"} [] OTHER -> {}

SelectTab(t) ==
    /\ t # page.tab
    /\ page' = [page EXCEPT !.tab = t, !.drill = @ /\ t \in {"journal", "worksheet"}]
    /\ LET kind == CASE t = "statements" /\ ~page.statement -> "statement"
                     [] t = "notes" /\ ~page.notes -> "notes" [] OTHER -> None
       IN  IF kind # None /\ Ready(page) THEN Ask(kind, page.sel, FALSE) ELSE UNCHANGED wire
    /\ UNCHANGED srv

ComputeStatement ==
    /\ "compute" \in Offers(page.tab) /\ Ready(page)
    /\ Ask("statement", page.sel, FALSE) /\ UNCHANGED <<page, srv>>

GenerateNotes == "generate" \in Offers(page.tab) /\ Ready(page) /\ Ask("notes", page.sel, FALSE) /\ UNCHANGED <<page, srv>>

PanelLoaded(r) ==
    /\ r.kind \in {"statement", "notes"} /\ r.status # "asked"
    /\ page' = IF r.kind = "notes" THEN [page EXCEPT !.notes = (r.status = "done")]
               ELSE [page EXCEPT !.statement = (r.status = "done"), !.running = @ /\ ~r.run]
    /\ wire' = wire \ {r} /\ UNCHANGED srv

(* From an eliminated amount to its vouchers, and back.                    *)
Drill ==
    /\ "drill" \in Offers(page.tab)
    /\ page' = [page EXCEPT !.drill = TRUE, !.tab = IF @ = "worksheet" THEN "journal" ELSE "worksheet"]
    /\ UNCHANGED <<wire, srv>>

ClearDrill == page.drill /\ page.tab = "journal" /\ page' = [page EXCEPT !.drill = FALSE] /\ UNCHANGED <<wire, srv>>

-----------------------------------------------------------------------------

Serve(r) ==
    /\ r.status = "asked"
    /\ wire' = Settled(wire, r, [r EXCEPT !.status = "done"])
    /\ UNCHANGED <<page, srv>>

Refuse(r) == r.status = "asked" /\ wire' = Refused(wire, r) /\ UNCHANGED <<page, srv>>

Answer(r) == SchemesLoaded(r) \/ PeriodsLoaded(r) \/ NodesLoaded(r) \/ NodeLoaded(r) \/ RunDone(r) \/ PanelLoaded(r)

Next == \/ LoadSchemes \/ ComputeStatement \/ GenerateNotes \/ Drill \/ ClearDrill
        \/ \E s \in Schemes : LoadScheme(s)
        \/ \E q \in Periods : LoadPeriod(q)
        \/ \E n \in Nodes : SelectNode(n)
        \/ \E k \in Runs : Run(k)
        \/ \E t \in Tabs : SelectTab(t)
        \/ \E r \in wire : Answer(r) \/ Serve(r) \/ Refuse(r)

Spec == Init /\ [][Next]_vars

-----------------------------------------------------------------------------

(* The state keeps to its types.                                          *)
TypeOK ==
    /\ page.sel \in [scheme : Schemes \union {None}, period : Periods \union {None}, node : Nodes \union {None}]
    /\ page.tab \in Tabs /\ page.running \in BOOLEAN /\ page.drill \in BOOLEAN

(* The workbench never has two runs going on, and its buttons are enabled  *)
(* again only when the run and what it loads have ended.                   *)
OneRunAtATime ==
    /\ Cardinality({r \in wire : r.run}) <= 1
    /\ page.running <=> \E r \in wire : r.run

-----------------------------------------------------------------------------
(* Wanted of the page, and not met by the code: README.md, section 7.      *)

(* The tables show the node that is selected.                              *)
TableIsSelected == (wire = {} /\ page.table # Nothing) => page.table = page.sel

(* The filter of the journal is gone when its tabs are left.               *)
DrillEnds == page.drill => page.tab \in {"worksheet", "journal"}
=============================================================================
