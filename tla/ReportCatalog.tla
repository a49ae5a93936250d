---------------------------- MODULE ReportCatalog ----------------------------
(***************************************************************************)
(* The workbench of the report designer (designer-workbench.js): reports   *)
(* by category, the details of the selected version, and the dialogs that  *)
(* create a report, a version, or choose the default version.  After every *)
(* change the page forgets its details and loads the overview again.  A    *)
(* designer is opened in a tab of the portal.                              *)
(***************************************************************************)
EXTENDS PageRequests

CONSTANTS Reports, Categories, CategoryOf,  \* report codes and the category each is kept under
          SlugOf,                           \* the part of a tab's id that stands for a version (0: none)
          None,
          MaxTabs,                          \* bound: designers opened
          MaxVersion,                       \* bound: versions of a report
          MaxChanges,                       \* bound: changes asked for
          MaxWire                           \* bound: requests on the way

CatalogAssumption == MaxVersion \in Nat \ {0} /\ MaxWire \in Nat \ {0} /\ MaxTabs \in Nat /\ MaxChanges \in Nat

VARIABLES page, wire, srv

vars == <<page, wire, srv>>

(* A report that does not exist has no version; V1 is created with it.     *)
Missing == [versions |-> 0, default |-> 0]

Init ==
    /\ page = [open |-> FALSE, reports |-> [r \in Reports |-> Missing], category |-> None, selected |-> None,
               chosen |-> [r \in Reports |-> 0], details |-> {}, loading |-> FALSE, dialog |-> None, of |-> None, tabs |-> {}, front |-> None, changes |-> 0]
    /\ wire = {}
    /\ srv \in [Reports -> {Missing, [versions |-> 1, default |-> 1]}]

Listed(p) == {r \in Reports : p.reports[r].versions > 0}

(* The list, under the chosen category.                                    *)
FilteredReports(p) == {r \in Listed(p) : p.category \in {None, CategoryOf[r]}}

(* The version that was picked on this page, else the default one.         *)
ReportVersion(p, r) == IF p.chosen[r] > 0 THEN p.chosen[r] ELSE p.reports[r].default

DetailKey(p, r) == [report |-> r, version |-> ReportVersion(p, r)]

Ask(kind, r, v) ==
    /\ Room(wire, MaxWire)
    /\ wire' = Sent(wire, MaxWire, [kind |-> kind, report |-> r, version |-> v,
                                    rows |-> [x \in Reports |-> Missing]])

(* Every drawing of the property panel asks for the details it lacks, and  *)
(* the answer draws the panel: nothing is asked twice only while nothing   *)
(* else is drawn.                                                          *)
Lacking(p) == /\ p.selected # None /\ p.selected \in Listed(p)
              /\ DetailKey(p, p.selected) \notin {[report |-> d.report, version |-> d.version] : d \in p.details}

EnsureDetail ==
    /\ page.open /\ Lacking(page)
    /\ Ask("detail", page.selected, ReportVersion(page, page.selected))
    /\ UNCHANGED <<page, srv>>

(* A load that finds another one under way is dropped, forced or not.      *)
LoadData(p, w) ==
    IF p.loading THEN page' = p /\ wire' = w
    ELSE /\ page' = [p EXCEPT !.loading = TRUE]
         /\ wire' = Sent(w, MaxWire, [kind |-> "overview", report |-> None, version |-> 0,
                                      rows |-> [x \in Reports |-> Missing]])

Mount ==
    /\ ~page.open
    /\ LoadData([page EXCEPT !.open = TRUE], wire)
    /\ UNCHANGED srv

Refresh == page.open /\ ~page.loading /\ Room(wire, MaxWire) /\ LoadData(page, wire) /\ UNCHANGED srv

First(S) == CHOOSE r \in S : TRUE

(* The first category and the first report are chosen when none was.       *)
RebuildDimensions(p, rows) ==
    LET loaded == [p EXCEPT !.reports = rows]
        cat    == IF p.category = None THEN First(Categories) ELSE p.category
        list   == FilteredReports([loaded EXCEPT !.category = cat])
        all    == Listed(loaded)
    IN  [loaded EXCEPT !.category = cat,
                       !.selected = IF @ # None \/ all = {} THEN @ ELSE First(IF list # {} THEN list ELSE all)]

Loaded(r) ==
    /\ r.kind = "overview" /\ r.status # "asked"
    /\ page' = [IF r.status = "done" THEN RebuildDimensions(page, r.rows) ELSE page EXCEPT !.loading = FALSE]
    /\ wire' = wire \ {r} /\ UNCHANGED srv

DetailAnswer(r) ==
    /\ r.kind = "detail" /\ r.status # "asked"
    /\ page' = IF r.status = "failed" THEN page
               ELSE [page EXCEPT !.details = {d \in @ : <<d.report, d.version>> # <<r.report, r.version>>} \union
                        {[report |-> r.report, version |-> r.version, default |-> r.rows[r.report].default]}]
    /\ wire' = wire \ {r} /\ UNCHANGED srv

-----------------------------------------------------------------------------
(* Choosing.                                                               *)

(* An empty list leaves the report of another category selected.           *)
SelectCategory(c) ==
    /\ page.open /\ ~page.loading /\ Listed(page) # {} /\ c # page.category
    /\ LET list == FilteredReports([page EXCEPT !.category = c])
       IN  page' = [page EXCEPT !.category = c, !.selected = IF list # {} THEN First(list) ELSE @]
    /\ UNCHANGED <<wire, srv>>

SelectReport(r) ==
    /\ page.open /\ ~page.loading /\ r \in FilteredReports(page) /\ r # page.selected
    /\ page' = [page EXCEPT !.selected = r]
    /\ UNCHANGED <<wire, srv>>

(* The selector on a card, and the version list of the property panel.     *)
SelectVersion(r, v) ==
    /\ page.open /\ v \in 1..page.reports[r].versions /\ v # ReportVersion(page, r)
    /\ r = page.selected \/ (~page.loading /\ r \in FilteredReports(page))
    /\ page' = [page EXCEPT !.chosen[r] = v]
    /\ UNCHANGED <<wire, srv>>

(* The host brings a tab whose id it knows to the front as it is.          *)
Known(id) == \E t \in page.tabs : t.id = id

OpenWorkNode(tab) ==
    /\ Known(tab.id) \/ Cardinality(page.tabs) < MaxTabs
    /\ page' = [page EXCEPT !.tabs = IF Known(tab.id) THEN @ ELSE @ \union {tab}, !.front = tab.id]

(* A designer is known by its report and version; in its id every run of   *)
(* other characters than letters, digits, _ and - is one _.                *)
OpenReportDesigner(r) ==
    /\ page.open /\ ~page.loading /\ r \in FilteredReports(page)
    /\ LET v == ReportVersion(page, r)
       IN  OpenWorkNode([id |-> <<r, SlugOf[v]>>, report |-> r, version |-> v])
    /\ UNCHANGED <<wire, srv>>

-----------------------------------------------------------------------------
(* The dialogs stay open while their request is on the way, so that it can *)
(* be sent again, or closed meanwhile.                                     *)

CreateReport ==
    /\ page.open /\ page.dialog = None
    /\ page' = [page EXCEPT !.dialog = "report", !.of = None]
    /\ UNCHANGED <<wire, srv>>

CreateVersion(r) ==
    /\ page.open /\ page.dialog = None /\ ~page.loading /\ r \in FilteredReports(page)
    /\ page' = [page EXCEPT !.dialog = "version", !.of = r, !.selected = r]
    /\ UNCHANGED <<wire, srv>>

CloseDialog == page.dialog # None /\ page' = [page EXCEPT !.dialog = None, !.of = None] /\ UNCHANGED <<wire, srv>>

Change(kind, r, v) ==
    /\ page.changes < MaxChanges
    /\ page' = [page EXCEPT !.changes = @ + 1]
    /\ Ask(kind, r, v) /\ UNCHANGED srv

SubmitReport(r) == page.dialog = "report" /\ Change("create", r, 1)

SubmitVersion ==
    /\ page.dialog = "version" /\ page.of \in Listed(page)
    /\ page.reports[page.of].versions < MaxVersion
    /\ Change("version", page.of, page.reports[page.of].versions + 1)

SetDefaultVersion(v) ==
    /\ page.dialog = "version" /\ v \in 1..page.reports[page.of].versions
    /\ Change("default", page.of, v)

(* The user confirmed.                                                     *)
DeleteReport(r) ==
    /\ page.open /\ page.dialog = None /\ ~page.loading /\ r \in FilteredReports(page)
    /\ Change("delete", r, 0)

Forget(p) == [p EXCEPT !.details = {}]

Changed(r) ==
    CASE r.kind = "create"  -> [page EXCEPT !.selected = r.report, !.category = CategoryOf[r.report],
                                            !.chosen[r.report] = 1, !.dialog = None, !.of = None]
      [] r.kind = "version" -> [page EXCEPT !.selected = r.report, !.chosen[r.report] = r.version,
                                            !.dialog = "version", !.of = r.report]
      [] r.kind = "default" -> [page EXCEPT !.chosen[r.report] = r.version, !.dialog = "version", !.of = r.report]
      [] r.kind = "delete"  -> [page EXCEPT !.chosen[r.report] = 0,
                                            !.selected = IF @ = r.report THEN None ELSE @]

(* An error is shown in the dialog; when it was closed meanwhile, an empty *)
(* one stands for it.                                                      *)
SetDialogError(r) ==
    IF r.kind = "delete" \/ page.dialog # None THEN page ELSE [page EXCEPT !.dialog = "error", !.of = None]

Submitted(r) ==
    /\ r.kind \in {"create", "version", "default", "delete"} /\ r.status # "asked"
    /\ IF r.status = "failed" THEN page' = SetDialogError(r) /\ wire' = wire \ {r}
       ELSE LoadData(Forget(Changed(r)), wire \ {r})
    /\ UNCHANGED srv

-----------------------------------------------------------------------------
(* The service: codes are unique.                                          *)

Accepts(r) ==
    CASE r.kind = "create"  -> srv[r.report] = Missing
      [] r.kind = "version" -> srv[r.report].versions = r.version - 1 /\ srv[r.report] # Missing
      [] r.kind = "default" -> r.version <= srv[r.report].versions
      [] r.kind \in {"delete", "detail"} -> srv[r.report] # Missing
      [] OTHER -> TRUE

Effect(r) ==
    CASE r.kind = "create"  -> [srv EXCEPT ![r.report] = [versions |-> 1, default |-> 1]]
      [] r.kind = "version" -> [srv EXCEPT ![r.report].versions = r.version]
      [] r.kind = "default" -> [srv EXCEPT ![r.report].default = r.version]
      [] r.kind = "delete"  -> [srv EXCEPT ![r.report] = Missing]
      [] OTHER -> srv

Serve(r) ==
    /\ r.status = "asked" /\ Accepts(r)
    /\ srv' = Effect(r)
    /\ wire' = Settled(wire, r, [r EXCEPT !.status = "done",
                                          !.rows = IF r.kind \in {"overview", "detail"} THEN srv ELSE @])
    /\ UNCHANGED page

Refuse(r) == r.status = "asked" /\ wire' = Refused(wire, r) /\ UNCHANGED <<page, srv>>

Answer(r) == Loaded(r) \/ DetailAnswer(r) \/ Submitted(r)

Next == \/ Mount \/ Refresh \/ EnsureDetail \/ CreateReport \/ CloseDialog \/ SubmitVersion
        \/ \E c \in Categories : SelectCategory(c)
        \/ \E r \in Reports : SelectReport(r) \/ CreateVersion(r) \/ SubmitReport(r) \/ DeleteReport(r) \/ OpenReportDesigner(r)
        \/ \E r \in Reports, v \in 1..MaxVersion : SelectVersion(r, v)
        \/ \E v \in 1..MaxVersion : SetDefaultVersion(v)
        \/ \E r \in wire : Answer(r) \/ Serve(r) \/ Refuse(r)

Spec == Init /\ [][Next]_vars

-----------------------------------------------------------------------------

(* The state keeps to its types.                                          *)
TypeOK ==
    /\ page.selected \in Reports \union {None} /\ page.category \in Categories \union {None}
    /\ page.dialog \in {None, "report", "version", "error"} /\ page.chosen \in [Reports -> 0..MaxVersion]
    /\ \A t \in page.tabs : t.report \in Reports /\ t.version \in 0..MaxVersion
    /\ srv \in [Reports -> [versions : 0..MaxVersion, default : 0..MaxVersion]]

(* The page says that it loads exactly while its overview is on the way.   *)
LoadingIsReal == page.loading <=> Pending(wire, {"overview"}) # {}

-----------------------------------------------------------------------------
(* Wanted of the page, and not met by the code: README.md, section 7.      *)

(* The details on the panel name the default version that the service has: *)
(* changes forget them.                                                    *)
DetailIsCurrent ==
    wire = {} => \A d \in page.details : srv[d.report] # Missing => d.default = srv[d.report].default

(* A report deleted on this page leaves its list.                          *)
DeletedIsGone == wire = {} => \A r \in Listed(page) : srv[r] # Missing

(* The designer that comes to the front is of the version that was chosen. *)
DesignerIsOfChosenStep ==
    \A r \in Reports : OpenReportDesigner(r) => \A t \in page'.tabs : t.id = page'.front => t.version = ReportVersion(page, r)
DesignerIsOfChosen == [][DesignerIsOfChosenStep]_vars
=============================================================================
