----------------------------- MODULE ReportTasks -----------------------------
(***************************************************************************)
(* The workbench where reports are filled (report-app-workbench.js): the   *)
(* tree of organisations, the period, the reports of a category, the       *)
(* reports picked for a batch, the view of the property region, and the    *)
(* tabs opened for one report, organisation and period each.               *)
(***************************************************************************)
EXTENDS PageRequests

CONSTANTS Orgs, ParentOf,          \* organisations, and the one each stands under (None: a root)
          SlugOf,                  \* the part of a tab's id that stands for an organisation (or for None)
          Reports, CategoryOf,     \* the reports, and their categories
          Periods, OpenPeriods,    \* the months of the calendar, in order, and those still open
          None,
          MaxTabs, MaxWire         \* bounds: tabs opened, requests on the way

TasksAssumption == MaxWire \in Nat \ {0} /\ MaxTabs \in Nat /\ Periods \in Nat \ {0} /\ OpenPeriods \subseteq 1..Periods

VARIABLES page, wire, srv

vars == <<page, wire, srv>>

Categories == {CategoryOf[r] : r \in Reports}

Init ==
    /\ page = [open |-> FALSE, loading |-> FALSE, orgLoading |-> FALSE,
               orgs |-> {}, expanded |-> {}, org |-> None, period |-> 0,
               category |-> None, menu |-> FALSE, report |-> None, picked |-> {},
               prop |-> "report", late |-> FALSE, tabs |-> {}, front |-> None]
    /\ wire = {}
    /\ srv \in SUBSET Orgs

Ask(kind) == Room(wire, MaxWire) /\ wire' = Sent(wire, MaxWire, [kind |-> kind, orgs |-> {}])

First(S) == IF S = {} THEN None ELSE CHOOSE x \in S : TRUE

(* A node whose parent is not delivered stands at the root.                *)
Roots(orgs) == {o \in orgs : ParentOf[o] \notin orgs}

Children(orgs, o) == {c \in orgs : ParentOf[c] = o}

(* The nodes to be seen: every node above them is expanded.                *)
OrgNodes(p) == {o \in p.orgs : o \in Roots(p.orgs) \/ (ParentOf[o] \in p.expanded /\ ParentOf[o] \in p.orgs)}

FilteredReports(category) == {r \in Reports : category \in {None, CategoryOf[r]}}

(* The last open month, else the last one.                                 *)
DefaultPeriodLeaf == IF OpenPeriods = {} THEN Periods ELSE Max(OpenPeriods)

BuildOrgTree(p, orgs) == [p EXCEPT !.orgs = orgs, !.expanded = @ \union Roots(orgs)]

-----------------------------------------------------------------------------
(* Loading.  The refresh of the tree looks whether the chosen organisation *)
(* is still there; the loading of everything does not.                     *)

LoadData ==
    /\ ~page.loading /\ Ask("all")
    /\ page' = [page EXCEPT !.open = TRUE, !.loading = TRUE]
    /\ UNCHANGED srv

Loaded(r) ==
    /\ r.kind = "all" /\ r.status # "asked"
    /\ page' = IF r.status = "failed" THEN [page EXCEPT !.loading = FALSE]
               ELSE LET p == BuildOrgTree(page, r.orgs)
                        category == IF p.category = None THEN First(Categories) ELSE p.category
                    IN  [p EXCEPT !.loading = FALSE, !.category = category,
                                  !.period = IF @ = 0 THEN DefaultPeriodLeaf ELSE @,
                                  !.org = IF @ = None THEN First(r.orgs) ELSE @,
                                  !.report = IF @ = None THEN First(FilteredReports(category)) ELSE @]
    /\ wire' = wire \ {r} /\ UNCHANGED srv

RefreshOrgTree ==
    /\ page.open /\ ~page.orgLoading /\ Ask("orgs")
    /\ page' = [page EXCEPT !.orgLoading = TRUE]
    /\ UNCHANGED srv

\* Mutant: a refused refresh leaves the sign on.
OrgTreeAnswerLeaves(r) ==
    /\ r.kind = "orgs" /\ r.status # "asked"
    /\ page' = IF r.status = "failed" THEN page
               ELSE [BuildOrgTree(page, r.orgs) EXCEPT
                        !.orgLoading = FALSE,
                        !.org = IF @ = None \/ @ \in r.orgs THEN @ ELSE First(r.orgs)]
    /\ wire' = wire \ {r} /\ UNCHANGED srv

OrgTreeAnswer(r) ==
    /\ r.kind = "orgs" /\ r.status # "asked"
    /\ page' = IF r.status = "failed" THEN [page EXCEPT !.orgLoading = FALSE]
               ELSE [BuildOrgTree(page, r.orgs) EXCEPT
                        !.orgLoading = FALSE,
                        !.org = IF @ = None \/ @ \in r.orgs THEN @ ELSE First(r.orgs)]
    /\ wire' = wire \ {r} /\ UNCHANGED srv

-----------------------------------------------------------------------------
(* Choosing.  A click that is not on the drop-down menu of the categories  *)
(* closes it, unless the click is kept from the document.                  *)

TreeShown == page.open /\ ~page.loading /\ ~page.orgLoading

Toggle(S, x) == IF x \in S THEN S \ {x} ELSE S \union {x}

ExpandOrg(o) ==
    /\ TreeShown /\ o \in OrgNodes(page) /\ Children(page.orgs, o) # {}
    /\ page' = [page EXCEPT !.expanded = Toggle(@, o)]
    /\ UNCHANGED <<wire, srv>>

ClickOutside(p) == [p EXCEPT !.menu = FALSE]

(* A chosen organisation brings its view to the front of the property      *)
(* region; where the region is not found, two timers look for it again.    *)
SelectOrg(o) ==
    /\ TreeShown /\ o \in OrgNodes(page)
    /\ \E found \in BOOLEAN :
         page' = ClickOutside([page EXCEPT !.org = o,
                                           !.prop = IF found THEN "org" ELSE @,
                                           !.late = ~found \/ @])
    /\ UNCHANGED <<wire, srv>>

TryActivate(found, last) ==
    /\ page.late
    /\ page' = [page EXCEPT !.prop = IF found THEN "org" ELSE @, !.late = ~last]
    /\ UNCHANGED <<wire, srv>>

(* The user turns the property region back to the report.                  *)
ShowReportProperty ==
    /\ page.prop = "org"
    /\ page' = ClickOutside([page EXCEPT !.prop = "report"])
    /\ UNCHANGED <<wire, srv>>

SelectPeriod(m) ==
    /\ page.category # None /\ m # page.period
    /\ page' = ClickOutside([page EXCEPT !.period = m])
    /\ UNCHANGED <<wire, srv>>

ToggleMenu ==
    /\ page.category # None
    /\ page' = [page EXCEPT !.menu = ~@]
    /\ UNCHANGED <<wire, srv>>

(* The first report of the category is selected; the picked ones of other  *)
(* categories stay picked.                                                 *)
SelectCategory(c) ==
    /\ page.menu
    /\ page' = [page EXCEPT !.category = c, !.menu = FALSE, !.report = First(FilteredReports(c))]
    /\ UNCHANGED <<wire, srv>>

CardShown(r) == page.category # None /\ ~page.loading /\ r \in FilteredReports(page.category)

SelectReport(r) ==
    /\ CardShown(r) /\ r # page.report
    /\ page' = ClickOutside([page EXCEPT !.report = r])
    /\ UNCHANGED <<wire, srv>>

Pick(r) ==
    /\ CardShown(r)
    /\ page' = ClickOutside([page EXCEPT !.picked = Toggle(@, r)])
    /\ UNCHANGED <<wire, srv>>

Known(id) == \E t \in page.tabs : t.id = id

(* The host brings a tab whose id it knows to the front as it is.          *)
OpenWorkNode(tab) ==
    /\ Known(tab.id) \/ Cardinality(page.tabs) < MaxTabs
    /\ page' = [page EXCEPT !.tabs = IF Known(tab.id) THEN @ ELSE @ \union {tab}, !.front = tab.id]

CloseTab(t) ==
    /\ t \in page.tabs
    /\ page' = [page EXCEPT !.tabs = @ \ {t}, !.front = IF @ = t.id THEN None ELSE @]
    /\ UNCHANGED <<wire, srv>>

(* A tab is known by the report, the organisation and the period, whether  *)
(* or not the organisation is still in the tree; in the id every run of    *)
(* other characters than letters, digits, _ and - is one _.                *)
WorkId(r) == <<r, SlugOf[page.org], page.period>>

OpenReportApplier(r) ==
    /\ CardShown(r)
    /\ OpenWorkNode([id |-> WorkId(r), org |-> page.org])
    /\ UNCHANGED <<wire, srv>>

-----------------------------------------------------------------------------

Serve(r) ==
    /\ r.status = "asked"
    /\ wire' = Settled(wire, r, [r EXCEPT !.status = "done", !.orgs = srv])
    /\ UNCHANGED <<page, srv>>

Refuse(r) == r.status = "asked" /\ wire' = Refused(wire, r) /\ UNCHANGED <<page, srv>>

(* The organisations are edited elsewhere.                                 *)
EditOrgs(o) == srv' = Toggle(srv, o) /\ UNCHANGED <<page, wire>>

Answer(r) == Loaded(r) \/ OrgTreeAnswer(r)

Next == \/ LoadData \/ RefreshOrgTree \/ ToggleMenu \/ ShowReportProperty
        \/ \E found, last \in BOOLEAN : TryActivate(found, last)
        \/ \E t \in page.tabs : CloseTab(t)
        \/ \E o \in Orgs : ExpandOrg(o) \/ SelectOrg(o) \/ EditOrgs(o)
        \/ \E m \in 1..Periods : SelectPeriod(m)
        \/ \E c \in Categories : SelectCategory(c)
        \/ \E r \in Reports : SelectReport(r) \/ Pick(r) \/ OpenReportApplier(r)
        \/ \E r \in wire : Answer(r) \/ Serve(r) \/ Refuse(r)

(* Requests are answered, and their answers are worked off: at most one of *)
(* each kind is on the way.                                                *)
Fairness == \A k \in {"all", "orgs"} : /\ WF_vars(\E r \in Pending(wire, {k}) : Answer(r))
                                        /\ WF_vars(\E r \in Pending(wire, {k}) : Serve(r) \/ Refuse(r))

Spec == Init /\ [][Next]_vars

FairSpec == Spec /\ Fairness

-----------------------------------------------------------------------------

(* The state keeps to its types.                                          *)
TypeOK ==
    /\ page.orgs \subseteq Orgs /\ page.expanded \subseteq Orgs /\ page.picked \subseteq Reports
    /\ page.prop \in {"report", "org"} /\ \A t \in page.tabs : t.org \in Orgs \union {None}
    /\ page.org \in Orgs \union {None} /\ page.period \in 0..Periods /\ srv \subseteq Orgs

(* A refreshed tree holds the chosen organisation.                         *)
TreeHasChosenOrgStep == (\E r \in wire : OrgTreeAnswer(r)) => page'.org \in page'.orgs \union {None} \/ page'.orgs = page.orgs
TreeHasChosenOrg == [][TreeHasChosenOrgStep]_vars

(* Both signs of a load end.                                               *)
LoadsEnd == (page.loading ~> ~page.loading) /\ (page.orgLoading ~> ~page.orgLoading)

-----------------------------------------------------------------------------
(* Wanted of the page, and not met by the code: README.md, section 7.      *)

(* A quiet page fills reports of organisations it shows.                   *)
PropertyOrg == IF page.org \in page.orgs THEN page.org ELSE None
ChosenOrgIsShown == PropertyOrg = page.org

(* A report is opened for the organisation that is chosen.                 *)
TabIsOfChosenStep ==
    (\E r \in Reports : OpenReportApplier(r)) => \A t \in page'.tabs : t.id = page'.front => t.org = page.org
TabIsOfChosen == [][TabIsOfChosenStep]_vars

(* The property region shows an organisation when one is clicked.          *)
ViewStaysStep == page.prop = "report" /\ page'.prop = "org" => \E o \in Orgs : SelectOrg(o)
ViewStays == [][ViewStaysStep]_vars
=============================================================================
