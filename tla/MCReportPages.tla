----------------------------- MODULE MCReportPages -----------------------------
(***************************************************************************)
(* The pages of the report designer and of the report workbenches on small *)
(* instances.  A behaviour follows one of them: a page shares no state     *)
(* with another but through the services, whose part each page models.     *)
(***************************************************************************)
EXTENDS Integers, Sequences, FiniteSets, TLC

CONSTANTS None,         \* what is absent
          Followed      \* the pages that may be followed

VARIABLES focus,                                               \* the page that is followed
          page, wire, srv,                                     \* of most of them
          hosts, loading, ops, timers, log, lost, refused,     \* of ReportSync
          canvas, undo, redo, cells, regions, snaps, made, home, \* of ReportDesigner
          stored, seen                                         \* of ReportLayout

syncVars   == <<hosts, loading, ops, timers, log, lost, refused>>
sheetVars  == <<canvas, undo, redo, cells, regions, snaps, made, home>>
layoutVars == <<stored, seen>>
vars == <<focus, page, wire, srv, syncVars, sheetVars, layoutVars>>

Sync    == INSTANCE ReportSync WITH NoTarget <- None, Targets <- {"a1"}, MaxEdits <- 2, MaxBatches <- 2, MaxLost <- 1
Sheet   == INSTANCE ReportDesigner WITH
             Elements <- {"e1"}, Formulas <- {"f1"}, Native <- (1 :> "f1"), Height <- 1, ScanRows <- 2, UndoOf <- {"insert"},
             RemoteKinds <- {"setCellFormula"}, MaxChanges <- 2, Blocks <- {[from |-> 0, to |-> 1, template |-> 0]}
Layout  == INSTANCE ReportLayout WITH MaxVersions <- 2, MaxEdits <- 2, MaxWire <- 2
Panels  == INSTANCE ReportPanels WITH Sheets <- {1, 2}, Addrs <- {1, 2}, Formulas <- {"f1"}, Element <- "e1", MaxWrites <- 1
Format  == INSTANCE ReportFormat WITH Cells <- {1, 2}, Fills <- {"red"}, NoFill <- None, MaxDecimals <- 3
Routes  == INSTANCE ReportRoutes WITH Keys <- {"k1", "k2"}, Ids <- {1}, MaxWire <- 2
Applier == INSTANCE ReportApplier WITH Periods <- {"p1", "p2"}, Home <- "p1", Cells <- {1}, MaxViews <- 2, MaxWire <- 2
Float   == INSTANCE ReportFloat WITH Periods <- {"p1", "p2"}, Home <- "p1", Columns <- {2, 3, 5}, MaxRows <- 2, MaxWire <- 1
Eval    == INSTANCE FormulaEval WITH
             Binary <- {"+", "*", "&&"}, Functions2 <- {"SUM", "QM", "ROUND", "IF", "COALESCE"}, Numbers <- {0}, Periods <- <<"p1", "p2">>
Consol  == INSTANCE ReportConsol WITH
             Schemes <- {"s1"}, Periods <- {"q1"}, Nodes <- {"n1"}, FirstScheme <- "s1", FirstPeriod <- "q1", Root <- "n1", MaxWire <- 2
Catalog == INSTANCE ReportCatalog WITH
             Reports <- {1, 2}, Categories <- {"a", "b"}, CategoryOf <- <<"a", "b">>, SlugOf <- [v \in 0..2 |-> "v"], MaxTabs <- 0, MaxVersion <- 2, MaxChanges <- 1, MaxWire <- 2
Desks   == INSTANCE ReportCatalog WITH
             Reports <- {1}, Categories <- {"a"}, CategoryOf <- <<"a">>, SlugOf <- [v \in 0..2 |-> IF v = 0 THEN "default" ELSE "v"],
             MaxTabs <- 2, MaxVersion <- 2, MaxChanges <- 2, MaxWire <- 1
Tasks   == INSTANCE ReportTasks WITH
             Orgs <- {"o1", "o2"}, ParentOf <- ("o1" :> None @@ "o2" :> "o1"), SlugOf <- ("o1" :> "s" @@ "o2" :> "s" @@ None :> "org"),
             Reports <- {"r1"}, CategoryOf <- ("r1" :> "a"), Periods <- 2, OpenPeriods <- {1}, MaxTabs <- 0, MaxWire <- 1
Picks   == INSTANCE ReportTasks WITH
             Orgs <- {"o1"}, ParentOf <- ("o1" :> None), SlugOf <- ("o1" :> "s" @@ None :> "org"), Reports <- {"r1", "r2"}, CategoryOf <- ("r1" :> "a" @@ "r2" :> "b"),
             Periods <- 1, OpenPeriods <- {1}, MaxTabs <- 1, MaxWire <- 1

ASSUME Instances ==
    /\ Sync!SyncAssumption /\ Sheet!DesignerAssumption /\ Layout!LayoutAssumption /\ Panels!PanelsAssumption /\ Format!FormatAssumption
    /\ Routes!RoutesAssumption /\ Applier!ApplierAssumption /\ Float!FloatAssumption /\ Consol!ConsolAssumption
    /\ Catalog!CatalogAssumption /\ Desks!CatalogAssumption /\ Tasks!TasksAssumption /\ Picks!TasksAssumption

-----------------------------------------------------------------------------

NoSync   == hosts = {} /\ loading = FALSE /\ ops = << >> /\ timers = {} /\ log = << >> /\ lost = 0 /\ refused = {}
NoSheet  == canvas = << >> /\ undo = << >> /\ redo = << >> /\ cells = << >> /\ regions = {} /\ snaps = << >> /\ made = 0 /\ home = << >>
NoLayout == stored = << >> /\ seen = {}
NoPage   == page = << >>
NoWire   == wire = {}
NoServer == srv = << >>

Begin ==
    \/ focus = "sync" /\ Sync!Init /\ NoPage /\ NoServer /\ NoSheet /\ NoLayout
    \/ focus = "sheet" /\ Sheet!Init /\ NoPage /\ NoWire /\ NoServer /\ NoSync /\ NoLayout
    \/ focus = "layout" /\ Layout!Init /\ NoServer /\ NoSync /\ NoSheet
    \/ /\ NoSync /\ NoSheet /\ NoLayout
       /\ \/ focus = "panels" /\ Panels!Init /\ NoWire /\ NoServer
          \/ focus = "format" /\ Format!Init /\ NoWire /\ NoServer
          \/ focus = "routes" /\ Routes!Init
          \/ focus = "applier" /\ Applier!Init
          \/ focus = "float" /\ Float!Init
          \/ focus = "eval" /\ Eval!Init
          \/ focus = "consol" /\ Consol!Init
          \/ focus = "catalog" /\ Catalog!Init
          \/ focus = "desks" /\ Desks!Init
          \/ focus = "tasks" /\ Tasks!Init
          \/ focus = "picks" /\ Picks!Init

Init == Begin /\ focus \in Followed

Elsewhere == UNCHANGED <<focus, syncVars, sheetVars, layoutVars>>

SyncStep(A)    == focus = "sync" /\ A /\ UNCHANGED <<focus, page, srv, sheetVars, layoutVars>>
SheetStep(A)   == focus = "sheet" /\ A /\ UNCHANGED <<focus, page, wire, srv, syncVars, layoutVars>>
LayoutStep(A)  == focus = "layout" /\ A /\ UNCHANGED <<focus, srv, syncVars, sheetVars>>
LocalStep(f, A) == focus = f /\ A /\ UNCHANGED <<wire, srv>> /\ Elsewhere
PageStep(f, A) == focus = f /\ A /\ Elsewhere

Next ==
    \/ SyncStep(Sync!Next) \/ SheetStep(Sheet!Next) \/ LayoutStep(Layout!Next)
    \/ LocalStep("panels", Panels!Next) \/ LocalStep("format", Format!Next)
    \/ PageStep("routes", Routes!Next) \/ PageStep("applier", Applier!Next) \/ PageStep("float", Float!Next)
    \/ PageStep("eval", Eval!Next) \/ PageStep("consol", Consol!Next) \/ PageStep("catalog", Catalog!Next) \/ PageStep("desks", Desks!Next)
    \/ PageStep("tasks", Tasks!Next) \/ PageStep("picks", Picks!Next)

(* Timers fire, and the services answer what the wait is for; see the      *)
(* fairness of ReportSync and ReportTasks.                                 *)
Fairness ==
    /\ \A t \in Sync!Timers : WF_vars(SyncStep(Sync!PollStops(t)))
    /\ WF_vars(SyncStep(Sync!FlushOps)) /\ WF_vars(SyncStep(\E r \in wire : Sync!Serve(r) \/ Sync!Flushed(r)))
    /\ \A k \in {"all", "orgs"} :
         /\ WF_vars(PageStep("tasks", \E r \in Tasks!Pending(wire, {k}) : Tasks!Answer(r)))
         /\ WF_vars(PageStep("tasks", \E r \in Tasks!Pending(wire, {k}) : Tasks!Serve(r) \/ Tasks!Refuse(r)))

Spec == Init /\ [][Next]_vars
FairSpec == Spec /\ Fairness

-----------------------------------------------------------------------------
(* What is asked of the pages, by theme; each part is explained in the     *)
(* module of its page.                                                     *)

(* Every page keeps to its types.                                          *)
PagesTyped ==
    /\ focus = "sync" => Sync!TypeOK
    /\ focus = "sheet" => Sheet!TypeOK
    /\ focus = "layout" => Layout!TypeOK
    /\ focus = "panels" => Panels!TypeOK
    /\ focus = "format" => Format!TypeOK
    /\ focus = "routes" => Routes!TypeOK
    /\ focus = "applier" => Applier!TypeOK
    /\ focus = "float" => Float!TypeOK
    /\ focus = "consol" => Consol!TypeOK
    /\ focus = "catalog" => Catalog!TypeOK
    /\ focus = "desks" => Desks!TypeOK
    /\ focus = "tasks" => Tasks!TypeOK
    /\ focus = "picks" => Picks!TypeOK

(* No recorded operation of the designer is lost or doubled, and a bound   *)
(* element stays with its cell through insertions, deletions and undone    *)
(* insertions (designer.js, flushOps and applyStructuralShift).            *)
EditsSurvive ==
    /\ focus = "sync" => Sync!NoOpLost
    /\ focus = "sheet" => Sheet!BindingStays

(* What a page shows about its state is so: the badges of formulas, the    *)
(* nesting of the outline, the busy signs of the workbenches.              *)
SignsAreTrue ==
    /\ focus = "panels" => Panels!BadgesTellTruth
    /\ focus = "float" => Float!GroupsNest
    /\ focus = "consol" => Consol!OneRunAtATime
    /\ focus = "catalog" => Catalog!LoadingIsReal

(* Formulas are read and computed as their author means (formula-eval.js). *)
FormulasMean == focus = "eval" => Eval!ReadAsMeant /\ Eval!Laws

(* No step overwrites a layout by a hash not seen, writes to another cell  *)
(* than the one shown, colours what nobody filled, deletes what nobody     *)
(* confirmed, or puts a late answer on a new sheet.                        *)
StepsStayInBounds ==
    [][/\ focus = "layout" => Layout!NoBlindOverwriteStep
       /\ focus = "panels" => Panels!CommitGoesWhereItShowsStep
       /\ focus = "format" => Format!FillOnlyByCommandStep
       /\ focus = "routes" => Routes!DeletesConfirmedStep
       /\ focus = "applier" => Applier!OldAnswersStayOffStep
       /\ focus = "tasks" => Tasks!TreeHasChosenOrgStep]_vars

(* Every wait ends: a closed report leaves no timer behind, and both signs *)
(* of a load of the task page go, whatever fails on the way.               *)
Loading(sign) == focus = "tasks" /\ page[sign]
WaitsEnd ==
    /\ Sync!TimersEnd
    /\ Loading("loading") ~> ~Loading("loading")
    /\ Loading("orgLoading") ~> ~Loading("orgLoading")
=============================================================================
