----------------------------- MODULE MCPortalPages -----------------------------
(***************************************************************************)
(* The pages of the process designer, of the to-do centre and the portal,  *)
(* of the dictionaries, the ontology and the master data on small          *)
(* instances.  A behaviour follows one of them; what two pages share is at *)
(* the services, whose part each page models.  Pages with proofs come from *)
(* PortalProofs and DataProofs, with what is proved of them there.         *)
(***************************************************************************)
EXTENDS PageRequests, Sequences

CONSTANTS Followed,     \* the pages that may be followed
          None, MaxWire, MaxChanges, MaxRounds, MaxChain, MaxRows, PageSize, \* of pages with proofs
          Defs, NewKey, OldDrafts, Began, MaxStamp, MaxVersions, \* those of PortalProofs
          StartDefs, Returns, DirectReturn, Workspace, MaxActs,
          Peers, Shapes, Arrow, MayLose, Main, Unlisted, Branches, Default,
          Tasks, FirstIn, FormOf, ConsoleOf,
          FieldNames, MaxDecls, MaxEdits,
          MaxJobs, OldJobs, MaxSteps, MaxFeed,
          HelpTopics, TopicGroup, TopicLinks, FirstRead,
          RecordIds, FreshId, FirstRecords, MaxNames,
          DocTypes, Keyed, OldDocs, TypeOf, Begins, New,  \* those of DataProofs
          RowIds, NoDoc, MaxSessions,
          Windows, KeyNames, Hidden, ValueNames, ValueTypes, MaxDepth,
          Dbs, Domains, DomainOf, FirstListed, MaxVersion,
          StoredRows, System, Temp, Views, Shows, Database, MaxOthers,
          Dicts, Trees, DictOf, ParentOf, TopNode, All,
          Objects, Kinetic, Links, EndsOf, KeyedObjects, NameAt, Bad

VARIABLES focus,        \* the page that is followed
          page, wire, srv

vars == <<focus, page, wire, srv>>

-----------------------------------------------------------------------------
(* The pages with proofs: values for the constants that are functions.     *)

StoredDrafts == "k0" :> 0 @@ "k1" :> 1
NoDrafts     == "k0" :> 0 @@ "k1" :> 0
FirstType    == <<"T">>
DomainOfDb   == "d1" :> "f" @@ "d2" :> "g"
FirstDb      == [s \in SUBSET {"d1", "d2"} \ {{}} |-> CHOOSE d \in s : d = "d1" \/ "d1" \notin s]
ShownRows    == "all" :> {"a", "b"} @@ "part" :> {"b"}
FirstLists   == <<"todo", "claimable", "initiated", "cc", "initiate">>
BoundForms   == <<"workspace", "native", "workspace", "native", "workspace">>
Consoles     == <<"platform", "none", "platform", "none", "none">>
TreeOf       == "a" :> "A" @@ "k" :> "A" @@ "b" :> "B"
ParentNode   == "a" :> "root" @@ "k" :> "a" @@ "b" :> "root"
LinkEnds     == "l" :> {"A", "B"}
RowNames     == <<"f", "g">>
NoJobs       == <<>>
GroupOfTopic == "a" :> "g" @@ "b" :> "g" @@ "c" :> "h"
LinkedTopics == "a" :> {"b"} @@ "b" :> {} @@ "c" :> {"a"}
ThreeRecords == {<<"x">>, <<"x", "x">>, <<"y">>}
KeyOrder     == <<"k0", "k1">>
KeyModules   == "k0" :> "a" @@ "k1" :> "b"

(* The pages of processes, tasks and the portal.                           *)
Portal == INSTANCE PortalProofs WITH
              Stored <- OldDrafts, Old <- OldJobs,
              Keys <- Defs, Targets <- Returns, Direct <- DirectReturn, Nodes <- Shapes, Line <- Arrow, Places <- Branches, Names <- FieldNames,
              Topics <- HelpTopics, GroupOf <- TopicGroup, LinksOf <- TopicLinks, FirstTopic <- FirstRead, NewId <- FreshId, Initial <- FirstRecords

(* One request at a time: a diagram that is a copy, of which nothing is    *)
(* stored when the page is opened, and jobs that have steps.               *)
Narrow == INSTANCE PortalProofs WITH
              MaxWire <- 1, Stored <- NoDrafts, Began <- 0, MaxStamp <- 3, MaxSteps <- 2, Old <- OldJobs,
              Keys <- Defs, Targets <- Returns, Direct <- DirectReturn, Nodes <- Shapes, Line <- Arrow, Places <- Branches, Names <- FieldNames,
              Topics <- HelpTopics, GroupOf <- TopicGroup, LinksOf <- TopicLinks, FirstTopic <- FirstRead, NewId <- FreshId, Initial <- FirstRecords

(* Jobs that ended before the page was opened.                             *)
Ended  == INSTANCE PortalProofs WITH
              MaxWire <- 3, MaxChanges <- 3, Old <- <<"completed", "failed">>, Stored <- OldDrafts,
              Keys <- Defs, Targets <- Returns, Direct <- DirectReturn, Nodes <- Shapes, Line <- Arrow, Places <- Branches, Names <- FieldNames,
              Topics <- HelpTopics, GroupOf <- TopicGroup, LinksOf <- TopicLinks, FirstTopic <- FirstRead, NewId <- FreshId, Initial <- FirstRecords

(* The pages of data.                                                      *)
Data   == INSTANCE DataProofs WITH
              Types <- DocTypes, First <- FirstListed, Ids <- StoredRows, Root <- TopNode

(* An ontology with something to run, one request at a time.               *)
Saved  == INSTANCE DataProofs WITH
              MaxWire <- 1, MaxRounds <- 4, MaxRows <- 1,
              Objects <- {"A"}, Kinetic <- {"p"}, Links <- {}, EndsOf <- <<>>, KeyedObjects <- {"A"},
              Types <- DocTypes, First <- FirstListed, Ids <- StoredRows, Root <- TopNode

-----------------------------------------------------------------------------
(* Processes and tasks.                                                    *)

(* Three processes: one without branches, one that chooses, one that forks. *)
Process(services, kinds, edges) ==
    [kind |-> [n \in services |-> "serviceTask"] @@ kinds @@ [n \in {"a", "b"} |-> "userTask"] @@ ("s" :> "startEvent" @@ "e" :> "endEvent"),
     edges |-> edges]
Straight == Process({"v"}, "c" :> "userTask", {<<"s", "a">>, <<"a", "c">>, <<"c", "v">>, <<"v", "b">>, <<"b", "e">>})
Choice   == Process({"v"}, "g" :> "exclusiveGateway", {<<"s", "a">>, <<"a", "g">>, <<"g", "b">>, <<"g", "v">>, <<"b", "e">>, <<"v", "e">>})
Fork     == Process({"c"}, "g" :> "parallelGateway", {<<"s", "a">>, <<"a", "g">>, <<"g", "b">>, <<"g", "c">>, <<"b", "e">>, <<"c", "e">>})

Listing  == INSTANCE FlowVersions WITH Keys <- KeyOrder, ModuleOf <- KeyModules, MaxChanges <- MaxChain, MaxWire <- MaxChain
Outline  == INSTANCE FlowViews WITH Elements <- {"e1"}, Keys <- {"k1"}, Published <- ("k1" :> ("e1" :> 1)), MaxChanges <- 2, MaxWire <- 1
Layout   == INSTANCE FlowLayout WITH
              Kinds <- <<{"startEvent", "gateway"}, {"gateway"}, {"userTask"}, {"endEvent"}>>, Pairs <- {p \in (1..4) \X (1..4) : p[1] # p[2]} \union {<<1, 5>>}
Trail    == INSTANCE FlowTrail WITH Definitions <- {Straight, Choice, Fork}, MaxMoves <- 8

ASSUME Instances ==
    /\ Portal!Draft!DraftAssumption /\ Narrow!Draft!DraftAssumption /\ Listing!VersionsAssumption /\ Portal!Collab!CollabAssumption /\ Portal!Subflow!SubflowAssumption
    /\ Portal!Property!PropertyAssumption /\ Outline!ViewsAssumption /\ Layout!LayoutAssumption /\ Portal!Vars!VarsAssumption /\ Trail!TrailAssumption
    /\ Portal!Todo!TodoAssumption /\ Portal!Task!TaskAssumption
    /\ Data!Deploy!DeployAssumption /\ Portal!Jobs!JobsAssumption /\ Narrow!Jobs!JobsAssumption /\ Ended!Jobs!JobsAssumption /\ Data!Registry!RegistryAssumption /\ Portal!Dam!DamAssumption /\ Portal!Help!HelpAssumption
    /\ Data!Editor!EditorAssumption /\ Data!Tree!TreeAssumption /\ Data!Onto!OntoAssumption /\ Saved!Onto!OntoAssumption /\ Data!Mdm!RequestAssumption

-----------------------------------------------------------------------------

(* The layout of a process is found without the service.                   *)
Alone == wire = {} /\ srv = << >>

Init ==
    /\ focus \in Followed
    /\ \/ focus = "draft" /\ Portal!Draft!Init
       \/ focus = "copy" /\ Narrow!Draft!Init
       \/ focus = "versions" /\ Listing!Init
       \/ focus = "collab" /\ Portal!Collab!Init
       \/ focus = "subflow" /\ Portal!Subflow!Init
       \/ focus = "property" /\ Portal!Property!Init
       \/ focus = "views" /\ Outline!Init
       \/ focus = "layout" /\ Layout!Init /\ Alone
       \/ focus = "vars" /\ Portal!Vars!Init
       \/ focus = "trail" /\ Trail!Init
       \/ focus = "todo" /\ Portal!Todo!Init
       \/ focus = "task" /\ Portal!Task!Init
       \/ focus = "deploy" /\ Data!Deploy!Init
       \/ focus = "jobs" /\ Portal!Jobs!Init
       \/ focus = "steps" /\ Narrow!Jobs!Init
       \/ focus = "past" /\ Ended!Jobs!Init
       \/ focus = "registry" /\ Data!Registry!Init
       \/ focus = "dam" /\ Portal!Dam!Init
       \/ focus = "help" /\ Portal!Help!Init
       \/ focus = "rows" /\ Data!Editor!Init
       \/ focus = "tree" /\ Data!Tree!Init
       \/ focus = "onto" /\ Data!Onto!Init
       \/ focus = "saved" /\ Saved!Onto!Init
       \/ focus = "mdm" /\ Data!Mdm!Init

PageStep(f, A) == focus = f /\ A /\ UNCHANGED focus

Next ==
    \/ PageStep("draft", Portal!Draft!Next) \/ PageStep("copy", Narrow!Draft!Next) \/ PageStep("versions", Listing!Next) \/ PageStep("collab", Portal!Collab!Next)
    \/ PageStep("subflow", Portal!Subflow!Next) \/ PageStep("property", Portal!Property!Next) \/ PageStep("views", Outline!Next)
    \/ PageStep("layout", Layout!Next /\ UNCHANGED <<wire, srv>>)
    \/ PageStep("vars", Portal!Vars!Next) \/ PageStep("trail", Trail!Next) \/ PageStep("todo", Portal!Todo!Next) \/ PageStep("task", Portal!Task!Next)
    \/ PageStep("deploy", Data!Deploy!Next) \/ PageStep("jobs", Portal!Jobs!Next) \/ PageStep("steps", Narrow!Jobs!Next) \/ PageStep("past", Ended!Jobs!Next) \/ PageStep("registry", Data!Registry!Next)
    \/ PageStep("dam", Portal!Dam!Next) \/ PageStep("help", Portal!Help!Next) \/ PageStep("rows", Data!Editor!Next)
    \/ PageStep("tree", Data!Tree!Next) \/ PageStep("onto", Data!Onto!Next) \/ PageStep("saved", Saved!Onto!Next) \/ PageStep("mdm", Data!Mdm!Next)

Spec == Init /\ [][Next]_vars

-----------------------------------------------------------------------------
(* What is asked of the pages, by theme; each part is explained in the     *)
(* module of its page.                                                     *)

(* Every page keeps to its types.                                          *)
PagesTyped ==
    /\ focus = "draft" => Portal!Draft!TypeOK
    /\ focus = "copy" => Narrow!Draft!TypeOK
    /\ focus = "versions" => Listing!TypeOK
    /\ focus = "collab" => Portal!Collab!TypeOK
    /\ focus = "subflow" => Portal!Subflow!TypeOK
    /\ focus = "property" => Portal!Property!TypeOK
    /\ focus = "views" => Outline!TypeOK
    /\ focus = "layout" => Layout!TypeOK
    /\ focus = "vars" => Portal!Vars!TypeOK
    /\ focus = "trail" => Trail!TypeOK
    /\ focus = "todo" => Portal!Todo!TypeOK
    /\ focus = "task" => Portal!Task!TypeOK
    /\ focus = "deploy" => Data!Deploy!TypeOK
    /\ focus = "jobs" => Portal!Jobs!TypeOK
    /\ focus = "steps" => Narrow!Jobs!TypeOK
    /\ focus = "past" => Ended!Jobs!TypeOK
    /\ focus = "registry" => Data!Registry!TypeOK
    /\ focus = "dam" => Portal!Dam!TypeOK
    /\ focus = "help" => Portal!Help!TypeOK
    /\ focus = "rows" => Data!Editor!TypeOK
    /\ focus = "tree" => Data!Tree!TypeOK
    /\ focus = "onto" => Data!Onto!TypeOK
    /\ focus = "saved" => Saved!Onto!TypeOK
    /\ focus = "mdm" => Data!Mdm!TypeOK

(* What a page shows is so: the pages of the list of definitions, the      *)
(* outline and the map of the canvas, the panels, the busy signs of the    *)
(* to-do centre, the steps of a trail on both pages that draw one; and a   *)
(* process that comes without a diagram gets one in which every node can   *)
(* be seen.                                                                *)
SignsAreTrue ==
    /\ focus = "versions" => Listing!PageIsFull
    /\ focus = "views" => Outline!ViewsCatchUp /\ Outline!PanelsHaveWork
    /\ focus = "layout" => Layout!BoxesApart
    /\ focus = "vars" => Portal!Vars!PathsAreDeclared
    /\ focus = "trail" => Trail!StepsTellHistory /\ Trail!CopiesAgree
    /\ focus = "todo" => Portal!Todo!BusyIsReal

(* No order of edits, saves, refusals and late answers leaves a line       *)
(* without ends, a binding to nothing, or leftovers of another type in a   *)
(* declaration; replays of others' operations are not posted again.        *)
DefinitionsAreSound ==
    /\ focus = "collab" => Portal!Collab!LinesHaveEnds /\ Portal!Collab!NoEchoStorm
    /\ focus = "subflow" => Portal!Subflow!BindingsLeadSomewhere
    /\ focus = "vars" => Portal!Vars!NoLeftovers

(* A task is answered once; a form that answered it, outside the           *)
(* workspace, closes itself (the workspace keeps its form open).           *)
TasksHandledOnce == focus = "task" => Portal!Task!HandledOnce /\ (Workspace \/ Portal!Task!ClosesItself)

(* No step replaces a newer draft of somebody else that the page has not   *)
(* seen (saves with a base; those without one are in README.md, section 7). *)
WorkIsKept ==
    [][/\ focus = "draft" => Portal!Draft!NoBlindOverwriteStep
       /\ focus = "copy" => Narrow!Draft!NoBlindOverwriteStep]_vars

(* What is written is what the user chose and confirmed: one handler of    *)
(* the kind shown, the instance the dialog named, a reason where one is    *)
(* asked for.                                                              *)
StepsAreAsked ==
    [][/\ focus = "property" => Portal!Property!OneHandlerStep /\ Portal!Property!ChosenKindStaysStep
       /\ focus = "todo" => Portal!Todo!ConfirmedFirstStep
       /\ focus = "task" => Portal!Task!ReasonGivenStep]_vars

(* Pages that have followed a draft from its start show the same values    *)
(* once every operation has arrived (definition-workbench.js, onRemoteOp). *)
PagesConverge == focus = "collab" => Portal!Collab!LwwConverges

(* What reaches a service was agreed to and is allowed: no plan that was   *)
(* not approved, no deletion of rows of the system, no baseline of another *)
(* row, no second document and no two writes at a time.                    *)
WritesAreAllowed ==
    /\ focus = "deploy" => Data!Deploy!NothingUnapproved
    /\ focus = "rows" => Data!Editor!BaselineIsOfShown /\ Data!Editor!DeletesAreAllowed
    /\ focus = "mdm" => Data!Mdm!InsertedOnce /\ Data!Mdm!OneWrite

(* However answers overtake each other, what a page shows is of what was   *)
(* chosen: the stream of the job, the page of a list, the keys of the      *)
(* filter, the topic of the history, the children of a node, the detail of *)
(* an element; and no page waits for an answer nobody will give.           *)
ShownIsChosen ==
    /\ focus = "deploy" => Data!Deploy!NeverStuck
    /\ focus = "jobs" => Portal!Jobs!StreamIsChosen /\ Portal!Jobs!PagerInRange
    /\ focus = "steps" => Narrow!Jobs!StreamIsChosen /\ Narrow!Jobs!PagerInRange
    /\ focus = "past" => Ended!Jobs!StreamIsChosen /\ Ended!Jobs!PagerInRange
    /\ focus = "dam" => Portal!Dam!KeysFollowFilter
    /\ focus = "help" => Portal!Help!HistoryTellsTopic
    /\ focus = "tree" => Data!Tree!ArrowsHaveChildren
    /\ focus = "onto" => Data!Onto!DetailIsOfSelected
    /\ focus = "saved" => Saved!Onto!DetailIsOfSelected

(* Renaming, deleting, merging and importing leave a whole registry, with  *)
(* the path on the page in it.                                             *)
RegistryIsWhole == focus = "registry" => Data!Registry!PathExists /\ Data!Registry!TreeIsWhole

(* No step drops the edits of a refused save, asks for rows of another     *)
(* node than the one highlighted, makes a relation twice, or takes a       *)
(* document back to the draft but by a withdrawal.                         *)
StepsAreMeant ==
    [][/\ focus = "rows" => Data!Editor!RefusalKeepsEditsStep
       /\ focus = "tree" => Data!Tree!HighlightIsAskedForStep
       /\ focus = "onto" => Data!Onto!LinkedOnceStep
       /\ focus = "mdm" => Data!Mdm!DraftByWithdrawalStep]_vars

-----------------------------------------------------------------------------
(* What is proved of a page holds of what is followed: a behaviour that    *)
(* follows a page is a behaviour of that page.                             *)

\* The page that is followed is the same for good, begins as it does and makes
\* its steps.
LEMMA PageBegins ==
  Init => /\ focus = "draft" => Portal!Draft!Init
          /\ focus = "copy" => Narrow!Draft!Init
          /\ focus = "collab" => Portal!Collab!Init
          /\ focus = "subflow" => Portal!Subflow!Init
          /\ focus = "property" => Portal!Property!Init
          /\ focus = "vars" => Portal!Vars!Init
          /\ focus = "todo" => Portal!Todo!Init
          /\ focus = "task" => Portal!Task!Init
          /\ focus = "jobs" => Portal!Jobs!Init
          /\ focus = "steps" => Narrow!Jobs!Init
          /\ focus = "past" => Ended!Jobs!Init
          /\ focus = "dam" => Portal!Dam!Init
          /\ focus = "help" => Portal!Help!Init
          /\ focus = "deploy" => Data!Deploy!Init
          /\ focus = "registry" => Data!Registry!Init
          /\ focus = "rows" => Data!Editor!Init
          /\ focus = "tree" => Data!Tree!Init
          /\ focus = "onto" => Data!Onto!Init
          /\ focus = "saved" => Saved!Onto!Init
          /\ focus = "mdm" => Data!Mdm!Init
BY DEF Init

LEMMA PageStays ==
  ASSUME [Next]_vars
  PROVE  /\ UNCHANGED <<page, wire, srv>> => UNCHANGED vars
         /\ focus = "draft" => [Portal!Draft!Next]_Portal!Draft!vars /\ (focus = "draft")'
         /\ ~(focus = "draft") => ~(focus = "draft")'
         /\ focus = "copy" => [Narrow!Draft!Next]_Narrow!Draft!vars /\ (focus = "copy")'
         /\ ~(focus = "copy") => ~(focus = "copy")'
         /\ focus = "collab" => [Portal!Collab!Next]_Portal!Collab!vars /\ (focus = "collab")'
         /\ ~(focus = "collab") => ~(focus = "collab")'
         /\ focus = "subflow" => [Portal!Subflow!Next]_Portal!Subflow!vars /\ (focus = "subflow")'
         /\ ~(focus = "subflow") => ~(focus = "subflow")'
         /\ focus = "property" => [Portal!Property!Next]_Portal!Property!vars /\ (focus = "property")'
         /\ ~(focus = "property") => ~(focus = "property")'
         /\ focus = "vars" => [Portal!Vars!Next]_Portal!Vars!vars /\ (focus = "vars")'
         /\ ~(focus = "vars") => ~(focus = "vars")'
         /\ focus = "todo" => [Portal!Todo!Next]_Portal!Todo!vars /\ (focus = "todo")'
         /\ ~(focus = "todo") => ~(focus = "todo")'
         /\ focus = "task" => [Portal!Task!Next]_Portal!Task!vars /\ (focus = "task")'
         /\ ~(focus = "task") => ~(focus = "task")'
         /\ focus = "jobs" => [Portal!Jobs!Next]_Portal!Jobs!vars /\ (focus = "jobs")'
         /\ ~(focus = "jobs") => ~(focus = "jobs")'
         /\ focus = "steps" => [Narrow!Jobs!Next]_Narrow!Jobs!vars /\ (focus = "steps")'
         /\ ~(focus = "steps") => ~(focus = "steps")'
         /\ focus = "past" => [Ended!Jobs!Next]_Ended!Jobs!vars /\ (focus = "past")'
         /\ ~(focus = "past") => ~(focus = "past")'
         /\ focus = "dam" => [Portal!Dam!Next]_Portal!Dam!vars /\ (focus = "dam")'
         /\ ~(focus = "dam") => ~(focus = "dam")'
         /\ focus = "help" => [Portal!Help!Next]_Portal!Help!vars /\ (focus = "help")'
         /\ ~(focus = "help") => ~(focus = "help")'
         /\ focus = "deploy" => [Data!Deploy!Next]_Data!Deploy!vars /\ (focus = "deploy")'
         /\ ~(focus = "deploy") => ~(focus = "deploy")'
         /\ focus = "registry" => [Data!Registry!Next]_Data!Registry!vars /\ (focus = "registry")'
         /\ ~(focus = "registry") => ~(focus = "registry")'
         /\ focus = "rows" => [Data!Editor!Next]_Data!Editor!vars /\ (focus = "rows")'
         /\ ~(focus = "rows") => ~(focus = "rows")'
         /\ focus = "tree" => [Data!Tree!Next]_Data!Tree!vars /\ (focus = "tree")'
         /\ ~(focus = "tree") => ~(focus = "tree")'
         /\ focus = "onto" => [Data!Onto!Next]_Data!Onto!vars /\ (focus = "onto")'
         /\ ~(focus = "onto") => ~(focus = "onto")'
         /\ focus = "saved" => [Saved!Onto!Next]_Saved!Onto!vars /\ (focus = "saved")'
         /\ ~(focus = "saved") => ~(focus = "saved")'
         /\ focus = "mdm" => [Data!Mdm!Next]_Data!Mdm!vars /\ (focus = "mdm")'
         /\ ~(focus = "mdm") => ~(focus = "mdm")'
<1>1. CASE UNCHANGED vars
  BY <1>1 DEF vars, Portal!Draft!vars, Narrow!Draft!vars, Portal!Collab!vars,
     Portal!Subflow!vars, Portal!Property!vars, Portal!Vars!vars, Portal!Todo!vars, Portal!Task!vars,
     Portal!Jobs!vars, Narrow!Jobs!vars, Ended!Jobs!vars, Portal!Dam!vars, Portal!Help!vars,
     Data!Deploy!vars, Data!Registry!vars, Data!Editor!vars, Data!Tree!vars, Data!Onto!vars,
     Saved!Onto!vars, Data!Mdm!vars
<1>2. CASE Next
  BY <1>2, Zenon DEF Next, PageStep, vars
<1> QED BY <1>1, <1>2

\* A behaviour that follows a page is a behaviour of that page, and one that
\* does not follow it never will.
LEMMA PageFollowed ==
  Spec => /\ (focus = "draft" => Portal!Draft!Spec) /\ (~(focus = "draft") => []~(focus = "draft"))
          /\ (focus = "copy" => Narrow!Draft!Spec) /\ (~(focus = "copy") => []~(focus = "copy"))
          /\ (focus = "collab" => Portal!Collab!Spec) /\ (~(focus = "collab") => []~(focus = "collab"))
          /\ (focus = "subflow" => Portal!Subflow!Spec) /\ (~(focus = "subflow") => []~(focus = "subflow"))
          /\ (focus = "property" => Portal!Property!Spec) /\ (~(focus = "property") => []~(focus = "property"))
          /\ (focus = "vars" => Portal!Vars!Spec) /\ (~(focus = "vars") => []~(focus = "vars"))
          /\ (focus = "todo" => Portal!Todo!Spec) /\ (~(focus = "todo") => []~(focus = "todo"))
          /\ (focus = "task" => Portal!Task!Spec) /\ (~(focus = "task") => []~(focus = "task"))
          /\ (focus = "jobs" => Portal!Jobs!Spec) /\ (~(focus = "jobs") => []~(focus = "jobs"))
          /\ (focus = "steps" => Narrow!Jobs!Spec) /\ (~(focus = "steps") => []~(focus = "steps"))
          /\ (focus = "past" => Ended!Jobs!Spec) /\ (~(focus = "past") => []~(focus = "past"))
          /\ (focus = "dam" => Portal!Dam!Spec) /\ (~(focus = "dam") => []~(focus = "dam"))
          /\ (focus = "help" => Portal!Help!Spec) /\ (~(focus = "help") => []~(focus = "help"))
          /\ (focus = "deploy" => Data!Deploy!Spec) /\ (~(focus = "deploy") => []~(focus = "deploy"))
          /\ (focus = "registry" => Data!Registry!Spec) /\ (~(focus = "registry") => []~(focus = "registry"))
          /\ (focus = "rows" => Data!Editor!Spec) /\ (~(focus = "rows") => []~(focus = "rows"))
          /\ (focus = "tree" => Data!Tree!Spec) /\ (~(focus = "tree") => []~(focus = "tree"))
          /\ (focus = "onto" => Data!Onto!Spec) /\ (~(focus = "onto") => []~(focus = "onto"))
          /\ (focus = "saved" => Saved!Onto!Spec) /\ (~(focus = "saved") => []~(focus = "saved"))
          /\ (focus = "mdm" => Data!Mdm!Spec) /\ (~(focus = "mdm") => []~(focus = "mdm"))
<1>1. Spec => (focus = "draft" => Portal!Draft!Spec) /\ (~(focus = "draft") => []~(focus = "draft"))
  BY PageBegins, PageStays, PTL DEF Spec, Portal!Draft!Spec
<1>2. Spec => (focus = "copy" => Narrow!Draft!Spec) /\ (~(focus = "copy") => []~(focus = "copy"))
  BY PageBegins, PageStays, PTL DEF Spec, Narrow!Draft!Spec
<1>3. Spec => (focus = "collab" => Portal!Collab!Spec) /\ (~(focus = "collab") => []~(focus = "collab"))
  BY PageBegins, PageStays, PTL DEF Spec, Portal!Collab!Spec
<1>4. Spec => (focus = "subflow" => Portal!Subflow!Spec) /\ (~(focus = "subflow") => []~(focus = "subflow"))
  BY PageBegins, PageStays, PTL DEF Spec, Portal!Subflow!Spec
<1>5. Spec => (focus = "property" => Portal!Property!Spec) /\ (~(focus = "property") => []~(focus = "property"))
  BY PageBegins, PageStays, PTL DEF Spec, Portal!Property!Spec
<1>6. Spec => (focus = "vars" => Portal!Vars!Spec) /\ (~(focus = "vars") => []~(focus = "vars"))
  BY PageBegins, PageStays, PTL DEF Spec, Portal!Vars!Spec
<1>7. Spec => (focus = "todo" => Portal!Todo!Spec) /\ (~(focus = "todo") => []~(focus = "todo"))
  BY PageBegins, PageStays, PTL DEF Spec, Portal!Todo!Spec
<1>8. Spec => (focus = "task" => Portal!Task!Spec) /\ (~(focus = "task") => []~(focus = "task"))
  BY PageBegins, PageStays, PTL DEF Spec, Portal!Task!Spec
<1>9. Spec => (focus = "jobs" => Portal!Jobs!Spec) /\ (~(focus = "jobs") => []~(focus = "jobs"))
  BY PageBegins, PageStays, PTL DEF Spec, Portal!Jobs!Spec
<1>10. Spec => (focus = "steps" => Narrow!Jobs!Spec) /\ (~(focus = "steps") => []~(focus = "steps"))
  BY PageBegins, PageStays, PTL DEF Spec, Narrow!Jobs!Spec
<1>11. Spec => (focus = "past" => Ended!Jobs!Spec) /\ (~(focus = "past") => []~(focus = "past"))
  BY PageBegins, PageStays, PTL DEF Spec, Ended!Jobs!Spec
<1>12. Spec => (focus = "dam" => Portal!Dam!Spec) /\ (~(focus = "dam") => []~(focus = "dam"))
  BY PageBegins, PageStays, PTL DEF Spec, Portal!Dam!Spec
<1>13. Spec => (focus = "help" => Portal!Help!Spec) /\ (~(focus = "help") => []~(focus = "help"))
  BY PageBegins, PageStays, PTL DEF Spec, Portal!Help!Spec
<1>14. Spec => (focus = "deploy" => Data!Deploy!Spec) /\ (~(focus = "deploy") => []~(focus = "deploy"))
  BY PageBegins, PageStays, PTL DEF Spec, Data!Deploy!Spec
<1>15. Spec => (focus = "registry" => Data!Registry!Spec) /\ (~(focus = "registry") => []~(focus = "registry"))
  BY PageBegins, PageStays, PTL DEF Spec, Data!Registry!Spec
<1>16. Spec => (focus = "rows" => Data!Editor!Spec) /\ (~(focus = "rows") => []~(focus = "rows"))
  BY PageBegins, PageStays, PTL DEF Spec, Data!Editor!Spec
<1>17. Spec => (focus = "tree" => Data!Tree!Spec) /\ (~(focus = "tree") => []~(focus = "tree"))
  BY PageBegins, PageStays, PTL DEF Spec, Data!Tree!Spec
<1>18. Spec => (focus = "onto" => Data!Onto!Spec) /\ (~(focus = "onto") => []~(focus = "onto"))
  BY PageBegins, PageStays, PTL DEF Spec, Data!Onto!Spec
<1>19. Spec => (focus = "saved" => Saved!Onto!Spec) /\ (~(focus = "saved") => []~(focus = "saved"))
  BY PageBegins, PageStays, PTL DEF Spec, Saved!Onto!Spec
<1>20. Spec => (focus = "mdm" => Data!Mdm!Spec) /\ (~(focus = "mdm") => []~(focus = "mdm"))
  BY PageBegins, PageStays, PTL DEF Spec, Data!Mdm!Spec
<1> QED BY <1>1, <1>2, <1>3, <1>4, <1>5, <1>6, <1>7, <1>8, <1>9, <1>10, <1>11, <1>12, <1>13, <1>14, <1>15,
          <1>16, <1>17, <1>18, <1>19, <1>20

\* A task is answered once; a form that answered it closes itself, but in the
\* workspace (submitApproval, closeWhenDone).
THEOREM TaskAnsweredOnce ==
  Spec => []TasksHandledOnce
<1>1. Portal!Task!Spec => []Portal!Task!HandledOnce
  BY Portal!TaskHandled, Instances
<1>2. CASE Workspace
  <2>1. (focus = "task" => Portal!Task!HandledOnce) => TasksHandledOnce
    BY <1>2 DEF TasksHandledOnce
  <2> QED BY <1>1, <2>1, PageFollowed, PTL
<1>3. CASE ~Workspace
  <2>1. Portal!Task!Spec => []Portal!Task!ClosesItself
    BY <1>3, Portal!TaskCloses, Instances
  <2>2. (focus = "task" => Portal!Task!HandledOnce /\ Portal!Task!ClosesItself) => TasksHandledOnce
    BY DEF TasksHandledOnce
  <2> QED BY <1>1, <2>1, <2>2, PageFollowed, PTL
<1> QED BY <1>2, <1>3

\* Lines have their ends and bindings their subflows, declarations have no
\* leftovers, and replays are not posted again.
THEOREM SoundDefinitions ==
  Spec => []DefinitionsAreSound
<1>1. /\ Portal!Collab!Spec => []Portal!Collab!LinesHaveEnds
      /\ Portal!Collab!Spec => []Portal!Collab!NoEchoStorm
      /\ Portal!Subflow!Spec => []Portal!Subflow!BindingsLeadSomewhere
      /\ Portal!Vars!Spec => []Portal!Vars!NoLeftovers
  BY Portal!CollabLines, Portal!CollabNoEcho, Portal!SubBindings, Portal!VarsNoLeftovers,
     Instances
<1> QED BY <1>1, PageFollowed, PTL DEF DefinitionsAreSound

\* Only approved plans are deployed, no row of the system is deleted, every
\* baseline is of the row shown, and a request is one document, written by one
\* request at a time.
THEOREM AllowedWrites ==
  Spec => []WritesAreAllowed
<1>1. /\ Data!Deploy!Spec => []Data!Deploy!NothingUnapproved
      /\ Data!Editor!Spec => []Data!Editor!BaselineIsOfShown
      /\ Data!Editor!Spec => []Data!Editor!DeletesAreAllowed
      /\ Data!Mdm!Spec => []Data!Mdm!InsertedOnce
      /\ Data!Mdm!Spec => []Data!Mdm!OneWrite
  BY Data!DeploysTheApproved, Data!EditorBaseline, Data!EditorDeletes, Data!MdmInsertedOnce,
     Data!MdmOneWrite, Instances
<1> QED BY <1>1, PageFollowed, PTL DEF WritesAreAllowed

\* However answers overtake each other, what a page shows is of what was
\* chosen: the stream of a job, the page of a list, the keys of the filter, the
\* topic of the history, the children of a node, the detail of an element; and
\* no page waits for an answer nobody will give.
THEOREM ChosenShown ==
  Spec => []ShownIsChosen
<1>1. /\ Data!Deploy!Spec => []Data!Deploy!NeverStuck
      /\ Portal!Jobs!Spec => [](Portal!Jobs!StreamIsChosen /\ Portal!Jobs!PagerInRange)
      /\ Narrow!Jobs!Spec => [](Narrow!Jobs!StreamIsChosen /\ Narrow!Jobs!PagerInRange)
      /\ Ended!Jobs!Spec => [](Ended!Jobs!StreamIsChosen /\ Ended!Jobs!PagerInRange)
      /\ Portal!Dam!Spec => []Portal!Dam!KeysFollowFilter
      /\ Portal!Help!Spec => []Portal!Help!HistoryTellsTopic
      /\ Data!Tree!Spec => []Data!Tree!ArrowsHaveChildren
      /\ Data!Onto!Spec => []Data!Onto!DetailIsOfSelected
      /\ Saved!Onto!Spec => []Saved!Onto!DetailIsOfSelected
  BY Data!DeployGoesOn, Portal!JobsShowChosen, Narrow!JobsShowChosen, Ended!JobsShowChosen,
     Portal!DamFollows, Portal!HelpTellsTopic, Data!TreeArrows, Data!OntoDetail,
     Saved!OntoDetail, Instances
<1> QED BY <1>1, PageFollowed, PTL DEF ShownIsChosen

\* The path on the page exists, and the tree of the registry is whole.
THEOREM WholeRegistry ==
  Spec => []RegistryIsWhole
<1>1. Data!Registry!Spec => [](Data!Registry!TypeOK /\ Data!Registry!PathExists /\ Data!Registry!TreeIsWhole)
  BY Data!RegistryWhole, Instances
<1> QED BY <1>1, PageFollowed, PTL DEF RegistryIsWhole

\* No step replaces a newer draft that the page has not seen.
THEOREM KeptWork ==
  Spec => WorkIsKept
<1>1. /\ Portal!Draft!Spec => Portal!Draft!NoBlindOverwrite
      /\ Narrow!Draft!Spec => Narrow!Draft!NoBlindOverwrite
  BY Portal!DraftNeverBlind, Narrow!DraftNeverBlind, Instances
<1>2. /\ [Next]_vars /\ [Portal!Draft!NoBlindOverwriteStep]_Portal!Draft!vars
            => [focus = "draft" => Portal!Draft!NoBlindOverwriteStep]_vars
      /\ [Next]_vars /\ [Narrow!Draft!NoBlindOverwriteStep]_Narrow!Draft!vars
            => [focus = "copy" => Narrow!Draft!NoBlindOverwriteStep]_vars
  BY PageStays, Zenon DEF Portal!Draft!vars, Narrow!Draft!vars
<1> QED BY <1>1, <1>2, PageFollowed, PTL
    DEF Spec, WorkIsKept, Portal!Draft!NoBlindOverwrite, Narrow!Draft!NoBlindOverwrite

\* What is written is what the user chose and confirmed: one handler of the
\* kind shown, the instance a dialog named, a reason where one is asked for.
THEOREM AskedSteps ==
  Spec => StepsAreAsked
<1>1. /\ Portal!Property!Spec => Portal!Property!OneHandler
      /\ Portal!Property!Spec => Portal!Property!ChosenKindStays
      /\ Portal!Todo!Spec => Portal!Todo!ConfirmedFirst
      /\ Portal!Task!Spec => Portal!Task!ReasonGiven
  BY Portal!PropertyOneHandler, Portal!PropertyKindStays, Portal!TodoConfirmedFirst,
     Portal!TaskReasons, Instances
<1>2. /\ [Next]_vars /\ [Portal!Property!OneHandlerStep]_Portal!Property!vars /\ [Portal!Property!ChosenKindStaysStep]_Portal!Property!vars
            => [focus = "property" => Portal!Property!OneHandlerStep /\ Portal!Property!ChosenKindStaysStep]_vars
      /\ [Next]_vars /\ [Portal!Todo!ConfirmedFirstStep]_Portal!Todo!vars
            => [focus = "todo" => Portal!Todo!ConfirmedFirstStep]_vars
      /\ [Next]_vars /\ [Portal!Task!ReasonGivenStep]_Portal!Task!vars
            => [focus = "task" => Portal!Task!ReasonGivenStep]_vars
  BY PageStays, Zenon DEF Portal!Property!vars, Portal!Todo!vars, Portal!Task!vars
<1> QED BY <1>1, <1>2, PageFollowed, PTL
    DEF Spec, StepsAreAsked, Portal!Property!OneHandler, Portal!Property!ChosenKindStays,
        Portal!Todo!ConfirmedFirst, Portal!Task!ReasonGiven

\* No step drops the edits of a refused save, asks for rows of another node
\* than the one highlighted, makes a relation twice, or takes a document back
\* to the draft but by a withdrawal.
THEOREM MeantSteps ==
  Spec => StepsAreMeant
<1>1. /\ Data!Editor!Spec => Data!Editor!RefusalKeepsEdits
      /\ Data!Tree!Spec => Data!Tree!HighlightIsAskedFor
      /\ Data!Onto!Spec => Data!Onto!LinkedOnce
      /\ Data!Mdm!Spec => Data!Mdm!DraftByWithdrawal
  BY Data!EditorRefusal, Data!TreeHighlightIsAskedFor, Data!OntoLinkedOnce,
     Data!MdmDraftByWithdrawal, Instances
<1>2. /\ [Next]_vars /\ [Data!Editor!RefusalKeepsEditsStep]_Data!Editor!vars
            => [focus = "rows" => Data!Editor!RefusalKeepsEditsStep]_vars
      /\ [Next]_vars /\ [Data!Tree!HighlightIsAskedForStep]_Data!Tree!vars
            => [focus = "tree" => Data!Tree!HighlightIsAskedForStep]_vars
      /\ [Next]_vars /\ [Data!Onto!LinkedOnceStep]_Data!Onto!vars
            => [focus = "onto" => Data!Onto!LinkedOnceStep]_vars
      /\ [Next]_vars /\ [Data!Mdm!DraftByWithdrawalStep]_Data!Mdm!vars
            => [focus = "mdm" => Data!Mdm!DraftByWithdrawalStep]_vars
  BY PageStays, Zenon DEF Data!Editor!vars, Data!Tree!vars, Data!Onto!vars, Data!Mdm!vars
<1> QED BY <1>1, <1>2, PageFollowed, PTL
    DEF Spec, StepsAreMeant, Data!Editor!RefusalKeepsEdits, Data!Tree!HighlightIsAskedFor, Data!Onto!LinkedOnce,
        Data!Mdm!DraftByWithdrawal
=============================================================================
