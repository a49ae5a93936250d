------------------------------ MODULE FlowViews ------------------------------
(***************************************************************************)
(* What the process workbench (definition-workbench.js) derives from its   *)
(* canvas: the outline and the small map, drawn again in the next frame;   *)
(* the trial run and the comparison of two versions, which mark elements   *)
(* of the canvas when their answers come in.                               *)
(***************************************************************************)
EXTENDS PageRequests

CONSTANTS Elements,
          Keys, Published,   \* definitions, and the content of the published version of each
          None,
          MaxChanges,        \* bound: edits, loads and comparisons opened
          MaxWire            \* bound: requests on the way

ViewsAssumption == MaxChanges \in Nat /\ MaxWire \in Nat \ {0}

VARIABLES page, wire, srv

vars == <<page, wire, srv>>

Tabs == {"node", "model", "sim", "diff"}

Kinds == {"sim", "diff"}

(* A content gives every element a signature; 0: it is not there.          *)
Contents == [Elements -> 0..2]

In(c) == {e \in Elements : c[e] # 0}

NoMarks == [e \in Elements |-> {}]

NoComparison == [open |-> FALSE, id |-> 0, va |-> 0, vb |-> 0, running |-> FALSE, result |-> None, marked |-> {}, error |-> FALSE]

NoTrial == [running |-> FALSE, result |-> None, marked |-> {}]

Init ==
    /\ \E k \in Keys :
         page = [key |-> k, canvas |-> Published[k], frames |-> {}, outline |-> In(Published[k]), map |-> In(Published[k]),
                 collapsed |-> FALSE, tab |-> "node", sim |-> NoTrial, diff |-> NoComparison, marks |-> NoMarks, changes |-> 0]
    /\ wire = {} /\ srv = Published

Counted(p) == p.changes < MaxChanges /\ page' = [p EXCEPT !.changes = @ + 1]

-----------------------------------------------------------------------------
(* Marks.  A panel remembers what it marked and takes that off again.      *)

Unmarked(p, kind, ids) == [p EXCEPT !.marks = [e \in Elements |-> IF e \in ids THEN @[e] \ {kind} ELSE @[e]]]

Marked(p, kind, ids) == [p EXCEPT !.marks = [e \in Elements |-> IF e \in ids THEN @[e] \union {kind} ELSE @[e]]]

ClearSimMarkers(p) == [Unmarked(p, "sim", p.sim.marked) EXCEPT !.sim.marked = {}]

ApplySimMarkers(p, ids) == [Marked(ClearSimMarkers(p), "sim", ids \intersect In(p.canvas)) EXCEPT !.sim.marked = ids \intersect In(p.canvas)]

ClearDiffMarkers(p) == IF p.diff.open THEN [Unmarked(p, "diff", p.diff.marked) EXCEPT !.diff.marked = {}] ELSE p

ApplyDiffMarkers(p, ids) ==
    IF p.diff.open
    THEN [Marked(ClearDiffMarkers(p), "diff", ids \intersect In(p.canvas)) EXCEPT !.diff.marked = ids \intersect In(p.canvas)]
    ELSE p

-----------------------------------------------------------------------------
(* The canvas.  A change asks for the outline and the map of the next      *)
(* frame, and takes back the marks of results it made stale.               *)

Scheduled(p) == [p EXCEPT !.frames = {"outline", "map"}]

CommandStackChanged(p) ==
    LET q == IF p.sim.marked = {} THEN p ELSE [ClearSimMarkers(p) EXCEPT !.sim.result = None]
    IN  IF q.diff.marked = {} THEN q ELSE [ClearDiffMarkers(q) EXCEPT !.diff.result = None]

(* An element that goes takes its marks with it.                           *)
EditCanvas(e, s) ==
    /\ s # page.canvas[e]
    /\ Counted(Scheduled(CommandStackChanged([page EXCEPT !.canvas[e] = s, !.marks[e] = IF s = 0 THEN {} ELSE @])))
    /\ UNCHANGED <<wire, srv>>

(* An imported diagram has no marks; what the panels remember stays.       *)
OpenDiagram(k) ==
    /\ Counted(Scheduled([page EXCEPT !.key = k, !.canvas = srv[k], !.marks = NoMarks]))
    /\ UNCHANGED <<wire, srv>>

OutlineFrame == "outline" \in page.frames /\ page' = [page EXCEPT !.outline = In(page.canvas), !.frames = @ \ {"outline"}] /\ UNCHANGED <<wire, srv>>

(* A folded map draws nothing ...                                          *)
RenderMinimapContent(p) == [p EXCEPT !.map = IF p.collapsed THEN @ ELSE In(p.canvas)]

MapFrame == "map" \in page.frames /\ page' = RenderMinimapContent([page EXCEPT !.frames = @ \ {"map"}]) /\ UNCHANGED <<wire, srv>>

(* ... and everything once it is unfolded.                                 *)
ToggleMinimap == page' = RenderMinimapContent([page EXCEPT !.collapsed = ~@]) /\ UNCHANGED <<wire, srv>>

-----------------------------------------------------------------------------
(* The trial run.                                                          *)

TabsShown(p) == {"node", "model", "sim"} \union (IF p.diff.open THEN {"diff"} ELSE {})

ChooseTab(t) ==
    /\ t \in TabsShown(page) \ {page.tab}
    /\ page' = [(IF page.tab = "sim" THEN ClearSimMarkers(page) ELSE page) EXCEPT !.tab = t]
    /\ UNCHANGED <<wire, srv>>

RunSimulation ==
    /\ page.tab = "sim" /\ ~page.sim.running /\ Room(wire, MaxWire)
    /\ page' = [page EXCEPT !.sim.running = TRUE]
    /\ wire' = Sent(wire, MaxWire, [kind |-> "simulate", of |-> page.canvas, id |-> 0, key |-> page.key, va |-> 0, vb |-> 0])
    /\ UNCHANGED srv

Simulated(r) ==
    /\ r.kind = "simulate" /\ r.status # "asked"
    /\ page' = [(IF r.status = "done" THEN ApplySimMarkers(page, In(r.of)) ELSE ClearSimMarkers(page))
                    EXCEPT !.sim.running = FALSE, !.sim.result = IF r.status = "done" THEN r.of ELSE [e \in Elements |-> 0]]
    /\ wire' = wire \ {r} /\ UNCHANGED srv

-----------------------------------------------------------------------------
(* The comparison; version 0 is the canvas as it is.                       *)

OpenDiff ==
    /\ LET p == ClearSimMarkers(page)
       IN  Counted([p EXCEPT !.diff = [NoComparison EXCEPT !.open = TRUE, !.id = p.changes + 1, !.va = 1], !.tab = "diff"])
    /\ UNCHANGED <<wire, srv>>

ExitDiff ==
    /\ page.diff.open /\ page.tab = "diff"
    /\ page' = [ClearDiffMarkers(page) EXCEPT !.diff = NoComparison, !.tab = "node"]
    /\ UNCHANGED <<wire, srv>>

SetSides(va, vb) ==
    /\ page.tab = "diff" /\ <<va, vb>> # <<page.diff.va, page.diff.vb>>
    /\ page' = [page EXCEPT !.diff.va = va, !.diff.vb = vb]
    /\ UNCHANGED <<wire, srv>>

RunDiff ==
    /\ page.tab = "diff" /\ ~page.diff.running
    /\ IF page.diff.va = page.diff.vb
       THEN page' = [page EXCEPT !.diff.error = TRUE] /\ UNCHANGED wire
       ELSE /\ Room(wire, MaxWire)
            /\ page' = [page EXCEPT !.diff.running = TRUE, !.diff.error = FALSE]
            /\ wire' = Sent(wire, MaxWire, [kind |-> "diff", of |-> page.canvas, id |-> page.diff.id, key |-> page.key,
                                            va |-> page.diff.va, vb |-> page.diff.vb])
    /\ UNCHANGED srv

DiffFlow(a, b) ==
    [added |-> In(b) \ In(a), removed |-> In(a) \ In(b), modified |-> {e \in In(a) \intersect In(b) : a[e] # b[e]}]

Side(r, v) == IF v = 0 THEN r.of ELSE srv[r.key]

(* The answer goes into the comparison that asked; the marks go to the one *)
(* that is open.                                                           *)
Compared(r) ==
    /\ r.kind = "diff" /\ r.status # "asked"
    /\ LET d == DiffFlow(Side(r, r.va), Side(r, r.vb))
           p == IF r.status = "done" THEN ApplyDiffMarkers(page, d.added \union d.modified) ELSE ClearDiffMarkers(page)
       IN  page' = IF p.diff.id = r.id
                   THEN [p EXCEPT !.diff.running = FALSE, !.diff.result = IF r.status = "done" THEN d ELSE None, !.diff.error = r.status = "failed"]
                   ELSE p
    /\ wire' = wire \ {r} /\ UNCHANGED srv

-----------------------------------------------------------------------------

Serve(r) == r.status = "asked" /\ wire' = Settled(wire, r, [r EXCEPT !.status = "done"]) /\ UNCHANGED <<page, srv>>

Refuse(r) == r.status = "asked" /\ wire' = Refused(wire, r) /\ UNCHANGED <<page, srv>>

Frame == OutlineFrame \/ MapFrame

Answer(r) == Simulated(r) \/ Compared(r)

Next == \/ Frame \/ ToggleMinimap \/ RunSimulation \/ OpenDiff \/ ExitDiff \/ RunDiff
        \/ \E e \in Elements, s \in 0..2 : EditCanvas(e, s)
        \/ \E k \in Keys : OpenDiagram(k)
        \/ \E t \in Tabs : ChooseTab(t)
        \/ \E va, vb \in 0..1 : SetSides(va, vb)
        \/ \E r \in wire : Answer(r) \/ Serve(r) \/ Refuse(r)

Spec == Init /\ [][Next]_vars

-----------------------------------------------------------------------------

(* The state keeps to its types.                                          *)
TypeOK ==
    /\ page.key \in Keys /\ page.canvas \in Contents /\ page.frames \subseteq {"outline", "map"}
    /\ page.tab \in Tabs /\ page.sim.marked \subseteq Elements /\ page.diff.marked \subseteq Elements
    /\ page.marks \in [Elements -> SUBSET Kinds]

(* Once the frames have run, the outline and the open map show the canvas. *)
ViewsCatchUp ==
    /\ "outline" \notin page.frames => page.outline = In(page.canvas)
    /\ "map" \notin page.frames /\ ~page.collapsed => page.map = In(page.canvas)

(* The button of the trial run is busy exactly while its request is under  *)
(* way, and the tab of the comparison is shown only while one is open.     *)
PanelsHaveWork ==
    /\ page.sim.running <=> Pending(wire, {"simulate"}) # {}
    /\ page.diff.running => \E r \in Pending(wire, {"diff"}) : r.id = page.diff.id
    /\ page.tab \in TabsShown(page)

-----------------------------------------------------------------------------
(* Wanted of the page, and not met by the code: README.md, section 7.      *)

(* An edit takes back the marks of a trial run: those that are shown are   *)
(* of the canvas as it is (3120).                                          *)
TrialIsOfCanvas == (\E e \in Elements : "sim" \in page.marks[e]) => page.sim.result = page.canvas

(* Every mark can be taken back by the panel that made it.                 *)
MarksAreOwned ==
    \A e \in Elements : /\ "sim" \in page.marks[e] => e \in page.sim.marked
                        /\ "diff" \in page.marks[e] => e \in page.diff.marked

(* What the comparison marks is in the result it shows.                    *)
DiffMarksAreListed == page.diff.marked # {} => page.diff.result # None
=============================================================================
