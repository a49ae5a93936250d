---------------------------- MODULE ReportApplier ----------------------------
(***************************************************************************)
(* The page that fills a report with the data of an organisation and a     *)
(* period (report-applier.js).  Its content view is built again whenever   *)
(* another period is chosen; requests of the view before are still on the  *)
(* way then, and answer into a sheet that is off the screen but into the   *)
(* state the views share.  A value is known by the period it was typed or  *)
(* stored for.                                                             *)
(***************************************************************************)
EXTENDS PageRequests

CONSTANTS Periods, Home,    \* accounting periods, and the one the page is opened for
          Cells,            \* plain cells of the sheet
          None,
          MaxViews,         \* bound: content views built
          MaxWire           \* bound: requests on the way

ApplierAssumption == Home \in Periods /\ None \notin Periods /\ MaxViews \in Nat /\ MaxWire \in Nat

VARIABLES page, wire, srv

vars == <<page, wire, srv>>

Empty == [c \in Cells |-> None]

Init ==
    /\ page = [open |-> FALSE, props |-> Home, cur |-> Home, view |-> 0, canvas |-> Empty,
               loading |-> FALSE, dirty |-> FALSE]
    /\ wire = {}
    /\ srv = [p \in Periods |-> [c \in Cells |-> IF c = 1 THEN p ELSE None]]

Ask(kind, period) ==
    /\ Room(wire, MaxWire)
    /\ wire' = Sent(wire, MaxWire, [kind |-> kind, period |-> period, view |-> page.view,
                                 data |-> IF kind = "save" THEN page.canvas ELSE Empty])

(* What is left of a page that was closed is found again when it is opened *)
(* anew: its state is kept under the properties it was opened with.        *)
GetState(p) == [p EXCEPT !.props = Home]

NewView(p) == [p EXCEPT !.view = @ + 1, !.canvas = Empty, !.loading = TRUE]

-----------------------------------------------------------------------------
(* Opening: one request for layout and data, and the single requests it    *)
(* falls back to.                                                          *)

Open ==
    /\ ~page.open /\ page.view < MaxViews
    /\ page' = NewView([GetState(page) EXCEPT !.open = TRUE])
    /\ Room(wire, MaxWire)
    /\ wire' = Sent(wire, MaxWire, [kind |-> "open", period |-> Home, view |-> page'.view, data |-> Empty])
    /\ UNCHANGED srv

(* Another view of the page is mounted later: its properties come back.    *)
MountView ==
    /\ page.open
    /\ page' = GetState(page)
    /\ UNCHANGED <<wire, srv>>

(* The period of the calendar: the content view is built again, and what   *)
(* was not saved is gone.                                                  *)
SelectPeriod(p) ==
    /\ page.open /\ p # page.cur /\ page.view < MaxViews
    /\ page' = NewView([page EXCEPT !.cur = p, !.props = p])
    /\ Room(wire, MaxWire)
    /\ wire' = Sent(wire, MaxWire, [kind |-> "open", period |-> p, view |-> page'.view, data |-> Empty])
    /\ UNCHANGED srv

\* Mutant: answers are not asked for which view they are.
OnscreenAnyView(r) == page.open

Onscreen(r) == page.open /\ r.view = page.view

(* Cells that have a value get it; the others stay as they are.            *)
ApplyCells(canvas, data) == [c \in Cells |-> IF data[c] # None THEN data[c] ELSE canvas[c]]

OpenReportBundle(r) ==
    /\ r.kind = "open" /\ r.status = "done"
    /\ page' = [page EXCEPT !.dirty = FALSE,
                            !.canvas = IF Onscreen(r) THEN ApplyCells(Empty, r.data) ELSE @]
    /\ wire' = wire \ {r} /\ UNCHANGED srv

FallBack(r) ==
    /\ r.kind = "open" /\ r.status = "failed"
    /\ wire' = Settled(wire, r, [r EXCEPT !.kind = "layout", !.status = "asked"])
    /\ UNCHANGED <<page, srv>>

(* Layout or skeleton, then the data of the period of the page by then.    *)
LoadLayout(r) ==
    /\ r.kind = "layout" /\ r.status # "asked"
    /\ page' = [page EXCEPT !.canvas = IF Onscreen(r) THEN Empty ELSE @]
    /\ wire' = Settled(wire, r, [r EXCEPT !.kind = "load", !.status = "asked", !.period = page.props])
    /\ UNCHANGED srv

(* The flag falls a moment later; the timer of a view before may do it.    *)
LoadingEnds ==
    /\ page.loading
    /\ Pending(wire, {"open", "layout"}) = {} \/ page.view > 1
    /\ page' = [page EXCEPT !.loading = FALSE]
    /\ UNCHANGED <<wire, srv>>

Close ==
    /\ page.open
    /\ page' = [page EXCEPT !.open = FALSE, !.canvas = Empty, !.loading = FALSE]
    /\ UNCHANGED <<wire, srv>>

-----------------------------------------------------------------------------
(* Work on the sheet.                                                      *)

(* The title names the chosen period.                                      *)
Title == page.cur

(* While the sheet is being built nothing counts as an edit.               *)
MarkDirty(p) == [p EXCEPT !.dirty = @ \/ ~p.loading]

(* In the sheet or in the formula bar.                                     *)
EditCell(c) ==
    /\ page.open /\ page.canvas[c] # Title
    /\ page' = MarkDirty([page EXCEPT !.canvas[c] = Title])
    /\ UNCHANGED <<wire, srv>>

LoadData == page.open /\ Ask("load", page.props) /\ UNCHANGED <<page, srv>>

Loaded(r) ==
    /\ r.kind = "load" /\ r.status # "asked"
    /\ page' = IF r.status = "failed" THEN page
               ELSE [page EXCEPT !.dirty = FALSE,
                                 !.canvas = IF Onscreen(r) THEN ApplyCells(@, r.data) ELSE @]
    /\ wire' = wire \ {r} /\ UNCHANGED srv

(* The service computes and stores; the page loads what it stored.         *)
ComputeData == page.open /\ Ask("compute", page.cur) /\ UNCHANGED <<page, srv>>

Computed(r) ==
    /\ r.kind = "compute" /\ r.status # "asked"
    /\ wire' = IF r.status = "failed" THEN wire \ {r}
               ELSE Settled(wire, r, [r EXCEPT !.kind = "load", !.status = "asked", !.period = page.props])
    /\ UNCHANGED <<page, srv>>

(* The save button, and the portal's "save before closing".                *)
SaveData == page.open /\ Ask("save", page.props) /\ UNCHANGED <<page, srv>>

Saved(r) ==
    /\ r.kind = "save" /\ r.status # "asked"
    /\ page' = IF r.status = "failed" THEN page ELSE [page EXCEPT !.dirty = FALSE]
    /\ wire' = wire \ {r} /\ UNCHANGED srv

-----------------------------------------------------------------------------
(* The service: a save leaves stored values alone where the sheet is empty.*)

Effect(r) ==
    CASE r.kind = "save"    -> [srv EXCEPT ![r.period] = ApplyCells(@, r.data)]
      [] r.kind = "compute" -> [srv EXCEPT ![r.period][1] = r.period]
      [] OTHER -> srv

Serve(r) ==
    /\ r.status = "asked"
    /\ srv' = Effect(r)
    /\ wire' = Settled(wire, r, [r EXCEPT !.status = "done", !.data = IF r.kind \in {"open", "load"} THEN srv'[r.period] ELSE Empty])
    /\ UNCHANGED page

Refuse(r) == r.status = "asked" /\ wire' = Refused(wire, r) /\ UNCHANGED <<page, srv>>

Answer(r) == \/ OpenReportBundle(r) \/ FallBack(r) \/ LoadLayout(r) \/ Loaded(r) \/ Computed(r) \/ Saved(r)

Next == \/ Open \/ MountView \/ LoadingEnds \/ Close \/ LoadData \/ ComputeData \/ SaveData
        \/ \E p \in Periods : SelectPeriod(p)
        \/ \E c \in Cells : EditCell(c)
        \/ \E r \in wire : Answer(r) \/ Serve(r) \/ Refuse(r)

Spec == Init /\ [][Next]_vars

-----------------------------------------------------------------------------

(* The state keeps to its types.                                          *)
TypeOK ==
    /\ page.props \in Periods /\ page.cur \in Periods
    /\ page.view \in 0..MaxViews /\ page.canvas \in [Cells -> Periods \union {None}]
    /\ srv \in [Periods -> [Cells -> Periods \union {None}]]

(* What an answer puts on the sheet was asked for by that sheet: a late    *)
(* answer to a view that was replaced does not reach the one that replaced *)
(* it.                                                                     *)
OldAnswersStayOffStep ==
    \A r \in wire : (Answer(r) /\ page'.canvas # page.canvas) => r.view = page.view
OldAnswersStayOff == [][OldAnswersStayOffStep]_vars

-----------------------------------------------------------------------------
(* Wanted of the page, and not met by the code: README.md, section 7.      *)

(* The values stored for a period were typed or stored for that period.    *)
SaveStaysInPeriod == \A p \in Periods, c \in Cells : srv[p][c] \in {p, None}
=============================================================================
