----------------------------- MODULE ReportPanels -----------------------------
(***************************************************************************)
(* The panels around the workbook of the report designer (designer.js):    *)
(* the property page of a cell with its function wizard, the formula bar,  *)
(* the formula editor that follows the selection, and the badges that      *)
(* cover the cells with formulas.  A cell is a sheet and an address; what  *)
(* a cell holds is a formula or nothing.  `map` is the report's own layer, *)
(* `canvas` the formulas of the workbook.                                  *)
(***************************************************************************)
EXTENDS Integers, FiniteSets

CONSTANTS Sheets, Addrs,    \* sheets, and addresses of each of them
          Formulas,         \* formulas one may write
          Element,          \* the data element that can be bound
          None,
          MaxWrites         \* bound: edits made on the panels

PanelsAssumption == Sheets # {} /\ Addrs # {} /\ MaxWrites \in Nat

VARIABLES page

Places == Sheets \X Addrs
Fields == {"calc", "check"}
Kinds  == {"calc", "check", "elem"}
Blank  == [k \in Kinds |-> None]

Here == <<page.sheet, page.cell>>

Init ==
    /\ \E s \in Sheets, a \in Addrs :
         page = [sheet |-> s, active |-> a, cell |-> a, editor |-> None, wizard |-> None,
                 functions |-> "no", picked |-> FALSE,
                 map |-> [p \in Places |-> Blank], canvas |-> [p \in Places |-> None],
                 on |-> {}, raf |-> FALSE, badges |-> [a2 \in Addrs |-> None], poll |-> FALSE,
                 dirty |-> FALSE, writes |-> 0, open |-> TRUE]

-----------------------------------------------------------------------------
(* One badge covers a cell: both formulas, then the one, then the other,   *)
(* then the element; only what is switched on counts.                      *)

Variant(held, on) ==
    LET has(k) == k \in on /\ held[k] # None
    IN  CASE has("calc") /\ has("check") -> "both"
          [] has("calc") /\ ~has("check") -> "calc"
          [] ~has("calc") /\ has("check") -> "check"
          [] ~has("calc") /\ ~has("check") /\ has("elem") -> "elem"
          [] OTHER -> None

BadgesOf(p) == [a \in Addrs |-> Variant(p.map[<<p.sheet, a>>], p.on)]

RenderBadges(p) == [p EXCEPT !.badges = BadgesOf(p)]

Put(p, place, kind, value) == [p EXCEPT !.map[place][kind] = value, !.dirty = TRUE, !.writes = @ + 1]

-----------------------------------------------------------------------------
(* The selection moves: the editor's target follows it, on every path.     *)

Follow(p) == [p EXCEPT !.editor = IF @ = None THEN None ELSE p.cell]

Select(a) ==
    /\ page.open /\ a # page.active
    /\ page' = [page EXCEPT !.active = a]

(* The poll, or the workbook's event, copies the active cell.              *)
BindSelectionSync ==
    /\ page.open /\ page.active # page.cell
    /\ page' = Follow([page EXCEPT !.cell = page.active])

SheetChanged(s, a) ==
    /\ page.open /\ s # page.sheet
    /\ page' = [Follow([page EXCEPT !.sheet = s, !.active = a, !.cell = a]) EXCEPT !.raf = TRUE]

Goto(p, a) == Follow([p EXCEPT !.active = a, !.cell = a])

GotoCellOrRange(a) == page.open /\ page' = Goto(page, a)

-----------------------------------------------------------------------------

Busy == page.open /\ page.writes < MaxWrites

(* The bar shows the report's formulas of the cell before the canvas's.    *)
BarShows(p) ==
    LET held == p.map[<<p.sheet, p.cell>>]
    IN  CASE held.calc # None -> held.calc
          [] held.calc = None /\ held.check # None -> held.check
          [] OTHER -> p.canvas[<<p.sheet, p.cell>>]

(* The bar writes to the canvas only; the workbook reports the change.     *)
CellInput(p, f) ==
    [p EXCEPT !.canvas[<<p.sheet, p.cell>>] = f, !.dirty = TRUE, !.raf = TRUE]

SubmitFx(f) ==
    /\ Busy /\ page' = [CellInput(page, f) EXCEPT !.writes = @ + 1]

ApplyFormula(f) == Busy /\ page' = [CellInput(page, f) EXCEPT !.writes = @ + 1]

(* Typing in the two formula fields of the property page.                  *)
TypeCellMap(k, f) == Busy /\ page' = RenderBadges(Put(page, Here, k, f))

BindElement ==
    /\ Busy /\ page' = RenderBadges(Put(page, Here, "elem", Element))

(* A dropped element takes the cell under it, which becomes the selected   *)
(* one; the canvas and the editor are not told.                            *)
BindElementDrop(a, f) ==
    /\ Busy
    /\ page' = RenderBadges([Put(page, <<page.sheet, a>>, "elem", Element) EXCEPT
                 !.map[<<page.sheet, a>>] = [elem |-> Element, calc |-> f, check |-> None],
                 !.cell = a])

Unbind == Busy /\ page' = RenderBadges(Put(page, Here, "elem", None))

InsertElementValue ==
    /\ Busy /\ page' = RenderBadges(Put(CellInput(page, None), Here, "elem", Element))

-----------------------------------------------------------------------------
(* The wizard keeps the address it was opened at; the sheet is the one on  *)
(* the screen when the formula is inserted.                                *)

LoadFunctions == IF page.functions = "no" THEN "loading" ELSE page.functions

OpenWizard(k) ==
    /\ page.open /\ page.wizard = None
    /\ page' = [page EXCEPT !.wizard = [cell |-> page.cell, field |-> k], !.picked = FALSE,
                            !.functions = LoadFunctions]

FunctionsLoaded(answer) ==
    /\ page.functions = "loading"
    /\ page' = [page EXCEPT !.functions = answer]

PickFunction ==
    /\ page.wizard # None /\ page.functions = "some" /\ ~page.picked
    /\ page' = [page EXCEPT !.picked = TRUE]

BackToPick == page.picked /\ page' = [page EXCEPT !.picked = FALSE]

CancelWizard ==
    /\ page.wizard # None
    /\ page' = [page EXCEPT !.wizard = None, !.picked = FALSE]

InsertFormula(f) ==
    /\ Busy /\ page.wizard # None /\ page.picked
    /\ page' = RenderBadges([Put(page, <<page.sheet, page.wizard.cell>>, page.wizard.field, f)
                 EXCEPT !.wizard = None, !.picked = FALSE])

-----------------------------------------------------------------------------
(* The formula editor: a commit goes to the cell it shows, which is gone   *)
(* to first when another one is selected.                                  *)

OpenFxEditor ==
    /\ page.open /\ page.editor = None
    /\ page' = [page EXCEPT !.editor = page.cell, !.functions = LoadFunctions]

AtTarget == IF page.editor # page.cell THEN Goto(page, page.editor) ELSE page

OnFxCommit(f) ==
    /\ Busy /\ page.editor # None
    /\ page' = [Put(CellInput(AtTarget, f), <<page.sheet, page.editor>>, "calc", f) EXCEPT !.editor = None]

-----------------------------------------------------------------------------
(* The switches of the badges, the frame that redraws them, and the poll.  *)

BadgeToggle(k) ==
    /\ page.open
    /\ LET on == IF k \in page.on THEN page.on \ {k} ELSE page.on \union {k}
       IN  page' = [RenderBadges([page EXCEPT !.on = on]) EXCEPT !.poll = @ \/ on # {}]

ScheduledBadges == page.raf /\ page' = [RenderBadges(page) EXCEPT !.raf = FALSE]

(* Each tick looks whether anybody still wants it; scrolling redraws.      *)
BadgePoll ==
    /\ page.poll
    /\ page' = IF page.on = {} \/ ~page.open THEN [page EXCEPT !.poll = FALSE]
               ELSE RenderBadges(page)

Close == page.open /\ page' = [page EXCEPT !.open = FALSE, !.editor = None, !.wizard = None, !.picked = FALSE]

-----------------------------------------------------------------------------

Selecting == \/ \E a \in Addrs : Select(a) \/ GotoCellOrRange(a)
             \/ \E s \in Sheets, a \in Addrs : SheetChanged(s, a)
             \/ BindSelectionSync

Writing == \E f \in Formulas :
    \/ SubmitFx(f) \/ ApplyFormula(f) \/ InsertFormula(f) \/ OnFxCommit(f)
    \/ \E k \in Fields : TypeCellMap(k, f)
    \/ \E a \in Addrs : BindElementDrop(a, f)
    \/ BindElement \/ Unbind \/ InsertElementValue

Next == \/ Selecting \/ Writing
        \/ \E k \in Fields : OpenWizard(k)
        \/ \E answer \in {"some", "none"} : FunctionsLoaded(answer)
        \/ PickFunction \/ BackToPick \/ CancelWizard \/ OpenFxEditor
        \/ \E k \in Kinds : BadgeToggle(k)
        \/ ScheduledBadges \/ BadgePoll \/ Close

Spec == Init /\ [][Next]_page

-----------------------------------------------------------------------------

Held == [calc : Formulas \union {None}, check : Formulas \union {None}, elem : {Element, None}]

(* The state keeps to its types.                                          *)
TypeOK ==
    /\ page.sheet \in Sheets /\ page.active \in Addrs /\ page.cell \in Addrs
    /\ page.editor \in Addrs \union {None} /\ page.on \subseteq Kinds
    /\ page.map \in [Places -> Held] /\ page.canvas \in [Places -> Formulas \union {None}]
    /\ page.functions \in {"no", "loading", "some", "none"}
    /\ page.poll \in BOOLEAN /\ page.dirty \in BOOLEAN /\ page.writes \in 0..MaxWrites

(* What the formula editor shows is what it writes to: one commit changes  *)
(* the canvas and the report's layer at one and the same cell, the one     *)
(* under its "write to" label, wherever the selection has moved meanwhile. *)
CommitGoesWhereItShowsStep ==
    \A f \in Formulas : OnFxCommit(f) =>
      \A p \in Places : (page'.canvas[p] # page.canvas[p] \/ page'.map[p] # page.map[p])
                           => p = <<page.sheet, page.editor>>
CommitGoesWhereItShows == [][CommitGoesWhereItShowsStep]_page

(* While no redraw is pending the badges on the screen tell the truth      *)
(* about the formulas of the sheet, through every panel that changes them. *)
BadgesTellTruth ==
    (page.open /\ ~page.raf) => page.badges = BadgesOf(page)

-----------------------------------------------------------------------------
(* Wanted of the page, and not met by the code: README.md, section 7.      *)

(* What was typed into the bar is what the bar shows of the cell.          *)
BarTakesStep == \A f \in Formulas : SubmitFx(f) => BarShows(page') = f
BarTakes == [][BarTakesStep]_page
=============================================================================
