----------------------------- MODULE ReportFormat -----------------------------
(***************************************************************************)
(* Formatting from the ribbon of the report designer (designer.js).  The   *)
(* ribbon keeps one style, `ui`, read back from the active cell, and a     *)
(* command writes the whole of it to the selection; colours go only with   *)
(* their own command.  A number format is one of the named ones or a raw   *)
(* one, given by its decimals.                                             *)
(***************************************************************************)
EXTENDS Integers, FiniteSets, FiniteSetsExt

CONSTANTS Cells,            \* cells, the first of a selection being the active one
          Fills,            \* colours one may pick
          NoFill, MaxDecimals

FormatAssumption == Cells \subseteq Nat /\ Cells # {} /\ NoFill \notin Fills /\ MaxDecimals \in Nat

VARIABLES page

Paper == "paper"            \* the colour of the sheet itself

(* The named formats by their decimals: general has none, number two.      *)
Named == {0, 2}
Formats == 0..MaxDecimals

Plain == [bold |-> FALSE, fill |-> NoFill, decimals |-> 0]

Init == page = [cells |-> [c \in Cells |-> Plain], sel |-> {Min(Cells)}, synced |-> {Min(Cells)},
                ui |-> [bold |-> FALSE, fill |-> Paper, decimals |-> 0], zoom |-> 100]

\* Mutant: decimals go below none.
StepDecimalsBelow(n, step) == Min({n + step, MaxDecimals, 9})

(* Up to nine decimals; one less than none is none.                        *)
StepDecimals(n, step) == IF n + step < 0 THEN 0 ELSE Min({n + step, MaxDecimals, 9})

-----------------------------------------------------------------------------

SyncSheetUi(p) ==
    LET read == p.cells[Min(p.sel)]
    IN  [p EXCEPT !.synced = p.sel,
                  !.ui = [bold |-> read.bold,
                          fill |-> IF read.fill = NoFill THEN p.ui.fill ELSE read.fill,
                          decimals |-> IF read.decimals \in Named THEN read.decimals ELSE 0]]

Select(cells) == page' = [page EXCEPT !.sel = cells]

SelectionSync == page.synced # page.sel /\ page' = SyncSheetUi(page)

(* The style of the ribbon goes to every selected cell, the fill only when *)
(* the command is about it.                                                *)
ApplySheetUiStyle(p, patch) ==
    LET ui == [k \in DOMAIN p.ui |-> IF k \in DOMAIN patch THEN patch[k] ELSE p.ui[k]]
        styled(c) == [bold |-> ui.bold, decimals |-> ui.decimals,
                      fill |-> IF "fill" \in DOMAIN patch THEN ui.fill ELSE c.fill]
    IN  [p EXCEPT !.ui = ui,
                  !.cells = [c \in Cells |-> IF c \in p.sel THEN styled(p.cells[c]) ELSE p.cells[c]]]

Bold == page' = SyncSheetUi(ApplySheetUiStyle(page, [bold |-> ~page.ui.bold]))

FillColor(f) == page' = ApplySheetUiStyle(page, [fill |-> f])

NumberFormat(n) == n \in Named /\ page' = ApplySheetUiStyle(page, [decimals |-> n])

(* A raw format leaves the rest of the style alone.                        *)
ApplyRawFormatter(step) ==
    LET n == StepDecimals(page.cells[Min(page.sel)].decimals, step)
    IN  page' = SyncSheetUi([page EXCEPT
                  !.cells = [c \in Cells |-> IF c \in page.sel THEN [page.cells[c] EXCEPT !.decimals = n]
                                             ELSE page.cells[c]]])

ClearFormat ==
    page' = SyncSheetUi([page EXCEPT !.cells = [c \in Cells |-> IF c \in page.sel THEN Plain ELSE page.cells[c]]])

ApplyZoom(pct) == page' = [page EXCEPT !.zoom = Max({50, Min({200, pct})})]

-----------------------------------------------------------------------------

Next == \/ \E cells \in SUBSET Cells \ {{}} : Select(cells)
        \/ SelectionSync \/ Bold \/ ClearFormat
        \/ \E f \in Fills : FillColor(f)
        \/ \E n \in Named : NumberFormat(n)
        \/ \E step \in {-1, 1} : ApplyRawFormatter(step)
        \/ \E pct \in {page.zoom - 50, page.zoom + 50, 100} : ApplyZoom(pct)

Spec == Init /\ [][Next]_page

-----------------------------------------------------------------------------

Style == [bold : BOOLEAN, fill : Fills \union {NoFill, Paper}, decimals : Formats]

(* The state keeps to its types.                                          *)
TypeOK == /\ page.cells \in [Cells -> Style] /\ page.ui \in Style
          /\ page.sel \subseteq Cells /\ page.zoom \in 50..200

(* A cell gets the colour of the sheet, or another cell's, from nothing    *)
(* but the fill command: bold, a number format, or the ribbon reading the  *)
(* style back from another cell leave an unfilled cell unfilled.           *)
FillOnlyByCommandStep ==
    (\A f \in Fills : ~FillColor(f)) =>
      \A c \in Cells : page'.cells[c].fill \in {page.cells[c].fill, NoFill}
FillOnlyByCommand == [][FillOnlyByCommandStep]_page

-----------------------------------------------------------------------------
(* Wanted of the page, and not met by the code: README.md, section 7.      *)

(* A command on the text of a cell keeps its number format.                *)
BoldKeepsDecimals ==
    [][(page.synced = page.sel /\ Cardinality(page.sel) = 1 /\ Bold) =>
         \A c \in Cells : page'.cells[c].decimals = page.cells[c].decimals]_page
=============================================================================
