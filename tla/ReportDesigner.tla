---------------------------- MODULE ReportDesigner ----------------------------
(***************************************************************************)
(* The semantic layer of the report designer page (designer.js): data      *)
(* elements and formulas bound to cells, the regions, what happens to them *)
(* when the spreadsheet engine inserts and deletes rows, undoes and        *)
(* redoes, and what a saved layout keeps of them.  The engine itself is    *)
(* external: a column of cells, each with an identity, and its undo and    *)
(* redo stacks.  ReportSync models how the edits travel.                   *)
(***************************************************************************)
EXTENDS Integers, Sequences, SequencesExt, FiniteSets

CONSTANTS
    None,                   \* an empty field of a binding
    Elements,               \* data elements; each is bound once
    Formulas,
    Native,                 \* the formulas that cells of the engine have of their own
    Height,                 \* rows of the new sheet
    ScanRows,               \* deriveProjection reads that many rows (500 in the code)
    UndoOf,                 \* structural changes the user undoes
    Blocks,                 \* regions one may draw: first row, last row, template row
    RemoteKinds,            \* kinds of operations that arrive from others
    MaxChanges              \* bound: structural changes, and snapshots when one is undone

DesignerAssumption ==
    /\ Height \in Nat /\ ScanRows \in Nat /\ MaxChanges \in Nat
    /\ UndoOf \subseteq {"insert", "delete"} /\ None \notin Elements \union Formulas
    /\ DOMAIN Native \subseteq 1..Height /\ \A c \in DOMAIN Native : Native[c] \in Formulas

-----------------------------------------------------------------------------
(* Which data element and which formulas are bound to a cell, keyed by the *)
(* row of the cell, and how the keys move when rows are inserted or        *)
(* deleted.  One sheet and one axis: the other axis and the other sheets   *)
(* are the same code with another prefix.                                  *)

Gone == -1                  \* the position fell into a deleted range

Blank == [el |-> None, calc |-> None, check |-> None]

(* The bindings of a sheet: a function from the rows that have an entry.   *)
NoCells == << >>

At(cells, r) == IF r \in DOMAIN cells THEN cells[r] ELSE Blank

Put(cells, r, b) == [q \in DOMAIN cells \union {r} |-> IF q = r THEN b ELSE cells[q]]

(* What a reader can tell: an entry without content is no entry.           *)
Content(cells) == {<<r, cells[r]>> : r \in {q \in DOMAIN cells : cells[q] # Blank}}

-----------------------------------------------------------------------------

\* Mutant: a row inserted at a position leaves the row there in place.
ShiftIndexAfter(pos, at, count, op) ==
    IF op = "insert" THEN IF pos > at THEN pos + count ELSE pos
    ELSE IF pos >= at + count THEN pos - count
    ELSE IF pos >= at THEN Gone
    ELSE pos

ShiftIndex(pos, at, count, op) ==
    IF op = "insert" THEN IF pos >= at THEN pos + count ELSE pos
    ELSE IF pos >= at + count THEN pos - count
    ELSE IF pos >= at THEN Gone
    ELSE pos

(* The rows of cells that survive a change, and those that do not.         *)
Kept(cells, at, count, op) == {r \in DOMAIN cells : ShiftIndex(r, at, count, op) # Gone}

Removed(cells, at, count, op) ==
    [r \in DOMAIN cells \ Kept(cells, at, count, op) |-> cells[r]]

Moved(cells, at, count, op) ==
    LET kept == Kept(cells, at, count, op)
    IN  [s \in {ShiftIndex(r, at, count, op) : r \in kept} |->
            cells[CHOOSE r \in kept : ShiftIndex(r, at, count, op) = s]]

(* An undone deletion writes what it removed over the moved entries.       *)
Restored(cells, removed, at, count) ==
    LET back == Moved(removed, at, count, "insert")
    IN  [r \in DOMAIN cells \union DOMAIN back |->
            IF r \in DOMAIN back THEN back[r] ELSE cells[r]]

(* A region is an interval of rows, either end of which may be gone.       *)
MovedRegion(rg, at, count, op) ==
    LET end(r) == IF r = Gone THEN Gone ELSE ShiftIndex(r, at, count, op)
    IN  [rg EXCEPT !.from = end(@), !.to = end(@), !.template = end(@)]

-----------------------------------------------------------------------------

Structural == {"insertRow", "deleteRow"}

OpOf(kind) == IF kind = "insertRow" THEN "insert" ELSE "delete"

(* One recorded edit of a cell applied to the bindings of a reader.        *)
Replay(cells, op) ==
    CASE op.kind = "setCellFormula" -> Put(cells, op.at, [At(cells, op.at) EXCEPT !.calc = op.val])
      [] op.kind = "setCheckFormula" -> Put(cells, op.at, [At(cells, op.at) EXCEPT !.check = op.val])
      [] op.kind = "bindElement" -> Put(cells, op.at, [At(cells, op.at) EXCEPT !.el = op.val])
      [] op.kind = "unbindElement" -> Put(cells, op.at, [At(cells, op.at) EXCEPT !.el = None])

VARIABLES
    canvas,                 \* the cells of the engine, by row
    undo, redo,             \* the stacks of the engine
    cells,                  \* st.cellMap
    regions,                \* st.regions
    snaps,                  \* st.__structUndo: what deletions removed
    made,                   \* structural changes so far
    home                    \* the cell an element was bound to (history)

vars == <<canvas, undo, redo, cells, regions, snaps, made, home>>

Rows == 0 .. Len(canvas) - 1
CellAt(r) == canvas[r + 1]

Init ==
    /\ canvas = [i \in 1..Height |-> i]
    /\ undo = << >> /\ redo = << >>
    /\ cells = NoCells /\ regions = {} /\ snaps = << >>
    /\ made = 0
    /\ home = [e \in Elements |-> None]

-----------------------------------------------------------------------------
(* Edits of one cell.                                                      *)

(* A bound element brings its formulas along, unless the cell has its own. *)
BindElementToCell(r, el) ==
    /\ home[el] = None
    /\ cells' = Put(cells, r, [At(cells, r) EXCEPT !.el = el])
    /\ home' = [home EXCEPT ![el] = CellAt(r)]
    /\ UNCHANGED <<canvas, undo, redo, regions, snaps, made>>

(* Dropped on a cell it replaces what was bound there, formulas included.  *)
BindElementToCellAddr(r, el) ==
    /\ home[el] = None
    /\ cells' = Put(cells, r, [Blank EXCEPT !.el = el])
    /\ home' = [home EXCEPT ![el] = CellAt(r)]
    /\ UNCHANGED <<canvas, undo, redo, regions, snaps, made>>

Unbind(r) ==
    /\ cells' = IF r \in DOMAIN cells THEN Put(cells, r, [cells[r] EXCEPT !.el = None]) ELSE cells
    /\ UNCHANGED <<canvas, undo, redo, regions, snaps, made, home>>

(* Typing in the formula field, or inserting what the wizard built.        *)
SetFormula(r, f) ==
    /\ cells' = Put(cells, r, [At(cells, r) EXCEPT !.calc = f])
    /\ UNCHANGED <<canvas, undo, redo, regions, snaps, made, home>>

-----------------------------------------------------------------------------
(* Regions; one at a time is enough to see them move.                      *)

AddRegion(rg) ==
    /\ regions = {}
    /\ regions' = {rg}
    /\ UNCHANGED <<canvas, undo, redo, cells, snaps, made, home>>

DeleteRegion(rg) ==
    /\ regions' = regions \ {rg}
    /\ UNCHANGED <<canvas, undo, redo, cells, snaps, made, home>>

RegionOf(r) == {rg \in regions : rg.from # Gone /\ rg.to # Gone /\ rg.from <= r /\ r <= rg.to}

-----------------------------------------------------------------------------
(* Structural changes.  A change is [op, at, cell]: inserting the cell or  *)
(* deleting it.                                                            *)

Opposite(op) == IF op = "insert" THEN "delete" ELSE "insert"

Engine(op, at, cell) ==
    canvas' = IF op = "insert" THEN InsertAt(canvas, at + 1, cell) ELSE RemoveAt(canvas, at + 1)

(* The semantic layer follows; an undone deletion takes back what the      *)
(* latest deletion removed.                                                *)
ApplyStructuralShift(op, at, phase) ==
    LET moved == Moved(cells, at, 1, op)
    IN  /\ cells' = IF op = "insert" /\ phase = "undo" /\ snaps # << >>
                    THEN Restored(moved, Last(snaps), at, 1) ELSE moved
        /\ snaps' = IF op = "delete" THEN Append(snaps, Removed(cells, at, 1, op))
                    ELSE IF phase = "undo" /\ snaps # << >> THEN Front(snaps) ELSE snaps
        /\ regions' = {MovedRegion(rg, at, 1, op) : rg \in regions}

Do(op, at) ==
    /\ made < MaxChanges
    /\ LET cell == IF op = "insert" THEN Height + 1 + made ELSE CellAt(at)
       IN  /\ Engine(op, at, cell)
           /\ undo' = Append(undo, [op |-> op, at |-> at, cell |-> cell])
    /\ redo' = << >>
    /\ ApplyStructuralShift(op, at, "do")
    /\ made' = made + 1
    /\ UNCHANGED home

InsertRow(at) == Do("insert", at)
DeleteRow(at) == Len(canvas) > 1 /\ Do("delete", at)

(* Undo and redo change the sheet and, behind it, the bindings.             *)
Undo ==
    /\ undo # << >> /\ Last(undo).op \in UndoOf /\ Len(snaps) < MaxChanges
    /\ LET c == Last(undo)
       IN  /\ Engine(Opposite(c.op), c.at, c.cell)
           /\ ApplyStructuralShift(Opposite(c.op), c.at, "undo")
           /\ redo' = Append(redo, c)
    /\ undo' = Front(undo)
    /\ UNCHANGED <<made, home>>

Redo ==
    /\ redo # << >>
    /\ LET c == Last(redo)
       IN  /\ Engine(c.op, c.at, c.cell)
           /\ ApplyStructuralShift(c.op, c.at, "redo")
           /\ undo' = Append(undo, c)
    /\ redo' = Front(redo)
    /\ UNCHANGED <<made, home>>

-----------------------------------------------------------------------------
(* An operation of somebody else is replayed on the semantic layer only:   *)
(* the rows of the engine stay where they are.                             *)

ReplayOp(op) ==
    /\ IF op.kind \in Structural THEN ApplyStructuralShift(OpOf(op.kind), op.at, "do")
       ELSE cells' = Replay(cells, op) /\ UNCHANGED <<regions, snaps>>
    /\ UNCHANGED <<canvas, undo, redo, made, home>>

-----------------------------------------------------------------------------
(* What a saved layout keeps: the entries with content, and of a region    *)
(* its interval.  A cell of the scanned rows without a bound formula is    *)
(* saved with the one the engine has for it.                               *)

NativeAt(r) == IF r \in Rows /\ r < ScanRows /\ CellAt(r) \in DOMAIN Native THEN Native[CellAt(r)] ELSE None

Entry(r) == [At(cells, r) EXCEPT !.calc = IF @ = None THEN NativeAt(r) ELSE @]

DeriveProjection ==
    [cells |-> [r \in {q \in DOMAIN cells \union Rows : Entry(q) # Blank} |-> Entry(r)],
     regions |-> regions,
     floatRows |-> {r \in Rows : r < ScanRows /\ \E rg \in RegionOf(r) : rg.template = r}]

HydratePropsFromLayout(p) ==
    /\ cells' = p.cells
    /\ regions' = {[rg EXCEPT !.template = Gone] : rg \in p.regions}

(* Saving, closing and opening again: the engine starts with no history.   *)
Reopen ==
    /\ HydratePropsFromLayout(DeriveProjection)
    /\ undo' = << >> /\ redo' = << >> /\ snaps' = << >>
    /\ UNCHANGED <<canvas, made, home>>

-----------------------------------------------------------------------------

Edit(r) == \/ \E el \in Elements : BindElementToCell(r, el) \/ BindElementToCellAddr(r, el)
           \/ \E f \in Formulas : SetFormula(r, f)
           \/ Unbind(r)

Next == \/ \E r \in Rows : Edit(r) \/ InsertRow(r) \/ DeleteRow(r)
        \/ Undo \/ Redo \/ Reopen
        \/ \E rg \in Blocks : AddRegion(rg)
        \/ \E rg \in regions : DeleteRegion(rg)
        \/ \E kind \in RemoteKinds, r \in Rows, f \in Formulas :
              ReplayOp([kind |-> kind, at |-> r, val |-> f])

Spec == Init /\ [][Next]_vars

-----------------------------------------------------------------------------

Bindings == [el : Elements \union {None}, calc : Formulas \union {None}, check : Formulas \union {None}]

(* The state keeps to its types.                                          *)
TypeOK ==
    /\ DOMAIN cells \subseteq Nat /\ \A r \in DOMAIN cells : cells[r] \in Bindings
    /\ \A rg \in regions : rg.from \in Nat \union {Gone} /\ rg.to \in Nat \union {Gone}
    /\ made \in 0..MaxChanges /\ Len(undo) + Len(redo) <= made
    /\ Cardinality({CellAt(r) : r \in Rows}) = Len(canvas)

(* An element stays with the cell it was bound to: after any insertions    *)
(* and deletions, undone and redone insertions, and edits in between, a    *)
(* row that shows it is the row the cell has moved to                      *)
(* (applyStructuralShift).  Undone deletions are below.                    *)
BindingStays ==
    \A r \in DOMAIN cells : cells[r].el # None => r \in Rows /\ home[cells[r].el] = CellAt(r)

-----------------------------------------------------------------------------
(* Wanted of the page, and not met by the code: README.md, section 7.      *)

(* Saving a report and opening it again changes nothing that was bound: a  *)
(* formula of the engine comes back as one of the semantic layer.          *)
ReopenKeeps == [][Reopen => Content(cells') = Content(cells)]_vars

(* Undoing a deletion brings back the bindings that went with the row.     *)
UndoRestores ==
    [][(Undo /\ Last(undo).op = "delete") =>
         \A r \in DOMAIN Last(snaps) : cells'[r] = Last(snaps)[r]]_vars

(* And so do the floating regions.                                         *)
FloatKept == [][Reopen => regions' = regions]_vars
=============================================================================
