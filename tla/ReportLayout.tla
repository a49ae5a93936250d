----------------------------- MODULE ReportLayout -----------------------------
(***************************************************************************)
(* Opening, editing and saving the layout of a report (designer.js): the   *)
(* bundle that opens it and the plain layout it falls back to, the loading *)
(* flag that outlives the answer, the mark of unsaved edits, and the hash  *)
(* of the stored layout that a save must present.  Layouts are numbered in *)
(* the order the service accepted them, and a hash is such a number; the   *)
(* service itself is external.                                             *)
(***************************************************************************)
EXTENDS Integers, FiniteSets, FiniteSetsExt

CONSTANTS MaxVersions,      \* bound: layouts that get saved
          MaxEdits,         \* bound: edits made on the page
          MaxWire           \* bound: requests on the way

LayoutAssumption == MaxVersions \in Nat /\ MaxEdits \in Nat /\ MaxWire \in Nat

VARIABLES
    page,                   \* the designer page
    wire,                   \* its requests on the way
    stored,                 \* the latest layout: its number and the edits it holds
    seen                    \* layouts that were on the screen (history)

vars == <<page, wire, stored, seen>>

NoHash == 0

Init ==
    /\ page = [phase |-> "closed", hash |-> NoHash, edits |-> 0, dirty |-> FALSE, conflict |-> FALSE]
    /\ wire = {}
    /\ stored = [hash |-> NoHash, edits |-> 0]
    /\ seen = {NoHash}

Ask(kind) ==
    /\ Cardinality(wire) < MaxWire
    /\ wire' = wire \union
         {[kind |-> kind, n |-> Min(1..MaxWire \ {r.n : r \in {q \in wire : q.kind = kind}}),
           hash |-> page.hash, edits |-> page.edits, status |-> "asked"]}

Shown(p, r) == [p EXCEPT !.hash = r.hash, !.edits = r.edits]

-----------------------------------------------------------------------------
(* Opening: the page waits for the workbook, which may never come.         *)

InitSpreadComponent ==
    /\ page.phase = "closed"
    /\ page' = [page EXCEPT !.phase = "waiting"]
    /\ UNCHANGED <<wire, stored, seen>>

WorkbookReady ==
    /\ page.phase = "waiting"
    /\ Ask("open")
    /\ page' = [page EXCEPT !.phase = "opening"]
    /\ UNCHANGED <<stored, seen>>

WorkbookTimeout ==
    /\ page.phase = "waiting"
    /\ page' = [page EXCEPT !.phase = "failed"]
    /\ UNCHANGED <<wire, stored, seen>>

(* The bundle is there; when it is refused the layout alone is asked for.  *)
OpenReportBundle(r) ==
    /\ r.kind = "open" /\ r.status = "done"
    /\ page' = [Shown(page, r) EXCEPT !.phase = "loading"]
    /\ seen' = seen \union {r.hash}
    /\ wire' = wire \ {r}
    /\ UNCHANGED stored

FallBack(r) ==
    /\ r.kind = "open" /\ r.status = "failed"
    /\ wire' = (wire \ {r}) \union {[r EXCEPT !.kind = "layout", !.status = "asked"]}
    /\ UNCHANGED <<page, stored, seen>>

(* A layout that cannot be read leaves the skeleton on the screen, and the *)
(* hash as it was.                                                         *)
LoadLayout(r) ==
    /\ r.kind = "layout" /\ r.status # "asked"
    /\ LET loaded == IF r.status = "failed" THEN page ELSE Shown(page, r)
       IN  page' = [loaded EXCEPT !.conflict = FALSE,
                       !.phase = IF @ = "opening" THEN "loading" ELSE @]
    /\ seen' = IF r.status = "failed" THEN seen ELSE seen \union {r.hash}
    /\ wire' = wire \ {r}
    /\ UNCHANGED stored

(* The loading flag falls a moment after the layout is there.              *)
LoadingEnds ==
    /\ page.phase = "loading"
    /\ page' = [page EXCEPT !.phase = "ready"]
    /\ UNCHANGED <<wire, stored, seen>>

(* The page goes with its requests; the service may still execute a save.  *)
Close ==
    /\ page.phase \in {"ready", "failed"}
    /\ page' = [phase |-> "closed", hash |-> NoHash, edits |-> 0, dirty |-> FALSE, conflict |-> FALSE]
    /\ wire' = {} /\ seen' = {NoHash}
    /\ UNCHANGED stored

-----------------------------------------------------------------------------

Onscreen == page.phase \in {"loading", "ready"}

(* An edit of a cell or of its size, seen by the events of the workbook.   *)
EditWorkbook ==
    /\ Onscreen /\ page.edits < MaxEdits
    /\ page' = [page EXCEPT !.edits = @ + 1, !.dirty = (page.phase = "ready") \/ @]
    /\ UNCHANGED <<wire, stored, seen>>

(* An edit in the property pages marks the page whatever is going on.      *)
MarkDirty ==
    /\ Onscreen /\ page.edits < MaxEdits
    /\ page' = [page EXCEPT !.edits = @ + 1, !.dirty = TRUE]
    /\ UNCHANGED <<wire, stored, seen>>

(* The save button, or the portal's "save before closing".                 *)
SaveLayout ==
    /\ Onscreen /\ ~page.conflict
    /\ Ask("save")
    /\ UNCHANGED <<page, stored, seen>>

Saved(r) ==
    /\ r.kind = "save" /\ r.status = "done"
    /\ page' = [page EXCEPT !.hash = r.hash, !.dirty = FALSE]
    /\ seen' = seen \union {r.hash}
    /\ wire' = wire \ {r}
    /\ UNCHANGED stored

(* A refusal is shown; only a conflict, once read, loads the layout again. *)
PresentRptError(r) ==
    /\ r.kind = "save" /\ r.status \in {"failed", "conflict"}
    /\ page' = [page EXCEPT !.conflict = (r.status = "conflict")]
    /\ wire' = (wire \ {r}) \union
         IF r.status = "conflict" THEN {[r EXCEPT !.kind = "layout", !.status = "asked"]} ELSE {}
    /\ UNCHANGED <<stored, seen>>

-----------------------------------------------------------------------------
(* The service, and another designer.                                      *)

(* A hash that is not that of the stored layout is refused.  A save        *)
(* without a hash, of a page that could not load the layout, may be either.*)
Accepts(r) == r.hash \in {stored.hash, NoHash} /\ stored.hash < MaxVersions
Refuses(r) == r.hash # stored.hash \/ stored.hash = MaxVersions

Done(r) == wire' = (wire \ {r}) \union {[r EXCEPT !.status = "done", !.hash = stored'.hash, !.edits = stored'.edits]}

Serve(r) ==
    /\ r.status = "asked"
    /\ \/ r.kind # "save" /\ UNCHANGED stored /\ Done(r)
       \/ r.kind = "save" /\ Accepts(r) /\ stored' = [hash |-> stored.hash + 1, edits |-> r.edits] /\ Done(r)
       \/ /\ r.kind = "save" /\ Refuses(r)
          /\ wire' = (wire \ {r}) \union {[r EXCEPT !.status = "conflict"]}
          /\ UNCHANGED stored
    /\ UNCHANGED <<page, seen>>

Fail(r) ==
    /\ r.status = "asked"
    /\ wire' = (wire \ {r}) \union {[r EXCEPT !.status = "failed"]}
    /\ UNCHANGED <<page, stored, seen>>

OtherSave ==
    /\ stored.hash < MaxVersions
    /\ stored' = [hash |-> stored.hash + 1, edits |-> 0]
    /\ UNCHANGED <<page, wire, seen>>

-----------------------------------------------------------------------------

Answer(r) == OpenReportBundle(r) \/ FallBack(r) \/ LoadLayout(r) \/ Saved(r) \/ PresentRptError(r)

Next == \/ InitSpreadComponent \/ WorkbookReady \/ WorkbookTimeout \/ LoadingEnds \/ Close
        \/ EditWorkbook \/ MarkDirty \/ SaveLayout \/ OtherSave
        \/ \E r \in wire : Answer(r) \/ Serve(r) \/ Fail(r)

Spec == Init /\ [][Next]_vars

-----------------------------------------------------------------------------

Phases == {"closed", "waiting", "opening", "failed", "loading", "ready"}

(* The state keeps to its types.                                          *)
TypeOK ==
    /\ page.phase \in Phases /\ page.hash \in 0..MaxVersions /\ page.edits \in 0..MaxEdits
    /\ page.dirty \in BOOLEAN /\ page.conflict \in BOOLEAN
    /\ stored.hash \in 0..MaxVersions /\ seen \subseteq 0..MaxVersions

(* A save that carries a hash never replaces a layout the page has not had *)
(* on the screen or saved itself: what somebody else saved in between is   *)
(* met as a conflict and loaded first, whatever the order of the answers.  *)
NoBlindOverwriteStep ==
    \A r \in wire : (r.kind = "save" /\ r.hash # NoHash /\ Serve(r) /\ stored' # stored) => stored.hash \in seen
NoBlindOverwrite == [][NoBlindOverwriteStep]_vars

-----------------------------------------------------------------------------
(* Wanted of the page, and not met by the code: README.md, section 7.      *)

(* Nor does a save without one: after loads that failed the skeleton can   *)
(* be edited and saved, and nothing on the page holds it back.             *)
NoSaveUnseen ==
    [][\A r \in wire : (r.kind = "save" /\ Serve(r) /\ stored' # stored) => stored.hash \in seen]_vars

(* A page without the mark of unsaved edits shows what was loaded or saved *)
(* under its hash.                                                         *)
CleanMeansSaved ==
    (page.phase = "ready" /\ ~page.dirty /\ page.hash = stored.hash) => page.edits = stored.edits
=============================================================================
