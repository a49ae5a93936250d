----------------------------- MODULE FlowVersions -----------------------------
(***************************************************************************)
(* The list of definitions and their versions (design-workbench.js): pages *)
(* and filters of the list, the version that is shown, the question before *)
(* unsaved work is discarded, and the dialog that puts a version in force  *)
(* or deletes one.                                                         *)
(***************************************************************************)
EXTENDS PageRequests, Sequences, SequencesExt

CONSTANTS Keys, ModuleOf,   \* definitions, in the order of the list, and the module of each
          PageSize,
          None,
          MaxChanges,       \* bound: versions put in force or deleted
          MaxWire           \* bound: requests on the way

VersionsAssumption == PageSize \in Nat \ {0} /\ MaxChanges \in Nat /\ MaxWire \in Nat \ {0}

VARIABLES page, wire, srv

vars == <<page, wire, srv>>

Modules == {ModuleOf[k] : k \in ToSet(Keys)}

Versions == 1..2

NoVersions == [k \in ToSet(Keys) |-> [versions |-> {}, active |-> 0]]

Init ==
    /\ page = [list |-> NoVersions, loading |-> FALSE, at |-> 0, filter |-> None,
               chosen |-> [k \in ToSet(Keys) |-> 0], selected |-> None, shown |-> 0,
               dirty |-> FALSE, dialog |-> None, changes |-> 0]
    /\ wire = {}
    /\ srv \in [ToSet(Keys) -> {[versions |-> Versions, active |-> 2]}]

Ask(kind, k, v) == Room(wire, MaxWire) /\ wire' = Sent(wire, MaxWire, [kind |-> kind, key |-> k, version |-> v])

-----------------------------------------------------------------------------
(* The list.                                                               *)

FilteredDefs(p) ==
    SelectSeq(Keys, LAMBDA k : p.list[k].versions # {} /\ p.filter \in {None, ModuleOf[k]})

\* Mutant: an empty list has no page.
PagesOfNone(p) == (Len(FilteredDefs(p)) + PageSize - 1) \div PageSize

Pages(p) == Max({1, (Len(FilteredDefs(p)) + PageSize - 1) \div PageSize})

(* A page number that a filter or a new list has left behind falls back.   *)
Clamped(p) == [p EXCEPT !.at = Min({@, Pages(p) - 1})]

PageDefs(p) ==
    LET all == FilteredDefs(p)
    IN  {all[i] : i \in p.at * PageSize + 1 .. Min({(p.at + 1) * PageSize, Len(all)})}

LoadDefs ==
    /\ Ask("defs", None, 0)
    /\ page' = [page EXCEPT !.loading = TRUE] /\ UNCHANGED srv

(* A list that cannot be loaded is empty.                                  *)
TakeDefs(p, r) ==
    [p EXCEPT !.at = IF r.status = "done" THEN 0 ELSE @, !.list = IF r.status = "done" THEN srv ELSE NoVersions]

DefsLoaded(r) ==
    /\ r.kind = "defs" /\ r.status # "asked"
    /\ page' = Clamped([TakeDefs(page, r) EXCEPT !.loading = FALSE])
    /\ wire' = wire \ {r} /\ UNCHANGED srv

SetFilter(m) ==
    /\ m # page.filter
    /\ page' = Clamped([page EXCEPT !.filter = m, !.at = 0])
    /\ UNCHANGED <<wire, srv>>

GotoDefPage(n) ==
    /\ ~page.loading /\ n # page.at /\ n \in 0..Pages(page) - 1
    /\ page' = [page EXCEPT !.at = n]
    /\ UNCHANGED <<wire, srv>>

(* The version of a definition: the one chosen here, the one in force, the *)
(* newest, else the draft.                                                 *)
DefVersion(p, k) ==
    IF p.chosen[k] # 0 THEN p.chosen[k]
    ELSE IF p.list[k].active # 0 THEN p.list[k].active ELSE Max(p.list[k].versions \union {0})

-----------------------------------------------------------------------------
(* The canvas.                                                             *)

EditCanvas == page.selected # None /\ ~page.dirty /\ page' = [page EXCEPT !.dirty = TRUE] /\ UNCHANGED <<wire, srv>>

(* The page asks before unsaved work goes; here the user agrees.           *)
LoadDef(k, v) ==
    /\ k \in PageDefs(page) \/ k = page.selected
    /\ Ask("detail", k, v) /\ UNCHANGED <<page, srv>>

ClickDef(k) == ~page.loading /\ k \in PageDefs(page) /\ LoadDef(k, DefVersion(page, k))

SwitchVersion(v) == page.selected # None /\ v \in page.list[page.selected].versions \union {0} /\ v # page.shown /\ LoadDef(page.selected, v)

DetailAnswer(r) ==
    /\ r.kind = "detail" /\ r.status # "asked"
    /\ page' = IF r.status = "failed" THEN page
               ELSE [page EXCEPT !.selected = r.key, !.shown = r.version, !.dirty = FALSE,
                                 !.chosen[r.key] = IF r.version # 0 THEN r.version ELSE @]
    /\ wire' = wire \ {r} /\ UNCHANGED srv

-----------------------------------------------------------------------------
(* The dialog of the versions.                                             *)

OpenVersionDialog ==
    /\ page.selected # None /\ page.dialog = None
    /\ page' = [page EXCEPT !.dialog = page.selected]
    /\ UNCHANGED <<wire, srv>>

CloseVersionDialog == page.dialog # None /\ page' = [page EXCEPT !.dialog = None] /\ UNCHANGED <<wire, srv>>

(* The version in force has no buttons.                                    *)
Others == page.list[page.dialog].versions \ {page.list[page.dialog].active}

Change(kind, v) ==
    /\ page.dialog # None /\ v \in Others /\ page.changes < MaxChanges
    /\ page' = [page EXCEPT !.changes = @ + 1]
    /\ Ask(kind, page.dialog, v) /\ UNCHANGED srv

ActivateVersion(v) == Change("activate", v)

DeleteVersion(v) == Change("delete", v)

(* The list is loaded again, and the version put in force is shown.        *)
Changed(r) ==
    /\ r.kind \in {"activate", "delete"} /\ r.status # "asked"
    /\ IF r.status = "failed" THEN page' = page /\ wire' = wire \ {r}
       ELSE /\ page' = [page EXCEPT !.loading = TRUE]
            /\ wire' = Settled(wire, r, [r EXCEPT !.kind = IF @ = "activate" THEN "defsAndShow" ELSE "defs", !.status = "asked"])
    /\ UNCHANGED srv

ListThenShow(r) ==
    /\ r.kind = "defsAndShow" /\ r.status # "asked"
    /\ page' = Clamped([TakeDefs(page, r) EXCEPT !.loading = FALSE, !.chosen[r.key] = r.version])
    /\ wire' = Settled(wire, r, [r EXCEPT !.kind = "detail", !.status = "asked"])
    /\ UNCHANGED srv

-----------------------------------------------------------------------------
(* The service; an answer of a list shows the service as it is then.       *)

Effect(r) ==
    CASE r.kind = "activate" -> [srv EXCEPT ![r.key].active = r.version]
      [] r.kind = "delete"   -> [srv EXCEPT ![r.key].versions = @ \ {r.version}]
      [] OTHER -> srv

Accepts(r) ==
    CASE r.kind = "activate" -> r.version \in srv[r.key].versions
      [] r.kind = "delete"   -> r.version \in srv[r.key].versions
      [] r.kind = "detail"   -> r.version \in srv[r.key].versions \union {0}
      [] OTHER -> TRUE

Serve(r) ==
    /\ r.status = "asked" /\ Accepts(r)
    /\ srv' = Effect(r)
    /\ wire' = Settled(wire, r, [r EXCEPT !.status = "done"])
    /\ UNCHANGED page

Refuse(r) == r.status = "asked" /\ wire' = Refused(wire, r) /\ UNCHANGED <<page, srv>>

Answer(r) == DefsLoaded(r) \/ DetailAnswer(r) \/ Changed(r) \/ ListThenShow(r)

Next == \/ LoadDefs \/ EditCanvas \/ OpenVersionDialog \/ CloseVersionDialog
        \/ \E m \in Modules \union {None} : SetFilter(m)
        \/ \E n \in 0..Len(Keys) : GotoDefPage(n)
        \/ \E k \in ToSet(Keys) : ClickDef(k)
        \/ \E v \in Versions \union {0} : SwitchVersion(v)
        \/ \E v \in Versions : ActivateVersion(v) \/ DeleteVersion(v)
        \/ \E r \in wire : Answer(r) \/ Serve(r) \/ Refuse(r)

Spec == Init /\ [][Next]_vars

-----------------------------------------------------------------------------

(* The state keeps to its types.                                          *)
TypeOK ==
    /\ page.selected \in ToSet(Keys) \union {None} /\ page.shown \in 0..2 /\ page.at \in Nat
    /\ \A k \in ToSet(Keys) : srv[k].versions \subseteq Versions /\ srv[k].active \in Versions

(* The list never shows an empty page while there are definitions to show. *)
PageIsFull == FilteredDefs(page) # << >> => PageDefs(page) # {}

-----------------------------------------------------------------------------
(* Wanted of the page, and not met by the code: README.md, section 7.      *)

(* The version that a click on a definition loads exists.                  *)
ChosenExists == wire = {} => \A k \in PageDefs(page) : DefVersion(page, k) \in srv[k].versions

(* The version in force is not deleted: the page leaves its button out,    *)
(* but from a list that may be of yesterday; the rest is the service's.    *)
ActiveExists == \A k \in ToSet(Keys) : srv[k].active \in srv[k].versions
=============================================================================
