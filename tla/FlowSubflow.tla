------------------------------ MODULE FlowSubflow ------------------------------
(***************************************************************************)
(* Editing a subflow in place (design-workbench.js).  The one canvas turns *)
(* from the main process to a subflow and back; the main diagram waits in  *)
(* the navigation record.  A subflow that depends on the organisation has  *)
(* a variant per binding, chosen or added in the side list; the dialog of  *)
(* bindings edits the same bindings.                                       *)
(***************************************************************************)
EXTENDS PageRequests

CONSTANTS Main, Keys,       \* the main definition, keys of subflows
          Unlisted,         \* definitions the list of the page leaves out
          Places, Default,  \* values of the dimension, among them the fallback
          None,
          MaxChanges,       \* bound: edits, saves and changes of bindings
          MaxWire           \* bound: requests on the way

SubflowAssumption == Main \notin Keys /\ Default \in Places /\ MaxChanges \in Nat /\ MaxWire \in Nat \ {0}

VARIABLES page, wire, srv

vars == <<page, wire, srv>>

(* of: the key of the diagram, None for the blank template; unsaved: it    *)
(* holds work no draft has; blank: it is a template the page filled in.    *)
Diagram(k) == [of |-> k, unsaved |-> FALSE, blank |-> FALSE]

Template(k) == [of |-> k, unsaved |-> FALSE, blank |-> TRUE]

NoBindings == [o \in Places |-> None]

(* What the list of definitions shows of the drafts: those that may be     *)
(* started.                                                                *)
Listed(drafts) == drafts \ Unlisted

(* frame: the end of a load waits for the next frame.  The first load of   *)
(* the list may have failed, or not have ended.                            *)
Init ==
    /\ wire = {}
    /\ \E k \in Keys : srv = [drafts |-> {Main, k}, bound |-> [NoBindings EXCEPT ![Default] = k]]
    /\ \E shown \in {{}, Listed(srv.drafts)} :
           page = [nav |-> None, canvas |-> Diagram(Main), selected |-> Main, dirty |-> FALSE, frame |-> FALSE,
                   dialog |-> FALSE, bindings |-> NoBindings, defs |-> shown, changes |-> 0]

InSubflow == page.nav # None

(* late: the page has gone back since; new: the record it left then aimed  *)
(* at something else than the diagram saved.                               *)
Ask(kind, k, o) == [kind |-> kind, key |-> k, place |-> o, late |-> FALSE, new |-> FALSE, blank |-> page.canvas.blank]

Send(p, kind, k, o) ==
    /\ Room(wire, MaxWire) /\ page' = p /\ wire' = Sent(wire, MaxWire, Ask(kind, k, o)) /\ UNCHANGED srv

Go(r, p, kind, k, o) ==
    /\ page' = p
    /\ wire' = Settled(wire, r, [r EXCEPT !.kind = kind, !.key = k, !.place = o, !.blank = page.canvas.blank, !.status = "asked"])

MayChange == page.changes < MaxChanges

Counted(p) == [p EXCEPT !.changes = @ + 1]

-----------------------------------------------------------------------------
(* The canvas.  The frame after a load takes the mark of unsaved work      *)
(* away; nobody edits before it.                                           *)

OpenDiagram(p, diagram) == [p EXCEPT !.canvas = diagram, !.frame = TRUE]

EditCanvas ==
    /\ MayChange /\ ~page.frame
    /\ page' = Counted([page EXCEPT !.canvas.unsaved = TRUE, !.dirty = TRUE])
    /\ UNCHANGED <<wire, srv>>

Frame == page.frame /\ page' = [page EXCEPT !.frame = FALSE, !.dirty = FALSE] /\ UNCHANGED <<wire, srv>>

(* The question before unsaved work is left; here the user agrees.         *)
Navigation == [target |-> None, place |-> None, main |-> page.canvas, mainKey |-> page.selected, mainDirty |-> page.dirty,
               variants |-> NoBindings]

OpenSubflow == ~InSubflow /\ Send([page EXCEPT !.nav = Navigation], "open", None, None)

BackToMain ==
    /\ InSubflow
    /\ page' = [OpenDiagram(page, page.nav.main) EXCEPT !.nav = None, !.selected = page.nav.mainKey, !.dirty = page.nav.mainDirty]
    /\ wire' = {[r EXCEPT !.late = TRUE, !.new = IF r.late THEN @ ELSE page.nav.target # r.key] : r \in wire}
    /\ UNCHANGED srv

-----------------------------------------------------------------------------
(* Loading a subflow.  A late answer finds the page back in the main       *)
(* process, and is shown there.                                            *)

AimAt(p, k) == IF p.nav = None THEN p ELSE [p EXCEPT !.nav.target = k, !.nav.place = None]

LoadSubflowNew(p, o) == [OpenDiagram(p, Template(None)) EXCEPT !.nav.target = None, !.nav.place = o, !.selected = None, !.dirty = FALSE]

Known(bound) == {bound[o] : o \in Places} \ {None}

(* The fallback first, else any variant, else the blank template.          *)
FirstVariant(bound) == IF bound[Default] # None THEN {bound[Default]} ELSE Known(bound)

VariantsAnswer(r) ==
    /\ r.kind = "open" /\ r.status # "asked"
    /\ LET bound == IF r.status = "done" THEN srv.bound ELSE NoBindings
           p     == IF InSubflow THEN [page EXCEPT !.nav.variants = bound] ELSE page
       IN  \/ /\ ~InSubflow /\ page' = page /\ wire' = wire \ {r}
           \/ /\ InSubflow /\ Known(bound) = {} /\ page' = LoadSubflowNew(p, None) /\ wire' = wire \ {r}
           \/ /\ InSubflow /\ \E k \in FirstVariant(bound) : Go(r, AimAt(p, k), "detail", k, None)
    /\ UNCHANGED srv

(* A definition that cannot be loaded is replaced by a template.           *)
SubLoaded(r) ==
    /\ r.kind = "detail" /\ r.status # "asked"
    /\ LET exists == r.status = "done" /\ r.key \in srv.drafts
       IN  page' = [OpenDiagram(page, IF exists THEN Diagram(r.key) ELSE Template(r.key))
                        EXCEPT !.selected = r.key, !.dirty = ~exists]
    /\ wire' = wire \ {r} /\ UNCHANGED srv

SelectSubVariant(k) == InSubflow /\ k \in Known(page.nav.variants) /\ Send(AimAt(page, k), "detail", k, None)

(* Only values that have no variant yet are offered.                       *)
SubNewVariantForOrg(o) ==
    /\ InSubflow /\ page.nav.variants[o] = None /\ MayChange
    /\ page' = Counted(LoadSubflowNew(page, o))
    /\ UNCHANGED <<wire, srv>>

-----------------------------------------------------------------------------
(* Saving.  A diagram that is not the one the page aims at gets a key that *)
(* the page does not list; what the page lists may be less than there is.  *)

FreeKeys == Keys \ page.defs

SubKeys ==
    LET c == page.canvas.of
    IN  IF c # None /\ (c = page.nav.target \/ c \notin page.defs) THEN {c} ELSE FreeKeys

SubSave ==
    /\ InSubflow /\ MayChange
    /\ \E k \in SubKeys : Send(Counted(page), "save", k, page.nav.place)

(* The variants are loaded again only in a subflow, the definitions always. *)
Reload(r, p, k) == Go(r, p, IF InSubflow THEN "variants" ELSE "defs", k, None)

(* The draft is stored: a new variant is bound to its value, the lists are *)
(* loaded again, and the new diagram as it was stored.                     *)
SubSaved(r) ==
    /\ r.kind = "save" /\ r.status # "asked"
    /\ IF r.status = "failed" THEN page' = page /\ wire' = wire \ {r}
       ELSE LET here  == InSubflow /\ ~r.late
                new   == IF here THEN page.nav.target # r.key ELSE r.new
                place == IF here THEN page.nav.place ELSE r.place
                p     == [page EXCEPT !.selected = r.key, !.dirty = FALSE,
                                      !.canvas.unsaved = IF r.late THEN @ ELSE FALSE,
                                      !.nav = IF here THEN [@ EXCEPT !.target = r.key] ELSE @]
            IN  IF new /\ place # None THEN Go(r, p, "bind", r.key, place)
                ELSE Reload(r, p, IF new THEN r.key ELSE None)
    /\ UNCHANGED srv

SubBound(r) ==
    /\ r.kind = "bind" /\ r.status # "asked"
    /\ IF r.status = "failed" THEN page' = page /\ wire' = wire \ {r}
       ELSE Reload(r, IF InSubflow /\ ~r.late THEN [page EXCEPT !.nav.place = None] ELSE page, r.key)
    /\ UNCHANGED srv

(* Without a record the list has nowhere to go, and the rest is left out.  *)
SubListed(r) ==
    /\ r.kind = "variants" /\ r.status # "asked"
    /\ IF ~InSubflow THEN page' = page /\ wire' = wire \ {r}
       ELSE Go(r, [page EXCEPT !.nav.variants = IF r.status = "done" THEN srv.bound ELSE NoBindings], "defs", r.key, None)
    /\ UNCHANGED srv

(* A list that cannot be loaded is empty.                                  *)
LoadDefs == ~InSubflow /\ Send(page, "defs", None, None)

DefsLoaded(r) ==
    /\ r.kind = "defs" /\ r.status # "asked"
    /\ LET p == [page EXCEPT !.defs = IF r.status = "done" THEN Listed(srv.drafts) ELSE {}]
       IN  IF r.key # None THEN Go(r, p, "reload", r.key, None) ELSE page' = p /\ wire' = wire \ {r}
    /\ UNCHANGED srv

(* What was stored is shown; if it cannot be loaded, the canvas stays.     *)
Reloaded(r) ==
    /\ r.kind = "reload" /\ r.status # "asked"
    /\ page' = IF r.status = "done" THEN [OpenDiagram(page, Diagram(r.key)) EXCEPT !.dirty = FALSE] ELSE page
    /\ wire' = wire \ {r} /\ UNCHANGED srv

-----------------------------------------------------------------------------
(* The dialog of the bindings of the main process' call activity.          *)

OpenBindingDialog ==
    /\ ~InSubflow /\ ~page.dialog
    /\ Send([page EXCEPT !.dialog = TRUE, !.bindings = NoBindings], "list", None, None)

CloseBindingDialog == page.dialog /\ page' = [page EXCEPT !.dialog = FALSE] /\ UNCHANGED <<wire, srv>>

BindingsListed(r) ==
    /\ r.kind = "list" /\ r.status # "asked"
    /\ page' = [page EXCEPT !.bindings = IF r.status = "done" THEN srv.bound ELSE NoBindings]
    /\ wire' = wire \ {r} /\ UNCHANGED srv

(* The target of a binding is a definition of the list, never the one that *)
(* is edited.  A binding that is shown is replaced only when the user      *)
(* agrees; here the user does not.                                         *)
Targets == page.defs \ {page.selected}

SaveBinding(o, k) ==
    /\ page.dialog /\ k \in Targets /\ page.bindings[o] \in {None, k} /\ MayChange
    /\ Send(Counted(page), "rebind", k, o)

DeleteBinding(o) == page.dialog /\ page.bindings[o] # None /\ MayChange /\ Send(Counted(page), "unbind", None, o)

BindingChanged(r) ==
    /\ r.kind \in {"rebind", "unbind"} /\ r.status # "asked"
    /\ IF r.status = "done" THEN Go(r, page, "list", None, None) ELSE page' = page /\ wire' = wire \ {r}
    /\ UNCHANGED srv

-----------------------------------------------------------------------------
(* The service.                                                            *)

Effect(r) ==
    CASE r.kind = "save" -> [srv EXCEPT !.drafts = @ \union {r.key}]
      [] r.kind \in {"bind", "rebind", "unbind"} -> [srv EXCEPT !.bound[r.place] = r.key]
      [] OTHER -> srv

Serve(r) ==
    /\ r.status = "asked" /\ srv' = Effect(r)
    /\ wire' = Settled(wire, r, [r EXCEPT !.status = "done"]) /\ UNCHANGED page

Refuse(r) == r.status = "asked" /\ wire' = Refused(wire, r) /\ UNCHANGED <<page, srv>>

Answer(r) == \/ VariantsAnswer(r) \/ SubLoaded(r) \/ SubSaved(r) \/ SubBound(r) \/ SubListed(r)
             \/ DefsLoaded(r) \/ Reloaded(r) \/ BindingsListed(r) \/ BindingChanged(r)

Next == \/ EditCanvas \/ Frame \/ OpenSubflow \/ BackToMain \/ SubSave \/ LoadDefs \/ OpenBindingDialog \/ CloseBindingDialog
        \/ \E k \in Keys \union {Main} : SelectSubVariant(k) \/ \E o \in Places : SaveBinding(o, k)
        \/ \E o \in Places : SubNewVariantForOrg(o) \/ DeleteBinding(o)
        \/ \E r \in wire : Answer(r) \/ Serve(r) \/ Refuse(r)

Spec == Init /\ [][Next]_vars

-----------------------------------------------------------------------------

(* The state keeps to its types.                                          *)
TypeOK ==
    /\ page.canvas.of \in Keys \union {Main, None} /\ page.selected \in Keys \union {Main, None}
    /\ page.nav # None => page.nav.target \in Keys \union {Main, None} /\ page.nav.variants \in [Places -> Keys \union {None, Main}]
    /\ page.defs \subseteq Keys \union {Main} /\ srv.drafts \subseteq Keys \union {Main} /\ srv.bound \in [Places -> Keys \union {None, Main}]

(* Whatever is saved, refused or late, a binding leads to a stored draft.  *)
BindingsLeadSomewhere == Known(srv.bound) \subseteq srv.drafts

-----------------------------------------------------------------------------
(* Wanted of the page, and not met by the code: README.md, section 7.      *)

(* Saving in a subflow, also while it is being loaded and the canvas still *)
(* shows the main process, is not aimed at the draft of the main process,  *)
(* unless the page shows that one as the target of a binding.              *)
MainKeepsItsDraft == [][(SubSave /\ page.nav.target # Main) => \A r \in wire' \ wire : r.key # Main]_vars

(* A save replaces no draft but the one the page aims at.                  *)
SaveKeepsOthers == [][\A r \in wire : (r.kind = "save" /\ ~r.late /\ Serve(r)) => r.key \notin srv.drafts \/ r.key = page.nav.target]_vars

(* No binding leads to the process that is edited: the list of targets     *)
(* leaves out what the page believes to be selected.                       *)
NeverItself == Main \notin Known(srv.bound)

(* Unsaved work in the main process is known as such after a visit to a    *)
(* subflow, so that the user is asked before it goes.                      *)
MainStaysDirty == (~InSubflow /\ ~page.frame /\ wire = {} /\ page.canvas.unsaved) => page.dirty

(* The page saves the diagram it says it edits.                            *)
SelectedIsCanvas == wire = {} => page.selected = page.canvas.of

(* A template shown for a definition that could not be loaded does not     *)
(* replace the draft of that definition.                                   *)
TemplateReplacesNothing == [][\A r \in wire : (r.kind = "save" /\ r.blank /\ Serve(r)) => r.key \notin srv.drafts]_vars

(* A binding is replaced only by a user who saw it.                        *)
OverwriteAsked == [][\A r \in wire : (r.kind = "rebind" /\ Serve(r)) => srv.bound[r.place] \in {None, r.key}]_vars
=============================================================================
