------------------------------ MODULE FlowDraft ------------------------------
(***************************************************************************)
(* Drafts in the process design workbench (definition-workbench.js).  One  *)
(* canvas holds the process that is being edited; a save stores it as the  *)
(* draft of the definition its process id names, guarded by the time stamp *)
(* of the draft that was loaded; a publication saves first.  While a draft *)
(* is edited the page takes part in its collaboration channel.             *)
(***************************************************************************)
EXTENDS PageRequests

CONSTANTS Keys, NewKey,     \* process ids, and the id of the blank diagram
          Stored, Began,    \* the stamps of the drafts before the page is opened (0: no
                            \* draft), and the last stamp given until then
          None,
          MaxStamp,         \* bound: drafts stored, by anybody
          MaxVersions,      \* bound: versions of a definition
          MaxWire           \* bound: requests on the way

DraftAssumption ==
    /\ NewKey \in Keys /\ MaxStamp \in Nat /\ MaxVersions \in Nat /\ MaxWire \in Nat \ {0} /\ Began \in 0..MaxStamp
    /\ Stored \in [Keys -> 0..Began] /\ Stored[NewKey] = 0 /\ \A j, k \in Keys : Stored[j] = Stored[k] /\ j # k => Stored[j] = 0

VARIABLES page, wire, srv

vars == <<page, wire, srv>>

Existing(drafts) == {k \in Keys : drafts[k] > 0}

(* Stamp 0: no draft; version 0 stands for the draft.  The first load of   *)
(* the list may have failed (what it leaves out is in FlowSubflow).        *)
Init ==
    /\ \E shown \in {{}, Existing(Stored)} :
           page = [selected |-> None, canvas |-> NewKey, shown |-> 0, base |-> 0,
                   collab |-> None, seen |-> [k \in Keys |-> 0], listed |-> shown]
    /\ wire = {}
    /\ srv = [clock |-> Began, drafts |-> Stored, versions |-> [k \in Keys |-> 0]]

Request(kind, k) == [kind |-> kind, key |-> k, version |-> 0, base |-> 0, stamp |-> 0]

(* The request that follows the answer to r.                               *)
Again(r, kind, k, version) == [r EXCEPT !.kind = kind, !.key = k, !.version = version, !.base = 0, !.stamp = 0, !.status = "asked"]

Ask(r) == Room(wire, MaxWire) /\ wire' = Sent(wire, MaxWire, r)

(* The list of definitions; one that cannot be loaded is empty.            *)
LoadDefs == Ask(Request("defs", NewKey)) /\ UNCHANGED <<page, srv>>

DefsLoaded(r) ==
    /\ r.kind = "defs" /\ r.status # "asked"
    /\ page' = [page EXCEPT !.listed = IF r.status = "done" THEN Existing(srv.drafts) ELSE {}]
    /\ wire' = wire \ {r} /\ UNCHANGED srv

(* What is loaded when no version is named: the one in force, here the     *)
(* last (the choice of versions is in FlowVersions).                       *)
DefVersion(k) == srv.versions[k]

-----------------------------------------------------------------------------
(* The canvas.  That unsaved work is asked about is in FlowVersions.       *)

OpenDiagram(p, k) == [p EXCEPT !.canvas = k]

LoadDef(k, v) ==
    /\ k \in page.listed /\ v \in 0..srv.versions[k]
    /\ Ask([Request("detail", k) EXCEPT !.version = v])
    /\ UNCHANGED <<page, srv>>

StartCollab(p, k, stamp) == [p EXCEPT !.collab = k, !.base = stamp]

StopCollab(p) == [p EXCEPT !.collab = None]

See(p, k, stamp) == [p EXCEPT !.seen[k] = Max({@, stamp})]

DetailAnswer(r) ==
    /\ r.kind = "detail" /\ r.status # "asked"
    /\ page' = IF r.status = "failed" THEN page
               ELSE LET p == OpenDiagram([page EXCEPT !.selected = r.key, !.shown = r.version], r.key)
                    IN  IF r.version = 0 THEN StartCollab(See(p, r.key, r.stamp), r.key, r.stamp) ELSE StopCollab(p)
    /\ wire' = wire \ {r} /\ UNCHANGED srv

NewDiagram ==
    /\ page.selected # None
    /\ page' = OpenDiagram([page EXCEPT !.selected = None], NewKey)
    /\ UNCHANGED <<wire, srv>>

(* A file whose process compiles; it may bear the id of any definition.    *)
DoImport(k) ==
    /\ page' = OpenDiagram([page EXCEPT !.selected = None, !.shown = 0], k)
    /\ page' # page /\ UNCHANGED <<wire, srv>>

-----------------------------------------------------------------------------
(* Saving and publishing.                                                  *)

DoSave == Ask([Request("save", page.canvas) EXCEPT !.base = page.base]) /\ UNCHANGED <<page, srv>>

DoPublish ==
    /\ page.selected # None
    /\ Ask([Request("silent", page.canvas) EXCEPT !.base = page.base])
    /\ UNCHANGED <<page, srv>>

(* The copy gets an id that no definition of the list has.                 *)
NewProcessId == {k \in Keys : k # NewKey /\ k \notin page.listed}

DoSaveAs ==
    /\ \E k \in NewProcessId : Ask(Request("saveAs", k))
    /\ page' = [page EXCEPT !.selected = None]
    /\ UNCHANGED srv

\* Mutant: the base is taken from the drafts as they are when the answer is read.
StoredDraftOfList(p, r) == [See(p, r.key, r.stamp) EXCEPT !.selected = r.key, !.base = srv.drafts[r.key]]

StoredDraft(p, r) == [See(p, r.key, r.stamp) EXCEPT !.selected = r.key, !.base = r.stamp]

(* What is stored is followed by a load of the list.                       *)
ListAgain(r) == IF r.status = "done" THEN Settled(wire, r, Again(r, "defs", r.key, 0)) ELSE wire \ {r}

Saved(r) ==
    /\ r.kind = "save" /\ r.status \in {"done", "failed"}
    /\ page' = IF r.status = "done" THEN StoredDraft(page, r) ELSE page
    /\ wire' = ListAgain(r) /\ UNCHANGED srv

SavedSilently(r) ==
    /\ r.kind = "silent" /\ r.status # "asked"
    /\ IF r.status = "done"
       THEN page' = StoredDraft(page, r) /\ wire' = Settled(wire, r, Again(r, "publish", r.key, 0))
       ELSE page' = page /\ wire' = wire \ {r}
    /\ UNCHANGED srv

SavedAs(r) ==
    /\ r.kind = "saveAs" /\ r.status # "asked"
    /\ page' = IF r.status = "done" THEN OpenDiagram([See(page, r.key, r.stamp) EXCEPT !.selected = r.key], r.key) ELSE page
    /\ wire' = ListAgain(r) /\ UNCHANGED srv

Published(r) ==
    /\ r.kind = "publish" /\ r.status # "asked"
    /\ page' = IF r.status = "done" THEN [page EXCEPT !.shown = r.version] ELSE page
    /\ wire' = ListAgain(r) /\ UNCHANGED srv

(* Somebody else stored a draft meanwhile: overwrite it, with its stamp as *)
(* the new base, or load the definition.                                   *)
Overwrite(r) ==
    /\ r.kind = "save" /\ r.status = "conflict"
    /\ page' = See([page EXCEPT !.base = r.stamp], r.key, r.stamp)
    /\ wire' = Settled(wire, r, [r EXCEPT !.key = page.canvas, !.base = r.stamp, !.status = "asked", !.stamp = 0])
    /\ UNCHANGED srv

LoadLatest(r) ==
    /\ r.kind = "save" /\ r.status = "conflict"
    /\ wire' = IF page.selected = None THEN wire \ {r}
               ELSE Settled(wire, r, Again(r, "detail", page.selected, DefVersion(page.selected)))
    /\ UNCHANGED <<page, srv>>

-----------------------------------------------------------------------------
(* The service.                                                            *)

Conflict(r) == r.kind \in {"save", "silent"} /\ r.base # 0 /\ srv.drafts[r.key] \notin {0, r.base}

Accepts(r) ==
    CASE r.kind \in {"detail", "defs"} -> TRUE
      [] r.kind = "publish" -> srv.versions[r.key] < MaxVersions
      [] OTHER -> srv.clock < MaxStamp

Store(k) == [srv EXCEPT !.clock = @ + 1, !.drafts[k] = srv.clock + 1]

Effect(r) ==
    CASE r.kind \in {"save", "silent", "saveAs"} -> Store(r.key)
      [] r.kind = "publish" -> [srv EXCEPT !.versions[r.key] = @ + 1]
      [] OTHER -> srv

Serve(r) ==
    /\ r.status = "asked" /\ ~Conflict(r) /\ Accepts(r)
    /\ srv' = Effect(r)
    /\ wire' = Settled(wire, r, [r EXCEPT !.status = "done", !.stamp = srv'.drafts[r.key],
                                          !.version = IF r.kind = "publish" THEN srv'.versions[r.key] ELSE @])
    /\ UNCHANGED page

TellConflict(r) ==
    /\ r.status = "asked" /\ Conflict(r)
    /\ wire' = Settled(wire, r, [r EXCEPT !.status = IF r.kind = "save" THEN "conflict" ELSE "failed",
                                          !.stamp = srv.drafts[r.key]])
    /\ UNCHANGED <<page, srv>>

Refuse(r) == r.status = "asked" /\ wire' = Refused(wire, r) /\ UNCHANGED <<page, srv>>

OtherSave(k) == srv.drafts[k] > 0 /\ srv.clock < MaxStamp /\ srv' = Store(k) /\ UNCHANGED <<page, wire>>

Answer(r) == \/ DefsLoaded(r) \/ DetailAnswer(r) \/ Saved(r) \/ SavedSilently(r) \/ SavedAs(r) \/ Published(r)
             \/ Overwrite(r) \/ LoadLatest(r)

Next == \/ LoadDefs \/ NewDiagram \/ DoSave \/ DoPublish \/ DoSaveAs
        \/ \E k \in Keys : DoImport(k) \/ OtherSave(k)
        \/ \E k \in Keys, v \in 0..MaxVersions : LoadDef(k, v)
        \/ \E r \in wire : Answer(r) \/ Serve(r) \/ TellConflict(r) \/ Refuse(r)

Spec == Init /\ [][Next]_vars

-----------------------------------------------------------------------------

(* The state keeps to its types.                                          *)
TypeOK ==
    /\ page.selected \in Keys \union {None} /\ page.canvas \in Keys /\ page.shown \in 0..MaxVersions
    /\ page.base \in 0..MaxStamp /\ page.collab \in Keys \union {None}
    /\ srv.drafts \in [Keys -> 0..srv.clock] /\ srv.clock \in 0..MaxStamp

(* Once the page has a base, it replaces the draft of a definition only    *)
(* when it is the newest one the page has loaded or stored, or was told    *)
(* of before the user chose to overwrite it.                               *)
NoBlindOverwriteStep ==
    \A r \in wire : (r.kind \in {"save", "silent"} /\ r.base # 0 /\ srv.drafts[r.key] # 0 /\ Serve(r))
                        => srv.drafts[r.key] = r.base /\ r.base <= page.seen[r.key]
NoBlindOverwrite == [][NoBlindOverwriteStep]_vars

-----------------------------------------------------------------------------
(* Wanted of the page, and not met by the code: README.md, section 7.      *)

(* The page takes part in the channel of the draft on its canvas only.     *)
CollabOnDraftOnly == page.collab # None => page.canvas = page.collab /\ page.shown = 0

(* An imported process does not replace an existing definition.            *)
ImportKeepsOthers ==
    [][\A r \in wire : (r.kind = "save" /\ r.base = 0 /\ Serve(r)) => srv.drafts[r.key] = 0]_vars

(* A copy does not replace an existing definition: the list may be empty.  *)
CopyKeepsOthers ==
    [][\A r \in wire : (r.kind = "saveAs" /\ Serve(r)) => srv.drafts[r.key] = 0]_vars
=============================================================================
