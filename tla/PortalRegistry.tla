---------------------------- MODULE PortalRegistry ----------------------------
(***************************************************************************)
(* The registry editor (registry-editor.js): a tree of keys with values,   *)
(* held by each window and written to the browser's storage a moment after *)
(* the last edit, beside roots that are built from the services and cannot *)
(* be edited.  A path is the sequence of names below the editable root;    *)
(* the read-only roots are one path of their own.                          *)
(***************************************************************************)
EXTENDS PageRequests, SequencesExt

CONSTANTS Windows,
          KeyNames, Hidden,      \* names of keys; those that start with "__"
          ValueNames, Types,
          MaxDepth, MaxChanges, MaxWire

RegistryAssumption == Hidden \subseteq KeyNames /\ Hidden # KeyNames /\ {MaxDepth, MaxWire} \subseteq Nat \ {0} /\ MaxChanges \in Nat

VARIABLES page, wire, srv

vars == <<page, wire, srv>>

Root == <<>>
RuntimeRoot == <<"HKEY_PORTAL_RUNTIME">>
Paths == UNION {[1..n -> KeyNames] : n \in 0..MaxDepth}
Values == [at : Paths, name : ValueNames, type : Types]

IsKeyNode(k) == k \notin Hidden

DefaultDb == [keys |-> {Root, <<CHOOSE k \in KeyNames : IsKeyNode(k)>>}, vals |-> {}]

Opened(db) == [db |-> db, path |-> Root, selected |-> "", search |-> FALSE, readonly |-> FALSE]

Init ==
    /\ page = [open |-> [w \in Windows |-> Opened(DefaultDb)], timer |-> {}, changes |-> 0]
    /\ wire = {[kind |-> "runtime", of |-> w, n |-> 1, status |-> "asked"] : w \in Windows}
    /\ srv = DefaultDb

-----------------------------------------------------------------------------
(* The tree.                                                               *)

GetNode(p, segs) == segs \in p.db.keys \/ (segs = RuntimeRoot /\ p.readonly)

ReadOnly(segs) == segs = RuntimeRoot

Under(segs, at) == IsPrefix(segs, at)

SubkeyNames(p, segs) == {k \in KeyNames : IsKeyNode(k) /\ Append(segs, k) \in p.db.keys}

(* The rows of the tree: a hidden key and what is under it have none.      *)
TreeRows(p) ==
    {s \in p.db.keys : \A i \in 1..Len(s) : IsKeyNode(s[i])} \union (IF p.readonly THEN {RuntimeRoot} ELSE {})

ValueEntries(p, segs) == {v \in p.db.vals : v.at = segs}

ValueRows(p) == IF p.search THEN {} ELSE ValueEntries(p, p.path)

SearchAll(p, name) ==
    {s \in TreeRows(p) : Contains(s, name)} \union {v.at : v \in {v \in p.db.vals : v.name = name /\ v.at \in TreeRows(p)}}

-----------------------------------------------------------------------------
(* Storing.  The timer is started again by every edit; the module's state  *)
(* outlives the page, so a timer that runs fires after a reopening too.    *)

Edit(w, p) ==
    /\ page.changes < MaxChanges
    /\ page' = [page EXCEPT !.open[w] = p, !.timer = @ \union {w}, !.changes = @ + 1]
    /\ UNCHANGED <<wire, srv>>

Quiet(w, p) == page' = [page EXCEPT !.open[w] = p] /\ UNCHANGED <<wire, srv>>

SaveDb(w) ==
    /\ w \in page.timer
    /\ srv' = page.open[w].db /\ page' = [page EXCEPT !.timer = @ \ {w}] /\ UNCHANGED wire

LoadDb == srv

Open(w) ==
    /\ page.changes < MaxChanges /\ Room(wire, MaxWire)
    /\ page' = [page EXCEPT !.open[w] = Opened(LoadDb), !.changes = @ + 1]
    /\ wire' = Sent(wire, MaxWire, [kind |-> "runtime", of |-> w]) /\ UNCHANGED srv

(* The read-only roots go before they are asked for again.                 *)
Refresh(w) ==
    /\ page.changes < MaxChanges /\ Room(wire, MaxWire)
    /\ page' = [page EXCEPT !.open[w].readonly = FALSE, !.changes = @ + 1]
    /\ wire' = Sent(wire, MaxWire, [kind |-> "runtime", of |-> w]) /\ UNCHANGED srv

(* An answer that cannot be read makes a root that says so.                *)
RuntimeAnswer(r) ==
    /\ r.status # "asked"
    /\ page' = [page EXCEPT !.open[r.of].readonly = TRUE] /\ wire' = wire \ {r} /\ UNCHANGED srv

Reset(w) ==
    /\ page.changes < MaxChanges
    /\ srv' = DefaultDb
    /\ page' = [page EXCEPT !.open[w] = [Opened(DefaultDb) EXCEPT !.readonly = page.open[w].readonly],
                            !.timer = @ \ {w}, !.changes = @ + 1]
    /\ UNCHANGED wire

-----------------------------------------------------------------------------
(* Getting about.                                                          *)

NavigateTo(p, segs) == IF GetNode(p, segs) THEN [p EXCEPT !.path = segs, !.selected = "", !.search = FALSE] ELSE p

ClickRow(w, segs) == segs \in TreeRows(page.open[w]) /\ Quiet(w, NavigateTo(page.open[w], segs))

TypeAddress(w, segs) == Quiet(w, NavigateTo(page.open[w], segs))

SelectValue(w, v) == v \in ValueRows(page.open[w]) /\ Quiet(w, [page.open[w] EXCEPT !.selected = v.name])

Search(w) == Quiet(w, [page.open[w] EXCEPT !.search = ~@])

JumpTo(w, name, segs) ==
    /\ page.open[w].search /\ segs \in SearchAll(page.open[w], name)
    /\ LET p == NavigateTo(page.open[w], segs)
       IN  Quiet(w, IF name \in ValueNames THEN [p EXCEPT !.selected = name] ELSE p)

-----------------------------------------------------------------------------
(* Keys.  The menu is that of a row of the tree or of the path.            *)

TreeMenu(w, segs) == segs \in TreeRows(page.open[w]) \union {page.open[w].path} /\ GetNode(page.open[w], segs) /\ ~ReadOnly(segs)

CreateKey(w, segs, k) ==
    /\ TreeMenu(w, segs) /\ Len(segs) < MaxDepth /\ Append(segs, k) \notin page.open[w].db.keys
    /\ Edit(w, [page.open[w] EXCEPT !.db.keys = @ \union {Append(segs, k)}])

Moved(at, segs, new) == IF Under(segs, at) THEN new \o SubSeq(at, Len(segs) + 1, Len(at)) ELSE at

(* The path goes to the key that was renamed.                              *)
RenameKey(w, segs, k) ==
    LET p == page.open[w]
        new == Append(Front(segs), k)
    IN  /\ TreeMenu(w, segs) /\ segs # Root /\ new \notin p.db.keys
        /\ Edit(w, [p EXCEPT !.db.keys = {Moved(s, segs, new) : s \in @},
                             !.db.vals = {[v EXCEPT !.at = Moved(@, segs, new)] : v \in @},
                             !.path = new])


DeleteKey(w, segs) ==
    LET p == page.open[w]
        q == [p EXCEPT !.db.keys = {s \in @ : ~Under(segs, s)}, !.db.vals = {v \in @ : ~Under(segs, v.at)}]
    IN  /\ TreeMenu(w, segs) /\ segs # Root
        /\ Edit(w, NavigateTo(q, Front(segs)))

-----------------------------------------------------------------------------
(* Values.                                                                 *)

SetValue(p, segs, name, type) ==
    [p EXCEPT !.db.vals = {v \in @ : ~(v.at = segs /\ v.name = name)} \union {[at |-> segs, name |-> name, type |-> type]}]

(* A new value may take a name that is there.                              *)
NewValue(w, segs, name, type) == TreeMenu(w, segs) /\ Edit(w, SetValue(page.open[w], segs, name, type))

EditValue(w, v) ==
    /\ v \in ValueRows(page.open[w]) /\ ~ReadOnly(page.open[w].path)
    /\ Edit(w, SetValue(page.open[w], v.at, v.name, v.type))

RenameValue(w, v, name) ==
    /\ v \in ValueRows(page.open[w]) /\ ~\E u \in ValueEntries(page.open[w], v.at) : u.name = name
    /\ Edit(w, [page.open[w] EXCEPT !.db.vals = (@ \ {v}) \union {[v EXCEPT !.name = name]}])

DeleteValue(w, v) == v \in ValueRows(page.open[w]) /\ Edit(w, [page.open[w] EXCEPT !.db.vals = @ \ {v}])

(* The Delete key works on the chosen name, whether it is still there.     *)
DeleteChosen(w) ==
    LET p == page.open[w]
    IN  /\ p.selected # "" /\ ~p.search /\ GetNode(p, p.path) /\ ~ReadOnly(p.path)
        /\ Edit(w, [p EXCEPT !.db.vals = {v \in @ : ~(v.at = p.path /\ v.name = p.selected)}, !.selected = ""])

-----------------------------------------------------------------------------
(* Import merges a tree into a key; hidden names and unknown types in it   *)
(* are left out.  Export is what import reads.                             *)

ExportSubtree(p, segs) ==
    [keys |-> {SubSeq(s, Len(segs) + 1, Len(s)) : s \in {s \in p.db.keys : Under(segs, s)}},
     vals |-> {[v EXCEPT !.at = SubSeq(@, Len(segs) + 1, Len(@))] : v \in {v \in p.db.vals : Under(segs, v.at)}}]

Clean(at) == \A i \in 1..Len(at) : IsKeyNode(at[i])

Merge(p, segs, obj) ==
    LET new == {[v EXCEPT !.at = segs \o @] : v \in {v \in obj.vals : Clean(v.at)}}
    IN  [p EXCEPT !.db.keys = @ \union {segs \o s : s \in {s \in obj.keys : Clean(s)}},
                  !.db.vals = {v \in @ : ~\E u \in new : u.at = v.at /\ u.name = v.name} \union new]

Copy(w, from, to) ==
    LET obj == ExportSubtree(page.open[w], from)
    IN  /\ from \in page.open[w].db.keys /\ TreeMenu(w, to) /\ from # to
        /\ \A s \in obj.keys : Len(to) + Len(s) <= MaxDepth
        /\ Edit(w, Merge(page.open[w], to, obj))

Serve(r) == r.status = "asked" /\ wire' = Settled(wire, r, [r EXCEPT !.status = "done"]) /\ UNCHANGED <<page, srv>>

Next == \E w \in Windows :
    \/ SaveDb(w) \/ Open(w) \/ Refresh(w) \/ Reset(w) \/ Search(w) \/ DeleteChosen(w)
    \/ \E s \in Paths \union {RuntimeRoot} :
          \/ ClickRow(w, s) \/ TypeAddress(w, s) \/ DeleteKey(w, s)
          \/ \E k \in KeyNames : CreateKey(w, s, k) \/ RenameKey(w, s, k)
          \/ \E n \in ValueNames \union KeyNames : JumpTo(w, n, s)
          \/ \E n \in ValueNames, t \in Types : NewValue(w, s, n, t)
    \/ \E v \in Values : SelectValue(w, v) \/ EditValue(w, v) \/ DeleteValue(w, v) \/ \E n \in ValueNames : RenameValue(w, v, n)
    \/ \E s, t \in Paths : Copy(w, s, t)
    \/ \E r \in wire : r.of = w /\ (Serve(r) \/ RuntimeAnswer(r))

Spec == Init /\ [][Next]_vars

-----------------------------------------------------------------------------

(* The state keeps to its types.                                          *)
TypeOK == \A w \in Windows :
    /\ page.open[w].db.keys \subseteq Paths /\ page.open[w].db.vals \subseteq Values
    /\ page.open[w].path \in Paths \union {RuntimeRoot}

(* Whatever is renamed, deleted, merged or typed, the path on the page is  *)
(* a key, or the read-only root (which may be on its way).                 *)
PathExists == \A w \in Windows : page.open[w].path \in page.open[w].db.keys \union {RuntimeRoot}

(* The tree has no loose ends: with a key its parents, with a value its    *)
(* key, and one value of a name.                                           *)
TreeIsWhole == \A w \in Windows :
    LET db == page.open[w].db
    IN  /\ \A s \in db.keys \ {Root} : Front(s) \in db.keys
        /\ \A v \in db.vals : v.at \in db.keys
        /\ \A u, v \in db.vals : u.at = v.at /\ u.name = v.name => u = v

-----------------------------------------------------------------------------
(* Wanted of the page, and not met by the code: README.md, section 7.      *)

(* Opening the page again brings back what was on it.                      *)
ReopenKeeps == [][\A w \in Windows : Open(w) => page'.open[w].db = page.open[w].db]_vars

(* Every key that exists can be seen (33, 229-231).                        *)
KeysAreSeen == \A w \in Windows : page.open[w].db.keys \subseteq TreeRows(page.open[w])

(* When the timers have run, a window shows what is stored (5-6).          *)
StoredIsShown == page.timer = {} => \A w \in Windows : page.open[w].db = srv

(* A value changes its type only by being deleted (676-689).               *)
TypesStay == [][\A w \in Windows : ~Reset(w) /\ ~Open(w) /\ page.open[w].path = page'.open[w].path =>
    \A u \in page.open[w].db.vals, v \in page'.open[w].db.vals : u.at = v.at /\ u.name = v.name => u.type = v.type]_vars
=============================================================================
