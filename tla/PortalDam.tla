------------------------------- MODULE PortalDam -------------------------------
(***************************************************************************)
(* The registry of domains, applications and modules                       *)
(* (registry-center.js).  The key of a record is its path, a domain's of   *)
(* length 1, an application's 2, a module's 3; a kind is that length.  The *)
(* page keeps one filter, one chosen key for each kind, and one draft for  *)
(* each kind, which is what its form shows and what saving sends.          *)
(***************************************************************************)
EXTENDS PageRequests, SequencesExt

CONSTANTS Ids, NewId,     \* the ids of records; the id a new draft has, which is empty in the code
          Initial,        \* the records there are
          MaxNames,       \* what else is in a record: its name, as a number
          MaxChanges, MaxWire

Kinds == 1..3
Keys == UNION {[1..n -> Ids] : n \in Kinds}
NoKey == <<>>

DamAssumption == Initial \subseteq Keys /\ {MaxNames, MaxWire} \subseteq Nat \ {0} /\ MaxChanges \in Nat

VARIABLES page, wire, srv

vars == <<page, wire, srv>>

(* A draft: the record it was made from, the key its fields spell, a name. *)
NoDraft == [of |-> NoKey, key |-> NoKey, name |-> 0]

Init ==
    /\ page = [registry |-> {}, kind |-> 3, selected |-> NoKey, keys |-> [k \in Kinds |-> NoKey], filter |-> NoKey,
               drafts |-> [k \in Kinds |-> NoDraft], res |-> [of |-> NoKey, loading |-> FALSE], changes |-> 0]
    /\ wire = {[kind |-> "load", of |-> NoKey, draft |-> NoDraft, got |-> {}, n |-> 1, status |-> "asked"]}
    /\ srv = {[key |-> k, name |-> 0] : k \in Initial}

-----------------------------------------------------------------------------
(* Records.                                                                *)

KeysOf(p) == {r.key : r \in p.registry}

Of(p, kind) == {k \in KeysOf(p) : Len(k) = kind}

First(s) == CHOOSE k \in s : TRUE

Lists(p) == {k \in KeysOf(p) : IsPrefix(p.filter, k) \/ Len(k) = 1 \/ (Len(k) = 2 /\ IsPrefix(SubSeq(p.filter, 1, 1), k))}

FindItem(p, key) == CHOOSE r \in p.registry : r.key = key

DraftOf(p, key) ==
    IF key \in KeysOf(p) THEN [of |-> key, key |-> key, name |-> FindItem(p, key).name] ELSE NoDraft

(* A new draft lies in the domain and the application of the filter, or in *)
(* the first there are.                                                    *)
NewDraft(p, kind) ==
    LET base == IF Len(p.filter) >= kind - 1 THEN SubSeq(p.filter, 1, kind - 1)
                ELSE IF Of(p, kind - 1) = {} THEN NoKey ELSE First(Of(p, kind - 1))
    IN  [of |-> NoKey, key |-> Append(base, NewId), name |-> 0]

DraftFor(p, kind) == IF p.drafts[kind] = NoDraft THEN NewDraft(p, kind) ELSE p.drafts[kind]

-----------------------------------------------------------------------------
(* Selecting.  Choosing a domain or an application chooses the first of    *)
(* what is under it as well.                                               *)

FilterFrom(key) == SubSeq(key, 1, IF Len(key) > 2 THEN 2 ELSE Len(key))

SyncKeys(p) ==
    [p EXCEPT !.keys = [k \in Kinds |-> CASE k < 3 /\ Len(p.filter) >= k -> SubSeq(p.filter, 1, k)
                                          [] k < 3 /\ Len(p.filter) < k -> NoKey
                                          [] OTHER -> IF p.kind = 3 THEN p.selected ELSE NoKey]]

FirstUnder(p, key, kind) ==
    LET s == {k \in Of(p, kind) : IsPrefix(key, k)} IN IF s = {} THEN NoKey ELSE First(s)

SelectItem(p, key) ==
    LET app == IF Len(key) = 1 THEN FirstUnder(p, key, 2) ELSE SubSeq(key, 1, 2)
        filter == IF app = NoKey THEN key ELSE app
        mod == IF Len(key) = 3 THEN key ELSE FirstUnder(p, filter, 3)
        chosen == IF mod # NoKey THEN mod ELSE IF app # NoKey THEN app ELSE key
        keys == <<SubSeq(key, 1, 1), app, mod>>
    IN  [p EXCEPT !.filter = filter, !.keys = keys, !.kind = Len(chosen), !.selected = chosen,
                  !.drafts = [k \in Kinds |-> DraftOf(p, keys[k])]]

ReconcileSelection(p) ==
    LET q == SyncKeys(p)
    IN  IF p.selected \in Lists(p) /\ Len(p.selected) = p.kind
        THEN SyncKeys([q EXCEPT !.filter = FilterFrom(p.selected)])
        ELSE IF KeysOf(p) = {} THEN [q EXCEPT !.selected = NoKey]
        ELSE LET kind == Min({Len(k) : k \in KeysOf(p)}) IN SelectItem(q, First(Of(p, kind)))

May == page.changes < MaxChanges
Counted(p) == [p EXCEPT !.changes = @ + 1]

Select(key) == May /\ key \in Lists(page) /\ page' = SelectItem(Counted(page), key) /\ UNCHANGED <<wire, srv>>

StartNew(kind) ==
    /\ May
    /\ LET p == [Counted(page) EXCEPT !.kind = kind, !.selected = NoKey,
                                      !.filter = SubSeq(@, 1, IF kind = 3 THEN Len(@) ELSE Min({kind - 1, Len(@)})),
                                      !.keys = [k \in Kinds |-> IF k >= kind THEN NoKey ELSE @[k]]]
       IN  page' = [p EXCEPT !.drafts[kind] = NewDraft(p, kind)]
    /\ UNCHANGED <<wire, srv>>

(* The id can be typed over in every form, a new one's or not.             *)
Shown(p, kind) == DraftFor(p, kind)

EditName(kind) ==
    /\ May /\ Shown(page, kind).name < MaxNames
    /\ page' = [Counted(page) EXCEPT !.drafts[kind] = [Shown(page, kind) EXCEPT !.name = @ + 1]]
    /\ UNCHANGED <<wire, srv>>

EditId(kind, id) ==
    /\ May /\ Shown(page, kind).key # NoKey
    /\ page' = [Counted(page) EXCEPT !.drafts[kind] = [Shown(page, kind) EXCEPT !.key = Append(Front(@), id)]]
    /\ UNCHANGED <<wire, srv>>

-----------------------------------------------------------------------------
(* Loading, saving, deleting.                                              *)

Ask(kind, of, draft) ==
    /\ Room(wire, MaxWire)
    /\ wire' = Sent(wire, MaxWire, [kind |-> kind, of |-> of, draft |-> draft, got |-> {}])

Reload == May /\ Ask("load", NoKey, NoDraft) /\ page' = Counted(page) /\ UNCHANGED srv

LoadAnswer(r) ==
    /\ r.kind = "load" /\ r.status # "asked"
    /\ page' = IF r.status = "done" THEN ReconcileSelection([page EXCEPT !.registry = r.got]) ELSE page
    /\ wire' = wire \ {r} /\ UNCHANGED srv

(* What is sent is the draft; the record it goes to is the chosen one.     *)
SaveDraft(kind) ==
    /\ May /\ DraftFor(page, kind).key \in Keys
    /\ page.keys[kind] \in KeysOf(page) \union {NoKey}
    /\ Ask("save", page.keys[kind], DraftFor(page, kind))
    /\ page' = Counted(page) /\ UNCHANGED srv

Then(r, p) ==
    /\ page' = p
    /\ wire' = Sent(wire \ {r}, MaxWire, [kind |-> "load", of |-> NoKey, draft |-> NoDraft, got |-> {}])
    /\ UNCHANGED srv

SaveAnswer(r) ==
    /\ r.kind = "save" /\ r.status = "done"
    /\ LET key == r.draft.key
           p == SyncKeys([page EXCEPT !.selected = key, !.kind = Len(key), !.filter = FilterFrom(key)])
       IN  Then(r, [p EXCEPT !.keys[Len(key)] = key])

DeleteItem(key) == May /\ key \in Lists(page) /\ Ask("delete", key, NoDraft) /\ page' = Counted(page) /\ UNCHANGED srv

DeleteAnswer(r) ==
    /\ r.kind = "delete" /\ r.status = "done"
    /\ LET kind == Len(r.of)
           p == [page EXCEPT !.selected = IF @ = r.of THEN NoKey ELSE @,
                             !.keys[kind] = IF @ = r.of THEN NoKey ELSE @]
           under == kind < 3 /\ IsPrefix(r.of, page.filter)
       IN  Then(r, IF under THEN [p EXCEPT !.filter = SubSeq(@, 1, kind - 1),
                                           !.keys = [k \in Kinds |-> IF k > kind THEN NoKey ELSE @[k]]]
                   ELSE p)

FailedAnswer(r) ==
    /\ r.kind \in {"save", "delete"} /\ r.status = "failed"
    /\ wire' = wire \ {r} /\ UNCHANGED <<page, srv>>

-----------------------------------------------------------------------------
(* What is mounted for the chosen module, asked for when it is drawn and   *)
(* nothing else is being loaded.                                           *)

LoadResources ==
    /\ page.keys[3] \in KeysOf(page) /\ page.res.of # page.keys[3] /\ ~page.res.loading
    /\ page' = [page EXCEPT !.res = [of |-> page.keys[3], loading |-> TRUE]] /\ UNCHANGED <<wire, srv>>

ResourcesAnswer == page.res.loading /\ page' = [page EXCEPT !.res.loading = FALSE] /\ UNCHANGED <<wire, srv>>

-----------------------------------------------------------------------------
(* The registry service.  An update does not carry the key.                *)

Put(s, key, name) == {r \in s : r.key # key} \union {[key |-> key, name |-> name]}

Serve(r) ==
    /\ r.status = "asked"
    /\ srv' = CASE r.kind = "save" -> Put(srv, IF r.of = NoKey THEN r.draft.key ELSE r.of, r.draft.name)
                [] r.kind = "delete" -> {x \in srv : x.key # r.of}
                [] OTHER -> srv
    /\ wire' = Settled(wire, r, [r EXCEPT !.status = "done", !.got = IF r.kind = "load" THEN srv ELSE {}])
    /\ UNCHANGED page

Refuse(r) == r.status = "asked" /\ wire' = Refused(wire, r) /\ UNCHANGED <<page, srv>>

Answer(r) == LoadAnswer(r) \/ SaveAnswer(r) \/ DeleteAnswer(r) \/ FailedAnswer(r)

Next ==
    \/ Reload \/ LoadResources \/ ResourcesAnswer
    \/ \E key \in Keys : Select(key) \/ DeleteItem(key)
    \/ \E kind \in Kinds : StartNew(kind) \/ EditName(kind) \/ SaveDraft(kind) \/ \E id \in Ids : EditId(kind, id)
    \/ \E r \in wire : Answer(r) \/ Serve(r) \/ Refuse(r)

Spec == Init /\ [][Next]_vars

-----------------------------------------------------------------------------

(* The state keeps to its types.                                          *)
TypeOK ==
    /\ KeysOf(page) \subseteq Keys /\ page.filter \in Keys \union {NoKey} /\ Len(page.filter) <= 2
    /\ \A k \in Kinds : page.keys[k] = NoKey \/ Len(page.keys[k]) = k

(* The chosen domain and application are always those of the filter, by    *)
(* whichever way either was changed (114-165, 218-312, 374-430).           *)
KeysFollowFilter == \A k \in 1..2 : page.keys[k] = IF Len(page.filter) >= k THEN SubSeq(page.filter, 1, k) ELSE NoKey

-----------------------------------------------------------------------------
(* Wanted of the page, and not met by the code: README.md, section 7.      *)

(* What is saved under a record is a draft that was made from it.          *)
SavesWhatWasShown == \A r \in Pending(wire, {"save"}) : r.of = r.draft.of
=============================================================================
