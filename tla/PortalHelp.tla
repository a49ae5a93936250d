------------------------------ MODULE PortalHelp ------------------------------
(***************************************************************************)
(* The help centre (center.js): a tree of topics, the document of the      *)
(* chosen one, going back and forward over what was read, and the context  *)
(* that is published for the assistant while a document is on the page.    *)
(***************************************************************************)
EXTENDS PageRequests, SequencesExt

CONSTANTS Topics, GroupOf,   \* the topics, and the folder of each
          LinksOf,           \* the topics a document links to
          First, None,
          MaxChanges, MaxWire

HelpAssumption == First \in Topics /\ None \notin Topics /\ MaxChanges \in Nat /\ MaxWire \in Nat \ {0}

VARIABLES page, wire, srv

vars == <<page, wire, srv>>

Groups == {GroupOf[t] : t \in Topics}

NoContext == [active |-> FALSE, of |-> None]

Init ==
    /\ page = [catalog |-> {}, selected |-> None, history |-> <<>>, histIndex |-> 0, doc |-> None, failed |-> FALSE, open |-> TRUE,
               context |-> NoContext, query |-> {}, expanded |-> Groups, all |-> TRUE, changes |-> 0]
    /\ wire = {[kind |-> "catalog", of |-> None, n |-> 1, status |-> "asked"]}
    /\ srv = 0

May == page.changes < MaxChanges
Counted(p) == [p EXCEPT !.changes = @ + 1]

-----------------------------------------------------------------------------
(* The tree.  A search shows what it finds with every folder open.         *)

FilteredCatalog(p) == IF p.query = {} THEN p.catalog ELSE p.catalog \intersect p.query

BuildTree(p) == {GroupOf[t] : t \in FilteredCatalog(p)}

IsExpanded(p, g) == p.query # {} \/ p.all \/ g \in p.expanded

(* Folders are all open until the first is toggled; then the folders that  *)
(* are in the tree are, but for that one.                                  *)
ToggleExpand(g) ==
    /\ May /\ g \in BuildTree(page)
    /\ LET keys == IF page.all THEN BuildTree(page) ELSE page.expanded
       IN  page' = [Counted(page) EXCEPT !.all = FALSE, !.expanded = IF g \in keys THEN keys \ {g} ELSE keys \union {g}]
    /\ UNCHANGED <<wire, srv>>

Search(q) == May /\ q # page.query /\ page' = [Counted(page) EXCEPT !.query = q] /\ UNCHANGED <<wire, srv>>

TreeTopics(p) == {t \in FilteredCatalog(p) : IsExpanded(p, GroupOf[t])}

-----------------------------------------------------------------------------
(* The document.                                                           *)

Publish(p) == [p EXCEPT !.context = [active |-> TRUE, of |-> p.doc]]

LoadDoc(w, t) == Sent(w, MaxWire, [kind |-> "doc", of |-> t])

DocAnswer(r) ==
    /\ r.kind = "doc" /\ r.status # "asked"
    /\ page' = Publish([page EXCEPT !.doc = IF r.status = "done" THEN r.of ELSE None, !.failed = r.status = "failed"])
    /\ wire' = wire \ {r} /\ UNCHANGED srv

PickInitial(p) == IF p.selected = None THEN [p EXCEPT !.selected = First] ELSE p

CatalogAnswer(r) ==
    /\ r.kind = "catalog" /\ r.status # "asked"
    /\ IF r.status = "failed" THEN page' = page /\ wire' = wire \ {r}
       ELSE LET p == PickInitial([page EXCEPT !.catalog = Topics])
            IN  /\ page' = IF p.history = <<>> THEN [p EXCEPT !.history = <<p.selected>>, !.histIndex = 1] ELSE p
                /\ wire' = IF p.doc = None THEN LoadDoc(wire \ {r}, p.selected) ELSE wire \ {r}
    /\ UNCHANGED srv

(* The page in the middle comes and goes; going, it takes the context back.*)
Close == May /\ page.open /\ page' = [Counted(page) EXCEPT !.open = FALSE, !.context = NoContext] /\ UNCHANGED <<wire, srv>>

Open ==
    /\ ~page.open /\ Room(wire, MaxWire)
    /\ page' = Publish([page EXCEPT !.open = TRUE])
    /\ wire' = Sent(wire, MaxWire, [kind |-> "catalog", of |-> None]) /\ UNCHANGED srv

-----------------------------------------------------------------------------
(* Going from topic to topic.                                              *)

\* Mutant: what was ahead in the history stays.
PushedUncut(p, t) == [p EXCEPT !.history = Append(@, t), !.histIndex = @ + 1]

Pushed(p, t) ==
    LET kept == SubSeq(p.history, 1, p.histIndex)
    IN  IF kept # <<>> /\ Last(kept) = t THEN [p EXCEPT !.history = kept]
        ELSE [p EXCEPT !.history = Append(kept, t), !.histIndex = Len(kept) + 1]

Navigate(p, t, push) ==
    IF t = p.selected /\ p.doc # None THEN page' = p /\ UNCHANGED <<wire, srv>>
    ELSE /\ Room(wire, MaxWire)
         /\ page' = [IF push THEN Pushed(p, t) ELSE p EXCEPT !.selected = t, !.failed = FALSE]
         /\ wire' = LoadDoc(wire, t) /\ UNCHANGED srv

SelectTopic(t) == May /\ t \in TreeTopics(page) /\ Navigate(Counted(page), t, TRUE)

FollowLink(t) == May /\ page.open /\ page.doc # None /\ t \in LinksOf[page.doc] /\ Navigate(Counted(page), t, TRUE)

CanGoBack(p) == p.histIndex > 1

CanGoForward(p) == p.histIndex >= 1 /\ p.histIndex < Len(p.history)

Go(step) ==
    /\ May /\ page.open /\ IF step = 1 THEN CanGoForward(page) ELSE CanGoBack(page)
    /\ Navigate([Counted(page) EXCEPT !.histIndex = @ + step], page.history[page.histIndex + step], FALSE)

Serve(r) == r.status = "asked" /\ wire' = Settled(wire, r, [r EXCEPT !.status = "done"]) /\ UNCHANGED <<page, srv>>

Refuse(r) == r.status = "asked" /\ wire' = Refused(wire, r) /\ UNCHANGED <<page, srv>>

Next ==
    \/ Close \/ Open \/ Go(-1) \/ Go(1)
    \/ \E g \in Groups : ToggleExpand(g)
    \/ \E q \in {{}} \union {{t} : t \in Topics} : Search(q)
    \/ \E t \in Topics : SelectTopic(t) \/ FollowLink(t)
    \/ \E r \in wire : DocAnswer(r) \/ CatalogAnswer(r) \/ Serve(r) \/ Refuse(r)

Spec == Init /\ [][Next]_vars

-----------------------------------------------------------------------------

(* The state keeps to its types.                                          *)
TypeOK ==
    /\ page.catalog \subseteq Topics /\ page.expanded \subseteq Groups
    /\ {page.selected, page.doc} \subseteq Topics \union {None}
    /\ page.histIndex \in 0..Len(page.history)

(* Back and forward behave like a browser's (260-261): the chosen topic is *)
(* the one the history is at, and no two neighbours in it are the same.    *)
HistoryTellsTopic ==
    /\ page.history # <<>> => page.history[page.histIndex] = page.selected
    /\ \A i \in 1..Len(page.history) - 1 : page.history[i] # page.history[i + 1]

-----------------------------------------------------------------------------
(* Wanted of the page, and not met by the code: README.md, section 7.      *)

(* When nothing is on the way the document is that of the chosen topic, or *)
(* it could not be read.                                                   *)
DocIsChosen == wire = {} => page.doc \in {None, page.selected}

(* The assistant is told of a document only while one is on the page       *)
(* (207-241, 721-728).                                                     *)
ContextWhileOpen == page.context.active => page.open

(* A click on a folder opens or closes that folder (138-145).              *)
OnlyThatFolder == [][\A g \in Groups : ToggleExpand(g) =>
    \A h \in Groups \ {g} : (page.all \/ h \in page.expanded) = (page'.all \/ h \in page'.expanded)]_vars
=============================================================================
