-------------------------------- MODULE DctTree --------------------------------
(***************************************************************************)
(* The dictionary data page (data-editor.js): going from one dictionary to *)
(* another, which is a chain of requests with the page usable in between,  *)
(* the tree beside the grid with its cache of children, and the search and *)
(* the conditions the grid is loaded with.                                 *)
(***************************************************************************)
EXTENDS PageRequests

CONSTANTS Dicts, Trees,     \* the dictionaries, and those that are a hierarchy
          DictOf, ParentOf, \* the dictionary and the parent of every node; Root for the first level
          Root, All, None,
          MaxChanges, MaxWire

TreeAssumption == Trees \subseteq Dicts /\ MaxChanges \in Nat /\ MaxWire \in Nat \ {0}

VARIABLES page, wire, srv

vars == <<page, wire, srv>>

Nodes == DOMAIN DictOf

Kids(there, d, parent) == {n \in there : DictOf[n] = d /\ ParentOf[n] = parent}

Request(kind, for, of, p) ==
    [kind |-> kind, for |-> for, of |-> of, dict |-> p.dict, parent |-> p.parent, q |-> p.q, cond |-> p.cond,
     then |-> "nothing", live |-> TRUE, answer |-> {}]

(* for is the dictionary a chain of requests was begun for, dict the one   *)
(* the page is on when a request of it is sent.                            *)
Fresh(d) ==
    [dict |-> d, meta |-> None, q |-> FALSE, cond |-> FALSE, conds |-> None, selected |-> All, parent |-> All,
     cache |-> {}, drawn |-> {}, open |-> {}, arrow |-> {}, grid |-> None, columns |-> None, rows |-> {}, changes |-> 0]

Init ==
    /\ \E d \in Dicts : page = Fresh(d) /\ wire = Sent({}, MaxWire, Request("meta", d, None, Fresh(d)))
    /\ srv = Nodes

May == page.changes < MaxChanges
Counted(p) == [p EXCEPT !.changes = @ + 1]
Free == Room(wire, MaxWire)
Quiet == UNCHANGED <<wire, srv>>
IsTree(p) == p.meta \in Trees

Cached(p, id) == \E c \in p.cache : c.of = id
InCache(p, id) == IF Cached(p, id) THEN (CHOOSE c \in p.cache : c.of = id).nodes ELSE {}
Put(p, id, nodes) == [p EXCEPT !.cache = {c \in @ : c.of # id} \union {[of |-> id, nodes |-> nodes]}]

-----------------------------------------------------------------------------
(* Loading the grid: the columns are built anew when the dictionary is     *)
(* another than the last one's.                                            *)

ApplyRowsToGrid(p, rows) ==
    [p EXCEPT !.rows = rows, !.columns = IF p.grid = p.dict THEN @ ELSE p.meta, !.grid = p.dict]

LoadThen(p, w, then) ==
    IF p.meta = None THEN w ELSE Sent(w, MaxWire, [Request("data", p.dict, None, p) EXCEPT !.then = then])

Load(p, w) == LoadThen(p, w, "nothing")

Reload ==
    /\ May /\ Free /\ page.meta # None
    /\ page' = Counted(page) /\ wire' = LoadThen(page, wire, "tree") /\ UNCHANGED srv

(* A search is over the whole dictionary whatever node is chosen.          *)
Search(q) ==
    /\ May /\ Free /\ q # page.q
    /\ LET p == [Counted(page) EXCEPT !.q = q]
       IN  page' = IF IsTree(p) THEN [p EXCEPT !.selected = All, !.parent = All] ELSE p
    /\ wire' = Load(page', wire) /\ UNCHANGED srv

(* A condition waits for the next search: changes may not have been saved. *)
ChangeCond == May /\ page.conds # None /\ page' = [Counted(page) EXCEPT !.cond = ~@] /\ Quiet

ClearCond ==
    /\ May /\ Free /\ (page.q \/ page.cond)
    /\ page' = [Counted(page) EXCEPT !.q = FALSE, !.cond = FALSE] /\ wire' = Load(page', wire) /\ UNCHANGED srv

-----------------------------------------------------------------------------
(* The tree.  A drawing of it throws away what hung on the one before.     *)

Unhooked(w) == {IF r.kind = "kids" THEN [r EXCEPT !.live = FALSE] ELSE r : r \in w}

RenderTree(p) == [p EXCEPT !.drawn = InCache(p, Root), !.open = {}, !.arrow = {}]

Visible(p) == p.drawn \union UNION {InCache(p, n) : n \in p.open}

SelectNode(n) ==
    /\ May /\ Free /\ n \in {All, Root} \union Visible(page) /\ n # page.selected /\ IsTree(page)
    /\ page' = [Counted(page) EXCEPT !.selected = n, !.parent = n] /\ wire' = Load(page', wire) /\ UNCHANGED srv

(* The arrow turns at once; the children come with the answer.             *)
Toggle(n) ==
    /\ May /\ n \in Visible(page)
    /\ LET p == Counted(page)
           kids == InCache(page, n)
       IN  CASE n \in p.arrow -> page' = [p EXCEPT !.arrow = @ \ {n}, !.open = @ \ {n}] /\ wire' = wire
             [] n \notin p.arrow /\ Cached(page, n) ->
                  page' = (IF kids = {} THEN p ELSE [p EXCEPT !.arrow = @ \union {n}, !.open = @ \union {n}]) /\ wire' = wire
             [] OTHER -> Free /\ page' = [p EXCEPT !.arrow = @ \union {n}] /\ wire' = Sent(wire, MaxWire, Request("kids", p.dict, n, p))
    /\ UNCHANGED srv

KidsAnswer(r) ==
    /\ r.kind = "kids" /\ r.status # "asked"
    /\ LET p == IF r.status = "done" THEN Put(page, r.of, r.answer) ELSE page
           kids == InCache(p, r.of)
       IN  page' = CASE ~r.live -> p
                     [] r.live /\ kids = {} -> [p EXCEPT !.arrow = @ \ {r.of}, !.open = @ \ {r.of}]
                     [] OTHER -> [p EXCEPT !.open = @ \union {r.of}]
    /\ wire' = wire \ {r} /\ UNCHANGED srv

(* After a deletion, a save, an import or a reload the tree is loaded      *)
(* again with all that was open in it.                                     *)
RefreshTree(p, w) ==
    IF ~IsTree(p) THEN page' = p /\ wire' = w
    ELSE /\ page' = [p EXCEPT !.cache = {}]
         /\ wire' = Sent(w, MaxWire, [Request("refresh", p.dict, None, p) EXCEPT !.answer = {[of |-> n, nodes |-> {}] : n \in p.arrow \union {Root}}])

Reopened(p, ids) ==
    LET first == {n \in ids \intersect p.drawn : InCache(p, n) # {}}
        all == first \union {n \in ids \intersect UNION {InCache(p, m) : m \in first} : InCache(p, n) # {}}
    IN  [p EXCEPT !.open = all, !.arrow = all]

RefreshAnswer(r) ==
    /\ r.kind = "refresh" /\ r.status # "asked"
    /\ IF r.status = "failed" THEN page' = page /\ wire' = wire \ {r}
       ELSE LET p == [page EXCEPT !.cache = {c \in @ : \A a \in r.answer : a.of # c.of} \union r.answer]
            IN  page' = Reopened(RenderTree(p), {a.of : a \in r.answer}) /\ wire' = Unhooked(wire \ {r})
    /\ UNCHANGED srv

DataAnswer(r) ==
    /\ r.kind = "data" /\ r.status # "asked"
    /\ LET p == IF r.status = "done" /\ page.meta # None THEN ApplyRowsToGrid(page, r.answer) ELSE page
       IN  IF r.then = "tree" THEN RefreshTree(p, wire \ {r}) ELSE page' = p /\ wire' = wire \ {r}
    /\ UNCHANGED srv

-----------------------------------------------------------------------------
(* Another dictionary: its metadata, the first level of its tree, the      *)
(* fields of its conditions, and then its rows.                            *)

SwitchDict(d) ==
    /\ May /\ Free /\ d # page.dict
    /\ page' = [Fresh(d) EXCEPT !.changes = page.changes + 1, !.drawn = page.drawn, !.open = page.open, !.arrow = page.arrow,
                                !.grid = page.grid, !.columns = page.columns, !.rows = page.rows]
    /\ wire' = Sent(wire, MaxWire, Request("meta", d, None, page')) /\ UNCHANGED srv

(* The conditions wait for the choices of the fields they are about.       *)
ToConds(p, w, for) == page' = p /\ wire' = Sent(w, MaxWire, Request("conds", for, p.meta, p))

MetaAnswer(r) ==
    /\ r.kind = "meta" /\ r.status # "asked"
    /\ IF r.status = "failed" THEN page' = page /\ wire' = wire \ {r}
       ELSE LET p == [page EXCEPT !.meta = r.for]
            IN  IF IsTree(p) THEN page' = p /\ wire' = Sent(wire \ {r}, MaxWire, Request("roots", r.for, Root, p))
                ELSE ToConds([p EXCEPT !.drawn = {}, !.open = {}, !.arrow = {}, !.grid = None, !.conds = None], Unhooked(wire \ {r}), r.for)
    /\ UNCHANGED srv

RootsAnswer(r) ==
    /\ r.kind = "roots" /\ r.status # "asked"
    /\ LET p == IF r.status = "done" THEN Put(page, Root, r.answer) ELSE page
       IN  IF p.meta = None THEN page' = p /\ wire' = wire \ {r}
           ELSE ToConds([RenderTree(p) EXCEPT !.grid = None, !.conds = None], Unhooked(wire \ {r}), r.for)
    /\ UNCHANGED srv

CondsAnswer(r) ==
    /\ r.kind = "conds" /\ r.status # "asked"
    /\ page' = [page EXCEPT !.conds = IF r.status = "done" THEN r.of ELSE None]
    /\ wire' = Load(page', wire \ {r}) /\ UNCHANGED srv

-----------------------------------------------------------------------------
(* The dictionary service.                                                 *)

Rows(r) == {n \in srv : DictOf[n] = r.dict /\ (r.parent = All \/ ParentOf[n] = r.parent)}

Serve(r) ==
    /\ r.status = "asked"
    /\ wire' = Settled(wire, r, [r EXCEPT !.status = "done", !.answer =
                 CASE r.kind = "data" -> Rows(r)
                   [] r.kind \in {"kids", "roots"} -> Kids(srv, r.dict, r.of)
                   [] r.kind = "refresh" -> {[of |-> a.of, nodes |-> Kids(srv, r.dict, a.of)] : a \in @}
                   [] OTHER -> @])
    /\ UNCHANGED <<page, srv>>

Refuse(r) == r.status = "asked" /\ wire' = Refused(wire, r) /\ UNCHANGED <<page, srv>>

Removed(n) == May /\ n \in srv /\ Kids(srv, DictOf[n], n) = {} /\ srv' = srv \ {n} /\ page' = Counted(page) /\ UNCHANGED wire

Answer(r) ==
    DataAnswer(r) \/ KidsAnswer(r) \/ RefreshAnswer(r) \/ MetaAnswer(r) \/ RootsAnswer(r) \/ CondsAnswer(r)

Next ==
    \/ Reload \/ ChangeCond \/ ClearCond
    \/ \E q \in BOOLEAN : Search(q)
    \/ \E n \in Nodes \union {All, Root} : SelectNode(n)
    \/ \E n \in Visible(page) : Toggle(n)
    \/ \E d \in Dicts : SwitchDict(d)
    \/ \E n \in Nodes : Removed(n)
    \/ \E r \in wire : Serve(r) \/ Refuse(r) \/ Answer(r)

Spec == Init /\ [][Next]_vars

-----------------------------------------------------------------------------

(* The state keeps to its types.                                          *)
TypeOK ==
    /\ page.dict \in Dicts /\ {page.meta, page.conds, page.columns} \subseteq Dicts \union {None}
    /\ page.selected \in Nodes \union {All, Root} /\ page.drawn \union page.open \union page.arrow \subseteq Nodes
    /\ \A r \in wire : r.status \in Statuses

(* An open arrow has children under it or a request for them under way,    *)
(* through every switch, refresh and failed load (1224-1236, 1264-1280).   *)
ArrowsHaveChildren ==
    \A n \in page.arrow : n \in page.open \/ \E r \in Pending(wire, {"kids"}) : r.of = n /\ r.live

(* The node that is highlighted is the one the rows are asked for.         *)
HighlightIsAskedForStep ==
    \A r \in wire' \ wire : r.kind = "data" /\ r.status = "asked" => r.parent = page'.selected /\ r.dict = page'.dict
HighlightIsAskedFor == [][HighlightIsAskedForStep]_vars

-----------------------------------------------------------------------------
(* Wanted of the page, and not met by the code: README.md, section 7.      *)

(* Children are shown under an open arrow only.                            *)
ArrowTellsChildren == page.open \subseteq page.arrow

(* When nothing is on the way, the columns are of the dictionary the page  *)
(* is on (1283-1341).                                                      *)
MetaIsOfDict == wire = {} => page.meta \in {None, page.dict}

(* And so is the tree.                                                     *)
TreeIsOfDict == wire = {} => \A n \in page.drawn : DictOf[n] = page.dict
=============================================================================
