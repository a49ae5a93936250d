------------------------------ MODULE FlowLayout ------------------------------
(***************************************************************************)
(* The layout that the process workbench gives a process without a diagram *)
(* (definition-workbench.js, layoutXml).  The nodes are put into layers by *)
(* a breadth-first walk from the start events; a layer is a row, centred   *)
(* on one axis; every flow becomes a line between two boxes.  Nodes are    *)
(* numbered in the order of the document, their flows stand in that order. *)
(***************************************************************************)
EXTENDS Integers, Sequences, SequencesExt, FiniteSetsExt

CONSTANTS Kinds,       \* the kinds that each node may have: a sequence of sets
          Pairs        \* the flows there may be

LayoutAssumption == Kinds # << >> /\ Pairs \subseteq Nat \X Nat

VARIABLES page

Nodes == DOMAIN Kinds

Size == Len(Kinds)

Dim(kind) ==
    CASE kind \in {"startEvent", "endEvent"} -> [w |-> 36, h |-> 36]
      [] kind = "gateway"                    -> [w |-> 50, h |-> 50]
      [] OTHER                               -> [w |-> 100, h |-> 80]

(* A flow from or to something that is no node of the process is in the    *)
(* document, and stays without a line.                                     *)
Out(p, n) == {m \in Nodes : <<n, m>> \in p.flows}

NoIncoming(p) == {n \in Nodes : \A f \in p.flows : f[1] \in Nodes => f[2] # n}

Starts(p) == {n \in Nodes : p.kind[n] = "startEvent"}

Roots(p) == CASE Starts(p) # {} -> Starts(p)
              [] Starts(p) = {} /\ NoIncoming(p) # {} -> NoIncoming(p)
              [] OTHER -> {1}

InOrder(S) == SetToSortSeq(S, <)

Unranked == -1

(* `found` is the order in which the nodes got their first rank.           *)
Walk(kind, flows) ==
    LET p == [kind |-> kind, flows |-> flows, rank |-> [n \in Nodes |-> Unranked],
              queue |-> << >>, found |-> << >>, done |-> FALSE]
    IN  [p EXCEPT !.rank = [n \in Nodes |-> IF n \in Roots(p) THEN 0 ELSE Unranked],
                  !.queue = InOrder(Roots(p)), !.found = InOrder(Roots(p))]

Init == \E kind \in [Nodes -> UNION ToSet(Kinds)], flows \in SUBSET Pairs :
            /\ \A n \in Nodes : kind[n] \in Kinds[n]
            /\ page = Walk(kind, flows)

(* A longer way pushes a node down; it is walked from only once.  Cycles   *)
(* stop at as many layers as there are nodes.                              *)
Relax(n, p, m) ==
    LET nr  == p.rank[n] + 1
        new == p.rank[m] = Unranked
    IN  IF ~new /\ nr <= p.rank[m] THEN p
        ELSE [p EXCEPT !.rank[m] = Min({nr, Size}),
                       !.queue = IF new THEN Append(@, m) ELSE @,
                       !.found = IF new THEN Append(@, m) ELSE @]

Visit ==
    /\ page.queue # << >>
    /\ LET n == Head(page.queue)
       IN  page' = FoldLeft(LAMBDA p, m : Relax(n, p, m), [page EXCEPT !.queue = Tail(@)], InOrder(Out(page, n)))

(* What no start reaches stands in the first layer, after the starts.      *)
PlaceOrphans ==
    /\ page.queue = << >> /\ ~page.done
    /\ page' = [page EXCEPT !.done = TRUE,
                            !.rank = [n \in Nodes |-> Max({@[n], 0})],
                            !.found = @ \o InOrder(Nodes \ ToSet(@))]

Next == Visit \/ PlaceOrphans

Spec == Init /\ [][Next]_page

-----------------------------------------------------------------------------
(* The coordinates; all dimensions are even, so nothing is rounded.        *)

Layer(p, r) == SelectSeq(p.found, LAMBDA n : p.rank[n] = r)

Height(p, r) == Max({Dim(p.kind[n]).h : n \in ToSet(Layer(p, r))})

VGap == 120
HGap == 160
Axis == 260
Top == 40

(* Only layers that hold a node take room.                                 *)
Y(p, r) == Top + MapThenSumSet(LAMBDA q : Height(p, q) + VGap - 40, {q \in ToSet(p.rank) : q < r})

X(p, n) ==
    LET row == Layer(p, p.rank[n])
        i   == CHOOSE j \in DOMAIN row : row[j] = n
    IN  Axis + (2 * i - Len(row) - 1) * (HGap \div 2) - Dim(p.kind[n]).w \div 2

Box(p, n) == [x |-> X(p, n), y |-> Y(p, p.rank[n])] @@ Dim(p.kind[n])

(* From the bottom of the upper box to the top of the lower one, else from *)
(* side to side.                                                           *)
Line(a, b) ==
    IF b.y >= a.y + a.h
    THEN << [x |-> a.x + a.w \div 2, y |-> a.y + a.h], [x |-> b.x + b.w \div 2, y |-> b.y] >>
    ELSE << [x |-> IF b.x > a.x THEN a.x + a.w ELSE a.x, y |-> a.y + a.h \div 2],
            [x |-> IF b.x > a.x THEN b.x ELSE b.x + b.w, y |-> b.y + b.h \div 2] >>

Drawn(p) == {f \in p.flows : f[1] \in Nodes /\ f[2] \in Nodes}

-----------------------------------------------------------------------------

(* The state keeps to its types, and no node waits twice.                  *)
TypeOK ==
    /\ page.rank \in [Nodes -> Unranked..Size] /\ page.queue \in Seq(Nodes)
    /\ IsInjective(page.found) /\ ToSet(page.queue) \subseteq ToSet(page.found)

Disjoint(a, b) == a.x + a.w <= b.x \/ b.x + b.w <= a.x \/ a.y + a.h <= b.y \/ b.y + b.h <= a.y

(* The finished layout places every node, and no two boxes overlap,        *)
(* whatever the flows are: cycles, unreachable nodes, several starts.      *)
BoxesApart ==
    page.done =>
      LET box == [n \in Nodes |-> Box(page, n)]
      IN  /\ ToSet(page.found) = Nodes
          /\ \A n, m \in Nodes : n # m => Disjoint(box[n], box[m])

-----------------------------------------------------------------------------
(* Wanted of the page, and not met by the code: README.md, section 7.      *)

(* Where the flows make no circle, every flow goes down a layer.           *)
Acyclic(p) == \A S \in SUBSET Nodes \ {{}} : \E n \in S : Out(p, n) \intersect S = {}

FlowsGoDown == page.done /\ Acyclic(page) => \A f \in Drawn(page) : page.rank[f[1]] < page.rank[f[2]]
=============================================================================
