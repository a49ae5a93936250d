------------------------------ MODULE FlowCollab ------------------------------
(***************************************************************************)
(* Several people on one draft (definition-workbench.js).  Every page      *)
(* posts what it changes on its own canvas; the service numbers the        *)
(* operations and sends each to all pages, which replay those of others:   *)
(* values and places by the larger number, creations and removals by what  *)
(* is there.  Presence tells who is here and what each has selected.       *)
(***************************************************************************)
EXTENDS Integers, FiniteSets, FiniteSetsExt, Functions, TLC

CONSTANTS Peers, Nodes, Line,   \* pages; nodes of the diagram and a line between them all
          None,
          MayLose,              \* whether a post may be lost
          MaxChanges            \* bound: changes, selections, saves and departures

CollabAssumption == MaxChanges \in Nat /\ Line \notin Nodes /\ IsFiniteSet(Nodes)

VARIABLES page, wire, srv

vars == <<page, wire, srv>>

Elements == Nodes \union {Line}

Aspects == {"value", "place"}

Start == [e \in Elements |-> [there |-> e # Line, value |-> 0, place |-> 0]]

NothingSeen == [x \in Elements \X Aspects |-> 0]

(* wire: operations posted; each page has an inbox.  The stream keeps no   *)
(* order the page relies on.                                               *)
Init ==
    /\ page = [p \in Peers |-> [on |-> TRUE, doc |-> Start, seen |-> NothingSeen, inbox |-> {}, notice |-> FALSE, since |-> 0,
                                selection |-> None, waiting |-> FALSE, marks |-> {}]]
    /\ wire = {}
    /\ srv = [seq |-> 0, draft |-> Start, roster |-> [p \in Peers |-> None], changes |-> 0]

Op(p, kind, e, v) == [origin |-> p, kind |-> kind, element |-> e, value |-> v, seq |-> 0]

-----------------------------------------------------------------------------
(* A change of a canvas.  A node takes its line with it.                   *)

Goes(e) == IF e \in Nodes THEN {e, Line} ELSE {e}

Effect(doc, op) ==
    CASE op.kind = "create" -> [doc EXCEPT ![op.element].there = TRUE]
      [] op.kind = "remove" -> [e \in Elements |-> IF e \in Goes(op.element) THEN [doc[e] EXCEPT !.there = FALSE] ELSE doc[e]]
      [] op.kind = "value"  -> [doc EXCEPT ![op.element].value = op.value]
      [] op.kind = "place"  -> [doc EXCEPT ![op.element].place = op.value]

Possible(doc, op) ==
    CASE op.kind = "create" -> ~doc[op.element].there /\ (op.element = Line => \A e \in Nodes : doc[e].there)
      [] op.kind = "place"  -> doc[op.element].there /\ op.element \in Nodes
      [] OTHER -> doc[op.element].there

\* Mutant: replays are told as well.
BroadcastableAlways(p, applying) == page[p].on

(* What the canvas then tells: each element that came or went, a value or  *)
(* a place; nothing while an operation of another page is replayed.        *)
Broadcastable(p, applying) == page[p].on /\ ~applying

Told(p, op, applying) ==
    IF ~Broadcastable(p, applying) THEN {}
    ELSE IF op.kind = "remove" THEN {Op(p, "remove", e, 0) : e \in {e \in Goes(op.element) : page[p].doc[e].there}}
    ELSE {op}

Edit(p, kind, e) ==
    /\ srv.changes < MaxChanges
    /\ LET op == Op(p, kind, e, srv.changes + 1)
       IN  /\ Possible(page[p].doc, op)
           /\ page' = [page EXCEPT ![p].doc = Effect(@, op)]
           /\ wire' = wire \union Told(p, op, FALSE)
    /\ srv' = [srv EXCEPT !.changes = @ + 1]

(* The service numbers a posted operation and sends it to every page that  *)
(* listens; a post may fail, and nobody is told.                           *)
Number(op) ==
    /\ wire' = wire \ {op}
    /\ srv' = [srv EXCEPT !.seq = @ + 1]
    /\ page' = [p \in Peers |-> IF page[p].on THEN [page[p] EXCEPT !.inbox = @ \union {[op EXCEPT !.seq = srv.seq + 1]}]
                                ELSE page[p]]

LosePost(op) == MayLose /\ wire' = wire \ {op} /\ UNCHANGED <<page, srv>>

-----------------------------------------------------------------------------
(* Operations that arrive.                                                 *)

Newer(q, op) == op.kind \in Aspects => q.seen[<<op.element, op.kind>>] < op.seq

Noted(q, op) == IF op.kind \in Aspects THEN [q.seen EXCEPT ![<<op.element, op.kind>>] = Max({@, op.seq})] ELSE q.seen

(* A place is noted before the page looks whether the element is there, a  *)
(* value after.                                                            *)
Notes(q, op) == op.kind = "place" \/ q.doc[op.element].there

OnRemoteOp(p, op) ==
    LET q == [page[p] EXCEPT !.inbox = @ \ {op}]
    IN  /\ page' = [page EXCEPT ![p] =
                        IF op.origin = p THEN q
                        ELSE [q EXCEPT !.doc = IF Possible(q.doc, op) /\ Newer(q, op) THEN Effect(@, op) ELSE @,
                                       !.seen = IF Notes(q, op) THEN Noted(q, op) ELSE @]]
        /\ wire' = wire \union (IF op.origin # p /\ Possible(q.doc, op) /\ Newer(q, op) THEN Told(p, [op EXCEPT !.origin = p, !.seq = 0], TRUE) ELSE {})
        /\ UNCHANGED srv

-----------------------------------------------------------------------------
(* Drafts.  A page that loads the draft it already follows stays in its    *)
(* session; leaving the draft ends the session.                            *)

Save(p) ==
    /\ page[p].on /\ srv.draft # page[p].doc /\ srv.changes < MaxChanges
    /\ srv' = [srv EXCEPT !.draft = page[p].doc, !.changes = @ + 1]
    /\ page' = [q \in Peers |-> IF q # p /\ page[q].on THEN [page[q] EXCEPT !.notice = TRUE] ELSE page[q]]
    /\ UNCHANGED wire

Reload(p) ==
    /\ page[p].notice
    /\ page' = [page EXCEPT ![p].notice = FALSE, ![p].doc = srv.draft, ![p].since = srv.seq, ![p].selection = None]
    /\ UNCHANGED <<wire, srv>>

Dismiss(p) == page[p].notice /\ page' = [page EXCEPT ![p].notice = FALSE] /\ UNCHANGED <<wire, srv>>

Marks(p, roster) == {roster[q] : q \in Peers \ {p}} \ {None}

(* Every change of the roster goes to all who listen.                      *)
Present(pages, roster) ==
    [p \in Peers |-> IF pages[p].on THEN [pages[p] EXCEPT !.marks = {e \in Marks(p, roster) : pages[p].doc[e].there}] ELSE pages[p]]

StopCollab(p) ==
    /\ page[p].on /\ srv.changes < MaxChanges
    /\ srv' = [srv EXCEPT !.roster[p] = None, !.changes = @ + 1]
    /\ page' = Present([page EXCEPT ![p].on = FALSE, ![p].inbox = {}, ![p].notice = FALSE, ![p].waiting = FALSE,
                                    ![p].marks = {}], srv'.roster)
    /\ UNCHANGED wire

StartCollab(p) ==
    /\ ~page[p].on
    /\ srv' = [srv EXCEPT !.roster[p] = None]
    /\ page' = Present([page EXCEPT ![p].on = TRUE, ![p].doc = srv.draft, ![p].seen = NothingSeen, ![p].since = srv.seq,
                                    ![p].selection = None], srv'.roster)
    /\ UNCHANGED wire

-----------------------------------------------------------------------------
(* Selections are told after a pause, and with every heartbeat.            *)

Select(p, e) ==
    /\ srv.changes < MaxChanges /\ e # page[p].selection /\ (e = None \/ page[p].doc[e].there)
    /\ page' = [page EXCEPT ![p].selection = e, ![p].waiting = page[p].on]
    /\ srv' = [srv EXCEPT !.changes = @ + 1] /\ UNCHANGED wire

Announce(p) ==
    /\ srv' = [srv EXCEPT !.roster[p] = page[p].selection]
    /\ page' = Present([page EXCEPT ![p].waiting = FALSE], srv'.roster)
    /\ UNCHANGED wire

BroadcastSelection(p) == page[p].waiting /\ Announce(p)

Heartbeat(p) == page[p].on /\ srv.roster[p] # page[p].selection /\ Announce(p)

Next == \/ \E p \in Peers :
              \/ Save(p) \/ Reload(p) \/ Dismiss(p) \/ StopCollab(p) \/ StartCollab(p)
              \/ BroadcastSelection(p) \/ Heartbeat(p)
              \/ \E e \in Elements : Select(p, e) \/ \E kind \in Aspects \union {"create", "remove"} : Edit(p, kind, e)
              \/ \E op \in page[p].inbox : OnRemoteOp(p, op)
        \/ \E op \in wire : Number(op) \/ LosePost(op)

Spec == Init /\ [][Next]_vars

-----------------------------------------------------------------------------

(* The state keeps to its types.                                          *)
TypeOK ==
    /\ page \in [Peers -> [on : BOOLEAN, doc : [Elements -> [there : BOOLEAN, value : 0..MaxChanges, place : 0..MaxChanges]],
                           seen : [Elements \X Aspects -> 0..srv.seq], inbox : SUBSET [origin : Peers, kind : Aspects \union {"create", "remove"},
                           element : Elements, value : 0..MaxChanges, seq : 1..srv.seq], notice : BOOLEAN, since : 0..srv.seq,
                           selection : Elements \union {None}, waiting : BOOLEAN, marks : SUBSET Elements]]

(* A line never hangs in the air: on no page, whatever the order in which  *)
(* creations and removals of others arrive.                                *)
LinesHaveEnds == \A p \in Peers : page[p].doc[Line].there => \A e \in Nodes : page[p].doc[e].there

(* Replays are not posted again: the service numbers no more operations    *)
(* than the changes of the users tell (a node goes with its line).         *)
NoEchoStorm == srv.seq + Cardinality(wire) <= Cardinality(Elements) * srv.changes

(* When every operation has arrived, pages that have followed the draft    *)
(* from the start show the same values.                                    *)
Quiet == wire = {} /\ \A p \in Peers : page[p].on /\ page[p].inbox = {} /\ page[p].since = 0

LwwConverges ==
    Quiet => \A p, q \in Peers : \A e \in Nodes : (page[p].doc[e].there /\ page[q].doc[e].there) => page[p].doc[e].value = page[q].doc[e].value
=============================================================================
