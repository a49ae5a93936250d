------------------------------ MODULE FlowProperty ------------------------------
(***************************************************************************)
(* The property panel of the process design workbench                      *)
(* (definition-workbench.js): who handles a user task, how a task is       *)
(* approved, which subflow a call activity calls and with which variables, *)
(* the condition of a flow.  What is written goes through the command      *)
(* stack of the canvas.                                                    *)
(***************************************************************************)
EXTENDS Integers, Sequences, FiniteSets, SequencesExt, TLC

CONSTANTS None,
          MaxChanges,       \* bound: changes of the diagram
          MaxRows           \* bound: rows of a variable mapping

\* None is no kind of handler and no value of one.
PropertyAssumption == MaxChanges \in Nat /\ MaxRows \in Nat /\ None \notin {"user", "role", "initiator", "v"}

VARIABLES page, wire, srv

vars == <<page, wire, srv>>

Elements == {"task", "call", "flow"}

(* Kinds with a value to choose, and one without.                          *)
Kinds == {"user", "role", "initiator"}

(* A condition the rows can show, and one only the text box can.           *)
Simple == {"a > 1", "b > 1"}

Conditions == Simple \union {None, "(a > 1)"}

Names == {"x", "y"}

Slots == {"assignee", "groups", "candidates"}

NoHandler == [s \in Slots |-> None]

(* A diagram may come from elsewhere: a handler in the old slot, a mapped  *)
(* variable, any condition.                                                *)
Init ==
    /\ \E g \in {None, "v"}, c \in Conditions :
           page = [attrs |-> [handler |-> [NoHandler EXCEPT !["groups"] = g], loop |-> None, key |-> FALSE, element |-> FALSE,
                              text |-> FALSE, cond |-> c, rows |-> IF g = None THEN << >> ELSE <<"x">>],
                   past |-> << >>, selected |-> "task", kind |-> None, mode |-> None,
                   rows |-> None, advanced |-> FALSE]
    /\ wire = {}
    /\ srv = None

-----------------------------------------------------------------------------
(* The command stack of the canvas.  A loop or a timer is changed in       *)
(* place: the stack holds the changed object, and undo finds nothing to    *)
(* take back.                                                              *)

Do(attrs) ==
    /\ Len(page.past) < MaxChanges /\ attrs # page.attrs
    /\ page' = [page EXCEPT !.attrs = attrs, !.past = Append(@, page.attrs)]

InPlace(old, new) == old.loop # None /\ new.loop # None

Undo ==
    /\ page.past # << >>
    /\ LET old == Last(page.past)
       IN  page' = [page EXCEPT !.past = Front(@), !.attrs = IF InPlace(old, @) THEN [old EXCEPT !.loop = page.attrs.loop] ELSE old]
    /\ UNCHANGED <<wire, srv>>

-----------------------------------------------------------------------------
(* Selecting.  The rows of a condition are read once, when its flow is     *)
(* selected; a condition they cannot show is left to the text box.         *)

ParseCond(c) == IF c \in Simple THEN c ELSE None

Advanced(c) == c \notin Simple \union {None}

Select(e) ==
    /\ e # page.selected
    /\ page' = IF e # "flow" THEN [page EXCEPT !.selected = e]
               ELSE [page EXCEPT !.selected = e, !.rows = ParseCond(page.attrs.cond), !.advanced = Advanced(page.attrs.cond)]
    /\ UNCHANGED <<wire, srv>>

On(e) == page.selected = e

-----------------------------------------------------------------------------
(* A user task: who handles it.  The kind is read from what is written; as *)
(* long as nothing is, the kind the user chose last is shown.              *)

ReadKind(h) ==
    CASE h["assignee"] # None -> "user"
      [] h["assignee"] = None /\ h["groups"] # None -> "role"
      [] h["assignee"] = None /\ h["groups"] = None /\ h["candidates"] # None -> h["candidates"]
      [] OTHER -> "user"

ShownKind(p) == IF p.attrs.handler = NoHandler /\ p.kind # None THEN p.kind ELSE ReadKind(p.attrs.handler)

\* Mutant: one slot is written, the others are left.
WriteAssigneeAttrsOnly(slot, v) == [page.attrs EXCEPT !.handler[slot] = v]

(* All three slots are cleared before one is written.                      *)
WriteAssigneeAttrs(slot, v) == [page.attrs EXCEPT !.handler = [NoHandler EXCEPT ![slot] = v]]

SlotOf(k) == IF k = "user" THEN "assignee" ELSE "candidates"

SetAssigneeKind(k) ==
    /\ On("task") /\ Len(page.past) < MaxChanges
    /\ page' = [page EXCEPT !.kind = k, !.past = Append(@, page.attrs),
                            !.attrs = WriteAssigneeAttrs(SlotOf(k), IF k = "initiator" THEN k ELSE None)]
    /\ UNCHANGED <<wire, srv>>

ApplyAssigneeValue ==
    /\ On("task") /\ ShownKind(page) # "initiator"
    /\ LET k == ShownKind(page) IN Do(WriteAssigneeAttrs(SlotOf(k), IF k = "user" THEN "v" ELSE k))
    /\ UNCHANGED <<wire, srv>>

SetApprovalMode(m) == On("task") /\ Do([page.attrs EXCEPT !.loop = m]) /\ UNCHANGED <<wire, srv>>

(* Names, texts, delegates, messages, timers: written as they are typed.   *)
ApplyProp == Do([page.attrs EXCEPT !.text = ~@]) /\ UNCHANGED <<wire, srv>>

-----------------------------------------------------------------------------
(* A call activity: a fixed subflow or a logical name; the variables.      *)

SubMode(p) == IF p.mode # None THEN p.mode ELSE IF p.attrs.element /\ ~p.attrs.key THEN "fixed" ELSE "org"

SetSubflowMode(m) ==
    /\ On("call") /\ m # SubMode(page) /\ Len(page.past) < MaxChanges
    /\ page' = [page EXCEPT !.mode = m, !.past = Append(@, page.attrs),
                            !.attrs = IF m = "fixed" THEN [@ EXCEPT !.key = FALSE] ELSE [@ EXCEPT !.element = FALSE]]
    /\ UNCHANGED <<wire, srv>>

SetCalled ==
    /\ On("call")
    /\ Do(IF SubMode(page) = "fixed" THEN [page.attrs EXCEPT !.element = TRUE] ELSE [page.attrs EXCEPT !.key = TRUE])
    /\ UNCHANGED <<wire, srv>>

(* A row without a source is not written.                                  *)
SerializeVarMap(rows) == SelectSeq(rows, LAMBDA s : s # None)

WriteVarMap(rows) == [page.attrs EXCEPT !.rows = SerializeVarMap(rows)]

AddVarRow ==
    /\ On("call") /\ Len(page.past) < MaxChanges
    /\ page' = [page EXCEPT !.attrs = WriteVarMap(Append(page.attrs.rows, None)), !.past = Append(@, page.attrs)]
    /\ UNCHANGED <<wire, srv>>

DeleteVarRow(i) ==
    /\ On("call") /\ i \in DOMAIN page.attrs.rows
    /\ Do(WriteVarMap(RemoveAt(page.attrs.rows, i))) /\ UNCHANGED <<wire, srv>>

SetVarRow(i, x) ==
    /\ On("call") /\ i \in DOMAIN page.attrs.rows
    /\ Do(WriteVarMap([page.attrs.rows EXCEPT ![i] = x])) /\ UNCHANGED <<wire, srv>>

-----------------------------------------------------------------------------
(* A flow: its condition, in rows or as text.                              *)

SetCondMode(adv) ==
    /\ On("flow") /\ adv # page.advanced
    /\ page' = [page EXCEPT !.advanced = adv] /\ UNCHANGED <<wire, srv>>

TypeCondition(c) == On("flow") /\ page.advanced /\ Do([page.attrs EXCEPT !.cond = c]) /\ UNCHANGED <<wire, srv>>

(* Every change of a row writes all rows.                                  *)
EditRows(c) ==
    /\ On("flow") /\ ~page.advanced /\ c # page.rows /\ Len(page.past) < MaxChanges
    /\ page' = [page EXCEPT !.rows = c, !.attrs.cond = c, !.past = Append(@, page.attrs)]
    /\ UNCHANGED <<wire, srv>>

Next == \/ Undo \/ ApplyAssigneeValue \/ ApplyProp \/ SetCalled \/ AddVarRow
        \/ \E e \in Elements : Select(e)
        \/ \E k \in Kinds : SetAssigneeKind(k)
        \/ \E m \in {None, "parallel", "sequential"} : SetApprovalMode(m)
        \/ \E m \in {"org", "fixed"} : SetSubflowMode(m)
        \/ \E i \in 1..MaxRows : DeleteVarRow(i) \/ \E x \in Names \union {None} : SetVarRow(i, x)
        \/ \E b \in BOOLEAN : SetCondMode(b)
        \/ \E c \in Conditions : TypeCondition(c) \/ (c \notin {"(a > 1)"} /\ EditRows(c))

Spec == Init /\ [][Next]_vars

-----------------------------------------------------------------------------

(* The state keeps to its types.                                          *)
TypeOK ==
    /\ page.selected \in Elements /\ page.attrs.cond \in Conditions /\ page.attrs.loop \in {None, "parallel", "sequential"}
    /\ page.kind \in Kinds \union {None} /\ page.mode \in {None, "org", "fixed"} /\ page.rows \in Simple \union {None}

(* Whatever was written by whom, after a write of the panel a task has one *)
(* kind of handler only.                                                   *)
OneHandlerStep == page'.attrs.handler # page.attrs.handler =>
                 Cardinality({s \in Slots : page'.attrs.handler[s] # None}) <= 1
OneHandler == [][OneHandlerStep]_vars

(* The kind the user chose is the one shown, although nothing of it is     *)
(* written yet, and a value is written as one of the kind shown.           *)
ChosenKindStaysStep ==
    /\ \A k \in Kinds : SetAssigneeKind(k) => ShownKind(page') = k
    /\ ApplyAssigneeValue => ShownKind(page') = ShownKind(page)
ChosenKindStays == [][ChosenKindStaysStep]_vars

-----------------------------------------------------------------------------
(* Wanted of the page, and not met by the code: README.md, section 7.      *)

(* The rows show the condition the flow has.                               *)
RowsTellCondition == (On("flow") /\ ~page.advanced) => page.rows = page.attrs.cond

(* The button that adds a row adds one.                                    *)
RowIsAdded == [][AddVarRow => Len(page'.attrs.rows) = Len(page.attrs.rows) + 1]_vars

(* A call activity has one target.                                         *)
OneTarget == ~(page.attrs.key /\ page.attrs.element)

(* Undo takes back the last change.                                        *)
UndoRestores == [][Undo => page'.attrs = Last(page.past)]_vars
=============================================================================
