------------------------------- MODULE FlowVars -------------------------------
(***************************************************************************)
(* The variables a process declares (definition-workbench.js): a tree of   *)
(* declarations that is edited beside the canvas, flattened into the paths *)
(* that conditions, handlers and trial runs offer, validated by the        *)
(* service and written into the file of the process with every save.       *)
(***************************************************************************)
EXTENDS PageRequests, Sequences, SequencesExt

CONSTANTS Keys, Names,
          MaxDecls, MaxChanges,   \* bounds: declarations in a list; loads and edits
          MaxWire                 \* bound: requests on the way

VarsAssumption == MaxDecls \in Nat /\ MaxChanges \in Nat /\ MaxWire \in Nat \ {0}

VARIABLES page, wire, srv

vars == <<page, wire, srv>>

Types == {"STRING", "OBJECT", "ARRAY"}

Policies == {"", "strict"}

Init ==
    /\ \E k \in Keys : page = [key |-> k, schema |-> << >>, policy |-> "", paths |-> {}, dirty |-> FALSE, error |-> FALSE, changes |-> 0]
    /\ wire = {}
    /\ srv = [k \in Keys |-> [schema |-> << >>, policy |-> ""]]

-----------------------------------------------------------------------------
(* Declarations.  A field has a name only; an element of an array is an    *)
(* object with fields, or a plain value.                                   *)

NewDecl == [name |-> "", type |-> "STRING", fields |-> << >>, item |-> "none"]

(* A change of the type drops what the new type does not have: the fields  *)
(* of an object are not those of an element.                               *)
NormalizeDecl(d) == [d EXCEPT !.fields = << >>, !.item = IF d.type = "ARRAY" THEN "OBJECT" ELSE "none"]

HasFields(d) == d.type = "OBJECT" \/ (d.type = "ARRAY" /\ d.item = "OBJECT")

Below(d) == IF d.type = "ARRAY" THEN d.name \o "[]" ELSE d.name

(* The paths of a declaration: nothing without a name has one.             *)
PathsOf(d) ==
    IF d.name = "" THEN {}
    ELSE {<<d.name, d.type>>} \union {<<Below(d), f>> : f \in IF HasFields(d) THEN ToSet(d.fields) \ {""} ELSE {}}

Flat(schema) == UNION {PathsOf(d) : d \in ToSet(schema)}

RecomputeVarPaths(p) == [p EXCEPT !.paths = Flat(p.schema)]

-----------------------------------------------------------------------------
(* The editor works on the declarations themselves.                        *)

Change(p) ==
    /\ page.changes < MaxChanges
    /\ page' = [p EXCEPT !.changes = @ + 1]
    /\ UNCHANGED <<wire, srv>>

AddDecl == Len(page.schema) < MaxDecls /\ Change([page EXCEPT !.schema = Append(@, NewDecl)])

SetName(i, n) == n # page.schema[i].name /\ Change(RecomputeVarPaths([page EXCEPT !.schema[i].name = n]))

SetType(i, t) ==
    /\ t # page.schema[i].type
    /\ Change(RecomputeVarPaths([page EXCEPT !.schema[i] = NormalizeDecl([@ EXCEPT !.type = t])]))

SetItemType(i, t) ==
    /\ page.schema[i].type = "ARRAY" /\ t # page.schema[i].item
    /\ Change(RecomputeVarPaths([page EXCEPT !.schema[i].item = t, !.schema[i].fields = IF t = "OBJECT" THEN @ ELSE << >>]))

AddField(i) ==
    /\ HasFields(page.schema[i]) /\ Len(page.schema[i].fields) < MaxDecls
    /\ Change([page EXCEPT !.schema[i].fields = Append(@, "")])

SetField(i, j, n) ==
    /\ HasFields(page.schema[i]) /\ n # page.schema[i].fields[j]
    /\ Change(RecomputeVarPaths([page EXCEPT !.schema[i].fields[j] = n]))

DeleteField(i, j) == HasFields(page.schema[i]) /\ Change(RecomputeVarPaths([page EXCEPT !.schema[i].fields = RemoveAt(@, j)]))

DeleteDecl(i) == Change(RecomputeVarPaths([page EXCEPT !.schema = RemoveAt(@, i)]))

SetPolicy(v) == v # page.policy /\ Change([page EXCEPT !.policy = v])

-----------------------------------------------------------------------------
(* "Save" of the editor: the service looks at the shape; the work becomes  *)
(* unsaved work when it agrees.                                            *)

Ask(kind, key) == Room(wire, MaxWire) /\ wire' = Sent(wire, MaxWire, [kind |-> kind, key |-> key, schema |-> page.schema, policy |-> page.policy])

SaveVarSchema ==
    /\ Pending(wire, {"validate"}) = {} /\ Ask("validate", page.key)
    /\ page' = RecomputeVarPaths(page) /\ UNCHANGED srv

Validated(r) ==
    /\ r.kind = "validate" /\ r.status # "asked"
    /\ page' = IF r.status = "done" THEN [page EXCEPT !.error = FALSE, !.dirty = TRUE] ELSE [page EXCEPT !.error = TRUE]
    /\ wire' = wire \ {r} /\ UNCHANGED srv

(* The file of a save carries the declarations of the moment.              *)
SaveDraft == Pending(wire, {"draft"}) = {} /\ Ask("draft", page.key) /\ UNCHANGED <<page, srv>>

Saved(r) ==
    /\ r.kind = "draft" /\ r.status # "asked"
    /\ page' = IF r.status = "done" THEN [page EXCEPT !.dirty = FALSE] ELSE page
    /\ wire' = wire \ {r} /\ UNCHANGED srv

(* The page asks about unsaved work and reads the declarations of a file.  *)
ReadVarSchema(p, k) ==
    RecomputeVarPaths([p EXCEPT !.key = k, !.schema = srv[k].schema, !.policy = srv[k].policy, !.dirty = FALSE])

LoadDef(k) == ~page.dirty /\ Change(ReadVarSchema(page, k))

-----------------------------------------------------------------------------
(* The service; it refuses names given twice.                              *)

GoodSchema(s) == \A i, j \in DOMAIN s : i # j => s[i].name # s[j].name

Serve(r) ==
    /\ r.status = "asked" /\ (r.kind = "validate" => GoodSchema(r.schema))
    /\ srv' = IF r.kind = "draft" THEN [srv EXCEPT ![r.key] = [schema |-> r.schema, policy |-> r.policy]] ELSE srv
    /\ wire' = Settled(wire, r, [r EXCEPT !.status = "done"])
    /\ UNCHANGED page

Refuse(r) == r.status = "asked" /\ wire' = Refused(wire, r) /\ UNCHANGED <<page, srv>>

Next == \/ AddDecl \/ SaveVarSchema \/ SaveDraft
        \/ \E i \in DOMAIN page.schema :
             \/ DeleteDecl(i) \/ AddField(i)
             \/ \E n \in Names \union {""} : SetName(i, n)
             \/ \E t \in Types : SetType(i, t)
             \/ \E t \in {"STRING", "OBJECT"} : SetItemType(i, t)
             \/ \E j \in DOMAIN page.schema[i].fields : DeleteField(i, j) \/ \E n \in Names \union {""} : SetField(i, j, n)
        \/ \E v \in Policies : SetPolicy(v)
        \/ \E k \in Keys : LoadDef(k)
        \/ \E r \in wire : Validated(r) \/ Saved(r) \/ Serve(r) \/ Refuse(r)

Spec == Init /\ [][Next]_vars

-----------------------------------------------------------------------------

(* The state keeps to its types.                                          *)
TypeOK ==
    /\ page.key \in Keys /\ page.policy \in Policies /\ Len(page.schema) <= MaxDecls
    /\ \A d \in ToSet(page.schema) : d.name \in Names \union {""} /\ d.type \in Types /\ d.item \in {"none", "STRING", "OBJECT"}

(* The paths that are offered are those of the declarations.               *)
PathsAreDeclared == page.paths = Flat(page.schema)

(* A declaration holds nothing its type does not have.                     *)
NoLeftovers == \A d \in ToSet(page.schema) : /\ d.fields # << >> => HasFields(d)
                                             /\ d.item = "none" <=> d.type # "ARRAY"

-----------------------------------------------------------------------------
(* Wanted of the page, and not met by the code: README.md, section 7.      *)

(* Declarations the service has not seen are unsaved work (2761-2763, F6): *)
(* they do not go without a question.                                      *)
NoSilentLoss ==
    [][\A k \in Keys : LoadDef(k) => [schema |-> page.schema, policy |-> page.policy] = srv[page.key]]_vars
=============================================================================
