------------------------------- MODULE MdmRequest -------------------------------
(***************************************************************************)
(* The form of a master data change request (mdm/cr-form.js): a chain of   *)
(* loads for every entry of the page, the step that looks for duplicates,  *)
(* the lines of the document with the deletions kept until the next save,  *)
(* saving and submitting, and the decisions of its approval.               *)
(***************************************************************************)
EXTENDS PageRequests

CONSTANTS Types, Keyed,        \* the document types; those with a step for the duplicates
          Stored, TypeOf,      \* the documents there are, and the type of each
          Begins,              \* the states they may be in
          New,                 \* numbers for documents to come
          RowIds, None, NoDoc,
          MaxSessions, MaxChanges, MaxWire

States == {"draft", "approving", "returned", "approved", "rejected", "aborted"}   \* returned: approving, at its sender

RequestAssumption ==
    /\ Keyed \subseteq Types /\ MaxSessions \in Nat /\ MaxChanges \in Nat /\ MaxWire \in Nat \ {0}
    /\ Begins \subseteq States /\ NoDoc \notin Stored \union New /\ None \notin States

VARIABLES page, wire, srv

vars == <<page, wire, srv>>

Docs == Stored \union New

Request(kind, of, p) ==
    [kind |-> kind, of |-> of, session |-> p.session, ins |-> {}, del |-> {}, base |-> FALSE, then |-> "nothing", doc |-> NoDoc, state |-> None, lines |-> {}, type |-> None]

Blank ==
    [session |-> 0, mode |-> "none", doc |-> NoDoc, type |-> None, fields |-> None, step |-> 2, loading |-> FALSE, head |-> NoDoc, state |-> None,
     lines |-> {}, known |-> {}, drawn |-> {}, del |-> {}, savedId |-> NoDoc, saving |-> FALSE, edit |-> FALSE, ctx |-> None, ask |-> "none", changes |-> 0]

Init ==
    /\ page = Blank /\ wire = {}
    /\ \E s \in [Stored -> Begins] :
         srv = [there |-> Stored, type |-> [d \in Docs |-> IF d \in Stored THEN TypeOf[d] ELSE None],
                state |-> [d \in Docs |-> IF d \in Stored THEN s[d] ELSE "draft"],
                lines |-> [d \in Docs |-> IF d \in Stored THEN {Min(RowIds)} ELSE {}]]

Counted(p) == [p EXCEPT !.changes = @ + 1]
May == page.changes < MaxChanges /\ page.ask = "none"
Free == Room(wire, MaxWire)
Quiet == UNCHANGED <<wire, srv>>
Send(w, r) == Sent(w, MaxWire, r)

-----------------------------------------------------------------------------
(* Drawing the form anew: a view shows the lines of the document as they   *)
(* were last read, any other mode starts with none.                        *)

Refresh(p) ==
    IF p.mode = "view" THEN [p EXCEPT !.lines = p.drawn, !.known = p.drawn] ELSE [p EXCEPT !.lines = {}, !.known = {}]

FormShown(p) == p.mode # "none" /\ ~p.loading /\ p.step = 2

(* The action panel.                                                       *)
ReviewActions(p) ==
    CASE p.ctx = "approving" -> {"approve", "reject", "return", "withdraw"} [] p.ctx = "returned" -> {"edit", "confirm", "withdraw"} [] OTHER -> {}

Buttons(p) ==
    IF ~FormShown(p) THEN {}
    ELSE IF p.mode = "create" THEN {"save", "saveSubmit"} \union IF p.type \in Keyed THEN {"prev"} ELSE {}
    ELSE IF p.edit THEN {"cancel"} \union IF p.ctx = "returned" THEN {"saveConfirm"} ELSE {"save"}
    ELSE CASE p.state \in {"draft", "rejected"} -> {"edit", "submit"} \union IF p.state = "draft" THEN {"abort"} ELSE {}
           [] p.state \in {"approving", "returned"} -> ReviewActions(p)
           [] OTHER -> {}

-----------------------------------------------------------------------------
(* Entering the page: the detail of the document, the configuration of its *)
(* type, and the model of the fields.  A chain begun for an earlier entry  *)
(* finds its number outdated - at the places where it looks.               *)

Content(mode, of, edit) ==
    /\ page.session < MaxSessions /\ page.ask = "none" /\ Free
    /\ page' = [Blank EXCEPT !.session = page.session + 1, !.mode = mode, !.doc = IF mode = "view" THEN of ELSE NoDoc, !.edit = edit,
                             !.type = IF mode = "view" THEN None ELSE of, !.fields = page.fields, !.step = IF mode = "view" THEN 2 ELSE 1,
                             !.loading = TRUE, !.saving = page.saving, !.ctx = page.ctx, !.changes = page.changes]
    /\ wire' = Send(wire, IF mode = "view" THEN Request("detail", of, page') ELSE Request("activation", NoDoc, page'))
    /\ UNCHANGED srv

Stale(r) == r.session # page.session
Gone(r) == page' = page /\ wire' = wire \ {r}
LoadError(r) == page' = [page EXCEPT !.mode = "none", !.loading = FALSE] /\ wire' = wire \ {r}

DetailAnswer(r) ==
    /\ r.kind = "detail" /\ r.status # "asked"
    /\ CASE Stale(r) -> Gone(r)
         [] ~Stale(r) /\ r.status = "failed" -> LoadError(r)
         [] OTHER -> /\ page' = [page EXCEPT !.head = r.doc, !.type = r.type, !.state = r.state, !.drawn = r.lines, !.savedId = page.doc,
                                             !.edit = @ /\ r.state \in {"draft", "rejected", "returned"}, !.ctx = IF r.state = "draft" THEN @ ELSE r.state]
                     /\ wire' = Send(wire \ {r}, Request("activation", NoDoc, page))
    /\ UNCHANGED srv

ActivationAnswer(r) ==
    /\ r.kind = "activation" /\ r.status # "asked"
    /\ CASE Stale(r) -> Gone(r)
         [] ~Stale(r) /\ r.status = "failed" -> LoadError(r)
         [] OTHER -> page' = page /\ wire' = Send(wire \ {r}, [Request("fields", NoDoc, page) EXCEPT !.type = page.type])
    /\ UNCHANGED srv

(* The model of the fields is written before the chain looks again.        *)
FieldsAnswer(r) ==
    /\ r.kind = "fields" /\ r.status # "asked"
    /\ LET p == [page EXCEPT !.fields = r.type, !.step = IF page.mode = "create" /\ r.type \notin Keyed THEN 2 ELSE @]
       IN  CASE r.status = "failed" /\ Stale(r) -> Gone(r)
             [] r.status = "failed" /\ ~Stale(r) -> LoadError(r)
             [] OTHER -> page' = (IF Stale(r) THEN p ELSE Refresh([p EXCEPT !.loading = FALSE])) /\ wire' = wire \ {r}
    /\ UNCHANGED srv

-----------------------------------------------------------------------------
(* The steps of a new document, and its lines.                             *)

GoStep(p, n) == Refresh([p EXCEPT !.step = n, !.del = {}])

OnNext ==
    /\ May /\ Free /\ page.mode = "create" /\ ~page.loading /\ page.step = 1
    /\ page' = Counted(page) /\ wire' = Send(wire, Request("check", NoDoc, page)) /\ UNCHANGED srv

CheckAnswer(r) ==
    /\ r.kind = "check" /\ r.status # "asked"
    /\ page' = (IF r.status = "done" THEN GoStep(page, 2) ELSE page) /\ wire' = wire \ {r} /\ UNCHANGED srv

Prev == May /\ "prev" \in Buttons(page) /\ page' = GoStep(Counted(page), 1) /\ Quiet

LinesOpen == FormShown(page) /\ (page.mode # "view" \/ page.edit)
InUse == page.lines \union page.del \union UNION {srv.lines[d] : d \in Docs} \union UNION {r.ins : r \in wire}

AddRow == May /\ LinesOpen /\ RowIds \ InUse # {} /\ page' = [Counted(page) EXCEPT !.lines = @ \union {Min(RowIds \ InUse)}] /\ Quiet

DelRow(l) ==
    /\ May /\ LinesOpen /\ l \in page.lines
    /\ page' = [Counted(page) EXCEPT !.lines = @ \ {l}, !.known = @ \ {l}, !.del = IF l \in page.known THEN @ \union {l} ELSE @] /\ Quiet

Edit == May /\ "edit" \in Buttons(page) /\ page' = Refresh([Counted(page) EXCEPT !.edit = TRUE]) /\ Quiet
EditCancel == May /\ "cancel" \in Buttons(page) /\ page' = Refresh([Counted(page) EXCEPT !.edit = FALSE, !.del = {}]) /\ Quiet

-----------------------------------------------------------------------------
(* Saving.  One lock for saving, submitting and calling off.  The values a *)
(* document begins with go with its first save only.                       *)

Collected(p, then) ==
    [Request("save", p.savedId, p) EXCEPT !.base = p.savedId = NoDoc, !.ins = p.lines \ p.known, !.del = p.del, !.then = then, !.type = p.fields]

Save(then) ==
    /\ May /\ Free /\ then \in Buttons(page) \intersect {"save", "saveSubmit", "saveConfirm"} /\ ~page.saving
    /\ page' = [Counted(page) EXCEPT !.saving = TRUE, !.ask = IF then = "saveSubmit" THEN then ELSE @]
    /\ wire' = IF then = "saveSubmit" THEN wire ELSE Send(wire, Collected(page, then))
    /\ UNCHANGED srv

SaveAnswer(r) ==
    /\ r.kind = "save" /\ r.status # "asked"
    /\ LET id == IF page.savedId = NoDoc THEN r.doc ELSE page.savedId
           p == [page EXCEPT !.savedId = id, !.known = @ \union (page.lines \intersect r.ins), !.del = {}]
       IN  IF r.status = "failed" THEN page' = [page EXCEPT !.saving = FALSE] /\ wire' = wire \ {r}
           ELSE /\ page' = p
                /\ wire' = Send(wire \ {r}, [Request(IF r.then = "saveSubmit" THEN "submit" ELSE "after", id, p) EXCEPT !.then = r.then])
    /\ UNCHANGED srv

(* A draft is read again for its number; a view goes back to reading.      *)
AfterAnswer(r) ==
    /\ r.kind = "after" /\ r.status # "asked"
    /\ LET read == IF r.status = "done" THEN [page EXCEPT !.head = r.doc, !.state = r.state, !.drawn = IF page.mode = "view" THEN r.lines ELSE @] ELSE page
           p == [(IF page.mode = "view" /\ page.edit THEN Refresh([read EXCEPT !.edit = FALSE]) ELSE read) EXCEPT !.saving = FALSE]
       IN  page' = p /\ wire' = IF r.then = "saveConfirm" THEN Send(wire \ {r}, Request("confirm", p.doc, p)) ELSE wire \ {r}
    /\ UNCHANGED srv

Reload(p, w, locked) ==
    IF p.doc = NoDoc THEN w ELSE Send(w, [Request("reload", p.doc, p) EXCEPT !.then = IF locked THEN "unlock" ELSE @])

(* What comes of a state change, after which all is read again.            *)
DecisionAnswer(r) ==
    /\ r.kind \in {"submit", "abort", "approve", "reject", "return", "withdraw", "confirm"} /\ r.status # "asked"
    /\ LET locked == r.kind \in {"submit", "abort"}
           p == IF r.then = "saveSubmit" THEN [page EXCEPT !.mode = "view", !.doc = r.of] ELSE page
       IN  IF r.status = "failed" THEN page' = [page EXCEPT !.saving = IF locked THEN FALSE ELSE @] /\ wire' = wire \ {r}
           ELSE page' = [p EXCEPT !.saving = @ /\ ~(locked /\ p.doc = NoDoc)] /\ wire' = Reload(p, wire \ {r}, locked)
    /\ UNCHANGED srv

ReloadAnswer(r) ==
    /\ r.kind = "reload" /\ r.status # "asked"
    /\ page' = [Refresh(IF r.status = "done" THEN [page EXCEPT !.head = r.doc, !.state = r.state, !.drawn = r.lines, !.edit = FALSE, !.ctx = r.state]
                        ELSE page) EXCEPT !.saving = @ /\ r.then # "unlock"]
    /\ wire' = wire \ {r} /\ UNCHANGED srv

(* Submitting and calling off take the lock; the decisions do not.         *)
Ask(act) ==
    /\ May /\ act \in Buttons(page) \intersect {"submit", "abort", "approve", "reject", "return", "withdraw", "confirm"}
    /\ act \in {"submit", "abort"} => ~page.saving
    /\ page' = [Counted(page) EXCEPT !.ask = act, !.saving = @ \/ act \in {"submit", "abort"}] /\ Quiet

Confirm(yes) ==
    /\ page.ask # "none" /\ (yes => Free)
    /\ page' = [page EXCEPT !.ask = "none", !.saving = IF yes THEN @ ELSE IF page.ask \in {"submit", "abort", "saveSubmit"} THEN FALSE ELSE @]
    /\ wire' = CASE ~yes -> wire
                 [] yes /\ page.ask = "saveSubmit" -> Send(wire, Collected(page, "saveSubmit"))
                 [] OTHER -> Send(wire, Request(page.ask, page.doc, page))
    /\ UNCHANGED srv

-----------------------------------------------------------------------------
(* The document and workflow services.                                     *)

After(act, s) ==
    CASE act = "submit" /\ s \in {"draft", "rejected"} -> "approving" [] act = "abort" /\ s = "draft" -> "aborted"
      [] act = "approve" /\ s = "approving" -> "approved" [] act = "reject" /\ s = "approving" -> "rejected"
      [] act = "return" /\ s = "approving" -> "returned" [] act = "withdraw" /\ s \in {"approving", "returned"} -> "draft"
      [] act = "confirm" /\ s = "returned" -> "approving" [] OTHER -> None

Read(r, d) == [r EXCEPT !.status = "done", !.doc = d, !.state = srv.state[d], !.lines = srv.lines[d], !.type = srv.type[d]]

Serve(r) ==
    /\ r.status = "asked" /\ UNCHANGED page
    /\ CASE r.kind \in {"detail", "after", "reload"} -> srv' = srv /\ wire' = Settled(wire, r, Read(r, r.of))
         [] r.kind \in {"activation", "fields", "check"} -> srv' = srv /\ wire' = Settled(wire, r, [r EXCEPT !.status = "done"])
         [] r.kind = "save" ->
              LET d == IF r.of = NoDoc THEN (CHOOSE n \in New \ srv.there : TRUE) ELSE r.of
              IN  /\ r.of = NoDoc => New \ srv.there # {}
                  /\ srv' = [srv EXCEPT !.there = @ \union {d}, !.type[d] = r.type, !.lines[d] = (@ \ r.del) \union r.ins, !.state[d] = IF r.base THEN "draft" ELSE @]
                  /\ wire' = Settled(wire, r, [r EXCEPT !.status = "done", !.doc = d])
         [] OTHER -> /\ r.of # NoDoc /\ After(r.kind, srv.state[r.of]) # None
                     /\ srv' = [srv EXCEPT !.state[r.of] = After(r.kind, @)] /\ wire' = Settled(wire, r, [r EXCEPT !.status = "done"])

Refuse(r) == r.status = "asked" /\ wire' = Refused(wire, r) /\ UNCHANGED <<page, srv>>

Answer(r) ==
    DetailAnswer(r) \/ ActivationAnswer(r) \/ FieldsAnswer(r) \/ CheckAnswer(r) \/ SaveAnswer(r) \/ AfterAnswer(r) \/ DecisionAnswer(r) \/ ReloadAnswer(r)

Next ==
    \/ \E t \in Types : Content("create", t, FALSE)
    \/ \E d \in srv.there, e \in BOOLEAN : Content("view", d, e)
    \/ OnNext \/ Prev \/ AddRow \/ Edit \/ EditCancel
    \/ \E l \in RowIds : DelRow(l)
    \/ \E b \in {"save", "saveSubmit", "saveConfirm"} : Save(b)
    \/ \E act \in {"submit", "abort", "approve", "reject", "return", "withdraw", "confirm"} : Ask(act)
    \/ \E yes \in BOOLEAN : Confirm(yes)
    \/ \E r \in wire : Serve(r) \/ Refuse(r) \/ Answer(r)

Spec == Init /\ [][Next]_vars

-----------------------------------------------------------------------------

(* The state keeps to its types.                                          *)
TypeOK ==
    /\ page.mode \in {"none", "create", "view"} /\ page.step \in {1, 2} /\ {page.doc, page.savedId, page.head} \subseteq Docs \union {NoDoc}
    /\ page.known \subseteq page.lines /\ page.lines \union page.del \union page.drawn \subseteq RowIds
    /\ {page.state, page.ctx} \subseteq States \union {None} /\ \A r \in wire : r.status \in Statuses

(* However often the buttons are pressed and whatever fails, an entry of   *)
(* the page creates one document at most.                                  *)
InsertedOnce == Cardinality(srv.there \ Stored) <= page.session

(* Saving, submitting and calling off exclude each other.                  *)
OneWrite == Cardinality(Pending(wire, {"save", "after", "submit", "abort"})) <= 1

(* A document that left the draft goes back to it by a withdrawal only.    *)
DraftByWithdrawalStep ==
    \A d \in Docs : srv.state[d] # "draft" /\ srv'.state[d] = "draft" => \E r \in wire : r.kind = "withdraw" /\ r.of = d
DraftByWithdrawal == [][DraftByWithdrawalStep]_vars

-----------------------------------------------------------------------------
(* Wanted of the page, and not met by the code: README.md, section 7.      *)

(* The fields are those of the type that is shown (68-70, 1311-1312).      *)
FieldsAreOfShown == FormShown(page) => page.fields = page.type

(* A save goes to the document that is shown.                              *)
SavesTheShown == FormShown(page) /\ page.mode = "view" => page.savedId = page.doc

(* The head that is shown is of the document that is shown.                *)
HeadIsOfDoc == FormShown(page) /\ page.mode = "view" => page.head = page.doc

(* A line taken off the form goes from the document (1034-1035).           *)
DeletedLinesGo == wire = {} /\ FormShown(page) /\ page.savedId # NoDoc => srv.lines[page.savedId] \subseteq page.lines \union page.del
=============================================================================
