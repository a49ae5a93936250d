------------------------------ MODULE DataProofs ------------------------------
(***************************************************************************)
(* Proofs about the pages of data, each an instance of its module for any  *)
(* values of its constants: the change requests of master data, the        *)
(* registry, the deployment of data sources, the rows and the tree of a    *)
(* dictionary, and the workbench of an ontology.                           *)
(***************************************************************************)
EXTENDS PageRequests, Sequences, FiniteSetTheorems

CONSTANTS None, MaxWire, MaxChanges, MaxRounds, MaxChain, MaxRows, \* of several pages
          Types, Keyed, OldDocs, TypeOf, Begins, New,     \* of MdmRequest
          RowIds, NoDoc, MaxSessions,
          Windows, KeyNames, Hidden, ValueNames, ValueTypes, MaxDepth, \* of PortalRegistry
          Dbs, Domains, DomainOf, First, MaxVersion,      \* of PortalDeploy
          Ids, System, Temp, Views, Shows, Database, MaxOthers, \* of DctEditor
          Dicts, Trees, DictOf, ParentOf, Root, All,      \* of DctTree
          Objects, Kinetic, Links, EndsOf, KeyedObjects, NameAt, Bad \* of OntoDesigner

VARIABLES page, wire, srv

-----------------------------------------------------------------------------
(* Change requests: the state of the page and of the services.             *)

Mdm == INSTANCE MdmRequest WITH Stored <- OldDocs

FormFields ==
  {"session", "mode", "doc", "type", "fields", "step", "loading", "head", "state", "lines",
   "known", "drawn", "del", "savedId", "saving", "edit", "ctx", "ask", "changes"}

MdmFields ==
  {"kind", "of", "session", "ins", "del", "base", "then", "doc", "state", "lines", "type"}

\* What the services hold: a document that is not there yet is blank.
Shelf(s) ==
  /\ s = [f \in {"there", "type", "state", "lines"} |-> s[f]]
  /\ s.there \subseteq OldDocs \cup New /\ OldDocs \subseteq s.there
  /\ IsFiniteSet(s.there \ OldDocs)
  /\ s.state = [d \in OldDocs \cup New |-> s.state[d]]
  /\ \A d \in (OldDocs \cup New) \ s.there : s.state[d] = "draft"

\* A document that is there, or none.
NamesDoc(d) == d \in srv.there \cup {NoDoc}

Decisions == {"submit", "abort", "approve", "reject", "return", "withdraw", "confirm"}

IsForm(p) == p = [f \in FormFields |-> p[f]]

IsRequest(s) == s = [f \in MdmFields |-> s[f]]

\* A form, as far as saving is concerned.
Form(p) ==
  /\ IsForm(p)
  /\ p.session \in Nat /\ p.saving \in BOOLEAN /\ NamesDoc(p.doc) /\ NamesDoc(p.savedId)
  /\ p.ask \in {"none", "saveSubmit"} \cup Decisions
  /\ p.session = 0 => p.mode = "none" /\ p.ask = "none"

\* The forms p and q agree as far as saving is concerned.
Agree(p, q) ==
  /\ p.session = q.session /\ p.mode = q.mode /\ p.doc = q.doc
  /\ p.savedId = q.savedId /\ p.saving = q.saving /\ p.ask = q.ask

\* A request of the form p.
Sound(r, p) ==
  /\ Framed({r}, MdmFields)
  /\ r.status \in {"asked", "done", "failed"} /\ r.base \in BOOLEAN
  /\ NamesDoc(r.of) /\ NamesDoc(r.doc)
  /\ r.session \in Nat /\ r.session <= p.session /\ 0 < p.session
  /\ r.kind = "detail" /\ r.session = p.session => p.doc # NoDoc
  /\ r.kind # "save" /\ r.then = "saveSubmit" => r.of # NoDoc
  /\ r.kind = "save" /\ r.status = "done" => r.doc # NoDoc
  /\ r.kind = "save" /\ r.base => r.of = NoDoc

\* The lock of saving, submitting and calling off is held by a question to the
\* user, or by one request.
Locking == {"submit", "abort", "saveSubmit"}

Holds(r) ==
  \/ r.kind \in {"save", "after", "submit", "abort"}
  \/ r.kind = "reload" /\ r.then = "unlock"

Lock(p, w) ==
  /\ \A r \in w : Holds(r) => p.saving /\ p.ask \notin Locking
  /\ \A r, q \in w : Holds(r) /\ Holds(q) => r = q
  /\ p.ask \in Locking => p.saving

\* The entry of the page may still create a document.
OfNone(r) == r.kind = "save" /\ r.of = NoDoc

MayInsert(p, w) ==
  \/ \E r \in w : OfNone(r) /\ r.status = "asked"
  \/ p.savedId = NoDoc /\ ~\E r \in w : OfNone(r) /\ r.status = "done"

Count(p, w, s) ==
  LET new == Cardinality(s.there \ OldDocs)
  IN  new <= p.session /\ (0 < p.session /\ MayInsert(p, w) => new < p.session)

MdmInv ==
  /\ Shelf(srv) /\ Form(page) /\ \A r \in wire : Sound(r, page)
  /\ Lock(page, wire) /\ Count(page, wire, srv)

\* What the page writes down to ask, and the request that is sent of it.
Written(s, kind, of, p) ==
  /\ IsRequest(s) /\ s.kind = kind /\ s.of = of /\ s.session = p.session
  /\ s.base = FALSE /\ s.then = "nothing" /\ s.doc = NoDoc

Asked(r, s) ==
  /\ Framed({r}, MdmFields) /\ r.status = "asked"
  /\ r.kind = s.kind /\ r.of = s.of /\ r.session = s.session
  /\ r.base = s.base /\ r.then = s.then /\ r.doc = s.doc

-----------------------------------------------------------------------------
(* Change requests: the helpers.                                           *)

LEMMA MdmHelpers ==
  /\ \A w, r : Mdm!Send(w, r) = Sent(w, MaxWire, r)
  /\ \A w, r, a : Mdm!Settled(w, r, a) = Settled(w, r, a)
BY DEF Mdm!Send, Mdm!Sent, Sent, Mdm!FreeNumber, FreeNumber, Mdm!Min, Min, Mdm!Settled, Settled

LEMMA CountIs ==
  \A S : Mdm!Cardinality(S) = Cardinality(S)
BY DEF Mdm!Cardinality, Cardinality

\* A request as it is written down.
LEMMA RequestIs ==
  ASSUME NEW kind, NEW of, NEW p
  PROVE  Written(Mdm!Request(kind, of, p), kind, of, p)
BY DEF Mdm!Request, MdmFields, Written, IsRequest

\* A request that is sent.
LEMMA MdmSends ==
  ASSUME \A r \in wire : Sound(r, page), NEW w, w \subseteq wire, NEW s, IsRequest(s)
  PROVE  \E r : Mdm!Send(w, s) = w \cup {r} /\ Asked(r, s)
<1>1. Framed(w, MdmFields)
  BY DEF Sound, Framed
<1>2. DOMAIN s = MdmFields /\ "n" \notin MdmFields /\ "status" \notin MdmFields
  BY DEF MdmFields, IsRequest
<1>3. PICK r : /\ Sent(w, MaxWire, s) = w \cup {r} /\ \A f \in MdmFields : r[f] = s[f]
               /\ r.status = "asked" /\ Framed(Sent(w, MaxWire, s), MdmFields)
  BY <1>1, <1>2, SentAdds
<1>4. Framed({r}, MdmFields)
  BY <1>3 DEF Framed
<1>5. {"kind", "of", "session", "base", "then", "doc"} \subseteq MdmFields
  BY DEF MdmFields
<1> QED BY <1>3, <1>4, <1>5, MdmHelpers DEF Asked

\* What an edit does not touch.
LEMMA FormKeeps ==
  ASSUME NEW p, IsForm(p)
  PROVE  /\ IsForm(Mdm!Counted(p)) /\ Agree(Mdm!Counted(p), p)
         /\ IsForm(Mdm!Refresh(p)) /\ Agree(Mdm!Refresh(p), p)
         /\ \A n : IsForm(Mdm!GoStep(p, n)) /\ Agree(Mdm!GoStep(p, n), p)
<1>1. IsForm(Mdm!Counted(p)) /\ Agree(Mdm!Counted(p), p)
  BY DEF IsForm, FormFields, Agree, Mdm!Counted
<1>2. ASSUME NEW q, IsForm(q)
      PROVE  IsForm(Mdm!Refresh(q)) /\ Agree(Mdm!Refresh(q), q)
  <2> DEFINE a == [q EXCEPT !.lines = q.drawn, !.known = q.drawn]
             b == [q EXCEPT !.lines = {}, !.known = {}]
  <2>1. IsForm(a) /\ Agree(a, q)
    BY <1>2 DEF IsForm, FormFields, Agree
  <2>2. IsForm(b) /\ Agree(b, q)
    BY <1>2 DEF IsForm, FormFields, Agree
  <2>3. Mdm!Refresh(q) = a \/ Mdm!Refresh(q) = b
    BY DEF Mdm!Refresh
  <2> QED BY <2>1, <2>2, <2>3
<1>3. ASSUME NEW n
      PROVE  IsForm(Mdm!GoStep(p, n)) /\ Agree(Mdm!GoStep(p, n), p)
  <2> DEFINE q == [p EXCEPT !.step = n, !.del = {}]
  <2>1. IsForm(q) /\ Agree(q, p)
    BY DEF IsForm, FormFields, Agree
  <2>2. Mdm!GoStep(p, n) = Mdm!Refresh(q)
    BY DEF Mdm!GoStep
  <2> HIDE DEF q
  <2>3. IsForm(Mdm!GoStep(p, n)) /\ Agree(Mdm!GoStep(p, n), q)
    BY <1>2, <2>1, <2>2
  <2> QED BY <2>1, <2>3 DEF Agree
<1> QED BY <1>1, <1>2, <1>3

-----------------------------------------------------------------------------
(* Change requests: what a step keeps.                                     *)

\* A step of the page that does not begin a new entry.
LEMMA FormMoves ==
  ASSUME MdmInv, UNCHANGED srv, Form(page'), page'.session = page.session,
         page.doc # NoDoc => page'.doc # NoDoc,
         \A r \in wire' \ wire : Sound(r, page'),
         \A r \in wire' \ wire : OfNone(r) => page.savedId = NoDoc /\ \A q \in wire : ~Holds(q),
         \/ page'.savedId # NoDoc
         \/ page.savedId = NoDoc /\ \A r \in wire \ wire' : ~(OfNone(r) /\ r.status = "done"),
         Lock(page', wire')
  PROVE  MdmInv'
<1>1. ASSUME NEW r \in wire'
      PROVE  Sound(r, page')
  <2>1. CASE r \in wire
    <3>1. Sound(r, page)
      BY <2>1 DEF MdmInv
    <3> QED BY <3>1 DEF Sound
  <2> QED BY <2>1
<1>2. MayInsert(page', wire') => MayInsert(page, wire)
  <2> SUFFICES ASSUME MayInsert(page', wire') PROVE MayInsert(page, wire)
    OBVIOUS
  <2>1. CASE \E r \in wire' \ wire : OfNone(r)
    BY <2>1 DEF MayInsert, OfNone, Holds
  <2>2. CASE ~\E r \in wire' \ wire : OfNone(r)
    <3>1. CASE \E r \in wire' : OfNone(r) /\ r.status = "asked"
      BY <2>2, <3>1 DEF MayInsert
    <3>2. CASE page'.savedId = NoDoc /\ ~\E r \in wire' : OfNone(r) /\ r.status = "done"
      BY <2>2, <3>2 DEF MayInsert
    <3> QED BY <3>1, <3>2 DEF MayInsert
  <2> QED BY <2>1, <2>2
<1>3. Count(page', wire', srv')
  <2>1. Count(page, wire, srv)
    BY DEF MdmInv
  <2> QED BY <1>2, <2>1 DEF Count
<1>4. Shelf(srv') /\ Form(page)' /\ \A r \in wire' : Sound(r, page)'
  BY <1>1 DEF MdmInv, Form, NamesDoc, Sound
<1> QED BY <1>3, <1>4 DEF MdmInv, Lock, Count, MayInsert

\* A step that has nothing to do with the lock.
LEMMA LockStays ==
  ASSUME Lock(page, wire), page'.saving = page.saving, page'.ask = page.ask,
         \A r \in wire' \ wire : ~Holds(r)
  PROVE  Lock(page', wire')
BY DEF Lock

\* A form that agrees with the page, and requests that have nothing to do with
\* saving.
LEMMA FormAgrees ==
  ASSUME MdmInv, UNCHANGED srv, IsForm(page'), Agree(page', page),
         \A r \in wire' \ wire : Sound(r, page') /\ ~Holds(r),
         \A r \in wire \ wire' : r.kind # "save"
  PROVE  MdmInv'
<1>1. Form(page')
  BY DEF MdmInv, Form, Agree
<1>2. Lock(page', wire')
  BY LockStays DEF MdmInv, Agree
<1> QED BY <1>1, <1>2, FormMoves DEF Agree, OfNone, Holds

\* A request the page asks: its document, and what it is for.
LEMMA NewIsSound ==
  ASSUME NEW r, NEW p, Framed({r}, MdmFields), r.status = "asked", r.base \in BOOLEAN,
         NamesDoc(r.of), r.doc = NoDoc, r.session = p.session, p.session \in Nat, 0 < p.session,
         r.kind # "detail",
         r.kind = "save" /\ r.base => r.of = NoDoc,
         r.kind # "save" /\ r.then = "saveSubmit" => r.of # NoDoc
  PROVE  Sound(r, p)
BY DEF Sound, NamesDoc
-----------------------------------------------------------------------------
(* Change requests: the steps.                                             *)

\* Editing the form.
LEMMA FormEdits ==
  ASSUME MdmInv,
         \/ Mdm!OnNext \/ Mdm!Prev \/ Mdm!AddRow \/ Mdm!Edit \/ Mdm!EditCancel
         \/ \E l \in RowIds : Mdm!DelRow(l)
  PROVE  MdmInv'
<1> DEFINE c == Mdm!Counted(page)
<1>1. IsForm(page) /\ IsForm(c) /\ Agree(c, page)
  BY FormKeeps DEF MdmInv, Form
<1>2. srv' = srv
  BY DEF Mdm!OnNext, Mdm!Prev, Mdm!AddRow, Mdm!Edit, Mdm!EditCancel, Mdm!DelRow, Mdm!Quiet
<1>3. CASE Mdm!OnNext
  <2>1. page' = c /\ wire' = Mdm!Send(wire, Mdm!Request("check", NoDoc, page)) /\ page.mode = "create"
    BY <1>3 DEF Mdm!OnNext
  <2> DEFINE s == Mdm!Request("check", NoDoc, page)
  <2>2. Written(s, "check", NoDoc, page)
    BY RequestIs
  <2>8. wire' = Mdm!Send(wire, s)
    BY <2>1
  <2> HIDE DEF s
  <2>3. PICK r : wire' = wire \cup {r} /\ Asked(r, s)
    BY <2>2, <2>8, MdmSends DEF MdmInv, Written
  <2>4. page.session \in Nat /\ 0 < page.session
    BY <2>1 DEF MdmInv, Form
  <2>5. page'.session = page.session
    BY <1>1, <2>1 DEF Agree
  <2>6. Sound(r, page')
    BY <2>2, <2>3, <2>4, <2>5, NewIsSound DEF NamesDoc, Written, Asked
  <2>7. ~Holds(r)
    BY <2>2, <2>3 DEF Holds, Written, Asked
  <2> QED BY <1>1, <1>2, <2>1, <2>3, <2>6, <2>7, FormAgrees
<1>4. ASSUME IsForm(page'), Agree(page', page), wire' = wire
      PROVE  MdmInv'
  BY <1>2, <1>4, FormAgrees
<1>5. CASE Mdm!Prev
  <2>1. page' = Mdm!GoStep(c, 1) /\ wire' = wire
    BY <1>5 DEF Mdm!Prev, Mdm!Quiet
  <2> HIDE DEF c
  <2>2. IsForm(page') /\ Agree(page', c)
    BY <1>1, <2>1, FormKeeps
  <2> QED BY <1>1, <1>4, <2>1, <2>2 DEF Agree
<1>6. CASE Mdm!AddRow
  <2>1. PICK x : page' = [c EXCEPT !.lines = @ \cup {x}] /\ wire' = wire
    BY <1>6 DEF Mdm!AddRow, Mdm!Quiet
  <2> HIDE DEF c
  <2>2. IsForm(page') /\ Agree(page', c)
    BY <1>1, <2>1 DEF IsForm, FormFields, Agree
  <2> QED BY <1>1, <1>4, <2>1, <2>2 DEF Agree
<1>7. ASSUME NEW l \in RowIds, Mdm!DelRow(l)
      PROVE  MdmInv'
  <2>1. PICK x : page' = [c EXCEPT !.lines = @ \ {l}, !.known = @ \ {l}, !.del = x]
    BY <1>7 DEF Mdm!DelRow
  <2>2. wire' = wire
    BY <1>7 DEF Mdm!DelRow, Mdm!Quiet
  <2> HIDE DEF c
  <2>3. IsForm(page') /\ Agree(page', c)
    BY <1>1, <2>1 DEF IsForm, FormFields, Agree
  <2> QED BY <1>1, <1>4, <2>2, <2>3 DEF Agree
<1>8. CASE Mdm!Edit \/ Mdm!EditCancel
  <2> DEFINE q == [c EXCEPT !.edit = TRUE]
             e == [c EXCEPT !.edit = FALSE, !.del = {}]
  <2>1. (page' = Mdm!Refresh(q) \/ page' = Mdm!Refresh(e)) /\ wire' = wire
    BY <1>8 DEF Mdm!Edit, Mdm!EditCancel, Mdm!Quiet
  <2>2. IsForm(q) /\ Agree(q, page) /\ IsForm(e) /\ Agree(e, page)
    <3> HIDE DEF c
    <3> QED BY <1>1 DEF IsForm, FormFields, Agree
  <2> HIDE DEF q, e
  <2>3. IsForm(page') /\ (Agree(page', q) \/ Agree(page', e))
    BY <2>1, <2>2, FormKeeps
  <2> QED BY <1>4, <2>1, <2>2, <2>3 DEF Agree
<1> QED BY <1>3, <1>5, <1>6, <1>7, <1>8

\* The answers of the chain that opens the form, and of the look for duplicates.
LEMMA ChainAnswers ==
  ASSUME MdmInv, NEW r \in wire,
         \/ Mdm!DetailAnswer(r) \/ Mdm!ActivationAnswer(r) \/ Mdm!FieldsAnswer(r) \/ Mdm!CheckAnswer(r)
  PROVE  MdmInv'
<1>1. IsForm(page) /\ page.session \in Nat /\ 0 < page.session /\ NamesDoc(page.doc) /\ Sound(r, page)
  BY DEF MdmInv, Form, Sound
<1>2. srv' = srv /\ r.kind \in {"detail", "activation", "fields", "check"}
  BY DEF Mdm!DetailAnswer, Mdm!ActivationAnswer, Mdm!FieldsAnswer, Mdm!CheckAnswer
\* No further question, and a page that agrees.
<1>3. ASSUME IsForm(page'), Agree(page', page), wire' = wire \ {r}
      PROVE  MdmInv'
  BY <1>2, <1>3, FormAgrees
<1>4. ASSUME page' = [page EXCEPT !.mode = "none", !.loading = FALSE], wire' = wire \ {r}
      PROVE  MdmInv'
  <2>1. /\ IsForm(page') /\ page'.session = page.session /\ page'.doc = page.doc
        /\ page'.savedId = page.savedId /\ page'.saving = page.saving /\ page'.ask = page.ask
    BY <1>1, <1>4 DEF IsForm, FormFields
  <2>2. Form(page')
    BY <1>1, <2>1 DEF MdmInv, Form
  <2>3. Lock(page', wire')
    BY <1>4, <2>1, LockStays DEF MdmInv
  <2>4. \A q \in wire \ wire' : ~OfNone(q)
    BY <1>2, <1>4 DEF OfNone
  <2> QED BY <1>2, <1>4, <2>1, <2>2, <2>3, <2>4, FormMoves
<1>5. ASSUME Mdm!Gone(r)
      PROVE  MdmInv'
  BY <1>1, <1>3, <1>5 DEF Mdm!Gone, Agree
<1>6. ASSUME Mdm!LoadError(r)
      PROVE  MdmInv'
  BY <1>4, <1>6 DEF Mdm!LoadError
\* The next question of the chain.
<1>7. ASSUME NEW s, NEW kind \in {"activation", "fields"}, Written(s, kind, NoDoc, page),
             wire' = Mdm!Send(wire \ {r}, s), page'.session = page.session
      PROVE  /\ \A q \in wire' \ wire : Sound(q, page') /\ ~Holds(q)
             /\ \A q \in wire \ wire' : q.kind # "save"
  <2>1. PICK q : wire' = (wire \ {r}) \cup {q} /\ Asked(q, s)
    BY <1>7, MdmSends DEF MdmInv, Written
  <2>2. Sound(q, page')
    BY <1>1, <1>7, <2>1, NewIsSound DEF NamesDoc, Written, Asked
  <2>3. ~Holds(q)
    BY <1>7, <2>1 DEF Holds, Written, Asked
  <2> QED BY <1>2, <2>1, <2>2, <2>3
<1>8. CASE Mdm!DetailAnswer(r)
  <2>1. CASE Mdm!Stale(r)
    <3>1. Mdm!Gone(r)
      BY <1>8, <2>1, Zenon DEF Mdm!DetailAnswer
    <3> QED BY <1>5, <3>1
  <2>2. CASE ~Mdm!Stale(r) /\ r.status = "failed"
    <3>1. Mdm!LoadError(r)
      BY <1>8, <2>2, Zenon DEF Mdm!DetailAnswer
    <3> QED BY <1>6, <3>1
  <2>3. CASE ~Mdm!Stale(r) /\ r.status # "failed"
    <3> DEFINE s == Mdm!Request("activation", NoDoc, page)
    <3>1. PICK e, c : /\ page' = [page EXCEPT !.head = r.doc, !.type = r.type, !.state = r.state, !.drawn = r.lines,
                                              !.savedId = page.doc, !.edit = e, !.ctx = c]
                      /\ wire' = Mdm!Send(wire \ {r}, s)
      <4> DEFINE e == page.edit /\ r.state \in {"draft", "rejected", "returned"}
                 c == IF r.state = "draft" THEN page.ctx ELSE r.state
      <4>1. /\ page' = [page EXCEPT !.head = r.doc, !.type = r.type, !.state = r.state, !.drawn = r.lines, !.savedId = page.doc,
                                    !.edit = @ /\ r.state \in {"draft", "rejected", "returned"}, !.ctx = IF r.state = "draft" THEN @ ELSE r.state]
            /\ wire' = Mdm!Send(wire \ {r}, s)
        BY <1>8, <2>3, Zenon DEF Mdm!DetailAnswer
      <4>2. page' = [page EXCEPT !.head = r.doc, !.type = r.type, !.state = r.state, !.drawn = r.lines,
                                 !.savedId = page.doc, !.edit = e, !.ctx = c]
        BY <4>1
      <4> QED BY <4>1, <4>2
    <3>2. /\ IsForm(page') /\ page'.session = page.session /\ page'.doc = page.doc /\ page'.mode = page.mode
          /\ page'.savedId = page.doc /\ page'.saving = page.saving /\ page'.ask = page.ask
      BY <1>1, <3>1 DEF IsForm, FormFields
    <3>3. Written(s, "activation", NoDoc, page)
      BY RequestIs
    <3> HIDE DEF s
    <3>4. /\ \A q \in wire' \ wire : Sound(q, page') /\ ~Holds(q)
          /\ \A q \in wire \ wire' : q.kind # "save"
      BY <1>7, <3>1, <3>2, <3>3
    <3>5. page.doc # NoDoc
      <4>1. r.kind = "detail" /\ r.session = page.session
        BY <1>8, <2>3 DEF Mdm!DetailAnswer, Mdm!Stale
      <4> QED BY <1>1, <4>1 DEF Sound
    <3>6. Form(page')
      BY <1>1, <3>2 DEF MdmInv, Form
    <3>7. Lock(page', wire')
      BY <3>2, <3>4, LockStays DEF MdmInv
    <3> QED BY <1>2, <3>2, <3>4, <3>5, <3>6, <3>7, FormMoves DEF OfNone, Holds
  <2> QED BY <2>1, <2>2, <2>3
<1>9. CASE Mdm!ActivationAnswer(r)
  <2>1. CASE Mdm!Stale(r)
    <3>1. Mdm!Gone(r)
      BY <1>9, <2>1, Zenon DEF Mdm!ActivationAnswer
    <3> QED BY <1>5, <3>1
  <2>2. CASE ~Mdm!Stale(r) /\ r.status = "failed"
    <3>1. Mdm!LoadError(r)
      BY <1>9, <2>2, Zenon DEF Mdm!ActivationAnswer
    <3> QED BY <1>6, <3>1
  <2>3. CASE ~Mdm!Stale(r) /\ r.status # "failed"
    <3> DEFINE a == Mdm!Request("fields", NoDoc, page)
               s == [a EXCEPT !.type = page.type]
    <3>1. page' = page /\ wire' = Mdm!Send(wire \ {r}, s)
      BY <1>9, <2>3, Zenon DEF Mdm!ActivationAnswer
    <3>2. Written(a, "fields", NoDoc, page)
      BY RequestIs
    <3> HIDE DEF a
    <3>3. Written(s, "fields", NoDoc, page)
      BY <3>2 DEF MdmFields, Written, IsRequest
    <3> HIDE DEF s
    <3>4. /\ \A q \in wire' \ wire : Sound(q, page') /\ ~Holds(q)
          /\ \A q \in wire \ wire' : q.kind # "save"
      BY <1>7, <3>1, <3>3
    <3>5. IsForm(page') /\ Agree(page', page)
      BY <1>1, <3>1 DEF Agree
    <3> QED BY <1>2, <3>4, <3>5, FormAgrees
  <2> QED BY <2>1, <2>2, <2>3
<1>10. CASE Mdm!FieldsAnswer(r)
  <2> DEFINE n == IF page.mode = "create" /\ r.type \notin Keyed THEN 2 ELSE page.step
             p == [page EXCEPT !.fields = r.type, !.step = n]
             q == [p EXCEPT !.loading = FALSE]
  <2>1. CASE r.status = "failed" /\ Mdm!Stale(r)
    <3>1. Mdm!Gone(r)
      BY <1>10, <2>1, Zenon DEF Mdm!FieldsAnswer
    <3> QED BY <1>5, <3>1
  <2>2. CASE ~Mdm!Stale(r) /\ r.status = "failed"
    <3>1. Mdm!LoadError(r)
      BY <1>10, <2>2, Zenon DEF Mdm!FieldsAnswer
    <3> QED BY <1>6, <3>1
  <2>3. CASE r.status # "failed"
    <3>1. page' = (IF Mdm!Stale(r) THEN p ELSE Mdm!Refresh(q)) /\ wire' = wire \ {r}
      BY <1>10, <2>3, Zenon DEF Mdm!FieldsAnswer
    <3>2. IsForm(p) /\ Agree(p, page)
      <4> HIDE DEF n
      <4> QED BY <1>1 DEF IsForm, FormFields, Agree
    <3> HIDE DEF p
    <3>3. IsForm(q) /\ Agree(q, p)
      BY <3>2 DEF IsForm, FormFields, Agree
    <3> HIDE DEF q
    <3>4. IsForm(Mdm!Refresh(q)) /\ Agree(Mdm!Refresh(q), q)
      BY <3>3, FormKeeps
    <3>5. IsForm(page') /\ Agree(page', page)
      BY <3>1, <3>2, <3>3, <3>4 DEF Agree
    <3> QED BY <1>3, <3>1, <3>5
  <2> QED BY <2>1, <2>2, <2>3
<1>11. CASE Mdm!CheckAnswer(r)
  <2>1. page' = (IF r.status = "done" THEN Mdm!GoStep(page, 2) ELSE page) /\ wire' = wire \ {r}
    BY <1>11 DEF Mdm!CheckAnswer
  <2>2. IsForm(page') /\ Agree(page', page)
    <3>1. CASE r.status = "done"
      BY <1>1, <2>1, <3>1, FormKeeps
    <3>2. CASE r.status # "done"
      BY <1>1, <2>1, <3>2 DEF Agree
    <3> QED BY <3>1, <3>2
  <2> QED BY <1>3, <2>1, <2>2
<1> QED BY <1>8, <1>9, <1>10, <1>11

\* A save as it is written down: it creates a document if the entry has none.
LEMMA CollectedIs ==
  ASSUME NEW then
  PROVE  LET s == Mdm!Collected(page, then)
         IN  /\ IsRequest(s) /\ s.kind = "save" /\ s.of = page.savedId /\ s.session = page.session
             /\ s.then = then /\ s.doc = NoDoc
             /\ s.base = IF page.savedId = NoDoc THEN TRUE ELSE FALSE
<1> DEFINE a == Mdm!Request("save", page.savedId, page)
<1>1. Written(a, "save", page.savedId, page)
  BY RequestIs
<1> DEFINE b == page.savedId = NoDoc
<1>2. PICK i : Mdm!Collected(page, then) =
        [a EXCEPT !.base = b, !.ins = i, !.del = page.del, !.then = then, !.type = page.fields]
  BY DEF Mdm!Collected
<1>3. CASE page.savedId = NoDoc
  <2>1. b = TRUE
    BY <1>3, Zenon
  <2> HIDE DEF a, b
  <2> QED BY <1>1, <1>2, <1>3, <2>1 DEF Written, IsRequest, MdmFields
<1>4. CASE page.savedId # NoDoc
  <2>1. b = FALSE
    BY <1>4, Zenon
  <2> HIDE DEF a, b
  <2> QED BY <1>1, <1>2, <1>4, <2>1 DEF Written, IsRequest, MdmFields
<1> QED BY <1>3, <1>4

\* A save is sent, while nothing holds the lock but the page itself.
LEMMA SaveLeaves ==
  ASSUME MdmInv, UNCHANGED srv, NEW then, wire' = Mdm!Send(wire, Mdm!Collected(page, then)),
         IsForm(page'), page'.session = page.session, page'.mode = page.mode, page'.doc = page.doc,
         page'.savedId = page.savedId, page'.saving = TRUE, page'.ask = "none", 0 < page.session,
         \A q \in wire : ~Holds(q)
  PROVE  MdmInv'
<1> DEFINE s == Mdm!Collected(page, then)
<1>1. /\ IsRequest(s) /\ s.kind = "save" /\ s.of = page.savedId /\ s.session = page.session
      /\ s.then = then /\ s.doc = NoDoc
      /\ s.base = IF page.savedId = NoDoc THEN TRUE ELSE FALSE
  BY CollectedIs
<1> HIDE DEF s
<1>2. PICK r : wire' = wire \cup {r} /\ Asked(r, s)
  BY <1>1, MdmSends DEF MdmInv, s
<1>3. page.session \in Nat /\ NamesDoc(page.savedId) /\ Form(page')
  BY DEF MdmInv, Form
<1>4. Sound(r, page')
  BY <1>1, <1>2, <1>3, NewIsSound DEF NamesDoc, Asked
<1>5. OfNone(r) => page.savedId = NoDoc
  BY <1>1, <1>2 DEF OfNone, Asked
<1>6. Lock(page', wire')
  BY <1>2 DEF Lock, Locking
<1>7. \A q \in wire' \ wire : q = r
  BY <1>2
<1>8. \A q \in wire \ wire' : FALSE
  BY <1>2
<1> QED BY <1>3, <1>4, <1>5, <1>6, <1>7, <1>8, FormMoves

\* A button that saves.
LEMMA Saves ==
  ASSUME MdmInv, NEW then, Mdm!Save(then)
  PROVE  MdmInv'
<1> DEFINE c == Mdm!Counted(page)
           q == [c EXCEPT !.saving = TRUE, !.ask = IF then = "saveSubmit" THEN then ELSE @]
<1>1. IsForm(page) /\ IsForm(c) /\ Agree(c, page)
  BY FormKeeps DEF MdmInv, Form
<1>2. /\ page' = q /\ srv' = srv /\ ~page.saving /\ page.ask = "none" /\ page.mode # "none"
      /\ wire' = IF then = "saveSubmit" THEN wire ELSE Mdm!Send(wire, Mdm!Collected(page, then))
  <2>1. page.mode # "none"
    <3>1. ~Mdm!FormShown(page) => Mdm!Buttons(page) = {}
      BY DEF Mdm!Buttons
    <3>2. Mdm!FormShown(page)
      BY <3>1 DEF Mdm!Save
    <3> QED BY <3>2 DEF Mdm!FormShown
  <2> QED BY <2>1 DEF Mdm!Save, Mdm!May
<1>3. /\ IsForm(q) /\ q.session = c.session /\ q.mode = c.mode /\ q.doc = c.doc /\ q.savedId = c.savedId
      /\ q.saving = TRUE /\ q.ask = IF then = "saveSubmit" THEN then ELSE c.ask
  <2> HIDE DEF c
  <2> QED BY <1>1 DEF IsForm, FormFields
<1> HIDE DEF q
<1>4. 0 < page.session /\ page.session \in Nat
  BY <1>2 DEF MdmInv, Form
<1>5. \A r \in wire : ~Holds(r)
  BY <1>2 DEF MdmInv, Lock
<1>6. CASE then = "saveSubmit"
  <2>1. Form(page')
    BY <1>1, <1>2, <1>3, <1>4 DEF MdmInv, Form, Agree
  <2>2. Lock(page', wire')
    BY <1>2, <1>3, <1>5, <1>6 DEF Lock
  <2>3. wire' = wire /\ page'.savedId = page.savedId /\ page'.doc = page.doc /\ page'.session = page.session
    BY <1>1, <1>2, <1>3, <1>6 DEF Agree
  <2> QED BY <1>2, <2>1, <2>2, <2>3, FormMoves
<1>7. CASE then # "saveSubmit"
  <2>1. /\ wire' = Mdm!Send(wire, Mdm!Collected(page, then)) /\ IsForm(page') /\ page'.session = page.session
        /\ page'.mode = page.mode /\ page'.doc = page.doc /\ page'.savedId = page.savedId
        /\ page'.saving = TRUE /\ page'.ask = "none"
    BY <1>1, <1>2, <1>3, <1>7 DEF Agree
  <2> QED BY <1>2, <1>4, <1>5, <2>1, SaveLeaves
<1> QED BY <1>6, <1>7

\* A button that asks the user first.
LEMMA Asks ==
  ASSUME MdmInv, NEW act, Mdm!Ask(act)
  PROVE  MdmInv'
<1> DEFINE c == Mdm!Counted(page)
           q == [c EXCEPT !.ask = act, !.saving = @ \/ act \in {"submit", "abort"}]
<1>1. IsForm(page) /\ IsForm(c) /\ Agree(c, page) /\ page.saving \in BOOLEAN
  BY FormKeeps DEF MdmInv, Form
<1>2. /\ page' = q /\ srv' = srv /\ wire' = wire /\ page.ask = "none" /\ page.mode # "none"
      /\ act \in {"submit", "abort"} => ~page.saving
      /\ act \in Decisions
  <2>1. page.mode # "none"
    <3>1. ~Mdm!FormShown(page) => Mdm!Buttons(page) = {}
      BY DEF Mdm!Buttons
    <3>2. Mdm!FormShown(page)
      BY <3>1 DEF Mdm!Ask
    <3> QED BY <3>2 DEF Mdm!FormShown
  <2>2. act \in Decisions
    BY DEF Mdm!Ask, Decisions
  <2> QED BY <2>1, <2>2 DEF Mdm!Ask, Mdm!May, Mdm!Quiet
<1>3. /\ IsForm(q) /\ q.session = c.session /\ q.mode = c.mode /\ q.doc = c.doc /\ q.savedId = c.savedId
      /\ q.saving = (c.saving \/ act \in {"submit", "abort"}) /\ q.ask = act
  <2> HIDE DEF c
  <2> QED BY <1>1 DEF IsForm, FormFields
<1> HIDE DEF q
<1>4. /\ page'.session = page.session /\ page'.doc = page.doc /\ page'.mode = page.mode
      /\ page'.savedId = page.savedId /\ page'.ask = act
      /\ page'.saving = (page.saving \/ act \in {"submit", "abort"})
  BY <1>1, <1>2, <1>3 DEF Agree
<1>5. Form(page')
  BY <1>1, <1>2, <1>3, <1>4 DEF MdmInv, Form
<1>6. Lock(page', wire')
  <2>1. CASE act \in {"submit", "abort"}
    BY <1>2, <1>4, <2>1 DEF MdmInv, Lock
  <2>2. CASE act \notin {"submit", "abort"}
    BY <1>1, <1>2, <1>4, <2>2 DEF MdmInv, Lock, Locking, Decisions
  <2> QED BY <2>1, <2>2
<1> QED BY <1>2, <1>4, <1>5, <1>6, FormMoves

\* The user's answer.
LEMMA Confirms ==
  ASSUME MdmInv, NEW yes \in BOOLEAN, Mdm!Confirm(yes)
  PROVE  MdmInv'
<1> DEFINE keep == IF yes THEN page.saving
                   ELSE IF page.ask \in {"submit", "abort", "saveSubmit"} THEN FALSE ELSE page.saving
<1>1. /\ IsForm(page) /\ page.session \in Nat /\ page.saving \in BOOLEAN /\ page.ask # "none" /\ srv' = srv
      /\ 0 < page.session
  BY DEF MdmInv, Form, Mdm!Confirm
<1>2. page' = [page EXCEPT !.ask = "none", !.saving = keep]
  BY DEF Mdm!Confirm
<1>3. /\ IsForm(page') /\ page'.session = page.session /\ page'.mode = page.mode /\ page'.doc = page.doc
      /\ page'.savedId = page.savedId /\ page'.saving = keep /\ page'.ask = "none"
  <2> HIDE DEF keep
  <2> QED BY <1>1, <1>2 DEF IsForm, FormFields
<1>4. page.ask \in Locking => page.saving /\ \A r \in wire : ~Holds(r)
  BY DEF MdmInv, Lock
<1>5. CASE ~yes
  <2>1. wire' = wire
    BY <1>5, Zenon DEF Mdm!Confirm
  <2>2. keep = IF page.ask \in Locking THEN FALSE ELSE page.saving
    BY <1>5 DEF Locking
  <2> HIDE DEF keep
  <2>3. Form(page')
    BY <1>1, <1>3, <2>2 DEF MdmInv, Form
  <2>4. Lock(page', wire')
    BY <1>3, <1>4, <2>1, <2>2 DEF MdmInv, Lock, Locking
  <2> QED BY <1>1, <1>3, <2>1, <2>3, <2>4, FormMoves
<1>6. CASE yes /\ page.ask = "saveSubmit"
  <2>1. wire' = Mdm!Send(wire, Mdm!Collected(page, "saveSubmit"))
    BY <1>6, Zenon DEF Mdm!Confirm
  <2>2. keep = TRUE /\ \A r \in wire : ~Holds(r)
    BY <1>4, <1>6 DEF Locking
  <2> HIDE DEF keep
  <2> QED BY <1>1, <1>3, <2>1, <2>2, SaveLeaves
<1>7. CASE yes /\ page.ask # "saveSubmit"
  <2> DEFINE s == Mdm!Request(page.ask, page.doc, page)
  <2>1. wire' = Mdm!Send(wire, s)
    BY <1>7, Zenon DEF Mdm!Confirm
  <2>2. Written(s, page.ask, page.doc, page)
    BY RequestIs
  <2> HIDE DEF s
  <2>3. PICK r : wire' = wire \cup {r} /\ Asked(r, s)
    BY <2>1, <2>2, MdmSends DEF MdmInv, Written
  <2>4. page.ask \in {"submit", "abort", "approve", "reject", "return", "withdraw", "confirm"}
    BY <1>1, <1>7 DEF MdmInv, Form, Decisions
  <2>5. Sound(r, page')
    BY <1>1, <1>3, <2>2, <2>3, <2>4, NewIsSound DEF NamesDoc, Written, Asked, MdmInv, Form
  <2>6. Holds(r) => page.ask \in Locking
    BY <2>2, <2>3, <2>4 DEF Holds, Written, Asked, Locking
  <2>7. keep = page.saving
    BY <1>7
  <2> HIDE DEF keep
  <2>8. Form(page')
    BY <1>1, <1>3, <2>7 DEF MdmInv, Form
  <2>9. Lock(page', wire')
    BY <1>3, <1>4, <2>3, <2>6, <2>7 DEF MdmInv, Lock, Locking
  <2>10. ~OfNone(r) /\ \A q \in wire \ wire' : FALSE
    BY <2>2, <2>3, <2>4 DEF OfNone, Written, Asked
  <2>11. \A q \in wire' \ wire : q = r
    BY <2>3
  <2> QED BY <1>1, <1>3, <2>3, <2>5, <2>8, <2>9, <2>10, <2>11, FormMoves
<1> QED BY <1>5, <1>6, <1>7

\* The request that holds the lock goes, and lets go of it.
LEMMA LockEnds ==
  ASSUME Lock(page, wire), NEW r \in wire, Holds(r), page'.ask = page.ask,
         \A q \in wire' : q \in wire \ {r} \/ ~Holds(q)
  PROVE  Lock(page', wire')
BY DEF Lock

\* It goes, and the next one takes the lock over.
LEMMA LockPasses ==
  ASSUME Lock(page, wire), NEW r \in wire, Holds(r), page'.ask = page.ask, page'.saving = page.saving,
         NEW q, wire' = (wire \ {r}) \cup {q}
  PROVE  Lock(page', wire')
BY DEF Lock

\* The answer to a save.
LEMMA SaveAnswers ==
  ASSUME MdmInv, NEW r \in wire, Mdm!SaveAnswer(r)
  PROVE  MdmInv'
<1>1. /\ IsForm(page) /\ page.session \in Nat /\ 0 < page.session /\ Sound(r, page) /\ NamesDoc(page.savedId)
      /\ Lock(page, wire) /\ Holds(r) /\ page.saving = TRUE
  BY DEF MdmInv, Form, Sound, Mdm!SaveAnswer, Holds, Lock
<1>2. srv' = srv /\ r.kind = "save" /\ r.status # "asked"
  BY DEF Mdm!SaveAnswer
<1>3. CASE r.status = "failed"
  <2>1. page' = [page EXCEPT !.saving = FALSE] /\ wire' = wire \ {r}
    BY <1>3 DEF Mdm!SaveAnswer
  <2>2. /\ IsForm(page') /\ page'.session = page.session /\ page'.mode = page.mode /\ page'.doc = page.doc
        /\ page'.savedId = page.savedId /\ page'.saving = FALSE /\ page'.ask = page.ask
    BY <1>1, <2>1 DEF IsForm, FormFields
  <2>3. Form(page')
    BY <2>2 DEF MdmInv, Form
  <2>4. Lock(page', wire')
    BY <1>1, <2>1, <2>2, LockEnds
  <2>5. \A q \in wire \ wire' : q.status = "failed"
    BY <1>3, <2>1
  <2> QED BY <1>2, <2>1, <2>2, <2>3, <2>4, <2>5, FormMoves
<1>4. CASE r.status # "failed"
  <2> DEFINE id == IF page.savedId = NoDoc THEN r.doc ELSE page.savedId
             kind == IF r.then = "saveSubmit" THEN "submit" ELSE "after"
             p == [page EXCEPT !.savedId = id, !.known = @ \cup (page.lines \cap r.ins), !.del = {}]
             a == Mdm!Request(kind, id, p)
             s == [a EXCEPT !.then = r.then]
  <2>1. page' = p /\ wire' = Mdm!Send(wire \ {r}, s)
    BY <1>4 DEF Mdm!SaveAnswer
  <2>2. NamesDoc(id) /\ id # NoDoc
    BY <1>1, <1>2, <1>4 DEF Sound
  <2>3. kind \in {"submit", "after"}
    OBVIOUS
  <2> HIDE DEF id, kind
  <2>4. /\ IsForm(p) /\ p.session = page.session /\ p.mode = page.mode /\ p.doc = page.doc
        /\ p.savedId = id /\ p.saving = page.saving /\ p.ask = page.ask
    BY <1>1 DEF IsForm, FormFields
  <2> HIDE DEF p
  <2>5. Written(a, kind, id, p)
    BY RequestIs
  <2> HIDE DEF a
  <2>6. /\ IsRequest(s) /\ s.kind = kind /\ s.of = id /\ s.session = p.session
        /\ s.base = FALSE /\ s.then = r.then /\ s.doc = NoDoc
    BY <2>5 DEF MdmFields, Written, IsRequest
  <2> HIDE DEF s
  <2>7. PICK q : wire' = (wire \ {r}) \cup {q} /\ Asked(q, s)
    BY <2>1, <2>6, MdmSends DEF MdmInv
  <2>8. Sound(q, page')
    BY <1>1, <2>1, <2>2, <2>3, <2>4, <2>6, <2>7, NewIsSound DEF NamesDoc, Asked
  <2>9. Form(page')
    BY <1>1, <2>1, <2>2, <2>4 DEF MdmInv, Form
  <2>10. Lock(page', wire')
    BY <1>1, <2>1, <2>4, <2>7, LockPasses
  <2>11. ~OfNone(q) /\ \A x \in wire' \ wire : x = q
    BY <2>2, <2>6, <2>7 DEF OfNone, Asked
  <2> QED BY <1>2, <2>1, <2>2, <2>4, <2>8, <2>9, <2>10, <2>11, FormMoves
<1> QED BY <1>3, <1>4

\* The document that is read again after a save.
LEMMA AfterAnswers ==
  ASSUME MdmInv, NEW r \in wire, Mdm!AfterAnswer(r)
  PROVE  MdmInv'
<1>1. /\ IsForm(page) /\ page.session \in Nat /\ 0 < page.session /\ Sound(r, page) /\ NamesDoc(page.doc)
      /\ Lock(page, wire) /\ Holds(r)
  BY DEF MdmInv, Form, Sound, Mdm!AfterAnswer, Holds
<1>2. srv' = srv /\ r.kind = "after"
  BY DEF Mdm!AfterAnswer
<1> DEFINE lines == IF page.mode = "view" THEN r.lines ELSE page.drawn
           read == IF r.status = "done" THEN [page EXCEPT !.head = r.doc, !.state = r.state, !.drawn = lines] ELSE page
           back == IF page.mode = "view" /\ page.edit THEN Mdm!Refresh([read EXCEPT !.edit = FALSE]) ELSE read
           p == [back EXCEPT !.saving = FALSE]
<1>3. page' = p /\ wire' = IF r.then = "saveConfirm" THEN Mdm!Send(wire \ {r}, Mdm!Request("confirm", p.doc, p)) ELSE wire \ {r}
  BY DEF Mdm!AfterAnswer
<1>4. IsForm(read) /\ Agree(read, page)
  <2> HIDE DEF lines
  <2> QED BY <1>1 DEF IsForm, FormFields, Agree
<1> HIDE DEF read
<1>5. IsForm(back) /\ Agree(back, page)
  <2> DEFINE q == [read EXCEPT !.edit = FALSE]
  <2>1. IsForm(q) /\ Agree(q, read)
    BY <1>4 DEF IsForm, FormFields, Agree
  <2> HIDE DEF q
  <2>2. IsForm(Mdm!Refresh(q)) /\ Agree(Mdm!Refresh(q), q)
    BY <2>1, FormKeeps
  <2>3. back = Mdm!Refresh(q) \/ back = read
    BY DEF q
  <2> QED BY <1>4, <2>1, <2>2, <2>3 DEF Agree
<1> HIDE DEF back
<1>6. /\ IsForm(p) /\ p.session = page.session /\ p.mode = page.mode /\ p.doc = page.doc
      /\ p.savedId = page.savedId /\ p.saving = FALSE /\ p.ask = page.ask
  BY <1>5 DEF IsForm, FormFields, Agree
<1> HIDE DEF p
<1>7. Form(page')
  BY <1>3, <1>6 DEF MdmInv, Form
<1>8. CASE r.then = "saveConfirm"
  <2> DEFINE s == Mdm!Request("confirm", p.doc, p)
  <2>1. wire' = Mdm!Send(wire \ {r}, s) /\ Written(s, "confirm", p.doc, p)
    BY <1>3, <1>8, RequestIs
  <2> HIDE DEF s
  <2>2. PICK q : wire' = (wire \ {r}) \cup {q} /\ Asked(q, s)
    BY <2>1, MdmSends DEF MdmInv, Written
  <2>3. Sound(q, page')
    BY <1>1, <1>3, <1>6, <2>1, <2>2, NewIsSound DEF NamesDoc, Written, Asked
  <2>4. ~Holds(q)
    BY <2>1, <2>2 DEF Holds, Written, Asked
  <2>5. Lock(page', wire')
    BY <1>1, <1>3, <1>6, <2>2, <2>4, LockEnds
  <2>6. /\ ~OfNone(q) /\ \A x \in wire' \ wire : x = q
        /\ \A x \in wire \ wire' : x.kind # "save"
    BY <1>2, <2>2, <2>4 DEF OfNone, Holds
  <2> QED BY <1>2, <1>3, <1>6, <1>7, <2>3, <2>5, <2>6, FormMoves DEF OfNone
<1>9. CASE r.then # "saveConfirm"
  <2>1. wire' = wire \ {r}
    BY <1>3, <1>9
  <2>2. Lock(page', wire')
    BY <1>1, <1>3, <1>6, <2>1, LockEnds
  <2>3. \A x \in wire \ wire' : x.kind # "save"
    BY <1>2, <2>1
  <2> QED BY <1>2, <1>3, <1>6, <1>7, <2>1, <2>2, <2>3, FormMoves DEF OfNone
<1> QED BY <1>8, <1>9

\* The document that is read again after a decision.
LEMMA ReloadAnswers ==
  ASSUME MdmInv, NEW r \in wire, Mdm!ReloadAnswer(r)
  PROVE  MdmInv'
<1>1. IsForm(page) /\ page.saving \in BOOLEAN /\ Sound(r, page) /\ Lock(page, wire)
  BY DEF MdmInv, Form
<1>2. srv' = srv /\ r.kind = "reload" /\ wire' = wire \ {r}
  BY DEF Mdm!ReloadAnswer
<1> DEFINE read == IF r.status = "done" THEN [page EXCEPT !.head = r.doc, !.state = r.state, !.drawn = r.lines, !.edit = FALSE, !.ctx = r.state]
                   ELSE page
           back == Mdm!Refresh(read)
           sv == back.saving /\ r.then # "unlock"
<1>3. page' = [back EXCEPT !.saving = sv]
  BY DEF Mdm!ReloadAnswer
<1>4. IsForm(read) /\ Agree(read, page)
  BY <1>1 DEF IsForm, FormFields, Agree
<1> HIDE DEF read
<1>5. IsForm(back) /\ Agree(back, page)
  BY <1>4, FormKeeps DEF Agree
<1>6. sv \in BOOLEAN /\ (r.then = "unlock" => sv = FALSE) /\ (r.then # "unlock" => sv = page.saving)
  <2>1. back.saving = page.saving
    BY <1>5 DEF Agree
  <2> HIDE DEF back
  <2>2. CASE r.then = "unlock"
    BY <2>2
  <2>3. CASE r.then # "unlock"
    <3>1. CASE page.saving = TRUE
      BY <2>1, <2>3, <3>1, Zenon
    <3>2. CASE page.saving = FALSE
      BY <2>1, <2>3, <3>2, Zenon
    <3> QED BY <1>1, <3>1, <3>2
  <2> QED BY <2>2, <2>3
<1> HIDE DEF back, sv
<1>7. /\ IsForm(page') /\ page'.session = page.session /\ page'.mode = page.mode /\ page'.doc = page.doc
      /\ page'.savedId = page.savedId /\ page'.saving = sv /\ page'.ask = page.ask
  BY <1>3, <1>5 DEF IsForm, FormFields, Agree
<1>8. Form(page')
  BY <1>6, <1>7 DEF MdmInv, Form
<1>9. Lock(page', wire')
  <2>1. CASE r.then = "unlock"
    <3>1. Holds(r)
      BY <1>2, <2>1 DEF Holds
    <3> QED BY <1>1, <1>2, <1>7, <3>1, LockEnds
  <2>2. CASE r.then # "unlock"
    BY <1>1, <1>2, <1>6, <1>7, <2>2, LockStays
  <2> QED BY <2>1, <2>2
<1>10. \A x \in wire \ wire' : x.kind # "save"
  BY <1>2
<1> QED BY <1>2, <1>7, <1>8, <1>9, <1>10, FormMoves DEF OfNone

\* What comes of a decision.
LEMMA DecisionAnswers ==
  ASSUME MdmInv, NEW r \in wire, Mdm!DecisionAnswer(r)
  PROVE  MdmInv'
<1>1. /\ IsForm(page) /\ page.session \in Nat /\ 0 < page.session /\ Sound(r, page) /\ NamesDoc(page.doc)
      /\ page.saving \in BOOLEAN /\ Lock(page, wire)
  BY DEF MdmInv, Form, Sound
<1>2. srv' = srv /\ r.kind \in Decisions /\ r.kind # "save"
  BY DEF Mdm!DecisionAnswer, Decisions
<1> DEFINE locked == r.kind \in {"submit", "abort"}
           p == IF r.then = "saveSubmit" THEN [page EXCEPT !.mode = "view", !.doc = r.of] ELSE page
<1>3. locked => Holds(r) /\ page.saving = TRUE
  BY <1>1 DEF Holds, Lock
<1>4. ~locked => ~Holds(r)
  BY <1>2 DEF Holds, Decisions
<1>5. /\ IsForm(p) /\ p.session = page.session /\ p.savedId = page.savedId /\ p.saving = page.saving /\ p.ask = page.ask
      /\ NamesDoc(p.doc) /\ (page.doc # NoDoc => p.doc # NoDoc)
  <2>1. r.then = "saveSubmit" => NamesDoc(r.of) /\ r.of # NoDoc
    BY <1>1, <1>2 DEF Sound
  <2> QED BY <1>1, <2>1 DEF IsForm, FormFields
<1>6. CASE r.status = "failed"
  <2> DEFINE sv == IF locked THEN FALSE ELSE page.saving
  <2>1. page' = [page EXCEPT !.saving = sv] /\ wire' = wire \ {r}
    BY <1>6 DEF Mdm!DecisionAnswer
  <2>2. sv \in BOOLEAN /\ (~locked => sv = page.saving)
    BY <1>1
  <2> HIDE DEF sv
  <2>3. /\ IsForm(page') /\ page'.session = page.session /\ page'.mode = page.mode /\ page'.doc = page.doc
        /\ page'.savedId = page.savedId /\ page'.saving = sv /\ page'.ask = page.ask
    BY <1>1, <2>1 DEF IsForm, FormFields
  <2>4. Form(page')
    BY <2>2, <2>3 DEF MdmInv, Form
  <2>5. Lock(page', wire')
    <3>1. CASE locked
      BY <1>1, <1>3, <2>1, <2>3, <3>1, LockEnds
    <3>2. CASE ~locked
      BY <1>1, <2>1, <2>2, <2>3, <3>2, LockStays
    <3> QED BY <3>1, <3>2
  <2>6. \A x \in wire \ wire' : x.kind # "save"
    BY <1>2, <2>1
  <2> QED BY <1>2, <2>1, <2>3, <2>4, <2>5, <2>6, FormMoves DEF OfNone
<1>7. CASE r.status # "failed"
  <2> DEFINE sv == p.saving /\ ~(locked /\ p.doc = NoDoc)
             then == IF locked THEN "unlock" ELSE "nothing"
  <2>1. page' = [p EXCEPT !.saving = sv] /\ wire' = Mdm!Reload(p, wire \ {r}, locked)
    BY <1>7 DEF Mdm!DecisionAnswer
  <2>2. /\ sv \in BOOLEAN
        /\ locked /\ p.doc = NoDoc => sv = FALSE
        /\ ~(locked /\ p.doc = NoDoc) => sv = page.saving
    <3>1. p.saving = page.saving
      BY <1>5
    <3> HIDE DEF p
    <3>2. CASE locked /\ p.doc = NoDoc
      BY <3>2
    <3>3. CASE ~(locked /\ p.doc = NoDoc)
      <4>1. CASE page.saving = TRUE
        BY <3>1, <3>3, <4>1, Zenon
      <4>2. CASE page.saving = FALSE
        BY <3>1, <3>3, <4>2, Zenon
      <4> QED BY <1>1, <3>3, <4>1, <4>2
    <3> QED BY <3>2, <3>3
  <2>3. p.session = 0 => p.mode = "none" /\ p.ask = "none"
    BY <1>1, <1>5
  <2>4. /\ page'.session = page.session /\ page'.doc = p.doc
        /\ page'.savedId = page.savedId /\ page'.saving = sv /\ page'.ask = page.ask /\ IsForm(page')
    <3> HIDE DEF p, sv
    <3> QED BY <1>5, <2>1 DEF IsForm, FormFields
  <2>5. Form(page')
    BY <1>1, <1>5, <2>2, <2>4 DEF MdmInv, Form
  <2>6. CASE p.doc = NoDoc
    <3>1. wire' = wire \ {r}
      BY <2>1, <2>6 DEF Mdm!Reload
    <3>2. Lock(page', wire')
      <4>1. CASE locked
        BY <1>1, <1>3, <2>4, <3>1, <4>1, LockEnds
      <4>2. CASE ~locked
        BY <1>1, <2>2, <2>4, <3>1, <4>2, LockStays
      <4> QED BY <4>1, <4>2
    <3>3. \A x \in wire \ wire' : x.kind # "save"
      BY <1>2, <3>1
    <3> QED BY <1>2, <1>5, <2>4, <2>5, <3>1, <3>2, <3>3, FormMoves DEF OfNone
  <2>7. CASE p.doc # NoDoc
    <3> DEFINE a == Mdm!Request("reload", p.doc, p)
               s == [a EXCEPT !.then = then]
    <3>1. Written(a, "reload", p.doc, p)
      BY RequestIs
    <3>2. wire' = Mdm!Send(wire \ {r}, s)
      <4>1. wire' = Mdm!Send(wire \ {r}, [a EXCEPT !.then = IF locked THEN "unlock" ELSE @])
        BY <2>1, <2>7 DEF Mdm!Reload
      <4>2. a.then = "nothing"
        BY <3>1 DEF Written
      <4> HIDE DEF a, locked
      <4> QED BY <4>1, <4>2
    <3> HIDE DEF a, p, then
    <3>3. /\ IsRequest(s) /\ s.kind = "reload" /\ s.of = p.doc /\ s.session = p.session
          /\ s.base = FALSE /\ s.then = then /\ s.doc = NoDoc
      BY <3>1 DEF MdmFields, Written, IsRequest
    <3> HIDE DEF s
    <3>4. PICK q : wire' = (wire \ {r}) \cup {q} /\ Asked(q, s)
      BY <3>2, <3>3, MdmSends DEF MdmInv
    <3>5. then = IF locked THEN "unlock" ELSE "nothing"
      BY DEF then
    <3>6. Sound(q, page')
      <4>1. /\ Framed({q}, MdmFields) /\ q.status = "asked" /\ q.base = FALSE /\ q.of = p.doc /\ q.doc = NoDoc
            /\ q.kind = "reload" /\ q.session = page'.session
        BY <1>5, <2>4, <3>3, <3>4 DEF Asked
      <4>2. page'.session \in Nat /\ 0 < page'.session
        BY <1>1, <2>4
      <4> QED BY <1>5, <2>7, <4>1, <4>2, NewIsSound
    <3>7. Holds(q) => locked
      BY <3>3, <3>4, <3>5 DEF Holds, Asked
    <3>8. sv = page.saving
      BY <2>2, <2>7
    <3>9. Lock(page', wire')
      <4>1. CASE locked
        BY <1>1, <1>3, <2>4, <3>4, <3>8, <4>1, LockPasses
      <4>2. CASE ~locked
        BY <1>1, <2>4, <3>4, <3>7, <3>8, <4>2, LockStays
      <4> QED BY <4>1, <4>2
    <3>10. /\ ~OfNone(q) /\ \A x \in wire' \ wire : x = q
           /\ \A x \in wire \ wire' : x.kind # "save"
      BY <1>2, <3>3, <3>4 DEF OfNone, Asked
    <3> QED BY <1>2, <1>5, <2>4, <2>5, <3>6, <3>9, <3>10, FormMoves DEF OfNone
  <2> QED BY <2>6, <2>7
<1> QED BY <1>6, <1>7

\* A page is entered: what is on the way stays there.
LEMMA Enters ==
  ASSUME Mdm!RequestAssumption, MdmInv, NEW mode \in {"create", "view"}, NEW of, NEW edit, Mdm!Content(mode, of, edit),
         mode = "view" => of \in srv.there
  PROVE  MdmInv'
<1>1. page.session \in Nat /\ page.saving \in BOOLEAN /\ page.ask = "none" /\ srv' = srv /\ Lock(page, wire)
  BY DEF MdmInv, Form, Mdm!Content
<1>2. mode = "view" => of # NoDoc /\ NamesDoc(of)
  BY DEF MdmInv, Shelf, NamesDoc, Mdm!RequestAssumption
<1>3. IsForm(Mdm!Blank) /\ Mdm!Blank.savedId = NoDoc /\ Mdm!Blank.ask = "none"
  BY DEF Mdm!Blank, IsForm, FormFields
<1> DEFINE b == Mdm!Blank
           doc == IF mode = "view" THEN of ELSE NoDoc
           type == IF mode = "view" THEN None ELSE of
           step == IF mode = "view" THEN 2 ELSE 1
<1>4. page' = [b EXCEPT !.session = page.session + 1, !.mode = mode, !.doc = doc, !.edit = edit,
                        !.type = type, !.fields = page.fields, !.step = step,
                        !.loading = TRUE, !.saving = page.saving, !.ctx = page.ctx, !.changes = page.changes]
  BY DEF Mdm!Content
<1>5. /\ NamesDoc(doc) /\ (mode = "view" => doc = of)
  BY <1>2 DEF NamesDoc
<1> HIDE DEF b, type, step, doc
<1>6. /\ IsForm(page') /\ page'.session = page.session + 1 /\ page'.mode = mode /\ page'.doc = doc
      /\ page'.savedId = NoDoc /\ page'.saving = page.saving /\ page'.ask = "none"
  BY <1>3, <1>4 DEF IsForm, FormFields, b
<1>7. Form(page')
  BY <1>1, <1>5, <1>6 DEF Form, NamesDoc
<1>8. ASSUME NEW s, NEW kind \in {"detail", "activation"}, NEW d, NamesDoc(d), Written(s, kind, d, page'),
             wire' = Mdm!Send(wire, s), kind = "detail" => page'.doc # NoDoc
      PROVE  MdmInv'
  <2>1. PICK r : wire' = wire \cup {r} /\ Asked(r, s)
    BY <1>8, MdmSends DEF MdmInv, Written
  <2>2. page'.session \in Nat /\ 0 < page'.session /\ page.session < page'.session
    BY <1>1, <1>6
  <2>3. Sound(r, page')
    <3>1. /\ Framed({r}, MdmFields) /\ r.status = "asked" /\ r.base = FALSE /\ NamesDoc(r.of) /\ NamesDoc(r.doc)
          /\ r.session = page'.session /\ r.kind = kind /\ r.then = "nothing"
      BY <1>8, <2>1 DEF Written, Asked, NamesDoc
    <3>2. r.kind # "save" /\ r.then # "saveSubmit" /\ (r.kind = "detail" => page'.doc # NoDoc)
      BY <1>8, <3>1
    <3>3. r.session \in Nat /\ r.session <= page'.session /\ 0 < page'.session
      BY <2>2, <3>1
    <3>4. r.base \in BOOLEAN /\ r.status \in {"asked", "done", "failed"}
      BY <3>1
    <3> HIDE <1>8
    <3> QED BY <3>1, <3>2, <3>3, <3>4 DEF Sound
  <2>4. ASSUME NEW q \in wire
        PROVE  Sound(q, page')
    <3>1. Sound(q, page)
      BY DEF MdmInv
    <3>2. q.session \in Nat /\ q.session <= page.session
      BY <3>1 DEF Sound
    <3>3. q.session <= page'.session /\ q.session # page'.session
      BY <1>1, <2>2, <3>2
    <3> QED BY <2>2, <3>1, <3>3 DEF Sound
  <2>5. ~Holds(r)
    BY <1>8, <2>1 DEF Holds, Written, Asked
  <2>6. Lock(page', wire')
    BY <1>1, <1>6, <2>1, <2>5, LockStays
  <2>7. Count(page', wire', srv')
    <3>1. Cardinality(srv.there \ OldDocs) \in Nat
      BY FS_CardinalityType DEF MdmInv, Shelf
    <3>2. Cardinality(srv.there \ OldDocs) <= page.session
      BY DEF MdmInv, Count
    <3>3. Cardinality(srv'.there \ OldDocs) < page'.session /\ Cardinality(srv'.there \ OldDocs) <= page'.session
      BY <1>1, <2>2, <3>1, <3>2
    <3> QED BY <3>3 DEF Count
  <2> QED BY <1>1, <1>7, <2>1, <2>3, <2>4, <2>6, <2>7 DEF MdmInv, Form, NamesDoc, Sound, Lock, Count, MayInsert
<1>9. CASE mode = "view"
  <2> DEFINE s == Mdm!Request("detail", of, page')
  <2>1. wire' = Mdm!Send(wire, s) /\ Written(s, "detail", of, page')
    BY <1>9, RequestIs DEF Mdm!Content
  <2> HIDE DEF s
  <2> QED BY <1>2, <1>5, <1>6, <1>8, <1>9, <2>1
<1>10. CASE mode # "view"
  <2> DEFINE s == Mdm!Request("activation", NoDoc, page')
  <2>1. wire' = Mdm!Send(wire, s) /\ Written(s, "activation", NoDoc, page')
    BY <1>10, RequestIs DEF Mdm!Content
  <2> HIDE DEF s
  <2>2. NamesDoc(NoDoc)
    BY DEF NamesDoc
  <2> QED BY <1>8, <2>1, <2>2
<1> QED BY <1>9, <1>10

-----------------------------------------------------------------------------
(* Change requests: the services.                                          *)

\* An answer is the request with another status and, perhaps, a document.
Reply(a, r) ==
  /\ Framed({a}, MdmFields) /\ a.status \in {"done", "failed"}
  /\ a.kind = r.kind /\ a.of = r.of /\ a.session = r.session
  /\ a.base = r.base /\ a.then = r.then

\* A request is answered; what the services hold may grow.
LEMMA Replies ==
  ASSUME MdmInv, NEW r \in wire, r.status = "asked", UNCHANGED page, NEW a, wire' = (wire \ {r}) \cup {a},
         Reply(a, r), a.doc \in srv'.there \cup {NoDoc}, a.kind = "save" /\ a.status = "done" => a.doc # NoDoc,
         srv.there \subseteq srv'.there, Shelf(srv'), Count(page, wire', srv')
  PROVE  MdmInv'
<1>1. ASSUME NEW q, Sound(q, page)
      PROVE  Sound(q, page)'
  BY <1>1 DEF Sound, NamesDoc
<1>2. Sound(a, page)'
  <2>1. Sound(r, page)
    BY DEF MdmInv
  <2> QED BY <2>1 DEF Sound, NamesDoc, Reply
<1>3. Lock(page, wire)'
  <2>1. Holds(a) <=> Holds(r)
    BY DEF Holds, Reply
  <2>2. Lock(page, wire)
    BY DEF MdmInv
  <2> QED BY <2>1, <2>2 DEF Lock
<1>4. Form(page)'
  BY DEF MdmInv, Form, NamesDoc
<1> QED BY <1>1, <1>2, <1>3, <1>4 DEF MdmInv, Count, MayInsert

\* Nothing is created.
LEMMA CountStays ==
  ASSUME MdmInv, NEW r \in wire, r.status = "asked", NEW a, wire' = (wire \ {r}) \cup {a}, Reply(a, r),
         OfNone(r) => a.status = "failed", srv'.there = srv.there
  PROVE  Count(page, wire', srv')
<1>1. MayInsert(page, wire') => MayInsert(page, wire)
  <2>1. OfNone(a) <=> OfNone(r)
    BY DEF OfNone, Reply
  <2>2. a.status # "asked"
    BY DEF Reply
  <2> QED BY <2>1, <2>2 DEF MayInsert
<1> QED BY <1>1 DEF MdmInv, Count

\* The answers there are: a status, a document, or all that is read of one.
Settling(r, st) == [r EXCEPT !.status = st]
Naming(r, d) == [r EXCEPT !.status = "done", !.doc = d]

\* A request with all its fields, and one that agrees with it.
LEMMA AgreeingIsReply ==
  ASSUME NEW r, NEW a, a = [f \in MdmFields \cup {"n", "status"} |-> a[f]], a.kind = r.kind, a.of = r.of,
         a.session = r.session, a.base = r.base, a.then = r.then, a.status \in {"done", "failed"}
  PROVE  Reply(a, r)
BY DEF Reply, Framed

LEMMA SettlingIs ==
  ASSUME NEW r, Framed({r}, MdmFields), NEW st \in {"done", "failed"}
  PROVE  LET a == Settling(r, st) IN Reply(a, r) /\ a.status = st /\ a.doc = r.doc
<1> DEFINE F == MdmFields \cup {"n", "status"}
           a == Settling(r, st)
<1>1. r = [f \in F |-> r[f]]
  BY DEF Framed
<1>2. {"kind", "of", "session", "base", "then", "doc", "status"} \subseteq F
  BY DEF MdmFields
<1> HIDE DEF F
<1>3. /\ a = [f \in F |-> a[f]] /\ a.kind = r.kind /\ a.of = r.of /\ a.session = r.session
      /\ a.base = r.base /\ a.then = r.then /\ a.status = st /\ a.doc = r.doc
  BY <1>1, <1>2 DEF Settling
<1> HIDE DEF a
<1> QED BY <1>3, AgreeingIsReply DEF F, a

LEMMA NamingIs ==
  ASSUME NEW r, Framed({r}, MdmFields), NEW d
  PROVE  LET a == Naming(r, d) IN Reply(a, r) /\ a.status = "done" /\ a.doc = d
<1> DEFINE F == MdmFields \cup {"n", "status"}
           a == Naming(r, d)
<1>1. r = [f \in F |-> r[f]]
  BY DEF Framed
<1>2. {"kind", "of", "session", "base", "then", "doc", "status"} \subseteq F
  BY DEF MdmFields
<1> HIDE DEF F
<1>3. /\ a = [f \in F |-> a[f]] /\ a.kind = r.kind /\ a.of = r.of /\ a.session = r.session
      /\ a.base = r.base /\ a.then = r.then /\ a.status = "done" /\ a.doc = d
  BY <1>1, <1>2 DEF Naming
<1> HIDE DEF a
<1> QED BY <1>3, AgreeingIsReply DEF F, a

LEMMA ReadIs ==
  ASSUME NEW r, Framed({r}, MdmFields), NEW d
  PROVE  LET a == Mdm!Read(r, d) IN Reply(a, r) /\ a.status = "done" /\ a.doc = d
<1> DEFINE F == MdmFields \cup {"n", "status"}
           a == Mdm!Read(r, d)
<1>1. r = [f \in F |-> r[f]]
  BY DEF Framed
<1>2. {"kind", "of", "session", "base", "then", "doc", "state", "lines", "type", "status"} \subseteq F
  BY DEF MdmFields
<1> HIDE DEF F
<1>3. PICK x, y, z : a = [r EXCEPT !.status = "done", !.doc = d, !.state = x, !.lines = y, !.type = z]
  BY DEF Mdm!Read
<1> HIDE DEF a
<1>4. /\ a = [f \in F |-> a[f]] /\ a.kind = r.kind /\ a.of = r.of /\ a.session = r.session
      /\ a.base = r.base /\ a.then = r.then /\ a.status = "done" /\ a.doc = d
  BY <1>1, <1>2, <1>3
<1> QED BY <1>4, AgreeingIsReply DEF F, a

\* Serving a request, by its kind.
LEMMA ServeIs ==
  ASSUME NEW r, Mdm!Serve(r)
  PROVE  \/ /\ r.kind \in {"detail", "after", "reload"}
            /\ srv' = srv /\ wire' = Settled(wire, r, Mdm!Read(r, r.of))
         \/ /\ r.kind \in {"activation", "fields", "check"}
            /\ srv' = srv /\ wire' = Settled(wire, r, [r EXCEPT !.status = "done"])
         \/ /\ r.kind = "save" /\ (r.of = NoDoc => New \ srv.there # {})
            /\ \E d : /\ d = IF r.of = NoDoc THEN (CHOOSE n \in New \ srv.there : TRUE) ELSE r.of
                      /\ srv' = [srv EXCEPT !.there = @ \cup {d}, !.type[d] = r.type, !.lines[d] = (@ \ r.del) \cup r.ins,
                                            !.state[d] = IF r.base THEN "draft" ELSE @]
                      /\ wire' = Settled(wire, r, [r EXCEPT !.status = "done", !.doc = d])
         \/ /\ r.kind \notin {"detail", "after", "reload", "activation", "fields", "check", "save"}
            /\ r.of # NoDoc /\ Mdm!After(r.kind, srv.state[r.of]) # None
            /\ srv' = [srv EXCEPT !.state[r.of] = Mdm!After(r.kind, @)]
            /\ wire' = Settled(wire, r, [r EXCEPT !.status = "done"])
<1>1. CASE r.kind \in {"detail", "after", "reload"}
  <2>1. r.kind \notin {"activation", "fields", "check"} /\ r.kind # "save"
    BY <1>1
  <2>2. srv' = srv /\ wire' = Mdm!Settled(wire, r, Mdm!Read(r, r.of))
    BY <1>1, <2>1, Zenon DEF Mdm!Serve
  <2> QED BY <1>1, <2>2, MdmHelpers
<1>2. CASE r.kind \in {"activation", "fields", "check"}
  <2>1. r.kind \notin {"detail", "after", "reload"} /\ r.kind # "save"
    BY <1>2
  <2>2. srv' = srv /\ wire' = Mdm!Settled(wire, r, [r EXCEPT !.status = "done"])
    BY <1>2, <2>1, Zenon DEF Mdm!Serve
  <2> QED BY <1>2, <2>2, MdmHelpers
<1>3. CASE r.kind = "save"
  <2>1. r.kind \notin {"detail", "after", "reload"} /\ r.kind \notin {"activation", "fields", "check"}
    BY <1>3
  <2> DEFINE d == IF r.of = NoDoc THEN (CHOOSE n \in New \ srv.there : TRUE) ELSE r.of
  <2>2. /\ r.of = NoDoc => New \ srv.there # {}
        /\ srv' = [srv EXCEPT !.there = @ \cup {d}, !.type[d] = r.type, !.lines[d] = (@ \ r.del) \cup r.ins,
                              !.state[d] = IF r.base THEN "draft" ELSE @]
        /\ wire' = Mdm!Settled(wire, r, [r EXCEPT !.status = "done", !.doc = d])
    BY <1>3, <2>1, Zenon DEF Mdm!Serve
  <2>3. wire' = Settled(wire, r, [r EXCEPT !.status = "done", !.doc = d])
    BY <2>2, MdmHelpers
  <2> QED BY <1>3, <2>2, <2>3, Zenon
<1>4. CASE r.kind \notin {"detail", "after", "reload", "activation", "fields", "check", "save"}
  <2>1. r.kind \notin {"detail", "after", "reload"} /\ r.kind \notin {"activation", "fields", "check"} /\ r.kind # "save"
    BY <1>4
  <2>2. /\ r.of # NoDoc /\ Mdm!After(r.kind, srv.state[r.of]) # None
        /\ srv' = [srv EXCEPT !.state[r.of] = Mdm!After(r.kind, @)]
        /\ wire' = Mdm!Settled(wire, r, [r EXCEPT !.status = "done"])
    BY <2>1, Zenon DEF Mdm!Serve
  <2> QED BY <1>4, <2>2, MdmHelpers
<1> QED BY <1>1, <1>2, <1>3, <1>4

\* A decision makes a draft of a document by a withdrawal only.
LEMMA AfterIs ==
  ASSUME NEW act, NEW st, act # "withdraw", None # "draft"
  PROVE  Mdm!After(act, st) # "draft"
BY Zenon DEF Mdm!After

\* A request is served.
LEMMA Serves ==
  ASSUME Mdm!RequestAssumption, MdmInv, NEW r \in wire, Mdm!Serve(r)
  PROVE  /\ MdmInv'
         /\ \A d \in OldDocs \cup New : srv.state[d] # "draft" /\ srv'.state[d] = "draft" => r.kind = "withdraw" /\ r.of = d
<1>1. /\ page' = page /\ r.status = "asked" /\ Sound(r, page) /\ Framed({r}, MdmFields) /\ NamesDoc(r.of) /\ NamesDoc(r.doc)
      /\ Shelf(srv) /\ page.session \in Nat /\ 0 < page.session
  BY DEF MdmInv, Mdm!Serve, Sound, Form
<1>2. NoDoc \notin OldDocs \cup New /\ None # "draft"
  BY DEF Mdm!RequestAssumption, Mdm!States
\* Nothing but the request changes.
<1>3. ASSUME NEW a, Reply(a, r), a.doc = r.of \/ a.doc = r.doc, r.kind # "save", wire' = Settled(wire, r, a),
             srv.there = srv'.there, Shelf(srv')
      PROVE  MdmInv'
  <2>1. wire' = (wire \ {r}) \cup {a} /\ a.doc \in srv'.there \cup {NoDoc} /\ a.kind # "save" /\ ~OfNone(r)
    BY <1>1, <1>3 DEF Settled, NamesDoc, Reply, OfNone
  <2>2. Count(page, wire', srv')
    BY <1>1, <1>3, <2>1, CountStays
  <2> QED BY <1>1, <1>3, <2>1, <2>2, Replies
<1>4. CASE /\ r.kind \in {"detail", "after", "reload"}
           /\ srv' = srv /\ wire' = Settled(wire, r, Mdm!Read(r, r.of))
  <2>1. PICK a : a = Mdm!Read(r, r.of)
    OBVIOUS
  <2>2. Reply(a, r) /\ a.doc = r.of
    BY <1>1, <2>1, ReadIs
  <2>3. wire' = Settled(wire, r, a) /\ srv.there = srv'.there /\ Shelf(srv') /\ r.kind # "save"
    BY <1>1, <1>4, <2>1
  <2>4. MdmInv'
    BY <1>3, <2>2, <2>3
  <2> QED BY <1>4, <2>4
<1>5. CASE /\ r.kind \in {"activation", "fields", "check"}
           /\ srv' = srv /\ wire' = Settled(wire, r, [r EXCEPT !.status = "done"])
  <2>1. PICK a : a = Settling(r, "done")
    OBVIOUS
  <2>2. Reply(a, r) /\ a.doc = r.doc
    BY <1>1, <2>1, SettlingIs
  <2>3. wire' = Settled(wire, r, a) /\ srv.there = srv'.there /\ Shelf(srv') /\ r.kind # "save"
    BY <1>1, <1>5, <2>1 DEF Settling
  <2>4. MdmInv'
    BY <1>3, <2>2, <2>3
  <2> QED BY <1>5, <2>4
<1>6. CASE /\ r.kind \notin {"detail", "after", "reload", "activation", "fields", "check", "save"}
           /\ r.of # NoDoc /\ Mdm!After(r.kind, srv.state[r.of]) # None
           /\ srv' = [srv EXCEPT !.state[r.of] = Mdm!After(r.kind, @)]
           /\ wire' = Settled(wire, r, [r EXCEPT !.status = "done"])
  <2>1. PICK a : a = Settling(r, "done")
    OBVIOUS
  <2>2. Reply(a, r) /\ a.doc = r.doc
    BY <1>1, <2>1, SettlingIs
  <2> DEFINE state == [srv.state EXCEPT ![r.of] = Mdm!After(r.kind, @)]
  <2>3. srv' = [srv EXCEPT !.state = state]
    BY <1>6
  <2>4. r.of \in srv.there /\ srv.there \subseteq OldDocs \cup New
    BY <1>1, <1>6 DEF NamesDoc, Shelf
  <2>5. /\ state = [d \in OldDocs \cup New |-> state[d]] /\ state[r.of] = Mdm!After(r.kind, srv.state[r.of])
        /\ \A d \in OldDocs \cup New : d # r.of => state[d] = srv.state[d]
    BY <1>1, <2>4 DEF Shelf
  <2> HIDE DEF state
  <2>6. /\ srv' = [f \in {"there", "type", "state", "lines"} |-> srv'[f]]
        /\ srv'.there = srv.there /\ srv'.state = state
    BY <1>1, <2>3 DEF Shelf
  <2>7. Shelf(srv')
    BY <1>1, <2>4, <2>5, <2>6 DEF Shelf
  <2>8. wire' = Settled(wire, r, a) /\ r.kind # "save"
    BY <1>6, <2>1 DEF Settling
  <2>9. MdmInv'
    BY <1>3, <2>2, <2>6, <2>7, <2>8
  <2>10. r.kind # "withdraw" => state[r.of] # "draft"
    BY <1>2, <2>5, AfterIs
  <2> QED BY <2>5, <2>6, <2>9, <2>10
<1>7. CASE /\ r.kind = "save" /\ (r.of = NoDoc => New \ srv.there # {})
           /\ \E d : /\ d = IF r.of = NoDoc THEN (CHOOSE n \in New \ srv.there : TRUE) ELSE r.of
                     /\ srv' = [srv EXCEPT !.there = @ \cup {d}, !.type[d] = r.type, !.lines[d] = (@ \ r.del) \cup r.ins,
                                           !.state[d] = IF r.base THEN "draft" ELSE @]
                     /\ wire' = Settled(wire, r, [r EXCEPT !.status = "done", !.doc = d])
  <2>1. PICK d : /\ d = IF r.of = NoDoc THEN (CHOOSE n \in New \ srv.there : TRUE) ELSE r.of
                 /\ srv' = [srv EXCEPT !.there = @ \cup {d}, !.type[d] = r.type, !.lines[d] = (@ \ r.del) \cup r.ins,
                                       !.state[d] = IF r.base THEN "draft" ELSE @]
                 /\ wire' = Settled(wire, r, [r EXCEPT !.status = "done", !.doc = d])
    BY <1>7
  <2>2. /\ r.of = NoDoc => d \in New \ srv.there
        /\ r.of # NoDoc => d = r.of /\ d \in srv.there
    BY <1>1, <1>7, <2>1 DEF NamesDoc
  <2>3. d \in OldDocs \cup New /\ d # NoDoc
    BY <1>1, <1>2, <2>2 DEF Shelf
  <2> DEFINE there == srv.there \cup {d}
             type == [srv.type EXCEPT ![d] = r.type]
             lines == [srv.lines EXCEPT ![d] = (@ \ r.del) \cup r.ins]
             state == [srv.state EXCEPT ![d] = IF r.base THEN "draft" ELSE @]
  <2>4. srv' = [srv EXCEPT !.there = there, !.type = type, !.lines = lines, !.state = state]
    BY <2>1
  <2>5. r.base => r.of = NoDoc /\ srv.state[d] = "draft"
    BY <1>1, <1>7, <2>2, <2>3 DEF Sound, Shelf
  <2>6. state = srv.state
    <3>1. srv.state = [x \in OldDocs \cup New |-> srv.state[x]]
      BY <1>1 DEF Shelf
    <3>2. (IF r.base THEN "draft" ELSE srv.state[d]) = srv.state[d]
      BY <2>5
    <3> QED BY <2>3, <3>1, <3>2
  <2> HIDE DEF there, type, lines, state
  <2>7. /\ srv' = [f \in {"there", "type", "state", "lines"} |-> srv'[f]]
        /\ srv'.there = there /\ srv'.state = srv.state
    BY <1>1, <2>4, <2>6 DEF Shelf
  <2>8. Shelf(srv')
    <3>1. there \ OldDocs = (srv.there \ OldDocs) \cup ({d} \ OldDocs)
      BY DEF there
    <3>2. IsFiniteSet({d} \ OldDocs)
      BY FS_EmptySet, FS_Singleton, FS_Difference
    <3>5. IsFiniteSet(srv.there \ OldDocs)
      BY <1>1 DEF Shelf
    <3>3. IsFiniteSet(there \ OldDocs)
      BY <3>1, <3>2, <3>5, FS_Union
    <3>4. /\ there \subseteq OldDocs \cup New /\ OldDocs \subseteq there
          /\ \A x \in (OldDocs \cup New) \ there : srv.state[x] = "draft"
      BY <1>1, <2>3 DEF there, Shelf
    <3> QED BY <1>1, <2>7, <3>3, <3>4 DEF Shelf
  <2>9. PICK a : a = Naming(r, d)
    OBVIOUS
  <2>10. Reply(a, r) /\ a.doc = d /\ a.status = "done"
    BY <1>1, <2>9, NamingIs
  <2>11. wire' = (wire \ {r}) \cup {a} /\ srv.there \subseteq srv'.there /\ a.doc \in srv'.there \cup {NoDoc}
    BY <2>1, <2>7, <2>9, <2>10 DEF Settled, there, Naming
  <2>12. Count(page, wire', srv')
    <3>1. CASE r.of # NoDoc
      <4>1. srv'.there = srv.there /\ ~OfNone(r)
        BY <2>2, <2>7, <3>1 DEF there, OfNone
      <4> QED BY <1>1, <2>10, <2>11, <4>1, CountStays
    <3>2. CASE r.of = NoDoc
      <4>1. OfNone(r) /\ OfNone(a) /\ Holds(r)
        BY <1>7, <2>10, <3>2 DEF OfNone, Holds, Reply
      <4>2. \A q \in wire : OfNone(q) => q = r
        BY <1>7, <4>1 DEF MdmInv, Lock, Holds, OfNone
      <4>3. ~MayInsert(page, wire')
        BY <2>10, <2>11, <4>1, <4>2 DEF MayInsert
      <4>4. Cardinality(srv.there \ OldDocs) < page.session
        <5>1. MayInsert(page, wire)
          BY <1>1, <4>1 DEF MayInsert
        <5> QED BY <1>1, <5>1 DEF MdmInv, Count
      <4>5. Cardinality(srv'.there \ OldDocs) = Cardinality(srv.there \ OldDocs) + 1
        <5>1. d \notin srv.there \ OldDocs /\ srv'.there \ OldDocs = (srv.there \ OldDocs) \cup {d}
          BY <1>1, <2>2, <2>7, <3>2 DEF there, Shelf
        <5> QED BY <1>1, <5>1, FS_AddElement DEF Shelf
      <4>6. Cardinality(srv.there \ OldDocs) \in Nat
        BY <1>1, FS_CardinalityType DEF Shelf
      <4>7. Cardinality(srv'.there \ OldDocs) <= page.session
        BY <1>1, <4>4, <4>5, <4>6
      <4> QED BY <4>3, <4>7 DEF Count
    <3> QED BY <3>1, <3>2
  <2>13. MdmInv'
    BY <1>1, <2>3, <2>8, <2>10, <2>11, <2>12, Replies
  <2> QED BY <2>7, <2>13
<1> QED BY <1>4, <1>5, <1>6, <1>7, ServeIs

\* A request is refused.
LEMMA Refuses ==
  ASSUME MdmInv, NEW r \in wire, Mdm!Refuse(r)
  PROVE  MdmInv'
<1>1. /\ page' = page /\ srv' = srv /\ r.status = "asked" /\ Sound(r, page) /\ Framed({r}, MdmFields) /\ NamesDoc(r.doc)
      /\ Shelf(srv)
  BY DEF MdmInv, Mdm!Refuse, Sound
<1>2. PICK a : a = Settling(r, "failed")
  OBVIOUS
<1>3. Reply(a, r) /\ a.doc = r.doc /\ a.status = "failed"
  BY <1>1, <1>2, SettlingIs
<1>4. wire' = (wire \ {r}) \cup {a}
  BY <1>2, MdmHelpers DEF Settling, Mdm!Refuse, Mdm!Refused, Settled
<1>5. Count(page, wire', srv')
  BY <1>1, <1>3, <1>4, CountStays
<1>6. a.doc \in srv'.there \cup {NoDoc} /\ Shelf(srv') /\ srv.there \subseteq srv'.there
  BY <1>1, <1>3 DEF NamesDoc
<1> QED BY <1>1, <1>3, <1>4, <1>5, <1>6, Replies

-----------------------------------------------------------------------------
(* Change requests: the theorems.                                          *)

\* The strengthening: a document that is not there is blank, every request is
\* of a document that is there or of none, the lock of saving, submitting and
\* calling off is held by one request or one question at most, and an entry of
\* the page that may still create a document has created none.
THEOREM MdmInvariance ==
  ASSUME Mdm!RequestAssumption
  PROVE  Mdm!Spec => []MdmInv
<1>1. Mdm!Init => MdmInv
  <2> SUFFICES ASSUME Mdm!Init PROVE MdmInv
    OBVIOUS
  <2>1. /\ page = Mdm!Blank /\ wire = {}
        /\ \E s \in [OldDocs -> Begins] :
             srv = [there |-> OldDocs, type |-> [d \in Mdm!Docs |-> IF d \in OldDocs THEN TypeOf[d] ELSE None],
                    state |-> [d \in Mdm!Docs |-> IF d \in OldDocs THEN s[d] ELSE "draft"],
                    lines |-> [d \in Mdm!Docs |-> IF d \in OldDocs THEN {Mdm!Min(RowIds)} ELSE {}]]
    BY DEF Mdm!Init
  <2>2. /\ IsForm(page) /\ page.session = 0 /\ page.saving = FALSE /\ page.doc = NoDoc /\ page.savedId = NoDoc
        /\ page.mode = "none" /\ page.ask = "none"
    BY <2>1 DEF Mdm!Blank, IsForm, FormFields
  <2>3. PICK s, type, lines :
          srv = [there |-> OldDocs, type |-> type,
                 state |-> [d \in OldDocs \cup New |-> IF d \in OldDocs THEN s[d] ELSE "draft"], lines |-> lines]
    BY <2>1 DEF Mdm!Docs
  <2>4. srv.there \ OldDocs = {}
    BY <2>3
  <2>5. Shelf(srv)
    BY <2>3, <2>4, FS_EmptySet DEF Shelf
  <2>6. Form(page)
    <3>1. NamesDoc(page.doc) /\ NamesDoc(page.savedId)
      BY <2>2 DEF NamesDoc
    <3>2. page.session \in Nat /\ page.saving \in BOOLEAN /\ page.ask \in {"none", "saveSubmit"} \cup Decisions
      <4>1. page.saving \in BOOLEAN
        BY <2>2, Zenon
      <4>2. page.session \in Nat
        BY <2>2
      <4>3. page.ask \in {"none", "saveSubmit"} \cup Decisions
        BY <2>2
      <4> QED BY <4>1, <4>2, <4>3
    <3> QED BY <2>2, <3>1, <3>2 DEF Form
  <2>7. Lock(page, wire)
    BY <2>1, <2>2 DEF Lock, Locking
  <2>8. Count(page, wire, srv)
    BY <2>2, <2>4, FS_EmptySet DEF Count
  <2> QED BY <2>1, <2>5, <2>6, <2>7, <2>8 DEF MdmInv
<1>2. MdmInv /\ [Mdm!Next]_Mdm!vars => MdmInv'
  <2> SUFFICES ASSUME MdmInv, [Mdm!Next]_Mdm!vars PROVE MdmInv'
    OBVIOUS
  <2>1. CASE \/ \E t \in Types : Mdm!Content("create", t, FALSE)
             \/ \E d \in srv.there, e \in BOOLEAN : Mdm!Content("view", d, e)
    BY <2>1, Enters
  <2>2. CASE \/ Mdm!OnNext \/ Mdm!Prev \/ Mdm!AddRow \/ Mdm!Edit \/ Mdm!EditCancel
             \/ \E l \in RowIds : Mdm!DelRow(l)
    BY <2>2, FormEdits
  <2>3. CASE \/ \E b \in {"save", "saveSubmit", "saveConfirm"} : Mdm!Save(b)
             \/ \E act \in {"submit", "abort", "approve", "reject", "return", "withdraw", "confirm"} : Mdm!Ask(act)
             \/ \E yes \in BOOLEAN : Mdm!Confirm(yes)
    BY <2>3, Saves, Asks, Confirms
  <2>4. CASE \E r \in wire : Mdm!Serve(r) \/ Mdm!Refuse(r)
    BY <2>4, Serves, Refuses
  <2>5. CASE \E r \in wire : Mdm!Answer(r)
    BY <2>5, ChainAnswers, SaveAnswers, AfterAnswers, DecisionAnswers, ReloadAnswers DEF Mdm!Answer
  <2>6. CASE UNCHANGED Mdm!vars
    BY <2>6 DEF Mdm!vars, MdmInv, Form, NamesDoc, Sound, Lock, Count, MayInsert
  <2> QED BY <2>1, <2>2, <2>3, <2>4, <2>5, <2>6 DEF Mdm!Next
<1> QED BY <1>1, <1>2, PTL DEF Mdm!Spec

\* Saving, submitting and calling off exclude each other (cr-form.js, S.saving):
\* whoever holds the lock is one request.
THEOREM MdmOneWrite ==
  ASSUME Mdm!RequestAssumption
  PROVE  Mdm!Spec => []Mdm!OneWrite
<1>1. MdmInv => Mdm!OneWrite
  <2> SUFFICES ASSUME MdmInv PROVE Mdm!OneWrite
    OBVIOUS
  <2> DEFINE P == Mdm!Pending(wire, {"save", "after", "submit", "abort"})
  <2>1. \A r, q \in P : r = q
    BY DEF MdmInv, Lock, Holds, Mdm!Pending
  <2>2. P = {} \/ \E r : P = {r}
    <3> HIDE DEF P
    <3> QED BY <2>1
  <2>3. Cardinality(P) \in {0, 1}
    <3> HIDE DEF P
    <3> QED BY <2>2, FS_EmptySet, FS_Singleton
  <2>4. Mdm!Cardinality(P) <= 1
    BY <2>3, CountIs
  <2> QED BY <2>4 DEF Mdm!OneWrite
<1> QED BY <1>1, MdmInvariance, PTL

\* An entry of the page creates one document at most, however often its buttons
\* are pressed and whatever fails (cr-form.js, S.savedId).
THEOREM MdmInsertedOnce ==
  ASSUME Mdm!RequestAssumption
  PROVE  Mdm!Spec => []Mdm!InsertedOnce
<1>1. MdmInv => Mdm!InsertedOnce
  BY CountIs DEF MdmInv, Count, Mdm!InsertedOnce
<1> QED BY <1>1, MdmInvariance, PTL

\* A document that left the draft goes back to it by a withdrawal only: a save
\* never carries the values a document begins with to one that is there.
THEOREM MdmDraftByWithdrawal ==
  ASSUME Mdm!RequestAssumption
  PROVE  Mdm!Spec => Mdm!DraftByWithdrawal
<1>1. MdmInv /\ [Mdm!Next]_Mdm!vars => [Mdm!DraftByWithdrawalStep]_Mdm!vars
  <2> SUFFICES ASSUME MdmInv, [Mdm!Next]_Mdm!vars PROVE Mdm!DraftByWithdrawalStep \/ UNCHANGED Mdm!vars
    OBVIOUS
  <2>1. CASE \E r \in wire : Mdm!Serve(r)
    BY <2>1, Serves DEF Mdm!DraftByWithdrawalStep, Mdm!Docs
  <2>2. CASE srv' = srv
    BY <2>2 DEF Mdm!DraftByWithdrawalStep
  <2>3. CASE Mdm!Next /\ ~\E r \in wire : Mdm!Serve(r)
    <3>1. srv' = srv
      BY <2>3 DEF Mdm!Next, Mdm!Content, Mdm!OnNext, Mdm!Prev, Mdm!AddRow, Mdm!Edit, Mdm!EditCancel, Mdm!DelRow, Mdm!Quiet,
                  Mdm!Save, Mdm!Ask, Mdm!Confirm, Mdm!Refuse, Mdm!Answer, Mdm!DetailAnswer, Mdm!ActivationAnswer,
                  Mdm!FieldsAnswer, Mdm!CheckAnswer, Mdm!SaveAnswer, Mdm!AfterAnswer, Mdm!DecisionAnswer, Mdm!ReloadAnswer
    <3> QED BY <2>2, <3>1
  <2> QED BY <2>1, <2>2, <2>3 DEF Mdm!vars
<1> QED BY <1>1, MdmInvariance, PTL DEF Mdm!Spec, Mdm!DraftByWithdrawal

-----------------------------------------------------------------------------
(* The registry: paths, and the tree of keys and values.                   *)

Registry == INSTANCE PortalRegistry
              WITH Types <- ValueTypes, MaxChanges <- MaxRounds, MaxWire <- MaxChain

Path == Seq(KeyNames)

\* The path t is s, or above it.
Leads(t, s) == Len(t) <= Len(s) /\ \A i \in 1..Len(t) : t[i] = s[i]

\* With a key there are the keys that lead to it.
Rooted(keys) ==
  /\ keys \subseteq Registry!Paths /\ <<>> \in keys
  /\ \A s \in keys, t \in Path : Leads(t, s) => t \in keys

\* Values are of keys, one of a name.
Hung(vals, keys) ==
  /\ vals \subseteq Registry!Values
  /\ \A v \in vals : v.at \in keys
  /\ \A u, v \in vals : u.at = v.at /\ u.name = v.name => u = v

Whole(db) ==
  /\ db = [f \in {"keys", "vals"} |-> db[f]]
  /\ Rooted(db.keys) /\ Hung(db.vals, db.keys)

WindowFields == {"db", "path", "selected", "search", "readonly"}

Planted(p) == p = [f \in WindowFields |-> p[f]] /\ Whole(p.db)

Window(p) == Planted(p) /\ p.path \in p.db.keys \cup {Registry!RuntimeRoot}

RegistryInv ==
  /\ page = [f \in {"open", "timer", "changes"} |-> page[f]]
  /\ page.open = [w \in Windows |-> page.open[w]]
  /\ \A w \in Windows : Window(page.open[w])
  /\ Whole(srv)

\* Paths are sequences of names of a length.
LEMMA PathsAre ==
  ASSUME Registry!RegistryAssumption
  PROVE  \A s : s \in Registry!Paths <=> s \in Path /\ Len(s) <= MaxDepth
<1>1. MaxDepth \in Nat
  BY DEF Registry!RegistryAssumption
<1>2. ASSUME NEW s \in Registry!Paths
      PROVE  s \in Path /\ Len(s) <= MaxDepth
  <2>1. PICK n \in 0..MaxDepth : s \in [1..n -> KeyNames]
    BY DEF Registry!Paths
  <2>2. s \in Path /\ Len(s) = n
    BY <1>1, <2>1 DEF Path
  <2> QED BY <1>1, <2>1, <2>2
<1>3. ASSUME NEW s \in Path, Len(s) <= MaxDepth
      PROVE  s \in Registry!Paths
  <2>1. s \in [1..Len(s) -> KeyNames] /\ Len(s) \in 0..MaxDepth
    BY <1>1, <1>3 DEF Path
  <2> QED BY <2>1 DEF Registry!Paths
<1> QED BY <1>2, <1>3

\* Two paths that agree everywhere are one.
LEMMA SamePath ==
  ASSUME NEW s \in Path, NEW t \in Path, Len(s) = Len(t), \A i \in 1..Len(s) : s[i] = t[i]
  PROVE  s = t
BY DEF Path

\* The code's test of a path below another, or the same.
LEMMA UnderIs ==
  ASSUME NEW s \in Path, NEW at \in Path
  PROVE  Registry!Under(s, at) <=> Leads(s, at)
<1>1. Len(s) \in Nat /\ Len(at) \in Nat
  BY DEF Path
<1>2. CASE Len(s) <= Len(at)
  <2>1. /\ SubSeq(s, 1, Len(s)) \in Path /\ SubSeq(at, 1, Len(s)) \in Path
        /\ Len(SubSeq(s, 1, Len(s))) = Len(s) /\ Len(SubSeq(at, 1, Len(s))) = Len(s)
        /\ \A i \in 1..Len(s) : SubSeq(s, 1, Len(s))[i] = s[i] /\ SubSeq(at, 1, Len(s))[i] = at[i]
    BY <1>1, <1>2 DEF Path
  <2>2. SubSeq(s, 1, Len(s)) = SubSeq(at, 1, Len(s)) <=> \A i \in 1..Len(s) : s[i] = at[i]
    BY <2>1, SamePath
  <2> QED BY <1>2, <2>2 DEF Registry!Under, Registry!IsPrefix, Leads
<1>3. CASE ~(Len(s) <= Len(at))
  BY <1>3 DEF Registry!Under, Registry!IsPrefix, Leads
<1> QED BY <1>2, <1>3

\* What is below a path.
LEMMA TailIs ==
  ASSUME NEW s \in Path, NEW n \in 0..Len(s)
  PROVE  /\ SubSeq(s, n + 1, Len(s)) \in Path
         /\ Len(SubSeq(s, n + 1, Len(s))) = Len(s) - n
         /\ \A i \in 1..(Len(s) - n) : SubSeq(s, n + 1, Len(s))[i] = s[n + i]
BY DEF Path

\* What is above it.
LEMMA HeadIs ==
  ASSUME NEW s \in Path, NEW n \in 0..Len(s)
  PROVE  /\ SubSeq(s, 1, n) \in Path
         /\ Len(SubSeq(s, 1, n)) = n
         /\ \A i \in 1..n : SubSeq(s, 1, n)[i] = s[i]
BY DEF Path

LEMMA JoinIs ==
  ASSUME NEW s \in Path, NEW t \in Path
  PROVE  /\ s \o t \in Path /\ Len(s \o t) = Len(s) + Len(t)
         /\ \A i \in 1..Len(s) : (s \o t)[i] = s[i]
         /\ \A i \in 1..Len(t) : (s \o t)[Len(s) + i] = t[i]
BY DEF Path

LEMMA LongerIs ==
  ASSUME NEW s \in Path, NEW k \in KeyNames
  PROVE  /\ Append(s, k) \in Path /\ Len(Append(s, k)) = Len(s) + 1
         /\ \A i \in 1..Len(s) : Append(s, k)[i] = s[i]
         /\ Append(s, k)[Len(s) + 1] = k
BY DEF Path

-----------------------------------------------------------------------------
(* The registry: what each operation does to the tree.                     *)

\* A database of one key.
LEMMA DefaultIsWhole ==
  ASSUME Registry!RegistryAssumption
  PROVE  Whole(Registry!DefaultDb)
<1> DEFINE k == CHOOSE k \in KeyNames : Registry!IsKeyNode(k)
<1>1. k \in KeyNames
  BY DEF Registry!RegistryAssumption, Registry!IsKeyNode
<1> HIDE DEF k
<1>2. Registry!DefaultDb = [keys |-> {<<>>, <<k>>}, vals |-> {}]
  BY DEF Registry!DefaultDb, Registry!Root, k
<1>3. <<>> \in Path /\ <<k>> \in Path /\ Len(<<>>) = 0 /\ Len(<<k>>) = 1 /\ <<k>>[1] = k
  BY <1>1 DEF Path
<1>4. MaxDepth \in Nat \ {0}
  BY DEF Registry!RegistryAssumption
<1>5. {<<>>, <<k>>} \subseteq Registry!Paths
  <2>1. 0 <= MaxDepth /\ 1 <= MaxDepth
    BY <1>4
  <2>2. <<>> \in Registry!Paths
    BY <1>3, <2>1, PathsAre
  <2>3. <<k>> \in Registry!Paths
    BY <1>3, <2>1, PathsAre
  <2> QED BY <2>2, <2>3
<1>6. ASSUME NEW t \in Path, NEW s \in {<<>>, <<k>>}, Leads(t, s)
      PROVE  t \in {<<>>, <<k>>}
  <2>1. CASE Len(t) = 0
    <3>1. t = <<>>
      BY <2>1 DEF Path
    <3> QED BY <3>1
  <2>2. CASE Len(t) = 1
    <3>1. s = <<k>> /\ t[1] = k
      BY <1>3, <1>6, <2>2 DEF Leads
    <3> QED BY <1>3, <2>2, <3>1, SamePath
  <2>3. Len(t) \in Nat /\ Len(t) <= 1
    BY <1>3, <1>6 DEF Leads, Path
  <2>4. Len(t) = 0 \/ Len(t) = 1
    <3>1. \A n \in Nat : n <= 1 => n = 0 \/ n = 1
      OBVIOUS
    <3> QED BY <2>3, <3>1
  <2> QED BY <2>1, <2>2, <2>4
<1>7. Rooted({<<>>, <<k>>})
  BY <1>5, <1>6 DEF Rooted
<1>8. Hung({}, {<<>>, <<k>>})
  BY DEF Hung
<1> QED BY <1>2, <1>7, <1>8 DEF Whole

\* A key under one that is there.
LEMMA CreatedIsWhole ==
  ASSUME Registry!RegistryAssumption, NEW db, Whole(db), NEW s \in db.keys, Len(s) < MaxDepth,
         NEW k \in KeyNames
  PROVE  Rooted(db.keys \cup {Append(s, k)}) /\ Hung(db.vals, db.keys \cup {Append(s, k)})
<1> DEFINE new == Append(s, k)
<1>1. s \in Path /\ MaxDepth \in Nat
  BY PathsAre DEF Whole, Rooted, Registry!RegistryAssumption
<1>2. /\ new \in Path /\ Len(new) = Len(s) + 1
      /\ \A i \in 1..Len(s) : new[i] = s[i]
  BY <1>1, LongerIs
<1> HIDE DEF new
<1>3. new \in Registry!Paths
  <2>1. Len(s) \in Nat
    BY <1>1 DEF Path
  <2>2. Len(new) <= MaxDepth
    BY <1>1, <1>2, <2>1
  <2> QED BY <1>2, <2>2, PathsAre
<1>4. ASSUME NEW t \in Path, Leads(t, new)
      PROVE  t \in db.keys \cup {new}
  <2>1. Len(t) \in Nat /\ Len(s) \in Nat
    BY <1>1 DEF Path
  <2>2. CASE Len(t) <= Len(s)
    <3>1. Leads(t, s)
      BY <1>2, <1>4, <2>1, <2>2 DEF Leads
    <3> QED BY <3>1 DEF Whole, Rooted
  <2>3. CASE Len(t) = Len(s) + 1
    <3>1. t = new
      BY <1>2, <1>4, <2>3, SamePath DEF Leads
    <3> QED BY <3>1
  <2> QED BY <1>2, <1>4, <2>1, <2>2, <2>3 DEF Leads
<1>5. Rooted(db.keys \cup {new})
  BY <1>3, <1>4 DEF Whole, Rooted
<1>6. Hung(db.vals, db.keys \cup {new})
  BY DEF Whole, Hung
<1> QED BY <1>5, <1>6 DEF new

\* A key that leads to none that stays, and what is below it, is deleted.
LEMMA DeletedIsWhole ==
  ASSUME Registry!RegistryAssumption, NEW db, Whole(db), NEW s \in db.keys, s # <<>>
  PROVE  LET keys == {u \in db.keys : ~Registry!Under(s, u)}
             vals == {v \in db.vals : ~Registry!Under(s, v.at)}
         IN  Rooted(keys) /\ Hung(vals, keys) /\ Registry!Front(s) \in keys
<1> DEFINE keys == {u \in db.keys : ~Registry!Under(s, u)}
           vals == {v \in db.vals : ~Registry!Under(s, v.at)}
<1>1. s \in Path /\ db.keys \subseteq Path /\ <<>> \in db.keys /\ <<>> \in Path
  BY PathsAre DEF Whole, Rooted
<1>2. Len(s) \in Nat \ {0} /\ Len(<<>>) = 0
  BY <1>1 DEF Path
<1>3. \A u \in Path : Registry!Under(s, u) <=> Leads(s, u)
  BY <1>1, UnderIs
<1>4. \A u : u \in keys <=> u \in db.keys /\ ~Leads(s, u)
  BY <1>1, <1>3
<1> HIDE DEF keys
<1>5. <<>> \in keys
  BY <1>1, <1>2, <1>4 DEF Leads
<1>6. ASSUME NEW u \in keys, NEW t \in Path, Leads(t, u)
      PROVE  t \in keys
  <2>1. t \in db.keys /\ u \in Path
    BY <1>1, <1>4, <1>6 DEF Whole, Rooted
  <2>2. Leads(s, t) => Leads(s, u)
    <3>1. Len(t) \in Nat /\ Len(u) \in Nat
      BY <2>1 DEF Path
    <3> QED BY <1>2, <1>6, <3>1 DEF Leads
  <2> QED BY <1>4, <2>1, <2>2
<1>7. Rooted(keys)
  BY <1>4, <1>5, <1>6 DEF Whole, Rooted
<1>8. Hung(vals, keys)
  <2>1. vals \subseteq db.vals /\ \A v \in vals : v.at \in keys
    BY <1>1, <1>3, <1>4 DEF Whole, Hung
  <2> QED BY <2>1 DEF Whole, Hung
<1>9. Registry!Front(s) \in keys
  <2>1. Registry!Front(s) = SubSeq(s, 1, Len(s) - 1)
    BY DEF Registry!Front
  <2>2. /\ SubSeq(s, 1, Len(s) - 1) \in Path /\ Len(SubSeq(s, 1, Len(s) - 1)) = Len(s) - 1
        /\ \A i \in 1..(Len(s) - 1) : SubSeq(s, 1, Len(s) - 1)[i] = s[i]
    <3>1. Len(s) - 1 \in 0..Len(s)
      BY <1>2
    <3> QED BY <1>1, <3>1, HeadIs
  <2> DEFINE t == SubSeq(s, 1, Len(s) - 1)
  <2> HIDE DEF t
  <2>3. t \in Path /\ Len(t) = Len(s) - 1 /\ \A i \in 1..(Len(s) - 1) : t[i] = s[i]
    BY <2>2 DEF t
  <2>4. Leads(t, s) /\ ~Leads(s, t)
    BY <1>2, <2>3 DEF Leads
  <2>5. t \in db.keys
    BY <2>3, <2>4 DEF Whole, Rooted
  <2> QED BY <1>4, <2>1, <2>4, <2>5 DEF t
<1> QED BY <1>7, <1>8, <1>9 DEF keys, vals

-----------------------------------------------------------------------------
(* The registry: a key takes another name, and what is below goes with it. *)

\* Where a path goes when the key s takes the name k.
LEMMA MovedIs ==
  ASSUME NEW s \in Path, s # <<>>, NEW k \in KeyNames
  PROVE  LET new == Append(Registry!Front(s), k)
         IN  /\ new \in Path /\ Len(new) = Len(s) /\ new[Len(s)] = k
             /\ \A i \in 1..(Len(s) - 1) : new[i] = s[i]
             /\ \A at \in Path :
                  IF Leads(s, at)
                  THEN /\ Registry!Moved(at, s, new) \in Path
                       /\ Len(Registry!Moved(at, s, new)) = Len(at)
                       /\ \A i \in 1..Len(at) :
                            Registry!Moved(at, s, new)[i] = IF i = Len(s) THEN k ELSE at[i]
                  ELSE Registry!Moved(at, s, new) = at
<1> DEFINE f == Registry!Front(s)
           new == Append(f, k)
           n == Len(s)
<1>1. n \in Nat \ {0}
  BY DEF Path
<1>2. f \in Path /\ Len(f) = n - 1 /\ \A i \in 1..(n - 1) : f[i] = s[i]
  <2>1. n - 1 \in 0..Len(s)
    BY <1>1
  <2>2. f = SubSeq(s, 1, n - 1)
    BY DEF Registry!Front
  <2> QED BY <2>1, <2>2, HeadIs
<1> HIDE DEF f
<1>3. /\ new \in Path /\ Len(new) = n /\ new[n] = k
      /\ \A i \in 1..(n - 1) : new[i] = s[i]
  BY <1>1, <1>2, LongerIs
<1> HIDE DEF new
<1>4. ASSUME NEW at \in Path, ~Leads(s, at)
      PROVE  Registry!Moved(at, s, new) = at
  BY <1>4, UnderIs DEF Registry!Moved
<1>5. ASSUME NEW at \in Path, Leads(s, at)
      PROVE  /\ Registry!Moved(at, s, new) \in Path
             /\ Len(Registry!Moved(at, s, new)) = Len(at)
             /\ \A i \in 1..Len(at) : Registry!Moved(at, s, new)[i] = IF i = n THEN k ELSE at[i]
  <2> DEFINE tail == SubSeq(at, n + 1, Len(at))
             m == new \o tail
  <2>1. Len(at) \in Nat /\ n \in 0..Len(at)
    BY <1>1, <1>5 DEF Leads, Path
  <2>2. tail \in Path /\ Len(tail) = Len(at) - n /\ \A i \in 1..(Len(at) - n) : tail[i] = at[n + i]
    BY <2>1, TailIs
  <2>3. Registry!Moved(at, s, new) = m
    BY <1>5, UnderIs DEF Registry!Moved
  <2> HIDE DEF tail
  <2>4. /\ m \in Path /\ Len(m) = n + Len(tail)
        /\ \A i \in 1..n : m[i] = new[i]
        /\ \A i \in 1..Len(tail) : m[n + i] = tail[i]
    BY <1>3, <2>2, JoinIs
  <2> HIDE DEF m
  <2>5. Len(m) = Len(at)
    BY <2>1, <2>2, <2>4
  <2>6. ASSUME NEW i \in 1..Len(at)
        PROVE  m[i] = IF i = n THEN k ELSE at[i]
    <3>1. CASE i < n
      <4>1. i \in 1..n /\ i \in 1..(n - 1) /\ i # n
        BY <1>1, <2>1, <3>1
      <4>2. m[i] = s[i] /\ s[i] = at[i]
        BY <1>3, <1>5, <2>4, <4>1 DEF Leads
      <4> QED BY <4>1, <4>2
    <3>2. CASE i = n
      <4>1. i \in 1..n
        BY <1>1, <3>2
      <4> QED BY <1>3, <2>4, <3>2, <4>1
    <3>3. CASE i > n
      <4>1. i - n \in 1..(Len(at) - n) /\ n + (i - n) = i /\ i # n
        BY <1>1, <2>1, <3>3
      <4>2. m[n + (i - n)] = tail[i - n] /\ tail[i - n] = at[n + (i - n)]
        BY <2>2, <2>4, <4>1
      <4> QED BY <4>1, <4>2
    <3> QED BY <1>1, <3>1, <3>2, <3>3
  <2> QED BY <2>3, <2>4, <2>5, <2>6
<1> QED BY <1>3, <1>4, <1>5 DEF new, f, n

\* A key that takes a name no other has, with what is below it.
LEMMA RenamedIsWhole ==
  ASSUME Registry!RegistryAssumption, NEW db, Whole(db), NEW s \in db.keys, s # <<>>,
         NEW k \in KeyNames, Append(Registry!Front(s), k) \notin db.keys
  PROVE  LET new == Append(Registry!Front(s), k)
             keys == {Registry!Moved(u, s, new) : u \in db.keys}
             vals == {[v EXCEPT !.at = Registry!Moved(@, s, new)] : v \in db.vals}
         IN  Rooted(keys) /\ Hung(vals, keys) /\ new \in keys
<1> DEFINE new == Append(Registry!Front(s), k)
           M(u) == Registry!Moved(u, s, new)
           keys == {M(u) : u \in db.keys}
           vals == {[v EXCEPT !.at = M(v.at)] : v \in db.vals}
           n == Len(s)
<1>1. s \in Path /\ db.keys \subseteq Path /\ <<>> \in db.keys /\ <<>> \in Path /\ MaxDepth \in Nat
  BY PathsAre DEF Whole, Rooted, Registry!RegistryAssumption
<1>2. n \in Nat \ {0} /\ Len(<<>>) = 0 /\ \A u \in Path : Len(u) \in Nat
  BY <1>1 DEF Path
<1>3. /\ new \in Path /\ Len(new) = n /\ new[n] = k
      /\ \A i \in 1..(n - 1) : new[i] = s[i]
  BY <1>1, MovedIs
<1>4. \A u \in Path : ~Leads(s, u) => M(u) = u
  BY <1>1, MovedIs
<1>5. \A u \in Path : Leads(s, u) =>
         /\ M(u) \in Path /\ Len(M(u)) = Len(u)
         /\ \A i \in 1..Len(u) : M(u)[i] = IF i = n THEN k ELSE u[i]
  BY <1>1, MovedIs
<1> HIDE DEF new, M
<1>6. \A u \in Path : Leads(s, u) => Leads(new, M(u))
  BY <1>2, <1>3, <1>5 DEF Leads
<1>7. ASSUME NEW u \in db.keys, Leads(new, u)
      PROVE  FALSE
  BY <1>3, <1>7 DEF Whole, Rooted, new
<1>8. \A u \in Path : M(u) \in Path /\ Len(M(u)) = Len(u)
  BY <1>4, <1>5
<1>9. keys \subseteq Registry!Paths
  BY <1>1, <1>8, PathsAre DEF Whole, Rooted
<1>10. <<>> \in keys
  <2>1. M(<<>>) = <<>>
    BY <1>1, <1>2, <1>4 DEF Leads
  <2> QED BY <1>1, <2>1
<1>11. ASSUME NEW u \in db.keys, NEW t \in Path, Leads(t, M(u))
       PROVE  t \in keys
  <2>1. u \in Path /\ M(u) \in Path /\ Len(M(u)) = Len(u)
    BY <1>1, <1>8
  <2>2. CASE ~Leads(s, u)
    <3>1. t \in db.keys
      BY <1>4, <1>11, <2>1, <2>2 DEF Whole, Rooted
    <3>2. ~Leads(s, t)
      BY <1>2, <1>4, <1>11, <2>1, <2>2 DEF Leads
    <3> QED BY <1>4, <3>1, <3>2
  <2>3. CASE Leads(s, u) /\ Len(t) < n
    <3>1. Leads(t, u) /\ ~Leads(s, t)
      <4>1. Len(t) <= Len(u) /\ ~Leads(s, t)
        BY <1>2, <1>11, <2>1, <2>3 DEF Leads
      <4>2. ASSUME NEW i \in 1..Len(t)
            PROVE  t[i] = u[i]
        <5>1. i # n /\ i \in 1..Len(u)
          BY <1>2, <2>1, <2>3, <4>1
        <5>2. t[i] = M(u)[i]
          BY <1>11 DEF Leads
        <5> QED BY <1>5, <2>1, <2>3, <5>1, <5>2
      <4> QED BY <4>1, <4>2 DEF Leads
    <3>2. t \in db.keys
      BY <3>1 DEF Whole, Rooted
    <3> QED BY <1>4, <3>1, <3>2
  <2>4. CASE Leads(s, u) /\ n <= Len(t)
    <3> DEFINE old == SubSeq(u, 1, Len(t))
    <3>1. Len(t) \in 0..Len(u) /\ \A i \in 1..Len(t) : t[i] = M(u)[i]
      BY <1>2, <1>11, <2>1 DEF Leads
    <3>2. old \in Path /\ Len(old) = Len(t) /\ \A i \in 1..Len(t) : old[i] = u[i]
      BY <2>1, <3>1, HeadIs
    <3> HIDE DEF old
    <3>3. Leads(old, u)
      BY <3>1, <3>2 DEF Leads
    <3>4. old \in db.keys
      BY <3>2, <3>3 DEF Whole, Rooted
    <3>5. Leads(s, old)
      BY <1>2, <2>4, <3>2 DEF Leads
    <3>6. M(old) \in Path /\ Len(M(old)) = Len(t)
      BY <1>8, <3>2
    <3>7. ASSUME NEW i \in 1..Len(t)
          PROVE  M(old)[i] = t[i]
      <4>1. i \in 1..Len(old) /\ i \in 1..Len(u)
        BY <1>2, <2>1, <3>1, <3>2
      <4>2. M(old)[i] = (IF i = n THEN k ELSE old[i]) /\ M(u)[i] = (IF i = n THEN k ELSE u[i])
        BY <1>5, <2>1, <2>4, <3>2, <3>5, <4>1
      <4> QED BY <3>1, <3>2, <4>2
    <3>8. M(old) = t
      BY <3>6, <3>7, SamePath
    <3> QED BY <3>4, <3>8
  <2>5. Len(t) < n \/ n <= Len(t)
    BY <1>2
  <2> QED BY <2>2, <2>3, <2>4, <2>5
<1>12. Rooted(keys)
  BY <1>9, <1>10, <1>11 DEF Rooted
<1>13. \A u, v \in db.keys : M(u) = M(v) => u = v
  <2> SUFFICES ASSUME NEW u \in db.keys, NEW v \in db.keys, M(u) = M(v)
               PROVE  u = v
    OBVIOUS
  <2>1. u \in Path /\ v \in Path
    BY <1>1
  <2>2. CASE ~Leads(s, u) /\ ~Leads(s, v)
    BY <1>4, <2>1, <2>2
  <2>3. CASE Leads(s, u) /\ Leads(s, v)
    <3>1. Len(u) = Len(v)
      BY <1>8, <2>1
    <3>2. ASSUME NEW i \in 1..Len(u)
          PROVE  u[i] = v[i]
      <4>1. CASE i = n
        <5>1. i \in 1..n
          BY <1>2, <4>1
        <5> QED BY <2>3, <5>1 DEF Leads
      <4>2. CASE i # n
        <5>1. M(u)[i] = u[i] /\ M(v)[i] = v[i]
          BY <1>5, <2>1, <2>3, <3>1, <4>2
        <5> QED BY <5>1
      <4> QED BY <4>1, <4>2
    <3> QED BY <2>1, <3>1, <3>2, SamePath
  <2>4. CASE Leads(s, u) /\ ~Leads(s, v)
    <3>1. Leads(new, v)
      BY <1>4, <1>6, <2>1, <2>4
    <3> QED BY <1>7, <3>1
  <2>5. CASE ~Leads(s, u) /\ Leads(s, v)
    <3>1. Leads(new, u)
      BY <1>4, <1>6, <2>1, <2>5
    <3> QED BY <1>7, <3>1
  <2> QED BY <2>2, <2>3, <2>4, <2>5
<1>14. ASSUME NEW v \in db.vals
       PROVE  /\ v.at \in db.keys
              /\ [v EXCEPT !.at = M(v.at)] \in Registry!Values
              /\ [v EXCEPT !.at = M(v.at)].at = M(v.at)
              /\ [v EXCEPT !.at = M(v.at)].name = v.name
  <2>1. v \in Registry!Values /\ v.at \in db.keys
    BY DEF Whole, Hung
  <2>2. M(v.at) \in Registry!Paths
    BY <1>9, <2>1
  <2> QED BY <2>1, <2>2 DEF Registry!Values
<1>15. Hung(vals, keys)
  <2>1. vals \subseteq Registry!Values /\ \A w \in vals : w.at \in keys
    BY <1>14
  <2>2. ASSUME NEW a \in vals, NEW b \in vals, a.at = b.at, a.name = b.name
        PROVE  a = b
    <3>1. PICK u \in db.vals : a = [u EXCEPT !.at = M(u.at)]
      OBVIOUS
    <3>2. PICK v \in db.vals : b = [v EXCEPT !.at = M(v.at)]
      OBVIOUS
    <3>3. u.at \in db.keys /\ v.at \in db.keys /\ M(u.at) = M(v.at) /\ u.name = v.name
      BY <1>14, <2>2, <3>1, <3>2
    <3>4. u.at = v.at
      BY <1>13, <3>3
    <3>5. u = v
      BY <3>3, <3>4 DEF Whole, Hung
    <3> QED BY <3>1, <3>2, <3>5
  <2> QED BY <2>1, <2>2 DEF Hung
<1>16. new \in keys
  <2>1. Leads(s, s) /\ M(s) \in Path /\ Len(M(s)) = n
    BY <1>1, <1>8 DEF Leads
  <2>2. ASSUME NEW i \in 1..n
        PROVE  M(s)[i] = new[i]
    <3>1. M(s)[i] = IF i = n THEN k ELSE s[i]
      BY <1>1, <1>5, <2>1
    <3>2. i = n \/ i \in 1..(n - 1)
      BY <1>2
    <3> QED BY <1>3, <3>1, <3>2
  <2>3. M(s) = new
    BY <1>3, <2>1, <2>2, SamePath
  <2> QED BY <2>3
<1> QED BY <1>12, <1>15, <1>16 DEF new, M, keys, vals

-----------------------------------------------------------------------------
(* The registry: what is below a key is merged into another.               *)

\* What is below the key s of p, with the names that show, goes below the key u.
NewValues(p, s, u) ==
  {[v EXCEPT !.at = u \o @] : v \in {v \in Registry!ExportSubtree(p, s).vals : Registry!Clean(v.at)}}

MergedKeys(p, s, u) ==
  p.db.keys \cup {u \o x : x \in {x \in Registry!ExportSubtree(p, s).keys : Registry!Clean(x)}}

MergedValues(p, s, u) ==
  {v \in p.db.vals : ~\E w \in NewValues(p, s, u) : w.at = v.at /\ w.name = v.name} \cup NewValues(p, s, u)

LEMMA MergedIsWhole ==
  ASSUME Registry!RegistryAssumption, NEW p, Whole(p.db), NEW s \in p.db.keys, NEW u \in p.db.keys,
         \A x \in Registry!ExportSubtree(p, s).keys : Len(u) + Len(x) <= MaxDepth
  PROVE  Rooted(MergedKeys(p, s, u)) /\ Hung(MergedValues(p, s, u), MergedKeys(p, s, u))
<1> DEFINE n == Len(s)
           T(x) == SubSeq(x, n + 1, Len(x))
           obj == Registry!ExportSubtree(p, s)
           new == {[v EXCEPT !.at = u \o @] : v \in {v \in obj.vals : Registry!Clean(v.at)}}
           keys == p.db.keys \cup {u \o x : x \in {x \in obj.keys : Registry!Clean(x)}}
           vals == {v \in p.db.vals : ~\E w \in new : w.at = v.at /\ w.name = v.name} \cup new
           db == p.db
<1>1. s \in Path /\ u \in Path /\ db.keys \subseteq Path /\ MaxDepth \in Nat
  BY PathsAre DEF Whole, Rooted, Registry!RegistryAssumption
<1>2. n \in Nat /\ \A x \in Path : Len(x) \in Nat
  BY <1>1 DEF Path
<1>3. \A x \in Path : Leads(s, x) =>
        /\ T(x) \in Path /\ Len(T(x)) = Len(x) - n
        /\ \A i \in 1..(Len(x) - n) : T(x)[i] = x[n + i]
  <2> SUFFICES ASSUME NEW x \in Path, Leads(s, x)
               PROVE  /\ T(x) \in Path /\ Len(T(x)) = Len(x) - n
                      /\ \A i \in 1..(Len(x) - n) : T(x)[i] = x[n + i]
    OBVIOUS
  <2>1. n \in 0..Len(x)
    BY <1>2 DEF Leads
  <2> QED BY <2>1, TailIs
<1>4. obj.keys = {T(x) : x \in {x \in db.keys : Leads(s, x)}}
  <2>1. \A x \in db.keys : Registry!Under(s, x) <=> Leads(s, x)
    BY <1>1, UnderIs
  <2>2. {x \in db.keys : Registry!Under(s, x)} = {x \in db.keys : Leads(s, x)}
    BY <2>1
  <2> QED BY <2>2 DEF Registry!ExportSubtree
<1>5. obj.vals = {[v EXCEPT !.at = T(v.at)] : v \in {v \in db.vals : Leads(s, v.at)}}
  <2>1. \A v \in db.vals : Registry!Under(s, v.at) <=> Leads(s, v.at)
    BY <1>1, UnderIs DEF Whole, Hung
  <2>2. {v \in db.vals : Registry!Under(s, v.at)} = {v \in db.vals : Leads(s, v.at)}
    BY <2>1
  <2> QED BY <2>2 DEF Registry!ExportSubtree
<1>6. \A x \in obj.keys : Len(u) + Len(x) <= MaxDepth
  OBVIOUS
<1> HIDE DEF obj, T
<1>7. \A x \in obj.keys : x \in Path
  BY <1>1, <1>3, <1>4
<1>8. \A x \in Path : u \o x \in Path /\ Len(u \o x) = Len(u) + Len(x)
                      /\ (\A i \in 1..Len(u) : (u \o x)[i] = u[i])
                      /\ (\A i \in 1..Len(x) : (u \o x)[Len(u) + i] = x[i])
  BY <1>1, JoinIs
<1>9. keys \subseteq Registry!Paths
  <2>1. ASSUME NEW x \in obj.keys
        PROVE  u \o x \in Registry!Paths
    BY <1>6, <1>7, <1>8, PathsAre
  <2> QED BY <2>1 DEF Whole, Rooted
<1>10. ASSUME NEW x \in obj.keys, Registry!Clean(x), NEW t \in Path, Leads(t, u \o x)
       PROVE  t \in keys
  <2>1. PICK y \in db.keys : x = T(y) /\ Leads(s, y)
    BY <1>4
  <2>2. y \in Path /\ x \in Path /\ Len(x) = Len(y) - n /\ n <= Len(y)
    BY <1>1, <1>3, <2>1 DEF Leads
  <2>3. Len(t) <= Len(u) + Len(x) /\ \A i \in 1..Len(t) : t[i] = (u \o x)[i]
    BY <1>8, <1>10, <2>2 DEF Leads
  <2>4. Len(t) \in Nat /\ Len(u) \in Nat /\ Len(x) \in Nat /\ Len(y) \in Nat
    BY <1>1, <1>2, <2>2
  <2>5. CASE Len(t) <= Len(u)
    <3>1. \A i \in 1..Len(t) : t[i] = u[i]
      <4>1. \A i \in 1..Len(t) : i \in 1..Len(u)
        BY <2>4, <2>5
      <4> QED BY <1>8, <2>2, <2>3, <4>1
    <3>2. Leads(t, u)
      BY <2>5, <3>1 DEF Leads
    <3>3. t \in db.keys
      BY <3>2 DEF Whole, Rooted
    <3> QED BY <3>3
  <2>6. CASE Len(u) < Len(t)
    <3> DEFINE m == Len(t) - Len(u)
               z == SubSeq(y, 1, n + m)
    <3>1. m \in 1..Len(x) /\ n + m \in 0..Len(y) /\ n <= n + m /\ n + m \in Nat
      BY <1>2, <2>2, <2>3, <2>4, <2>6
    <3>2. z \in Path /\ Len(z) = n + m /\ \A i \in 1..(n + m) : z[i] = y[i]
      BY <2>2, <3>1, HeadIs
    <3> HIDE DEF z, m
    <3>3. Leads(z, y)
      BY <2>4, <3>1, <3>2 DEF Leads
    <3>4. z \in db.keys
      BY <3>2, <3>3 DEF Whole, Rooted
    <3>5. Leads(s, z)
      <4>1. \A i \in 1..n : i \in 1..(n + m)
        BY <1>2, <3>1
      <4> QED BY <2>1, <3>1, <3>2, <4>1 DEF Leads
    <3>6. T(z) \in Path /\ Len(T(z)) = m /\ \A i \in 1..m : T(z)[i] = z[n + i]
      <4>1. Len(z) - n = m
        BY <1>2, <3>1, <3>2
      <4> QED BY <1>3, <3>2, <3>5, <4>1
    <3>7. \A i \in 1..m : T(z)[i] = x[i]
      <4> SUFFICES ASSUME NEW i \in 1..m
                   PROVE  T(z)[i] = x[i]
        OBVIOUS
      <4>1. n + i \in 1..(n + m) /\ i \in 1..(Len(y) - n)
        BY <1>2, <2>2, <3>1
      <4>2. z[n + i] = y[n + i] /\ x[i] = y[n + i]
        BY <1>3, <2>1, <2>2, <3>2, <4>1
      <4> QED BY <3>6, <4>2
    <3>8. Registry!Clean(T(z))
      <4>1. \A i \in 1..m : i \in 1..Len(x)
        BY <2>4, <3>1
      <4> QED BY <1>10, <3>6, <3>7, <4>1 DEF Registry!Clean
    <3>9. u \o T(z) = t
      <4>1. u \o T(z) \in Path /\ Len(u \o T(z)) = Len(t)
        <5>1. Len(u) + m = Len(t)
          BY <2>4 DEF m
        <5> QED BY <1>8, <3>6, <5>1
      <4>2. ASSUME NEW i \in 1..Len(t)
            PROVE  (u \o T(z))[i] = t[i]
        <5>1. CASE i \in 1..Len(u)
          BY <1>8, <2>2, <2>3, <3>6, <5>1
        <5>2. CASE i \notin 1..Len(u)
          <6>1. i - Len(u) \in 1..m /\ i - Len(u) \in 1..Len(x) /\ Len(u) + (i - Len(u)) = i
            BY <2>2, <2>3, <2>4, <5>2 DEF m
          <6>2. (u \o T(z))[Len(u) + (i - Len(u))] = T(z)[i - Len(u)]
            BY <1>8, <3>6, <6>1
          <6>3. (u \o x)[Len(u) + (i - Len(u))] = x[i - Len(u)]
            BY <1>8, <2>2, <6>1
          <6> QED BY <2>3, <3>7, <6>1, <6>2, <6>3
        <5> QED BY <5>1, <5>2
      <4> QED BY <4>1, <4>2, SamePath
    <3>10. T(z) \in obj.keys
      BY <1>4, <3>4, <3>5
    <3> QED BY <3>8, <3>9, <3>10
  <2> QED BY <2>4, <2>5, <2>6
<1>11. Rooted(keys)
  <2>1. ASSUME NEW t \in Path, NEW x \in keys, Leads(t, x)
        PROVE  t \in keys
    <3>1. CASE x \in db.keys
      BY <2>1, <3>1 DEF Whole, Rooted
    <3>2. CASE x \notin db.keys
      <4>1. PICK y \in obj.keys : Registry!Clean(y) /\ x = u \o y
        BY <3>2
      <4> QED BY <1>10, <2>1, <4>1
    <3> QED BY <3>1, <3>2
  <2>2. <<>> \in keys
    BY DEF Whole, Rooted
  <2> QED BY <1>9, <2>1, <2>2 DEF Rooted
\* A new value is one of below s, in its new place.
<1>12. ASSUME NEW w \in new
       PROVE  \E v \in db.vals :
                /\ Leads(s, v.at) /\ v.at \in Path
                /\ w \in Registry!Values /\ w.at \in keys
                /\ w = [v EXCEPT !.at = u \o T(v.at)]
                /\ w.at = u \o T(v.at) /\ w.name = v.name
  <2>1. PICK a \in obj.vals : Registry!Clean(a.at) /\ w = [a EXCEPT !.at = u \o a.at]
    OBVIOUS
  <2>2. PICK v \in db.vals : Leads(s, v.at) /\ a = [v EXCEPT !.at = T(v.at)]
    BY <1>5, <2>1
  <2>3. v.at \in db.keys /\ v \in [at : Registry!Paths, name : ValueNames, type : ValueTypes]
    BY DEF Whole, Hung, Registry!Values
  <2>4. a.at = T(v.at)
    BY <2>2, <2>3
  <2>5. T(v.at) \in obj.keys
    BY <1>4, <2>2, <2>3
  <2>6. u \o T(v.at) \in keys
    BY <2>1, <2>4, <2>5
  <2>7. u \o T(v.at) \in Registry!Paths
    BY <1>9, <2>6
  <2> DEFINE b == [v EXCEPT !.at = u \o T(v.at)]
  <2>8. w = b
    BY <2>1, <2>2, <2>3, <2>4
  <2> HIDE DEF new, keys
  <2>9. b \in Registry!Values /\ b.at = u \o T(v.at) /\ b.name = v.name
    BY <2>3, <2>7 DEF Registry!Values
  <2> QED BY <1>1, <2>2, <2>3, <2>6, <2>8, <2>9
<1>13. ASSUME NEW x \in Path, NEW y \in Path, Leads(s, x), Leads(s, y), u \o T(x) = u \o T(y)
       PROVE  x = y
  <2>1. /\ T(x) \in Path /\ Len(T(x)) = Len(x) - n /\ T(y) \in Path /\ Len(T(y)) = Len(y) - n
        /\ \A i \in 1..(Len(x) - n) : T(x)[i] = x[n + i]
        /\ \A i \in 1..(Len(y) - n) : T(y)[i] = y[n + i]
    BY <1>3, <1>13
  <2>2. Len(u) \in Nat /\ Len(x) \in Nat /\ Len(y) \in Nat
    BY <1>1, <1>2
  <2> HIDE DEF new, keys, db
  <2>3. Len(u) + Len(T(x)) = Len(u) + Len(T(y))
    <3>1. Len(u \o T(x)) = Len(u) + Len(T(x)) /\ Len(u \o T(y)) = Len(u) + Len(T(y))
      BY <1>8, <2>1
    <3> QED BY <1>13, <3>1
  <2>4. Len(x) = Len(y)
    <3>1. Len(T(x)) = Len(x) - n /\ Len(T(y)) = Len(y) - n
      BY <2>1
    <3> QED BY <1>2, <2>2, <2>3, <3>1
  <2>5. ASSUME NEW i \in 1..Len(x)
        PROVE  x[i] = y[i]
    <3>1. CASE i \in 1..n
      BY <1>13, <3>1 DEF Leads
    <3>2. CASE i \notin 1..n
      <4>1. i - n \in 1..(Len(x) - n) /\ n + (i - n) = i
        BY <1>2, <2>2, <3>2
      <4>2. T(x)[i - n] = x[n + (i - n)] /\ T(y)[i - n] = y[n + (i - n)]
        BY <2>1, <2>4, <4>1
      <4>3. (u \o T(x))[Len(u) + (i - n)] = T(x)[i - n] /\ (u \o T(y))[Len(u) + (i - n)] = T(y)[i - n]
        BY <1>8, <2>1, <2>4, <4>1
      <4> QED BY <1>13, <4>1, <4>2, <4>3
    <3> QED BY <3>1, <3>2
  <2> QED BY <2>4, <2>5, SamePath
<1>14. Hung(vals, keys)
  <2>1. vals \subseteq Registry!Values /\ \A v \in vals : v.at \in keys
    <3>1. \A v \in db.vals : v \in Registry!Values /\ v.at \in keys
      BY DEF Whole, Hung
    <3> QED BY <1>12, <3>1
  <2>2. ASSUME NEW a \in vals, NEW b \in vals, a.at = b.at, a.name = b.name
        PROVE  a = b
    <3>1. CASE a \in new /\ b \in new
      <4>1. PICK v \in db.vals : /\ Leads(s, v.at) /\ v.at \in Path /\ a = [v EXCEPT !.at = u \o T(v.at)]
                                 /\ a.at = u \o T(v.at) /\ a.name = v.name
        BY <1>12, <3>1
      <4>2. PICK w \in db.vals : /\ Leads(s, w.at) /\ w.at \in Path /\ b = [w EXCEPT !.at = u \o T(w.at)]
                                 /\ b.at = u \o T(w.at) /\ b.name = w.name
        BY <1>12, <3>1
      <4>3. v.at = w.at /\ v.name = w.name
        BY <1>13, <2>2, <4>1, <4>2
      <4>4. v = w
        BY <4>3 DEF Whole, Hung
      <4> QED BY <4>1, <4>2, <4>4
    <3>2. CASE a \notin new /\ b \notin new
      <4>1. a \in db.vals /\ b \in db.vals
        BY <3>2
      <4> QED BY <2>2, <4>1 DEF Whole, Hung
    <3>3. CASE a \in new /\ b \notin new
      BY <2>2, <3>3
    <3>4. CASE a \notin new /\ b \in new
      BY <2>2, <3>4
    <3> QED BY <3>1, <3>2, <3>3, <3>4
  <2> QED BY <2>1, <2>2 DEF Hung
<1> QED BY <1>11, <1>14 DEF obj, NewValues, MergedKeys, MergedValues

-----------------------------------------------------------------------------
(* The registry: the windows.                                              *)

\* A window whose tree is replaced.
Replant(p, keys, vals) == [p EXCEPT !.db.keys = keys, !.db.vals = vals]

LEMMA Replanted ==
  ASSUME NEW p, Window(p), NEW keys, NEW vals, Rooted(keys), Hung(vals, keys)
  PROVE  LET q == Replant(p, keys, vals)
         IN  Planted(q) /\ q.db.keys = keys /\ q.path = p.path
<1> DEFINE d == [p.db EXCEPT !.keys = keys]
           e == [d EXCEPT !.vals = vals]
           q == [p EXCEPT !.db = e]
<1>1. p.db = [f \in {"keys", "vals"} |-> p.db[f]] /\ p = [f \in WindowFields |-> p[f]]
  BY DEF Window, Planted, Whole
<1>2. d = [f \in {"keys", "vals"} |-> d[f]] /\ d.keys = keys
  BY <1>1
<1> HIDE DEF d
<1>3. e = [keys |-> keys, vals |-> vals]
  BY <1>2
<1> HIDE DEF e
<1>4. q = [f \in WindowFields |-> q[f]] /\ q.db = e /\ q.path = p.path
  BY <1>1 DEF WindowFields
<1> HIDE DEF q
<1>5. Whole(q.db)
  BY <1>3, <1>4 DEF Whole
<1>6. q.db.keys = keys
  BY <1>3, <1>4
<1>7. Planted(q)
  BY <1>4, <1>5 DEF Planted
<1>8. Replant(p, keys, vals) = q
  BY <1>1 DEF q, e, d, WindowFields, Replant
<1> QED BY <1>4, <1>6, <1>7, <1>8

\* A window whose values are replaced.
LEMMA Revalued ==
  ASSUME NEW p, Window(p), NEW vals, Hung(vals, p.db.keys)
  PROVE  Window([p EXCEPT !.db.vals = vals])
<1> DEFINE e == [p.db EXCEPT !.vals = vals]
           q == [p EXCEPT !.db = e]
<1>1. p.db = [f \in {"keys", "vals"} |-> p.db[f]] /\ p = [f \in WindowFields |-> p[f]]
  BY DEF Window, Planted, Whole
<1>2. e = [f \in {"keys", "vals"} |-> e[f]] /\ e.vals = vals /\ e.keys = p.db.keys
  BY <1>1
<1> HIDE DEF e
<1>3. q = [f \in WindowFields |-> q[f]] /\ q.db = e /\ q.path = p.path
  BY <1>1 DEF WindowFields
<1> HIDE DEF q
<1>4. Whole(q.db)
  BY <1>2, <1>3 DEF Whole, Window, Planted
<1>5. Window(q)
  BY <1>2, <1>3, <1>4 DEF Window, Planted
<1>6. [p EXCEPT !.db.vals = vals] = q
  BY <1>1 DEF q, e, WindowFields
<1> QED BY <1>5, <1>6

\* A window that gets a key.
LEMMA Regrown ==
  ASSUME NEW p, Window(p), NEW keys, Rooted(keys), Hung(p.db.vals, keys), p.db.keys \subseteq keys
  PROVE  Window([p EXCEPT !.db.keys = keys])
<1> DEFINE e == [p.db EXCEPT !.keys = keys]
           q == [p EXCEPT !.db = e]
<1>1. p.db = [f \in {"keys", "vals"} |-> p.db[f]] /\ p = [f \in WindowFields |-> p[f]]
  BY DEF Window, Planted, Whole
<1>2. e = [f \in {"keys", "vals"} |-> e[f]] /\ e.keys = keys /\ e.vals = p.db.vals
  BY <1>1
<1> HIDE DEF e
<1>3. q = [f \in WindowFields |-> q[f]] /\ q.db = e /\ q.path = p.path
  BY <1>1 DEF WindowFields
<1> HIDE DEF q
<1>4. Whole(q.db)
  BY <1>2, <1>3 DEF Whole
<1>5. Window(q)
  BY <1>2, <1>3, <1>4 DEF Window, Planted
<1>6. [p EXCEPT !.db.keys = keys] = q
  BY <1>1 DEF q, e, WindowFields
<1> QED BY <1>5, <1>6

\* A window that goes elsewhere stays whole.
LEMMA Navigated ==
  ASSUME NEW p, Planted(p), NEW s, Window(p) \/ s \in p.db.keys
  PROVE  Window(Registry!NavigateTo(p, s))
<1> DEFINE a == [p EXCEPT !.path = s]
           b == [a EXCEPT !.selected = ""]
           q == [b EXCEPT !.search = FALSE]
<1>1. CASE Registry!GetNode(p, s)
  <2>1. p = [f \in WindowFields |-> p[f]] /\ Whole(p.db) /\ s \in p.db.keys \cup {Registry!RuntimeRoot}
    BY <1>1 DEF Window, Planted, Registry!GetNode
  <2>2. a = [f \in WindowFields |-> a[f]] /\ a.db = p.db /\ a.path = s
    BY <2>1 DEF WindowFields
  <2> HIDE DEF a
  <2>3. b = [f \in WindowFields |-> b[f]] /\ b.db = p.db /\ b.path = s
    BY <2>2 DEF WindowFields
  <2> HIDE DEF b
  <2>4. q = [f \in WindowFields |-> q[f]] /\ q.db = p.db /\ q.path = s
    BY <2>3 DEF WindowFields
  <2> HIDE DEF q
  <2>5. Window(q)
    BY <2>1, <2>4 DEF Window, Planted
  <2>6. Registry!NavigateTo(p, s) = q
    BY <1>1, <2>1 DEF Registry!NavigateTo, q, b, a, WindowFields
  <2> QED BY <2>5, <2>6
<1>2. CASE ~Registry!GetNode(p, s)
  BY <1>2 DEF Registry!NavigateTo, Registry!GetNode
<1> QED BY <1>1, <1>2

\* One field of a window that says nothing of the tree.
LEMMA Relabelled ==
  ASSUME NEW p, Window(p), NEW f \in {"selected", "search", "readonly"}, NEW v
  PROVE  Window([p EXCEPT ![f] = v])
<1> DEFINE q == [p EXCEPT ![f] = v]
<1>1. q = [g \in WindowFields |-> q[g]] /\ q.db = p.db /\ q.path = p.path
  BY DEF Window, Planted, WindowFields
<1> HIDE DEF q
<1>2. Window(q)
  BY <1>1 DEF Window, Planted
<1> QED BY <1>2 DEF q

\* A window that is opened.
LEMMA OpenedIs ==
  ASSUME NEW db, Whole(db)
  PROVE  Window(Registry!Opened(db))
<1>1. /\ Registry!Opened(db).db = db /\ Registry!Opened(db).path = <<>>
      /\ Registry!Opened(db) = [f \in WindowFields |-> Registry!Opened(db)[f]]
  BY DEF Registry!Opened, WindowFields, Registry!Root
<1> QED BY <1>1 DEF Window, Planted, Whole, Rooted

\* One window changes.
LEMMA Redrawn ==
  ASSUME RegistryInv, NEW w \in Windows, NEW p, Window(p), Whole(srv'),
         page'.open = [page.open EXCEPT ![w] = p],
         page' = [f \in {"open", "timer", "changes"} |-> page'[f]]
  PROVE  RegistryInv'
<1>1. page.open = [v \in Windows |-> page.open[v]]
  BY DEF RegistryInv
<1>2. page'.open = [v \in Windows |-> IF v = w THEN p ELSE page.open[v]]
  BY <1>1
<1>3. \A v \in Windows : Window(page'.open[v])
  BY <1>2 DEF RegistryInv
<1>4. page'.open = [v \in Windows |-> page'.open[v]]
  BY <1>2
<1>5. (\A v \in Windows : Window(page.open[v]))'
  BY <1>3 DEF Window, Planted, Whole, Rooted, Hung, Leads, Path, WindowFields, Registry!Paths, Registry!Values, Registry!RuntimeRoot
<1>6. Whole(srv)'
  BY DEF Whole, Rooted, Hung, Leads, Path, Registry!Paths, Registry!Values
<1> QED BY <1>4, <1>5, <1>6 DEF RegistryInv

LEMMA Quietly ==
  ASSUME RegistryInv, NEW w \in Windows, NEW p, Window(p), Registry!Quiet(w, p) \/ Registry!Edit(w, p)
  PROVE  RegistryInv'
<1>1. /\ srv' = srv
      /\ page'.open = [page.open EXCEPT ![w] = p]
      /\ page' = [f \in {"open", "timer", "changes"} |-> page'[f]]
  BY DEF RegistryInv, Registry!Quiet, Registry!Edit
<1>2. Whole(srv')
  BY <1>1 DEF RegistryInv
<1> QED BY <1>1, <1>2, Redrawn

-----------------------------------------------------------------------------
(* The registry: its steps.                                                *)

\* A window in a state of the page.
LEMMA WindowOf ==
  ASSUME RegistryInv, NEW w \in Windows
  PROVE  /\ Window(page.open[w]) /\ Planted(page.open[w]) /\ Whole(page.open[w].db)
         /\ Rooted(page.open[w].db.keys) /\ Hung(page.open[w].db.vals, page.open[w].db.keys)
BY DEF RegistryInv, Window, Planted, Whole

\* The menu is of a key of the tree.
LEMMA MenuIsOfAKey ==
  ASSUME NEW w, NEW s, Registry!TreeMenu(w, s)
  PROVE  s \in page.open[w].db.keys
BY DEF Registry!TreeMenu, Registry!GetNode, Registry!ReadOnly

LEMMA KeysStep ==
  ASSUME Registry!RegistryAssumption, RegistryInv, NEW w \in Windows, NEW s,
         \/ Registry!DeleteKey(w, s)
         \/ \E k \in KeyNames : Registry!CreateKey(w, s, k) \/ Registry!RenameKey(w, s, k)
  PROVE  RegistryInv'
<1> DEFINE p == page.open[w]
<1>1. Window(p) /\ Planted(p) /\ Whole(p.db)
  BY WindowOf
<1>2. CASE Registry!DeleteKey(w, s)
  <2> DEFINE keys == {u \in p.db.keys : ~Registry!Under(s, u)}
             vals == {v \in p.db.vals : ~Registry!Under(s, v.at)}
             q == Replant(p, keys, vals)
  <2>1. s \in p.db.keys /\ s # <<>>
    BY <1>2, MenuIsOfAKey DEF Registry!DeleteKey, Registry!Root
  <2>2. Rooted(keys) /\ Hung(vals, keys) /\ Registry!Front(s) \in keys
    BY <1>1, <2>1, DeletedIsWhole
  <2>3. Registry!Edit(w, Registry!NavigateTo(q, Registry!Front(s)))
    BY <1>2 DEF Registry!DeleteKey, Replant
  <2> HIDE DEF keys, vals
  <2>4. Planted(q) /\ q.db.keys = keys
    BY <1>1, <2>2, Replanted
  <2>5. Window(Registry!NavigateTo(q, Registry!Front(s)))
    BY <2>2, <2>4, Navigated
  <2> QED BY <2>3, <2>5, Quietly
<1>3. ASSUME NEW k \in KeyNames, Registry!CreateKey(w, s, k)
      PROVE  RegistryInv'
  <2>1. s \in p.db.keys /\ Len(s) < MaxDepth
    BY <1>3, MenuIsOfAKey DEF Registry!CreateKey
  <2> DEFINE keys == p.db.keys \cup {Append(s, k)}
             q == [p EXCEPT !.db.keys = keys]
  <2>2. Rooted(keys) /\ Hung(p.db.vals, keys) /\ p.db.keys \subseteq keys
    BY <1>1, <2>1, CreatedIsWhole
  <2>3. Registry!Edit(w, q)
    BY <1>3 DEF Registry!CreateKey
  <2> HIDE DEF keys
  <2>4. Window(q)
    BY <1>1, <2>2, Regrown
  <2> QED BY <2>3, <2>4, Quietly
<1>4. ASSUME NEW k \in KeyNames, Registry!RenameKey(w, s, k)
      PROVE  RegistryInv'
  <2> DEFINE new == Append(Registry!Front(s), k)
             keys == {Registry!Moved(u, s, new) : u \in p.db.keys}
             vals == {[v EXCEPT !.at = Registry!Moved(@, s, new)] : v \in p.db.vals}
             q == Replant(p, keys, vals)
             r == [q EXCEPT !.path = new]
  <2>1. s \in p.db.keys /\ s # <<>> /\ new \notin p.db.keys
    BY <1>4, MenuIsOfAKey DEF Registry!RenameKey, Registry!Root
  <2>2. Rooted(keys) /\ Hung(vals, keys) /\ new \in keys
    BY <1>1, <2>1, RenamedIsWhole
  <2>3. Registry!Edit(w, [p EXCEPT !.db.keys = keys, !.db.vals = vals, !.path = new])
    BY <1>4 DEF Registry!RenameKey
  <2> HIDE DEF keys, vals, new
  <2>4. Planted(q) /\ q.db.keys = keys
    BY <1>1, <2>2, Replanted
  <2>5. [p EXCEPT !.db.keys = keys, !.db.vals = vals, !.path = new] = r
    BY DEF Replant
  <2> HIDE DEF q
  <2>6. r = [f \in WindowFields |-> r[f]] /\ r.db = q.db /\ r.path = new
    BY <2>4 DEF Planted, WindowFields
  <2> HIDE DEF r
  <2>7. Window(r)
    BY <2>2, <2>4, <2>6 DEF Window, Planted
  <2> QED BY <2>3, <2>5, <2>7, Quietly
<1> QED BY <1>2, <1>3, <1>4

\* A value is put in the place of one of its name.
LEMMA SetIsHung ==
  ASSUME NEW p, Window(p), NEW s \in p.db.keys, NEW name \in ValueNames, NEW type \in ValueTypes
  PROVE  Window(Registry!SetValue(p, s, name, type))
<1> DEFINE new == [at |-> s, name |-> name, type |-> type]
           vals == {v \in p.db.vals : ~(v.at = s /\ v.name = name)} \cup {new}
<1>1. Rooted(p.db.keys) /\ Hung(p.db.vals, p.db.keys)
  BY DEF Window, Planted, Whole
<1>2. new \in Registry!Values /\ new.at = s /\ new.name = name
  BY <1>1 DEF Rooted, Registry!Values
<1>3. Registry!SetValue(p, s, name, type) = [p EXCEPT !.db.vals = vals]
  BY DEF Registry!SetValue
<1> HIDE DEF new
<1>4. Hung(vals, p.db.keys)
  BY <1>1, <1>2 DEF Hung
<1> HIDE DEF vals
<1> QED BY <1>3, <1>4, Revalued

LEMMA ValuesStep ==
  ASSUME RegistryInv, NEW w \in Windows,
         \/ Registry!DeleteChosen(w)
         \/ \E s, n, t : n \in ValueNames /\ t \in ValueTypes /\ Registry!NewValue(w, s, n, t)
         \/ \E v : \/ Registry!EditValue(w, v) \/ Registry!DeleteValue(w, v)
                   \/ \E n \in ValueNames : Registry!RenameValue(w, v, n)
  PROVE  RegistryInv'
<1> DEFINE p == page.open[w]
<1>1. /\ Window(p) /\ Rooted(p.db.keys) /\ Hung(p.db.vals, p.db.keys)
      /\ p = [f \in WindowFields |-> p[f]] /\ p.db = [f \in {"keys", "vals"} |-> p.db[f]]
  BY WindowOf DEF Planted, Whole
<1>2. \A v \in p.db.vals : v.at \in p.db.keys /\ v.name \in ValueNames /\ v.type \in ValueTypes
  BY <1>1 DEF Hung, Registry!Values
<1>3. \A v : v \in Registry!ValueRows(p) => v \in p.db.vals
  BY DEF Registry!ValueRows, Registry!ValueEntries
<1>4. CASE Registry!DeleteChosen(w)
  <2> DEFINE vals == {v \in p.db.vals : ~(v.at = p.path /\ v.name = p.selected)}
             q == [p EXCEPT !.db.vals = vals]
             r == [q EXCEPT !["selected"] = ""]
  <2>1. Hung(vals, p.db.keys)
    BY <1>1 DEF Hung
  <2>2. Registry!Edit(w, [p EXCEPT !.db.vals = vals, !.selected = ""])
    BY <1>4 DEF Registry!DeleteChosen
  <2> HIDE DEF vals
  <2>3. Window(q)
    BY <1>1, <2>1, Revalued
  <2>4. [p EXCEPT !.db.vals = vals, !.selected = ""] = r
    OBVIOUS
  <2> HIDE DEF q
  <2>5. Window(r)
    BY <2>3, Relabelled
  <2> QED BY <2>2, <2>4, <2>5, Quietly
<1>5. ASSUME NEW s, NEW n \in ValueNames, NEW t \in ValueTypes, Registry!NewValue(w, s, n, t)
      PROVE  RegistryInv'
  <2>1. s \in p.db.keys /\ Registry!Edit(w, Registry!SetValue(p, s, n, t))
    BY <1>5, MenuIsOfAKey DEF Registry!NewValue
  <2>2. Window(Registry!SetValue(p, s, n, t))
    BY <1>1, <2>1, SetIsHung
  <2> QED BY <2>1, <2>2, Quietly
<1>6. ASSUME NEW v, Registry!EditValue(w, v)
      PROVE  RegistryInv'
  <2>1. v \in p.db.vals /\ Registry!Edit(w, Registry!SetValue(p, v.at, v.name, v.type))
    BY <1>3, <1>6 DEF Registry!EditValue
  <2>2. Window(Registry!SetValue(p, v.at, v.name, v.type))
    BY <1>1, <1>2, <2>1, SetIsHung
  <2> QED BY <2>1, <2>2, Quietly
<1>7. ASSUME NEW v, Registry!DeleteValue(w, v)
      PROVE  RegistryInv'
  <2> DEFINE vals == p.db.vals \ {v}
  <2>1. Hung(vals, p.db.keys) /\ Registry!Edit(w, [p EXCEPT !.db.vals = vals])
    BY <1>1, <1>7 DEF Registry!DeleteValue, Hung
  <2> HIDE DEF vals
  <2>2. Window([p EXCEPT !.db.vals = vals])
    BY <1>1, <2>1, Revalued
  <2> QED BY <2>1, <2>2, Quietly
<1>8. ASSUME NEW v, NEW n \in ValueNames, Registry!RenameValue(w, v, n)
      PROVE  RegistryInv'
  <2> DEFINE a == [v EXCEPT !.name = n]
             vals == (p.db.vals \ {v}) \cup {a}
  <2>1. /\ v \in p.db.vals /\ Registry!Edit(w, [p EXCEPT !.db.vals = vals])
        /\ \A u \in p.db.vals : u.at = v.at => u.name # n
    BY <1>3, <1>8 DEF Registry!RenameValue, Registry!ValueEntries
  <2>2. v \in Registry!Values
    BY <1>1, <2>1 DEF Hung
  <2>3. a \in Registry!Values /\ a.at = v.at /\ a.name = n
    BY <2>2 DEF Registry!Values
  <2> HIDE DEF a
  <2>4. Hung(vals, p.db.keys)
    BY <1>1, <2>1, <2>3 DEF Hung
  <2> HIDE DEF vals
  <2>5. Window([p EXCEPT !.db.vals = vals])
    BY <1>1, <2>4, Revalued
  <2> QED BY <2>1, <2>5, Quietly
<1> QED BY <1>4, <1>5, <1>6, <1>7, <1>8

LEMMA CopyStep ==
  ASSUME Registry!RegistryAssumption, RegistryInv, NEW w \in Windows, NEW s, NEW u, Registry!Copy(w, s, u)
  PROVE  RegistryInv'
<1> DEFINE p == page.open[w]
           obj == Registry!ExportSubtree(p, s)
           keys == MergedKeys(p, s, u)
           vals == MergedValues(p, s, u)
           q == Replant(p, keys, vals)
<1>1. Window(p) /\ Whole(p.db)
  BY WindowOf
<1>2. /\ s \in p.db.keys /\ u \in p.db.keys
      /\ \A x \in obj.keys : Len(u) + Len(x) <= MaxDepth
  BY MenuIsOfAKey DEF Registry!Copy
<1>3. Rooted(keys) /\ Hung(vals, keys)
  BY <1>1, <1>2, MergedIsWhole
<1>4. Registry!Edit(w, q)
  BY DEF Registry!Copy, Registry!Merge, Replant, NewValues, MergedKeys, MergedValues
<1>5. p.db.keys \subseteq keys
  BY DEF MergedKeys
<1> HIDE DEF keys, vals
<1>6. Planted(q) /\ q.db.keys = keys /\ q.path = p.path
  BY <1>1, <1>3, Replanted
<1> HIDE DEF q
<1>7. Window(q)
  BY <1>1, <1>5, <1>6 DEF Window
<1> QED BY <1>4, <1>7, Quietly

LEMMA AboutStep ==
  ASSUME RegistryInv, NEW w \in Windows,
         \/ Registry!Search(w)
         \/ \E s : \/ Registry!ClickRow(w, s) \/ Registry!TypeAddress(w, s)
                   \/ \E n : Registry!JumpTo(w, n, s)
         \/ \E v : Registry!SelectValue(w, v)
  PROVE  RegistryInv'
<1> DEFINE p == page.open[w]
<1>1. Window(p) /\ Planted(p)
  BY WindowOf
<1>2. CASE Registry!Search(w)
  <2>1. Window([p EXCEPT !["search"] = ~p.search])
    BY <1>1, Relabelled
  <2>2. Registry!Quiet(w, [p EXCEPT !["search"] = ~p.search])
    BY <1>2 DEF Registry!Search
  <2> QED BY <2>1, <2>2, Quietly
<1>3. ASSUME NEW s, Registry!ClickRow(w, s) \/ Registry!TypeAddress(w, s)
      PROVE  RegistryInv'
  <2>1. Registry!Quiet(w, Registry!NavigateTo(p, s))
    BY <1>3 DEF Registry!ClickRow, Registry!TypeAddress
  <2>2. Window(Registry!NavigateTo(p, s))
    BY <1>1, Navigated
  <2> QED BY <2>1, <2>2, Quietly
<1>4. ASSUME NEW s, NEW n, Registry!JumpTo(w, n, s)
      PROVE  RegistryInv'
  <2> DEFINE q == Registry!NavigateTo(p, s)
  <2>1. Window(q)
    BY <1>1, Navigated
  <2>2. Registry!Quiet(w, IF n \in ValueNames THEN [q EXCEPT !["selected"] = n] ELSE q)
    BY <1>4 DEF Registry!JumpTo
  <2> HIDE DEF q
  <2>3. Window([q EXCEPT !["selected"] = n])
    BY <2>1, Relabelled
  <2>4. Window(IF n \in ValueNames THEN [q EXCEPT !["selected"] = n] ELSE q)
    BY <2>1, <2>3
  <2> QED BY <2>2, <2>4, Quietly
<1>5. ASSUME NEW v, Registry!SelectValue(w, v)
      PROVE  RegistryInv'
  <2>1. Window([p EXCEPT !["selected"] = v.name])
    BY <1>1, Relabelled
  <2>2. Registry!Quiet(w, [p EXCEPT !["selected"] = v.name])
    BY <1>5 DEF Registry!SelectValue
  <2> QED BY <2>1, <2>2, Quietly
<1> QED BY <1>2, <1>3, <1>4, <1>5

LEMMA StoreStep ==
  ASSUME Registry!RegistryAssumption, RegistryInv, NEW w \in Windows,
         \/ Registry!SaveDb(w) \/ Registry!Open(w) \/ Registry!Refresh(w) \/ Registry!Reset(w)
         \/ \E r : r.of = w /\ (Registry!Serve(r) \/ Registry!RuntimeAnswer(r))
  PROVE  RegistryInv'
<1> DEFINE p == page.open[w]
<1>1. Window(p) /\ Whole(p.db) /\ Whole(srv) /\ Whole(Registry!DefaultDb)
  BY WindowOf, DefaultIsWhole DEF RegistryInv
<1>2. /\ page = [f \in {"open", "timer", "changes"} |-> page[f]]
      /\ page.open = [v \in Windows |-> page.open[v]]
  BY DEF RegistryInv
<1>3. page.open = [page.open EXCEPT ![w] = p]
  BY <1>2
<1>4. CASE Registry!SaveDb(w)
  <2>1. /\ srv' = p.db /\ page'.open = page.open
        /\ page' = [f \in {"open", "timer", "changes"} |-> page'[f]]
    BY <1>2, <1>4 DEF Registry!SaveDb
  <2> QED BY <1>1, <1>3, <2>1, Redrawn
<1>5. CASE Registry!Open(w)
  <2>1. /\ srv' = srv /\ page'.open = [page.open EXCEPT ![w] = Registry!Opened(srv)]
        /\ page' = [f \in {"open", "timer", "changes"} |-> page'[f]]
    BY <1>2, <1>5 DEF Registry!Open, Registry!LoadDb
  <2>2. Window(Registry!Opened(srv))
    BY <1>1, OpenedIs
  <2> QED BY <1>1, <2>1, <2>2, Redrawn
<1>6. CASE Registry!Refresh(w)
  <2> DEFINE q == [p EXCEPT !["readonly"] = FALSE]
  <2>1. /\ srv' = srv /\ page'.open = [page.open EXCEPT ![w] = q]
        /\ page' = [f \in {"open", "timer", "changes"} |-> page'[f]]
    BY <1>2, <1>6 DEF Registry!Refresh
  <2>2. Window(q)
    BY <1>1, Relabelled
  <2> HIDE DEF q
  <2> QED BY <1>1, <2>1, <2>2, Redrawn
<1>7. CASE Registry!Reset(w)
  <2> DEFINE q == [Registry!Opened(Registry!DefaultDb) EXCEPT !["readonly"] = p.readonly]
  <2>1. /\ srv' = Registry!DefaultDb /\ page'.open = [page.open EXCEPT ![w] = q]
        /\ page' = [f \in {"open", "timer", "changes"} |-> page'[f]]
    BY <1>2, <1>7 DEF Registry!Reset
  <2>2. Window(q)
    BY <1>1, OpenedIs, Relabelled
  <2> HIDE DEF q
  <2> QED BY <1>1, <2>1, <2>2, Redrawn
<1>8. ASSUME NEW r, r.of = w, Registry!RuntimeAnswer(r)
      PROVE  RegistryInv'
  <2> DEFINE q == [p EXCEPT !["readonly"] = TRUE]
  <2>1. /\ srv' = srv /\ page'.open = [page.open EXCEPT ![w] = q]
        /\ page' = [f \in {"open", "timer", "changes"} |-> page'[f]]
    BY <1>2, <1>8 DEF Registry!RuntimeAnswer
  <2>2. Window(q)
    BY <1>1, Relabelled
  <2> HIDE DEF q
  <2> QED BY <1>1, <2>1, <2>2, Redrawn
<1>9. ASSUME NEW r, Registry!Serve(r)
      PROVE  RegistryInv'
  <2>1. srv' = srv /\ page' = page
    BY <1>9 DEF Registry!Serve
  <2> QED BY <1>1, <1>2, <1>3, <2>1, Redrawn
<1> QED BY <1>4, <1>5, <1>6, <1>7, <1>8, <1>9

\* The strengthening: with a key there are all that lead to it, in every window
\* and in what is stored.
THEOREM RegistryInvariance ==
  ASSUME Registry!RegistryAssumption
  PROVE  Registry!Spec => []RegistryInv
<1>1. Registry!Init => RegistryInv
  <2> SUFFICES ASSUME Registry!Init PROVE RegistryInv
    OBVIOUS
  <2> DEFINE o == Registry!Opened(Registry!DefaultDb)
  <2>1. Whole(Registry!DefaultDb) /\ Window(o)
    BY DefaultIsWhole, OpenedIs
  <2>2. /\ page = [open |-> [w \in Windows |-> o], timer |-> {}, changes |-> 0]
        /\ srv = Registry!DefaultDb
    BY DEF Registry!Init
  <2> HIDE DEF o
  <2>3. page.open = [w \in Windows |-> o] /\ page = [f \in {"open", "timer", "changes"} |-> page[f]]
    BY <2>2
  <2>4. \A w \in Windows : page.open[w] = o
    BY <2>3
  <2>5. page.open = [w \in Windows |-> page.open[w]]
    BY <2>3
  <2> QED BY <2>1, <2>2, <2>3, <2>4, <2>5 DEF RegistryInv
<1>2. RegistryInv /\ [Registry!Next]_Registry!vars => RegistryInv'
  <2> SUFFICES ASSUME RegistryInv, [Registry!Next]_Registry!vars
               PROVE  RegistryInv'
    OBVIOUS
  <2>1. CASE Registry!Next
    <3>1. PICK w \in Windows :
            \/ \/ Registry!SaveDb(w) \/ Registry!Open(w) \/ Registry!Refresh(w) \/ Registry!Reset(w)
               \/ \E r : r.of = w /\ (Registry!Serve(r) \/ Registry!RuntimeAnswer(r))
            \/ \/ Registry!Search(w)
               \/ \E s : \/ Registry!ClickRow(w, s) \/ Registry!TypeAddress(w, s)
                         \/ \E n : Registry!JumpTo(w, n, s)
               \/ \E v : Registry!SelectValue(w, v)
            \/ \/ Registry!DeleteChosen(w)
               \/ \E s, n, t : n \in ValueNames /\ t \in ValueTypes /\ Registry!NewValue(w, s, n, t)
               \/ \E v : \/ Registry!EditValue(w, v) \/ Registry!DeleteValue(w, v)
                         \/ \E n \in ValueNames : Registry!RenameValue(w, v, n)
            \/ \E s : \/ Registry!DeleteKey(w, s)
                      \/ \E k \in KeyNames : Registry!CreateKey(w, s, k) \/ Registry!RenameKey(w, s, k)
            \/ \E s, u : Registry!Copy(w, s, u)
      BY <2>1 DEF Registry!Next
    <3> QED BY <3>1, StoreStep, AboutStep, ValuesStep, KeysStep, CopyStep
  <2>2. CASE UNCHANGED Registry!vars
    <3>1. page' = page /\ srv' = srv
      BY <2>2 DEF Registry!vars
    <3> QED BY <3>1 DEF RegistryInv, Window, Planted, Whole, Rooted, Hung, Leads, Path, WindowFields,
                        Registry!Paths, Registry!Values, Registry!RuntimeRoot
  <2> QED BY <2>1, <2>2
<1> QED BY <1>1, <1>2, PTL DEF Registry!Spec

\* Whatever is renamed, deleted, merged or typed (registry-editor.js), the tree of
\* a window has with a key its parents, with a value its key and one value of a
\* name, and the path on the page is a key, or the read-only root.
THEOREM RegistryWhole ==
  ASSUME Registry!RegistryAssumption
  PROVE  Registry!Spec => [](Registry!TypeOK /\ Registry!PathExists /\ Registry!TreeIsWhole)
<1>1. RegistryInv => Registry!TypeOK /\ Registry!PathExists
  BY DEF RegistryInv, Window, Planted, Whole, Rooted, Hung, Registry!TypeOK, Registry!PathExists
<1>2. RegistryInv => Registry!TreeIsWhole
  <2> SUFFICES ASSUME RegistryInv, NEW w \in Windows, NEW s \in page.open[w].db.keys \ {<<>>}
               PROVE  Registry!Front(s) \in page.open[w].db.keys
    BY DEF RegistryInv, Window, Planted, Whole, Hung, Registry!TreeIsWhole, Registry!Root
  <2>1. Rooted(page.open[w].db.keys)
    BY WindowOf
  <2>2. s \in Path
    BY <2>1, PathsAre DEF Rooted
  <2>3. Len(s) \in Nat \ {0} /\ Len(s) - 1 \in 0..Len(s)
    BY <2>2 DEF Path
  <2> DEFINE t == SubSeq(s, 1, Len(s) - 1)
  <2>4. t \in Path /\ Len(t) = Len(s) - 1 /\ \A i \in 1..(Len(s) - 1) : t[i] = s[i]
    BY <2>2, <2>3, HeadIs
  <2>5. Registry!Front(s) = t
    BY DEF Registry!Front
  <2> HIDE DEF t
  <2>6. Leads(t, s)
    BY <2>3, <2>4 DEF Leads
  <2> QED BY <2>1, <2>4, <2>5, <2>6 DEF Rooted
<1> QED BY <1>1, <1>2, RegistryInvariance, PTL

-----------------------------------------------------------------------------
(* Deployment: the page, the requests and the databases.                   *)

Deploy == INSTANCE PortalDeploy WITH MaxChanges <- MaxRounds

DeployFields == {"dbState", "loaded", "dsKey", "error", "picked", "force", "version", "review",
                 "filter", "list", "selected", "tab", "running", "initAbort", "agreed", "changes"}

DeployRequest == {"kind", "of", "version", "n", "status", "got"}

ReviewStates == {"none", "streaming", "ready", "approved", "executing", "executed", "error"}

\* A review: that of an initialisation names no version, and what is approved
\* has been agreed to.
Reviewed(v, agreed) ==
  /\ v = [f \in {"key", "status", "db", "version", "plan"} |-> v[f]]
  /\ v.status \in ReviewStates /\ v.version \in 0..MaxVersion
  /\ v.key = "init" => v.version = 0
  /\ v.status = "approved" => [of |-> v.db, version |-> v.version] \in agreed

Deploying(p) ==
  /\ p = [f \in DeployFields |-> p[f]]
  /\ p.version \in 0..MaxVersion /\ Reviewed(p.review, p.agreed)
  /\ p.list \subseteq Dbs /\ p.selected \in Dbs \cup {None} /\ p.tab \in {"", "init"}

\* What is executed has been agreed to.
AgreedTo(r, agreed) ==
  /\ r = [f \in DeployRequest |-> r[f]] /\ r.version \in 0..MaxVersion
  /\ r.kind \in {"init", "deploy"} => [of |-> r.of, version |-> r.version] \in agreed

\* The panel has a state, an error, or a request for the state.
Served(p, w) == Deploy!Panel(p) => p.loaded = TRUE \/ p.error = TRUE \/ \E r \in w : r.kind = "state"

Databases(s) ==
  /\ s = [d \in Dbs |-> s[d]]
  /\ \A d \in Dbs : s[d] = [f \in {"initialized", "applied", "status"} |-> s[d][f]]
  /\ \A d \in Dbs : s[d].applied \in 0..MaxVersion /\ s[d].status \in {"none", "ok", "failed"}

DeployInv ==
  /\ Deploying(page) /\ \A r \in wire : AgreedTo(r, page.agreed)
  /\ Served(page, wire) /\ Databases(srv)

\* A request that is sent.
LEMMA AskedIs ==
  ASSUME NEW w, NEW kind, NEW of, NEW version
  PROVE  \E r : /\ Deploy!Asked(w, kind, of, version) = w \cup {r}
                /\ r = [f \in DeployRequest |-> r[f]]
                /\ r.kind = kind /\ r.of = of /\ r.version = version
<1> DEFINE m == Deploy!Cardinality(Deploy!Others(w)) + 1
           r == [kind |-> kind, of |-> of, version |-> version, status |-> "asked", got |-> Deploy!NoState,
                 n |-> IF kind = "state" THEN 0 ELSE Deploy!Min(1..m \ {x.n : x \in Deploy!Others(w)})]
<1>1. Deploy!Asked(w, kind, of, version) = w \cup {r}
  BY DEF Deploy!Asked
<1>2. /\ r = [f \in DeployRequest |-> r[f]]
      /\ r.kind = kind /\ r.of = of /\ r.version = version
  BY DEF DeployRequest
<1> HIDE DEF r
<1> QED BY <1>1, <1>2

\* The page is drawn: its panel is served.
LEMMA DrawnServes ==
  ASSUME MaxVersion \in Nat, NEW p, Deploying(p), NEW w, \A r \in w : AgreedTo(r, p.agreed),
         Deploy!Drawn(p, w) \/ Deploy!LoadDbState(p, w)
  PROVE  /\ Deploying(page') /\ page'.agreed = p.agreed
         /\ \A r \in wire' : AgreedTo(r, page'.agreed)
         /\ Served(page', wire')
<1>1. CASE Deploy!LoadDbState(p, w)
  <2>1. page' = [p EXCEPT !.error = FALSE, !.dsKey = p.selected]
    BY <1>1 DEF Deploy!LoadDbState
  <2>2. \A f \in DeployFields \ {"error", "dsKey"} : page'[f] = p[f]
    BY <2>1 DEF Deploying
  <2>3. page' = [f \in DeployFields |-> page'[f]]
    BY <2>1 DEF Deploying
  <2>4. Deploying(page') /\ page'.agreed = p.agreed
    BY <2>2, <2>3 DEF Deploying, DeployFields
  <2>5. PICK r : /\ wire' = Deploy!Others(w) \cup {r} /\ r = [f \in DeployRequest |-> r[f]]
                 /\ r.kind = "state" /\ r.version = 0
    BY <1>1, AskedIs DEF Deploy!LoadDbState
  <2>6a. r.version \in 0..MaxVersion /\ r.kind \notin {"init", "deploy"}
    BY <2>5
  <2>6. AgreedTo(r, page'.agreed)
    BY <2>5, <2>6a DEF AgreedTo
  <2> QED BY <2>4, <2>5, <2>6 DEF Served, Deploy!Others
<1>2. CASE ~Deploy!LoadDbState(p, w)
  <2>1. page' = p /\ wire' = w /\ ~Deploy!NeedsState(p, w)
    BY <1>2 DEF Deploy!Drawn
  <2>2. Served(p, w)
    BY <2>1 DEF Deploy!NeedsState, Served, Deploy!Pending
  <2> QED BY <2>1, <2>2
<1> QED BY <1>1, <1>2

\* A page whose list, choice and state of loading are as they were, and that
\* has forgotten no agreement.
SamePanel(p, q) ==
  /\ q.list = p.list /\ q.selected = p.selected
  /\ q.loaded = p.loaded /\ q.error = p.error /\ p.agreed \subseteq q.agreed

LEMMA PanelKeeps ==
  ASSUME DeployInv, Deploying(page'), SamePanel(page, page'),
         \A r \in wire' : r \in wire \/ AgreedTo(r, page'.agreed),
         \A r \in wire : r.kind = "state" => r \in wire',
         Databases(srv')
  PROVE  DeployInv'
<1>1. \A r \in wire' : AgreedTo(r, page'.agreed)
  BY DEF DeployInv, AgreedTo, SamePanel
<1>2. Served(page', wire')
  BY DEF DeployInv, Served, SamePanel, Deploy!Panel
<1> QED BY <1>1, <1>2 DEF DeployInv

\* A review that changes its status.
LEMMA ReviewMoves ==
  ASSUME NEW v, NEW u, NEW agreed, NEW status \in ReviewStates \ {"approved"}, Reviewed(v, agreed),
         u = [v EXCEPT !.status = status] \/ \E x : u = [v EXCEPT !.status = status, !.plan = x]
  PROVE  Reviewed(u, agreed)
<1>1. u = [f \in {"key", "status", "db", "version", "plan"} |-> u[f]]
  BY DEF Reviewed
<1>2. u.status = status /\ u.key = v.key /\ u.version = v.version /\ u.db = v.db
  BY DEF Reviewed
<1> QED BY <1>1, <1>2 DEF Reviewed

LEMMA NoneReviewed ==
  ASSUME MaxVersion \in Nat, NEW agreed
  PROVE  Reviewed(Deploy!NoReview, agreed)
<1>1. Deploy!NoReview = [f \in {"key", "status", "db", "version", "plan"} |-> Deploy!NoReview[f]]
  BY DEF Deploy!NoReview
<1>2. Deploy!NoReview.status = "none" /\ Deploy!NoReview.version = 0 /\ Deploy!NoReview.key = "none"
  BY DEF Deploy!NoReview
<1> QED BY <1>1, <1>2 DEF Reviewed, ReviewStates

\* Another database is chosen.
LEMMA ChosenIs ==
  ASSUME MaxVersion \in Nat, NEW p, Deploying(p), NEW d \in Dbs \cup {None}
  PROVE  /\ Deploying(Deploy!Chosen(p, d)) /\ Deploy!Chosen(p, d).agreed = p.agreed
         /\ Deploy!Chosen(p, d).list = p.list /\ Deploy!Chosen(p, d).selected = d
<1> DEFINE q == Deploy!Chosen(p, d)
<1>1. q = [p EXCEPT !.selected = d, !.dbState = Deploy!NoState, !.loaded = FALSE, !.dsKey = None,
                    !.error = FALSE, !.picked = FALSE, !.force = FALSE, !.version = 0,
                    !.review = Deploy!NoReview]
  BY DEF Deploying, DeployFields, Deploy!Chosen, Deploy!ResetBuildState
<1>2. /\ q = [f \in DeployFields |-> q[f]]
      /\ q.selected = d /\ q.version = 0 /\ q.review = Deploy!NoReview
      /\ q.list = p.list /\ q.tab = p.tab /\ q.agreed = p.agreed
  BY <1>1 DEF Deploying, DeployFields
<1>2a. q.version \in 0..MaxVersion
  BY <1>2
<1>3. Reviewed(q.review, q.agreed)
  BY <1>2, NoneReviewed
<1> HIDE DEF q
<1>4. Deploying(q)
  BY <1>2, <1>2a, <1>3 DEF Deploying
<1> QED BY <1>2, <1>4 DEF q

\* A request with another status is agreed to as it was.
LEMMA AnswerAgreed ==
  ASSUME NEW r, NEW agreed, AgreedTo(r, agreed), NEW status, NEW x,
         NEW a, a = [r EXCEPT !.status = status, !.got = x]
  PROVE  AgreedTo(a, agreed) /\ a.kind = r.kind
<1>1. a = [f \in DeployRequest |-> a[f]]
  BY DEF AgreedTo
<1>2. a.kind = r.kind /\ a.of = r.of /\ a.version = r.version
  BY DEF AgreedTo, DeployRequest
<1> QED BY <1>1, <1>2 DEF AgreedTo

\* The page asks for a stream.
LEMMA StartedKeeps ==
  ASSUME DeployInv, NEW p, p = page \/ \E c : p = [page EXCEPT !.changes = c],
         NEW kind \in {"init-plan", "deploy-plan", "init", "deploy"}, NEW of, NEW version \in 0..MaxVersion,
         NEW status \in {"streaming", "executing"}, NEW next, Reviewed(next, page.agreed),
         kind \in {"init", "deploy"} => [of |-> of, version |-> version] \in page.agreed,
         Deploy!Started(p, kind, of, version, status, next)
  PROVE  DeployInv'
<1>1. PICK r : /\ wire' = wire \cup {r} /\ r = [f \in DeployRequest |-> r[f]]
               /\ r.kind = kind /\ r.of = of /\ r.version = version
  BY AskedIs DEF Deploy!Started
<1>2. AgreedTo(r, page.agreed)
  BY <1>1 DEF AgreedTo
<1>3. PICK n : page' = [p EXCEPT !.running = TRUE, !.initAbort = n, !.review = [next EXCEPT !.status = status]]
  BY DEF Deploy!Started
<1>4. /\ page' = [f \in DeployFields |-> page'[f]]
      /\ \A f \in DeployFields \ {"running", "initAbort", "review", "changes"} : page'[f] = page[f]
      /\ page'.review = [next EXCEPT !.status = status]
  BY <1>3 DEF DeployInv, Deploying, DeployFields
<1>5. /\ page'.agreed = page.agreed /\ page'.version = page.version /\ page'.list = page.list
      /\ page'.selected = page.selected /\ page'.tab = page.tab /\ page'.loaded = page.loaded
      /\ page'.error = page.error
  BY <1>4 DEF DeployFields
<1>6. Reviewed(page'.review, page'.agreed)
  BY <1>4, <1>5, ReviewMoves DEF ReviewStates
<1>7. Deploying(page') /\ SamePanel(page, page')
  BY <1>4, <1>5, <1>6 DEF Deploying, SamePanel, DeployInv
<1>8. srv' = srv
  BY DEF Deploy!Started
<1> QED BY <1>1, <1>2, <1>5, <1>7, <1>8, PanelKeeps DEF DeployInv

\* Plans are asked for, and what is executed has been approved.
LEMMA StreamStarts ==
  ASSUME MaxVersion \in Nat \ {0}, DeployInv,
         \/ Deploy!RunMcGate \/ Deploy!RunMcPlan
         \/ Deploy!ExecuteMcGateAfterReview \/ Deploy!ExecuteMcPlanAfterReview
  PROVE  DeployInv'
<1>1. CASE Deploy!RunMcGate
  <2> DEFINE next == [Deploy!NoReview EXCEPT !.key = "init", !.db = page.selected]
  <2>1. next = [f \in {"key", "status", "db", "version", "plan"} |-> next[f]]
    BY DEF Deploy!NoReview
  <2>2. next.status = "none" /\ next.version = 0
    BY DEF Deploy!NoReview
  <2>3. Reviewed(next, page.agreed) /\ 0 \in 0..MaxVersion
    BY <2>1, <2>2 DEF Reviewed, ReviewStates
  <2>4. Deploy!Started([page EXCEPT !.changes = @ + 1], "init-plan", page.selected, 0, "streaming", next)
    BY <1>1 DEF Deploy!RunMcGate
  <2> HIDE DEF next
  <2> QED BY <2>3, <2>4, StartedKeeps
<1>2. CASE Deploy!RunMcPlan
  <2> DEFINE version == Deploy!SelectedVersion(page)
             next == [Deploy!NoReview EXCEPT !.key = "overview", !.db = page.selected, !.version = version]
  <2>1a. page.version \in 0..MaxVersion
    BY DEF DeployInv, Deploying
  <2>1. version \in 0..MaxVersion
    BY <2>1a DEF Deploy!SelectedVersion
  <2>2. next = [f \in {"key", "status", "db", "version", "plan"} |-> next[f]]
    BY DEF Deploy!NoReview
  <2>3. next.status = "none" /\ next.version = version /\ next.key = "overview"
    BY DEF Deploy!NoReview
  <2>4. Deploy!Started([page EXCEPT !.changes = @ + 1], "deploy-plan", page.selected, version, "streaming", next)
    BY <1>2 DEF Deploy!RunMcPlan
  <2> HIDE DEF next, version
  <2>5. Reviewed(next, page.agreed)
    BY <2>1, <2>2, <2>3 DEF Reviewed, ReviewStates
  <2> QED BY <2>1, <2>4, <2>5, StartedKeeps
<1> DEFINE v == page.review
<1>3a. Reviewed(v, page.agreed)
  BY DEF DeployInv, Deploying
<1>3b. 0 \in 0..MaxVersion
  OBVIOUS
<1>3. Reviewed(v, page.agreed) /\ 0 \in 0..MaxVersion
  BY <1>3a, <1>3b
<1>4. CASE Deploy!ExecuteMcGateAfterReview
  <2>1. v.key = "init" /\ v.status = "approved"
    BY <1>4 DEF Deploy!ExecuteMcGateAfterReview
  <2>2. [of |-> v.db, version |-> 0] \in page.agreed
    BY <1>3, <2>1 DEF Reviewed
  <2>3. Deploy!Started(page, "init", v.db, 0, "executing", v)
    BY <1>4 DEF Deploy!ExecuteMcGateAfterReview
  <2> QED BY <1>3, <2>2, <2>3, StartedKeeps
<1>5. CASE Deploy!ExecuteMcPlanAfterReview
  <2>1. v.status = "approved"
    BY <1>5 DEF Deploy!ExecuteMcPlanAfterReview
  <2>2. [of |-> v.db, version |-> v.version] \in page.agreed /\ v.version \in 0..MaxVersion
    BY <1>3, <2>1 DEF Reviewed
  <2>3. Deploy!Started(page, "deploy", v.db, v.version, "executing", v)
    BY <1>5 DEF Deploy!ExecuteMcPlanAfterReview
  <2> QED BY <1>3, <2>2, <2>3, StartedKeeps
<1> QED BY <1>1, <1>2, <1>4, <1>5

\* The user's marks, reviews and approvals.
LEMMA MarksKeep ==
  ASSUME MaxVersion \in Nat \ {0}, DeployInv,
         \/ Deploy!PickCell \/ Deploy!Recreate \/ (\E v \in Deploy!Versions : Deploy!PickVersion(v))
         \/ Deploy!Approve \/ Deploy!Back \/ Deploy!Clear \/ Deploy!StopMcInit
  PROVE  DeployInv'
<1> DEFINE F == {"picked", "force", "version", "review", "running", "initAbort", "agreed"}
<1>0. page = [f \in DeployFields |-> page[f]] /\ Reviewed(page.review, page.agreed)
  BY DEF DeployInv, Deploying
<1>1. /\ page' = [f \in DeployFields |-> page'[f]]
      /\ \A f \in DeployFields \ F : page'[f] = page[f]
  BY <1>0 DEF DeployFields, Deploy!PickCell, Deploy!Recreate, Deploy!PickVersion, Deploy!Approve,
              Deploy!Back, Deploy!Clear, Deploy!StopMcInit
<1>2a. page'.version = page.version \/ page'.version = 0 \/ page'.version \in 1..MaxVersion
  BY <1>0 DEF DeployFields, Deploy!PickCell, Deploy!Recreate, Deploy!PickVersion,
              Deploy!Versions, Deploy!Approve, Deploy!Back, Deploy!Clear, Deploy!StopMcInit
<1>2b. page.version \in 0..MaxVersion
  BY DEF DeployInv, Deploying
<1>2. page'.version \in 0..MaxVersion
  BY <1>2a, <1>2b
<1>3. Reviewed(page'.review, page'.agreed) /\ page.agreed \subseteq page'.agreed
  <2>1. CASE Deploy!PickCell \/ Deploy!Recreate \/ \E v \in Deploy!Versions : Deploy!PickVersion(v)
    BY <1>0, <2>1 DEF DeployFields, Deploy!PickCell, Deploy!Recreate, Deploy!PickVersion
  <2>2. CASE Deploy!Back \/ Deploy!Clear
    <3>1. page'.review = Deploy!NoReview /\ page'.agreed = page.agreed
      BY <1>0, <2>2 DEF DeployFields, Deploy!Back, Deploy!Clear
    <3> QED BY <3>1, NoneReviewed
  <2>3. CASE Deploy!Approve
    <3>1. /\ page'.review = [page.review EXCEPT !.status = "approved"]
          /\ page'.agreed = page.agreed \cup {[of |-> page.review.db, version |-> page.review.version]}
      BY <1>0, <2>3 DEF DeployFields, Deploy!Approve
    <3> QED BY <1>0, <3>1 DEF Reviewed, ReviewStates
  <2>4. CASE Deploy!StopMcInit
    <3>1. /\ page'.review = [page.review EXCEPT !.status = IF @ = "executing" THEN "error" ELSE @]
          /\ page'.agreed = page.agreed
      BY <1>0, <2>4 DEF DeployFields, Deploy!StopMcInit
    <3>2. page'.review = page.review \/ page'.review = [page.review EXCEPT !.status = "error"]
      BY <1>0, <3>1 DEF Reviewed
    <3>3. CASE page'.review = page.review
      BY <1>0, <3>1, <3>3
    <3>4. CASE page'.review = [page.review EXCEPT !.status = "error"]
      <4>1. "error" \in ReviewStates \ {"approved"}
        BY DEF ReviewStates
      <4> QED BY <1>0, <3>1, <3>4, <4>1, ReviewMoves
    <3> QED BY <3>1, <3>2, <3>3, <3>4
  <2> QED BY <2>1, <2>2, <2>3, <2>4
<1>4. Deploying(page') /\ SamePanel(page, page')
  BY <1>1, <1>2, <1>3 DEF Deploying, SamePanel, DeployInv, DeployFields
<1>5. /\ wire' \subseteq wire /\ srv' = srv
      /\ \A r \in wire : r.kind = "state" => r \in wire'
  <2>1. CASE Deploy!StopMcInit
    <3>1. wire' = wire \ {r \in Deploy!Streams(wire) : r.n = page.initAbort} /\ srv' = srv
      BY <2>1 DEF Deploy!StopMcInit
    <3>2. \A r \in Deploy!Streams(wire) : r.kind # "state"
      BY DEF Deploy!Streams, Deploy!Pending
    <3> QED BY <3>1, <3>2
  <2>2. CASE ~Deploy!StopMcInit
    <3>1. UNCHANGED <<wire, srv>>
      BY <2>2 DEF Deploy!PickCell, Deploy!Recreate, Deploy!PickVersion, Deploy!Approve,
                  Deploy!Back, Deploy!Clear
    <3> QED BY <3>1
  <2> QED BY <2>1, <2>2
<1>6. Databases(srv')
  BY <1>5 DEF DeployInv
<1> QED BY <1>4, <1>5, <1>6, PanelKeeps

\* The page is drawn again.
LEMMA DrawnKeeps ==
  ASSUME MaxVersion \in Nat, DeployInv, NEW p, Deploying(p), page.agreed \subseteq p.agreed,
         NEW w, w \subseteq wire, Deploy!Drawn(p, w) \/ Deploy!LoadDbState(p, w), srv' = srv
  PROVE  DeployInv'
<1>1. \A r \in w : AgreedTo(r, p.agreed)
  BY DEF DeployInv, AgreedTo
<1> QED BY <1>1, DrawnServes DEF DeployInv

\* The state is asked for, and another database is chosen.
LEMMA ChoicesKeep ==
  ASSUME MaxVersion \in Nat, DeployInv,
         \/ Deploy!RetryDbState \/ (\E t \in {"", "init"} : Deploy!SetTab(t))
         \/ \E d \in Dbs : Deploy!SelectRow(d)
  PROVE  DeployInv'
<1>0. page = [f \in DeployFields |-> page[f]] /\ Deploying(page)
  BY DEF DeployInv, Deploying
<1>1. CASE Deploy!RetryDbState
  <2> DEFINE p == [page EXCEPT !.changes = @ + 1]
  <2>1. p = [f \in DeployFields |-> p[f]] /\ \A f \in DeployFields \ {"changes"} : p[f] = page[f]
    BY <1>0 DEF DeployFields
  <2>2. Deploy!LoadDbState(p, wire) /\ srv' = srv
    BY <1>1 DEF Deploy!RetryDbState
  <2> HIDE DEF p
  <2>3. Deploying(p) /\ p.agreed = page.agreed
    BY <1>0, <2>1 DEF Deploying, DeployFields
  <2> QED BY <2>2, <2>3, DrawnKeeps
<1>2. ASSUME NEW t \in {"", "init"}, Deploy!SetTab(t)
      PROVE  DeployInv'
  <2> DEFINE p == [page EXCEPT !.tab = t, !.changes = @ + 1]
  <2>1. /\ p = [f \in DeployFields |-> p[f]] /\ p.tab = t
        /\ \A f \in DeployFields \ {"changes", "tab"} : p[f] = page[f]
    BY <1>0 DEF DeployFields
  <2>2. (Deploy!Drawn(p, wire) \/ Deploy!LoadDbState(p, wire)) /\ srv' = srv
    BY <1>2 DEF Deploy!SetTab
  <2> HIDE DEF p
  <2>3. Deploying(p) /\ p.agreed = page.agreed
    BY <1>0, <2>1 DEF Deploying, DeployFields
  <2> QED BY <2>2, <2>3, DrawnKeeps
<1>3. ASSUME NEW d \in Dbs, Deploy!SelectRow(d)
      PROVE  DeployInv'
  <2> DEFINE p == [page EXCEPT !.changes = @ + 1]
  <2>1. p = [f \in DeployFields |-> p[f]] /\ \A f \in DeployFields \ {"changes"} : p[f] = page[f]
    BY <1>0 DEF DeployFields
  <2>2. Deploy!Drawn(Deploy!Chosen(p, d), Deploy!Others(wire)) /\ srv' = srv
    BY <1>3 DEF Deploy!SelectRow
  <2> HIDE DEF p
  <2>3. Deploying(p) /\ p.agreed = page.agreed
    BY <1>0, <2>1 DEF Deploying, DeployFields
  <2>4. Deploying(Deploy!Chosen(p, d)) /\ Deploy!Chosen(p, d).agreed = page.agreed
    BY <2>3, ChosenIs
  <2>5. Deploy!Others(wire) \subseteq wire
    BY DEF Deploy!Others
  <2> QED BY <2>2, <2>4, <2>5, DrawnKeeps
<1> QED BY <1>1, <1>2, <1>3

\* Another list is asked for.
LEMMA FilterKeeps ==
  ASSUME MaxVersion \in Nat, DeployInv, NEW f, Deploy!SetFilter(f)
  PROVE  DeployInv'
<1>1. PICK r : /\ wire' = wire \cup {r} /\ r = [g \in DeployRequest |-> r[g]]
               /\ r.kind = "list" /\ r.version = 0
  BY AskedIs DEF Deploy!SetFilter
<1>2. r.version \in 0..MaxVersion /\ r.kind \notin {"init", "deploy"}
  BY <1>1
<1>3. AgreedTo(r, page'.agreed)
  BY <1>1, <1>2 DEF AgreedTo
<1>4. \E n : page' = [[page EXCEPT !.filter = f] EXCEPT !.changes = n]
  BY DEF Deploy!SetFilter, Deploy!Counted
<1>5. /\ page' = [g \in DeployFields |-> page'[g]]
      /\ \A g \in DeployFields \ {"filter", "changes"} : page'[g] = page[g]
  BY <1>4 DEF DeployInv, Deploying, DeployFields
<1>6. Deploying(page') /\ SamePanel(page, page')
  BY <1>5 DEF DeployInv, Deploying, SamePanel, DeployFields
<1>7. Databases(srv')
  BY DEF Deploy!SetFilter, DeployInv
<1> QED BY <1>1, <1>3, <1>6, <1>7, PanelKeeps

\* The answer to a list, to the state, and the end of a stream.
LEMMA AnswersKeep ==
  ASSUME MaxVersion \in Nat, \A list \in SUBSET Dbs \ {{}} : First[list] \in list,
         DeployInv, NEW r \in wire,
         Deploy!StateAnswer(r) \/ Deploy!ListAnswer(r) \/ Deploy!StreamEnd(r)
  PROVE  DeployInv'
<1>0. page = [f \in DeployFields |-> page[f]] /\ Deploying(page)
  BY DEF DeployInv, Deploying
<1>1. CASE Deploy!StateAnswer(r)
  <2> DEFINE p == IF r.status = "done" THEN [page EXCEPT !.dbState = r.got, !.loaded = TRUE] ELSE [page EXCEPT !.error = TRUE]
  <2>1. /\ p = [f \in DeployFields |-> p[f]]
        /\ \A f \in DeployFields \ {"dbState", "loaded", "error"} : p[f] = page[f]
    BY <1>0 DEF DeployFields
  <2>2. Deploy!Drawn(p, wire \ {r}) /\ srv' = srv
    BY <1>1 DEF Deploy!StateAnswer
  <2> HIDE DEF p
  <2>3. Deploying(p) /\ p.agreed = page.agreed
    BY <1>0, <2>1 DEF Deploying, DeployFields
  <2> QED BY <2>2, <2>3, DrawnKeeps
<1>2. CASE Deploy!StreamEnd(r)
  <2> DEFINE p == [page EXCEPT !.running = FALSE, !.initAbort = 0]
  <2>1. /\ p = [f \in DeployFields |-> p[f]]
        /\ \A f \in DeployFields \ {"running", "initAbort"} : p[f] = page[f]
    BY <1>0 DEF DeployFields
  <2>2. Deploy!Drawn(p, wire \ {r}) /\ srv' = srv
    BY <1>2 DEF Deploy!StreamEnd
  <2> HIDE DEF p
  <2>3. Deploying(p) /\ p.agreed = page.agreed
    BY <1>0, <2>1 DEF Deploying, DeployFields
  <2> QED BY <2>2, <2>3, DrawnKeeps
<1>3. CASE Deploy!ListAnswer(r)
  <2> DEFINE p == [page EXCEPT !.list = Deploy!Listed(r.of)]
             z == [page EXCEPT !.list = {}]
             q == IF r.status = "done" THEN Deploy!Corrected(p) ELSE z
             w == Deploy!Kept(page, q, wire \ {r})
  <2>1. /\ p = [f \in DeployFields |-> p[f]] /\ p.list = Deploy!Listed(r.of)
        /\ z = [f \in DeployFields |-> z[f]] /\ z.list = {}
        /\ \A f \in DeployFields \ {"list"} : p[f] = page[f] /\ z[f] = page[f]
    BY <1>0 DEF DeployFields
  <2>2. Deploy!Drawn(q, w) /\ srv' = srv
    BY <1>3 DEF Deploy!ListAnswer
  <2>3. w \subseteq wire
    BY DEF Deploy!Kept, Deploy!Others
  <2>4. Deploy!Listed(r.of) \subseteq Dbs
    BY DEF Deploy!Listed
  <2> HIDE DEF p, z, w
  <2>5. /\ Deploying(p) /\ p.agreed = page.agreed
        /\ Deploying(z) /\ z.agreed = page.agreed
    BY <1>0, <2>1, <2>4 DEF Deploying, DeployFields
  <2>6. p.list # {} => First[p.list] \in Dbs
    BY <2>1, <2>4
  <2>7. /\ Deploying(Deploy!Chosen(p, None)) /\ Deploy!Chosen(p, None).agreed = page.agreed
        /\ p.list # {} => /\ Deploying(Deploy!Chosen(p, First[p.list]))
                          /\ Deploy!Chosen(p, First[p.list]).agreed = page.agreed
    BY <2>5, <2>6, ChosenIs
  <2>8. Deploying(Deploy!Corrected(p)) /\ Deploy!Corrected(p).agreed = page.agreed
    BY <2>5, <2>7 DEF Deploy!Corrected
  <2>9. Deploying(q) /\ q.agreed = page.agreed
    BY <2>5, <2>8
  <2> HIDE DEF q
  <2> QED BY <2>2, <2>3, <2>9, DrawnKeeps
<1> QED BY <1>1, <1>2, <1>3

\* What a stream tells the page changes the status of the review at most.
LEMMA EventMoves ==
  ASSUME DeployInv, NEW r, Deploy!StreamEvent(r)
  PROVE  /\ page' = [f \in DeployFields |-> page'[f]]
         /\ \A f \in DeployFields \ {"review", "running", "initAbort", "dbState", "picked", "force", "version"} :
              page'[f] = page[f]
         /\ page'.version \in {0, page.version}
         /\ \/ page'.review = page.review
            \/ \E status \in {"ready", "executed", "error"} :
                 \/ page'.review = [page.review EXCEPT !.status = status]
                 \/ \E x : page'.review = [page.review EXCEPT !.status = status, !.plan = x]
<1>0. page = [f \in DeployFields |-> page[f]] /\ page.review = [f \in {"key", "status", "db", "version", "plan"} |-> page.review[f]]
  BY DEF DeployInv, Deploying, Reviewed
<1>1. CASE r.kind \in {"init-plan", "deploy-plan"}
  <2>1. page' = Deploy!HandleReviewEvent(page, r)
    BY <1>1 DEF Deploy!StreamEvent
  <2>2. CASE page.review.key = "none" \/ page.review.status = "approved"
    BY <1>0, <2>1, <2>2 DEF Deploy!HandleReviewEvent, DeployFields
  <2>3. CASE ~(page.review.key = "none" \/ page.review.status = "approved")
    <3>1. CASE r.status = "done"
      <4> DEFINE plan == [of |-> r.of, version |-> r.version]
      <4>1. page' = [page EXCEPT !.review = [@ EXCEPT !.status = "ready", !.plan = plan]]
        BY <1>0, <2>1, <2>3, <3>1 DEF Deploy!HandleReviewEvent, DeployFields
      <4> HIDE DEF plan
      <4> QED BY <1>0, <4>1 DEF DeployFields
    <3>2. CASE r.status # "done"
      <4>1. page' = [page EXCEPT !.review = [@ EXCEPT !.status = "error"]]
        BY <1>0, <2>1, <2>3, <3>2 DEF Deploy!HandleReviewEvent, DeployFields
      <4> QED BY <1>0, <4>1 DEF DeployFields
    <3> QED BY <3>1, <3>2
  <2> QED BY <2>2, <2>3
<1>2. CASE r.kind = "init"
  <2>1. page' = Deploy!HandleInit(page, r)
    BY <1>2 DEF Deploy!StreamEvent
  <2>2. \/ page' = page
        \/ page' = [page EXCEPT !.review = [@ EXCEPT !.status = "executed"], !.running = FALSE, !.initAbort = 0, !.dbState = r.got]
        \/ page' = [page EXCEPT !.review = [@ EXCEPT !.status = "error"], !.running = FALSE, !.initAbort = 0]
    BY <1>0, <2>1 DEF Deploy!HandleInit, DeployFields
  <2> QED BY <1>0, <2>2 DEF DeployFields
<1>3. CASE r.kind = "deploy"
  <2>1. page' = Deploy!HandleDeploy(page, r)
    BY <1>3 DEF Deploy!StreamEvent
  <2> DEFINE told(p) == [p EXCEPT !.running = FALSE, !.initAbort = 0, !.picked = FALSE, !.force = FALSE, !.version = 0,
                                  !.dbState = r.got]
             noted(p, status) == [p EXCEPT !.review = [@ EXCEPT !.status = status]]
  <2>2. page.review.key = "none" => [page EXCEPT !.review.status = IF page.review.key = "none" THEN @ ELSE "error"] = page
    BY <1>0 DEF DeployFields
  <2>3. \/ page' = page
        \/ page' = told(page)
        \/ page' = told(noted(page, "executed"))
        \/ page' = noted(page, "error")
    <3>1. CASE page.review.key = "none" /\ r.status = "done"
      <4>1. page' = told([page EXCEPT !.review.status = @])
        BY <2>1, <3>1 DEF Deploy!HandleDeploy
      <4>2. [page EXCEPT !.review.status = @] = page
        BY <1>0 DEF DeployFields
      <4> QED BY <4>1, <4>2
    <3>2. CASE page.review.key = "none" /\ r.status # "done"
      BY <2>1, <2>2, <3>2 DEF Deploy!HandleDeploy
    <3>3. CASE page.review.key # "none" /\ r.status = "done"
      BY <2>1, <3>3 DEF Deploy!HandleDeploy
    <3>4. CASE page.review.key # "none" /\ r.status # "done"
      BY <2>1, <3>4 DEF Deploy!HandleDeploy
    <3> QED BY <3>1, <3>2, <3>3, <3>4
  <2>4. CASE page' = page
    BY <1>0, <2>4
  <2>5. CASE page' = told(page)
    BY <1>0, <2>5 DEF DeployFields
  <2>6. CASE page' = told(noted(page, "executed"))
    BY <1>0, <2>6 DEF DeployFields
  <2>7. CASE page' = noted(page, "error")
    BY <1>0, <2>7 DEF DeployFields
  <2> QED BY <2>3, <2>4, <2>5, <2>6, <2>7
<1> QED BY <1>1, <1>2, <1>3 DEF Deploy!StreamEvent

LEMMA EventKeeps ==
  ASSUME MaxVersion \in Nat, DeployInv, NEW r \in wire, Deploy!StreamEvent(r)
  PROVE  DeployInv'
<1>1. page'.review = page.review \/ \E status \in ReviewStates \ {"approved"} :
         \/ page'.review = [page.review EXCEPT !.status = status]
         \/ \E x : page'.review = [page.review EXCEPT !.status = status, !.plan = x]
  BY EventMoves DEF ReviewStates
<1>2. page' = [f \in DeployFields |-> page'[f]] /\ page'.version \in {0, page.version}
  BY EventMoves
<1>3. \A f \in {"agreed", "list", "selected", "tab", "loaded", "error"} : page'[f] = page[f]
  BY EventMoves DEF DeployFields
<1>4. Reviewed(page.review, page.agreed) /\ page.version \in 0..MaxVersion
  BY DEF DeployInv, Deploying
<1>5. Reviewed(page'.review, page'.agreed)
  BY <1>1, <1>3, <1>4, ReviewMoves
<1>6. page'.version \in 0..MaxVersion
  BY <1>2, <1>4
<1>7. Deploying(page') /\ SamePanel(page, page')
  BY <1>2, <1>3, <1>5, <1>6 DEF DeployInv, Deploying, SamePanel
<1> DEFINE a == [r EXCEPT !.status = "told", !.got = Deploy!NoState]
<1>8. AgreedTo(a, page.agreed)
  BY AnswerAgreed DEF DeployInv
<1>9. wire' = (wire \ {r}) \cup {a} /\ srv' = srv /\ r.kind # "state"
  BY DEF Deploy!StreamEvent, Deploy!Settled
<1> HIDE DEF a
<1>10. AgreedTo(a, page'.agreed) /\ Databases(srv')
  BY <1>3, <1>8, <1>9 DEF DeployInv
<1> QED BY <1>7, <1>9, <1>10, PanelKeeps

\* The service answers.
LEMMA ServedKeeps ==
  ASSUME MaxVersion \in Nat, DeployInv, NEW r \in wire, Deploy!Serve(r) \/ Deploy!Refuse(r)
  PROVE  DeployInv'
<1>1. PICK a : AgreedTo(a, page.agreed) /\ a.kind = r.kind /\ wire' = (wire \ {r}) \cup {a}
  <2>1. AgreedTo(r, page.agreed)
    BY DEF DeployInv
  <2>2. CASE Deploy!Serve(r)
    <3> DEFINE x == IF r.kind \in {"state", "init", "deploy"} THEN Deploy!Now(Deploy!Effect(r), r.of) ELSE Deploy!NoState
               a == [r EXCEPT !.status = "done", !.got = x]
    <3>1. wire' = (wire \ {r}) \cup {a}
      BY <2>2 DEF Deploy!Serve, Deploy!Settled
    <3> HIDE DEF x
    <3>2. r = [f \in DeployRequest |-> r[f]]
      BY <2>1 DEF AgreedTo
    <3>3. a = [f \in DeployRequest |-> a[f]] /\ \A f \in DeployRequest \ {"status", "got"} : a[f] = r[f]
      BY <3>2 DEF DeployRequest
    <3> HIDE DEF a
    <3>4. AgreedTo(a, page.agreed) /\ a.kind = r.kind
      BY <2>1, <3>3 DEF AgreedTo, DeployRequest
    <3> QED BY <3>1, <3>4
  <2>3. CASE Deploy!Refuse(r)
    <3> DEFINE a == [r EXCEPT !.status = "failed"]
    <3>1. wire' = (wire \ {r}) \cup {a}
      BY <2>3 DEF Deploy!Refuse, Deploy!Refused, Deploy!Settled
    <3>2. r = [f \in DeployRequest |-> r[f]]
      BY <2>1 DEF AgreedTo
    <3>3. a = [f \in DeployRequest |-> a[f]] /\ \A f \in DeployRequest \ {"status"} : a[f] = r[f]
      BY <3>2 DEF DeployRequest
    <3> HIDE DEF a
    <3>4. AgreedTo(a, page.agreed) /\ a.kind = r.kind
      BY <2>1, <3>3 DEF AgreedTo, DeployRequest
    <3> QED BY <3>1, <3>4
  <2> QED BY <2>2, <2>3
<1>2. page' = page
  BY DEF Deploy!Serve, Deploy!Refuse
<1>3. Served(page', wire')
  BY <1>1, <1>2 DEF DeployInv, Served, Deploy!Panel
<1>4. Databases(srv')
  <2>1. r.version \in 0..MaxVersion
    BY DEF DeployInv, AgreedTo
  <2>2. Databases(srv)
    BY DEF DeployInv
  <2>3. \/ srv' = srv
        \/ srv' = [srv EXCEPT ![r.of].initialized = TRUE]
        \/ srv' = [srv EXCEPT ![r.of].applied = r.version, ![r.of].status = "ok"]
        \/ srv' = [srv EXCEPT ![r.of].status = "failed"]
    BY DEF Deploy!Serve, Deploy!Effect, Deploy!Refuse
  <2>4. \A d \in Dbs : srv[d] = [f \in {"initialized", "applied", "status"} |-> srv[d][f]]
    BY <2>2 DEF Databases
  <2>5. srv = [d \in Dbs |-> srv[d]]
    BY <2>2 DEF Databases
  <2>6. srv' = [d \in Dbs |-> srv'[d]]
    BY <2>3, <2>5
  <2>7. ASSUME NEW d \in Dbs
        PROVE  \/ srv'[d] = srv[d]
               \/ srv'[d] = [srv[d] EXCEPT !.initialized = TRUE]
               \/ srv'[d] = [srv[d] EXCEPT !.applied = r.version, !.status = "ok"]
               \/ srv'[d] = [srv[d] EXCEPT !.status = "failed"]
    BY <2>3, <2>5
  <2>8. ASSUME NEW d \in Dbs
        PROVE  /\ srv'[d] = [f \in {"initialized", "applied", "status"} |-> srv'[d][f]]
               /\ srv'[d].applied \in {srv[d].applied, r.version}
               /\ srv'[d].status \in {srv[d].status, "ok", "failed"}
    BY <2>4, <2>7
  <2>9. ASSUME NEW d \in Dbs
        PROVE  srv'[d].applied \in 0..MaxVersion /\ srv'[d].status \in {"none", "ok", "failed"}
    BY <2>1, <2>2, <2>8 DEF Databases
  <2> QED BY <2>6, <2>8, <2>9 DEF Databases
<1> QED BY <1>1, <1>2, <1>3, <1>4 DEF DeployInv

\* A step of the page or of the service keeps the invariant.
LEMMA DeployStep ==
  ASSUME Deploy!DeployAssumption, DeployInv, [Deploy!Next]_<<page, wire, srv>>
  PROVE  DeployInv'
<1>0. /\ MaxVersion \in Nat \ {0} /\ MaxVersion \in Nat
      /\ \A list \in SUBSET Dbs \ {{}} : First[list] \in list
  BY DEF Deploy!DeployAssumption
<1>1. CASE UNCHANGED <<page, wire, srv>>
  BY <1>1 DEF DeployInv, Served, Deploy!Panel
<1>2. CASE Deploy!RetryDbState \/ (\E t \in {"", "init"} : Deploy!SetTab(t)) \/ \E d \in Dbs : Deploy!SelectRow(d)
  BY <1>0, <1>2, ChoicesKeep
<1>3. CASE \/ Deploy!PickCell \/ Deploy!Recreate \/ (\E v \in Deploy!Versions : Deploy!PickVersion(v))
           \/ Deploy!Approve \/ Deploy!Back \/ Deploy!Clear \/ Deploy!StopMcInit
  BY <1>0, <1>3, MarksKeep
<1>4. CASE \/ Deploy!RunMcGate \/ Deploy!RunMcPlan
           \/ Deploy!ExecuteMcGateAfterReview \/ Deploy!ExecuteMcPlanAfterReview
  BY <1>0, <1>4, StreamStarts
<1>5. CASE \E f \in Domains \cup {None} : Deploy!SetFilter(f)
  BY <1>0, <1>5, FilterKeeps
<1>6. ASSUME NEW r \in wire, Deploy!Answer(r) \/ Deploy!Serve(r) \/ Deploy!Refuse(r)
      PROVE  DeployInv'
  BY <1>0, <1>6, AnswersKeep, EventKeeps, ServedKeeps DEF Deploy!Answer
<1> QED BY <1>1, <1>2, <1>3, <1>4, <1>5, <1>6 DEF Deploy!Next

\* The page of the data sources keeps its invariant: what is approved, and what
\* is sent to be executed, has been agreed to, and the panel never stays
\* without a state, an error or a request for the state
\* (cluster-datasource.js).
THEOREM DeployInvariance ==
  ASSUME Deploy!DeployAssumption
  PROVE  Deploy!Spec => []DeployInv
<1>1. Deploy!Init => DeployInv
  <2> SUFFICES ASSUME Deploy!Init PROVE DeployInv
    OBVIOUS
  <2>0. MaxVersion \in Nat
    BY DEF Deploy!DeployAssumption
  <2>1. page = [f \in DeployFields |-> page[f]]
    BY DEF Deploy!Init, DeployFields
  <2>2. /\ page.version = 0 /\ page.review = Deploy!NoReview /\ page.list = {}
        /\ page.selected = None /\ page.tab = ""
    BY DEF Deploy!Init
  <2>6. 0 \in 0..MaxVersion
    BY <2>0
  <2>2a. page.version \in 0..MaxVersion
    BY <2>2, <2>6
  <2>3. Reviewed(page.review, page.agreed)
    BY <2>0, <2>2, NoneReviewed
  <2>4. Deploying(page)
    BY <2>1, <2>2, <2>2a, <2>3 DEF Deploying
  <2>5. \A r \in wire : /\ r = [f \in DeployRequest |-> r[f]]
                        /\ r.version = 0 /\ r.kind = "list"
    <3> DEFINE l == [kind |-> "list", of |-> None, version |-> 0, n |-> 1, status |-> "asked", got |-> Deploy!NoState]
    <3>1. wire = {l}
      BY DEF Deploy!Init
    <3>2. l = [f \in DeployRequest |-> l[f]] /\ l.version = 0 /\ l.kind = "list"
      BY DEF DeployRequest
    <3> HIDE DEF l
    <3> QED BY <3>1, <3>2
  <2>7. \A r \in wire : AgreedTo(r, page.agreed)
    BY <2>5, <2>6 DEF AgreedTo
  <2>8. Served(page, wire)
    BY <2>2 DEF Served, Deploy!Panel
  <2>9. Databases(srv)
    BY <2>6 DEF Deploy!Init, Databases
  <2> QED BY <2>4, <2>7, <2>8, <2>9 DEF DeployInv
<1>2. DeployInv /\ [Deploy!Next]_Deploy!vars => DeployInv'
  BY DeployStep DEF Deploy!vars
<1> QED BY <1>1, <1>2, PTL DEF Deploy!Spec

\* The page and the databases keep to their types, whatever is answered and in
\* whatever order.
THEOREM DeployTyped ==
  ASSUME Deploy!DeployAssumption
  PROVE  Deploy!Spec => []Deploy!TypeOK
<1>1. DeployInv => Deploy!TypeOK
  BY DEF DeployInv, Deploying, Reviewed, ReviewStates, Databases, Deploy!TypeOK
<1> QED BY <1>1, DeployInvariance, PTL

\* Nothing is executed, neither an initialisation nor a deployment, that the
\* user has not agreed to for this database and this version
\* (executeMcGateAfterReview, executeMcPlanAfterReview).
THEOREM DeploysTheApproved ==
  ASSUME Deploy!DeployAssumption
  PROVE  Deploy!Spec => []Deploy!NothingUnapproved
<1>1. DeployInv => Deploy!NothingUnapproved
  BY DEF DeployInv, AgreedTo, Deploy!NothingUnapproved, Deploy!Pending
<1> QED BY <1>1, DeployInvariance, PTL

\* The panel of a database never stays empty with nothing on the way: it has a
\* state, an error with a retry, or a request for the state (loadDbState).
THEOREM DeployGoesOn ==
  ASSUME Deploy!DeployAssumption
  PROVE  Deploy!Spec => []Deploy!NeverStuck
<1>1. DeployInv => Deploy!NeverStuck
  BY DEF DeployInv, Served, Deploy!NeverStuck, Deploy!Pending
<1> QED BY <1>1, DeployInvariance, PTL

-----------------------------------------------------------------------------
(* The rows of a dictionary: the page, the requests and the service.       *)

Editor == INSTANCE DctEditor WITH MaxChanges <- MaxRounds

EditorRow == [id : Ids, v : Editor!Values, t : Nat]

EditorChange == [id : Ids, v : Editor!Values, base : Nat]

SheetFields == {"view", "rows", "added", "dirty", "newIds", "baseline", "selected", "dialog", "changes"}

EditorDialogs ==
  {d \in [ask : {"none", "delete", "export", "file", "replace"}, ids : SUBSET (Ids \cup Temp), file : BOOLEAN] :
     d.ask = "delete" => d.ids \cap System = {}}

EditorFields == {"kind", "view", "upd", "ins", "del", "rows", "of", "db"}

\* No two rows, and no two changes, are of one id.
Sole(s) == \A a, b \in s : a.id = b.id => a = b

\* The update times that are kept are those of the rows on the page.
OfShown(baseline, rows) == \A b \in baseline, row \in rows : b[1] = row.id => b[2] = row.t

Edited(p) ==
  /\ p = [f \in SheetFields |-> p[f]]
  /\ p.view \in Views /\ p.rows \subseteq EditorRow /\ p.added \subseteq [id : Temp, v : Editor!Values]
  /\ p.dirty \subseteq EditorChange /\ p.newIds \subseteq Temp /\ p.baseline \subseteq Ids \X Nat
  /\ p.selected \subseteq Ids \cup Temp /\ p.dialog \in EditorDialogs
  /\ Sole(p.rows) /\ Sole(p.dirty) /\ OfShown(p.baseline, p.rows)

\* What is asked of the service, and what it has answered.
Lawful(r) ==
  /\ Framed({r}, EditorFields) /\ r.status \in Statuses
  /\ r.view \in Views /\ r.upd \subseteq EditorChange /\ Sole(r.upd)
  /\ r.rows \subseteq EditorRow /\ Sole(r.rows)
  /\ r.kind = "delete" => r.del \cap System = {}

Dictionary(s) ==
  /\ s = [f \in {"rows", "inserted", "others"} |-> s[f]]
  /\ s.rows \subseteq EditorRow /\ Sole(s.rows)

EditorInv == Edited(page) /\ Dictionary(srv) /\ \A r \in wire : Lawful(r)

\* The first page is one of the pages.
LEMMA FirstIsView ==
  ASSUME Editor!EditorAssumption
  PROVE  Editor!First \in Views
BY DEF Editor!EditorAssumption, Editor!First

\* What a save or somebody else writes leaves one row of each id.
LEMMA UpdatedIs ==
  ASSUME NEW rows, rows \subseteq EditorRow, Sole(rows), NEW upd, Sole(upd),
         \A u \in upd : u.v \in Editor!Values
  PROVE  Editor!Updated(rows, upd) \subseteq EditorRow /\ Sole(Editor!Updated(rows, upd))
<1> DEFINE hit == {u \in upd : \E row \in rows : row.id = u.id}
           was(u) == CHOOSE row \in rows : row.id = u.id
           new(u) == [id |-> u.id, v |-> u.v, t |-> was(u).t + 1]
           left == {row \in rows : \A u \in upd : u.id # row.id}
<1>1. ASSUME NEW u \in hit
      PROVE  was(u) \in rows /\ was(u).id = u.id
  OBVIOUS
<1> HIDE DEF was
<1>2. ASSUME NEW u \in hit
      PROVE  new(u) \in EditorRow
  <2>1. was(u) \in EditorRow /\ was(u).id = u.id
    BY <1>1
  <2>2. was(u).t \in Nat /\ u.id \in Ids
    BY <2>1 DEF EditorRow
  <2>3. was(u).t + 1 \in Nat
    BY <2>2
  <2> HIDE DEF was
  <2> QED BY <2>2, <2>3 DEF EditorRow
<1>3. Editor!Updated(rows, upd) = left \cup {new(u) : u \in hit}
  BY DEF Editor!Updated, was
<1>4. Sole(left \cup {new(u) : u \in hit})
  <2> SUFFICES ASSUME NEW a \in left \cup {new(u) : u \in hit}, NEW b \in left \cup {new(u) : u \in hit}, a.id = b.id
               PROVE  a = b
    BY DEF Sole
  <2>1. CASE a \in left /\ b \in left
    BY <2>1 DEF Sole
  <2>2. ASSUME NEW u \in hit, a = new(u), b \in left
        PROVE  FALSE
    BY <2>2
  <2>3. ASSUME NEW u \in hit, b = new(u), a \in left
        PROVE  FALSE
    BY <2>3
  <2>4. ASSUME NEW u \in hit, a = new(u), NEW w \in hit, b = new(w)
        PROVE  a = b
    <3>1. u.id = w.id
      BY <2>4
    <3>2. u = w
      BY <3>1 DEF Sole
    <3> QED BY <2>4, <3>2
  <2> QED BY <2>1, <2>2, <2>3, <2>4
<1> QED BY <1>2, <1>3, <1>4

\* The update time a change begins with.
LEMMA BaselineKnown ==
  ASSUME NEW p, Edited(p), NEW row \in p.rows
  PROVE  Editor!BaselineOf(p, row.id) \in {0, row.t} /\ Editor!BaselineOf(p, row.id) \in Nat
<1>1. row.t \in Nat /\ p.rows \subseteq EditorRow
  BY DEF Edited, EditorRow
<1>2. CASE \E b \in p.baseline : b[1] = row.id
  <2> DEFINE c == CHOOSE b \in p.baseline : b[1] = row.id
  <2>1. c \in p.baseline /\ c[1] = row.id
    BY <1>2
  <2>2. Editor!BaselineOf(p, row.id) = c[2]
    BY <1>2 DEF Editor!BaselineOf
  <2> HIDE DEF c
  <2>3. c[2] = row.t
    BY <2>1 DEF Edited, OfShown
  <2> QED BY <1>1, <2>2, <2>3
<1>3. CASE ~\E b \in p.baseline : b[1] = row.id
  BY <1>3 DEF Editor!BaselineOf
<1> QED BY <1>2, <1>3

\* A request of the page.
LEMMA EditorSends ==
  ASSUME NEW w, \A r \in w : Lawful(r), NEW s,
         DOMAIN s = EditorFields, s.view \in Views, s.upd \subseteq EditorChange, Sole(s.upd), s.rows = {},
         s.kind = "delete" => s.del \cap System = {}
  PROVE  \A r \in Editor!Sent(w, MaxWire, s) : Lawful(r)
<1>1. "n" \notin EditorFields /\ "status" \notin EditorFields
  BY DEF EditorFields
<1>2. PICK r : /\ Editor!Sent(w, MaxWire, s) = w \cup {r}
               /\ \A f \in EditorFields : r[f] = s[f]
               /\ r.status = "asked"
               /\ Editor!Framed(w, EditorFields) => Editor!Framed(Editor!Sent(w, MaxWire, s), EditorFields)
  BY <1>1, Editor!SentAdds
<1>3. Framed(w, EditorFields)
  BY DEF Lawful, Framed
<1>4. Framed({r}, EditorFields)
  BY <1>2, <1>3 DEF Framed, Editor!Framed
<1>5. /\ r.view = s.view /\ r.upd = s.upd /\ r.rows = s.rows /\ r.kind = s.kind /\ r.del = s.del
      /\ r.status \in Statuses
  BY <1>2 DEF EditorFields, Statuses
<1>6. Lawful(r)
  BY <1>4, <1>5 DEF Lawful, Sole
<1> QED BY <1>2, <1>6

LEMMA EditorLoads ==
  ASSUME Editor!EditorAssumption, NEW w, \A r \in w : Lawful(r), NEW p, Edited(p)
  PROVE  \A r \in Editor!Load(p, w) : Lawful(r)
<1> DEFINE s == [Editor!Request("data", "none", Database) EXCEPT !.view = p.view]
<1>1. /\ DOMAIN s = EditorFields /\ s.view = p.view /\ s.upd = {} /\ s.rows = {} /\ s.kind = "data"
  BY DEF Editor!Request, EditorFields
<1>2. Editor!Load(p, w) = Editor!Sent(w, MaxWire, s)
  BY DEF Editor!Load
<1>3. p.view \in Views
  BY DEF Edited
<1> HIDE DEF s
<1> QED BY <1>1, <1>2, <1>3, EditorSends DEF Sole

\* An answer leaves a request lawful.
LEMMA EditorAnswers ==
  ASSUME NEW r, Lawful(r), NEW status \in Statuses
  PROVE  /\ Lawful([r EXCEPT !.status = status])
         /\ \A rows \in SUBSET EditorRow : Sole(rows) => Lawful([r EXCEPT !.status = status, !.rows = rows])
<1>1. r = [f \in EditorFields \cup {"n", "status"} |-> r[f]]
  BY DEF Lawful, Framed
<1>2. Lawful([r EXCEPT !.status = status])
  <2> DEFINE a == [r EXCEPT !.status = status]
  <2>1. a = [f \in EditorFields \cup {"n", "status"} |-> a[f]] /\ a.status = status
        /\ \A f \in EditorFields : a[f] = r[f]
    BY <1>1 DEF EditorFields
  <2> HIDE DEF a
  <2>2. a.view = r.view /\ a.upd = r.upd /\ a.rows = r.rows /\ a.kind = r.kind /\ a.del = r.del
    BY <2>1 DEF EditorFields
  <2>3. Lawful(a)
    BY <2>1, <2>2 DEF Lawful, Framed
  <2> QED BY <2>3 DEF a
<1>3. ASSUME NEW rows \in SUBSET EditorRow, Sole(rows)
      PROVE  Lawful([r EXCEPT !.status = status, !.rows = rows])
  <2> DEFINE a == [r EXCEPT !.status = status, !.rows = rows]
  <2>1. a = [f \in EditorFields \cup {"n", "status"} |-> a[f]] /\ a.status = status /\ a.rows = rows
        /\ \A f \in EditorFields \ {"rows"} : a[f] = r[f]
    BY <1>1 DEF EditorFields
  <2> HIDE DEF a
  <2>2. a.view = r.view /\ a.upd = r.upd /\ a.kind = r.kind /\ a.del = r.del
    BY <2>1 DEF EditorFields
  <2>3. Lawful(a)
    BY <1>3, <2>1, <2>2 DEF Lawful, Framed
  <2> QED BY <2>3 DEF a
<1> QED BY <1>2, <1>3

\* Loading: the page shows what was answered, with its update times.
LEMMA ReloadedIs ==
  ASSUME NEW p, Edited(p), NEW rows, rows \subseteq EditorRow, Sole(rows)
  PROVE  Edited(Editor!Reloaded(p, rows)) /\ Editor!Reloaded(p, rows).view = p.view
<1> DEFINE kept == {b \in p.baseline : \A r \in rows : r.id # b[1]}
           base == kept \cup {<<r.id, r.t>> : r \in rows}
           q == Editor!Reloaded(p, rows)
<1>1. base \subseteq Ids \X Nat
  BY DEF Edited, EditorRow
<1>2. OfShown(base, rows)
  <2> SUFFICES ASSUME NEW b \in base, NEW row \in rows, b[1] = row.id PROVE b[2] = row.t
    BY DEF OfShown
  <2>1. PICK r \in rows : b = <<r.id, r.t>>
    OBVIOUS
  <2>2. r = row
    BY <2>1 DEF Sole
  <2> QED BY <2>1, <2>2
<1>3. p = [f \in SheetFields |-> p[f]]
  BY DEF Edited
<1>4. q = [p EXCEPT !.baseline = base, !.rows = rows, !.added = {}, !.selected = {}]
  BY <1>3 DEF Editor!Reloaded, Editor!ApplyRowsToGrid, SheetFields
<1> HIDE DEF base, q
<1>5. /\ q = [f \in SheetFields |-> q[f]]
      /\ q.rows = rows /\ q.baseline = base /\ q.dirty = p.dirty /\ q.dialog = p.dialog
      /\ q.view = p.view /\ q.newIds = p.newIds /\ q.added = {} /\ q.selected = {}
  BY <1>3, <1>4 DEF SheetFields
<1>6. Edited(q)
  BY <1>1, <1>2, <1>5 DEF Edited
<1> QED BY <1>5, <1>6 DEF q

\* A cell is changed.
LEMMA CellKeeps ==
  ASSUME Edited(page), NEW row \in page.rows, NEW v \in Editor!Values, Editor!CellChanged(row, v)
  PROVE  Edited(page')
<1>0. page = [f \in SheetFields |-> page[f]] /\ row \in EditorRow
  BY DEF Edited
<1> DEFINE old == {d \in page.dirty : d.id = row.id}
           base == IF old = {} THEN Editor!BaselineOf(page, row.id) ELSE (CHOOSE d \in old : TRUE).base
           new == [row EXCEPT !.v = v]
           change == [id |-> row.id, v |-> v, base |-> base]
           rows == (page.rows \ {row}) \cup {new}
           dirty == (page.dirty \ old) \cup {change}
<1>1. base \in Nat
  <2>1. CASE old = {}
    BY <2>1, BaselineKnown
  <2>2. CASE old # {}
    <3>1. (CHOOSE d \in old : TRUE) \in page.dirty
      BY <2>2
    <3>2. (CHOOSE d \in old : TRUE) \in EditorChange
      BY <3>1 DEF Edited
    <3> QED BY <2>2, <3>2 DEF EditorChange
  <2> QED BY <2>1, <2>2
<1>2. page' = [page EXCEPT !.changes = @ + 1, !.rows = rows, !.dirty = dirty]
  BY <1>0 DEF Editor!CellChanged, Editor!Counted, SheetFields
<1> HIDE DEF base
<1>3. new \in EditorRow /\ new.id = row.id /\ new.t = row.t /\ change \in EditorChange /\ change.id = row.id
  BY <1>0, <1>1 DEF EditorRow, EditorChange
<1> HIDE DEF new, change
<1>4. rows \subseteq EditorRow /\ dirty \subseteq EditorChange
  BY <1>0, <1>3 DEF Edited
<1>5. Sole(rows)
  BY <1>3 DEF Sole, Edited
<1>6. Sole(dirty)
  BY <1>3 DEF Sole, Edited
<1>7. OfShown(page.baseline, rows)
  BY <1>3 DEF OfShown, Edited
<1> HIDE DEF rows, dirty
<1>8. /\ page' = [f \in SheetFields |-> page'[f]] /\ page'.rows = rows /\ page'.dirty = dirty
      /\ \A f \in {"view", "added", "newIds", "baseline", "selected", "dialog"} : page'[f] = page[f]
  BY <1>0, <1>2 DEF SheetFields
<1> QED BY <1>4, <1>5, <1>6, <1>7, <1>8 DEF Edited

\* Rows, changes and update times that become fewer.
LEMMA FewerEdited ==
  ASSUME NEW p, Edited(p), NEW q, q = [f \in SheetFields |-> q[f]], q.view \in Views,
         q.rows \subseteq p.rows, q.dirty \subseteq p.dirty, q.baseline \subseteq p.baseline,
         q.added \subseteq [id : Temp, v : Editor!Values], q.newIds \subseteq Temp,
         q.selected \subseteq Ids \cup Temp, q.dialog \in EditorDialogs
  PROVE  Edited(q)
BY DEF Edited, Sole, OfShown

\* A dialog is opened, answered or closed.
LEMMA DialogKeeps ==
  ASSUME Edited(page), NEW d, NEW n, d \in EditorDialogs,
         page' = [page EXCEPT !.dialog = d] \/ page' = [page EXCEPT !.changes = n, !.dialog = d]
  PROVE  Edited(page')
<1>1. page = [f \in SheetFields |-> page[f]]
  BY DEF Edited
<1>2. /\ page' = [f \in SheetFields |-> page'[f]] /\ page'.dialog = d
      /\ \A f \in SheetFields \ {"changes", "dialog"} : page'[f] = page[f]
  BY <1>1 DEF SheetFields
<1> QED BY <1>2 DEF Edited, SheetFields

\* The questions before deleting, exporting and importing.
LEMMA DialogsKeep ==
  ASSUME Edited(page),
         \/ Editor!AskDelete \/ Editor!CloseDialog \/ Editor!OnExportClick \/ Editor!OnImportClick
         \/ Editor!PickFile \/ Editor!PickReplace
  PROVE  Edited(page')
<1>0. page = [f \in SheetFields |-> page[f]] /\ page.dialog \in EditorDialogs /\ page.selected \subseteq Ids \cup Temp
  BY DEF Edited
<1>1. ASSUME NEW ask \in {"delete", "export", "file"}, NEW ids \in SUBSET (Ids \cup Temp), Editor!Opened(ask, ids),
             ask = "delete" => ids \cap System = {}
      PROVE  Edited(page')
  <2> DEFINE d == [Editor!NoDialog EXCEPT !.ask = ask, !.ids = ids]
  <2>1. page' = [page EXCEPT !.changes = page.changes + 1, !.dialog = d]
    <3>1. page' = [[page EXCEPT !.changes = page.changes + 1] EXCEPT !.dialog = d]
      BY <1>1 DEF Editor!Opened, Editor!Counted
    <3> HIDE DEF d
    <3> QED BY <1>0, <3>1 DEF SheetFields
  <2>2. d \in EditorDialogs
    BY <1>1 DEF EditorDialogs, Editor!NoDialog
  <2> HIDE DEF d
  <2> QED BY <2>1, <2>2, DialogKeeps
<1>2. CASE Editor!AskDelete
  BY <1>0, <1>1, <1>2 DEF Editor!AskDelete
<1>3. CASE Editor!OnExportClick \/ Editor!OnImportClick
  BY <1>1, <1>3 DEF Editor!OnExportClick, Editor!OnImportClick
<1>4. CASE Editor!CloseDialog
  <2>1. page' = [page EXCEPT !.dialog = Editor!NoDialog]
    BY <1>4 DEF Editor!CloseDialog
  <2>2. Editor!NoDialog \in EditorDialogs
    BY DEF Editor!NoDialog, EditorDialogs
  <2> QED BY <2>1, <2>2, DialogKeeps
<1>5. CASE Editor!PickFile
  <2>1. page' = [page EXCEPT !.dialog = [page.dialog EXCEPT !.file = TRUE]]
    BY <1>0, <1>5 DEF Editor!PickFile, SheetFields
  <2>2. [page.dialog EXCEPT !.file = TRUE] \in EditorDialogs
    BY <1>0, <1>5 DEF EditorDialogs
  <2> QED BY <2>1, <2>2, DialogKeeps
<1>6. CASE Editor!PickReplace
  <2>1. page' = [page EXCEPT !.dialog = [page.dialog EXCEPT !.ask = "replace"]]
    BY <1>0, <1>6 DEF Editor!PickReplace, SheetFields
  <2>2. [page.dialog EXCEPT !.ask = "replace"] \in EditorDialogs
    BY <1>0, <1>6 DEF EditorDialogs
  <2> QED BY <2>1, <2>2, DialogKeeps
<1> QED BY <1>2, <1>3, <1>4, <1>5, <1>6

\* Rows are chosen, added and filled in.
LEMMA AddingKeeps ==
  ASSUME Edited(page),
         \/ (\E t \in Temp : Editor!AddRow(t)) \/ (\E row \in page.added : Editor!FillNewRow(row))
         \/ \E ids \in SUBSET (Ids \cup Temp) : Editor!Select(ids)
  PROVE  Edited(page')
<1>0. /\ page = [f \in SheetFields |-> page[f]] /\ page.added \subseteq [id : Temp, v : Editor!Values]
      /\ page.newIds \subseteq Temp
  BY DEF Edited
<1>1. /\ page' = [f \in SheetFields |-> page'[f]]
      /\ \A f \in {"view", "rows", "dirty", "baseline", "dialog"} : page'[f] = page[f]
  BY <1>0 DEF Editor!AddRow, Editor!FillNewRow, Editor!Select, Editor!Counted, SheetFields
<1> DEFINE Typed(p) == /\ p.added \subseteq [id : Temp, v : Editor!Values] /\ p.newIds \subseteq Temp
                       /\ p.selected \subseteq Ids \cup Temp
<1>2. Typed(page')
  <2>0. page.selected \subseteq Ids \cup Temp
    BY DEF Edited
  <2>1. ASSUME NEW t \in Temp, Editor!AddRow(t)
        PROVE  Typed(page')
    <3>1. /\ page'.added = page.added \cup {[id |-> t, v |-> Editor!Blank]} /\ page'.newIds = page.newIds \cup {t}
          /\ page'.selected = page.selected
      BY <1>0, <2>1 DEF Editor!AddRow, Editor!Counted, SheetFields
    <3>2. [id |-> t, v |-> Editor!Blank] \in [id : Temp, v : Editor!Values]
      BY DEF Editor!Values
    <3> QED BY <1>0, <2>0, <3>1, <3>2
  <2>2. ASSUME NEW row \in page.added, Editor!FillNewRow(row)
        PROVE  Typed(page')
    <3>1. /\ page'.added = (page.added \ {row}) \cup {[row EXCEPT !.v = "mine"]} /\ page'.newIds = page.newIds
          /\ page'.selected = page.selected
      BY <1>0, <2>2 DEF Editor!FillNewRow, Editor!Counted, SheetFields
    <3>2. [row EXCEPT !.v = "mine"] \in [id : Temp, v : Editor!Values]
      BY <1>0 DEF Editor!Values
    <3> QED BY <1>0, <2>0, <3>1, <3>2
  <2>3. ASSUME NEW ids \in SUBSET (Ids \cup Temp), Editor!Select(ids)
        PROVE  Typed(page')
    <3>1. page'.added = page.added /\ page'.newIds = page.newIds /\ page'.selected = ids
      BY <1>0, <2>3 DEF Editor!Select, Editor!Counted, SheetFields
    <3> QED BY <1>0, <3>1
  <2> QED BY <2>1, <2>2, <2>3
<1>3. page.view \in Views /\ page.dialog \in EditorDialogs
  BY DEF Edited
<1> QED BY <1>1, <1>2, <1>3, FewerEdited

\* A request of the page other than a save or a deletion.
LEMMA PlainSent ==
  ASSUME Editor!EditorAssumption, NEW w, \A r \in w : Lawful(r), NEW kind, kind # "delete", NEW of, NEW db
  PROVE  \A r \in Editor!Sent(w, MaxWire, Editor!Request(kind, of, db)) : Lawful(r)
<1> DEFINE s == Editor!Request(kind, of, db)
<1>1. DOMAIN s = EditorFields /\ s.view = Editor!First /\ s.upd = {} /\ s.rows = {} /\ s.kind = kind
  BY DEF Editor!Request, EditorFields
<1> HIDE DEF s
<1>2. \A r \in Editor!Sent(w, MaxWire, s) : Lawful(r)
  BY <1>1, FirstIsView, EditorSends DEF Sole
<1> QED BY <1>2 DEF s

\* Loading, saving, deleting, exporting and importing.
LEMMA RequestsKeep ==
  ASSUME Editor!EditorAssumption, EditorInv,
         \/ (\E w \in Views : Editor!Reload(w)) \/ Editor!Save \/ Editor!DeleteSelected
         \/ Editor!DoExport \/ \E mode \in Editor!Modes : Editor!DoImport(mode)
  PROVE  EditorInv'
<1>0. Edited(page) /\ page = [f \in SheetFields |-> page[f]] /\ \A r \in wire : Lawful(r)
  BY DEF EditorInv, Edited
<1>1. ASSUME NEW w \in Views, Editor!Reload(w)
      PROVE  Edited(page') /\ \A r \in wire' : Lawful(r)
  <2>1. page' = [Editor!Counted(page) EXCEPT !.view = w]
    BY <1>1 DEF Editor!Reload
  <2>2. /\ page' = [f \in SheetFields |-> page'[f]] /\ page'.view = w
        /\ \A f \in SheetFields \ {"view", "changes"} : page'[f] = page[f]
    BY <1>0, <2>1 DEF Editor!Counted, SheetFields
  <2>3. Edited(page')
    BY <1>0, <2>2 DEF Edited, SheetFields
  <2> QED BY <1>0, <1>1, <2>3, EditorLoads DEF Editor!Reload
<1>2. ASSUME Editor!Save
      PROVE  Edited(page') /\ \A r \in wire' : Lawful(r)
  <2>1. page' = [page EXCEPT !.changes = @ + 1]
    BY <1>2 DEF Editor!Save, Editor!Counted
  <2>2. page' = [f \in SheetFields |-> page'[f]] /\ \A f \in SheetFields \ {"changes"} : page'[f] = page[f]
    BY <1>0, <2>1 DEF SheetFields
  <2>3. Edited(page')
    BY <1>0, <2>2 DEF Edited, SheetFields
  <2> DEFINE ins == {row.id : row \in Editor!Inserted(page)}
             s == [Editor!Request("save", "none", Database) EXCEPT !.upd = page.dirty, !.ins = ins]
  <2>4. wire' = Editor!Sent(wire, MaxWire, s)
    BY <1>2 DEF Editor!Save
  <2> HIDE DEF ins
  <2>5. DOMAIN s = EditorFields /\ s.view = Editor!First /\ s.upd = page.dirty /\ s.rows = {} /\ s.kind = "save"
    BY DEF Editor!Request, EditorFields
  <2> HIDE DEF s
  <2>6. page.dirty \subseteq EditorChange /\ Sole(page.dirty)
    BY <1>0 DEF Edited
  <2> QED BY <1>0, <2>3, <2>4, <2>5, <2>6, FirstIsView, EditorSends
<1>3. ASSUME Editor!DeleteSelected
      PROVE  Edited(page') /\ \A r \in wire' : Lawful(r)
  <2> DEFINE ids == page.dialog.ids
             real == ids \ page.newIds
             newIds == page.newIds \ ids
             dirty == {d \in page.dirty : d.id \notin real}
             rows == {row \in page.rows : row.id \notin ids}
             added == {row \in page.added : row.id \notin ids}
             selected == page.selected \ ids
             s == [Editor!Request("delete", "none", Database) EXCEPT !.del = real]
  <2>1. page' = [page EXCEPT !.newIds = newIds, !.dirty = dirty, !.rows = rows, !.added = added, !.selected = selected,
                             !.dialog = Editor!NoDialog]
    BY <1>3 DEF Editor!DeleteSelected
  <2>2. real \cap System = {}
    BY <1>0, <1>3 DEF Editor!DeleteSelected, Edited, EditorDialogs
  <2>3. /\ newIds \subseteq Temp /\ dirty \subseteq page.dirty /\ rows \subseteq page.rows /\ selected \subseteq Ids \cup Temp
        /\ added \subseteq [id : Temp, v : Editor!Values]
    BY <1>0 DEF Edited
  <2>4. wire' = wire \/ wire' = Editor!Sent(wire, MaxWire, s)
    BY <1>3 DEF Editor!DeleteSelected
  <2> HIDE DEF real, newIds, dirty, rows, added, selected
  <2>5. DOMAIN s = EditorFields /\ s.view = Editor!First /\ s.upd = {} /\ s.rows = {} /\ s.del = real
    BY DEF Editor!Request, EditorFields
  <2> HIDE DEF s
  <2>6. \A r \in wire' : Lawful(r)
    BY <1>0, <2>2, <2>4, <2>5, FirstIsView, EditorSends DEF Sole
  <2>7. /\ page' = [f \in SheetFields |-> page'[f]] /\ page'.newIds = newIds /\ page'.dirty = dirty /\ page'.rows = rows
        /\ page'.added = added /\ page'.selected = selected /\ page'.dialog = Editor!NoDialog
        /\ page'.view = page.view /\ page'.baseline = page.baseline
    BY <1>0, <2>1 DEF SheetFields
  <2>8. Editor!NoDialog \in EditorDialogs /\ page.view \in Views
    BY <1>0 DEF Editor!NoDialog, EditorDialogs, Edited
  <2> QED BY <1>0, <2>3, <2>6, <2>7, <2>8, FewerEdited
<1>4. ASSUME Editor!DoExport \/ \E mode \in Editor!Modes : Editor!DoImport(mode)
      PROVE  Edited(page') /\ \A r \in wire' : Lawful(r)
  <2>1. page' = [page EXCEPT !.dialog = Editor!NoDialog]
    BY <1>4 DEF Editor!DoExport, Editor!DoImport
  <2>2. Editor!NoDialog \in EditorDialogs
    BY DEF Editor!NoDialog, EditorDialogs
  <2>3. \E kind, of, db : kind # "delete" /\ wire' = Editor!Sent(wire, MaxWire, Editor!Request(kind, of, db))
    <3>1. CASE Editor!DoExport
      <4>1. wire' = Editor!Sent(wire, MaxWire, Editor!Request("export", "none", Database))
        BY <3>1 DEF Editor!DoExport
      <4> QED BY <4>1
    <3>2. ASSUME NEW mode, Editor!DoImport(mode)
          PROVE  wire' = Editor!Sent(wire, MaxWire, Editor!Request("import", mode, "default"))
      BY <3>2 DEF Editor!DoImport
    <3> QED BY <1>4, <3>1, <3>2
  <2> QED BY <1>0, <2>1, <2>2, <2>3, DialogKeeps, PlainSent
<1>5. srv' = srv
  BY DEF Editor!Reload, Editor!Save, Editor!DeleteSelected, Editor!DoExport, Editor!DoImport
<1>6. Dictionary(srv')
  BY <1>5 DEF EditorInv
<1> QED BY <1>1, <1>2, <1>3, <1>4, <1>6 DEF EditorInv

\* What the page does with an answer.
LEMMA AnswerKeeps ==
  ASSUME Editor!EditorAssumption, EditorInv, NEW r \in wire, Editor!Answer(r)
  PROVE  EditorInv'
<1>0. /\ Edited(page) /\ page = [f \in SheetFields |-> page[f]] /\ Lawful(r)
      /\ \A x \in wire \ {r} : Lawful(x)
  BY DEF EditorInv, Edited
<1>1. srv' = srv
  BY DEF Editor!Answer, Editor!DataAnswer, Editor!SaveAnswer, Editor!DeleteAnswer, Editor!ImportAnswer, Editor!ExportAnswer
<1>2. wire' = wire \ {r} \/ wire' = Editor!Load(page, wire \ {r})
  BY DEF Editor!Answer, Editor!DataAnswer, Editor!SaveAnswer, Editor!DeleteAnswer, Editor!ImportAnswer, Editor!ExportAnswer
<1>3. \A x \in wire' : Lawful(x)
  BY <1>0, <1>2, EditorLoads
<1>4. Edited(page')
  <2>1. CASE Editor!DataAnswer(r)
    <3>1. r.rows \subseteq EditorRow /\ Sole(r.rows)
      BY <1>0 DEF Lawful
    <3>2. page' = page \/ page' = Editor!Reloaded(page, r.rows)
      BY <2>1 DEF Editor!DataAnswer
    <3> QED BY <1>0, <3>1, <3>2, ReloadedIs
  <2>2. CASE Editor!SaveAnswer(r)
    <3>1. \/ page' = page \/ page' = [page EXCEPT !.dirty = {}, !.newIds = {}]
          \/ page' = [[page EXCEPT !.dirty = {}, !.newIds = {}] EXCEPT !.baseline = {}]
      BY <2>2 DEF Editor!SaveAnswer, Editor!Cleared
    <3>2. /\ page' = [f \in SheetFields |-> page'[f]]
          /\ page'.dirty \subseteq page.dirty /\ page'.newIds \subseteq page.newIds /\ page'.baseline \subseteq page.baseline
          /\ \A f \in {"view", "rows", "added", "selected", "dialog"} : page'[f] = page[f]
      BY <1>0, <3>1 DEF SheetFields
    <3>3. /\ page.view \in Views /\ page.added \subseteq [id : Temp, v : Editor!Values] /\ page.newIds \subseteq Temp
          /\ page.selected \subseteq Ids \cup Temp /\ page.dialog \in EditorDialogs
      BY <1>0 DEF Edited
    <3> QED BY <1>0, <3>2, <3>3, FewerEdited
  <2>3. CASE Editor!DeleteAnswer(r) \/ Editor!ImportAnswer(r) \/ Editor!ExportAnswer(r)
    BY <1>0, <2>3 DEF Editor!DeleteAnswer, Editor!ImportAnswer, Editor!ExportAnswer
  <2> QED BY <2>1, <2>2, <2>3 DEF Editor!Answer
<1>5. Dictionary(srv')
  BY <1>1 DEF EditorInv
<1> QED BY <1>3, <1>4, <1>5 DEF EditorInv

\* The service stores, deletes, answers and refuses; somebody else writes.
LEMMA DictionaryKeeps ==
  ASSUME EditorInv,
         \/ (\E row \in srv.rows : Editor!Other(row))
         \/ \E r \in wire : Editor!Serve(r) \/ Editor!Refuse(r)
  PROVE  EditorInv'
<1>0. /\ srv = [f \in {"rows", "inserted", "others"} |-> srv[f]] /\ srv.rows \subseteq EditorRow /\ Sole(srv.rows)
      /\ \A r \in wire : Lawful(r)
  BY DEF EditorInv, Dictionary
<1>1. page' = page
  BY DEF Editor!Other, Editor!Serve, Editor!Refuse
<1>2. ASSUME NEW row \in srv.rows, Editor!Other(row)
      PROVE  Dictionary(srv') /\ \A r \in wire' : Lawful(r)
  <2> DEFINE upd == {[id |-> row.id, v |-> "kept"]}
             rows == Editor!Updated(srv.rows, upd)
  <2>1. srv' = [srv EXCEPT !.others = @ + 1, !.rows = rows] /\ wire' = wire
    BY <1>2 DEF Editor!Other
  <2>2. Sole(upd) /\ \A u \in upd : u.v \in Editor!Values
    BY DEF Sole, Editor!Values
  <2>3. rows \subseteq EditorRow /\ Sole(rows)
    BY <1>0, <2>2, UpdatedIs
  <2> HIDE DEF rows
  <2>4. srv' = [f \in {"rows", "inserted", "others"} |-> srv'[f]] /\ srv'.rows = rows
    BY <1>0, <2>1
  <2> QED BY <1>0, <2>1, <2>3, <2>4 DEF Dictionary
<1>3. ASSUME NEW r \in wire, Editor!Serve(r)
      PROVE  Dictionary(srv') /\ \A x \in wire' : Lawful(x)
  <2>0. Lawful(r) /\ "done" \in Statuses /\ "conflict" \in Statuses
    BY <1>0 DEF Statuses
  <2> DEFINE shown == {row \in srv.rows : row.id \in Shows[r.view]}
             done == [r EXCEPT !.status = "done"]
             over == [r EXCEPT !.status = "conflict"]
             answered == [r EXCEPT !.status = "done", !.rows = shown]
  <2>1. shown \in SUBSET EditorRow /\ Sole(shown)
    BY <1>0 DEF Sole
  <2>2. Lawful(done) /\ Lawful(over)
    BY <2>0, EditorAnswers
  <2>3. Lawful(answered)
    BY <2>0, <2>1, EditorAnswers
  <2>4. \E a \in {done, over, answered} : wire' = (wire \ {r}) \cup {a}
    BY <1>3 DEF Editor!Serve, Editor!Settled
  <2> HIDE DEF done, over, answered
  <2>5. \A x \in wire' : Lawful(x)
    BY <1>0, <2>2, <2>3, <2>4
  <2> DEFINE stored == Editor!Updated(srv.rows, r.upd)
             left == {row \in srv.rows : row.id \notin r.del}
             count == [t \in Temp |-> srv.inserted[t] + IF t \in r.ins THEN 1 ELSE 0]
  <2>6. /\ stored \subseteq EditorRow /\ Sole(stored)
        /\ left \subseteq EditorRow /\ Sole(left)
    <3>1. Sole(r.upd) /\ \A u \in r.upd : u.v \in Editor!Values
      BY <2>0 DEF Lawful, EditorChange
    <3>2. stored \subseteq EditorRow /\ Sole(stored)
      BY <1>0, <3>1, UpdatedIs
    <3> QED BY <1>0, <3>2 DEF Sole
  <2>7. srv' = srv \/ srv' = [srv EXCEPT !.rows = left] \/ srv' = [srv EXCEPT !.rows = stored, !.inserted = count]
    BY <1>3 DEF Editor!Serve
  <2> HIDE DEF stored, left, count
  <2>8. srv' = [f \in {"rows", "inserted", "others"} |-> srv'[f]] /\ srv'.rows \in {srv.rows, left, stored}
    BY <1>0, <2>7
  <2> QED BY <1>0, <2>5, <2>6, <2>8 DEF Dictionary
<1>4. ASSUME NEW r \in wire, Editor!Refuse(r)
      PROVE  Dictionary(srv') /\ \A x \in wire' : Lawful(x)
  <2>1. Lawful([r EXCEPT !.status = "failed"])
    BY <1>0, EditorAnswers DEF Statuses
  <2>2. wire' = (wire \ {r}) \cup {[r EXCEPT !.status = "failed"]} /\ srv' = srv
    BY <1>4 DEF Editor!Refuse, Editor!Refused, Editor!Settled
  <2> QED BY <1>0, <2>1, <2>2 DEF EditorInv
<1> QED BY <1>1, <1>2, <1>3, <1>4 DEF EditorInv

\* Every step keeps the invariant.
LEMMA EditorStep ==
  ASSUME Editor!EditorAssumption, EditorInv, [Editor!Next]_<<page, wire, srv>>
  PROVE  EditorInv'
<1>0. Edited(page)
  BY DEF EditorInv
<1>1. CASE UNCHANGED <<page, wire, srv>>
  BY <1>1 DEF EditorInv
<1>2. CASE \/ (\E w \in Views : Editor!Reload(w)) \/ Editor!Save \/ Editor!DeleteSelected
           \/ Editor!DoExport \/ \E mode \in Editor!Modes : Editor!DoImport(mode)
  BY <1>2, RequestsKeep
<1>3. CASE \/ (\E row \in srv.rows : Editor!Other(row))
           \/ \E r \in wire : Editor!Serve(r) \/ Editor!Refuse(r)
  BY <1>3, DictionaryKeeps
<1>4. CASE \E r \in wire : Editor!Answer(r)
  BY <1>4, AnswerKeeps
<1>5. CASE \/ Editor!AskDelete \/ Editor!CloseDialog \/ Editor!OnExportClick \/ Editor!OnImportClick
           \/ Editor!PickFile \/ Editor!PickReplace
  <2>1. UNCHANGED <<wire, srv>>
    BY <1>5 DEF Editor!AskDelete, Editor!CloseDialog, Editor!OnExportClick, Editor!OnImportClick, Editor!PickFile,
                Editor!PickReplace, Editor!Opened, Editor!Quiet
  <2> QED BY <1>0, <1>5, <2>1, DialogsKeep DEF EditorInv
<1>6. CASE \/ (\E t \in Temp : Editor!AddRow(t)) \/ (\E row \in page.added : Editor!FillNewRow(row))
           \/ \E ids \in SUBSET (Ids \cup Temp) : Editor!Select(ids)
  <2>1. UNCHANGED <<wire, srv>>
    BY <1>6 DEF Editor!AddRow, Editor!FillNewRow, Editor!Select, Editor!Quiet
  <2> QED BY <1>0, <1>6, <2>1, AddingKeeps DEF EditorInv
<1>7. CASE \E row \in page.rows, v \in Editor!Values : Editor!CellChanged(row, v)
  <2>1. UNCHANGED <<wire, srv>>
    BY <1>7 DEF Editor!CellChanged, Editor!Quiet
  <2> QED BY <1>0, <1>7, <2>1, CellKeeps DEF EditorInv
<1> QED BY <1>1, <1>2, <1>3, <1>4, <1>5, <1>6, <1>7 DEF Editor!Next

\* The data page of a dictionary keeps its invariant: the update times it
\* remembers are those of the rows it shows, and what is deleted is not of the
\* system (data-editor.js).
THEOREM EditorInvariance ==
  ASSUME Editor!EditorAssumption
  PROVE  Editor!Spec => []EditorInv
<1>1. Editor!Init => EditorInv
  <2> SUFFICES ASSUME Editor!Init PROVE EditorInv
    OBVIOUS
  <2>1. page = [f \in SheetFields |-> page[f]]
    BY DEF Editor!Init, Editor!Entered, SheetFields
  <2>2. /\ page.view = Editor!First /\ page.rows = {} /\ page.added = {} /\ page.dirty = {} /\ page.newIds = {}
        /\ page.baseline = {} /\ page.selected = {} /\ page.dialog = Editor!NoDialog
    BY DEF Editor!Init, Editor!Entered
  <2>3. Editor!NoDialog \in EditorDialogs
    BY DEF Editor!NoDialog, EditorDialogs
  <2>4. Edited(page)
    BY <2>1, <2>2, <2>3, FirstIsView DEF Edited, Sole, OfShown
  <2>5. \A r \in wire : Lawful(r)
    <3>1. wire = Editor!Sent({}, MaxWire, Editor!Request("data", "none", Database))
      BY DEF Editor!Init
    <3> QED BY <3>1, PlainSent
  <2>6. Dictionary(srv)
    <3>1. /\ srv = [rows |-> srv.rows, inserted |-> srv.inserted, others |-> srv.others]
          /\ srv.rows = {[id |-> i, v |-> "kept", t |-> 1] : i \in Ids}
      BY DEF Editor!Init
    <3>2. srv = [f \in {"rows", "inserted", "others"} |-> srv[f]]
      BY <3>1
    <3>3. srv.rows \subseteq EditorRow /\ Sole(srv.rows)
      BY <3>1 DEF EditorRow, Editor!Values, Sole
    <3> QED BY <3>2, <3>3 DEF Dictionary
  <2> QED BY <2>4, <2>5, <2>6 DEF EditorInv
<1>2. EditorInv /\ [Editor!Next]_Editor!vars => EditorInv'
  BY EditorStep DEF Editor!vars
<1> QED BY <1>1, <1>2, PTL DEF Editor!Spec

\* The page and its requests keep to their types.
THEOREM EditorTyped ==
  ASSUME Editor!EditorAssumption
  PROVE  Editor!Spec => []Editor!TypeOK
<1>1. EditorInv => Editor!TypeOK
  BY DEF EditorInv, Edited, EditorRow, EditorDialogs, Lawful, Editor!TypeOK, Editor!Statuses, Statuses
<1> QED BY <1>1, EditorInvariance, PTL

\* An edit begins with the update time of the row it is made on, or with none,
\* in whatever order the lists, the saves and their answers come.
THEOREM EditorBaseline ==
  ASSUME Editor!EditorAssumption
  PROVE  Editor!Spec => []Editor!BaselineIsOfShown
<1>1. EditorInv => Editor!BaselineIsOfShown
  BY BaselineKnown DEF EditorInv, Editor!BaselineIsOfShown
<1> QED BY <1>1, EditorInvariance, PTL

\* A row of the system is never asked to be deleted: the question names the
\* rows, and they stay those of the question until it is answered.
THEOREM EditorDeletes ==
  ASSUME Editor!EditorAssumption
  PROVE  Editor!Spec => []Editor!DeletesAreAllowed
<1>1. EditorInv => Editor!DeletesAreAllowed
  BY DEF EditorInv, Lawful, Editor!DeletesAreAllowed
<1> QED BY <1>1, EditorInvariance, PTL

\* A save that was refused leaves every change in place for the next one.
LEMMA RefusalStep ==
  ASSUME Editor!Next
  PROVE  Editor!RefusalKeepsEditsStep
<1> SUFFICES ASSUME NEW x \in wire \ wire', x.kind = "save", x.status = "failed"
             PROVE  page.dirty \subseteq page'.dirty /\ page.newIds \subseteq page'.newIds
  BY DEF Editor!RefusalKeepsEditsStep
<1>1. \A p, w : w \subseteq Editor!Load(p, w)
  BY DEF Editor!Load, Editor!Sent
<1>2. PICK r \in wire : x = r /\ (Editor!Serve(r) \/ Editor!Refuse(r) \/ Editor!Answer(r))
  <2>1. \A w, s : w \subseteq Editor!Sent(w, MaxWire, s)
    BY DEF Editor!Sent
  <2>2. ASSUME ~\E r \in wire : Editor!Serve(r) \/ Editor!Refuse(r) \/ Editor!Answer(r)
        PROVE  wire \subseteq wire'
    <3>1. CASE \/ Editor!AskDelete \/ Editor!CloseDialog \/ Editor!OnExportClick \/ Editor!OnImportClick
               \/ Editor!PickFile \/ Editor!PickReplace \/ (\E t \in Temp : Editor!AddRow(t))
               \/ (\E row \in page.added : Editor!FillNewRow(row)) \/ (\E ids \in SUBSET (Ids \cup Temp) : Editor!Select(ids))
               \/ (\E row \in page.rows, v \in Editor!Values : Editor!CellChanged(row, v))
               \/ \E row \in srv.rows : Editor!Other(row)
      <4>1. wire' = wire
        BY <3>1 DEF Editor!AskDelete, Editor!CloseDialog, Editor!OnExportClick, Editor!OnImportClick, Editor!PickFile,
             Editor!PickReplace, Editor!AddRow, Editor!FillNewRow, Editor!Select, Editor!CellChanged, Editor!Other,
             Editor!Opened, Editor!Quiet
      <4> QED BY <4>1
    <3>2. CASE \E w \in Views : Editor!Reload(w)
      BY <1>1, <3>2 DEF Editor!Reload
    <3>3. CASE Editor!Save
      BY <2>1, <3>3 DEF Editor!Save
    <3>4. CASE Editor!DeleteSelected
      BY <2>1, <3>4 DEF Editor!DeleteSelected
    <3>5. CASE Editor!DoExport \/ \E mode \in Editor!Modes : Editor!DoImport(mode)
      BY <2>1, <3>5 DEF Editor!DoExport, Editor!DoImport
    <3> QED BY <2>2, <3>1, <3>2, <3>3, <3>4, <3>5 DEF Editor!Next
  <2>3. PICK r \in wire : Editor!Serve(r) \/ Editor!Refuse(r) \/ Editor!Answer(r)
    BY <2>2
  <2>4. wire \ {r} \subseteq wire'
    <3>1. CASE Editor!Answer(r)
      <4>1. wire' = wire \ {r} \/ wire' = Editor!Load(page, wire \ {r})
        BY <3>1 DEF Editor!Answer, Editor!DataAnswer, Editor!SaveAnswer, Editor!DeleteAnswer, Editor!ImportAnswer,
             Editor!ExportAnswer
      <4> QED BY <1>1, <4>1
    <3>2. CASE Editor!Serve(r) \/ Editor!Refuse(r)
      <4>1. \E a : wire' = (wire \ {r}) \cup {a}
        BY <3>2 DEF Editor!Serve, Editor!Refuse, Editor!Refused, Editor!Settled
      <4> QED BY <4>1
    <3> QED BY <2>3, <3>1, <3>2
  <2> QED BY <2>3, <2>4
<1>3. page' = page
  BY <1>2 DEF Editor!Serve, Editor!Refuse, Editor!Answer, Editor!DataAnswer, Editor!SaveAnswer, Editor!DeleteAnswer,
       Editor!ImportAnswer, Editor!ExportAnswer
<1> QED BY <1>3

\* A refused save keeps every edit that is not stored (doSave).
THEOREM EditorRefusal ==
  Editor!Spec => Editor!RefusalKeepsEdits
<1>1. [Editor!Next]_Editor!vars => [Editor!RefusalKeepsEditsStep]_Editor!vars
  BY RefusalStep
<1> QED BY <1>1, PTL DEF Editor!Spec, Editor!RefusalKeepsEdits

-----------------------------------------------------------------------------
(* The dictionary tree: the node that is highlighted, and the one the rows *)
(* are asked for.                                                          *)

Tree == INSTANCE DctTree WITH MaxChanges <- MaxRounds, MaxWire <- MaxChain

TreeFields == {"dict", "meta", "q", "cond", "conds", "selected", "parent", "cache", "drawn", "open", "arrow", "grid",
               "columns", "rows", "changes"}
TreeRequest == {"kind", "for", "of", "dict", "parent", "q", "cond", "then", "live", "answer"}

TreePage(p) == p = [f \in TreeFields |-> p[f]] /\ p.selected = p.parent

TreeInv == TreePage(page) /\ Framed(wire, TreeRequest)

\* The same dictionary and the same node.
Stays(q, p) == q = [f \in TreeFields |-> q[f]] /\ q.selected = p.selected /\ q.parent = p.parent /\ q.dict = p.dict

\* Requests of before, apart from those for children.
OfBefore(w) == Framed(w, TreeRequest) /\ \A r \in w : r \in wire \/ r.kind = "kids"

TreeWire == Framed(wire', TreeRequest) /\ Tree!HighlightIsAskedForStep

LEMMA TreeOfBefore ==
  ASSUME Framed(wire, TreeRequest), NEW w, w \subseteq wire
  PROVE  OfBefore(w) /\ OfBefore(Tree!Unhooked(w))
<1>1. OfBefore(w)
  BY DEF OfBefore, Framed
<1>2. ASSUME NEW r \in Tree!Unhooked(w)
      PROVE  r = [f \in TreeRequest \cup {"n", "status"} |-> r[f]] /\ (r \in wire \/ r.kind = "kids")
  <2>1. PICK q \in w : r = IF q.kind = "kids" THEN [q EXCEPT !.live = FALSE] ELSE q
    BY DEF Tree!Unhooked
  <2>2. q = [f \in TreeRequest \cup {"n", "status"} |-> q[f]] /\ q \in wire
    BY DEF Framed
  <2> DEFINE a == [q EXCEPT !.live = FALSE]
  <2>3. a = [f \in TreeRequest \cup {"n", "status"} |-> a[f]] /\ a.kind = q.kind
    BY <2>2 DEF TreeRequest
  <2> HIDE DEF a
  <2> QED BY <2>1, <2>2, <2>3 DEF a
<1>3. OfBefore(Tree!Unhooked(w))
  BY <1>2 DEF OfBefore, Framed
<1> QED BY <1>1, <1>3

LEMMA TreeFewer ==
  ASSUME OfBefore(wire')
  PROVE  TreeWire
BY DEF OfBefore, TreeWire, Tree!HighlightIsAskedForStep

LEMMA TreeSends ==
  ASSUME NEW w, OfBefore(w), NEW s, DOMAIN s = TreeRequest,
         s.kind = "data" => s.parent = page'.selected /\ s.dict = page'.dict,
         wire' = Tree!Sent(w, MaxChain, s)
  PROVE  TreeWire
<1>1. wire' = Sent(w, MaxChain, s)
  BY DEF Tree!Sent, Sent, Tree!FreeNumber, FreeNumber, Tree!Min, Min
<1>2. "n" \notin TreeRequest /\ "status" \notin TreeRequest /\ {"kind", "dict", "parent"} \subseteq TreeRequest
  BY DEF TreeRequest
<1>3. PICK q : /\ Sent(w, MaxChain, s) = w \cup {q}
               /\ \A f \in TreeRequest : q[f] = s[f]
               /\ Framed(Sent(w, MaxChain, s), TreeRequest)
  BY <1>2, SentAdds DEF OfBefore
<1>4. q.kind = s.kind /\ q.dict = s.dict /\ q.parent = s.parent
  BY <1>2, <1>3
<1>5. \A r \in wire' \ wire : r = q \/ r.kind = "kids"
  BY <1>1, <1>3 DEF OfBefore
<1>6. Tree!HighlightIsAskedForStep
  BY <1>4, <1>5 DEF Tree!HighlightIsAskedForStep
<1> QED BY <1>1, <1>3, <1>6 DEF TreeWire

LEMMA TreeRequests ==
  ASSUME NEW kind, NEW for, NEW of, NEW p, NEW then, NEW answer
  PROVE  LET a == Tree!Request(kind, for, of, p)
             b == [a EXCEPT !.then = then]
             c == [a EXCEPT !.answer = answer]
         IN  /\ DOMAIN a = TreeRequest /\ a.kind = kind /\ a.parent = p.parent /\ a.dict = p.dict
             /\ DOMAIN b = TreeRequest /\ b.kind = kind /\ b.parent = p.parent /\ b.dict = p.dict
             /\ DOMAIN c = TreeRequest /\ c.kind = kind
BY DEF Tree!Request, TreeRequest

\* Rows are asked for as the page has become.
LEMMA TreeLoads ==
  ASSUME NEW w, OfBefore(w), NEW p, p.parent = page'.selected, p.dict = page'.dict, NEW then,
         wire' = Tree!LoadThen(p, w, then)
  PROVE  TreeWire
<1> DEFINE a == Tree!Request("data", p.dict, None, p)
           b == [a EXCEPT !.then = then]
<1>1. wire' = w \/ wire' = Tree!Sent(w, MaxChain, b)
  BY DEF Tree!LoadThen
<1>2. DOMAIN b = TreeRequest /\ b.parent = p.parent /\ b.dict = p.dict
  BY TreeRequests
<1> HIDE DEF b
<1>3. CASE wire' = w
  BY <1>3, TreeFewer
<1>4. CASE wire' = Tree!Sent(w, MaxChain, b)
  BY <1>2, <1>4, TreeSends
<1> QED BY <1>1, <1>3, <1>4

\* What is done to the page without going to another node.
LEMMA TreePut ==
  ASSUME NEW p, p = [f \in TreeFields |-> p[f]], NEW f \in TreeFields \ {"dict", "selected", "parent"}, NEW v
  PROVE  Stays([p EXCEPT ![f] = v], p)
BY DEF Stays, TreeFields

LEMMA TreeHelpers ==
  ASSUME NEW p, p = [f \in TreeFields |-> p[f]], NEW x, NEW y
  PROVE  /\ Stays(p, p) /\ Stays(Tree!Counted(p), p) /\ Stays(Tree!Put(p, x, y), p) /\ Stays(Tree!RenderTree(p), p)
         /\ Stays(Tree!Reopened(p, x), p) /\ Stays(Tree!ApplyRowsToGrid(p, x), p)
<1>1. Stays(p, p) /\ Stays(Tree!Counted(p), p) /\ Stays(Tree!Put(p, x, y), p)
  BY DEF Stays, TreeFields, Tree!Counted, Tree!Put
<1>2. ASSUME NEW u, NEW v, NEW t
      PROVE  /\ Stays([p EXCEPT !.drawn = u, !.open = v, !.arrow = t], p)
             /\ Stays([p EXCEPT !.open = u, !.arrow = v], p)
             /\ Stays([p EXCEPT !.rows = u, !.columns = v, !.grid = t], p)
  BY DEF Stays, TreeFields
<1> QED BY <1>1, <1>2 DEF Tree!RenderTree, Tree!Reopened, Tree!ApplyRowsToGrid

LEMMA StaysThere ==
  ASSUME TreePage(page), NEW q, Stays(q, page), page' = q
  PROVE  TreePage(page') /\ page'.selected = page.selected /\ page'.parent = page.parent /\ page'.dict = page.dict
BY DEF Stays, TreePage

\* What the user does.
LEMMA TreeUser ==
  ASSUME TreeInv,
         \/ Tree!Reload \/ Tree!ChangeCond \/ Tree!ClearCond
         \/ \E q : Tree!Search(q)
         \/ \E n : Tree!SelectNode(n) \/ Tree!Toggle(n)
         \/ \E d : Tree!SwitchDict(d)
         \/ \E n : Tree!Removed(n)
  PROVE  TreePage(page') /\ TreeWire
<1> DEFINE p == Tree!Counted(page)
<1>0. TreePage(page) /\ OfBefore(wire) /\ page = [f \in TreeFields |-> page[f]]
  BY TreeOfBefore DEF TreeInv, TreePage
<1>1. Stays(p, page) /\ p = [f \in TreeFields |-> p[f]] /\ p.selected = p.parent
  BY <1>0, TreeHelpers DEF Stays, TreePage
<1> HIDE DEF p
<1>2. CASE Tree!Reload
  <2>1. page' = p /\ wire' = Tree!LoadThen(page, wire, "tree")
    BY <1>2 DEF Tree!Reload, p
  <2>2. TreePage(page') /\ page'.selected = page.selected /\ page'.dict = page.dict /\ page.selected = page.parent
    BY <1>0, <1>1, <2>1, StaysThere DEF TreePage
  <2>3. TreeWire
    BY <1>0, <2>1, <2>2, TreeLoads
  <2> QED BY <2>2, <2>3
<1>3. CASE Tree!ChangeCond
  <2>1. page' = [p EXCEPT !.cond = ~p.cond] /\ wire' = wire
    BY <1>3 DEF Tree!ChangeCond, Tree!Quiet, p
  <2>2. TreePage(page')
    BY <1>1, <2>1 DEF TreePage, TreeFields
  <2> QED BY <1>0, <2>1, <2>2, TreeFewer
<1>4. CASE Tree!ClearCond
  <2>1. page' = [p EXCEPT !.q = FALSE, !.cond = FALSE] /\ wire' = Tree!LoadThen(page', wire, "nothing")
    BY <1>4 DEF Tree!ClearCond, Tree!Load, p
  <2>2. TreePage(page')
    BY <1>1, <2>1 DEF TreePage, TreeFields
  <2>3. page'.parent = page'.selected
    BY <2>2 DEF TreePage
  <2>4. TreeWire
    BY <1>0, <2>1, <2>3, TreeLoads
  <2> QED BY <2>2, <2>4
<1>5. CASE \E q : Tree!Search(q)
  <2>1. PICK q : Tree!Search(q)
    BY <1>5
  <2> DEFINE s == [p EXCEPT !.q = q]
  <2>2. /\ page' = s \/ page' = [s EXCEPT !.selected = All, !.parent = All]
        /\ wire' = Tree!LoadThen(page', wire, "nothing")
    BY <2>1 DEF Tree!Search, Tree!Load, p
  <2>3. TreePage(s)
    BY <1>1 DEF TreePage, TreeFields
  <2> HIDE DEF s
  <2>4. TreePage(page')
    BY <2>2, <2>3 DEF TreePage, TreeFields
  <2>5. page'.parent = page'.selected
    BY <2>4 DEF TreePage
  <2>6. TreeWire
    BY <1>0, <2>2, <2>5, TreeLoads
  <2> QED BY <2>4, <2>6
<1>6. CASE \E n : Tree!SelectNode(n)
  <2>1. PICK n : page' = [p EXCEPT !.selected = n, !.parent = n] /\ wire' = Tree!LoadThen(page', wire, "nothing")
    BY <1>6 DEF Tree!SelectNode, Tree!Load, p
  <2>2. TreePage(page')
    BY <1>1, <2>1 DEF TreePage, TreeFields
  <2>3. page'.parent = page'.selected
    BY <2>2 DEF TreePage
  <2>4. TreeWire
    BY <1>0, <2>1, <2>3, TreeLoads
  <2> QED BY <2>2, <2>4
<1>7. CASE \E n : Tree!Toggle(n)
  <2>1. PICK n : Tree!Toggle(n)
    BY <1>7
  <2>2. \/ wire' = wire
        \/ wire' = Tree!Sent(wire, MaxChain, Tree!Request("kids", p.dict, n, p))
    BY <2>1 DEF Tree!Toggle, p
  <2>3. \/ page' = p
        \/ \E arrow : page' = [p EXCEPT !.arrow = arrow]
        \/ \E arrow, open : page' = [p EXCEPT !.arrow = arrow, !.open = open]
    BY <2>1 DEF Tree!Toggle, p
  <2>4. TreePage(page')
    BY <1>1, <2>3 DEF TreePage, TreeFields
  <2> DEFINE a == Tree!Request("kids", p.dict, n, p)
  <2>5. DOMAIN a = TreeRequest /\ a.kind = "kids"
    BY TreeRequests
  <2> HIDE DEF a
  <2>6. CASE wire' = wire
    BY <1>0, <2>4, <2>6, TreeFewer
  <2>7. CASE wire' = Tree!Sent(wire, MaxChain, a)
    BY <1>0, <2>4, <2>5, <2>7, TreeSends
  <2> QED BY <2>2, <2>6, <2>7 DEF a
<1>8. CASE \E d : Tree!SwitchDict(d)
  <2>1. PICK d : Tree!SwitchDict(d)
    BY <1>8
  <2> DEFINE s == Tree!Fresh(d)
             a == Tree!Request("meta", d, None, page')
  <2>2. s = [f \in TreeFields |-> s[f]] /\ s.selected = s.parent
    BY DEF Tree!Fresh, TreeFields
  <2> HIDE DEF s
  <2>3. page' = [s EXCEPT !.changes = page.changes + 1, !.drawn = page.drawn, !.open = page.open, !.arrow = page.arrow,
                          !.grid = page.grid, !.columns = page.columns, !.rows = page.rows]
    BY <2>1 DEF Tree!SwitchDict, s
  <2>4. TreePage(page')
    BY <2>2, <2>3 DEF TreePage, TreeFields
  <2>5. DOMAIN a = TreeRequest /\ a.kind = "meta"
    BY TreeRequests
  <2>6. wire' = Tree!Sent(wire, MaxChain, a)
    BY <2>1 DEF Tree!SwitchDict
  <2> HIDE DEF a
  <2> QED BY <1>0, <2>4, <2>5, <2>6, TreeSends
<1>9. CASE \E n : Tree!Removed(n)
  <2>1. page' = p /\ wire' = wire
    BY <1>9 DEF Tree!Removed, p
  <2>2. TreePage(page')
    BY <1>1, <2>1 DEF TreePage
  <2> QED BY <1>0, <2>1, <2>2, TreeFewer
<1> QED BY <1>2, <1>3, <1>4, <1>5, <1>6, <1>7, <1>8, <1>9

\* Answers: of rows, children, the tree and the chain of another dictionary.
LEMMA TreeAnswers ==
  ASSUME TreeInv, NEW r \in wire, Tree!Answer(r)
  PROVE  TreePage(page') /\ TreeWire
<1> DEFINE w == wire \ {r}
<1>0. /\ TreePage(page) /\ page = [f \in TreeFields |-> page[f]]
      /\ OfBefore(w) /\ OfBefore(Tree!Unhooked(w))
  BY TreeOfBefore DEF TreeInv, TreePage
<1> HIDE DEF w
<1>1. ASSUME NEW q, Stays(q, page), page' = q, wire' = w
      PROVE  TreePage(page') /\ TreeWire
  BY <1>0, <1>1, StaysThere, TreeFewer
<1>2. ASSUME NEW q, Stays(q, page), page' = q, NEW v, v \in {w, Tree!Unhooked(w)},
             NEW a, DOMAIN a = TreeRequest, a.kind # "data", wire' = Tree!Sent(v, MaxChain, a)
      PROVE  TreePage(page') /\ TreeWire
  <2>1. OfBefore(v)
    BY <1>0, <1>2
  <2> QED BY <1>0, <1>2, <2>1, StaysThere, TreeSends
<1>3. ASSUME NEW p, Stays(p, page), NEW f \in TreeFields \ {"dict", "selected", "parent"}, NEW v
      PROVE  Stays([p EXCEPT ![f] = v], page)
  <2>1. p = [g \in TreeFields |-> p[g]]
    BY <1>3 DEF Stays
  <2>2. Stays([p EXCEPT ![f] = v], p)
    BY <2>1, TreePut
  <2> QED BY <1>3, <2>2 DEF Stays
<1>4. {"arrow", "open", "drawn", "grid", "conds", "meta", "cache"} \subseteq TreeFields \ {"dict", "selected", "parent"}
  BY DEF TreeFields
<1>5. Stays(page, page)
  BY <1>0, TreeHelpers
<1>6. ASSUME NEW q, Stays(q, page), NEW v, v \in {w, Tree!Unhooked(w)}, NEW for, Tree!ToConds(q, v, for)
      PROVE  TreePage(page') /\ TreeWire
  <2> DEFINE a == Tree!Request("conds", for, q.meta, q)
  <2>1. DOMAIN a = TreeRequest /\ a.kind = "conds"
    BY TreeRequests
  <2>2. page' = q /\ wire' = Tree!Sent(v, MaxChain, a)
    BY <1>6 DEF Tree!ToConds
  <2> HIDE DEF a
  <2> QED BY <1>2, <1>6, <2>1, <2>2
<1>7. ASSUME NEW q, Stays(q, page), Tree!RefreshTree(q, w)
      PROVE  TreePage(page') /\ TreeWire
  <2>1. CASE page' = q /\ wire' = w
    BY <1>1, <1>7, <2>1
  <2>2. CASE ~(page' = q /\ wire' = w)
    <3> DEFINE a == [Tree!Request("refresh", q.dict, None, q) EXCEPT !.answer = {[of |-> n, nodes |-> {}] : n \in q.arrow \cup {Root}}]
               b == [q EXCEPT !["cache"] = {}]
    <3>1. DOMAIN a = TreeRequest /\ a.kind = "refresh"
      BY TreeRequests
    <3>2. page' = b /\ wire' = Tree!Sent(w, MaxChain, a)
      BY <1>7, <2>2 DEF Tree!RefreshTree
    <3>3. Stays(b, page)
      BY <1>3, <1>4, <1>7
    <3> HIDE DEF a, b
    <3> QED BY <1>2, <3>1, <3>2, <3>3
  <2> QED BY <2>1, <2>2
<1>8. CASE Tree!KidsAnswer(r)
  <2> DEFINE p == IF r.status = "done" THEN Tree!Put(page, r.of, r.answer) ELSE page
  <2>1. Stays(p, page) /\ wire' = w
    BY <1>0, <1>8, TreeHelpers DEF Tree!KidsAnswer, w
  <2>2. \/ page' = p
        \/ \E arrow, open : page' = [p EXCEPT !.arrow = arrow, !.open = open]
        \/ \E open : page' = [p EXCEPT !.open = open]
    <3> HIDE DEF p
    <3> QED BY <1>8 DEF Tree!KidsAnswer, p
  <2> HIDE DEF p
  <2>3. CASE page' = p
    BY <1>1, <2>1, <2>3
  <2>4. CASE \E open : page' = [p EXCEPT !["open"] = open]
    BY <1>1, <1>3, <1>4, <2>1, <2>4
  <2>5. CASE \E arrow, open : page' = [p EXCEPT !.arrow = arrow, !.open = open]
    <3>1. PICK arrow, open : page' = [p EXCEPT !.arrow = arrow, !.open = open]
      BY <2>5
    <3> DEFINE b == [p EXCEPT !.arrow = arrow, !.open = open]
    <3>2. Stays(b, page)
      BY <2>1 DEF Stays, TreeFields
    <3> HIDE DEF b
    <3> QED BY <1>1, <2>1, <3>1, <3>2 DEF b
  <2> QED BY <2>2, <2>3, <2>4, <2>5
<1>9. CASE Tree!RefreshAnswer(r)
  <2>1. CASE r.status = "failed"
    BY <1>1, <1>5, <1>9, <2>1 DEF Tree!RefreshAnswer, w
  <2>2. CASE r.status # "failed"
    <3> DEFINE cache == {c \in page.cache : \A a \in r.answer : a.of # c.of} \cup r.answer
               p == [page EXCEPT !["cache"] = cache]
               q == Tree!RenderTree(p)
               t == Tree!Reopened(q, {a.of : a \in r.answer})
    <3>1. page' = t /\ wire' = Tree!Unhooked(w)
      BY <1>9, <2>2 DEF Tree!RefreshAnswer, w
    <3> HIDE DEF cache
    <3>2. Stays(p, page)
      BY <1>3, <1>4, <1>5
    <3> HIDE DEF p
    <3>3. Stays(q, p)
      BY <3>2, TreeHelpers DEF Stays
    <3> HIDE DEF q
    <3>4. Stays(t, q)
      BY <3>3, TreeHelpers DEF Stays
    <3> HIDE DEF t
    <3>5. Stays(t, page)
      BY <3>2, <3>3, <3>4 DEF Stays
    <3>6. TreePage(page')
      BY <1>0, <3>1, <3>5, StaysThere
    <3> QED BY <1>0, <3>1, <3>6, TreeFewer
  <2> QED BY <2>1, <2>2
<1>10. CASE Tree!DataAnswer(r)
  <2> DEFINE p == IF r.status = "done" /\ page.meta # None THEN Tree!ApplyRowsToGrid(page, r.answer) ELSE page
  <2>1. Stays(p, page)
    BY <1>0, TreeHelpers
  <2>2. Tree!RefreshTree(p, w) \/ (page' = p /\ wire' = w)
    <3> HIDE DEF p
    <3> QED BY <1>10 DEF Tree!DataAnswer, p, w
  <2> HIDE DEF p
  <2> QED BY <1>1, <1>7, <2>1, <2>2
<1>11. CASE Tree!MetaAnswer(r)
  <2> DEFINE p == [page EXCEPT !["meta"] = r.for]
             q == [p EXCEPT !.drawn = {}, !.open = {}, !.arrow = {}, !.grid = None, !.conds = None]
             a == Tree!Request("roots", r.for, Root, p)
  <2>1. Stays(p, page)
    BY <1>3, <1>4, <1>5
  <2>2. \/ page' = page /\ wire' = w
        \/ page' = p /\ wire' = Tree!Sent(w, MaxChain, a)
        \/ Tree!ToConds(q, Tree!Unhooked(w), r.for)
    BY <1>11 DEF Tree!MetaAnswer, w
  <2> HIDE DEF p
  <2>3. Stays(q, page)
    BY <2>1 DEF Stays, TreeFields
  <2>4. DOMAIN a = TreeRequest /\ a.kind = "roots"
    BY TreeRequests
  <2> HIDE DEF q, a
  <2>5. CASE page' = page /\ wire' = w
    BY <1>1, <1>5, <2>5
  <2>6. CASE page' = p /\ wire' = Tree!Sent(w, MaxChain, a)
    BY <1>2, <2>1, <2>4, <2>6
  <2>7. CASE Tree!ToConds(q, Tree!Unhooked(w), r.for)
    BY <1>6, <2>3, <2>7
  <2> QED BY <2>2, <2>5, <2>6, <2>7
<1>12. CASE Tree!RootsAnswer(r)
  <2> DEFINE p == IF r.status = "done" THEN Tree!Put(page, Root, r.answer) ELSE page
             t == Tree!RenderTree(p)
             q == [[t EXCEPT !["grid"] = None] EXCEPT !["conds"] = None]
  <2>1. Stays(p, page)
    BY <1>0, TreeHelpers
  <2>2. (page' = p /\ wire' = w) \/ Tree!ToConds([t EXCEPT !.grid = None, !.conds = None], Tree!Unhooked(w), r.for)
    <3> HIDE DEF t
    <3> QED BY <1>12 DEF Tree!RootsAnswer, t, w
  <2> HIDE DEF p
  <2>3. Stays(t, page)
    BY <2>1, TreeHelpers DEF Stays
  <2> HIDE DEF t
  <2>4. Stays(q, page)
    BY <1>3, <1>4, <2>3
  <2>5. [t EXCEPT !.grid = None, !.conds = None] = q
    BY <2>3 DEF Stays, TreeFields
  <2> HIDE DEF q
  <2>6. CASE page' = p /\ wire' = w
    BY <1>1, <2>1, <2>6
  <2>7. CASE Tree!ToConds(q, Tree!Unhooked(w), r.for)
    BY <1>6, <2>4, <2>7
  <2> QED BY <2>2, <2>5, <2>6, <2>7
<1>13. CASE Tree!CondsAnswer(r)
  <2> DEFINE v == IF r.status = "done" THEN r.of ELSE None
  <2>1. page' = [page EXCEPT !["conds"] = v] /\ wire' = Tree!LoadThen(page', w, "nothing")
    BY <1>13 DEF Tree!CondsAnswer, Tree!Load, w
  <2> HIDE DEF v
  <2>2. TreePage(page')
    BY <1>0, <1>3, <1>4, <1>5, <2>1, StaysThere
  <2>3. page'.parent = page'.selected
    BY <2>2 DEF TreePage
  <2>4. TreeWire
    BY <1>0, <2>1, <2>3, TreeLoads
  <2> QED BY <2>2, <2>4
<1> QED BY <1>8, <1>9, <1>10, <1>11, <1>12, <1>13 DEF Tree!Answer

\* The dictionary service.
LEMMA TreeService ==
  ASSUME TreeInv, NEW r \in wire, Tree!Serve(r) \/ Tree!Refuse(r)
  PROVE  TreePage(page') /\ TreeWire
<1>0. TreePage(page) /\ Framed(wire, TreeRequest) /\ r = [f \in TreeRequest \cup {"n", "status"} |-> r[f]]
  BY DEF TreeInv, Framed
<1> DEFINE closed(a) == a = [f \in TreeRequest \cup {"n", "status"} |-> a[f]] /\ a.status # "asked"
<1>1. PICK a : closed(a) /\ wire' = (wire \ {r}) \cup {a} /\ page' = page
  <2>1. CASE Tree!Serve(r)
    <3>1. PICK answer : wire' = (wire \ {r}) \cup {[r EXCEPT !.status = "done", !.answer = answer]} /\ page' = page
      BY <2>1 DEF Tree!Serve, Tree!Settled
    <3>2. closed([r EXCEPT !.status = "done", !.answer = answer])
      BY <1>0 DEF TreeRequest
    <3> QED BY <3>1, <3>2
  <2>2. CASE Tree!Refuse(r)
    <3>1. wire' = (wire \ {r}) \cup {[r EXCEPT !.status = "failed"]} /\ page' = page
      BY <2>2 DEF Tree!Refuse, Tree!Refused, Tree!Settled
    <3>2. closed([r EXCEPT !.status = "failed"])
      BY <1>0 DEF TreeRequest
    <3> QED BY <3>1, <3>2
  <2> QED BY <2>1, <2>2
<1>2. Framed(wire', TreeRequest)
  BY <1>0, <1>1 DEF Framed
<1>3. Tree!HighlightIsAskedForStep
  BY <1>1 DEF Tree!HighlightIsAskedForStep
<1> QED BY <1>0, <1>1, <1>2, <1>3 DEF TreePage, TreeWire

\* Every step keeps the invariant, and asks for the rows of the node that is
\* highlighted afterwards.
LEMMA TreeStep ==
  ASSUME TreeInv, Tree!Next
  PROVE  TreeInv' /\ Tree!HighlightIsAskedForStep
<1>1. TreePage(page') /\ TreeWire
  <2>1. CASE \/ Tree!Reload \/ Tree!ChangeCond \/ Tree!ClearCond
             \/ \E q : Tree!Search(q)
             \/ \E n : Tree!SelectNode(n) \/ Tree!Toggle(n)
             \/ \E d : Tree!SwitchDict(d)
             \/ \E n : Tree!Removed(n)
    BY <2>1, TreeUser
  <2>2. CASE \E r \in wire : Tree!Answer(r)
    BY <2>2, TreeAnswers
  <2>3. CASE \E r \in wire : Tree!Serve(r) \/ Tree!Refuse(r)
    BY <2>3, TreeService
  <2> QED BY <2>1, <2>2, <2>3 DEF Tree!Next
<1> QED BY <1>1 DEF TreeInv, TreeWire

\* On the dictionary page the node that is highlighted is the one new
\* requests are made for, however a switch to another dictionary, a search
\* and answers to earlier requests mix.
THEOREM TreeInvariance ==
  Tree!Spec => []TreeInv
<1>1. Tree!Init => TreeInv
  <2> SUFFICES ASSUME Tree!Init PROVE TreeInv
    OBVIOUS
  <2>1. PICK d : page = Tree!Fresh(d) /\ wire = Tree!Sent({}, MaxChain, Tree!Request("meta", d, None, Tree!Fresh(d)))
    BY DEF Tree!Init
  <2>2. TreePage(page)
    BY <2>1 DEF Tree!Fresh, TreePage, TreeFields
  <2> DEFINE a == Tree!Request("meta", d, None, Tree!Fresh(d))
  <2>3. wire = Sent({}, MaxChain, a)
    BY <2>1 DEF Tree!Sent, Sent, Tree!FreeNumber, FreeNumber, Tree!Min, Min
  <2>4. DOMAIN a = TreeRequest /\ "n" \notin TreeRequest /\ "status" \notin TreeRequest
    BY TreeRequests DEF TreeRequest
  <2>5. Framed({}, TreeRequest)
    BY DEF Framed
  <2> HIDE DEF a
  <2>6. Framed(wire, TreeRequest)
    BY <2>3, <2>4, <2>5, SentAdds
  <2> QED BY <2>2, <2>6 DEF TreeInv
<1>2. TreeInv /\ [Tree!Next]_Tree!vars => TreeInv'
  <2>1. CASE TreeInv /\ Tree!Next
    BY <2>1, TreeStep
  <2>2. CASE TreeInv /\ UNCHANGED Tree!vars
    BY <2>2 DEF Tree!vars, TreeInv, TreePage, Framed
  <2> QED BY <2>1, <2>2
<1> QED BY <1>1, <1>2, PTL DEF Tree!Spec

\* Rows are asked for of the dictionary and the node that are shown as chosen
\* (selectNode, search, switchDict).
THEOREM TreeHighlightIsAskedFor ==
  Tree!Spec => Tree!HighlightIsAskedFor
<1>1. TreeInv /\ [Tree!Next]_Tree!vars => [Tree!HighlightIsAskedForStep]_Tree!vars
  BY TreeStep
<1> QED BY <1>1, TreeInvariance, PTL DEF Tree!Spec, Tree!HighlightIsAskedFor

\* An open arrow: its children are shown, or asked for.
Held(p, w) == \A n \in p.arrow : n \in p.open \/ \E q \in w : q.kind = "kids" /\ q.of = n /\ q.live

\* What was asked for is asked for still.
KidsKept(v) == \A q \in wire : q.kind = "kids" /\ q.live => \E a \in v : a.kind = "kids" /\ a.of = q.of /\ a.live

LEMMA HeldStays ==
  ASSUME Held(page, wire), page'.arrow = page.arrow, page'.open = page.open, KidsKept(wire')
  PROVE  Held(page', wire')
BY DEF Held, KidsKept

LEMMA HeldByOpen ==
  ASSUME NEW p, p.arrow \subseteq p.open, NEW w
  PROVE  Held(p, w)
BY DEF Held

LEMMA SentKeepsKids ==
  ASSUME NEW v, KidsKept(v), NEW s, NEW p, NEW then
  PROVE  KidsKept(Tree!Sent(v, MaxChain, s)) /\ KidsKept(Tree!LoadThen(p, v, then))
<1>2. ASSUME NEW t PROVE KidsKept(Tree!Sent(v, MaxChain, t))
  BY DEF KidsKept, Tree!Sent
<1>3. Tree!LoadThen(p, v, then) = v \/ \E t : Tree!LoadThen(p, v, then) = Tree!Sent(v, MaxChain, t)
  BY DEF Tree!LoadThen
<1> QED BY <1>2, <1>3

LEMMA ArrowUser ==
  ASSUME TreeInv, Held(page, wire),
         \/ Tree!Reload \/ Tree!ChangeCond \/ Tree!ClearCond
         \/ \E q : Tree!Search(q)
         \/ \E n : Tree!SelectNode(n) \/ Tree!Toggle(n)
         \/ \E d : Tree!SwitchDict(d)
         \/ \E n : Tree!Removed(n)
  PROVE  Held(page', wire')
<1> DEFINE p == Tree!Counted(page)
<1>0. page = [f \in TreeFields |-> page[f]] /\ KidsKept(wire)
  BY DEF TreeInv, TreePage, KidsKept
<1>1. p = [f \in TreeFields |-> p[f]] /\ p.arrow = page.arrow /\ p.open = page.open
  BY <1>0 DEF Tree!Counted, TreeFields
<1> HIDE DEF p
<1>2. CASE Tree!Reload \/ Tree!ChangeCond \/ Tree!ClearCond \/ (\E q : Tree!Search(q)) \/ (\E n : Tree!SelectNode(n)) \/ \E n : Tree!Removed(n)
  <2>1. wire' = wire \/ \E q, then : wire' = Tree!LoadThen(q, wire, then)
    BY <1>2 DEF Tree!Reload, Tree!ChangeCond, Tree!ClearCond, Tree!Search, Tree!SelectNode, Tree!Removed, Tree!Quiet, Tree!Load
  <2>2. page'.arrow = page.arrow /\ page'.open = page.open
    <3>1. CASE Tree!Reload \/ \E n : Tree!Removed(n)
      BY <1>1, <3>1 DEF Tree!Reload, Tree!Removed, p
    <3>2. CASE Tree!ChangeCond
      <4>1. page' = [p EXCEPT !.cond = ~p.cond]
        BY <3>2 DEF Tree!ChangeCond, p
      <4> QED BY <1>1, <4>1 DEF TreeFields
    <3>3. CASE Tree!ClearCond
      <4>1. page' = [p EXCEPT !.q = FALSE, !.cond = FALSE]
        BY <3>3 DEF Tree!ClearCond, p
      <4> QED BY <1>1, <4>1 DEF TreeFields
    <3>4. CASE \E q : Tree!Search(q)
      <4>1. PICK q : Tree!Search(q)
        BY <3>4
      <4> DEFINE s == [p EXCEPT !.q = q]
      <4>2. page' = s \/ page' = [s EXCEPT !.selected = All, !.parent = All]
        BY <4>1 DEF Tree!Search, p
      <4>3. s = [f \in TreeFields |-> s[f]] /\ s.arrow = page.arrow /\ s.open = page.open
        BY <1>1 DEF TreeFields
      <4> HIDE DEF s
      <4> QED BY <4>2, <4>3 DEF TreeFields
    <3>5. CASE \E n : Tree!SelectNode(n)
      <4>1. PICK n : page' = [p EXCEPT !.selected = n, !.parent = n]
        BY <3>5 DEF Tree!SelectNode, p
      <4> QED BY <1>1, <4>1 DEF TreeFields
    <3> QED BY <1>2, <3>1, <3>2, <3>3, <3>4, <3>5
  <2>3. KidsKept(wire')
    BY <1>0, <2>1, SentKeepsKids
  <2> QED BY <2>2, <2>3, HeldStays
<1>3. CASE \E n : Tree!Toggle(n)
  <2>1. PICK n : Tree!Toggle(n)
    BY <1>3
  <2>2. CASE n \in page.arrow
    <3>1. page' = [p EXCEPT !.arrow = p.arrow \ {n}, !.open = p.open \ {n}] /\ wire' = wire
      BY <1>1, <2>1, <2>2 DEF Tree!Toggle, p
    <3>2. page'.arrow = page.arrow \ {n} /\ page'.open = page.open \ {n}
      BY <1>1, <3>1 DEF TreeFields
    <3> QED BY <3>1, <3>2 DEF Held
  <2>3. CASE n \notin page.arrow /\ Tree!Cached(page, n)
    <3>1. wire' = wire /\ (page' = p \/ page' = [p EXCEPT !.arrow = p.arrow \cup {n}, !.open = p.open \cup {n}])
      BY <1>1, <2>1, <2>3 DEF Tree!Toggle, p
    <3>2. CASE page' = p
      BY <1>0, <1>1, <3>1, <3>2, HeldStays
    <3>3. CASE page' = [p EXCEPT !.arrow = p.arrow \cup {n}, !.open = p.open \cup {n}]
      <4>1. page'.arrow = page.arrow \cup {n} /\ page'.open = page.open \cup {n}
        BY <1>1, <3>3 DEF TreeFields
      <4> QED BY <3>1, <4>1 DEF Held
    <3> QED BY <3>1, <3>2, <3>3
  <2>4. CASE n \notin page.arrow /\ ~Tree!Cached(page, n)
    <3> DEFINE s == Tree!Request("kids", p.dict, n, p)
    <3>1. page' = [p EXCEPT !.arrow = p.arrow \cup {n}] /\ wire' = Tree!Sent(wire, MaxChain, s)
      BY <1>1, <2>1, <2>4 DEF Tree!Toggle, p
    <3>2. page'.arrow = page.arrow \cup {n} /\ page'.open = page.open
      BY <1>1, <3>1 DEF TreeFields
    <3>3. DOMAIN s = TreeRequest /\ s.kind = "kids" /\ s.of = n /\ s.live = TRUE
      BY DEF Tree!Request, TreeRequest
    <3> HIDE DEF s
    <3>4. wire' = Sent(wire, MaxChain, s)
      BY <3>1 DEF Tree!Sent, Sent, Tree!FreeNumber, FreeNumber, Tree!Min, Min
    <3>5. "n" \notin TreeRequest /\ "status" \notin TreeRequest /\ {"kind", "of", "live"} \subseteq TreeRequest
      BY DEF TreeRequest
    <3>6. PICK q : wire' = wire \cup {q} /\ \A f \in TreeRequest : q[f] = s[f]
      BY <3>3, <3>4, <3>5, SentAdds DEF TreeInv
    <3>7. q.kind = "kids" /\ q.of = n /\ q.live
      BY <3>3, <3>5, <3>6
    <3> QED BY <3>2, <3>6, <3>7 DEF Held
  <2> QED BY <2>2, <2>3, <2>4
<1>4. CASE \E d : Tree!SwitchDict(d)
  <2>1. PICK d : Tree!SwitchDict(d)
    BY <1>4
  <2> DEFINE s == Tree!Fresh(d)
  <2>2. s = [f \in TreeFields |-> s[f]]
    BY DEF Tree!Fresh, TreeFields
  <2> HIDE DEF s
  <2>3. page' = [s EXCEPT !.changes = page.changes + 1, !.drawn = page.drawn, !.open = page.open, !.arrow = page.arrow,
                          !.grid = page.grid, !.columns = page.columns, !.rows = page.rows]
    BY <2>1 DEF Tree!SwitchDict, s
  <2>4. page'.arrow = page.arrow /\ page'.open = page.open
    BY <2>2, <2>3 DEF TreeFields
  <2>5. \E t : wire' = Tree!Sent(wire, MaxChain, t)
    BY <2>1 DEF Tree!SwitchDict
  <2>6. KidsKept(wire')
    BY <1>0, <2>5, SentKeepsKids
  <2> QED BY <2>4, <2>6, HeldStays
<1> QED BY <1>2, <1>3, <1>4

LEMMA ArrowAnswers ==
  ASSUME TreeInv, Held(page, wire), NEW r \in wire, Tree!Answer(r)
  PROVE  Held(page', wire')
<1> DEFINE w == wire \ {r}
           Same(q) == q = [f \in TreeFields |-> q[f]] /\ q.arrow = page.arrow /\ q.open = page.open
<1>0. page = [f \in TreeFields |-> page[f]] /\ Same(page)
  BY DEF TreeInv, TreePage
<1>1. r.kind # "kids" \/ ~r.live => KidsKept(w)
  BY DEF KidsKept
<1> HIDE DEF w
<1>2. ASSUME NEW q, Same(q), page' = q, KidsKept(wire')
      PROVE  Held(page', wire')
  BY <1>2, HeldStays
<1>3. ASSUME NEW p, Same(p), NEW f \in TreeFields \ {"arrow", "open"}, NEW v
      PROVE  Same([p EXCEPT ![f] = v])
  BY <1>3 DEF TreeFields
<1>4. {"cache", "drawn", "rows", "columns", "grid", "conds", "meta"} \subseteq TreeFields \ {"arrow", "open"}
  BY DEF TreeFields
<1>5. ASSUME NEW id, NEW nodes PROVE Same(Tree!Put(page, id, nodes))
  <2>1. Tree!Put(page, id, nodes) = [page EXCEPT !["cache"] = {c \in page.cache : c.of # id} \cup {[of |-> id, nodes |-> nodes]}]
    BY DEF Tree!Put
  <2> HIDE DEF Same
  <2> QED BY <1>0, <1>3, <1>4, <2>1
<1>6. CASE Tree!KidsAnswer(r)
  <2> DEFINE p == IF r.status = "done" THEN Tree!Put(page, r.of, r.answer) ELSE page
  <2>1. Same(p)
    BY <1>0, <1>5
  <2>2. wire' = w /\ r.kind = "kids"
    BY <1>6 DEF Tree!KidsAnswer, w
  <2> HIDE DEF p
  <2>3. CASE ~r.live
    <3>1. page' = p
      BY <1>6, <2>3 DEF Tree!KidsAnswer, p
    <3> QED BY <1>1, <1>2, <2>1, <2>2, <2>3, <3>1
  <2>4. CASE r.live
    <3>1. \/ page' = [p EXCEPT !.arrow = p.arrow \ {r.of}, !.open = p.open \ {r.of}]
          \/ page' = [p EXCEPT !.open = p.open \cup {r.of}]
      BY <1>6, <2>4 DEF Tree!KidsAnswer, p
    <3>2. \/ page'.arrow = page.arrow \ {r.of} /\ page'.open = page.open \ {r.of}
          \/ page'.arrow = page.arrow /\ page'.open = page.open \cup {r.of}
      BY <2>1, <3>1 DEF TreeFields
    <3>3. \A n \in page.arrow : n # r.of => n \in page.open \/ \E q \in w : q.kind = "kids" /\ q.of = n /\ q.live
      BY DEF Held, w
    <3> QED BY <2>2, <3>2, <3>3 DEF Held
  <2> QED BY <2>3, <2>4
<1>7. ASSUME NEW q, Tree!RefreshTree(q, w), Same(q), KidsKept(w)
      PROVE  Held(page', wire')
  <2>1. CASE page' = q /\ wire' = w
    BY <1>2, <1>7, <2>1
  <2>2. CASE ~(page' = q /\ wire' = w)
    <3> DEFINE b == [q EXCEPT !["cache"] = {}]
    <3>1. page' = b /\ \E t : wire' = Tree!Sent(w, MaxChain, t)
      BY <1>7, <2>2 DEF Tree!RefreshTree
    <3>2. Same(b)
      <4> HIDE DEF Same
      <4> QED BY <1>3, <1>4, <1>7
    <3>3. KidsKept(wire')
      BY <1>7, <3>1, SentKeepsKids
    <3> HIDE DEF b, Same
    <3> QED BY <1>2, <3>1, <3>2, <3>3
  <2> QED BY <2>1, <2>2
<1>8. ASSUME NEW q, Same(q), NEW v, KidsKept(v), NEW for, Tree!ToConds(q, v, for)
      PROVE  Held(page', wire')
  <2>1. page' = q /\ \E t : wire' = Tree!Sent(v, MaxChain, t)
    BY <1>8 DEF Tree!ToConds
  <2>2. KidsKept(wire')
    BY <1>8, <2>1, SentKeepsKids
  <2> HIDE DEF Same
  <2> QED BY <1>2, <1>8, <2>1, <2>2
<1>9. CASE Tree!RefreshAnswer(r)
  <2>1. CASE page' = page /\ wire' = w
    <3>1. r.kind = "refresh"
      BY <1>9 DEF Tree!RefreshAnswer
    <3> QED BY <1>0, <1>1, <1>2, <2>1, <3>1
  <2>2. CASE ~(page' = page /\ wire' = w)
    <3>1. PICK p, ids : page' = Tree!Reopened(Tree!RenderTree(p), ids) /\ p = [f \in TreeFields |-> p[f]]
      <4> DEFINE p == [page EXCEPT !.cache = {c \in page.cache : \A a \in r.answer : a.of # c.of} \cup r.answer]
                 ids == {a.of : a \in r.answer}
      <4>1. p = [f \in TreeFields |-> p[f]]
        BY <1>0
      <4>2. page' = Tree!Reopened(Tree!RenderTree(p), ids)
        BY <1>9, <2>2 DEF Tree!RefreshAnswer, w
      <4> QED BY <4>1, <4>2
    <3> DEFINE q == Tree!RenderTree(p)
    <3>2. q = [f \in TreeFields |-> q[f]]
      BY <3>1 DEF Tree!RenderTree
    <3> HIDE DEF q
    <3>3. PICK all : page' = [q EXCEPT !.open = all, !.arrow = all]
      BY <3>1 DEF Tree!Reopened, q
    <3>4. page'.arrow = all /\ page'.open = all
      BY <3>2, <3>3 DEF TreeFields
    <3> QED BY <3>4, HeldByOpen
  <2> QED BY <2>1, <2>2
<1>10. CASE Tree!DataAnswer(r)
  <2> DEFINE p == IF r.status = "done" /\ page.meta # None THEN Tree!ApplyRowsToGrid(page, r.answer) ELSE page
  <2>1. Same(p)
    <3> DEFINE rows == r.answer
               columns == IF page.grid = page.dict THEN page.columns ELSE page.meta
    <3>1. Tree!ApplyRowsToGrid(page, r.answer) = [page EXCEPT !.rows = rows, !.columns = columns, !.grid = page.dict]
      BY DEF Tree!ApplyRowsToGrid
    <3> HIDE DEF rows, columns
    <3>2. Same([page EXCEPT !.rows = rows, !.columns = columns, !.grid = page.dict])
      BY <1>0 DEF TreeFields
    <3> HIDE DEF Same
    <3> QED BY <1>0, <3>1, <3>2
  <2>2. KidsKept(w)
    BY <1>1, <1>10 DEF Tree!DataAnswer
  <2> HIDE DEF p, Same
  <2>3. Tree!RefreshTree(p, w) \/ (page' = p /\ wire' = w)
    BY <1>10 DEF Tree!DataAnswer, p, w
  <2> QED BY <1>2, <1>7, <2>1, <2>2, <2>3
<1>11. CASE Tree!MetaAnswer(r)
  <2>1. r.kind = "meta" /\ KidsKept(w)
    BY <1>1, <1>11 DEF Tree!MetaAnswer
  <2> DEFINE p == [page EXCEPT !["meta"] = r.for]
  <2>2. Same(p)
    <3> HIDE DEF Same
    <3> QED BY <1>0, <1>3, <1>4
  <2> HIDE DEF p
  <2>3. CASE r.status = "failed"
    <3>1. page' = page /\ wire' = w
      BY <1>11, <2>3 DEF Tree!MetaAnswer, w
    <3> QED BY <1>0, <1>2, <2>1, <3>1
  <2>4. CASE r.status # "failed" /\ Tree!IsTree(p)
    <3>1. page' = p /\ \E t : wire' = Tree!Sent(w, MaxChain, t)
      BY <1>11, <2>4 DEF Tree!MetaAnswer, w, p
    <3>2. KidsKept(wire')
      BY <2>1, <3>1, SentKeepsKids
    <3> QED BY <1>2, <2>2, <3>1, <3>2
  <2>5. CASE r.status # "failed" /\ ~Tree!IsTree(p)
    <3>1. page' = [p EXCEPT !.drawn = {}, !.open = {}, !.arrow = {}, !.grid = None, !.conds = None]
      BY <1>11, <2>5 DEF Tree!MetaAnswer, Tree!ToConds, p
    <3>2. page'.arrow = {}
      BY <2>2, <3>1 DEF TreeFields
    <3> QED BY <3>2 DEF Held
  <2> QED BY <2>3, <2>4, <2>5
<1>12. CASE Tree!RootsAnswer(r)
  <2>1. r.kind = "roots" /\ KidsKept(w)
    BY <1>1, <1>12 DEF Tree!RootsAnswer
  <2> DEFINE p == IF r.status = "done" THEN Tree!Put(page, Root, r.answer) ELSE page
  <2>2. Same(p)
    BY <1>0, <1>5
  <2> HIDE DEF p
  <2>3. CASE p.meta = None
    <3>1. page' = p /\ wire' = w
      BY <1>12, <2>3 DEF Tree!RootsAnswer, w, p
    <3> QED BY <1>2, <2>1, <2>2, <3>1
  <2>4. CASE p.meta # None
    <3> DEFINE q == Tree!RenderTree(p)
    <3>1. page' = [q EXCEPT !.grid = None, !.conds = None]
      BY <1>12, <2>4 DEF Tree!RootsAnswer, Tree!ToConds, p
    <3>2. q = [f \in TreeFields |-> q[f]] /\ q.arrow = {}
      BY <2>2 DEF Tree!RenderTree, TreeFields
    <3> HIDE DEF q
    <3>3. page'.arrow = {}
      BY <3>1, <3>2 DEF TreeFields
    <3> QED BY <3>3 DEF Held
  <2> QED BY <2>3, <2>4
<1>13. CASE Tree!CondsAnswer(r)
  <2>1. KidsKept(w)
    BY <1>1, <1>13 DEF Tree!CondsAnswer
  <2>2. PICK v : page' = [page EXCEPT !["conds"] = v] /\ \E q, then : wire' = Tree!LoadThen(q, w, then)
    BY <1>13 DEF Tree!CondsAnswer, Tree!Load, w
  <2>3. KidsKept(wire')
    BY <2>1, <2>2, SentKeepsKids
  <2> HIDE DEF Same
  <2>4. Same([page EXCEPT !["conds"] = v])
    BY <1>0, <1>3, <1>4
  <2> QED BY <1>2, <2>2, <2>3, <2>4
<1> QED BY <1>6, <1>9, <1>10, <1>11, <1>12, <1>13 DEF Tree!Answer

LEMMA ArrowService ==
  ASSUME TreeInv, Held(page, wire), NEW r \in wire, Tree!Serve(r) \/ Tree!Refuse(r)
  PROVE  Held(page', wire')
<1>0. r = [f \in TreeRequest \cup {"n", "status"} |-> r[f]]
  BY DEF TreeInv, Framed
<1>1. PICK a : a.kind = r.kind /\ a.of = r.of /\ a.live = r.live /\ wire' = (wire \ {r}) \cup {a} /\ page' = page
  <2> DEFINE alike(a) == a.kind = r.kind /\ a.of = r.of /\ a.live = r.live
  <2>1. CASE Tree!Serve(r)
    <3>1. PICK answer : wire' = (wire \ {r}) \cup {[r EXCEPT !.status = "done", !.answer = answer]} /\ page' = page
      BY <2>1 DEF Tree!Serve, Tree!Settled
    <3>2. alike([r EXCEPT !.status = "done", !.answer = answer])
      BY <1>0 DEF TreeRequest
    <3> QED BY <3>1, <3>2
  <2>2. CASE Tree!Refuse(r)
    <3>1. wire' = (wire \ {r}) \cup {[r EXCEPT !.status = "failed"]} /\ page' = page
      BY <2>2 DEF Tree!Refuse, Tree!Refused, Tree!Settled
    <3>2. alike([r EXCEPT !.status = "failed"])
      BY <1>0 DEF TreeRequest
    <3> QED BY <3>1, <3>2
  <2> QED BY <2>1, <2>2
<1>2. KidsKept(wire')
  BY <1>1 DEF KidsKept
<1> QED BY <1>1, <1>2, HeldStays

\* An open arrow has children under it or a request for them on the way,
\* through every switch, refresh and failed load (data-editor.js 1224-1236,
\* 1264-1280).
THEOREM TreeArrows ==
  Tree!Spec => []Tree!ArrowsHaveChildren
<1>1. Tree!Init => Held(page, wire)
  BY DEF Tree!Init, Tree!Fresh, Held
<1>2. TreeInv /\ Held(page, wire) /\ [Tree!Next]_Tree!vars => Held(page, wire)'
  <2>1. CASE TreeInv /\ Held(page, wire) /\ Tree!Next
    <3>1. CASE \/ Tree!Reload \/ Tree!ChangeCond \/ Tree!ClearCond
               \/ \E q : Tree!Search(q)
               \/ \E n : Tree!SelectNode(n) \/ Tree!Toggle(n)
               \/ \E d : Tree!SwitchDict(d)
               \/ \E n : Tree!Removed(n)
      BY <2>1, <3>1, ArrowUser
    <3>2. CASE \E r \in wire : Tree!Answer(r)
      BY <2>1, <3>2, ArrowAnswers
    <3>3. CASE \E r \in wire : Tree!Serve(r) \/ Tree!Refuse(r)
      BY <2>1, <3>3, ArrowService
    <3> QED BY <2>1, <3>1, <3>2, <3>3 DEF Tree!Next
  <2>2. CASE Held(page, wire) /\ UNCHANGED Tree!vars
    BY <2>2 DEF Tree!vars, Held
  <2> QED BY <2>1, <2>2
<1>3. Held(page, wire) => Tree!ArrowsHaveChildren
  BY DEF Held, Tree!ArrowsHaveChildren, Tree!Pending
<1> QED BY <1>1, <1>2, <1>3, TreeInvariance, PTL DEF Tree!Spec

-----------------------------------------------------------------------------
(* The ontology workbench: the bubble a relation is made in, the inspector.*)

Onto == INSTANCE OntoDesigner WITH Keyed <- KeyedObjects, MaxChanges <- MaxRounds

OntoFields == {"loaded", "sel", "kind", "detail", "ticks", "dialog", "bubble", "result", "manifest", "spec", "canvas",
               "moved", "changes"}
OntoRequest == {"kind", "of", "want", "detail", "rels", "then", "live", "there"}

OntoInv == DOMAIN page = OntoFields /\ Framed(wire, OntoRequest)

\* Requests of before, apart from those for a definition.
OntoBefore(w) == Framed(w, OntoRequest) /\ \A r \in w : r \in wire \/ r.kind = "detail"

\* A relation is made of the bubble, which is closed.
OfBubble(s) == s.kind = "save" /\ s.rels # {} => page.bubble = s.rels /\ page'.bubble = {}

OntoWire == Framed(wire', OntoRequest) /\ Onto!LinkedOnceStep

LEMMA OntoOfBefore ==
  ASSUME Framed(wire, OntoRequest), NEW w, w \subseteq wire
  PROVE  OntoBefore(w) /\ OntoBefore(Onto!Unhooked(w))
<1>1. OntoBefore(w)
  BY DEF OntoBefore, Framed
<1>2. ASSUME NEW r \in Onto!Unhooked(w)
      PROVE  r = [f \in OntoRequest \cup {"n", "status"} |-> r[f]] /\ (r \in wire \/ r.kind = "detail")
  <2>1. PICK q \in w : r = IF q.kind = "detail" THEN [q EXCEPT !.live = FALSE] ELSE q
    BY DEF Onto!Unhooked
  <2>2. q = [f \in OntoRequest \cup {"n", "status"} |-> q[f]] /\ q \in wire
    BY DEF Framed
  <2> DEFINE a == [q EXCEPT !.live = FALSE]
  <2>3. a = [f \in OntoRequest \cup {"n", "status"} |-> a[f]] /\ a.kind = q.kind
    BY <2>2 DEF OntoRequest
  <2> HIDE DEF a
  <2> QED BY <2>1, <2>2, <2>3 DEF a
<1>3. OntoBefore(Onto!Unhooked(w))
  BY <1>2 DEF OntoBefore, Framed
<1> QED BY <1>1, <1>3

LEMMA OntoFewer ==
  ASSUME OntoBefore(wire')
  PROVE  OntoWire
BY DEF OntoBefore, OntoWire, Onto!LinkedOnceStep

LEMMA OntoSends ==
  ASSUME NEW w, OntoBefore(w), NEW s, DOMAIN s = OntoRequest, OfBubble(s), wire' = Onto!Sent(w, MaxWire, s)
  PROVE  OntoWire
<1>1. wire' = Sent(w, MaxWire, s)
  BY DEF Onto!Sent, Sent, Onto!FreeNumber, FreeNumber, Onto!Min, Min
<1>2. "n" \notin OntoRequest /\ "status" \notin OntoRequest /\ {"kind", "rels"} \subseteq OntoRequest
  BY DEF OntoRequest
<1>3. PICK q : /\ Sent(w, MaxWire, s) = w \cup {q}
               /\ \A f \in OntoRequest : q[f] = s[f]
               /\ Framed(Sent(w, MaxWire, s), OntoRequest)
  BY <1>2, SentAdds DEF OntoBefore
<1>4. q.kind = s.kind /\ q.rels = s.rels
  BY <1>2, <1>3
<1>5. \A r \in wire' \ wire : r = q \/ r.kind = "detail"
  BY <1>1, <1>3 DEF OntoBefore
<1>6. Onto!LinkedOnceStep
  BY <1>4, <1>5 DEF OfBubble, Onto!LinkedOnceStep
<1> QED BY <1>1, <1>3, <1>6 DEF OntoWire

\* Requests of another kind, and saves without a relation.
LEMMA OntoPlain ==
  ASSUME NEW kind, NEW of, NEW want, NEW then, NEW detail, NEW rels
  PROVE  LET a == Onto!Request(kind, of)
             ok(s) == DOMAIN s = OntoRequest /\ OfBubble(s)
         IN  /\ DOMAIN a = OntoRequest /\ a.kind = kind /\ a.rels = {}
             /\ ok(a) /\ ok([a EXCEPT !.then = then]) /\ ok([a EXCEPT !.want = want])
             /\ ok([a EXCEPT !.detail = detail, !.then = then])
             /\ kind # "save" => ok([a EXCEPT !.rels = rels]) /\ ok([a EXCEPT !.then = then, !.rels = rels])
<1> DEFINE a == Onto!Request(kind, of)
           ok(s) == DOMAIN s = OntoRequest /\ OfBubble(s)
<1>1. a = [f \in OntoRequest |-> a[f]] /\ a.kind = kind /\ a.rels = {}
  BY DEF Onto!Request, OntoRequest
<1> HIDE DEF a
<1>2. ok(a) /\ ok([a EXCEPT !.then = then]) /\ ok([a EXCEPT !.want = want]) /\ ok([a EXCEPT !.detail = detail, !.then = then])
  BY <1>1 DEF OntoRequest, OfBubble
<1>3. kind # "save" => ok([a EXCEPT !.rels = rels]) /\ ok([a EXCEPT !.then = then, !.rels = rels])
  BY <1>1 DEF OntoRequest, OfBubble
<1> QED BY <1>1, <1>2, <1>3 DEF a

LEMMA OntoSaves ==
  ASSUME NEW w, OntoBefore(w), NEW p, NEW then, wire' = Onto!SaveOf(w, p, then)
  PROVE  OntoWire
<1> DEFINE a == [Onto!Request("save", p.detail.of) EXCEPT !.detail = p.detail, !.then = then]
<1>1. wire' = w \/ wire' = Onto!Sent(w, MaxWire, a)
  BY DEF Onto!SaveOf, Onto!Send
<1>2. DOMAIN a = OntoRequest /\ OfBubble(a)
  <2>1. ASSUME NEW of, NEW detail
        PROVE  LET b == [Onto!Request("save", of) EXCEPT !.detail = detail, !.then = then]
               IN  DOMAIN b = OntoRequest /\ OfBubble(b)
    BY OntoPlain
  <2> QED BY <2>1
<1> HIDE DEF a
<1>3. CASE wire' = w
  BY <1>3, OntoFewer
<1>4. CASE wire' = Onto!Sent(w, MaxWire, a)
  BY <1>2, <1>4, OntoSends
<1> QED BY <1>1, <1>3, <1>4

LEMMA OntoLoads ==
  ASSUME NEW w, OntoBefore(w), NEW then, NEW of, wire' = Onto!Load(w, then, of)
  PROVE  OntoWire
<1> DEFINE a == [Onto!Request("load", of) EXCEPT !.then = then]
<1>1. wire' = Onto!Sent(w, MaxWire, a)
  BY DEF Onto!Load, Onto!Send
<1>2. DOMAIN a = OntoRequest /\ OfBubble(a)
  BY OntoPlain
<1> HIDE DEF a
<1> QED BY <1>1, <1>2, OntoSends

LEMMA OntoSelects ==
  ASSUME Framed(wire, OntoRequest), NEW p, DOMAIN p = OntoFields, NEW w, w \subseteq wire,
         NEW kind, NEW id, NEW forced, Onto!Selected(p, w, kind, id, forced)
  PROVE  DOMAIN page' = OntoFields /\ OntoWire
<1> DEFINE v == Onto!Unhooked(w)
           a == [Onto!Request("detail", id) EXCEPT !.want = kind]
<1>1. OntoBefore(v)
  BY OntoOfBefore
<1>2. DOMAIN page' = OntoFields
  BY DEF Onto!Selected
<1>3. wire' = v \/ wire' = Onto!Sent(v, MaxWire, a)
  BY DEF Onto!Selected, Onto!Send
<1>4. DOMAIN a = OntoRequest /\ OfBubble(a)
  BY OntoPlain
<1> HIDE DEF a, v
<1>5. CASE wire' = v
  BY <1>1, <1>2, <1>5, OntoFewer
<1>6. CASE wire' = Onto!Sent(v, MaxWire, a)
  BY <1>1, <1>2, <1>4, <1>6, OntoSends
<1> QED BY <1>3, <1>5, <1>6

\* What the user does to the inspector and the canvas.
LEMMA OntoEdits ==
  ASSUME OntoInv,
         \/ Onto!AddPropRow \/ Onto!BatchDelProps \/ Onto!EditKinetic \/ Onto!CancelLinkBubble \/ Onto!Cancel
         \/ \E n : Onto!DragNode(n) \/ Onto!AddSharedRef(n) \/ Onto!AcAdd(n) \/ Onto!OpenLinkBubble(n)
         \/ \E i : Onto!SetPk(i) \/ Onto!Tick(i) \/ Onto!DelPropRow(i) \/ Onto!ChangeRest(i) \/ Onto!AcDel(i)
                     \/ \E n : Onto!NameRow(i, n)
  PROVE  DOMAIN page' = OntoFields /\ OntoWire
<1>0. DOMAIN page = OntoFields /\ OntoBefore(wire)
  BY OntoOfBefore DEF OntoInv
<1>1. \A rows : DOMAIN Onto!Edited(page, rows) = OntoFields
  BY <1>0 DEF Onto!Edited, Onto!Counted
<1>2. DOMAIN Onto!Counted(page) = OntoFields
  BY <1>0 DEF Onto!Counted
<1>3. CASE Onto!AddPropRow \/ Onto!BatchDelProps \/ Onto!EditKinetic
  BY <1>0, <1>1, <1>3, OntoFewer DEF Onto!AddPropRow, Onto!BatchDelProps, Onto!EditKinetic, Onto!Quiet
<1>4. CASE Onto!CancelLinkBubble \/ Onto!Cancel
  BY <1>0, <1>2, <1>4, OntoFewer DEF Onto!CancelLinkBubble, Onto!Cancel, Onto!Closed, Onto!Quiet
<1>5. CASE \E n : Onto!DragNode(n) \/ Onto!OpenLinkBubble(n)
  BY <1>0, <1>2, <1>5, OntoFewer DEF Onto!DragNode, Onto!OpenLinkBubble, Onto!Quiet
<1>6. CASE \E n : Onto!AddSharedRef(n) \/ Onto!AcAdd(n)
  BY <1>0, <1>1, <1>6, OntoFewer DEF Onto!AddSharedRef, Onto!AcAdd, Onto!Quiet
<1>7. CASE \E i : Onto!SetPk(i) \/ Onto!Tick(i)
  BY <1>0, <1>2, <1>7, OntoFewer DEF Onto!SetPk, Onto!Tick, Onto!Quiet
<1>8. CASE \E i : Onto!DelPropRow(i)
  BY <1>0, <1>1, <1>2, <1>8, OntoFewer DEF Onto!DelPropRow, Onto!Quiet
<1>9. CASE \E i : Onto!ChangeRest(i) \/ Onto!AcDel(i) \/ \E n : Onto!NameRow(i, n)
  BY <1>0, <1>1, <1>9, OntoFewer DEF Onto!ChangeRest, Onto!AcDel, Onto!NameRow, Onto!Quiet
<1> QED BY <1>3, <1>4, <1>5, <1>6, <1>7, <1>8, <1>9

\* What the user asks of the service.
LEMMA OntoAsks ==
  ASSUME OntoInv,
         \/ Onto!DoSaveObject \/ Onto!DoSaveAction \/ Onto!DoPublish \/ Onto!DoRunAction \/ Onto!Confirm \/ Onto!Deprecate
         \/ \E id : Onto!SelectElement(id) \/ Onto!DoDel(id) \/ Onto!DoNew(id) \/ Onto!DoSaveLink(id) \/ Onto!ConfirmLinkBubble(id)
  PROVE  DOMAIN page' = OntoFields /\ OntoWire
<1> DEFINE ok(s) == DOMAIN s = OntoRequest /\ OfBubble(s)
<1>0. DOMAIN page = OntoFields /\ OntoBefore(wire) /\ Framed(wire, OntoRequest)
  BY OntoOfBefore DEF OntoInv
<1>1. \A rows : DOMAIN Onto!Edited(page, rows) = OntoFields
  BY <1>0 DEF Onto!Edited, Onto!Counted
<1>2. DOMAIN Onto!Counted(page) = OntoFields /\ DOMAIN Onto!Closed = OntoFields
  BY <1>0 DEF Onto!Counted, Onto!Closed
<1>3. ASSUME NEW a, ok(a), DOMAIN page' = OntoFields, wire' = Onto!Send(wire, a)
      PROVE  DOMAIN page' = OntoFields /\ OntoWire
  <2>1. wire' = Onto!Sent(wire, MaxWire, a)
    BY <1>3 DEF Onto!Send
  <2> QED BY <1>0, <1>3, <2>1, OntoSends
<1>4. \A kind, of, then, rels :
        /\ ok(Onto!Request(kind, of)) /\ ok([Onto!Request(kind, of) EXCEPT !.then = then])
        /\ kind # "save" => ok([Onto!Request(kind, of) EXCEPT !.rels = rels]) /\ ok([Onto!Request(kind, of) EXCEPT !.then = then, !.rels = rels])
  BY OntoPlain
<1>5. ASSUME NEW p, NEW then, DOMAIN page' = OntoFields, wire' = Onto!SaveOf(wire, p, then)
      PROVE  DOMAIN page' = OntoFields /\ OntoWire
  BY <1>0, <1>5, OntoSaves
<1> HIDE DEF ok
<1>6. CASE Onto!DoSaveObject
  BY <1>2, <1>3, <1>4, <1>5, <1>6 DEF Onto!DoSaveObject
<1>7. CASE Onto!DoSaveAction
  BY <1>1, <1>5, <1>7 DEF Onto!DoSaveAction
<1>8. CASE Onto!DoPublish
  BY <1>2, <1>3, <1>4, <1>8 DEF Onto!DoPublish
<1>9. CASE Onto!DoRunAction
  BY <1>1, <1>3, <1>4, <1>9 DEF Onto!DoRunAction
<1>10. CASE Onto!Confirm
  <2>1. CASE wire' = wire
    <3>1. DOMAIN page' = OntoFields
      BY <1>0, <1>2, <1>10 DEF Onto!Confirm, Onto!Closed
    <3> QED BY <1>0, <2>1, <3>1, OntoFewer
  <2>2. CASE page' = Onto!Closed /\ wire' = Onto!SaveOf(wire, page, "object")
    BY <1>2, <1>5, <2>2
  <2>3. CASE page' = Onto!Closed /\ wire' = Onto!Send(wire, [Onto!Request("del", page.dialog.of) EXCEPT !.rels = page.dialog.rels])
    BY <1>2, <1>3, <1>4, <2>3
  <2> QED BY <1>10, <2>1, <2>2, <2>3 DEF Onto!Confirm
<1>11. CASE Onto!Deprecate
  BY <1>2, <1>3, <1>4, <1>11 DEF Onto!Deprecate
<1>12. CASE \E id : Onto!SelectElement(id)
  BY <1>0, <1>2, <1>12, OntoSelects DEF Onto!SelectElement
<1>13. CASE \E id : Onto!DoDel(id)
  <2>1. PICK id : Onto!DoDel(id)
    BY <1>13
  <2>2. CASE wire' = wire
    <3>1. DOMAIN page' = OntoFields
      BY <1>2, <2>1 DEF Onto!DoDel
    <3> QED BY <1>0, <2>2, <3>1, OntoFewer
  <2>3. CASE /\ page' = Onto!Counted(page)
             /\ wire' = Onto!Send(wire, [Onto!Request("impact", id) EXCEPT !.then = "delete", !.rels = Onto!RelsOf(page.manifest, id)])
    BY <1>2, <1>3, <1>4, <2>3
  <2> QED BY <2>1, <2>2, <2>3 DEF Onto!DoDel
<1>14. CASE \E id : Onto!DoNew(id) \/ Onto!DoSaveLink(id)
  BY <1>2, <1>3, <1>4, <1>14 DEF Onto!DoNew, Onto!DoSaveLink
<1>15. CASE \E id : Onto!ConfirmLinkBubble(id)
  <2>1. PICK id : Onto!ConfirmLinkBubble(id)
    BY <1>15
  <2> DEFINE q == Onto!Counted(page)
             b == [Onto!Request("save", id) EXCEPT !.then = "link"]
             a == [b EXCEPT !.rels = page.bubble]
  <2>2. page' = [q EXCEPT !.bubble = {}]
    BY <2>1 DEF Onto!ConfirmLinkBubble
  <2>3. "bubble" \in DOMAIN q /\ DOMAIN q = OntoFields
    BY <1>2 DEF OntoFields
  <2> HIDE DEF q
  <2>4. DOMAIN page' = OntoFields /\ page'.bubble = {}
    BY <2>2, <2>3
  <2>5. DOMAIN b = OntoRequest
    BY <1>4 DEF ok
  <2>6. wire' = Onto!Send(wire, [Onto!Request("save", id) EXCEPT !.then = "link", !.rels = page.bubble])
    BY <2>1 DEF Onto!ConfirmLinkBubble
  <2>7. wire' = Onto!Send(wire, a)
    BY <2>6 DEF Onto!Request
  <2> HIDE DEF b
  <2>8. DOMAIN a = OntoRequest /\ a.rels = page.bubble
    BY <2>5 DEF OntoRequest
  <2> HIDE DEF a
  <2>9. ok(a)
    BY <2>4, <2>8 DEF ok, OfBubble
  <2> QED BY <1>3, <2>4, <2>7, <2>9
<1> QED BY <1>6, <1>7, <1>8, <1>9, <1>10, <1>11, <1>12, <1>13, <1>14, <1>15

\* Answers, and what they make the page ask.
LEMMA OntoAnswers ==
  ASSUME OntoInv, NEW r \in wire, Onto!Answer(r)
  PROVE  DOMAIN page' = OntoFields /\ OntoWire
<1> DEFINE w == wire \ {r}
<1>0. DOMAIN page = OntoFields /\ OntoBefore(w) /\ Framed(wire, OntoRequest) /\ w \subseteq wire
  BY OntoOfBefore DEF OntoInv
<1> HIDE DEF w
<1>1. CASE Onto!DetailAnswer(r) \/ Onto!RunAnswer(r)
  <2>1. DOMAIN page' = OntoFields /\ wire' = w
    BY <1>0, <1>1 DEF Onto!DetailAnswer, Onto!RunAnswer, w
  <2> QED BY <1>0, <2>1, OntoFewer
<1>2. CASE Onto!LoadAnswer(r)
  <2>1. DOMAIN page' = OntoFields
    BY <1>0, <1>2 DEF Onto!LoadAnswer
  <2> DEFINE a == [Onto!Request("rest", r.of) EXCEPT !.then = r.then]
  <2>2. wire' = w \/ wire' = Onto!Sent(w, MaxWire, a)
    BY <1>2 DEF Onto!LoadAnswer, Onto!Send, w
  <2>3. DOMAIN a = OntoRequest /\ OfBubble(a)
    BY OntoPlain
  <2> HIDE DEF a
  <2>4. CASE wire' = w
    BY <1>0, <2>1, <2>4, OntoFewer
  <2>5. CASE wire' = Onto!Sent(w, MaxWire, a)
    BY <1>0, <2>1, <2>3, <2>5, OntoSends
  <2> QED BY <2>2, <2>4, <2>5
<1>3. CASE Onto!RestAnswer(r)
  <2> DEFINE p == [page EXCEPT !.loaded = TRUE, !.canvas = page.spec]
  <2>1. DOMAIN p = OntoFields
    BY <1>0
  <2>2. \/ \E kind, id, forced : Onto!Selected(p, w, kind, id, forced)
        \/ page' = p /\ wire' = w
    BY <1>3 DEF Onto!RestAnswer, w
  <2> HIDE DEF p
  <2>3. CASE \E kind, id, forced : Onto!Selected(p, w, kind, id, forced)
    BY <1>0, <2>1, <2>3, OntoSelects
  <2>4. CASE page' = p /\ wire' = w
    BY <1>0, <2>1, <2>4, OntoFewer
  <2> QED BY <2>2, <2>3, <2>4
<1>4. CASE Onto!SaveAnswer(r)
  <2>1. DOMAIN page' = OntoFields
    BY <1>0, <1>4 DEF Onto!SaveAnswer
  <2>2. wire' = w \/ wire' = Onto!Load(w, r.then, r.of)
    BY <1>4 DEF Onto!SaveAnswer, w
  <2> QED BY <1>0, <2>1, <2>2, OntoFewer, OntoLoads
<1>5. CASE Onto!ImpactAnswer(r)
  <2>1. DOMAIN page' = OntoFields
    BY <1>0, <1>5 DEF Onto!ImpactAnswer
  <2>2. wire' = w \/ wire' = Onto!SaveOf(w, page, "object")
    BY <1>5 DEF Onto!ImpactAnswer, w
  <2> QED BY <1>0, <2>1, <2>2, OntoFewer, OntoSaves
<1>6. CASE Onto!DelAnswer(r)
  <2>1. DOMAIN page' = OntoFields
    BY <1>0, <1>6 DEF Onto!DelAnswer
  <2>2. wire' = w \/ wire' = Onto!Load(w, "nothing", None)
    BY <1>6 DEF Onto!DelAnswer, w
  <2> QED BY <1>0, <2>1, <2>2, OntoFewer, OntoLoads
<1> QED BY <1>1, <1>2, <1>3, <1>4, <1>5, <1>6 DEF Onto!Answer

\* The ontology service.
LEMMA OntoService ==
  ASSUME OntoInv, NEW r \in wire, Onto!Serve(r) \/ Onto!Refuse(r)
  PROVE  DOMAIN page' = OntoFields /\ OntoWire
<1>0. DOMAIN page = OntoFields /\ Framed(wire, OntoRequest) /\ r = [f \in OntoRequest \cup {"n", "status"} |-> r[f]]
  BY DEF OntoInv, Framed
<1> DEFINE closed(a) == a = [f \in OntoRequest \cup {"n", "status"} |-> a[f]] /\ a.status # "asked"
<1>1. PICK a : closed(a) /\ wire' = (wire \ {r}) \cup {a} /\ page' = page
  <2>1. CASE Onto!Serve(r)
    <3>1. PICK there, detail :
            wire' = (wire \ {r}) \cup {[r EXCEPT !.status = "done", !.there = there, !.detail = detail]} /\ page' = page
      BY <2>1 DEF Onto!Serve, Onto!Settled
    <3>2. closed([r EXCEPT !.status = "done", !.there = there, !.detail = detail])
      BY <1>0 DEF OntoRequest
    <3> QED BY <3>1, <3>2
  <2>2. CASE Onto!Refuse(r)
    <3>1. wire' = (wire \ {r}) \cup {[r EXCEPT !.status = "failed"]} /\ page' = page
      BY <2>2 DEF Onto!Refuse, Onto!Refused, Onto!Settled
    <3>2. closed([r EXCEPT !.status = "failed"])
      BY <1>0 DEF OntoRequest
    <3> QED BY <3>1, <3>2
  <2> QED BY <2>1, <2>2
<1>2. Framed(wire', OntoRequest)
  BY <1>0, <1>1 DEF Framed
<1>3. Onto!LinkedOnceStep
  BY <1>1 DEF Onto!LinkedOnceStep
<1> QED BY <1>0, <1>1, <1>2, <1>3 DEF OntoWire

\* Every step keeps the form of the requests, and sends a relation only with
\* the bubble it closes.
LEMMA OntoStep ==
  ASSUME OntoInv, Onto!Next
  PROVE  OntoInv' /\ Onto!LinkedOnceStep
<1>1. DOMAIN page' = OntoFields /\ OntoWire
  <2>1. CASE \/ Onto!AddPropRow \/ Onto!BatchDelProps \/ Onto!EditKinetic \/ Onto!CancelLinkBubble \/ Onto!Cancel
             \/ \E n : Onto!DragNode(n) \/ Onto!AddSharedRef(n) \/ Onto!AcAdd(n) \/ Onto!OpenLinkBubble(n)
             \/ \E i : Onto!SetPk(i) \/ Onto!Tick(i) \/ Onto!DelPropRow(i) \/ Onto!ChangeRest(i) \/ Onto!AcDel(i)
                         \/ \E n : Onto!NameRow(i, n)
    BY <2>1, OntoEdits
  <2>2. CASE \/ Onto!DoSaveObject \/ Onto!DoSaveAction \/ Onto!DoPublish \/ Onto!DoRunAction \/ Onto!Confirm \/ Onto!Deprecate
             \/ \E id : Onto!SelectElement(id) \/ Onto!DoDel(id) \/ Onto!DoNew(id) \/ Onto!DoSaveLink(id) \/ Onto!ConfirmLinkBubble(id)
    BY <2>2, OntoAsks
  <2>3. CASE \E r \in wire : Onto!Answer(r)
    BY <2>3, OntoAnswers
  <2>4. CASE \E r \in wire : Onto!Serve(r) \/ Onto!Refuse(r)
    BY <2>4, OntoService
  <2> QED BY <2>1, <2>2, <2>3, <2>4 DEF Onto!Next
<1> QED BY <1>1 DEF OntoInv, OntoWire

\* The page of the ontology workbench and its requests keep their form.
THEOREM OntoInvariance ==
  Onto!Spec => []OntoInv
<1>1. Onto!Init => OntoInv
  <2> SUFFICES ASSUME Onto!Init PROVE OntoInv
    OBVIOUS
  <2> DEFINE a == Onto!Request("load", None)
  <2>1. DOMAIN page = OntoFields
    BY DEF Onto!Init, OntoFields
  <2>2. wire = Sent({}, MaxWire, a)
    BY DEF Onto!Init, Onto!Sent, Sent, Onto!FreeNumber, FreeNumber, Onto!Min, Min
  <2>3. DOMAIN a = OntoRequest /\ "n" \notin OntoRequest /\ "status" \notin OntoRequest
    BY OntoPlain DEF OntoRequest
  <2>4. Framed({}, OntoRequest)
    BY DEF Framed
  <2> HIDE DEF a
  <2>5. Framed(wire, OntoRequest)
    BY <2>2, <2>3, <2>4, SentAdds
  <2> QED BY <2>1, <2>5 DEF OntoInv
<1>2. OntoInv /\ [Onto!Next]_Onto!vars => OntoInv'
  <2>1. CASE OntoInv /\ Onto!Next
    BY <2>1, OntoStep
  <2>2. CASE OntoInv /\ UNCHANGED Onto!vars
    BY <2>2 DEF Onto!vars, OntoInv, Framed
  <2> QED BY <2>1, <2>2
<1> QED BY <1>1, <1>2, PTL DEF Onto!Spec

\* One bubble makes one relation: the request that creates a relation is sent
\* in the step that closes the bubble it was drawn in (confirmLinkBubble).
THEOREM OntoLinkedOnce ==
  Onto!Spec => Onto!LinkedOnce
<1>1. OntoInv /\ [Onto!Next]_Onto!vars => [Onto!LinkedOnceStep]_Onto!vars
  BY OntoStep
<1> QED BY <1>1, OntoInvariance, PTL DEF Onto!Spec, Onto!LinkedOnce

\* The definitions a page and its requests hold say whose they are.
Named(d) == "of" \in DOMAIN d

\* With no fetch of its own under way the inspector holds the definition of
\* the element selected; what is fetched is for it, and is of what was asked.
Follows(p, w) ==
  p.sel # None /\ p.detail.of # None =>
     p.detail.of = p.sel \/ \E r \in w : r.kind = "detail" /\ r.live /\ r.of = p.sel

Right(r, p) ==
  /\ Named(r.detail)
  /\ r.kind = "detail" /\ r.live => (p.sel = None \/ r.of = p.sel) /\ (r.status = "done" => r.detail.of = r.of)

DetailInv == OntoInv /\ Named(page.detail) /\ Follows(page, wire) /\ \A r \in wire : Right(r, page)

\* The same element and the same definition, whatever was edited in it.
SameDetail(q) == DOMAIN q = OntoFields /\ q.sel = page.sel /\ Named(q.detail) /\ q.detail.of = page.detail.of

\* The same fetches of definitions, and other requests.
SameFetches(v) ==
  /\ Framed(v, OntoRequest)
  /\ \A r \in v : r \in wire \/ (r.kind # "detail" /\ Named(r.detail))
  /\ \A r \in wire : r.kind = "detail" /\ r.live => r \in v

LEMMA DetailStays ==
  ASSUME DetailInv, SameDetail(page'), SameFetches(wire')
  PROVE  DetailInv'
<1>1. OntoInv'
  BY DEF SameDetail, SameFetches, OntoInv
<1>2. Follows(page, wire)'
  BY DEF DetailInv, Follows, SameDetail, SameFetches
<1>3. \A r \in wire' : Right(r, page')
  BY DEF DetailInv, Right, SameDetail, SameFetches
<1> QED BY <1>1, <1>2, <1>3 DEF DetailInv, SameDetail, Right

LEMMA DetailSends ==
  ASSUME NEW v, SameFetches(v), NEW s, DOMAIN s = OntoRequest, s.kind # "detail", Named(s.detail)
  PROVE  SameFetches(Onto!Sent(v, MaxWire, s))
<1>1. Onto!Sent(v, MaxWire, s) = Sent(v, MaxWire, s)
  BY DEF Onto!Sent, Sent, Onto!FreeNumber, FreeNumber, Onto!Min, Min
<1>2. "n" \notin OntoRequest /\ "status" \notin OntoRequest /\ {"kind", "detail"} \subseteq OntoRequest
  BY DEF OntoRequest
<1>3. PICK q : /\ Sent(v, MaxWire, s) = v \cup {q}
               /\ \A f \in OntoRequest : q[f] = s[f]
               /\ Framed(Sent(v, MaxWire, s), OntoRequest)
  BY <1>2, SentAdds DEF SameFetches
<1>4. q.kind = s.kind /\ q.detail = s.detail
  BY <1>2, <1>3
<1> QED BY <1>1, <1>3, <1>4 DEF SameFetches

\* Requests that fetch no definition.
LEMMA DetailPlain ==
  ASSUME NEW kind, NEW of, NEW then, NEW detail, Named(detail), NEW rels
  PROVE  LET a == Onto!Request(kind, of)
             ok(s) == DOMAIN s = OntoRequest /\ s.kind = kind /\ Named(s.detail)
         IN  /\ ok(a) /\ ok([a EXCEPT !.then = then]) /\ ok([a EXCEPT !.detail = detail, !.then = then])
             /\ ok([a EXCEPT !.rels = rels]) /\ ok([a EXCEPT !.then = then, !.rels = rels])
<1> DEFINE a == Onto!Request(kind, of)
           ok(s) == DOMAIN s = OntoRequest /\ s.kind = kind /\ Named(s.detail)
<1>1. a = [f \in OntoRequest |-> a[f]] /\ a.kind = kind /\ Named(a.detail)
  BY DEF Onto!Request, OntoRequest, Onto!NoDetail, Named
<1> HIDE DEF a
<1>2. ok(a) /\ ok([a EXCEPT !.then = then]) /\ ok([a EXCEPT !.detail = detail, !.then = then])
  BY <1>1 DEF OntoRequest
<1>3. ok([a EXCEPT !.rels = rels]) /\ ok([a EXCEPT !.then = then, !.rels = rels])
  BY <1>1 DEF OntoRequest
<1> QED BY <1>2, <1>3 DEF a

\* What is sent, whichever of these it is.
OtherKinds == {"load", "rest", "save", "impact", "publish", "run", "del", "deprecate"}

LEMMA DetailAsks ==
  ASSUME NEW v, SameFetches(v), NEW kind \in OtherKinds, NEW of, NEW then, NEW rels
  PROVE  /\ SameFetches(Onto!Send(v, Onto!Request(kind, of)))
         /\ SameFetches(Onto!Send(v, [Onto!Request(kind, of) EXCEPT !.then = then]))
         /\ SameFetches(Onto!Send(v, [Onto!Request(kind, of) EXCEPT !.rels = rels]))
         /\ SameFetches(Onto!Send(v, [Onto!Request(kind, of) EXCEPT !.then = then, !.rels = rels]))
<1> DEFINE ok(s) == DOMAIN s = OntoRequest /\ s.kind # "detail" /\ Named(s.detail)
<1>1. ASSUME NEW s, ok(s) PROVE SameFetches(Onto!Send(v, s))
  BY <1>1, DetailSends DEF Onto!Send
<1>2. kind # "detail" /\ Named(Onto!NoDetail)
  BY DEF OtherKinds, Onto!NoDetail, Named
<1>3. /\ ok(Onto!Request(kind, of)) /\ ok([Onto!Request(kind, of) EXCEPT !.then = then])
      /\ ok([Onto!Request(kind, of) EXCEPT !.rels = rels]) /\ ok([Onto!Request(kind, of) EXCEPT !.then = then, !.rels = rels])
  BY <1>2, DetailPlain
<1> HIDE DEF ok
<1> QED BY <1>1, <1>3

LEMMA DetailSaves ==
  ASSUME NEW v, SameFetches(v), NEW p, Named(p.detail), NEW then
  PROVE  SameFetches(Onto!SaveOf(v, p, then))
<1> DEFINE s == [Onto!Request("save", p.detail.of) EXCEPT !.detail = p.detail, !.then = then]
<1>1. ASSUME NEW of, NEW d, Named(d)
      PROVE  LET a == [Onto!Request("save", of) EXCEPT !.detail = d, !.then = then] IN DOMAIN a = OntoRequest /\ a.kind = "save" /\ Named(a.detail)
  BY <1>1, DetailPlain
<1>2. DOMAIN s = OntoRequest /\ s.kind = "save" /\ Named(s.detail)
  BY <1>1
<1>3. Onto!SaveOf(v, p, then) = v \/ Onto!SaveOf(v, p, then) = Onto!Sent(v, MaxWire, s)
  BY DEF Onto!SaveOf, Onto!Send
<1> HIDE DEF s
<1> QED BY <1>2, <1>3, DetailSends

LEMMA DetailLoads ==
  ASSUME NEW v, SameFetches(v), NEW then, NEW of
  PROVE  SameFetches(Onto!Load(v, then, of))
<1>1. "load" \in OtherKinds
  BY DEF OtherKinds
<1>2. SameFetches(Onto!Send(v, [Onto!Request("load", of) EXCEPT !.then = then]))
  BY <1>1, DetailAsks
<1> QED BY <1>2 DEF Onto!Load

LEMMA DetailFewer ==
  ASSUME Framed(wire, OntoRequest), NEW r \in wire, r.kind # "detail" \/ ~r.live
  PROVE  SameFetches(wire \ {r})
BY DEF SameFetches, Framed

LEMMA DetailEdits ==
  ASSUME DetailInv
  PROVE  /\ SameDetail(page) /\ SameDetail(Onto!Counted(page)) /\ SameDetail(Onto!Closed) /\ SameFetches(wire)
         /\ \A rows : SameDetail(Onto!Edited(page, rows))
         /\ \A q : SameDetail(q) => /\ \A f \in OntoFields \ {"sel", "detail"} : \A v : SameDetail([q EXCEPT ![f] = v])
                                    /\ \A v : SameDetail([q EXCEPT !.detail.pk = v])
                                    /\ \A v : SameDetail([q EXCEPT !.detail.rows = v])
<1>1. DOMAIN page = OntoFields /\ Named(page.detail) /\ {"sel", "detail", "changes", "dialog"} \subseteq OntoFields
  BY DEF DetailInv, OntoInv, OntoFields
<1>2. SameDetail(page) /\ SameFetches(wire)
  BY <1>1 DEF SameDetail, SameFetches, DetailInv, OntoInv, Framed
<1>3. ASSUME NEW q, SameDetail(q)
      PROVE  /\ \A f \in OntoFields \ {"sel", "detail"} : \A v : SameDetail([q EXCEPT ![f] = v])
             /\ \A v : SameDetail([q EXCEPT !.detail.pk = v])
             /\ \A v : SameDetail([q EXCEPT !.detail.rows = v])
  <2>1. \A f \in OntoFields \ {"sel", "detail"} : \A v : SameDetail([q EXCEPT ![f] = v])
    BY <1>1, <1>3 DEF SameDetail
  <2>2. ASSUME NEW d, Named(d), d.of = q.detail.of
        PROVE  SameDetail([q EXCEPT !.detail = d])
    BY <1>1, <1>3, <2>2 DEF SameDetail
  <2>3. ASSUME NEW v, NEW f \in {"pk", "rows"} PROVE Named([q.detail EXCEPT ![f] = v]) /\ [q.detail EXCEPT ![f] = v].of = q.detail.of
    BY <1>3 DEF SameDetail, Named
  <2>4. ASSUME NEW v PROVE SameDetail([q EXCEPT !.detail = [q.detail EXCEPT !["pk"] = v]]) /\ SameDetail([q EXCEPT !.detail = [q.detail EXCEPT !["rows"] = v]])
    BY <2>2, <2>3
  <2> QED BY <2>1, <2>4
<1>4. SameDetail(Onto!Counted(page)) /\ SameDetail(Onto!Closed)
  <2>1. Onto!Counted(page) = [page EXCEPT !["changes"] = page.changes + 1] /\ Onto!Closed = [page EXCEPT !["dialog"] = Onto!NoDialog]
    BY DEF Onto!Counted, Onto!Closed
  <2>2. {"changes", "dialog"} \subseteq OntoFields \ {"sel", "detail"}
    BY <1>1
  <2>3. \A f \in {"changes", "dialog"} : \A v : SameDetail([page EXCEPT ![f] = v])
    BY <1>2, <1>3, <2>2
  <2> HIDE DEF SameDetail
  <2>4. SameDetail([page EXCEPT !["changes"] = page.changes + 1]) /\ SameDetail([page EXCEPT !["dialog"] = Onto!NoDialog])
    BY <2>3
  <2> QED BY <2>1, <2>4
<1>5. \A rows : SameDetail(Onto!Edited(page, rows))
  BY <1>3, <1>4 DEF Onto!Edited
<1> QED BY <1>2, <1>3, <1>4, <1>5

LEMMA DetailSelects ==
  ASSUME DetailInv, NEW p, SameDetail(p), NEW w, w \subseteq wire,
         NEW kind, NEW id, NEW forced, Onto!Selected(p, w, kind, id, forced)
  PROVE  DetailInv'
<1> DEFINE v == Onto!Unhooked(w)
           s == [Onto!Request("detail", id) EXCEPT !.want = kind]
           result == IF p.sel = id /\ p.kind = kind THEN p.result ELSE None
           ticks == IF kind = "object" THEN {} ELSE p.ticks
           q == [p EXCEPT !.sel = id, !.kind = kind, !.result = result]
<1>1. Framed(v, OntoRequest) /\ \A r \in v : Named(r.detail) /\ (r.kind = "detail" => ~r.live)
  <2>1. ASSUME NEW r \in v
        PROVE  r = [f \in OntoRequest \cup {"n", "status"} |-> r[f]] /\ Named(r.detail) /\ (r.kind = "detail" => ~r.live)
    <3>1. PICK o \in wire : r = IF o.kind = "detail" THEN [o EXCEPT !.live = FALSE] ELSE o
      BY DEF Onto!Unhooked
    <3>2. o = [f \in OntoRequest \cup {"n", "status"} |-> o[f]] /\ Named(o.detail)
      BY DEF DetailInv, OntoInv, Framed, Right
    <3> QED BY <3>1, <3>2 DEF OntoRequest
  <2> HIDE DEF v
  <2> QED BY <2>1 DEF Framed
<1>2. DOMAIN q = OntoFields /\ q.sel = id /\ q.detail = p.detail
  BY DEF SameDetail, OntoFields
<1>3. \/ page' = q /\ wire' = v /\ p.detail.of = id
      \/ page' = [q EXCEPT !.ticks = ticks] /\ wire' = Onto!Sent(v, MaxWire, s)
  BY DEF Onto!Selected, Onto!Send, SameDetail, OntoFields
<1> HIDE DEF q, v, ticks
<1>4. DOMAIN page' = OntoFields /\ page'.sel = id /\ page'.detail = p.detail
  BY <1>2, <1>3 DEF OntoFields
<1>5. CASE wire' = v /\ p.detail.of = id
  <2>1. Follows(page, wire)'
    BY <1>4, <1>5 DEF Follows
  <2>2. \A r \in wire' : Right(r, page')
    BY <1>1, <1>5 DEF Right
  <2> QED BY <1>1, <1>4, <1>5, <2>1, <2>2 DEF DetailInv, OntoInv, SameDetail, Right
<1>6. CASE wire' = Onto!Sent(v, MaxWire, s)
  <2>1. /\ DOMAIN s = OntoRequest /\ s.kind = "detail" /\ s.of = id /\ s.live = TRUE /\ Named(s.detail)
    BY DEF Onto!Request, OntoRequest, Onto!NoDetail, Named
  <2> HIDE DEF s
  <2>2. wire' = Sent(v, MaxWire, s)
    BY <1>6 DEF Onto!Sent, Sent, Onto!FreeNumber, FreeNumber, Onto!Min, Min
  <2>3. "n" \notin OntoRequest /\ "status" \notin OntoRequest /\ {"kind", "of", "live", "detail"} \subseteq OntoRequest
    BY DEF OntoRequest
  <2>4. PICK o : /\ wire' = v \cup {o} /\ o.status = "asked"
                 /\ \A f \in OntoRequest : o[f] = s[f]
                 /\ Framed(wire', OntoRequest)
    BY <1>1, <2>1, <2>2, <2>3, SentAdds
  <2>5. o.kind = "detail" /\ o.of = id /\ o.live /\ Named(o.detail)
    BY <2>1, <2>3, <2>4
  <2>6. Follows(page, wire)'
    BY <1>4, <2>4, <2>5 DEF Follows
  <2>7. \A r \in wire' : Right(r, page')
    BY <1>1, <1>4, <2>4, <2>5 DEF Right
  <2> QED BY <1>4, <2>4, <2>6, <2>7 DEF DetailInv, OntoInv, SameDetail, Right
<1> QED BY <1>3, <1>5, <1>6

LEMMA DetailUser ==
  ASSUME DetailInv,
         \/ Onto!AddPropRow \/ Onto!BatchDelProps \/ Onto!EditKinetic \/ Onto!CancelLinkBubble \/ Onto!Cancel
         \/ \E n : Onto!DragNode(n) \/ Onto!AddSharedRef(n) \/ Onto!AcAdd(n) \/ Onto!OpenLinkBubble(n)
         \/ \E i : Onto!SetPk(i) \/ Onto!Tick(i) \/ Onto!DelPropRow(i) \/ Onto!ChangeRest(i) \/ Onto!AcDel(i)
                     \/ \E n : Onto!NameRow(i, n)
  PROVE  DetailInv'
<1> DEFINE c == Onto!Counted(page)
<1>0. /\ SameDetail(c) /\ SameDetail(Onto!Closed) /\ SameFetches(wire)
      /\ \A rows : SameDetail(Onto!Edited(page, rows))
  BY DetailEdits
<1>1. ASSUME NEW q, SameDetail(q), NEW f \in OntoFields \ {"sel", "detail"}, NEW v
      PROVE  SameDetail([q EXCEPT ![f] = v])
  BY <1>1, DetailEdits
<1>2. {"ticks", "dialog", "bubble", "spec", "moved"} \subseteq OntoFields \ {"sel", "detail"}
  BY DEF OntoFields
<1> HIDE DEF c
<1>3. SUFFICES SameDetail(page') /\ wire' = wire
  BY <1>0, <1>3, DetailStays
<1>4. wire' = wire
  BY DEF Onto!AddPropRow, Onto!BatchDelProps, Onto!EditKinetic, Onto!CancelLinkBubble, Onto!Cancel, Onto!DragNode, Onto!AddSharedRef,
         Onto!AcAdd, Onto!OpenLinkBubble, Onto!SetPk, Onto!Tick, Onto!DelPropRow, Onto!ChangeRest, Onto!AcDel, Onto!NameRow, Onto!Quiet
<1>5. ASSUME NEW rows, page' = [Onto!Edited(page, rows) EXCEPT !.ticks = {}]
      PROVE  SameDetail(page')
  <2> DEFINE q == Onto!Edited(page, rows)
  <2>1. SameDetail(q) /\ "ticks" \in OntoFields \ {"sel", "detail"}
    BY <1>0, <1>2
  <2>2. page' = [q EXCEPT !["ticks"] = {}]
    BY <1>5
  <2> HIDE DEF q
  <2> QED BY <1>1, <2>1, <2>2
<1>6. ASSUME NEW f \in {"ticks", "dialog", "bubble"}, NEW v, page' = [c EXCEPT ![f] = v]
      PROVE  SameDetail(page')
  <2>1. f \in OntoFields \ {"sel", "detail"}
    BY <1>2
  <2> QED BY <1>0, <1>1, <1>6, <2>1
<1>7. CASE Onto!AddPropRow \/ Onto!BatchDelProps
  <2>1. PICK rows : page' = [Onto!Edited(page, rows) EXCEPT !.ticks = {}]
    BY <1>7 DEF Onto!AddPropRow, Onto!BatchDelProps
  <2> QED BY <1>4, <1>5, <2>1
<1>8. CASE \/ Onto!EditKinetic
           \/ \E n : Onto!AddSharedRef(n) \/ Onto!AcAdd(n)
           \/ \E i : Onto!ChangeRest(i) \/ Onto!AcDel(i) \/ \E n : Onto!NameRow(i, n)
  <2>1. \E rows : page' = Onto!Edited(page, rows)
    BY <1>8 DEF Onto!EditKinetic, Onto!AddSharedRef, Onto!AcAdd, Onto!ChangeRest, Onto!AcDel, Onto!NameRow
  <2> QED BY <1>0, <1>4, <2>1
<1>9. CASE Onto!CancelLinkBubble \/ \E n : Onto!OpenLinkBubble(n)
  <2>1. \E v : page' = [c EXCEPT !["bubble"] = v]
    BY <1>9 DEF Onto!CancelLinkBubble, Onto!OpenLinkBubble, c
  <2> QED BY <1>4, <1>6, <2>1
<1>10. CASE Onto!Cancel
  BY <1>0, <1>4, <1>10 DEF Onto!Cancel
<1>11. CASE \E n : Onto!DragNode(n)
  <2>1. PICK n : page' = [c EXCEPT !.spec = page.canvas, !.moved = c.moved \cup {n}]
    BY <1>11 DEF Onto!DragNode, c
  <2> DEFINE a == [c EXCEPT !["spec"] = page.canvas]
  <2>2. page' = [a EXCEPT !["moved"] = c.moved \cup {n}]
    BY <2>1
  <2>3. SameDetail(a)
    BY <1>0, <1>1, <1>2
  <2> HIDE DEF a
  <2>4. \A v : SameDetail([a EXCEPT !["moved"] = v])
    BY <1>1, <1>2, <2>3
  <2> QED BY <1>4, <2>2, <2>4
<1>12. CASE \E i : Onto!Tick(i)
  <2>1. PICK i : Onto!Tick(i)
    BY <1>12
  <2>2. page' = [c EXCEPT !["ticks"] = IF i \in c.ticks THEN c.ticks \ {i} ELSE c.ticks \cup {i}]
    BY <2>1 DEF Onto!Tick, c
  <2>3. \E v : page' = [c EXCEPT !["ticks"] = v]
    BY <2>2
  <2> QED BY <1>4, <1>6, <2>3
<1>13. CASE \E i : Onto!SetPk(i)
  <2>1. PICK i : page' = [c EXCEPT !.detail.pk = Onto!Rows[i].name]
    BY <1>13 DEF Onto!SetPk, c
  <2>2. \A v : SameDetail([c EXCEPT !.detail.pk = v])
    BY <1>0, DetailEdits
  <2>3. SameDetail([c EXCEPT !.detail.pk = Onto!Rows[i].name])
    BY <2>2
  <2> QED BY <1>4, <2>1, <2>3
<1>14. CASE \E i : Onto!DelPropRow(i)
  <2>1. PICK i : Onto!DelPropRow(i)
    BY <1>14
  <2>2. \/ \E v : page' = [c EXCEPT !["dialog"] = v]
        \/ \E rows : page' = [Onto!Edited(page, rows) EXCEPT !.ticks = {}]
    BY <2>1 DEF Onto!DelPropRow, c
  <2> QED BY <1>4, <1>5, <1>6, <2>2
<1> QED BY <1>7, <1>8, <1>9, <1>10, <1>11, <1>12, <1>13, <1>14

LEMMA DetailRequests ==
  ASSUME DetailInv,
         \/ Onto!DoSaveObject \/ Onto!DoSaveAction \/ Onto!DoPublish \/ Onto!DoRunAction \/ Onto!Confirm \/ Onto!Deprecate
         \/ \E id : Onto!SelectElement(id) \/ Onto!DoDel(id) \/ Onto!DoNew(id) \/ Onto!DoSaveLink(id) \/ Onto!ConfirmLinkBubble(id)
  PROVE  DetailInv'
<1> DEFINE c == Onto!Counted(page)
<1>0. /\ SameDetail(page) /\ SameDetail(c) /\ SameDetail(Onto!Closed) /\ SameFetches(wire)
      /\ \A rows : SameDetail(Onto!Edited(page, rows))
  BY DetailEdits
<1>1. ASSUME NEW q, SameDetail(q), NEW f \in OntoFields \ {"sel", "detail"}, NEW v
      PROVE  SameDetail([q EXCEPT ![f] = v])
  BY <1>1, DetailEdits
<1>2. {"ticks", "dialog", "bubble"} \subseteq OntoFields \ {"sel", "detail"}
  BY DEF OntoFields
<1> HIDE DEF c
<1>3. \A kind \in OtherKinds : \A of, then, rels :
        /\ SameFetches(Onto!Send(wire, Onto!Request(kind, of)))
        /\ SameFetches(Onto!Send(wire, [Onto!Request(kind, of) EXCEPT !.then = then]))
        /\ SameFetches(Onto!Send(wire, [Onto!Request(kind, of) EXCEPT !.rels = rels]))
        /\ SameFetches(Onto!Send(wire, [Onto!Request(kind, of) EXCEPT !.then = then, !.rels = rels]))
  BY <1>0, DetailAsks
<1>4. ASSUME NEW p, Named(p.detail), NEW then
      PROVE  SameFetches(Onto!SaveOf(wire, p, then))
  BY <1>0, <1>4, DetailSaves
<1>41. "publish" \in OtherKinds /\ "run" \in OtherKinds /\ "del" \in OtherKinds /\ "deprecate" \in OtherKinds /\ "save" \in OtherKinds /\ "impact" \in OtherKinds
  BY DEF OtherKinds
<1>5. CASE Onto!DoSaveObject
  <2>1. page' = c
    BY <1>5 DEF Onto!DoSaveObject, c
  <2>2. \/ wire' = Onto!Send(wire, [Onto!Request("impact", page.detail.of) EXCEPT !.then = "save"])
        \/ wire' = Onto!SaveOf(wire, page, "object")
    BY <1>5 DEF Onto!DoSaveObject
  <2>3. SameFetches(wire')
    <3>1. CASE wire' = Onto!SaveOf(wire, page, "object")
      <4>1. Named(page.detail)
        BY <1>0 DEF SameDetail
      <4> QED BY <1>4, <3>1, <4>1
    <3>2. CASE wire' # Onto!SaveOf(wire, page, "object")
      BY <1>3, <1>41, <2>2, <3>2
    <3> QED BY <3>1, <3>2
  <2> QED BY <1>0, <2>1, <2>3, DetailStays
<1>6. CASE Onto!DoSaveAction
  <2>1. SameDetail(page')
    BY <1>0, <1>6 DEF Onto!DoSaveAction
  <2>2. Named(page'.detail) /\ wire' = Onto!SaveOf(wire, page', "kinetic")
    BY <1>6, <2>1 DEF Onto!DoSaveAction, SameDetail
  <2> DEFINE q == page'
  <2>3. SameFetches(wire')
    <3>1. Named(q.detail) /\ wire' = Onto!SaveOf(wire, q, "kinetic")
      BY <2>2
    <3> HIDE DEF q
    <3> QED BY <1>4, <3>1
  <2> QED BY <2>1, <2>3, DetailStays
<1>7. CASE Onto!DoPublish
  <2>1. page' = c /\ wire' = Onto!Send(wire, Onto!Request("publish", None))
    BY <1>7 DEF Onto!DoPublish, c
  <2>2. SameFetches(wire')
    BY <1>3, <1>41, <2>1
  <2> QED BY <1>0, <2>1, <2>2, DetailStays
<1>8. CASE Onto!DoRunAction
  <2>1. (\E rows : page' = Onto!Edited(page, rows)) /\ wire' = Onto!Send(wire, Onto!Request("run", page.detail.of))
    BY <1>8 DEF Onto!DoRunAction
  <2>2. SameFetches(wire')
    BY <1>3, <1>41, <2>1
  <2> QED BY <1>0, <2>1, <2>2, DetailStays
<1>9. CASE Onto!Confirm
  <2>1. CASE page.dialog.ask = "row"
    <3>1. wire' = wire
      BY <1>9, <2>1 DEF Onto!Confirm
    <3>2. SameDetail(page')
      <4>1. CASE page' = Onto!Closed
        BY <1>0, <4>1
      <4>2. CASE page' # Onto!Closed
        <5> DEFINE rows == Onto!Without(Onto!Rows, {page.dialog.row})
                   a == [Onto!Closed EXCEPT !.detail.pk = None]
                   b == [a EXCEPT !.detail.rows = rows]
        <5>1. page' = [Onto!Closed EXCEPT !.detail.pk = None, !.detail.rows = rows, !.ticks = {}]
          BY <1>9, <2>1, <4>2 DEF Onto!Confirm
        <5> HIDE DEF rows
        <5>2. page' = [b EXCEPT !["ticks"] = {}]
          BY <5>1
        <5>3. SameDetail(a)
          BY <1>0, DetailEdits
        <5> HIDE DEF a
        <5>4. SameDetail(b)
          BY <5>3, DetailEdits
        <5> HIDE DEF b
        <5> QED BY <1>1, <1>2, <5>2, <5>4
      <4> QED BY <4>1, <4>2
    <3> QED BY <1>0, <3>1, <3>2, DetailStays
  <2>2. CASE page.dialog.ask # "row"
    <3>1. /\ page' = Onto!Closed
          /\ \/ wire' = Onto!SaveOf(wire, page, "object")
             \/ wire' = Onto!Send(wire, [Onto!Request("del", page.dialog.of) EXCEPT !.rels = page.dialog.rels])
      BY <1>9, <2>2 DEF Onto!Confirm
    <3>2. SameFetches(wire')
      <4>1. CASE wire' = Onto!SaveOf(wire, page, "object")
        <5>1. Named(page.detail)
          BY <1>0 DEF SameDetail
        <5> QED BY <1>4, <4>1, <5>1
      <4>2. CASE wire' # Onto!SaveOf(wire, page, "object")
        BY <1>3, <1>41, <3>1, <4>2
      <4> QED BY <4>1, <4>2
    <3> QED BY <1>0, <3>1, <3>2, DetailStays
  <2> QED BY <2>1, <2>2
<1>10. CASE Onto!Deprecate
  <2>1. page' = Onto!Closed /\ wire' = Onto!Send(wire, [Onto!Request("deprecate", page.dialog.of) EXCEPT !.then = "deprecated"])
    BY <1>10 DEF Onto!Deprecate
  <2>2. SameFetches(wire')
    BY <1>3, <1>41, <2>1
  <2> QED BY <1>0, <2>1, <2>2, DetailStays
<1>11. CASE \E id : Onto!SelectElement(id)
  BY <1>0, <1>11, DetailSelects DEF Onto!SelectElement, c
<1>12. CASE \E id : Onto!DoDel(id)
  <2>1. PICK id : Onto!DoDel(id)
    BY <1>12
  <2>2. CASE id \in Objects
    <3>1. page' = c /\ wire' = Onto!Send(wire, [Onto!Request("impact", id) EXCEPT !.then = "delete", !.rels = Onto!RelsOf(page.manifest, id)])
      BY <2>1, <2>2 DEF Onto!DoDel, c
    <3>2. SameFetches(wire')
      BY <1>3, <1>41, <3>1
    <3> QED BY <1>0, <3>1, <3>2, DetailStays
  <2>3. CASE id \notin Objects
    <3>1. wire' = wire /\ \E v : page' = [c EXCEPT !["dialog"] = v]
      BY <2>1, <2>3 DEF Onto!DoDel, c
    <3>3. \A v : SameDetail([c EXCEPT !["dialog"] = v])
      BY <1>0, <1>1, <1>2
    <3>2. SameDetail(page')
      BY <3>1, <3>3
    <3> QED BY <1>0, <3>1, <3>2, DetailStays
  <2> QED BY <2>2, <2>3
<1>13. CASE \E id : Onto!DoNew(id) \/ Onto!DoSaveLink(id)
  <2>1. page' = c /\ \E id, then : wire' = Onto!Send(wire, [Onto!Request("save", id) EXCEPT !.then = then])
    BY <1>13 DEF Onto!DoNew, Onto!DoSaveLink, c
  <2>2. SameFetches(wire')
    BY <1>3, <1>41, <2>1
  <2> QED BY <1>0, <2>1, <2>2, DetailStays
<1>14. CASE \E id : Onto!ConfirmLinkBubble(id)
  <2>1. PICK id : page' = [c EXCEPT !["bubble"] = {}] /\ wire' = Onto!Send(wire, [Onto!Request("save", id) EXCEPT !.then = "link", !.rels = page.bubble])
    BY <1>14 DEF Onto!ConfirmLinkBubble, c
  <2>2. SameFetches(wire')
    BY <1>3, <1>41, <2>1
  <2>3. SameDetail(page')
    BY <1>0, <1>1, <1>2, <2>1
  <2> QED BY <2>2, <2>3, DetailStays
<1> QED BY <1>5, <1>6, <1>7, <1>8, <1>9, <1>10, <1>11, <1>12, <1>13, <1>14

LEMMA DetailAnswers ==
  ASSUME DetailInv, NEW r \in wire, Onto!Answer(r)
  PROVE  DetailInv'
<1> DEFINE w == wire \ {r}
<1>0. /\ SameDetail(page) /\ Framed(wire, OntoRequest) /\ Right(r, page)
      /\ r.kind # "detail" => SameFetches(w)
  BY DetailEdits, DetailFewer DEF DetailInv, OntoInv
<1>1. ASSUME NEW q, SameDetail(q), NEW f \in OntoFields \ {"sel", "detail"}, NEW v
      PROVE  SameDetail([q EXCEPT ![f] = v])
  BY <1>1, DetailEdits
<1>2. {"loaded", "ticks", "dialog", "result", "manifest", "spec", "canvas", "moved"} \subseteq OntoFields \ {"sel", "detail"}
  BY DEF OntoFields
<1> HIDE DEF w
<1>3. ASSUME SameFetches(w), NEW of, NEW then
      PROVE  /\ SameFetches(Onto!Send(w, [Onto!Request("rest", of) EXCEPT !.then = then]))
             /\ SameFetches(Onto!SaveOf(w, page, then)) /\ SameFetches(Onto!Load(w, then, of))
  <2>1. Named(page.detail) /\ "rest" \in OtherKinds
    BY <1>0 DEF SameDetail, OtherKinds
  <2>2. SameFetches(Onto!SaveOf(w, page, then)) /\ SameFetches(Onto!Load(w, then, of))
    BY <1>3, <2>1, DetailSaves, DetailLoads
  <2>3. \A rels : SameFetches(Onto!Send(w, [Onto!Request("rest", of) EXCEPT !.then = then]))
    BY <1>3, <2>1, DetailAsks
  <2> QED BY <2>2, <2>3
<1>4. CASE Onto!DetailAnswer(r)
  <2>1. wire' = w /\ r.kind = "detail"
    BY <1>4 DEF Onto!DetailAnswer, w
  <2>2. CASE ~r.live
    <3>1. page' = page
      BY <1>4, <2>2 DEF Onto!DetailAnswer
    <3>2. SameFetches(wire')
      BY <1>0, <2>1, <2>2, DetailFewer DEF w
    <3> QED BY <1>0, <3>1, <3>2, DetailStays
  <2>3. CASE r.live
    <3> DEFINE d == IF r.status = "done" THEN r.detail ELSE Onto!NoDetail
    <3>1. page' = [page EXCEPT !.detail = d]
      BY <1>4, <2>3 DEF Onto!DetailAnswer
    <3>2. Named(d) /\ (d.of = None \/ page.sel = None \/ d.of = page.sel)
      BY <1>0, <2>1, <2>3 DEF Right, Named, Onto!NoDetail
    <3> HIDE DEF d
    <3>3. DOMAIN page' = OntoFields /\ page'.sel = page.sel /\ page'.detail = d
      BY <1>0, <3>1 DEF SameDetail, OntoFields
    <3>4. Follows(page, wire)'
      BY <3>2, <3>3 DEF Follows
    <3>5. \A x \in wire' : Right(x, page')
      BY <2>1, <3>3 DEF DetailInv, Right, w
    <3>6. Framed(wire', OntoRequest)
      BY <1>0, <2>1 DEF Framed, w
    <3> QED BY <3>2, <3>3, <3>4, <3>5, <3>6 DEF DetailInv, OntoInv, Right
  <2> QED BY <2>2, <2>3
<1>5. CASE Onto!RunAnswer(r)
  <2>1. wire' = w /\ r.kind # "detail" /\ page' = [page EXCEPT !["result"] = r.of]
    BY <1>5 DEF Onto!RunAnswer, w
  <2>2. SameDetail(page')
    BY <1>0, <1>1, <1>2, <2>1
  <2> QED BY <1>0, <2>1, <2>2, DetailStays
<1>6. CASE Onto!LoadAnswer(r)
  <2>1. r.kind = "load" /\ SameFetches(w)
    BY <1>0, <1>6 DEF Onto!LoadAnswer
  <2>2. wire' = w \/ wire' = Onto!Send(w, [Onto!Request("rest", r.of) EXCEPT !.then = r.then])
    BY <1>6 DEF Onto!LoadAnswer, w
  <2>3. SameFetches(wire')
    BY <1>3, <2>1, <2>2
  <2>4. SameDetail(page')
    <3> DEFINE moved == page.moved \cap r.there
               a == [page EXCEPT !["manifest"] = r.there]
               b == [a EXCEPT !["spec"] = Onto!Nodes(r.there)]
    <3>1. page' = page \/ page' = [b EXCEPT !["moved"] = moved]
      BY <1>6 DEF Onto!LoadAnswer
    <3>2. SameDetail(a)
      BY <1>0, <1>1, <1>2
    <3> HIDE DEF a
    <3>3. SameDetail(b)
      BY <1>1, <1>2, <3>2
    <3> HIDE DEF b, moved
    <3>4. SameDetail([b EXCEPT !["moved"] = moved])
      BY <1>1, <1>2, <3>3
    <3> QED BY <1>0, <3>1, <3>4
  <2> QED BY <2>3, <2>4, DetailStays
<1>7. CASE Onto!RestAnswer(r)
  <2> DEFINE a == [page EXCEPT !["loaded"] = TRUE]
             p == [a EXCEPT !["canvas"] = page.spec]
  <2>1. SameDetail(p)
    <3>1. SameDetail(a)
      BY <1>0, <1>1, <1>2
    <3> HIDE DEF a
    <3> QED BY <1>1, <1>2, <3>1
  <2>2. r.kind # "detail"
    BY <1>7 DEF Onto!RestAnswer
  <2>3. \/ \E kind, id, forced : Onto!Selected(p, w, kind, id, forced)
        \/ page' = p /\ wire' = w
    <3>1. p = [page EXCEPT !.loaded = TRUE, !.canvas = page.spec]
      OBVIOUS
    <3> HIDE DEF p
    <3> QED BY <1>7, <3>1 DEF Onto!RestAnswer, w
  <2> HIDE DEF p
  <2>4. CASE \E kind, id, forced : Onto!Selected(p, w, kind, id, forced)
    <3>1. w \subseteq wire
      BY DEF w
    <3> QED BY <2>1, <2>4, <3>1, DetailSelects
  <2>5. CASE page' = p /\ wire' = w
    BY <1>0, <2>1, <2>2, <2>5, DetailStays
  <2> QED BY <2>3, <2>4, <2>5
<1>8. CASE Onto!SaveAnswer(r)
  <2>1. r.kind # "detail" /\ SameFetches(w)
    BY <1>0, <1>8 DEF Onto!SaveAnswer
  <2>2. wire' = w \/ wire' = Onto!Load(w, r.then, r.of)
    BY <1>8 DEF Onto!SaveAnswer, w
  <2>3. SameFetches(wire')
    <3>1. SameFetches(Onto!Load(w, r.then, r.of))
      BY <1>3, <2>1
    <3> QED BY <2>1, <2>2, <3>1
  <2>4. page' = page \/ page' = [page EXCEPT !["ticks"] = {}]
    BY <1>8 DEF Onto!SaveAnswer
  <2>5. SameDetail(page')
    BY <1>0, <1>1, <1>2, <2>4
  <2> QED BY <2>3, <2>5, DetailStays
<1>9. CASE Onto!ImpactAnswer(r)
  <2>1. r.kind # "detail" /\ SameFetches(w)
    BY <1>0, <1>9 DEF Onto!ImpactAnswer
  <2>2. wire' = w \/ wire' = Onto!SaveOf(w, page, "object")
    BY <1>9 DEF Onto!ImpactAnswer, w
  <2>3. SameFetches(wire')
    <3>1. SameFetches(Onto!SaveOf(w, page, "object"))
      <4>1. \A of : SameFetches(Onto!SaveOf(w, page, "object"))
        BY <1>3, <2>1
      <4> QED BY <4>1
    <3> QED BY <2>1, <2>2, <3>1
  <2>4. page' = page \/ \E v : page' = [page EXCEPT !["dialog"] = v]
    BY <1>9 DEF Onto!ImpactAnswer
  <2>5. SameDetail(page')
    BY <1>0, <1>1, <1>2, <2>4
  <2> QED BY <2>3, <2>5, DetailStays
<1>10. CASE Onto!DelAnswer(r)
  <2>1. r.kind # "detail" /\ SameFetches(w)
    BY <1>0, <1>10 DEF Onto!DelAnswer
  <2>2. wire' = w \/ wire' = Onto!Load(w, "nothing", None)
    BY <1>10 DEF Onto!DelAnswer, w
  <2>3. SameFetches(wire')
    <3>1. SameFetches(Onto!Load(w, "nothing", None))
      BY <1>3, <2>1
    <3> QED BY <2>1, <2>2, <3>1
  <2>4. CASE page' = page
    BY <1>0, <2>3, <2>4, DetailStays
  <2>5. CASE page' = [page EXCEPT !.sel = None, !.kind = None, !.detail = Onto!NoDetail]
    <3>1. DOMAIN page' = OntoFields /\ page'.sel = None /\ Named(page'.detail)
      BY <1>0, <2>5 DEF SameDetail, OntoFields, Named, Onto!NoDetail
    <3>2. Follows(page, wire)'
      BY <3>1 DEF Follows
    <3>3. \A x \in wire' : Right(x, page')
      BY <2>3, <3>1 DEF DetailInv, Right, SameFetches
    <3> QED BY <2>3, <3>1, <3>2, <3>3 DEF DetailInv, OntoInv, SameFetches
  <2> QED BY <1>10, <2>4, <2>5 DEF Onto!DelAnswer
<1> QED BY <1>4, <1>5, <1>6, <1>7, <1>8, <1>9, <1>10 DEF Onto!Answer

LEMMA DetailService ==
  ASSUME DetailInv, NEW r \in wire, Onto!Serve(r) \/ Onto!Refuse(r)
  PROVE  DetailInv'
<1>0. Framed(wire, OntoRequest) /\ r = [f \in OntoRequest \cup {"n", "status"} |-> r[f]] /\ Right(r, page) /\ DOMAIN page = OntoFields
  BY DEF DetailInv, OntoInv, Framed
<1> DEFINE closed(a) == /\ a = [f \in OntoRequest \cup {"n", "status"} |-> a[f]] /\ Named(a.detail)
                        /\ a.kind = r.kind /\ a.of = r.of /\ a.live = r.live
                        /\ a.kind = "detail" /\ a.status = "done" => a.detail.of = r.of
<1>1. PICK a : closed(a) /\ wire' = (wire \ {r}) \cup {a} /\ page' = page
  <2>1. CASE Onto!Serve(r)
    <3> DEFINE d == IF r.kind = "detail" THEN Onto!Definition(r.of) ELSE r.detail
               there == IF r.kind = "load" THEN srv.there ELSE r.there
               a == [r EXCEPT !.status = "done", !.there = there, !.detail = d]
    <3>1. wire' = (wire \ {r}) \cup {a} /\ page' = page
      BY <2>1 DEF Onto!Serve, Onto!Settled
    <3>2. Named(d) /\ (r.kind = "detail" => d.of = r.of)
      BY <1>0 DEF Onto!Definition, Named, Right
    <3> HIDE DEF d, there
    <3>3. closed(a)
      BY <1>0, <3>2 DEF OntoRequest
    <3> QED BY <3>1, <3>3
  <2>2. CASE Onto!Refuse(r)
    <3>1. wire' = (wire \ {r}) \cup {[r EXCEPT !.status = "failed"]} /\ page' = page
      BY <2>2 DEF Onto!Refuse, Onto!Refused, Onto!Settled
    <3>2. closed([r EXCEPT !.status = "failed"])
      BY <1>0 DEF OntoRequest, Right
    <3> QED BY <3>1, <3>2
  <2> QED BY <2>1, <2>2
<1>2. Framed(wire', OntoRequest)
  BY <1>0, <1>1 DEF Framed
<1>3. \A x \in wire' : Right(x, page')
  BY <1>0, <1>1 DEF DetailInv, Right
<1>4. Follows(page, wire)'
  BY <1>1 DEF DetailInv, Follows
<1> QED BY <1>0, <1>1, <1>2, <1>3, <1>4 DEF DetailInv, OntoInv

LEMMA DetailStart ==
  ASSUME Onto!Init, OntoInv
  PROVE  DetailInv
<1> DEFINE a == Onto!Request("load", None)
<1>1. page.sel = None /\ Named(page.detail)
  BY DEF Onto!Init, Onto!NoDetail, Named
<1>2. wire = Sent({}, MaxWire, a)
  BY DEF Onto!Init, Onto!Sent, Sent, Onto!FreeNumber, FreeNumber, Onto!Min, Min
<1>3. DOMAIN a = OntoRequest /\ a.kind = "load" /\ Named(a.detail)
  BY DetailPlain DEF Onto!NoDetail, Onto!Request, OntoRequest, Named
<1> HIDE DEF a
<1>4. "n" \notin OntoRequest /\ "status" \notin OntoRequest /\ {"kind", "detail"} \subseteq OntoRequest
  BY DEF OntoRequest
<1>5. PICK q : wire = {} \cup {q} /\ \A f \in OntoRequest : q[f] = a[f]
  BY <1>2, <1>3, <1>4, SentAdds
<1>6. q.kind = "load" /\ Named(q.detail) /\ wire = {q}
  BY <1>3, <1>4, <1>5
<1> QED BY <1>1, <1>6 DEF DetailInv, Follows, Right

\* However answers overtake each other, what the inspector of the ontology
\* workbench holds is the definition of the element selected, unless that is
\* being fetched still (onto/designer.js: selectElement drops the answer to an
\* older fetch).
THEOREM OntoDetail ==
  Onto!Spec => []Onto!DetailIsOfSelected
<1>1. Onto!Init /\ OntoInv => DetailInv
  BY DetailStart
<1>2. DetailInv /\ [Onto!Next]_Onto!vars => DetailInv'
  <2>1. CASE DetailInv /\ Onto!Next
    <3>1. CASE \/ Onto!AddPropRow \/ Onto!BatchDelProps \/ Onto!EditKinetic \/ Onto!CancelLinkBubble \/ Onto!Cancel
               \/ \E n : Onto!DragNode(n) \/ Onto!AddSharedRef(n) \/ Onto!AcAdd(n) \/ Onto!OpenLinkBubble(n)
               \/ \E i : Onto!SetPk(i) \/ Onto!Tick(i) \/ Onto!DelPropRow(i) \/ Onto!ChangeRest(i) \/ Onto!AcDel(i)
                           \/ \E n : Onto!NameRow(i, n)
      BY <2>1, <3>1, DetailUser
    <3>2. CASE \/ Onto!DoSaveObject \/ Onto!DoSaveAction \/ Onto!DoPublish \/ Onto!DoRunAction \/ Onto!Confirm \/ Onto!Deprecate
               \/ \E id : Onto!SelectElement(id) \/ Onto!DoDel(id) \/ Onto!DoNew(id) \/ Onto!DoSaveLink(id) \/ Onto!ConfirmLinkBubble(id)
      BY <2>1, <3>2, DetailRequests
    <3>3. CASE \E r \in wire : Onto!Answer(r)
      BY <2>1, <3>3, DetailAnswers
    <3>4. CASE \E r \in wire : Onto!Serve(r) \/ Onto!Refuse(r)
      BY <2>1, <3>4, DetailService
    <3> QED BY <2>1, <3>1, <3>2, <3>3, <3>4 DEF Onto!Next
  <2>2. CASE DetailInv /\ UNCHANGED Onto!vars
    BY <2>2 DEF Onto!vars, DetailInv, OntoInv, Framed, Follows, Right
  <2> QED BY <2>1, <2>2
<1>3. DetailInv => Onto!DetailIsOfSelected
  BY DEF DetailInv, Follows, Onto!DetailIsOfSelected
<1> QED BY <1>1, <1>2, <1>3, OntoInvariance, PTL DEF Onto!Spec

=============================================================================
