----------------------------- MODULE PortalProofs -----------------------------
(***************************************************************************)
(* Proofs about the pages of processes, tasks and the portal, each an      *)
(* instance of its module for any values of its constants: the drafts, one *)
(* draft shared by several people, subflows edited in place, the property  *)
(* panel, the variables of a process, the list of tasks and the form a     *)
(* task is handled in; the job monitor, the help centre, and the domains   *)
(* and modules of the directory.                                           *)
(***************************************************************************)
EXTENDS PageRequests, Sequences, FiniteSetTheorems

CONSTANTS None, MaxWire, MaxChanges, MaxRounds, MaxChain, MaxRows, PageSize, \* of several pages
          Keys, NewKey, Stored, Began, MaxStamp, MaxVersions, \* of FlowDraft
          StartDefs, Targets, Direct, Workspace, MaxActs, \* of FlowTask
          Peers, Nodes, Line, MayLose,                    \* of FlowCollab
          Main, Unlisted, Places, Default,                \* of FlowSubflow
          Tasks, FirstIn, FormOf, ConsoleOf,              \* of FlowTodo
          Names, MaxDecls, MaxEdits,                      \* of FlowVars
          MaxJobs, Old, MaxSteps, MaxFeed,                \* of PortalJobs
          Topics, GroupOf, LinksOf, FirstTopic,           \* of PortalHelp
          RecordIds, NewId, Initial, MaxNames             \* of PortalDam

VARIABLES page, wire, srv

-----------------------------------------------------------------------------
(* Drafts: the state of the page and of the service.                       *)

Draft == INSTANCE FlowDraft

DraftFields == {"kind", "key", "version", "base", "stamp"}

DraftPage ==
  [selected : Keys \cup {None}, canvas : Keys, shown : 0..MaxVersions, base : 0..MaxStamp,
   collab : Keys \cup {None}, seen : [Keys -> 0..MaxStamp], listed : SUBSET Keys]

DraftServer ==
  {s \in [clock : 0..MaxStamp, drafts : [Keys -> 0..MaxStamp], versions : [Keys -> 0..MaxVersions]] :
     \A k \in Keys : s.drafts[k] \in 0..s.clock}

\* No two definitions have a draft of the same stamp.
StampsDiffer ==
  \A j, k \in Keys : srv.drafts[j] = srv.drafts[k] /\ j # k => srv.drafts[j] = 0

\* A draft with the stamp b, whichever it is, has been seen by the page.
Told(b) ==
  /\ b \in 0..srv.clock
  /\ \A k \in Keys : b # 0 /\ srv.drafts[k] = b => b <= page.seen[k]

\* The stamp b has been given to a draft of k, if to any.
Of(b, k) ==
  /\ b \in 0..srv.clock
  /\ \A j \in Keys : b # 0 /\ srv.drafts[j] = b => j = k

\* A request of the page: its base has been seen, its stamp is of its key.
Fits(r) ==
  /\ Framed({r}, DraftFields) /\ r.key \in Keys /\ r.version \in 0..MaxVersions
  /\ Told(r.base) /\ Of(r.stamp, r.key)

DraftInv ==
  /\ page \in DraftPage /\ srv \in DraftServer /\ StampsDiffer /\ Told(page.base)
  /\ \A r \in wire : Fits(r)

\* The larger of two stamps.
LEMMA LargerStamp ==
  ASSUME NEW a \in Nat, NEW b \in Nat
  PROVE  Draft!Max({a, b}) \in {a, b} /\ Draft!Max({a, b}) >= a /\ Draft!Max({a, b}) >= b
<1>1. \E x \in {a, b} : \A y \in {a, b} : x >= y
  <2>1. CASE a >= b BY <2>1
  <2>2. CASE b >= a BY <2>2
  <2> QED BY <2>1, <2>2
<1> QED BY <1>1 DEF Draft!Max

\* Seeing a draft.
LEMMA SeeIs ==
  ASSUME NEW p \in DraftPage, NEW k \in Keys, NEW b \in 0..MaxStamp, MaxStamp \in Nat
  PROVE  LET q == Draft!See(p, k, b)
         IN  /\ q \in DraftPage /\ q.seen[k] >= b
             /\ \A j \in Keys : q.seen[j] >= p.seen[j]
             /\ q = [p EXCEPT !.seen = q.seen]
<1> DEFINE m == Draft!Max({p.seen[k], b})
<1>1. p.seen \in [Keys -> 0..MaxStamp]
  BY DEF DraftPage
<1>2. m \in 0..MaxStamp /\ m >= b /\ m >= p.seen[k]
  <2>1. p.seen[k] \in Nat /\ b \in Nat /\ p.seen[k] \in 0..MaxStamp
    BY <1>1
  <2>2. m \in {p.seen[k], b} /\ m >= b /\ m >= p.seen[k]
    BY <2>1, LargerStamp
  <2> QED BY <2>1, <2>2
<1> HIDE DEF m
<1> DEFINE seen == [p.seen EXCEPT ![k] = m]
<1>3. Draft!See(p, k, b) = [p EXCEPT !.seen = seen]
  BY DEF Draft!See, m
<1>4. /\ seen \in [Keys -> 0..MaxStamp] /\ seen[k] = m
      /\ \A j \in Keys : seen[j] >= p.seen[j]
  BY <1>1, <1>2
<1> HIDE DEF seen
<1> QED BY <1>2, <1>3, <1>4 DEF DraftPage

\* The helpers of the pages are those of PageRequests.
LEMMA DraftHelpers ==
  /\ \A w, m, s : Draft!Sent(w, m, s) = Sent(w, m, s)
  /\ \A w, r, a : Draft!Settled(w, r, a) = Settled(w, r, a)
BY DEF Draft!Sent, Sent, Draft!FreeNumber, FreeNumber, Draft!Min, Min, Draft!Settled, Settled

\* A question of the page.
LEMMA DraftAsks ==
  ASSUME NEW s, DOMAIN s = DraftFields, Framed(wire, DraftFields), Draft!Ask(s)
  PROVE  \E r : /\ wire' = wire \cup {r} /\ Framed({r}, DraftFields)
               /\ \A f \in DraftFields : r[f] = s[f]
<1>1. wire' = Sent(wire, MaxWire, s)
  BY DraftHelpers DEF Draft!Ask
<1>2. PICK r : /\ Sent(wire, MaxWire, s) = wire \cup {r}
               /\ \A f \in DraftFields : r[f] = s[f]
               /\ Framed(Sent(wire, MaxWire, s), DraftFields)
  BY SentAdds DEF DraftFields
<1>3. Framed({r}, DraftFields)
  BY <1>2 DEF Framed
<1> QED BY <1>1, <1>2, <1>3

\* What a request does to the drafts and versions.
LEMMA EffectIs ==
  ASSUME NEW r, Draft!Accepts(r)
  PROVE  \/ Draft!Effect(r) = Draft!Store(r.key) /\ srv.clock < MaxStamp
         \/ /\ Draft!Effect(r) = [srv EXCEPT !.versions[r.key] = @ + 1]
            /\ srv.versions[r.key] < MaxVersions
         \/ Draft!Effect(r) = srv
<1>1. CASE r.kind \in {"detail", "defs"}
  <2>1. r.kind \notin {"save", "silent", "saveAs"} /\ r.kind # "publish"
    BY <1>1
  <2> QED BY <2>1, Zenon DEF Draft!Effect
<1>2. CASE r.kind = "publish"
  <2>1. r.kind \notin {"save", "silent", "saveAs"} /\ r.kind \notin {"detail", "defs"}
    BY <1>2
  <2>2. srv.versions[r.key] < MaxVersions
    BY <1>2, <2>1, Zenon DEF Draft!Accepts
  <2>3. Draft!Effect(r) = [srv EXCEPT !.versions[r.key] = @ + 1]
    BY <1>2, <2>1, Zenon DEF Draft!Effect
  <2> QED BY <2>2, <2>3
<1>3. CASE r.kind \in {"save", "silent", "saveAs"}
  <2>1. r.kind # "publish" /\ r.kind \notin {"detail", "defs"}
    BY <1>3
  <2>2. srv.clock < MaxStamp
    BY <1>3, <2>1, Zenon DEF Draft!Accepts
  <2>3. Draft!Effect(r) = Draft!Store(r.key)
    BY <1>3, <2>1, Zenon DEF Draft!Effect
  <2> QED BY <2>2, <2>3
<1>4. CASE r.kind \notin {"save", "silent", "saveAs", "publish", "detail", "defs"}
  BY <1>4, Zenon DEF Draft!Effect
<1> QED BY <1>1, <1>2, <1>3, <1>4

-----------------------------------------------------------------------------
(* Drafts: what a step keeps.                                              *)

\* The requests of the page are framed together as each is alone.
LEMMA FramedTogether ==
  ASSUME DraftInv
  PROVE  Framed(wire, DraftFields)
BY DEF DraftInv, Fits, Framed

\* The newest draft of a definition has a stamp of its own.
LEMMA NewestIsOf ==
  ASSUME srv \in DraftServer, StampsDiffer, MaxStamp \in Nat, NEW k \in Keys
  PROVE  Of(srv.drafts[k], k) /\ srv.drafts[k] \in 0..MaxStamp
BY DEF Of, StampsDiffer, DraftServer

\* A step of the page alone.
LEMMA PageMoves ==
  ASSUME DraftInv, UNCHANGED srv, page' \in DraftPage, MaxStamp \in Nat,
         \A k \in Keys : page.seen[k] <= page'.seen[k],
         page'.base = page.base \/ Told(page.base)',
         \A r \in wire' : r \in wire \/ Fits(r)'
  PROVE  DraftInv'
<1>1. ASSUME NEW b, Told(b)
      PROVE  Told(b)'
  <2>1. b \in 0..srv'.clock /\ b \in Int
    BY <1>1 DEF Told, DraftServer, DraftInv
  <2>2. ASSUME NEW k \in Keys, b # 0, srv'.drafts[k] = b
        PROVE  b <= page'.seen[k]
    <3>1. b <= page.seen[k] /\ page.seen[k] <= page'.seen[k]
      BY <1>1, <2>2 DEF Told
    <3>2. page.seen[k] \in Int /\ page'.seen[k] \in Int
      BY DEF DraftInv, DraftPage
    <3> QED BY <2>1, <3>1, <3>2
  <2> QED BY <2>1, <2>2 DEF Told
<1>2. ASSUME NEW b, NEW k, Of(b, k)
      PROVE  Of(b, k)'
  BY <1>2 DEF Of
<1>3. ASSUME NEW r \in wire
      PROVE  Fits(r)'
  BY <1>1, <1>2 DEF Fits, DraftInv
<1>4. srv' \in DraftServer /\ StampsDiffer'
  BY DEF DraftInv, StampsDiffer
<1>5. Told(page.base)'
  <2>1. Told(page.base) /\ (page'.base = page.base => Told(page.base)')
    BY <1>1 DEF DraftInv, Told
  <2> QED BY <2>1
<1> QED BY <1>3, <1>4, <1>5 DEF DraftInv

\* A draft is stored: its stamp is larger than every stamp there is.
LEMMA StoreKeeps ==
  ASSUME DraftInv, UNCHANGED page, MaxStamp \in Nat,
         NEW k \in Keys, srv' = Draft!Store(k), srv.clock < MaxStamp
  PROVE  /\ srv' \in DraftServer /\ StampsDiffer' /\ Told(page.base)'
         /\ \A r \in wire : Fits(r)'
         /\ \A b : Told(b) => Told(b)'
         /\ \A b, j : Of(b, j) => Of(b, j)'
<1>1. /\ srv.clock \in 0..MaxStamp /\ srv.drafts \in [Keys -> 0..MaxStamp]
      /\ srv.versions \in [Keys -> 0..MaxVersions]
      /\ \A j \in Keys : srv.drafts[j] \in 0..srv.clock
  BY DEF DraftInv, DraftServer
<1> DEFINE drafts == [srv.drafts EXCEPT ![k] = srv.clock + 1]
<1>2. srv' = [clock |-> srv.clock + 1, drafts |-> drafts, versions |-> srv.versions]
  BY <1>1 DEF Draft!Store, DraftInv, DraftServer
<1>3. /\ drafts \in [Keys -> 0..MaxStamp] /\ drafts[k] = srv.clock + 1
      /\ \A j \in Keys : j # k => drafts[j] = srv.drafts[j]
  BY <1>1
<1> HIDE DEF drafts
<1>4. srv'.clock = srv.clock + 1 /\ srv'.drafts = drafts /\ srv'.versions = srv.versions
  BY <1>2
<1>5. srv' \in DraftServer
  BY <1>1, <1>2, <1>3, <1>4 DEF DraftServer
<1>6. StampsDiffer'
  BY <1>1, <1>3, <1>4 DEF StampsDiffer, DraftInv
<1>7. \A b : Told(b) => Told(b)'
  BY <1>1, <1>3, <1>4 DEF Told
<1>8. \A b, j : Of(b, j) => Of(b, j)'
  BY <1>1, <1>3, <1>4 DEF Of
<1>9. \A r \in wire : Fits(r)'
  BY <1>7, <1>8 DEF Fits, DraftInv
<1>10. Told(page.base)'
  BY <1>7 DEF DraftInv
<1> QED BY <1>5, <1>6, <1>7, <1>8, <1>9, <1>10

\* A version is published: the drafts stay.
LEMMA PublishKeeps ==
  ASSUME DraftInv, UNCHANGED page, MaxStamp \in Nat, MaxVersions \in Nat,
         NEW k \in Keys, srv' = [srv EXCEPT !.versions[k] = @ + 1],
         srv.versions[k] < MaxVersions
  PROVE  /\ srv' \in DraftServer /\ StampsDiffer' /\ Told(page.base)'
         /\ \A r \in wire : Fits(r)'
         /\ \A b : Told(b) => Told(b)'
         /\ \A b, j : Of(b, j) => Of(b, j)'
<1>1. /\ srv.clock \in 0..MaxStamp /\ srv.drafts \in [Keys -> 0..MaxStamp]
      /\ srv.versions \in [Keys -> 0..MaxVersions]
      /\ \A j \in Keys : srv.drafts[j] \in 0..srv.clock
  BY DEF DraftInv, DraftServer
<1> DEFINE versions == [srv.versions EXCEPT ![k] = @ + 1]
<1>2. srv' = [clock |-> srv.clock, drafts |-> srv.drafts, versions |-> versions]
  BY <1>1 DEF DraftInv, DraftServer
<1>3. versions \in [Keys -> 0..MaxVersions]
  BY <1>1
<1> HIDE DEF versions
<1>4. srv'.clock = srv.clock /\ srv'.drafts = srv.drafts /\ srv'.versions = versions
  BY <1>2
<1>5. srv' \in DraftServer
  BY <1>1, <1>2, <1>3, <1>4 DEF DraftServer
<1>6. StampsDiffer'
  BY <1>4 DEF StampsDiffer, DraftInv
<1>7. \A b : Told(b) => Told(b)'
  BY <1>4 DEF Told
<1>8. \A b, j : Of(b, j) => Of(b, j)'
  BY <1>4 DEF Of
<1>9. \A r \in wire : Fits(r)'
  BY <1>7, <1>8 DEF Fits, DraftInv
<1>10. Told(page.base)'
  BY <1>7 DEF DraftInv
<1> QED BY <1>5, <1>6, <1>7, <1>8, <1>9, <1>10

\* The page has seen the draft of k with the stamp b.
LEMMA SeenNow ==
  ASSUME DraftInv, UNCHANGED srv, MaxStamp \in Nat,
         NEW k \in Keys, NEW b, Of(b, k), b <= page'.seen[k]
  PROVE  Told(b)'
BY DEF Of, Told

\* No stamp at all.
LEMMA NoStamp ==
  ASSUME srv \in DraftServer, MaxStamp \in Nat
  PROVE  Told(0) /\ \A k : Of(0, k)
BY DEF Told, Of, DraftServer

\* The fields of the request that follows an answer.
LEMMA AgainIs ==
  ASSUME NEW r, Framed({r}, DraftFields), NEW kind, NEW k, NEW v
  PROVE  LET a == Draft!Again(r, kind, k, v)
         IN  Framed({a}, DraftFields) /\ a.key = k /\ a.version = v /\ a.base = 0 /\ a.stamp = 0
<1> DEFINE F == DraftFields \cup {"n", "status"}
           a == Draft!Again(r, kind, k, v)
<1>1. r = [f \in F |-> r[f]]
  BY DEF Framed
<1>2. a = [f \in F |-> IF f = "kind" THEN kind ELSE IF f = "key" THEN k
                       ELSE IF f = "version" THEN v ELSE IF f \in {"base", "stamp"} THEN 0
                       ELSE IF f = "status" THEN "asked" ELSE r[f]]
  BY <1>1 DEF Draft!Again, DraftFields
<1>3. \A f \in F : a[f] = a[f] /\ DOMAIN a = F
  BY <1>2
<1>4. a.key = k /\ a.version = v /\ a.base = 0 /\ a.stamp = 0 /\ a = [f \in F |-> a[f]]
  BY <1>2 DEF DraftFields
<1> QED BY <1>4 DEF Framed

\* A save that is sent again.
Resent(r, k, b) == [r EXCEPT !.key = k, !.base = b, !.status = "asked", !.stamp = 0]

\* Its fields.
LEMMA WithKey ==
  ASSUME NEW r, Framed({r}, DraftFields), NEW k, NEW b
  PROVE  LET a == Resent(r, k, b)
         IN  Framed({a}, DraftFields) /\ a.key = k /\ a.version = r.version /\ a.base = b /\ a.stamp = 0
<1> DEFINE F == DraftFields \cup {"n", "status"}
           a == Resent(r, k, b)
<1>1. r = [f \in F |-> r[f]]
  BY DEF Framed
<1>2. a = [f \in F |-> IF f = "key" THEN k ELSE IF f = "base" THEN b
                       ELSE IF f = "version" THEN r.version ELSE IF f = "stamp" THEN 0
                       ELSE IF f = "status" THEN "asked" ELSE r[f]]
  BY <1>1 DEF Resent, DraftFields
<1>3. a.key = k /\ a.version = r.version /\ a.base = b /\ a.stamp = 0 /\ a = [f \in F |-> a[f]]
  BY <1>2 DEF DraftFields
<1> QED BY <1>3 DEF Framed

\* A request that is answered.
Answered(r, status, t, v) == [r EXCEPT !.status = status, !.stamp = t, !.version = v]

\* Its fields.
LEMMA WithStamp ==
  ASSUME NEW r, Framed({r}, DraftFields), NEW status, NEW t, NEW v
  PROVE  LET a == Answered(r, status, t, v)
         IN  Framed({a}, DraftFields) /\ a.key = r.key /\ a.version = v /\ a.base = r.base /\ a.stamp = t
<1> DEFINE F == DraftFields \cup {"n", "status"}
           a == Answered(r, status, t, v)
<1>1. r = [f \in F |-> r[f]]
  BY DEF Framed
<1>2. a = [f \in F |-> IF f = "key" THEN r.key ELSE IF f = "base" THEN r.base
                       ELSE IF f = "version" THEN v ELSE IF f = "stamp" THEN t
                       ELSE IF f = "status" THEN status ELSE r[f]]
  BY <1>1 DEF Answered, DraftFields
<1>3. a.key = r.key /\ a.version = v /\ a.base = r.base /\ a.stamp = t /\ a = [f \in F |-> a[f]]
  BY <1>2 DEF DraftFields
<1> QED BY <1>3 DEF Framed

\* A request that is answered with another draft.
Warned(r, status, t) == [r EXCEPT !.status = status, !.stamp = t]

\* Its fields.
LEMMA WithDraft ==
  ASSUME NEW r, Framed({r}, DraftFields), NEW status, NEW t
  PROVE  LET a == Warned(r, status, t)
         IN  Framed({a}, DraftFields) /\ a.key = r.key /\ a.version = r.version /\ a.base = r.base /\ a.stamp = t
<1> DEFINE F == DraftFields \cup {"n", "status"}
           a == Warned(r, status, t)
<1>1. r = [f \in F |-> r[f]]
  BY DEF Framed
<1>2. a = [f \in F |-> IF f = "key" THEN r.key ELSE IF f = "base" THEN r.base
                       ELSE IF f = "version" THEN r.version ELSE IF f = "stamp" THEN t
                       ELSE IF f = "status" THEN status ELSE r[f]]
  BY <1>1 DEF Warned, DraftFields
<1>3. a.key = r.key /\ a.version = r.version /\ a.base = r.base /\ a.stamp = t /\ a = [f \in F |-> a[f]]
  BY <1>2 DEF DraftFields
<1> QED BY <1>3 DEF Framed

\* The page stores or loads a draft: it has seen it, and may take it as base.
LEMMA SeenAndStored ==
  ASSUME DraftInv, MaxStamp \in Nat, NEW p \in DraftPage, p.seen = page.seen,
         NEW k \in Keys, NEW b, Of(b, k), UNCHANGED srv, page'.seen = Draft!See(p, k, b).seen
  PROVE  /\ Draft!See(p, k, b) \in DraftPage /\ b \in 0..MaxStamp /\ Told(b)'
         /\ Draft!See(p, k, b) = [p EXCEPT !.seen = Draft!See(p, k, b).seen]
         /\ \A j \in Keys : page.seen[j] <= page'.seen[j]
<1>1. b \in 0..MaxStamp
  BY DEF Of, DraftInv, DraftServer
<1> DEFINE q == Draft!See(p, k, b)
<1>2. /\ q \in DraftPage /\ q.seen[k] >= b /\ \A j \in Keys : q.seen[j] >= p.seen[j]
      /\ q = [p EXCEPT !.seen = q.seen]
  BY <1>1, SeeIs
<1> HIDE DEF q
<1>3. page.seen \in [Keys -> 0..MaxStamp] /\ q.seen \in [Keys -> 0..MaxStamp]
  BY <1>2 DEF DraftInv, DraftPage
<1>4. page'.seen = q.seen
  BY DEF q
<1>5. b <= page'.seen[k] /\ \A j \in Keys : page.seen[j] <= page'.seen[j]
  BY <1>1, <1>2, <1>3, <1>4
<1>6. Told(b)'
  BY <1>5, SeenNow
<1> QED BY <1>1, <1>2, <1>5, <1>6 DEF q

LEMMA DraftEdits ==
  ASSUME Draft!DraftAssumption, DraftInv,
         \/ Draft!LoadDefs \/ Draft!NewDiagram \/ Draft!DoSave \/ Draft!DoPublish \/ Draft!DoSaveAs
         \/ \E k \in Keys : Draft!DoImport(k)
         \/ \E k \in Keys, v \in 0..MaxVersions : Draft!LoadDef(k, v)
  PROVE  DraftInv'
<1>1. NewKey \in Keys /\ MaxStamp \in Nat /\ MaxVersions \in Nat
  BY DEF Draft!DraftAssumption
<1>2. /\ page \in DraftPage /\ srv \in DraftServer /\ Told(page.base) /\ Framed(wire, DraftFields)
      /\ Told(0) /\ \A k : Of(0, k)
  BY <1>1, FramedTogether, NoStamp DEF DraftInv
<1>3. CASE Draft!NewDiagram
  <2>1. page' = [[page EXCEPT !.selected = None] EXCEPT !.canvas = NewKey] /\ wire' = wire /\ srv' = srv
    BY <1>3 DEF Draft!NewDiagram, Draft!OpenDiagram
  <2>2. page' \in DraftPage /\ page'.seen = page.seen /\ page'.base = page.base
    BY <1>1, <1>2, <2>1 DEF DraftPage
  <2>3. \A k \in Keys : page.seen[k] <= page'.seen[k]
    BY <1>1, <1>2, <2>2 DEF DraftPage
  <2> QED BY <1>1, <2>1, <2>2, <2>3, PageMoves
<1>4. CASE \E k \in Keys : Draft!DoImport(k)
  <2> DEFINE p == [page EXCEPT !.selected = None, !.shown = 0]
  <2>1. PICK k \in Keys : page' = [p EXCEPT !.canvas = k] /\ wire' = wire /\ srv' = srv
    BY <1>4 DEF Draft!DoImport, Draft!OpenDiagram
  <2>4. p \in DraftPage /\ p.seen = page.seen /\ p.base = page.base
    <3>1. 0 \in 0..MaxVersions /\ None \in Keys \cup {None}
      BY <1>1
    <3> QED BY <1>2, <3>1 DEF DraftPage
  <2> HIDE DEF p
  <2>2. page' \in DraftPage /\ page'.seen = page.seen /\ page'.base = page.base
    BY <2>1, <2>4 DEF DraftPage
  <2>3. \A j \in Keys : page.seen[j] <= page'.seen[j]
    BY <1>1, <1>2, <2>2 DEF DraftPage
  <2> QED BY <1>1, <2>1, <2>2, <2>3, PageMoves
<1>5. ASSUME NEW t, DOMAIN t = DraftFields, Draft!Ask(t), UNCHANGED srv,
             t.key \in Keys, t.version \in 0..MaxVersions, Told(t.base), t.stamp = 0,
             page' \in DraftPage, page'.seen = page.seen, page'.base = page.base
      PROVE  DraftInv'
  <2>1. PICK r : /\ wire' = wire \cup {r} /\ Framed({r}, DraftFields)
                 /\ \A f \in DraftFields : r[f] = t[f]
    BY <1>2, <1>5, DraftAsks
  <2>2. r.key = t.key /\ r.version = t.version /\ r.base = t.base /\ r.stamp = 0
    BY <1>5, <2>1 DEF DraftFields
  <2>3. Told(t.base)' /\ Of(0, t.key)'
    BY <1>2, <1>5 DEF Told, Of
  <2>4. Fits(r)'
    BY <1>5, <2>1, <2>2, <2>3 DEF Fits
  <2>5. \A k \in Keys : page.seen[k] <= page'.seen[k]
    BY <1>1, <1>2, <1>5 DEF DraftPage
  <2> QED BY <1>1, <1>5, <2>1, <2>4, <2>5, PageMoves
<1>6. CASE Draft!DoSave
  <2> DEFINE t == [Draft!Request("save", page.canvas) EXCEPT !.base = page.base]
  <2>1. /\ DOMAIN t = DraftFields /\ t.key \in Keys /\ t.version \in 0..MaxVersions
        /\ t.base = page.base /\ t.stamp = 0
    BY <1>1, <1>2 DEF Draft!Request, DraftFields, DraftPage
  <2>2. Draft!Ask(t) /\ page' = page /\ srv' = srv
    BY <1>6 DEF Draft!DoSave
  <2> HIDE DEF t
  <2> QED BY <1>2, <1>5, <2>1, <2>2
<1>7. CASE Draft!DoPublish
  <2> DEFINE t == [Draft!Request("silent", page.canvas) EXCEPT !.base = page.base]
  <2>1. /\ DOMAIN t = DraftFields /\ t.key \in Keys /\ t.version \in 0..MaxVersions
        /\ t.base = page.base /\ t.stamp = 0
    BY <1>1, <1>2 DEF Draft!Request, DraftFields, DraftPage
  <2>2. Draft!Ask(t) /\ page' = page /\ srv' = srv
    BY <1>7 DEF Draft!DoPublish
  <2> HIDE DEF t
  <2> QED BY <1>2, <1>5, <2>1, <2>2
<1>8. CASE Draft!DoSaveAs
  <2>2. PICK k \in Draft!NewProcessId :
          Draft!Ask(Draft!Request("saveAs", k)) /\ page' = [page EXCEPT !.selected = None] /\ srv' = srv
    BY <1>8 DEF Draft!DoSaveAs
  <2> DEFINE t == Draft!Request("saveAs", k)
  <2>1. k \in Keys
    BY DEF Draft!NewProcessId
  <2>3. /\ DOMAIN t = DraftFields /\ t.key \in Keys /\ t.version \in 0..MaxVersions
        /\ t.base = 0 /\ t.stamp = 0
    BY <1>1, <2>1 DEF Draft!Request, DraftFields
  <2>4. page' \in DraftPage /\ page'.seen = page.seen /\ page'.base = page.base
    BY <1>2, <2>2 DEF DraftPage
  <2>5. Draft!Ask(t) /\ srv' = srv
    BY <2>2
  <2> HIDE DEF t
  <2> QED BY <1>2, <1>5, <2>3, <2>4, <2>5
<1>9. CASE \E k \in Keys, v \in 0..MaxVersions : Draft!LoadDef(k, v)
  <2>1. PICK k \in Keys, v \in 0..MaxVersions : Draft!LoadDef(k, v)
    BY <1>9
  <2> DEFINE t == [Draft!Request("detail", k) EXCEPT !.version = v]
  <2>2. /\ DOMAIN t = DraftFields /\ t.key \in Keys /\ t.version \in 0..MaxVersions
        /\ t.base = 0 /\ t.stamp = 0
    BY DEF Draft!Request, DraftFields
  <2>3. Draft!Ask(t) /\ page' = page /\ srv' = srv
    BY <2>1 DEF Draft!LoadDef
  <2> HIDE DEF t
  <2> QED BY <1>2, <1>5, <2>2, <2>3
<1>10. CASE Draft!LoadDefs
  <2> DEFINE t == Draft!Request("defs", NewKey)
  <2>1. /\ DOMAIN t = DraftFields /\ t.key \in Keys /\ t.version \in 0..MaxVersions
        /\ t.base = 0 /\ t.stamp = 0
    BY <1>1 DEF Draft!Request, DraftFields
  <2>2. Draft!Ask(t) /\ page' = page /\ srv' = srv
    BY <1>10 DEF Draft!LoadDefs
  <2> HIDE DEF t
  <2> QED BY <1>2, <1>5, <2>1, <2>2
<1> QED BY <1>3, <1>4, <1>6, <1>7, <1>8, <1>9, <1>10

\* What an answer does to the page.
LEMMA DraftAnswers ==
  ASSUME Draft!DraftAssumption, DraftInv, NEW r \in wire, Draft!Answer(r)
  PROVE  DraftInv'
<1>1. NewKey \in Keys /\ MaxStamp \in Nat /\ MaxVersions \in Nat
  BY DEF Draft!DraftAssumption
<1>2. /\ page \in DraftPage /\ srv \in DraftServer /\ Told(page.base) /\ Framed(wire, DraftFields)
      /\ Told(0) /\ \A k : Of(0, k)
      /\ Fits(r) /\ r.key \in Keys /\ r.version \in 0..MaxVersions /\ Of(r.stamp, r.key)
      /\ Framed({r}, DraftFields)
      /\ r.stamp \in 0..MaxStamp
  <2>1. Fits(r) /\ srv \in DraftServer
    BY DEF DraftInv
  <2>2. r.stamp \in 0..srv.clock /\ srv.clock \in 0..MaxStamp
    BY <2>1 DEF Fits, Of, DraftServer
  <2>3. r.stamp \in 0..MaxStamp
    BY <1>1, <2>2
  <2> QED BY <1>1, <2>1, <2>3, FramedTogether, NoStamp DEF DraftInv, Fits
<1>3. srv' = srv
  BY DEF Draft!Answer, Draft!DefsLoaded, Draft!DetailAnswer, Draft!Saved, Draft!SavedSilently, Draft!SavedAs,
         Draft!Published, Draft!Overwrite, Draft!LoadLatest
\* The page: what of it changes, and what it knows of its base.
<1> DEFINE Moved == /\ page' \in DraftPage
                    /\ \A k \in Keys : page.seen[k] <= page'.seen[k]
                    /\ page'.base = page.base \/ Told(page.base)'
<1>4. ASSUME page' \in DraftPage, page'.seen = page.seen, page'.base = page.base
      PROVE  Moved
  BY <1>1, <1>2, <1>4 DEF DraftPage
<1>5. ASSUME \A a \in wire' : a \in wire \/ Fits(a)', Moved
      PROVE  DraftInv'
  BY <1>1, <1>3, <1>5, PageMoves
<1>6. ASSUME NEW a, wire' = Draft!Settled(wire, r, a), Fits(a)'
      PROVE  \A b \in wire' : b \in wire \/ Fits(b)'
  BY <1>6, DraftHelpers DEF Settled
<1>7. ASSUME wire' = wire \ {r}
      PROVE  \A b \in wire' : b \in wire \/ Fits(b)'
  BY <1>7
<1>8. ASSUME NEW kind, NEW k \in Keys, NEW v \in 0..MaxVersions,
             wire' = Draft!Settled(wire, r, Draft!Again(r, kind, k, v))
      PROVE  \A b \in wire' : b \in wire \/ Fits(b)'
  <2> DEFINE a == Draft!Again(r, kind, k, v)
  <2>1. Framed({a}, DraftFields) /\ a.key = k /\ a.version = v /\ a.base = 0 /\ a.stamp = 0
    BY <1>2, AgainIs
  <2> HIDE DEF a
  <2>2. Told(0)' /\ Of(0, k)'
    BY <1>2, <1>3 DEF Told, Of
  <2>3. Fits(a)'
    BY <2>1, <2>2 DEF Fits
  <2> QED BY <1>6, <1>8, <2>3 DEF a
<1>17. ASSUME wire' = Draft!ListAgain(r)
       PROVE  \A b \in wire' : b \in wire \/ Fits(b)'
  <2>1. wire' = wire \ {r} \/ wire' = Draft!Settled(wire, r, Draft!Again(r, "defs", r.key, 0))
    BY <1>17 DEF Draft!ListAgain
  <2>2. 0 \in 0..MaxVersions
    BY <1>1
  <2> QED BY <1>2, <1>7, <1>8, <2>1, <2>2
<1>18. CASE Draft!DefsLoaded(r)
  <2> DEFINE listed == IF r.status = "done" THEN Draft!Existing(srv.drafts) ELSE {}
  <2>1. page' = [page EXCEPT !.listed = listed] /\ wire' = wire \ {r}
    BY <1>18 DEF Draft!DefsLoaded
  <2>2. listed \subseteq Keys
    BY DEF Draft!Existing
  <2> HIDE DEF listed
  <2>3. page' \in DraftPage /\ page'.seen = page.seen /\ page'.base = page.base
    BY <1>2, <2>1, <2>2 DEF DraftPage
  <2> QED BY <1>4, <1>5, <1>7, <2>1, <2>3
<1>9. ASSUME page' = Draft!StoredDraft(page, r)
      PROVE  Moved
  <2> DEFINE q == Draft!See(page, r.key, r.stamp)
  <2>1. page' = [q EXCEPT !.selected = r.key, !.base = r.stamp]
    BY <1>9 DEF Draft!StoredDraft
  <2>2. r.stamp \in 0..MaxStamp
    BY <1>2
  <2>3. q \in DraftPage
    BY <1>1, <1>2, <2>2, SeeIs
  <2>4. page' \in DraftPage /\ page'.seen = q.seen /\ page'.base = r.stamp
    <3> HIDE DEF q
    <3> QED BY <1>2, <2>1, <2>2, <2>3 DEF DraftPage
  <2>5. Told(r.stamp)' /\ \A j \in Keys : page.seen[j] <= page'.seen[j]
    BY <1>1, <1>2, <1>3, <2>4, SeenAndStored
  <2>6. Told(page.base)'
    BY <2>4, <2>5 DEF Told
  <2> QED BY <2>4, <2>5, <2>6
<1>10. CASE Draft!Saved(r)
  <2>1. Moved
    <3>1. CASE r.status = "done"
      BY <1>9, <1>10, <3>1 DEF Draft!Saved
    <3>2. CASE r.status # "done"
      BY <1>2, <1>4, <1>10, <3>2 DEF Draft!Saved
    <3> QED BY <3>1, <3>2
  <2>2. wire' = Draft!ListAgain(r)
    BY <1>10 DEF Draft!Saved
  <2> QED BY <1>5, <1>17, <2>1, <2>2
<1>11. CASE Draft!SavedSilently(r)
  <2>1. CASE r.status = "done"
    <3>1. Moved
      BY <1>9, <1>11, <2>1 DEF Draft!SavedSilently
    <3>2. wire' = Draft!Settled(wire, r, Draft!Again(r, "publish", r.key, 0)) /\ 0 \in 0..MaxVersions
      BY <1>1, <1>11, <2>1 DEF Draft!SavedSilently
    <3> QED BY <1>2, <1>5, <1>8, <3>1, <3>2
  <2>2. CASE r.status # "done"
    <3>1. page' = page /\ wire' = wire \ {r}
      BY <1>11, <2>2 DEF Draft!SavedSilently
    <3> QED BY <1>2, <1>4, <1>5, <1>7, <3>1
  <2> QED BY <2>1, <2>2
<1>12. CASE Draft!SavedAs(r)
  <2>1. wire' = Draft!ListAgain(r)
    BY <1>12 DEF Draft!SavedAs
  <2>2. CASE r.status = "done"
    <3> DEFINE q == Draft!See(page, r.key, r.stamp)
               p == [q EXCEPT !.selected = r.key]
    <3>1. page' = [p EXCEPT !.canvas = r.key]
      BY <1>12, <2>2 DEF Draft!SavedAs, Draft!OpenDiagram
    <3>2. r.stamp \in 0..MaxStamp
      BY <1>2
    <3>3. q \in DraftPage /\ q = [page EXCEPT !.seen = q.seen]
      BY <1>1, <1>2, <3>2, SeeIs
    <3>4. q.base = page.base
      <4> HIDE DEF q
      <4> QED BY <1>2, <3>3 DEF DraftPage
    <3>5. p \in DraftPage /\ p.seen = q.seen /\ p.base = q.base
      <4> HIDE DEF q
      <4> QED BY <1>2, <3>3 DEF DraftPage
    <3>6. page' \in DraftPage /\ page'.seen = q.seen /\ page'.base = q.base
      <4> HIDE DEF p
      <4> QED BY <1>2, <3>1, <3>5 DEF DraftPage
    <3>7. \A j \in Keys : page.seen[j] <= page'.seen[j]
      BY <1>1, <1>2, <1>3, <3>6, SeenAndStored
    <3> QED BY <1>5, <1>17, <2>1, <3>4, <3>6, <3>7
  <2>3. CASE r.status # "done"
    <3>1. page' = page
      BY <1>12, <2>3 DEF Draft!SavedAs
    <3> QED BY <1>2, <1>4, <1>5, <1>17, <2>1, <3>1
  <2> QED BY <2>2, <2>3
<1>13. CASE Draft!Published(r)
  <2>1. wire' = Draft!ListAgain(r)
    BY <1>13 DEF Draft!Published
  <2>2. page' \in DraftPage /\ page'.seen = page.seen /\ page'.base = page.base
    BY <1>2, <1>13 DEF Draft!Published, DraftPage
  <2> QED BY <1>4, <1>5, <1>17, <2>1, <2>2
<1>14. CASE Draft!Overwrite(r)
  <2> DEFINE p == [page EXCEPT !.base = r.stamp]
  <2>10. PICK a : a = Resent(r, page.canvas, r.stamp)
    OBVIOUS
  <2>1. page' = Draft!See(p, r.key, r.stamp) /\ wire' = Draft!Settled(wire, r, a)
    BY <1>14, <2>10 DEF Draft!Overwrite, Resent
  <2>2. r.stamp \in 0..MaxStamp
    BY <1>2
  <2>3. p \in DraftPage /\ p.seen = page.seen /\ p.base = r.stamp
    BY <1>2, <2>2 DEF DraftPage
  <2> HIDE DEF p
  <2>4. /\ page' \in DraftPage /\ page' = [p EXCEPT !.seen = page'.seen] /\ Told(r.stamp)'
        /\ \A j \in Keys : page.seen[j] <= page'.seen[j]
    BY <1>1, <1>2, <1>3, <2>1, <2>3, SeenAndStored
  <2>5. page'.base = r.stamp
    BY <2>3, <2>4 DEF DraftPage
  <2>6. Told(page.base)'
    BY <2>4, <2>5 DEF Told
  <2>7. /\ Framed({a}, DraftFields) /\ a.key = page.canvas /\ a.version = r.version
        /\ a.base = r.stamp /\ a.stamp = 0
    BY <1>2, <2>10, WithKey
  <2>8. Of(0, page.canvas)' /\ page.canvas \in Keys
    BY <1>2, <1>3 DEF Of, DraftPage
  <2>9. Fits(a)'
    <3>1. Told(a.base)' /\ Of(a.stamp, a.key)'
      BY <2>4, <2>7, <2>8 DEF Told, Of
    <3> QED BY <1>2, <2>7, <2>8, <3>1 DEF Fits
  <2> QED BY <1>5, <1>6, <2>1, <2>4, <2>6, <2>9
<1>15. CASE Draft!LoadLatest(r)
  <2>1. page' = page
    BY <1>15 DEF Draft!LoadLatest
  <2>2. Moved
    BY <1>2, <1>4, <2>1
  <2>3. CASE page.selected = None
    BY <1>5, <1>7, <1>15, <2>2, <2>3 DEF Draft!LoadLatest
  <2>4. CASE page.selected # None
    <3>1. page.selected \in Keys /\ Draft!DefVersion(page.selected) \in 0..MaxVersions
      BY <1>2, <2>4 DEF DraftPage, DraftServer, Draft!DefVersion
    <3>2. wire' = Draft!Settled(wire, r, Draft!Again(r, "detail", page.selected, Draft!DefVersion(page.selected)))
      BY <1>15, <2>4 DEF Draft!LoadLatest
    <3> QED BY <1>5, <1>8, <2>2, <3>1, <3>2
  <2> QED BY <2>3, <2>4
<1>16. CASE Draft!DetailAnswer(r)
  <2>1. wire' = wire \ {r}
    BY <1>16 DEF Draft!DetailAnswer
  <2>2. CASE r.status = "failed"
    <3>1. page' = page
      BY <1>16, <2>2 DEF Draft!DetailAnswer
    <3> QED BY <1>2, <1>4, <1>5, <1>7, <2>1, <3>1
  <2>3. CASE r.status # "failed"
    <3> DEFINE p0 == [page EXCEPT !.selected = r.key, !.shown = r.version]
               p == [p0 EXCEPT !.canvas = r.key]
               q == Draft!See(p, r.key, r.stamp)
    <3>1. page' = IF r.version = 0 THEN [q EXCEPT !.collab = r.key, !.base = r.stamp] ELSE [p EXCEPT !.collab = None]
      BY <1>16, <2>3 DEF Draft!DetailAnswer, Draft!OpenDiagram, Draft!StartCollab, Draft!StopCollab
    <3>2. p0 \in DraftPage /\ p0.seen = page.seen /\ p0.base = page.base
      BY <1>2 DEF DraftPage
    <3>3. p \in DraftPage /\ p.seen = page.seen /\ p.base = page.base
      <4> HIDE DEF p0
      <4> QED BY <1>2, <3>2 DEF DraftPage
    <3> HIDE DEF p
    <3>4. CASE r.version # 0
      <4>1. page' \in DraftPage /\ page'.seen = page.seen /\ page'.base = page.base
        BY <3>1, <3>3, <3>4 DEF DraftPage
      <4> QED BY <1>4, <1>5, <1>7, <2>1, <4>1
    <3>5. CASE r.version = 0
      <4>1. r.stamp \in 0..MaxStamp
        BY <1>2
      <4>2. q \in DraftPage
        BY <1>1, <1>2, <3>3, <4>1, SeeIs
      <4>3. page' \in DraftPage /\ page'.seen = q.seen /\ page'.base = r.stamp
        <5> HIDE DEF q
        <5> QED BY <1>2, <3>1, <3>5, <4>1, <4>2 DEF DraftPage
      <4>4. Told(r.stamp)' /\ \A j \in Keys : page.seen[j] <= page'.seen[j]
        BY <1>1, <1>2, <1>3, <3>3, <4>3, SeenAndStored
      <4>5. Told(page.base)'
        BY <4>3, <4>4 DEF Told
      <4> QED BY <1>5, <1>7, <2>1, <4>3, <4>4, <4>5
    <3> QED BY <3>4, <3>5
  <2> QED BY <2>2, <2>3
<1> QED BY <1>10, <1>11, <1>12, <1>13, <1>14, <1>15, <1>16, <1>18 DEF Draft!Answer

\* What the service does, for the page and for others.
LEMMA DraftService ==
  ASSUME Draft!DraftAssumption, DraftInv,
         \/ \E r \in wire : Draft!Serve(r) \/ Draft!TellConflict(r) \/ Draft!Refuse(r)
         \/ \E k \in Keys : Draft!OtherSave(k)
  PROVE  DraftInv'
<1>1. MaxStamp \in Nat /\ MaxVersions \in Nat
  BY DEF Draft!DraftAssumption
<1>2. page \in DraftPage /\ srv \in DraftServer /\ Told(page.base) /\ StampsDiffer
  BY DEF DraftInv
<1>3. page' = page
  BY DEF Draft!Serve, Draft!TellConflict, Draft!Refuse, Draft!OtherSave
<1>4. ASSUME NEW k \in Keys, Draft!OtherSave(k)
      PROVE  DraftInv'
  <2>1. srv' = Draft!Store(k) /\ srv.clock < MaxStamp /\ wire' = wire
    BY <1>4 DEF Draft!OtherSave
  <2>2. srv' \in DraftServer /\ StampsDiffer' /\ Told(page.base)' /\ \A r \in wire : Fits(r)'
    BY <1>1, <1>3, <2>1, StoreKeeps
  <2> QED BY <1>2, <1>3, <2>1, <2>2 DEF DraftInv
<1>5. ASSUME NEW r \in wire, Draft!Serve(r)
      PROVE  DraftInv'
  <2>1. r.key \in Keys /\ r.version \in 0..MaxVersions /\ Framed({r}, DraftFields) /\ Told(r.base)
    BY DEF DraftInv, Fits
  <2>2. srv' = Draft!Effect(r) /\ Draft!Accepts(r)
    BY <1>5 DEF Draft!Serve
  <2>3. /\ srv' \in DraftServer /\ StampsDiffer' /\ Told(page.base)'
        /\ \A q \in wire : Fits(q)'
    <3>1. CASE Draft!Effect(r) = Draft!Store(r.key) /\ srv.clock < MaxStamp
      BY <1>1, <1>3, <2>1, <2>2, <3>1, StoreKeeps
    <3>2. CASE /\ Draft!Effect(r) = [srv EXCEPT !.versions[r.key] = @ + 1]
               /\ srv.versions[r.key] < MaxVersions
      BY <1>1, <1>3, <2>1, <2>2, <3>2, PublishKeeps
    <3>3. CASE Draft!Effect(r) = srv
      <4>1. srv' = srv
        BY <2>2, <3>3
      <4> QED BY <1>2, <1>3, <4>1 DEF DraftInv, Fits, Told, Of, StampsDiffer
    <3> QED BY <2>2, <3>1, <3>2, <3>3, EffectIs
  <2>4. Of(srv.drafts[r.key], r.key)' /\ srv'.versions[r.key] \in 0..MaxVersions
    <3>1. Of(srv.drafts[r.key], r.key)'
      BY <1>1, <2>1, <2>3 DEF Of, StampsDiffer, DraftServer
    <3> QED BY <2>1, <2>3, <3>1 DEF DraftServer
  <2>5. PICK v, t : /\ v = (IF r.kind = "publish" THEN srv'.versions[r.key] ELSE r.version)
                    /\ t = srv'.drafts[r.key]
    OBVIOUS
  <2>7. PICK a : a = Answered(r, "done", t, v)
    OBVIOUS
  <2>6. wire' = Settled(wire, r, a)
    BY <1>5, <2>5, <2>7, DraftHelpers DEF Draft!Serve, Answered
  <2>8. /\ Framed({a}, DraftFields) /\ a.key = r.key /\ a.version = v
        /\ a.base = r.base /\ a.stamp = t
    BY <2>1, <2>5, <2>7, WithStamp
  <2>9. v \in 0..MaxVersions
    BY <2>1, <2>4, <2>5
  <2>10. Told(r.base)' /\ Of(t, r.key)'
    BY <2>3, <2>4, <2>5 DEF Fits, Of
  <2>11. Fits(a)'
    <3>1. Told(a.base)' /\ Of(a.stamp, a.key)'
      BY <2>8, <2>10 DEF Told, Of
    <3> QED BY <2>1, <2>8, <2>9, <3>1 DEF Fits
  <2> QED BY <1>2, <1>3, <2>3, <2>6, <2>11 DEF DraftInv, Settled
<1>6. ASSUME NEW r \in wire, Draft!TellConflict(r)
      PROVE  DraftInv'
  <2>1. r.key \in Keys /\ r.version \in 0..MaxVersions /\ Framed({r}, DraftFields) /\ Told(r.base)
    BY DEF DraftInv, Fits
  <2>2. PICK s, t : s = (IF r.kind = "save" THEN "conflict" ELSE "failed") /\ t = srv.drafts[r.key]
    OBVIOUS
  <2>3. PICK a : a = Warned(r, s, t)
    OBVIOUS
  <2>4. wire' = Settled(wire, r, a) /\ srv' = srv
    BY <1>6, <2>2, <2>3, DraftHelpers DEF Draft!TellConflict, Warned
  <2>5. /\ Framed({a}, DraftFields) /\ a.key = r.key /\ a.version = r.version
        /\ a.base = r.base /\ a.stamp = t
    BY <2>1, <2>3, WithDraft
  <2>6. Of(t, r.key)
    BY <1>1, <1>2, <2>1, <2>2, NewestIsOf
  <2>7. Fits(a)'
    <3>1. Told(a.base)' /\ Of(a.stamp, a.key)'
      BY <1>3, <2>1, <2>4, <2>5, <2>6 DEF Told, Of
    <3> QED BY <2>1, <2>5, <3>1 DEF Fits
  <2>8. \A k \in Keys : page.seen[k] <= page'.seen[k]
    BY <1>1, <1>2, <1>3 DEF DraftPage
  <2> QED BY <1>1, <1>2, <1>3, <2>4, <2>7, <2>8, PageMoves DEF Settled
<1>7. ASSUME NEW r \in wire, Draft!Refuse(r)
      PROVE  DraftInv'
  <2>1. r.key \in Keys /\ r.version \in 0..MaxVersions /\ Framed({r}, DraftFields) /\ Told(r.base) /\ Of(r.stamp, r.key)
    BY DEF DraftInv, Fits
  <2>2. PICK a : a = [r EXCEPT !.status = "failed"]
    OBVIOUS
  <2>3. wire' = Settled(wire, r, a) /\ srv' = srv
    BY <1>7, <2>2, DraftHelpers DEF Draft!Refuse, Draft!Refused, Refused, Draft!Settled, Settled
  <2>4. SameBut(a, r, "failed") /\ DOMAIN r = DraftFields \cup {"n", "status"}
    BY <2>1, <2>2, AnswerIs
  <2>5. Framed({a}, DraftFields) /\ a.key = r.key /\ a.version = r.version /\ a.base = r.base /\ a.stamp = r.stamp
    BY <2>4 DEF SameBut, Framed, DraftFields
  <2>6. Fits(a)'
    <3>1. Told(a.base)' /\ Of(a.stamp, a.key)'
      BY <1>3, <2>1, <2>3, <2>5 DEF Told, Of
    <3> QED BY <2>1, <2>5, <3>1 DEF Fits
  <2>7. \A k \in Keys : page.seen[k] <= page'.seen[k]
    BY <1>1, <1>2, <1>3 DEF DraftPage
  <2> QED BY <1>1, <1>2, <1>3, <2>3, <2>6, <2>7, PageMoves DEF Settled
<1> QED BY <1>4, <1>5, <1>6, <1>7

-----------------------------------------------------------------------------
(* Drafts: the theorems.                                                   *)

\* The strengthening: the state keeps to its types, no two definitions have a
\* draft of the same stamp, and the base of the page, and of every save on the
\* way, is of a draft the page has seen.
THEOREM DraftInvariance ==
  ASSUME Draft!DraftAssumption
  PROVE  Draft!Spec => []DraftInv
<1>1. Draft!Init => DraftInv
  <2> SUFFICES ASSUME Draft!Init PROVE DraftInv
    OBVIOUS
  <2>1. /\ NewKey \in Keys /\ MaxStamp \in Nat /\ MaxVersions \in Nat /\ Began \in 0..MaxStamp
        /\ Stored \in [Keys -> 0..Began]
        /\ \A j, k \in Keys : Stored[j] = Stored[k] /\ j # k => Stored[j] = 0
    BY DEF Draft!DraftAssumption
  <2>2. PICK shown \in {{}, Draft!Existing(Stored)} :
        /\ page = [selected |-> None, canvas |-> NewKey, shown |-> 0, base |-> 0,
                   collab |-> None, seen |-> [k \in Keys |-> 0], listed |-> shown]
        /\ wire = {}
        /\ srv = [clock |-> Began, drafts |-> Stored, versions |-> [k \in Keys |-> 0]]
    BY DEF Draft!Init
  <2>3. 0 \in 0..MaxVersions /\ 0 \in 0..MaxStamp /\ 0..Began \subseteq 0..MaxStamp
    BY <2>1
  <2>8. shown \subseteq Keys
    BY <2>2 DEF Draft!Existing
  <2>4. page \in DraftPage
    BY <2>1, <2>2, <2>3, <2>8 DEF DraftPage
  <2>5. srv \in DraftServer
    <3>1. [k \in Keys |-> 0] \in [Keys -> 0..MaxVersions] /\ Stored \in [Keys -> 0..MaxStamp]
      BY <2>1, <2>3
    <3> QED BY <2>1, <2>2, <3>1 DEF DraftServer
  <2>6. StampsDiffer
    BY <2>1, <2>2 DEF StampsDiffer
  <2>7. page.base = 0
    BY <2>2
  <2> QED BY <2>1, <2>2, <2>4, <2>5, <2>6, <2>7, NoStamp DEF DraftInv
<1>2. DraftInv /\ [Draft!Next]_Draft!vars => DraftInv'
  <2> SUFFICES ASSUME DraftInv, [Draft!Next]_Draft!vars PROVE DraftInv'
    OBVIOUS
  <2>1. CASE \/ Draft!LoadDefs \/ Draft!NewDiagram \/ Draft!DoSave \/ Draft!DoPublish \/ Draft!DoSaveAs
             \/ \E k \in Keys : Draft!DoImport(k)
             \/ \E k \in Keys, v \in 0..MaxVersions : Draft!LoadDef(k, v)
    BY <2>1, DraftEdits
  <2>2. CASE \E r \in wire : Draft!Answer(r)
    BY <2>2, DraftAnswers
  <2>3. CASE \/ \E r \in wire : Draft!Serve(r) \/ Draft!TellConflict(r) \/ Draft!Refuse(r)
             \/ \E k \in Keys : Draft!OtherSave(k)
    BY <2>3, DraftService
  <2>4. CASE UNCHANGED Draft!vars
    BY <2>4 DEF Draft!vars, DraftInv, Fits, Told, Of, StampsDiffer
  <2> QED BY <2>1, <2>2, <2>3, <2>4 DEF Draft!Next
<1> QED BY <1>1, <1>2, PTL DEF Draft!Spec

\* The state of the process designer keeps to its types.
THEOREM DraftTyped ==
  ASSUME Draft!DraftAssumption
  PROVE  Draft!Spec => []Draft!TypeOK
<1>1. DraftInv => Draft!TypeOK
  <2>1. ASSUME srv \in DraftServer
        PROVE  srv.drafts \in [Keys -> 0..srv.clock] /\ srv.clock \in 0..MaxStamp
    BY <2>1 DEF DraftServer
  <2> QED BY <2>1 DEF DraftInv, DraftPage, Draft!TypeOK
<1> QED BY <1>1, DraftInvariance, PTL

\* A save that carries a base replaces a draft only when it is the one the page
\* has loaded, stored, or chosen to overwrite (definition-workbench.js, doSave
\* and resolveConflict): the base is of a draft the page has seen, and the
\* service turns down every other base.
THEOREM DraftNeverBlind ==
  ASSUME Draft!DraftAssumption
  PROVE  Draft!Spec => Draft!NoBlindOverwrite
<1>1. DraftInv => Draft!NoBlindOverwriteStep
  <2> SUFFICES ASSUME DraftInv, NEW r \in wire, r.kind \in {"save", "silent"},
                      r.base # 0, srv.drafts[r.key] # 0, Draft!Serve(r)
               PROVE  srv.drafts[r.key] = r.base /\ r.base <= page.seen[r.key]
    BY DEF Draft!NoBlindOverwriteStep
  <2>1. srv.drafts[r.key] = r.base
    BY DEF Draft!Serve, Draft!Conflict
  <2>2. Told(r.base) /\ r.key \in Keys
    BY DEF DraftInv, Fits
  <2> QED BY <2>1, <2>2 DEF Told
<1>2. DraftInv => [Draft!NoBlindOverwriteStep]_Draft!vars
  BY <1>1
<1> QED BY <1>2, DraftInvariance, PTL DEF Draft!NoBlindOverwrite

-----------------------------------------------------------------------------
(* The form of a task, and the one a process is started with: their state.  *)

Task == INSTANCE FlowTask WITH MaxChanges <- MaxActs

\* What FlowTask sends and settles is what PageRequests says.
LEMMA TaskWords ==
  /\ \A w, max, s : Task!Sent(w, max, s) = Sent(w, max, s)
  /\ \A w, r, a : Task!Settled(w, r, a) = Settled(w, r, a)
BY DEF Task!Sent, Sent, Task!FreeNumber, FreeNumber, Task!Min, Min, Task!Settled, Settled

TaskNodes == Targets \cup {None}

TaskForm ==
  [loading : BOOLEAN, loaded : BOOLEAN, error : BOOLEAN, busy : BOOLEAN,
   submitted : BOOLEAN, failed : BOOLEAN, tab : {"handle", "trail"}, menu : BOOLEAN,
   pending : Task!Kinds, comment : BOOLEAN, target : TaskNodes, label : TaskNodes,
   targets : SUBSET Targets, asked : BOOLEAN, picking : BOOLEAN]

StartForm == [of : StartDefs \cup {None}, busy : BOOLEAN, filled : BOOLEAN]

TaskPage == {"task", "start", "open", "closing", "changes"}

\* The page and the service have their fields, the forms their types.
TaskPageOK(p) ==
  /\ p = [f \in TaskPage |-> p[f]]
  /\ p.task \in TaskForm
  /\ p.start \in StartForm

TaskShape ==
  /\ TaskPageOK(page)
  /\ srv = [f \in {"handled", "started"} |-> srv[f]]
  /\ srv.handled \in Task!Kinds \cup {"no"}

\* Drawing the form touches nothing but the name on its button.
LEMMA DrawnForm ==
  ASSUME NEW t \in TaskForm
  PROVE  /\ Task!Drawn(t) \in TaskForm
         /\ Task!Drawn(t).busy = t.busy /\ Task!Drawn(t).submitted = t.submitted
BY DEF Task!Drawn, TaskForm, TaskNodes

\* The page with another form in it.
LEMMA WithTask ==
  ASSUME NEW p, TaskPageOK(p), NEW t \in TaskForm
  PROVE  LET q == [p EXCEPT !.task = t]
         IN  /\ TaskPageOK(q) /\ q.task = t
             /\ q.open = p.open /\ q.closing = p.closing
BY DEF TaskPageOK, TaskPage

\* Counting a change.
LEMMA TaskCounted ==
  ASSUME NEW p, TaskPageOK(p)
  PROVE  /\ TaskPageOK(Task!Counted(p)) /\ Task!Counted(p).task = p.task
         /\ Task!Counted(p).open = p.open /\ Task!Counted(p).closing = p.closing
BY DEF TaskPageOK, TaskPage, Task!Counted

\* The tab the form believes to be its own.
OwnTab == <<"flow-task", "task">>

\* What a user does to the form before it is sent, and what the answers to
\* its questions change.
FormStep ==
  /\ page'.task.busy = page.task.busy
  /\ page'.task.submitted = page.task.submitted
  /\ OwnTab \in page'.open =>
       OwnTab \in page.open /\ (OwnTab \in page.closing => OwnTab \in page'.closing)

\* The form t replaces the one of the page, drawn anew and counted or not.
LEMMA FormReplaced ==
  ASSUME TaskShape, NEW t \in TaskForm,
         t.busy = page.task.busy, t.submitted = page.task.submitted,
         \/ page' = [page EXCEPT !.task = Task!Drawn(t)]
         \/ page' = [Task!Counted(page) EXCEPT !.task = Task!Drawn(t)]
         \/ page' = [Task!Counted(page) EXCEPT !.task = t]
  PROVE  TaskPageOK(page') /\ FormStep
<1>1. TaskPageOK(page) /\ TaskPageOK(Task!Counted(page))
  BY TaskCounted DEF TaskShape
<1>2. /\ Task!Drawn(t) \in TaskForm
      /\ Task!Drawn(t).busy = t.busy /\ Task!Drawn(t).submitted = t.submitted
  BY DrawnForm
<1>3. CASE page' = [page EXCEPT !.task = Task!Drawn(t)]
  BY <1>1, <1>2, <1>3, WithTask DEF FormStep
<1>4. CASE page' = [Task!Counted(page) EXCEPT !.task = Task!Drawn(t)]
  BY <1>1, <1>2, <1>4, WithTask, TaskCounted DEF FormStep
<1>5. CASE page' = [Task!Counted(page) EXCEPT !.task = t]
  BY <1>1, <1>5, WithTask, TaskCounted DEF FormStep
<1> QED BY <1>3, <1>4, <1>5

-----------------------------------------------------------------------------
(* The steps of the form that send no answer to the task.                  *)

\* What the user does by himself.
LEMMA TaskUserSteps ==
  ASSUME TaskShape,
         \/ Task!ToggleMenu \/ Task!CancelAction \/ Task!TypeComment
         \/ \E tab \in {"handle", "trail"} : Task!ShowTab(tab)
         \/ \E n \in Targets : Task!PickTarget(n)
  PROVE  TaskPageOK(page') /\ FormStep /\ UNCHANGED <<wire, srv>>
<1> USE DEF Task!Do, Task!Quiet
<1>1. page.task \in TaskForm
  BY DEF TaskShape, TaskPageOK
<1>2. CASE Task!ToggleMenu
  <2> DEFINE t == [page.task EXCEPT !.menu = ~@]
  <2>1. t \in TaskForm /\ t.busy = page.task.busy /\ t.submitted = page.task.submitted
    BY <1>1 DEF TaskForm
  <2>2. page' = [Task!Counted(page) EXCEPT !.task = Task!Drawn(t)]
    BY <1>2 DEF Task!ToggleMenu
  <2> QED BY <1>2, <2>1, <2>2, FormReplaced DEF Task!ToggleMenu
<1>3. CASE Task!CancelAction
  <2> DEFINE t == [page.task EXCEPT !.pending = "approve", !.failed = FALSE, !.target = None]
  <2>1. t \in TaskForm /\ t.busy = page.task.busy /\ t.submitted = page.task.submitted
    BY <1>1 DEF TaskForm, Task!Kinds, TaskNodes
  <2>2. page' = [Task!Counted(page) EXCEPT !.task = Task!Drawn(t)]
    BY <1>3 DEF Task!CancelAction
  <2> QED BY <1>3, <2>1, <2>2, FormReplaced DEF Task!CancelAction
<1>4. CASE Task!TypeComment
  <2> DEFINE t == [page.task EXCEPT !.comment = TRUE, !.failed = FALSE]
  <2>1. t \in TaskForm /\ t.busy = page.task.busy /\ t.submitted = page.task.submitted
    BY <1>1 DEF TaskForm
  <2>2. page' = [Task!Counted(page) EXCEPT !.task = t]
    <3>1. TaskPageOK(Task!Counted(page)) /\ Task!Counted(page).task = page.task
      BY TaskCounted DEF TaskShape
    <3> QED BY <1>4, <3>1 DEF Task!TypeComment, TaskPageOK, TaskPage
  <2> QED BY <1>4, <2>1, <2>2, FormReplaced DEF Task!TypeComment
<1>5. ASSUME NEW tab \in {"handle", "trail"}, Task!ShowTab(tab)
      PROVE  TaskPageOK(page') /\ FormStep /\ UNCHANGED <<wire, srv>>
  <2> DEFINE t == [page.task EXCEPT !.tab = tab]
  <2>1. t \in TaskForm /\ t.busy = page.task.busy /\ t.submitted = page.task.submitted
    BY <1>1 DEF TaskForm
  <2>2. page' = [Task!Counted(page) EXCEPT !.task = Task!Drawn(t)]
    BY <1>5 DEF Task!ShowTab
  <2> QED BY <1>5, <2>1, <2>2, FormReplaced DEF Task!ShowTab
<1>6. ASSUME NEW n \in Targets, Task!PickTarget(n)
      PROVE  TaskPageOK(page') /\ FormStep /\ UNCHANGED <<wire, srv>>
  <2> DEFINE t == [page.task EXCEPT !.target = n, !.failed = FALSE]
  <2>1. t \in TaskForm /\ t.busy = page.task.busy /\ t.submitted = page.task.submitted
    BY <1>1 DEF TaskForm, TaskNodes
  <2>2. page' = [Task!Counted(page) EXCEPT !.task = t]
    <3>1. TaskPageOK(Task!Counted(page)) /\ Task!Counted(page).task = page.task
      BY TaskCounted DEF TaskShape
    <3> QED BY <1>6, <3>1 DEF Task!PickTarget, TaskPageOK, TaskPage
  <2> QED BY <1>6, <2>1, <2>2, FormReplaced DEF Task!PickTarget
<1> QED BY <1>2, <1>3, <1>4, <1>5, <1>6

\* A question other than the answer to the task goes out.
TaskAsks ==
  \E kind \in {"load", "targets", "start"} : \E of, act, reason :
    wire' = Task!Sent(wire, MaxWire, Task!Ask(kind, of, act, reason))

\* What may put a question to the service.
LEMMA TaskAskingSteps ==
  ASSUME TaskShape, Task!Reload \/ \E a \in Task!Kinds : Task!ChooseAction(a)
  PROVE  TaskPageOK(page') /\ FormStep /\ (wire' = wire \/ TaskAsks) /\ UNCHANGED srv
<1> USE DEF Task!Do, Task!Quiet
<1>1. page.task \in TaskForm
  BY DEF TaskShape, TaskPageOK
<1>2. CASE Task!Reload
  <2> DEFINE t == [page.task EXCEPT !.loading = TRUE, !.error = FALSE]
  <2>1. t \in TaskForm /\ t.busy = page.task.busy /\ t.submitted = page.task.submitted
    BY <1>1 DEF TaskForm
  <2>2. page' = [Task!Counted(page) EXCEPT !.task = Task!Drawn(t)]
    BY <1>2 DEF Task!Reload
  <2>3. TaskAsks /\ UNCHANGED srv
    BY <1>2 DEF Task!Reload, TaskAsks
  <2> QED BY <2>1, <2>2, <2>3, FormReplaced
<1>3. ASSUME NEW a \in Task!Kinds, Task!ChooseAction(a)
      PROVE  TaskPageOK(page') /\ FormStep /\ (wire' = wire \/ TaskAsks) /\ UNCHANGED srv
  <2> DEFINE t == [page.task EXCEPT !.menu = FALSE, !.pending = a, !.failed = FALSE]
             p == [t EXCEPT !.picking = TRUE]
  <2>1. t \in TaskForm /\ t.busy = page.task.busy /\ t.submitted = page.task.submitted
    BY <1>1 DEF TaskForm
  <2>2. p \in TaskForm /\ p.busy = page.task.busy /\ p.submitted = page.task.submitted
    BY <2>1 DEF TaskForm
  <2>3. \/ page' = [Task!Counted(page) EXCEPT !.task = Task!Drawn(t)] /\ UNCHANGED <<wire, srv>>
        \/ Task!OpenReturnPicker(t)
    BY <1>3 DEF Task!ChooseAction
  <2> HIDE DEF t
  <2>4. CASE page' = [Task!Counted(page) EXCEPT !.task = Task!Drawn(t)] /\ UNCHANGED <<wire, srv>>
    BY <2>1, <2>4, FormReplaced
  <2>5. CASE Task!OpenReturnPicker(t) /\ t.asked
    BY <2>1, <2>5, FormReplaced DEF Task!OpenReturnPicker
  <2>6. CASE Task!OpenReturnPicker(t) /\ ~t.asked
    <3>1. page' = [Task!Counted(page) EXCEPT !.task = Task!Drawn(p)] /\ TaskAsks /\ UNCHANGED srv
      BY <2>6 DEF Task!OpenReturnPicker, TaskAsks
    <3> QED BY <2>2, <3>1, FormReplaced
  <2> QED BY <2>3, <2>4, <2>5, <2>6
<1> QED BY <1>2, <1>3

\* Tabs and start forms.
LEMMA TaskStartSteps ==
  ASSUME TaskShape,
         \/ \E tab \in page.closing : Task!CloseSelf(tab)
         \/ \E d \in StartDefs : Task!OpenStart(d) \/ Task!FillIn(d) \/ Task!SubmitStart(d)
  PROVE  TaskPageOK(page') /\ FormStep /\ (wire' = wire \/ TaskAsks) /\ UNCHANGED srv
<1> USE DEF Task!Quiet, TaskPageOK, TaskPage, FormStep
<1>1. TaskPageOK(page)
  BY DEF TaskShape
<1>2. /\ TaskPageOK(Task!Counted(page)) /\ Task!Counted(page).task = page.task
      /\ Task!Counted(page).open = page.open /\ Task!Counted(page).closing = page.closing
  BY <1>1, TaskCounted
<1>3. ASSUME NEW tab \in page.closing, Task!CloseSelf(tab)
      PROVE  TaskPageOK(page') /\ FormStep /\ UNCHANGED <<wire, srv>>
  <2>1. /\ page' = [page EXCEPT !.open = page.open \ {tab}, !.closing = page.closing \ {tab}]
        /\ UNCHANGED <<wire, srv>>
    BY <1>3 DEF Task!CloseSelf
  <2> QED BY <1>1, <2>1
<1> HIDE DEF Task!Counted
<1>4. ASSUME NEW d \in StartDefs, Task!OpenStart(d)
      PROVE  TaskPageOK(page') /\ FormStep /\ UNCHANGED <<wire, srv>>
  <2> DEFINE c == Task!Counted(page)
  <2>1. /\ page' = [c EXCEPT !.start.of = d, !.open = c.open \cup {Task!StartNode(d)}]
        /\ UNCHANGED <<wire, srv>>
    BY <1>4 DEF Task!OpenStart
  <2>2. TaskPageOK(page')
    BY <1>2, <2>1 DEF StartForm
  <2>3. FormStep
    BY <1>2, <2>1 DEF Task!StartNode, OwnTab
  <2> QED BY <2>1, <2>2, <2>3
<1>5. ASSUME NEW d \in StartDefs, Task!FillIn(d)
      PROVE  TaskPageOK(page') /\ FormStep /\ UNCHANGED <<wire, srv>>
  BY <1>2, <1>5 DEF Task!FillIn, StartForm
<1>6. ASSUME NEW d \in StartDefs, Task!SubmitStart(d)
      PROVE  TaskPageOK(page') /\ FormStep /\ TaskAsks /\ UNCHANGED srv
  BY <1>2, <1>6 DEF Task!SubmitStart, StartForm, TaskAsks
<1> QED BY <1>3, <1>4, <1>5, <1>6

\* The answers to the questions of the page; the one to the task is apart.
LEMMA TaskOtherAnswers ==
  ASSUME TaskShape, Task!TaskAssumption, NEW r \in wire,
         Task!LoadAnswer(r) \/ Task!TargetsAnswer(r) \/ Task!StartAnswer(r)
  PROVE  /\ TaskPageOK(page') /\ FormStep
         /\ r.kind # "submit" /\ wire' = wire \ {r} /\ UNCHANGED srv
<1>1. page.task \in TaskForm /\ TaskPageOK(page)
  BY DEF TaskShape, TaskPageOK
<1>2. CASE Task!LoadAnswer(r)
  <2> DEFINE t == [page.task EXCEPT !.loading = FALSE, !.loaded = r.status = "done",
                                    !.error = r.status = "failed"]
  <2>1. t \in TaskForm /\ t.busy = page.task.busy /\ t.submitted = page.task.submitted
    BY <1>1 DEF TaskForm
  <2>2. page' = [page EXCEPT !.task = Task!Drawn(t)]
    BY <1>2 DEF Task!LoadAnswer
  <2> QED BY <1>2, <2>1, <2>2, FormReplaced DEF Task!LoadAnswer
<1>3. CASE Task!TargetsAnswer(r)
  <2> DEFINE t == [page.task EXCEPT
                     !.picking = FALSE, !.asked = TRUE,
                     !.targets = IF r.status = "done" THEN Targets ELSE {},
                     !.target = IF r.status = "done" THEN Direct ELSE None]
  <2>1. t \in TaskForm /\ t.busy = page.task.busy /\ t.submitted = page.task.submitted
    BY <1>1 DEF TaskForm, Task!TaskAssumption, TaskNodes
  <2>2. page' = [page EXCEPT !.task = Task!Drawn(t)]
    BY <1>3 DEF Task!TargetsAnswer
  <2> QED BY <1>3, <2>1, <2>2, FormReplaced DEF Task!TargetsAnswer
<1>4. CASE Task!StartAnswer(r)
  <2>1. \/ page' = [page EXCEPT !.start.busy = FALSE]
        \/ page' = [page EXCEPT !.closing = page.closing \cup {<<"flow-task", r.of>>}]
    BY <1>4 DEF Task!StartAnswer
  <2>2. TaskPageOK(page') /\ FormStep
    BY <1>1, <2>1 DEF TaskPageOK, TaskPage, StartForm, FormStep
  <2> QED BY <1>4, <2>2 DEF Task!StartAnswer
<1> QED BY <1>2, <1>3, <1>4

-----------------------------------------------------------------------------
(* The answer to the task.                                                 *)

\* The button: an incomplete answer marks the form, a complete one goes out
\* and the form is busy.
LEMMA TaskSubmitSteps ==
  ASSUME TaskShape, Task!SubmitApproval
  PROVE  /\ TaskPageOK(page') /\ UNCHANGED srv
         /\ \/ FormStep /\ wire' = wire
            \/ /\ ~page.task.busy /\ page'.task.busy
               /\ page'.task.submitted = page.task.submitted
               /\ page'.open = page.open /\ page'.closing = page.closing
               /\ Task!ValidateApproval(page.task)
               /\ \E of : wire' = Task!Sent(wire, MaxWire, Task!Ask("submit", of, page.task.pending,
                                                         page.task.comment))
<1>1. page.task \in TaskForm /\ TaskPageOK(page)
  BY DEF TaskShape, TaskPageOK
<1>2. CASE ~Task!ValidateApproval(page.task)
  <2> DEFINE t == [page.task EXCEPT !.failed = TRUE]
  <2>1. t \in TaskForm /\ t.busy = page.task.busy /\ t.submitted = page.task.submitted
    BY <1>1 DEF TaskForm
  <2>2. page' = [page EXCEPT !.task = Task!Drawn(t)] /\ UNCHANGED <<wire, srv>>
    BY <1>2 DEF Task!SubmitApproval, Task!Quiet
  <2> QED BY <2>1, <2>2, FormReplaced
<1>3. CASE Task!ValidateApproval(page.task)
  <2> DEFINE t == [page.task EXCEPT !.busy = TRUE, !.failed = FALSE]
             of == IF page.task.pending = "return-pick" THEN page.task.target ELSE None
  <2>1. t \in TaskForm /\ t.busy /\ t.submitted = page.task.submitted
    BY <1>1 DEF TaskForm
  <2>2. /\ page' = [page EXCEPT !.task = Task!Drawn(t)] /\ UNCHANGED srv /\ ~page.task.busy
        /\ wire' = Task!Sent(wire, MaxWire, Task!Ask("submit", of, page.task.pending, page.task.comment))
    BY <1>3 DEF Task!SubmitApproval
  <2> HIDE DEF t, of
  <2>3. /\ TaskPageOK(page') /\ page'.task = Task!Drawn(t)
        /\ page'.open = page.open /\ page'.closing = page.closing
    BY <1>1, <2>1, <2>2, WithTask, DrawnForm
  <2> QED BY <1>3, <2>1, <2>2, <2>3, DrawnForm
<1> QED BY <1>2, <1>3

\* What the form makes of the answer.
LEMMA TaskAnswerStep ==
  ASSUME TaskShape, NEW r \in wire, Task!SubmitAnswer(r)
  PROVE  /\ TaskPageOK(page') /\ wire' = wire \ {r} /\ UNCHANGED srv
         /\ r.kind = "submit" /\ r.status # "asked"
         /\ ~page'.task.busy
         /\ page'.task.submitted = (r.status = "done")
         /\ page'.open = page.open
         /\ page.closing \subseteq page'.closing
         /\ page'.task.submitted => OwnTab \in page'.closing
<1>1. page.task \in TaskForm /\ TaskPageOK(page)
  BY DEF TaskShape, TaskPageOK
<1> DEFINE t == [page.task EXCEPT !.busy = FALSE, !.submitted = r.status = "done",
                                  !.failed = r.status = "failed"]
           closing == IF r.status = "done" THEN page.closing \cup {OwnTab} ELSE page.closing
<1>2. t \in TaskForm /\ ~t.busy /\ t.submitted = (r.status = "done")
  BY <1>1 DEF TaskForm
<1>3. page' = [page EXCEPT !.task = Task!Drawn(t), !.closing = closing]
  BY DEF Task!SubmitAnswer, OwnTab
<1> HIDE DEF t
<1>4. /\ TaskPageOK(page') /\ page'.task = Task!Drawn(t)
      /\ page'.open = page.open /\ page'.closing = closing
  BY <1>1, <1>2, <1>3, DrawnForm DEF TaskPageOK, TaskPage
<1>5. Task!Drawn(t).submitted = t.submitted /\ Task!Drawn(t).busy = t.busy
  BY <1>2, DrawnForm
<1>6. /\ page'.task.submitted = (r.status = "done")
      /\ ~page'.task.busy
  BY <1>2, <1>4, <1>5
<1>7. wire' = wire \ {r} /\ UNCHANGED srv /\ r.kind = "submit" /\ r.status # "asked"
  BY DEF Task!SubmitAnswer
<1>8. page.closing \subseteq page'.closing /\ (r.status = "done" => OwnTab \in page'.closing)
  BY <1>4
<1>9. page'.task.submitted => OwnTab \in page'.closing
  BY <1>6, <1>8
<1> QED BY <1>4, <1>6, <1>7, <1>8, <1>9

-----------------------------------------------------------------------------
(* The invariant.                                                          *)

TaskAsk == {"kind", "of", "act", "reason"}

\* The requests are ones the page sends.
TaskRequests ==
  /\ Framed(wire, TaskAsk)
  /\ \A r \in wire : r.status \in Task!Statuses /\ (r.kind = "submit" => r.act \in Task!Kinds)

\* The answers to the task that are on their way.
TaskAnswers == Task!Pending(wire, {"submit"})

\* There is one at most, while the form is busy; the service has taken what
\* has been answered, and what the form says is handled.
TaskOneAnswer ==
  /\ \A r, s \in TaskAnswers : r = s
  /\ page.task.busy <=> TaskAnswers # {}
  /\ \A r \in TaskAnswers : r.status = "done" => srv.handled # "no"
  /\ page.task.submitted => srv.handled # "no"

\* A form that has been answered is about to close its tab.
TaskClosing == page.task.submitted /\ OwnTab \in page.open => OwnTab \in page.closing

TaskInv == TaskShape /\ TaskRequests /\ TaskOneAnswer /\ TaskClosing

\* A question of another kind leaves the answers alone.
LEMMA TaskAsksStep ==
  ASSUME TaskRequests, TaskAsks
  PROVE  TaskRequests' /\ TaskAnswers' = TaskAnswers
<1>1. PICK kind, of, act, reason :
        /\ kind \in {"load", "targets", "start"}
        /\ wire' = Task!Sent(wire, MaxWire, Task!Ask(kind, of, act, reason))
  BY DEF TaskAsks
<1> DEFINE s == Task!Ask(kind, of, act, reason)
<1>2. DOMAIN s = TaskAsk /\ s.kind = kind
  BY DEF Task!Ask, TaskAsk
<1> HIDE DEF s
<1>3. PICK r : /\ wire' = wire \cup {r}
               /\ \A f \in TaskAsk : r[f] = s[f]
               /\ r.status = "asked"
               /\ Framed(wire', TaskAsk)
  <2>1. "n" \notin TaskAsk /\ "status" \notin TaskAsk
    BY DEF TaskAsk
  <2>2. Framed(wire, TaskAsk)
    BY DEF TaskRequests
  <2> QED BY <1>1, <1>2, <2>1, <2>2, SentAdds, TaskWords DEF s
<1>4. r.kind = kind /\ kind \in {"load", "targets", "start"}
  BY <1>1, <1>2, <1>3 DEF TaskAsk
<1> QED BY <1>3, <1>4 DEF TaskRequests, TaskAnswers, Task!Pending, Task!Statuses

\* An answer to the task that is sent is the only one.
LEMMA TaskSubmitSent ==
  ASSUME TaskRequests, TaskOneAnswer, ~page.task.busy, page.task.pending \in Task!Kinds, NEW of,
         NEW reason, wire' = Task!Sent(wire, MaxWire, Task!Ask("submit", of, page.task.pending, reason))
  PROVE  /\ TaskRequests'
         /\ \E r : /\ wire' = wire \cup {r} /\ TaskAnswers' = {r} /\ r.status = "asked"
                  /\ r.act = page.task.pending /\ r.reason = reason
<1> DEFINE s == Task!Ask("submit", of, page.task.pending, reason)
<1>1. /\ DOMAIN s = TaskAsk /\ s.kind = "submit" /\ s.act = page.task.pending
      /\ s.reason = reason
  BY DEF Task!Ask, TaskAsk
<1>2. wire' = Task!Sent(wire, MaxWire, s)
  OBVIOUS
<1> HIDE DEF s
<1>3. PICK r : /\ wire' = wire \cup {r}
               /\ \A f \in TaskAsk : r[f] = s[f]
               /\ r.status = "asked"
               /\ Framed(wire', TaskAsk)
  <2>1. "n" \notin TaskAsk /\ "status" \notin TaskAsk
    BY DEF TaskAsk
  <2>2. Framed(wire, TaskAsk)
    BY DEF TaskRequests
  <2> QED BY <1>1, <1>2, <2>1, <2>2, SentAdds, TaskWords
<1>4. r.kind = "submit" /\ r.act = page.task.pending /\ r.reason = reason
  BY <1>1, <1>3 DEF TaskAsk
<1>5. TaskAnswers' = {r}
  BY <1>3, <1>4 DEF TaskOneAnswer, TaskAnswers, Task!Pending
<1> QED BY <1>3, <1>4, <1>5 DEF TaskRequests, Task!Statuses

\* A request that is answered stays what it is.
LEMMA TaskAnsweredStep ==
  ASSUME TaskRequests, TaskOneAnswer, NEW r \in wire, NEW status \in Task!Statuses,
         wire' = Task!Settled(wire, r, [r EXCEPT !.status = status])
  PROVE  /\ TaskRequests'
         /\ r.kind # "submit" => TaskAnswers' = TaskAnswers
         /\ r.kind = "submit" =>
              \E a : TaskAnswers' = {a} /\ a.status = status
<1> DEFINE a == [r EXCEPT !.status = status]
<1>1. /\ SameBut(a, r, status)
      /\ DOMAIN r = TaskAsk \cup {"n", "status"}
      /\ Framed(wire', TaskAsk)
  BY AnswerIs, TaskWords DEF TaskRequests
<1>2. wire' = (wire \ {r}) \cup {a}
  BY DEF Task!Settled
<1> HIDE DEF a
<1>3. a.kind = r.kind /\ a.act = r.act /\ a.status = status
  BY <1>1 DEF SameBut, TaskAsk
<1>4. TaskRequests'
  BY <1>1, <1>2, <1>3 DEF TaskRequests
<1>5. r.kind # "submit" => TaskAnswers' = TaskAnswers
  BY <1>2, <1>3 DEF TaskAnswers, Task!Pending
<1>6. r.kind = "submit" => TaskAnswers' = {a}
  BY <1>2, <1>3 DEF TaskOneAnswer, TaskAnswers, Task!Pending
<1> QED BY <1>3, <1>4, <1>5, <1>6

\* A step of the form that leaves the answers and the service alone.
LEMMA TaskFormKeeps ==
  ASSUME TaskInv, TaskPageOK(page'), FormStep, UNCHANGED srv, TaskRequests', TaskAnswers' = TaskAnswers
  PROVE  TaskInv'
BY DEF TaskInv, TaskShape, TaskOneAnswer, FormStep, TaskClosing

\* A request leaves the wire.
LEMMA TaskTakenStep ==
  ASSUME TaskRequests, NEW r \in wire, wire' = wire \ {r}
  PROVE  /\ TaskRequests'
         /\ r.kind # "submit" => TaskAnswers' = TaskAnswers
BY DEF TaskRequests, Framed, TaskAnswers, Task!Pending

\* The service takes the first answer to the task only.
LEMMA TaskServeStep ==
  ASSUME TaskInv, NEW r \in wire, Task!Serve(r)
  PROVE  TaskInv'
<1> USE DEF TaskInv
<1>1. /\ r.kind = "submit" => srv.handled = "no" /\ srv' = [srv EXCEPT !.handled = r.act]
      /\ r.kind = "start" => \E S : srv' = [srv EXCEPT !.started = S]
      /\ r.kind \notin {"submit", "start"} => srv' = srv
  BY Zenon DEF Task!Serve
<1>2. wire' = Task!Settled(wire, r, [r EXCEPT !.status = "done"]) /\ UNCHANGED page
  BY DEF Task!Serve
<1>3. r.kind = "submit" => r.act \in Task!Kinds
  BY DEF TaskRequests
<1>4. /\ srv' = [f \in {"handled", "started"} |-> srv'[f]]
      /\ srv'.handled = IF r.kind = "submit" THEN r.act ELSE srv.handled
  BY <1>1 DEF TaskShape
<1>5. TaskShape'
  BY <1>2, <1>3, <1>4 DEF TaskShape
<1>6. "done" \in Task!Statuses
  BY DEF Task!Statuses
<1>7. /\ TaskRequests'
      /\ r.kind # "submit" => TaskAnswers' = TaskAnswers
      /\ r.kind = "submit" => \E a : TaskAnswers' = {a} /\ a.status = "done"
  BY <1>2, <1>6, TaskAnsweredStep
<1>8. TaskOneAnswer'
  <2>1. CASE r.kind # "submit"
    BY <1>2, <1>4, <1>7, <2>1 DEF TaskOneAnswer
  <2>2. CASE r.kind = "submit"
    <3>1. page.task.busy
      BY <2>2 DEF TaskOneAnswer, TaskAnswers, Task!Pending
    <3>2. srv'.handled # "no"
      BY <1>3, <1>4, <2>2 DEF Task!Kinds
    <3> QED BY <1>2, <1>7, <2>2, <3>1, <3>2 DEF TaskOneAnswer
  <2> QED BY <2>1, <2>2
<1> QED BY <1>2, <1>5, <1>7, <1>8 DEF TaskClosing

\* A refusal, by the service or because its answer is lost.
LEMMA TaskRefuseStep ==
  ASSUME TaskInv, NEW r \in wire, Task!Refuse(r) \/ Task!Lose(r)
  PROVE  TaskInv'
<1> USE DEF TaskInv
<1>1. wire' = Task!Settled(wire, r, [r EXCEPT !.status = "failed"]) /\ UNCHANGED srv
  BY DEF Task!Refuse, Task!Lose, Task!Refused
<1>2. /\ TaskPageOK(page') /\ page'.task = page.task
      /\ page'.open = page.open /\ page'.closing = page.closing
  BY TaskCounted DEF Task!Refuse, Task!Lose, TaskShape
<1>3. "failed" \in Task!Statuses
  BY DEF Task!Statuses
<1>4. /\ TaskRequests'
      /\ r.kind # "submit" => TaskAnswers' = TaskAnswers
      /\ r.kind = "submit" => \E a : TaskAnswers' = {a} /\ a.status = "failed"
  BY <1>1, <1>3, TaskAnsweredStep
<1>5. CASE r.kind # "submit"
  BY <1>1, <1>2, <1>4, <1>5, TaskFormKeeps DEF FormStep
<1>6. CASE r.kind = "submit"
  <2>1. page.task.busy
    BY <1>6 DEF TaskOneAnswer, TaskAnswers, Task!Pending
  <2>2. TaskOneAnswer'
    BY <1>1, <1>2, <1>4, <1>6, <2>1 DEF TaskOneAnswer
  <2> QED BY <1>1, <1>2, <1>4, <2>2 DEF TaskShape, TaskClosing
<1> QED BY <1>5, <1>6

LEMMA TaskInvStep ==
  ASSUME Task!TaskAssumption, TaskInv, [Task!Next]_Task!vars
  PROVE  TaskInv'
<1>0. TaskShape /\ TaskRequests /\ TaskOneAnswer /\ TaskClosing
  BY DEF TaskInv
<1>1. ASSUME wire' = wire \/ TaskAsks PROVE TaskRequests' /\ TaskAnswers' = TaskAnswers
  BY <1>0, <1>1, TaskAsksStep DEF TaskRequests, TaskAnswers
<1>2. CASE \/ Task!ToggleMenu \/ Task!CancelAction \/ Task!TypeComment
           \/ \E tab \in {"handle", "trail"} : Task!ShowTab(tab)
           \/ \E n \in Targets : Task!PickTarget(n)
  <2>1. TaskPageOK(page') /\ FormStep /\ UNCHANGED <<wire, srv>>
    BY <1>0, <1>2, TaskUserSteps
  <2> QED BY <1>1, <2>1, TaskFormKeeps
<1>3. CASE Task!Reload \/ \E a \in Task!Kinds : Task!ChooseAction(a)
  <2>1. TaskPageOK(page') /\ FormStep /\ (wire' = wire \/ TaskAsks) /\ UNCHANGED srv
    BY <1>0, <1>3, TaskAskingSteps
  <2> QED BY <1>1, <2>1, TaskFormKeeps
<1>4. CASE \/ \E tab \in page.closing : Task!CloseSelf(tab)
           \/ \E d \in StartDefs : Task!OpenStart(d) \/ Task!FillIn(d) \/ Task!SubmitStart(d)
  <2>1. TaskPageOK(page') /\ FormStep /\ (wire' = wire \/ TaskAsks) /\ UNCHANGED srv
    BY <1>0, <1>4, TaskStartSteps
  <2> QED BY <1>1, <2>1, TaskFormKeeps
<1>5. CASE Task!SubmitApproval
  <2>1. CASE TaskPageOK(page') /\ FormStep /\ wire' = wire /\ UNCHANGED srv
    BY <1>1, <2>1, TaskFormKeeps
  <2>2. CASE /\ TaskPageOK(page') /\ UNCHANGED srv
             /\ ~page.task.busy /\ page'.task.busy
             /\ page'.task.submitted = page.task.submitted
             /\ page'.open = page.open /\ page'.closing = page.closing
             /\ \E of : wire' = Task!Sent(wire, MaxWire, Task!Ask("submit", of, page.task.pending,
                                                       page.task.comment))
    <3>1. page.task.pending \in Task!Kinds
      BY <1>0 DEF TaskShape, TaskPageOK, TaskForm
    <3>2. PICK r : TaskRequests' /\ TaskAnswers' = {r} /\ r.status = "asked"
      BY <1>0, <2>2, <3>1, TaskSubmitSent
    <3>3. TaskOneAnswer'
      BY <1>0, <2>2, <3>2 DEF TaskOneAnswer
    <3> QED BY <1>0, <2>2, <3>2, <3>3 DEF TaskInv, TaskShape, TaskClosing
  <2> QED BY <1>0, <1>5, <2>1, <2>2, TaskSubmitSteps
<1>6. ASSUME NEW r \in wire, Task!LoadAnswer(r) \/ Task!TargetsAnswer(r) \/ Task!StartAnswer(r)
      PROVE  TaskInv'
  <2>1. /\ TaskPageOK(page') /\ FormStep
        /\ r.kind # "submit" /\ wire' = wire \ {r} /\ UNCHANGED srv
    BY <1>0, <1>6, TaskOtherAnswers
  <2>2. TaskRequests' /\ TaskAnswers' = TaskAnswers
    BY <1>0, <2>1, TaskTakenStep
  <2> QED BY <2>1, <2>2, TaskFormKeeps
<1>7. ASSUME NEW r \in wire, Task!SubmitAnswer(r) PROVE TaskInv'
  <2>1. /\ TaskPageOK(page') /\ wire' = wire \ {r} /\ UNCHANGED srv
        /\ r.kind = "submit"
        /\ ~page'.task.busy
        /\ page'.task.submitted = (r.status = "done")
        /\ page'.task.submitted => OwnTab \in page'.closing
    BY <1>0, <1>7, TaskAnswerStep
  <2>2. r \in TaskAnswers /\ TaskAnswers' = {}
    BY <1>0, <2>1 DEF TaskOneAnswer, TaskAnswers, Task!Pending
  <2>3. TaskOneAnswer'
    BY <1>0, <2>1, <2>2 DEF TaskOneAnswer
  <2>4. TaskRequests'
    BY <1>0, <2>1, TaskTakenStep
  <2> QED BY <1>0, <2>1, <2>3, <2>4 DEF TaskInv, TaskShape, TaskClosing
<1>8. ASSUME NEW r \in wire, Task!Serve(r) \/ Task!Refuse(r) \/ Task!Lose(r) PROVE TaskInv'
  BY <1>8, TaskServeStep, TaskRefuseStep
<1>9. CASE UNCHANGED Task!vars
  BY <1>0, <1>9 DEF Task!vars, TaskInv, TaskShape, TaskRequests, TaskOneAnswer, TaskAnswers, TaskClosing
<1> QED BY <1>2, <1>3, <1>4, <1>5, <1>6, <1>7, <1>8, <1>9 DEF Task!Next, Task!Answer

THEOREM TaskInvariance ==
  ASSUME Task!TaskAssumption
  PROVE  Task!Spec => []TaskInv
<1>1. Task!Init => TaskInv
  <2> SUFFICES ASSUME Task!Init PROVE TaskInv
    OBVIOUS
  <2>1. Task!NewTask \in TaskForm /\ Task!NewStart \in StartForm
    BY DEF Task!NewTask, TaskForm, Task!NewStart, StartForm, Task!Kinds, TaskNodes
  <2>2. TaskShape
    BY <2>1 DEF Task!Init, TaskShape, TaskPageOK, TaskPage
  <2>3. TaskRequests /\ TaskAnswers = {}
    <3> DEFINE s == Task!Ask("load", "task", "none", FALSE)
    <3>1. DOMAIN s = TaskAsk /\ s.kind = "load"
      BY DEF Task!Ask, TaskAsk
    <3>2. wire = Task!Sent({}, MaxWire, s)
      BY DEF Task!Init
    <3> HIDE DEF s
    <3>3. "n" \notin TaskAsk /\ "status" \notin TaskAsk /\ Framed({}, TaskAsk)
      BY DEF TaskAsk, Framed
    <3>4. PICK r : /\ wire = {} \cup {r}
                   /\ \A f \in TaskAsk : r[f] = s[f]
                   /\ r.status = "asked"
                   /\ Framed(wire, TaskAsk)
      BY <3>1, <3>2, <3>3, SentAdds, TaskWords
    <3>5. r.kind = "load"
      BY <3>1, <3>4 DEF TaskAsk
    <3> QED BY <3>4, <3>5 DEF TaskRequests, TaskAnswers, Task!Pending, Task!Statuses
  <2>4. ~page.task.busy /\ ~page.task.submitted
    BY DEF Task!Init, Task!NewTask
  <2> QED BY <2>2, <2>3, <2>4 DEF TaskInv, TaskOneAnswer, TaskClosing
<1>2. TaskInv /\ [Task!Next]_Task!vars => TaskInv'
  BY TaskInvStep
<1> QED BY <1>1, <1>2, PTL DEF Task!Spec

-----------------------------------------------------------------------------
(* The properties of the form.                                             *)

\* Every variable keeps its type.
THEOREM TaskTyped ==
  ASSUME Task!TaskAssumption
  PROVE  Task!Spec => []Task!TypeOK
<1>1. TaskInv => Task!TypeOK
  BY DEF TaskInv, TaskShape, TaskPageOK, TaskForm, StartForm, TaskNodes, TaskRequests, Task!TypeOK
<1> QED BY <1>1, TaskInvariance, PTL

\* One answer to the task is on its way at most, just while the form is busy,
\* and a form that says the task is handled is right, also after answers
\* that were refused or lost and sent again.
THEOREM TaskHandled ==
  ASSUME Task!TaskAssumption
  PROVE  Task!Spec => []Task!HandledOnce
<1>1. ASSUME TaskInv PROVE Task!HandledOnce
  <2>1. Cardinality(TaskAnswers) <= 1
    <3>1. CASE TaskAnswers = {}
      BY <3>1, FS_EmptySet
    <3>2. CASE TaskAnswers # {}
      <4>1. PICK r : r \in TaskAnswers
        BY <3>2
      <4>2. TaskAnswers = {r}
        BY <1>1, <4>1 DEF TaskInv, TaskOneAnswer
      <4>3. Cardinality({r}) = 1
        BY FS_Singleton
      <4> QED BY <4>2, <4>3
    <3> QED BY <3>1, <3>2
  <2>2. page.task.busy \in BOOLEAN
    BY <1>1 DEF TaskInv, TaskShape, TaskPageOK, TaskForm
  <2>3. page.task.busy = (TaskAnswers # {})
    BY <1>1, <2>2 DEF TaskInv, TaskOneAnswer
  <2>4. Task!Cardinality(TaskAnswers) <= 1
    BY <2>1 DEF Task!Cardinality, Cardinality
  <2> QED BY <1>1, <2>3, <2>4 DEF TaskInv, TaskOneAnswer, Task!HandledOnce, TaskAnswers
<1> QED BY <1>1, TaskInvariance, PTL

\* A form that has been answered is closed or about to be, where it closes
\* the tab it was opened in.
THEOREM TaskCloses ==
  ASSUME Task!TaskAssumption, ~Workspace
  PROVE  Task!Spec => []Task!ClosesItself
<1>1. TaskInv => Task!ClosesItself
  BY DEF TaskInv, TaskClosing, OwnTab, Task!ClosesItself, Task!IsOpen, Task!TaskNode
<1> QED BY <1>1, TaskInvariance, PTL

\* What is sent is what the button said, and a rejection or a return carries
\* a reason.
THEOREM TaskReasons ==
  ASSUME Task!TaskAssumption
  PROVE  Task!Spec => Task!ReasonGiven
<1>1. ASSUME TaskInv, [Task!Next]_Task!vars PROVE Task!ReasonGivenStep
  <2> SUFFICES ASSUME NEW r \in wire' \ wire, r.kind = "submit", r.status = "asked"
               PROVE  /\ r.act = page.task.pending
                      /\ r.act \in {"reject", "return"} => r.reason
    BY DEF Task!ReasonGivenStep
  <2>0. TaskShape /\ TaskRequests /\ TaskOneAnswer
    BY <1>1 DEF TaskInv
  <2>1. ASSUME wire' = wire \/ TaskAsks PROVE FALSE
    <3>1. TaskAnswers' = TaskAnswers
      BY <2>0, <2>1, TaskAsksStep DEF TaskAnswers
    <3> QED BY <3>1 DEF TaskAnswers, Task!Pending
  <2>2. CASE \/ Task!ToggleMenu \/ Task!CancelAction \/ Task!TypeComment
             \/ \E tab \in {"handle", "trail"} : Task!ShowTab(tab)
             \/ \E n \in Targets : Task!PickTarget(n)
    BY <2>0, <2>1, <2>2, TaskUserSteps
  <2>3. CASE Task!Reload \/ \E a \in Task!Kinds : Task!ChooseAction(a)
    BY <2>0, <2>1, <2>3, TaskAskingSteps
  <2>4. CASE \/ \E tab \in page.closing : Task!CloseSelf(tab)
             \/ \E d \in StartDefs : Task!OpenStart(d) \/ Task!FillIn(d) \/ Task!SubmitStart(d)
    BY <2>0, <2>1, <2>4, TaskStartSteps
  <2>5. CASE Task!SubmitApproval
    <3>1. PICK of : /\ ~page.task.busy /\ Task!ValidateApproval(page.task)
                    /\ wire' = Task!Sent(wire, MaxWire, Task!Ask("submit", of, page.task.pending,
                                                      page.task.comment))
      BY <2>0, <2>1, <2>5, TaskSubmitSteps
    <3>2. page.task.pending \in Task!Kinds
      BY <2>0 DEF TaskShape, TaskPageOK, TaskForm
    <3>3. PICK s : /\ TaskAnswers' = {s} /\ s.act = page.task.pending
                   /\ s.reason = page.task.comment
      BY <2>0, <3>1, <3>2, TaskSubmitSent
    <3>4. r = s
      BY <3>3 DEF TaskAnswers, Task!Pending
    <3> QED BY <3>1, <3>3, <3>4 DEF Task!ValidateApproval
  <2>6. ASSUME NEW q \in wire, Task!Answer(q) PROVE FALSE
    BY <2>6 DEF Task!Answer, Task!LoadAnswer, Task!TargetsAnswer, Task!SubmitAnswer, Task!StartAnswer
  <2>7. ASSUME NEW q \in wire, Task!Serve(q) \/ Task!Refuse(q) \/ Task!Lose(q) PROVE FALSE
    <3>1. PICK status \in {"done", "failed"} :
            wire' = Task!Settled(wire, q, [q EXCEPT !.status = status])
      BY <2>7 DEF Task!Serve, Task!Refuse, Task!Lose, Task!Refused
    <3>2. [q EXCEPT !.status = status].status = status
      BY <2>0, AnswerIs, TaskWords DEF TaskRequests, SameBut
    <3> QED BY <3>1, <3>2 DEF Task!Settled
  <2>8. CASE UNCHANGED Task!vars
    BY <2>8 DEF Task!vars
  <2> QED BY <1>1, <2>2, <2>3, <2>4, <2>5, <2>6, <2>7, <2>8 DEF Task!Next
<1> QED BY <1>1, TaskInvariance, PTL DEF Task!Spec, Task!ReasonGiven

-----------------------------------------------------------------------------
(* Several people on one draft: the pages, the operations and the service. *)

Collab == INSTANCE FlowCollab

CollabDoc == [Collab!Elements -> [there : BOOLEAN, value : 0..MaxChanges, place : 0..MaxChanges]]

CollabKinds == Collab!Aspects \cup {"create", "remove"}

\* Operations with a number of the given ones; what is posted has none yet.
Operations(numbers) ==
  [origin : Peers, kind : CollabKinds, element : Collab!Elements, value : 0..MaxChanges, seq : numbers]

\* A page, when n operations have been numbered.
CollabPage(n) ==
  [on : BOOLEAN, doc : CollabDoc, seen : [Collab!Elements \X Collab!Aspects -> 0..n],
   inbox : SUBSET Operations(1..n), notice : BOOLEAN, since : 0..n,
   selection : Collab!Elements \cup {None}, waiting : BOOLEAN, marks : SUBSET Collab!Elements]

CollabServer ==
  [seq : Nat, draft : CollabDoc, roster : [Peers -> Collab!Elements \cup {None}], changes : 0..MaxChanges]

\* A line that is there has its ends.
Ends(doc) == doc[Line].there => \A e \in Nodes : doc[e].there

CollabInv ==
  /\ srv \in CollabServer /\ page \in [Peers -> CollabPage(srv.seq)]
  /\ wire \subseteq Operations({0}) /\ IsFiniteSet(wire)
  /\ Ends(srv.draft) /\ \A p \in Peers : Ends(page[p].doc)
  /\ srv.seq + Cardinality(wire) <= Cardinality(Collab!Elements) * srv.changes

\* A change that is possible keeps the ends of the line, on any canvas.
LEMMA CollabEffect ==
  ASSUME Line \notin Nodes, NEW doc \in CollabDoc, Ends(doc),
         NEW numbers, NEW op \in Operations(numbers), Collab!Possible(doc, op)
  PROVE  Collab!Effect(doc, op) \in CollabDoc /\ Ends(Collab!Effect(doc, op))
<1> DEFINE Mark == [there : BOOLEAN, value : 0..MaxChanges, place : 0..MaxChanges]
<1>0. /\ op.kind \in {"value", "place", "create", "remove"} /\ op.element \in Collab!Elements /\ op.value \in 0..MaxChanges
      /\ Line \in Collab!Elements /\ Nodes \subseteq Collab!Elements
  BY DEF Operations, CollabKinds, Collab!Aspects, Collab!Elements
<1>1. CASE op.kind = "create"
  <2>1. Collab!Effect(doc, op) = [doc EXCEPT ![op.element].there = TRUE]
    BY <1>1 DEF Collab!Effect
  <2>2. op.element = Line => \A e \in Nodes : doc[e].there
    BY <1>1 DEF Collab!Possible
  <2>3. Collab!Effect(doc, op) \in CollabDoc
    BY <1>0, <2>1 DEF CollabDoc
  <2>4. \A e \in Collab!Elements : Collab!Effect(doc, op)[e].there = (doc[e].there \/ e = op.element)
    BY <1>0, <2>1 DEF CollabDoc
  <2>5. Ends(Collab!Effect(doc, op))
    BY <1>0, <2>2, <2>4 DEF Ends
  <2> QED BY <2>3, <2>5
<1>2. CASE op.kind = "remove"
  <2>1. Collab!Effect(doc, op) = [e \in Collab!Elements |-> IF e \in Collab!Goes(op.element) THEN [doc[e] EXCEPT !.there = FALSE] ELSE doc[e]]
    BY <1>2 DEF Collab!Effect
  <2>2. Collab!Effect(doc, op) \in CollabDoc
    BY <2>1 DEF CollabDoc
  <2>3. Line \in Collab!Goes(op.element) \/ op.element = Line
    BY <1>0 DEF Collab!Goes, Collab!Elements
  <2>4. Line \in Collab!Goes(op.element)
    BY <2>3 DEF Collab!Goes
  <2>5. ~Collab!Effect(doc, op)[Line].there
    BY <1>0, <2>1, <2>4 DEF CollabDoc
  <2> QED BY <2>2, <2>5 DEF Ends
<1>3. CASE op.kind = "value"
  <2>1. Collab!Effect(doc, op) = [doc EXCEPT ![op.element].value = op.value]
    BY <1>3 DEF Collab!Effect
  <2> QED BY <1>0, <2>1 DEF CollabDoc, Ends
<1>4. CASE op.kind = "place"
  <2>1. Collab!Effect(doc, op) = [doc EXCEPT ![op.element].place = op.value]
    BY <1>4 DEF Collab!Effect
  <2> QED BY <1>0, <2>1 DEF CollabDoc, Ends
<1> QED BY <1>0, <1>1, <1>2, <1>3, <1>4

\* There are finitely many elements, one of them the line.
LEMMA CollabSize ==
  ASSUME Collab!CollabAssumption
  PROVE  IsFiniteSet(Collab!Elements) /\ Cardinality(Collab!Elements) \in Nat \ {0}
<1>1. IsFiniteSet(Nodes) /\ Line \notin Nodes
  BY DEF Collab!CollabAssumption, Collab!IsFiniteSet, IsFiniteSet
<1>2. IsFiniteSet(Nodes \cup {Line}) /\ Cardinality(Nodes \cup {Line}) = Cardinality(Nodes) + 1
  BY <1>1, FS_AddElement
<1>3. Cardinality(Nodes) \in Nat
  BY <1>1, FS_CardinalityType
<1> QED BY <1>2, <1>3 DEF Collab!Elements

\* What a canvas tells of a change: a node goes with its line at most.
LEMMA CollabTold ==
  ASSUME Collab!CollabAssumption, page \in [Peers -> CollabPage(srv.seq)],
         NEW p \in Peers, NEW op \in Operations({0}), op.origin = p, 0 \in 0..MaxChanges, NEW applying \in BOOLEAN
  PROVE  LET told == Collab!Told(p, op, applying)
         IN  /\ told \subseteq Operations({0}) /\ IsFiniteSet(told)
             /\ Cardinality(told) <= Cardinality(Collab!Elements)
             /\ applying => told = {}
<1> DEFINE told == Collab!Told(p, op, applying)
           E == {e \in Collab!Goes(op.element) : page[p].doc[e].there}
<1>1. IsFiniteSet(Collab!Elements) /\ Cardinality(Collab!Elements) \in Nat \ {0}
  BY CollabSize
<1>2. op.element \in Collab!Elements
  BY DEF Operations
<1>3. Collab!Goes(op.element) \subseteq Collab!Elements
  BY <1>2 DEF Collab!Goes, Collab!Elements
<1>4. IsFiniteSet(E) /\ Cardinality(E) <= Cardinality(Collab!Elements)
  <2>1. E \subseteq Collab!Elements
    BY <1>3
  <2> QED BY <1>1, <2>1, FS_Subset
<1>5. applying => told = {}
  BY DEF Collab!Told, Collab!Broadcastable
<1>6. CASE told = {}
  BY <1>1, <1>6, FS_EmptySet
<1>7. CASE told = {op}
  <2>1. IsFiniteSet({op}) /\ Cardinality({op}) = 1
    BY FS_Singleton
  <2> QED BY <1>1, <1>5, <1>7, <2>1
<1>8. CASE told = {Collab!Op(p, "remove", e, 0) : e \in E}
  <2>1. told \subseteq Operations({0})
    BY <1>3, <1>8 DEF Operations, Collab!Op, CollabKinds
  <2>2. IsFiniteSet(told) /\ Cardinality(told) <= Cardinality(E)
    <3> DEFINE f == [e \in E |-> Collab!Op(p, "remove", e, 0)]
    <3>1. f \in [E -> told] /\ \A t \in told : \E e \in E : f[e] = t
      BY <1>8
    <3> HIDE DEF f, E, told
    <3>2. f \in Surjection(E, told)
      BY <3>1 DEF Surjection
    <3> QED BY <1>4, <3>2, FS_Surjection
  <2>3. Cardinality(told) \in Nat /\ Cardinality(E) \in Nat
    BY <1>4, <2>2, FS_CardinalityType
  <2> QED BY <1>1, <1>4, <1>5, <2>1, <2>2, <2>3
<1>9. told = {} \/ told = {op} \/ told = {Collab!Op(p, "remove", e, 0) : e \in E}
  BY DEF Collab!Told
<1> QED BY <1>6, <1>7, <1>8, <1>9

\* The number of operations bounds what the pages know.
LEMMA CollabLater ==
  ASSUME NEW n \in Nat
  PROVE  CollabPage(n) \subseteq CollabPage(n + 1)
<1>1. 0..n \subseteq 0..(n + 1) /\ 1..n \subseteq 1..(n + 1)
  OBVIOUS
<1>2. Operations(1..n) \subseteq Operations(1..(n + 1))
  BY <1>1 DEF Operations
<1> QED BY <1>1, <1>2 DEF CollabPage

\* Everybody who listens sees who is there.
LEMMA CollabPresent ==
  ASSUME NEW n, NEW pages \in [Peers -> CollabPage(n)], NEW roster \in [Peers -> Collab!Elements \cup {None}],
         \A p \in Peers : Ends(pages[p].doc)
  PROVE  LET shown == Collab!Present(pages, roster)
         IN  shown \in [Peers -> CollabPage(n)] /\ \A p \in Peers : Ends(shown[p].doc)
<1> DEFINE shown == Collab!Present(pages, roster)
           marks(p) == {e \in Collab!Marks(p, roster) : pages[p].doc[e].there}
<1>1. shown = [p \in Peers |-> IF pages[p].on THEN [pages[p] EXCEPT !.marks = marks(p)] ELSE pages[p]]
  BY DEF Collab!Present
<1>2. \A p \in Peers : marks(p) \in SUBSET Collab!Elements
  BY DEF Collab!Marks
<1> HIDE DEF marks, shown
<1>3. ASSUME NEW p \in Peers
      PROVE  shown[p] \in CollabPage(n) /\ shown[p].doc = pages[p].doc
  <2>1. pages[p] \in CollabPage(n)
    OBVIOUS
  <2>2. shown[p] = pages[p] \/ shown[p] = [pages[p] EXCEPT !.marks = marks(p)]
    BY <1>1
  <2> QED BY <1>2, <2>1, <2>2 DEF CollabPage
<1>4. shown = [p \in Peers |-> shown[p]]
  BY <1>1
<1> QED BY <1>3, <1>4 DEF shown

\* Drafts, sessions and selections.
LEMMA CollabQuiet ==
  ASSUME Collab!CollabAssumption, CollabInv, NEW p \in Peers,
         \/ Collab!Save(p) \/ Collab!Reload(p) \/ Collab!Dismiss(p) \/ Collab!StopCollab(p) \/ Collab!StartCollab(p)
         \/ Collab!BroadcastSelection(p) \/ Collab!Heartbeat(p)
         \/ \E e \in Collab!Elements : Collab!Select(p, e)
  PROVE  CollabInv'
<1> DEFINE n == srv.seq
           Pages(x) == x \in [Peers -> CollabPage(n)] /\ \A q \in Peers : Ends(x[q].doc)
<1>0. /\ page \in [Peers -> CollabPage(n)] /\ page[p] \in CollabPage(n) /\ Pages(page)
      /\ srv.draft \in CollabDoc /\ Ends(srv.draft) /\ srv.roster \in [Peers -> Collab!Elements \cup {None}]
      /\ n \in Nat /\ srv \in CollabServer /\ MaxChanges \in Nat
  BY DEF CollabInv, CollabServer, Collab!CollabAssumption
<1>1. wire' = wire
  BY DEF Collab!Save, Collab!Reload, Collab!Dismiss, Collab!StopCollab, Collab!StartCollab, Collab!BroadcastSelection,
         Collab!Heartbeat, Collab!Announce, Collab!Select
\* One page becomes another.
<1>2. ASSUME NEW x \in CollabPage(n), Ends(x.doc)
      PROVE  Pages([page EXCEPT ![p] = x])
  BY <1>0, <1>2
<1>3. /\ srv' \in CollabServer /\ Ends(srv'.draft) /\ srv'.seq = srv.seq /\ srv'.changes \in {srv.changes, srv.changes + 1}
      /\ srv'.roster \in [Peers -> Collab!Elements \cup {None}]
  <2>1. page[p].doc \in CollabDoc /\ Ends(page[p].doc) /\ page[p].selection \in Collab!Elements \cup {None}
    BY <1>0 DEF CollabPage
  <2>2. \/ srv' = srv
        \/ srv.changes < MaxChanges /\ srv' = [srv EXCEPT !.draft = page[p].doc, !.changes = srv.changes + 1]
        \/ srv.changes < MaxChanges /\ srv' = [srv EXCEPT !.roster = [srv.roster EXCEPT ![p] = None], !.changes = srv.changes + 1]
        \/ srv' = [srv EXCEPT !.roster = [srv.roster EXCEPT ![p] = None]]
        \/ srv' = [srv EXCEPT !.roster = [srv.roster EXCEPT ![p] = page[p].selection]]
        \/ srv.changes < MaxChanges /\ srv' = [srv EXCEPT !.changes = srv.changes + 1]
    BY <1>0 DEF CollabServer, Collab!Save, Collab!Reload, Collab!Dismiss, Collab!StopCollab, Collab!StartCollab,
         Collab!BroadcastSelection, Collab!Heartbeat, Collab!Announce, Collab!Select
  <2>3. srv.changes \in 0..MaxChanges /\ (srv.changes < MaxChanges => srv.changes + 1 \in 0..MaxChanges)
    BY <1>0 DEF CollabServer
  <2>4. srv = [f \in {"seq", "draft", "roster", "changes"} |-> srv[f]]
    BY <1>0 DEF CollabServer
  <2>5. /\ srv' = [f \in {"seq", "draft", "roster", "changes"} |-> srv'[f]]
        /\ srv'.seq = srv.seq /\ srv'.draft \in {srv.draft, page[p].doc}
        /\ srv'.roster \in {srv.roster, [srv.roster EXCEPT ![p] = None], [srv.roster EXCEPT ![p] = page[p].selection]}
        /\ srv'.changes = srv.changes \/ (srv.changes < MaxChanges /\ srv'.changes = srv.changes + 1)
    <3> DEFINE doc == page[p].doc
               r1 == [srv.roster EXCEPT ![p] = None]
               r2 == [srv.roster EXCEPT ![p] = page[p].selection]
    <3>1. \/ srv' = srv
          \/ srv.changes < MaxChanges /\ srv' = [srv EXCEPT !.draft = doc, !.changes = srv.changes + 1]
          \/ srv.changes < MaxChanges /\ srv' = [srv EXCEPT !.roster = r1, !.changes = srv.changes + 1]
          \/ srv' = [srv EXCEPT !.roster = r1]
          \/ srv' = [srv EXCEPT !.roster = r2]
          \/ srv.changes < MaxChanges /\ srv' = [srv EXCEPT !.changes = srv.changes + 1]
      BY <2>2
    <3> HIDE DEF doc, r1, r2
    <3>2. /\ srv' = [f \in {"seq", "draft", "roster", "changes"} |-> srv'[f]]
          /\ srv'.seq = srv.seq /\ srv'.draft \in {srv.draft, doc}
          /\ srv'.roster \in {srv.roster, r1, r2}
      BY <2>4, <3>1
    <3>3. srv'.changes = srv.changes \/ (srv.changes < MaxChanges /\ srv'.changes = srv.changes + 1)
      <4>1. srv'.changes = srv.changes \/ srv'.changes = srv.changes + 1
        BY <2>4, <3>1
      <4>2. srv.changes < MaxChanges \/ srv' = srv \/ srv' = [srv EXCEPT !.roster = r1] \/ srv' = [srv EXCEPT !.roster = r2]
        BY <3>1
      <4>3. srv.changes < MaxChanges \/ srv'.changes = srv.changes
        BY <2>4, <4>2
      <4> QED BY <4>1, <4>3
    <3> QED BY <3>2, <3>3 DEF doc, r1, r2
  <2>6. /\ srv'.seq \in Nat /\ srv'.draft \in CollabDoc /\ Ends(srv'.draft)
        /\ srv'.roster \in [Peers -> Collab!Elements \cup {None}]
    BY <1>0, <2>1, <2>5
  <2>7. srv'.changes \in 0..MaxChanges /\ srv'.changes \in {srv.changes, srv.changes + 1}
    BY <2>3, <2>5
  <2> QED BY <2>5, <2>6, <2>7 DEF CollabServer
<1>4. Pages(page')
  <2>1. CASE Collab!Save(p)
    <3>1. page' = [q \in Peers |-> IF q # p /\ page[q].on THEN [page[q] EXCEPT !.notice = TRUE] ELSE page[q]]
      BY <2>1 DEF Collab!Save
    <3>2. ASSUME NEW q \in Peers
          PROVE  page'[q] \in CollabPage(n) /\ page'[q].doc = page[q].doc
      <4>1. page[q] \in CollabPage(n)
        BY <1>0
      <4>2. page'[q] = page[q] \/ page'[q] = [page[q] EXCEPT !.notice = TRUE]
        BY <3>1
      <4> QED BY <4>1, <4>2 DEF CollabPage
    <3> QED BY <1>0, <3>1, <3>2
  <2>2. CASE Collab!Reload(p)
    <3> DEFINE x == [page[p] EXCEPT !.notice = FALSE, !.doc = srv.draft, !.since = n, !.selection = None]
    <3>1. page' = [page EXCEPT ![p] = x]
      BY <1>0, <2>2 DEF Collab!Reload
    <3>2. n \in 0..n
      BY <1>0
    <3> HIDE DEF n
    <3>3. x \in CollabPage(n) /\ x.doc = srv.draft
      BY <1>0, <3>2 DEF CollabPage
    <3> HIDE DEF x
    <3> QED BY <1>0, <1>2, <3>1, <3>3
  <2>3. CASE Collab!Dismiss(p)
    <3> DEFINE x == [page[p] EXCEPT !.notice = FALSE]
    <3>1. page' = [page EXCEPT ![p] = x]
      BY <1>0, <2>3 DEF Collab!Dismiss
    <3>2. x \in CollabPage(n) /\ x.doc = page[p].doc
      BY <1>0 DEF CollabPage
    <3> HIDE DEF x
    <3> QED BY <1>0, <1>2, <3>1, <3>2
  <2>4. CASE Collab!StopCollab(p)
    <3> DEFINE x == [page[p] EXCEPT !.on = FALSE, !.inbox = {}, !.notice = FALSE, !.waiting = FALSE, !.marks = {}]
    <3>1. page' = Collab!Present([page EXCEPT ![p] = x], srv'.roster)
      BY <1>0, <2>4 DEF Collab!StopCollab
    <3>2. x \in CollabPage(n) /\ x.doc = page[p].doc
      BY <1>0 DEF CollabPage
    <3> HIDE DEF x
    <3>3. Pages([page EXCEPT ![p] = x])
      BY <1>0, <1>2, <3>2
    <3> QED BY <1>3, <3>1, <3>3, CollabPresent
  <2>5. CASE Collab!StartCollab(p)
    <3> DEFINE x == [page[p] EXCEPT !.on = TRUE, !.doc = srv.draft, !.seen = Collab!NothingSeen, !.since = n, !.selection = None]
    <3>1. page' = Collab!Present([page EXCEPT ![p] = x], srv'.roster)
      BY <1>0, <2>5 DEF Collab!StartCollab
    <3>2a. 0 \in 0..n /\ n \in 0..n
      BY <1>0
    <3> HIDE DEF n
    <3>2. Collab!NothingSeen \in [Collab!Elements \X Collab!Aspects -> 0..n]
      BY <3>2a DEF Collab!NothingSeen
    <3>3. x \in CollabPage(n) /\ x.doc = srv.draft
      BY <1>0, <3>2, <3>2a DEF CollabPage
    <3> HIDE DEF x
    <3>4. Pages([page EXCEPT ![p] = x])
      BY <1>0, <1>2, <3>3
    <3> QED BY <1>3, <3>1, <3>4, CollabPresent
  <2>6. CASE Collab!BroadcastSelection(p) \/ Collab!Heartbeat(p)
    <3> DEFINE x == [page[p] EXCEPT !.waiting = FALSE]
    <3>1. page' = Collab!Present([page EXCEPT ![p] = x], srv'.roster)
      BY <1>0, <2>6 DEF Collab!BroadcastSelection, Collab!Heartbeat, Collab!Announce
    <3>2. x \in CollabPage(n) /\ x.doc = page[p].doc
      BY <1>0 DEF CollabPage
    <3> HIDE DEF x
    <3>3. Pages([page EXCEPT ![p] = x])
      BY <1>0, <1>2, <3>2
    <3> QED BY <1>3, <3>1, <3>3, CollabPresent
  <2>7. ASSUME NEW e \in Collab!Elements, Collab!Select(p, e)
        PROVE  Pages(page')
    <3> DEFINE x == [page[p] EXCEPT !.selection = e, !.waiting = page[p].on]
    <3>1. page' = [page EXCEPT ![p] = x]
      BY <1>0, <2>7 DEF Collab!Select
    <3>2. x \in CollabPage(n) /\ x.doc = page[p].doc
      BY <1>0 DEF CollabPage
    <3> HIDE DEF x
    <3> QED BY <1>0, <1>2, <3>1, <3>2
  <2> QED BY <2>1, <2>2, <2>3, <2>4, <2>5, <2>6, <2>7
<1>5. srv'.seq + Cardinality(wire') <= Cardinality(Collab!Elements) * srv'.changes
  <2> DEFINE c == Cardinality(Collab!Elements)
  <2>1. c \in Nat /\ Cardinality(wire) \in Nat /\ srv.changes \in Nat /\ n \in Nat
    BY <1>0, FS_CardinalityType, CollabSize DEF CollabServer, CollabInv
  <2>2. n + Cardinality(wire) <= c * srv.changes
    BY DEF CollabInv
  <2> HIDE DEF c
  <2>3. c * (srv.changes + 1) = c * srv.changes + c
    BY <2>1
  <2>4. c * srv'.changes >= c * srv.changes
    BY <1>3, <2>1, <2>3
  <2>5. srv'.seq = n /\ wire' = wire
    BY <1>1, <1>3
  <2>6. n + Cardinality(wire) <= c * srv'.changes
    BY <2>1, <2>2, <2>4, <1>3
  <2> QED BY <2>5, <2>6 DEF c
<1> QED BY <1>1, <1>3, <1>4, <1>5 DEF CollabInv

\* A user changes the canvas of a page.
LEMMA CollabEdit ==
  ASSUME Collab!CollabAssumption, CollabInv, NEW p \in Peers, NEW kind \in CollabKinds, NEW e \in Collab!Elements,
         Collab!Edit(p, kind, e)
  PROVE  CollabInv'
<1> DEFINE n == srv.seq
           op == Collab!Op(p, kind, e, srv.changes + 1)
           told == Collab!Told(p, op, FALSE)
           x == [page[p] EXCEPT !.doc = Collab!Effect(page[p].doc, op)]
           c == Cardinality(Collab!Elements)
<1>0. /\ page \in [Peers -> CollabPage(n)] /\ page[p] \in CollabPage(n) /\ n \in Nat /\ srv \in CollabServer
      /\ MaxChanges \in Nat /\ Line \notin Nodes /\ \A q \in Peers : Ends(page[q].doc)
      /\ wire \subseteq Operations({0}) /\ IsFiniteSet(wire) /\ Ends(srv.draft)
  BY DEF CollabInv, CollabServer, Collab!CollabAssumption
<1>1. srv.changes \in 0..MaxChanges /\ srv.changes + 1 \in 0..MaxChanges /\ 0 \in 0..MaxChanges
  BY <1>0 DEF CollabServer, Collab!Edit
<1>2. op \in Operations({0}) /\ op.origin = p
  BY <1>1 DEF Collab!Op, Operations
<1>3. /\ Collab!Possible(page[p].doc, op) /\ page' = [page EXCEPT ![p] = x] /\ wire' = wire \cup told
      /\ srv' = [srv EXCEPT !.changes = srv.changes + 1]
  BY <1>0 DEF Collab!Edit, CollabServer
<1>4. page[p].doc \in CollabDoc
  BY <1>0 DEF CollabPage
<1> HIDE DEF op
<1>5. Collab!Effect(page[p].doc, op) \in CollabDoc /\ Ends(Collab!Effect(page[p].doc, op))
  BY <1>0, <1>2, <1>3, <1>4, CollabEffect
<1>6. x \in CollabPage(n) /\ Ends(x.doc)
  BY <1>0, <1>5 DEF CollabPage
<1>7. /\ told \subseteq Operations({0}) /\ IsFiniteSet(told) /\ Cardinality(told) <= c
  BY <1>0, <1>1, <1>2, CollabTold
<1> HIDE DEF x, told
<1>8. page' \in [Peers -> CollabPage(n)] /\ \A q \in Peers : Ends(page'[q].doc)
  BY <1>0, <1>3, <1>6
<1>9. srv' \in CollabServer /\ srv'.seq = n /\ srv'.draft = srv.draft /\ srv'.changes = srv.changes + 1
  BY <1>0, <1>1, <1>3 DEF CollabServer
<1>10. wire' \subseteq Operations({0}) /\ IsFiniteSet(wire') /\ Cardinality(wire') <= Cardinality(wire) + Cardinality(told)
  <2>1. /\ IsFiniteSet(wire \cup told)
        /\ Cardinality(wire \cup told) = Cardinality(wire) + Cardinality(told) - Cardinality(wire \cap told)
    BY <1>0, <1>7, FS_Union
  <2>2. /\ Cardinality(wire \cap told) \in Nat /\ Cardinality(wire) \in Nat /\ Cardinality(told) \in Nat
    BY <1>0, <1>7, FS_Intersection, FS_CardinalityType
  <2> QED BY <1>0, <1>3, <1>7, <2>1, <2>2
<1>11. srv'.seq + Cardinality(wire') <= c * srv'.changes
  <2>1. /\ c \in Nat /\ Cardinality(wire) \in Nat /\ Cardinality(told) \in Nat /\ Cardinality(wire') \in Nat
    BY <1>0, <1>7, <1>10, CollabSize, FS_CardinalityType
  <2>2. n + Cardinality(wire) <= c * srv.changes
    BY DEF CollabInv
  <2> HIDE DEF c
  <2>3. c * (srv.changes + 1) = c * srv.changes + c /\ c * srv.changes \in Nat
    BY <1>1, <2>1
  <2>4. n + Cardinality(wire') <= c * srv.changes + c
    BY <1>0, <1>7, <1>10, <2>1, <2>2, <2>3
  <2> QED BY <1>9, <2>3, <2>4
<1> QED BY <1>0, <1>8, <1>9, <1>10, <1>11 DEF CollabInv

\* An operation is numbered and sent to those who listen, or is lost.
LEMMA CollabNumber ==
  ASSUME Collab!CollabAssumption, CollabInv, NEW op \in wire, Collab!Number(op) \/ Collab!LosePost(op)
  PROVE  CollabInv'
<1> DEFINE n == srv.seq
           c == Cardinality(Collab!Elements)
<1>0. /\ page \in [Peers -> CollabPage(n)] /\ n \in Nat /\ srv \in CollabServer
      /\ \A q \in Peers : Ends(page[q].doc)
      /\ wire \subseteq Operations({0}) /\ IsFiniteSet(wire) /\ Ends(srv.draft)
  BY DEF CollabInv, CollabServer
<1>1. wire' = wire \ {op} /\ IsFiniteSet(wire') /\ Cardinality(wire') = Cardinality(wire) - 1 /\ Cardinality(wire) \in Nat
  BY <1>0, FS_RemoveElement, FS_CardinalityType DEF Collab!Number, Collab!LosePost
<1>2. n + Cardinality(wire) <= c * srv.changes
  BY DEF CollabInv
<1>3. c * srv.changes \in Int
  BY <1>0, CollabSize DEF CollabServer
<1> HIDE DEF c
<1>4. CASE Collab!LosePost(op)
  <2>1. page' = page /\ srv' = srv
    BY <1>4 DEF Collab!LosePost
  <2>2. n + Cardinality(wire') <= c * srv.changes
    BY <1>0, <1>1, <1>2, <1>3
  <2> QED BY <1>0, <1>1, <2>1, <2>2 DEF CollabInv, c
<1>5. CASE Collab!Number(op)
  <2> DEFINE sent == [op EXCEPT !.seq = n + 1]
  <2>1. srv' = [srv EXCEPT !.seq = n + 1]
    BY <1>0, <1>5 DEF Collab!Number, CollabServer
  <2>2. srv' \in CollabServer /\ srv'.seq = n + 1 /\ srv'.draft = srv.draft /\ srv'.changes = srv.changes
    BY <1>0, <2>1 DEF CollabServer
  <2>3. sent \in Operations(1..(n + 1))
    <3>1. op \in Operations({0}) /\ n + 1 \in 1..(n + 1)
      BY <1>0
    <3> QED BY <3>1 DEF Operations
  <2>4. page' = [p \in Peers |-> IF page[p].on THEN [page[p] EXCEPT !.inbox = page[p].inbox \cup {sent}] ELSE page[p]]
    BY <1>0, <1>5 DEF Collab!Number, CollabPage
  <2> HIDE DEF sent
  <2>5. ASSUME NEW p \in Peers
        PROVE  page'[p] \in CollabPage(n + 1) /\ page'[p].doc = page[p].doc
    <3>1. page[p] \in CollabPage(n + 1)
      BY <1>0, CollabLater
    <3>2. page'[p] = page[p] \/ page'[p] = [page[p] EXCEPT !.inbox = page[p].inbox \cup {sent}]
      BY <2>4
    <3> QED BY <2>3, <3>1, <3>2 DEF CollabPage
  <2>6. page' \in [Peers -> CollabPage(n + 1)] /\ \A p \in Peers : Ends(page'[p].doc)
    BY <1>0, <2>4, <2>5
  <2>7. srv'.seq + Cardinality(wire') <= c * srv'.changes
    BY <1>0, <1>1, <1>2, <1>3, <2>2
  <2> QED BY <1>0, <1>1, <2>2, <2>6, <2>7 DEF CollabInv, c
<1> QED BY <1>4, <1>5

\* An operation of another page is replayed, and not told again.
LEMMA CollabRemote ==
  ASSUME Collab!CollabAssumption, CollabInv, NEW p \in Peers, NEW op \in page[p].inbox, Collab!OnRemoteOp(p, op)
  PROVE  CollabInv'
<1> DEFINE n == srv.seq
           q == [page[p] EXCEPT !.inbox = page[p].inbox \ {op}]
           doc == IF Collab!Possible(q.doc, op) /\ Collab!Newer(q, op) THEN Collab!Effect(q.doc, op) ELSE q.doc
           seen == IF Collab!Notes(q, op) THEN Collab!Noted(q, op) ELSE q.seen
           x == IF op.origin = p THEN q ELSE [q EXCEPT !.doc = doc, !.seen = seen]
<1>0. /\ page \in [Peers -> CollabPage(n)] /\ page[p] \in CollabPage(n) /\ n \in Nat /\ srv \in CollabServer
      /\ \A r \in Peers : Ends(page[r].doc) /\ Line \notin Nodes
  BY DEF CollabInv, CollabServer, Collab!CollabAssumption
<1>1. q \in CollabPage(n) /\ q.doc = page[p].doc /\ q.seen = page[p].seen
  BY <1>0 DEF CollabPage
<1>2. op \in Operations(1..n)
  BY <1>0 DEF CollabPage
<1>3. page' = [page EXCEPT ![p] = x]
  BY <1>0 DEF Collab!OnRemoteOp, CollabPage
<1>4. wire' = wire /\ srv' = srv
  BY DEF Collab!OnRemoteOp, Collab!Told, Collab!Broadcastable
<1>5. seen \in [Collab!Elements \X Collab!Aspects -> 0..n]
  <2>0. q.seen \in [Collab!Elements \X Collab!Aspects -> 0..n]
    BY <1>1 DEF CollabPage
  <2>1. CASE op.kind \in Collab!Aspects
    <3> DEFINE at == <<op.element, op.kind>>
               old == q.seen[at]
               m == Collab!Max({old, op.seq})
    <3>1. at \in Collab!Elements \X Collab!Aspects /\ op.seq \in 0..n
      BY <1>0, <1>2, <2>1 DEF Operations
    <3>2. old \in 0..n
      BY <2>0, <3>1
    <3>3. m \in {old, op.seq}
      <4>1. \E a \in {old, op.seq} : \A b \in {old, op.seq} : a >= b
        BY <1>0, <3>1, <3>2
      <4> QED BY <4>1 DEF Collab!Max
    <3>4. Collab!Noted(q, op) = [q.seen EXCEPT ![at] = m]
      BY <2>1 DEF Collab!Noted
    <3> HIDE DEF m, at, old
    <3>5. m \in 0..n
      BY <3>1, <3>2, <3>3
    <3>6. Collab!Noted(q, op) \in [Collab!Elements \X Collab!Aspects -> 0..n]
      BY <2>0, <3>1, <3>4, <3>5
    <3> QED BY <2>0, <3>6
  <2>2. CASE op.kind \notin Collab!Aspects
    BY <2>0, <2>2 DEF Collab!Noted
  <2> QED BY <2>1, <2>2
<1>6. doc \in CollabDoc /\ Ends(doc)
  <2>1. q.doc \in CollabDoc /\ Ends(q.doc)
    BY <1>0, <1>1 DEF CollabPage
  <2> HIDE DEF q
  <2>2. Collab!Possible(q.doc, op) => Collab!Effect(q.doc, op) \in CollabDoc /\ Ends(Collab!Effect(q.doc, op))
    BY <1>0, <1>2, <2>1, CollabEffect
  <2> QED BY <2>1, <2>2
<1> HIDE DEF q, doc, seen
<1>7. x \in CollabPage(n) /\ Ends(x.doc)
  <2>1. Ends(q.doc)
    BY <1>0, <1>1
  <2> QED BY <1>1, <1>5, <1>6, <2>1 DEF CollabPage
<1> HIDE DEF x
<1>8. page' \in [Peers -> CollabPage(n)] /\ \A r \in Peers : Ends(page'[r].doc)
  BY <1>0, <1>3, <1>7
<1> QED BY <1>4, <1>8 DEF CollabInv

\* Every step keeps the invariant.
LEMMA CollabStep ==
  ASSUME Collab!CollabAssumption, CollabInv, [Collab!Next]_<<page, wire, srv>>
  PROVE  CollabInv'
<1>1. CASE UNCHANGED <<page, wire, srv>>
  BY <1>1 DEF CollabInv
<1>2. ASSUME NEW p \in Peers, NEW e \in Collab!Elements, NEW kind \in CollabKinds, Collab!Edit(p, kind, e)
      PROVE  CollabInv'
  BY <1>2, CollabEdit
<1>3. ASSUME NEW p \in Peers,
             \/ Collab!Save(p) \/ Collab!Reload(p) \/ Collab!Dismiss(p) \/ Collab!StopCollab(p) \/ Collab!StartCollab(p)
             \/ Collab!BroadcastSelection(p) \/ Collab!Heartbeat(p)
             \/ \E e \in Collab!Elements : Collab!Select(p, e)
      PROVE  CollabInv'
  BY <1>3, CollabQuiet
<1>4. ASSUME NEW op \in wire, Collab!Number(op) \/ Collab!LosePost(op)
      PROVE  CollabInv'
  BY <1>4, CollabNumber
<1>5. ASSUME NEW p \in Peers, NEW op \in page[p].inbox, Collab!OnRemoteOp(p, op)
      PROVE  CollabInv'
  BY <1>5, CollabRemote
<1> QED BY <1>1, <1>2, <1>3, <1>4, <1>5 DEF Collab!Next, CollabKinds

\* Several people on one draft keep the invariant, with posts that are lost,
\* sessions that end and begin, and operations that come in any order
\* (definition-workbench.js): no canvas and no draft has a line without its
\* ends, and no more operations are numbered than the changes tell.
THEOREM CollabInvariance ==
  ASSUME Collab!CollabAssumption
  PROVE  Collab!Spec => []CollabInv
<1>1. Collab!Init => CollabInv
  <2> SUFFICES ASSUME Collab!Init PROVE CollabInv
    OBVIOUS
  <2>1. 0 \in 0..MaxChanges /\ 0 \in 0..0 /\ MaxChanges \in Nat
    BY DEF Collab!CollabAssumption
  <2>2. Collab!Start \in CollabDoc /\ Ends(Collab!Start)
    <3>1. \A e \in Collab!Elements : [there |-> e # Line, value |-> 0, place |-> 0] \in [there : BOOLEAN, value : 0..MaxChanges, place : 0..MaxChanges]
      BY <2>1
    <3>2. Collab!Start \in CollabDoc
      BY <3>1 DEF Collab!Start, CollabDoc
    <3>3. Line \in Collab!Elements
      BY DEF Collab!Elements
    <3>4. ~Collab!Start[Line].there
      BY <3>3 DEF Collab!Start
    <3> QED BY <3>2, <3>4 DEF Ends
  <2>3. Collab!NothingSeen \in [Collab!Elements \X Collab!Aspects -> 0..0]
    BY <2>1 DEF Collab!NothingSeen
  <2>4. /\ srv = [seq |-> 0, draft |-> Collab!Start, roster |-> [p \in Peers |-> None], changes |-> 0]
        /\ wire = {}
    BY DEF Collab!Init
  <2>5. srv \in CollabServer /\ srv.seq = 0 /\ srv.draft = Collab!Start /\ srv.changes = 0
    BY <2>1, <2>2, <2>4 DEF CollabServer
  <2> DEFINE x == [on |-> TRUE, doc |-> Collab!Start, seen |-> Collab!NothingSeen, inbox |-> {}, notice |-> FALSE, since |-> 0,
                   selection |-> None, waiting |-> FALSE, marks |-> {}]
  <2>6. page = [p \in Peers |-> x]
    BY DEF Collab!Init
  <2>7. x \in CollabPage(0) /\ x.doc = Collab!Start
    BY <2>1, <2>2, <2>3 DEF CollabPage
  <2> HIDE DEF x
  <2>8. page \in [Peers -> CollabPage(srv.seq)] /\ \A p \in Peers : Ends(page[p].doc)
    BY <2>2, <2>5, <2>6, <2>7
  <2>9. IsFiniteSet(wire) /\ Cardinality(wire) = 0 /\ wire \subseteq Operations({0})
    BY <2>4, FS_EmptySet
  <2>10. srv.seq + Cardinality(wire) <= Cardinality(Collab!Elements) * srv.changes
    BY <2>5, <2>9, CollabSize
  <2> QED BY <2>2, <2>5, <2>8, <2>9, <2>10 DEF CollabInv
<1>2. CollabInv /\ [Collab!Next]_Collab!vars => CollabInv'
  BY CollabStep DEF Collab!vars
<1> QED BY <1>1, <1>2, PTL DEF Collab!Spec

\* The pages keep to their types: no number is seen that the service has not
\* given.
THEOREM CollabTyped ==
  ASSUME Collab!CollabAssumption
  PROVE  Collab!Spec => []Collab!TypeOK
<1>1. CollabInv => Collab!TypeOK
  BY DEF CollabInv, CollabPage, CollabDoc, CollabKinds, Operations, Collab!TypeOK
<1> QED BY <1>1, CollabInvariance, PTL

\* A line never hangs in the air, on any page, whatever the order in which
\* creations and removals of others arrive.
THEOREM CollabLines ==
  ASSUME Collab!CollabAssumption
  PROVE  Collab!Spec => []Collab!LinesHaveEnds
<1>1. CollabInv => Collab!LinesHaveEnds
  BY DEF CollabInv, Ends, Collab!LinesHaveEnds
<1> QED BY <1>1, CollabInvariance, PTL

\* Replays are not posted again: no more operations are numbered than the
\* changes of the users tell.
THEOREM CollabNoEcho ==
  ASSUME Collab!CollabAssumption
  PROVE  Collab!Spec => []Collab!NoEchoStorm
<1>1. CollabInv => Collab!NoEchoStorm
  BY DEF CollabInv, Collab!NoEchoStorm, Cardinality, Collab!Cardinality
<1> QED BY <1>1, CollabInvariance, PTL

-----------------------------------------------------------------------------
(* Subflows in place: the canvas, the way back, the requests and the       *)
(* bindings of the service.                                                *)

Subflow == INSTANCE FlowSubflow WITH MaxWire <- MaxChain

Processes == Keys \cup {Main, None}

SubDiagram(d) == d = [f \in {"of", "unsaved", "blank"} |-> d[f]] /\ d.of \in Processes

SubNav(v) ==
  /\ v = [f \in {"target", "place", "main", "mainKey", "mainDirty", "variants"} |-> v[f]]
  /\ v.target \in Processes /\ v.place \in Places \cup {None} /\ SubDiagram(v.main) /\ v.mainKey \in Processes
  /\ v.variants \in [Places -> Processes]

\* What the page lists is stored.
SubPage(p, drafts) ==
  /\ p = [f \in {"nav", "canvas", "selected", "dirty", "frame", "dialog", "bindings", "defs", "changes"} |-> p[f]]
  /\ SubDiagram(p.canvas) /\ p.selected \in Processes /\ (p.nav # None => SubNav(p.nav)) /\ p.defs \subseteq drafts

\* What may be asked, when the drafts are the given ones: only what has
\* been stored is bound, and what has been saved is stored.
SubAsks(kind, key, place, status, drafts) ==
  /\ key \in Processes /\ status \in {"asked", "done", "failed"}
  /\ kind = "save" => key \in Keys \cup {Main} /\ place \in Places \cup {None} /\ (status = "done" => key \in drafts)
  /\ kind \in {"bind", "rebind"} => key \in drafts /\ place \in Places
  /\ kind = "unbind" => key = None /\ place \in Places

SubWire(w, drafts) ==
  /\ Framed(w, {"kind", "key", "place", "late", "new", "blank"})
  /\ \A r \in w : SubAsks(r.kind, r.key, r.place, r.status, drafts)

SubServer ==
  /\ srv = [f \in {"drafts", "bound"} |-> srv[f]]
  /\ srv.drafts \subseteq Keys \cup {Main} /\ Main \in srv.drafts
  /\ srv.bound \in [Places -> Processes] /\ \A o \in Places : srv.bound[o] = None \/ srv.bound[o] \in srv.drafts

SubInv == SubPage(page, srv.drafts) /\ SubWire(wire, srv.drafts) /\ SubServer

\* A request sent is one more of its kind.
LEMMA SubSends ==
  ASSUME SubWire(wire, srv.drafts), NEW p, NEW kind, NEW k, NEW o, SubAsks(kind, k, o, "asked", srv.drafts),
         Subflow!Send(p, kind, k, o)
  PROVE  page' = p /\ SubWire(wire', srv'.drafts) /\ srv' = srv
<1> DEFINE a == Subflow!Ask(kind, k, o)
           fields == {"kind", "key", "place", "late", "new", "blank"}
<1>1. /\ page' = p /\ srv' = srv /\ wire' = Sent(wire, MaxChain, a)
  BY DEF Subflow!Send, Subflow!Sent, Sent, Subflow!FreeNumber, FreeNumber, Subflow!Min, Min
<1>2. DOMAIN a = fields /\ a.kind = kind /\ a.key = k /\ a.place = o
  BY DEF Subflow!Ask
<1>3. "n" \notin fields /\ "status" \notin fields
  OBVIOUS
<1> HIDE DEF a, fields
<1>4. PICK r : /\ Sent(wire, MaxChain, a) = wire \cup {r}
               /\ \A f \in fields : r[f] = a[f]
               /\ r.status = "asked"
               /\ Framed(wire, fields) => Framed(Sent(wire, MaxChain, a), fields)
  BY <1>2, <1>3, SentAdds
<1>5. r.kind = kind /\ r.key = k /\ r.place = o
  BY <1>2, <1>4 DEF fields
<1>6. Framed(wire', fields)
  BY <1>1, <1>4 DEF SubWire, fields
<1>7. \A q \in wire' : SubAsks(q.kind, q.key, q.place, q.status, srv'.drafts)
  BY <1>1, <1>4, <1>5 DEF SubWire
<1> QED BY <1>1, <1>6, <1>7 DEF SubWire, fields

\* The page goes on from an answer with the next request.
LEMMA SubGoes ==
  ASSUME SubWire(wire, srv.drafts), NEW r \in wire, NEW p, NEW kind, NEW k, NEW o,
         SubAsks(kind, k, o, "asked", srv.drafts), Subflow!Go(r, p, kind, k, o), srv' = srv
  PROVE  page' = p /\ SubWire(wire', srv'.drafts)
<1> DEFINE a == [r EXCEPT !.kind = kind, !.key = k, !.place = o, !.blank = page.canvas.blank, !.status = "asked"]
           fields == {"kind", "key", "place", "late", "new", "blank"}
<1>1. page' = p /\ wire' = (wire \ {r}) \cup {a}
  BY DEF Subflow!Go, Subflow!Settled
<1>2. r = [f \in fields \cup {"n", "status"} |-> r[f]]
  BY DEF SubWire, Framed
<1>3. a = [f \in fields \cup {"n", "status"} |-> a[f]] /\ a.kind = kind /\ a.key = k /\ a.place = o /\ a.status = "asked"
  BY <1>2
<1> HIDE DEF a
<1>4. Framed(wire', fields)
  BY <1>1, <1>3 DEF SubWire, Framed
<1>5. \A q \in wire' : SubAsks(q.kind, q.key, q.place, q.status, srv'.drafts)
  BY <1>1, <1>3 DEF SubWire
<1> QED BY <1>1, <1>4, <1>5 DEF SubWire, fields

\* A request is dropped when its answer has been read.
LEMMA SubDrops ==
  ASSUME SubWire(wire, srv.drafts), wire' \subseteq wire, srv' = srv
  PROVE  SubWire(wire', srv'.drafts)
BY DEF SubWire, Framed

\* The page shows another diagram.
LEMMA SubShows ==
  ASSUME NEW p, SubPage(p, srv.drafts), NEW d, SubDiagram(d)
  PROVE  LET q == Subflow!OpenDiagram(p, d)
         IN  SubPage(q, srv.drafts) /\ q.nav = p.nav /\ q.canvas = d
BY DEF Subflow!OpenDiagram, SubPage

\* Aiming at another subflow.
LEMMA SubAims ==
  ASSUME NEW p, SubPage(p, srv.drafts), NEW k \in Processes
  PROVE  SubPage(Subflow!AimAt(p, k), srv.drafts)
<1>1. CASE p.nav = None
  BY <1>1 DEF Subflow!AimAt
<1>2. CASE p.nav # None
  <2> DEFINE v == [[p.nav EXCEPT !.target = k] EXCEPT !.place = None]
  <2>1. SubNav(p.nav)
    BY <1>2 DEF SubPage
  <2>2. SubNav(v)
    BY <2>1 DEF SubNav
  <2>3. Subflow!AimAt(p, k) = [p EXCEPT !.nav = v]
    BY <1>2 DEF Subflow!AimAt, SubPage
  <2> HIDE DEF v
  <2> QED BY <2>2, <2>3 DEF SubPage
<1> QED BY <1>1, <1>2

\* A template for a value of the dimension.
LEMMA SubNew ==
  ASSUME NEW p, SubPage(p, srv.drafts), SubNav(p.nav), NEW o \in Places \cup {None}
  PROVE  SubPage(Subflow!LoadSubflowNew(p, o), srv.drafts)
<1> DEFINE d == Subflow!Template(None)
           q == Subflow!OpenDiagram(p, d)
           v == [[p.nav EXCEPT !.target = None] EXCEPT !.place = o]
<1>1. SubDiagram(d)
  BY DEF Subflow!Template, SubDiagram, Processes
<1>2. SubPage(q, srv.drafts) /\ q.nav = p.nav
  BY <1>1, SubShows
<1>3. SubNav(v)
  BY DEF SubNav, Processes
<1>4. Subflow!LoadSubflowNew(p, o) = [[[q EXCEPT !.nav = v] EXCEPT !.selected = None] EXCEPT !.dirty = FALSE]
  BY <1>2 DEF Subflow!LoadSubflowNew, SubPage
<1> HIDE DEF v, q, d
<1> QED BY <1>2, <1>3, <1>4 DEF SubPage, Processes

\* The list of the variants is taken over.
LEMMA SubLists ==
  ASSUME NEW p, SubPage(p, srv.drafts), p.nav # None, NEW b \in [Places -> Processes]
  PROVE  LET q == [p EXCEPT !.nav.variants = b] IN SubPage(q, srv.drafts) /\ SubNav(q.nav)
<1> DEFINE v == [p.nav EXCEPT !.variants = b]
<1>1. SubNav(p.nav)
  BY DEF SubPage
<1>2. SubNav(v) /\ v.variants = b
  BY <1>1 DEF SubNav
<1>3. [p EXCEPT !.nav.variants = b] = [p EXCEPT !.nav = v]
  BY DEF SubPage
<1> HIDE DEF v
<1> QED BY <1>2, <1>3 DEF SubPage

\* Going to a subflow and back, and editing what is shown.
LEMMA SubEdits ==
  ASSUME SubInv,
         \/ Subflow!EditCanvas \/ Subflow!Frame \/ Subflow!BackToMain \/ Subflow!CloseBindingDialog
         \/ \E o \in Places : Subflow!SubNewVariantForOrg(o)
  PROVE  SubInv'
<1>0. SubPage(page, srv.drafts) /\ SubWire(wire, srv.drafts) /\ SubServer /\ SubDiagram(page.canvas)
  BY DEF SubInv, SubPage
<1>1. srv' = srv /\ SubServer'
  BY <1>0 DEF Subflow!EditCanvas, Subflow!Frame, Subflow!BackToMain, Subflow!CloseBindingDialog,
       Subflow!SubNewVariantForOrg, SubServer
<1>2. CASE wire' = wire /\ SubPage(page', srv.drafts)
  BY <1>0, <1>1, <1>2, SubDrops DEF SubInv
<1>3. CASE Subflow!EditCanvas
  <2> DEFINE d == [page.canvas EXCEPT !.unsaved = TRUE]
  <2>1. SubDiagram(d)
    BY <1>0 DEF SubDiagram
  <2>2. page' = [[[page EXCEPT !.canvas = d] EXCEPT !.dirty = TRUE] EXCEPT !.changes = page.changes + 1]
    BY <1>0, <1>3 DEF Subflow!EditCanvas, Subflow!Counted, SubPage
  <2> HIDE DEF d
  <2>3. SubPage(page', srv.drafts)
    BY <1>0, <2>1, <2>2 DEF SubPage
  <2> QED BY <1>2, <1>3, <2>3 DEF Subflow!EditCanvas
<1>4. CASE Subflow!Frame \/ Subflow!CloseBindingDialog
  <2>1. SubPage(page', srv.drafts)
    BY <1>0, <1>4 DEF Subflow!Frame, Subflow!CloseBindingDialog, SubPage
  <2> QED BY <1>2, <1>4, <2>1 DEF Subflow!Frame, Subflow!CloseBindingDialog
<1>5. CASE \E o \in Places : Subflow!SubNewVariantForOrg(o)
  <2>1. PICK o \in Places : Subflow!SubNewVariantForOrg(o)
    BY <1>5
  <2> DEFINE q == Subflow!LoadSubflowNew(page, o)
  <2>2. SubPage(q, srv.drafts)
    BY <1>0, <2>1, SubNew DEF Subflow!SubNewVariantForOrg, Subflow!InSubflow, SubPage
  <2>3. page' = [q EXCEPT !.changes = q.changes + 1]
    BY <2>1 DEF Subflow!SubNewVariantForOrg, Subflow!Counted
  <2> HIDE DEF q
  <2>4. SubPage(page', srv.drafts)
    BY <2>2, <2>3 DEF SubPage
  <2> QED BY <1>2, <2>1, <2>4 DEF Subflow!SubNewVariantForOrg
<1>6. CASE Subflow!BackToMain
  <2>1. SubNav(page.nav) /\ SubDiagram(page.nav.main)
    BY <1>0, <1>6 DEF Subflow!BackToMain, Subflow!InSubflow, SubPage, SubNav
  <2> DEFINE q == Subflow!OpenDiagram(page, page.nav.main)
  <2>2. SubPage(q, srv.drafts)
    BY <1>0, <2>1, SubShows
  <2>3. page' = [[[q EXCEPT !.nav = None] EXCEPT !.selected = page.nav.mainKey] EXCEPT !.dirty = page.nav.mainDirty]
    BY <1>6 DEF Subflow!BackToMain
  <2> HIDE DEF q
  <2>4. SubPage(page', srv.drafts)
    BY <2>1, <2>2, <2>3 DEF SubPage, SubNav
  <2>5. wire' = {[r EXCEPT !.late = TRUE, !.new = IF r.late THEN @ ELSE page.nav.target # r.key] : r \in wire}
    BY <1>6 DEF Subflow!BackToMain
  <2>6. ASSUME NEW q2 \in wire'
        PROVE  /\ q2 = [f \in {"kind", "key", "place", "late", "new", "blank"} \cup {"n", "status"} |-> q2[f]]
               /\ SubAsks(q2.kind, q2.key, q2.place, q2.status, srv.drafts)
    <3>1. PICK r \in wire : q2 = [r EXCEPT !.late = TRUE, !.new = IF r.late THEN @ ELSE page.nav.target # r.key]
      BY <2>5, <2>6
    <3>2. r = [f \in {"kind", "key", "place", "late", "new", "blank"} \cup {"n", "status"} |-> r[f]]
      BY <1>0 DEF SubWire, Framed
    <3>3. SubAsks(r.kind, r.key, r.place, r.status, srv.drafts)
      BY <1>0 DEF SubWire
    <3>4. q2.kind = r.kind /\ q2.key = r.key /\ q2.place = r.place /\ q2.status = r.status
      BY <3>1, <3>2
    <3> QED BY <3>1, <3>2, <3>3, <3>4
  <2>7. SubWire(wire', srv'.drafts)
    BY <1>1, <2>6 DEF SubWire, Framed
  <2> QED BY <1>1, <2>4, <2>7 DEF SubInv
<1> QED BY <1>3, <1>4, <1>5, <1>6

\* Sending what the user asks for.
LEMMA SubAsked ==
  ASSUME SubInv, Subflow!SubflowAssumption,
         \/ Subflow!OpenSubflow \/ Subflow!SubSave \/ Subflow!LoadDefs \/ Subflow!OpenBindingDialog
         \/ \E k \in Keys \union {Main} : Subflow!SelectSubVariant(k) \/ \E o \in Places : Subflow!SaveBinding(o, k)
         \/ \E o \in Places : Subflow!DeleteBinding(o)
  PROVE  SubInv'
<1>0. SubPage(page, srv.drafts) /\ SubWire(wire, srv.drafts) /\ SubServer /\ SubDiagram(page.canvas)
  BY DEF SubInv, SubPage
<1>1. ASSUME NEW p, SubPage(p, srv.drafts), NEW kind, NEW k, NEW o, SubAsks(kind, k, o, "asked", srv.drafts),
             Subflow!Send(p, kind, k, o)
      PROVE  SubInv'
  BY <1>0, <1>1, SubSends DEF SubInv, SubServer
<1>2. SubPage(Subflow!Counted(page), srv.drafts)
  BY <1>0 DEF Subflow!Counted, SubPage
<1>3. CASE Subflow!OpenSubflow
  <2> DEFINE v == Subflow!Navigation
  <2>1. SubNav(v)
    BY <1>0 DEF SubNav, Subflow!Navigation, Subflow!NoBindings, Processes, SubPage
  <2> HIDE DEF v
  <2>2. SubPage([page EXCEPT !.nav = v], srv.drafts)
    BY <1>0, <2>1 DEF SubPage
  <2>3. SubAsks("open", None, None, "asked", srv.drafts)
    BY DEF SubAsks, Processes
  <2> QED BY <1>1, <1>3, <2>2, <2>3 DEF Subflow!OpenSubflow, v
<1>4. CASE Subflow!SubSave
  <2>1. PICK k \in Subflow!SubKeys : Subflow!Send(Subflow!Counted(page), "save", k, page.nav.place)
    BY <1>4 DEF Subflow!SubSave
  <2>2. k \in Keys \cup {Main}
    BY <1>0, <2>1 DEF Subflow!SubKeys, Subflow!FreeKeys, SubDiagram, Processes
  <2>4. page.nav.place \in Places \cup {None}
    BY <1>0, <1>4 DEF Subflow!SubSave, Subflow!InSubflow, SubPage, SubNav
  <2>3. SubAsks("save", k, page.nav.place, "asked", srv.drafts)
    BY <2>2, <2>4 DEF SubAsks, Processes
  <2> QED BY <1>1, <1>2, <2>1, <2>3
<1>5. CASE Subflow!OpenBindingDialog
  <2> DEFINE p == [page EXCEPT !.dialog = TRUE, !.bindings = Subflow!NoBindings]
  <2>1. SubPage(p, srv.drafts)
    BY <1>0 DEF SubPage
  <2>2. SubAsks("list", None, None, "asked", srv.drafts)
    BY DEF SubAsks, Processes
  <2>3. Subflow!Send(p, "list", None, None)
    BY <1>5 DEF Subflow!OpenBindingDialog
  <2> QED BY <1>1, <2>1, <2>2, <2>3
<1>6. CASE \E k \in Keys \union {Main} : Subflow!SelectSubVariant(k)
  <2>1. PICK k \in Keys \cup {Main} : Subflow!Send(Subflow!AimAt(page, k), "detail", k, None)
    BY <1>6 DEF Subflow!SelectSubVariant
  <2>2. SubPage(Subflow!AimAt(page, k), srv.drafts)
    BY <1>0, SubAims DEF Processes
  <2>3. SubAsks("detail", k, None, "asked", srv.drafts)
    BY DEF SubAsks, Processes
  <2> QED BY <1>1, <2>1, <2>2, <2>3
<1>7. CASE \E k \in Keys \union {Main} : \E o \in Places : Subflow!SaveBinding(o, k)
  <2>1. PICK k \in Keys \cup {Main}, o \in Places : Subflow!SaveBinding(o, k)
    BY <1>7
  <2>2. SubAsks("rebind", k, o, "asked", srv.drafts)
    BY <1>0, <2>1 DEF SubAsks, Processes, Subflow!SaveBinding, Subflow!Targets, SubPage
  <2> QED BY <1>1, <1>2, <2>1, <2>2 DEF Subflow!SaveBinding
<1>8. CASE \E o \in Places : Subflow!DeleteBinding(o)
  <2>1. PICK o \in Places : Subflow!DeleteBinding(o)
    BY <1>8
  <2>2. SubAsks("unbind", None, o, "asked", srv.drafts)
    BY DEF SubAsks, Processes
  <2> QED BY <1>1, <1>2, <2>1, <2>2 DEF Subflow!DeleteBinding
<1>9. CASE Subflow!LoadDefs
  <2>1. SubAsks("defs", None, None, "asked", srv.drafts)
    BY DEF SubAsks, Processes
  <2> QED BY <1>0, <1>1, <1>9, <2>1 DEF Subflow!LoadDefs
<1> QED BY <1>3, <1>4, <1>5, <1>6, <1>7, <1>8, <1>9

\* Reading the answers.
LEMMA SubAnswers ==
  ASSUME SubInv, Subflow!SubflowAssumption, NEW r \in wire, Subflow!Answer(r)
  PROVE  SubInv'
<1>0. SubPage(page, srv.drafts) /\ SubWire(wire, srv.drafts) /\ SubServer /\ SubDiagram(page.canvas)
  BY DEF SubInv, SubPage
<1>1. srv' = srv /\ SubServer'
  BY <1>0 DEF Subflow!Answer, Subflow!VariantsAnswer, Subflow!SubLoaded, Subflow!SubSaved, Subflow!SubBound,
       Subflow!SubListed, Subflow!DefsLoaded, Subflow!Reloaded, Subflow!BindingsListed, Subflow!BindingChanged, SubServer
<1>2. ASSUME NEW p, SubPage(p, srv.drafts), NEW kind, NEW k, NEW o, SubAsks(kind, k, o, "asked", srv.drafts),
             Subflow!Go(r, p, kind, k, o)
      PROVE  SubInv'
  BY <1>0, <1>1, <1>2, SubGoes DEF SubInv
<1>3. ASSUME SubPage(page', srv.drafts), wire' = wire \ {r}
      PROVE  SubInv'
  BY <1>0, <1>1, <1>3, SubDrops DEF SubInv
<1>4. SubAsks(r.kind, r.key, r.place, r.status, srv.drafts)
  BY <1>0 DEF SubWire
<1>5. Subflow!NoBindings \in [Places -> Processes] /\ srv.bound \in [Places -> Processes]
  BY <1>0 DEF Subflow!NoBindings, Processes, SubServer
<1>13. ASSUME NEW p, SubPage(p, srv.drafts), NEW k \in Processes, Subflow!Reload(r, p, k)
       PROVE  SubInv'
  <2>1. Subflow!Go(r, p, "variants", k, None) \/ Subflow!Go(r, p, "defs", k, None)
    BY <1>13 DEF Subflow!Reload
  <2>2. SubAsks("variants", k, None, "asked", srv.drafts) /\ SubAsks("defs", k, None, "asked", srv.drafts)
    BY <1>13 DEF SubAsks
  <2> QED BY <1>2, <1>13, <2>1, <2>2
<1>6. CASE Subflow!VariantsAnswer(r)
  <2> DEFINE bound == IF r.status = "done" THEN srv.bound ELSE Subflow!NoBindings
             p == IF Subflow!InSubflow THEN [page EXCEPT !.nav.variants = bound] ELSE page
  <2>1. bound \in [Places -> Processes]
    BY <1>5
  <2>2. \/ page' = page /\ wire' = wire \ {r}
        \/ Subflow!InSubflow /\ page' = Subflow!LoadSubflowNew(p, None) /\ wire' = wire \ {r}
        \/ \E k \in Subflow!FirstVariant(bound) : Subflow!Go(r, Subflow!AimAt(p, k), "detail", k, None)
    BY <1>6 DEF Subflow!VariantsAnswer
  <2> HIDE DEF bound
  <2>3. SubPage(p, srv.drafts) /\ (Subflow!InSubflow => SubNav(p.nav))
    BY <1>0, <2>1, SubLists DEF Subflow!InSubflow
  <2>4. \A k \in Subflow!FirstVariant(bound) : k \in Processes
    BY <2>1 DEF Subflow!FirstVariant, Subflow!Known, Subflow!SubflowAssumption
  <2> HIDE DEF p
  <2>5. CASE page' = page /\ wire' = wire \ {r}
    BY <1>0, <1>3, <2>5
  <2>6. CASE Subflow!InSubflow /\ page' = Subflow!LoadSubflowNew(p, None) /\ wire' = wire \ {r}
    <3>1. SubPage(Subflow!LoadSubflowNew(p, None), srv.drafts)
      BY <2>3, <2>6, SubNew
    <3> QED BY <1>3, <2>6, <3>1
  <2>7. CASE \E k \in Subflow!FirstVariant(bound) : Subflow!Go(r, Subflow!AimAt(p, k), "detail", k, None)
    <3>1. PICK k \in Subflow!FirstVariant(bound) : Subflow!Go(r, Subflow!AimAt(p, k), "detail", k, None)
      BY <2>7
    <3>2. SubPage(Subflow!AimAt(p, k), srv.drafts)
      BY <2>3, <2>4, SubAims
    <3>3. SubAsks("detail", k, None, "asked", srv.drafts)
      BY <2>4 DEF SubAsks
    <3> QED BY <1>2, <3>1, <3>2, <3>3
  <2> QED BY <2>2, <2>5, <2>6, <2>7
<1>7. CASE Subflow!SubLoaded(r)
  <2>1. PICK d \in {Subflow!Diagram(r.key), Subflow!Template(r.key)}, dirty \in BOOLEAN :
          page' = [[Subflow!OpenDiagram(page, d) EXCEPT !.selected = r.key] EXCEPT !.dirty = dirty]
    <3> DEFINE exists == r.status = "done" /\ r.key \in srv.drafts
               d == IF exists THEN Subflow!Diagram(r.key) ELSE Subflow!Template(r.key)
    <3>1. page' = [[Subflow!OpenDiagram(page, d) EXCEPT !.selected = r.key] EXCEPT !.dirty = ~exists]
      BY <1>7 DEF Subflow!SubLoaded
    <3>2. d \in {Subflow!Diagram(r.key), Subflow!Template(r.key)} /\ (~exists) \in BOOLEAN
      OBVIOUS
    <3> QED BY <3>1, <3>2
  <2> DEFINE q == Subflow!OpenDiagram(page, d)
  <2>2. SubDiagram(d)
    BY <1>4 DEF SubDiagram, Subflow!Diagram, Subflow!Template, SubAsks
  <2>3. SubPage(q, srv.drafts)
    BY <1>0, <2>2, SubShows
  <2>4. r.key \in Processes
    BY <1>4 DEF SubAsks
  <2> HIDE DEF q
  <2>5. SubPage(page', srv.drafts)
    BY <2>1, <2>3, <2>4 DEF SubPage, q
  <2> QED BY <1>3, <1>7, <2>5 DEF Subflow!SubLoaded
<1>8. CASE Subflow!SubSaved(r)
  <2>1. CASE r.status = "failed"
    BY <1>0, <1>3, <1>8, <2>1 DEF Subflow!SubSaved
  <2>2. CASE r.status # "failed"
    <3> DEFINE in == Subflow!InSubflow /\ ~r.late
               new == IF in THEN page.nav.target # r.key ELSE r.new
               place == IF in THEN page.nav.place ELSE r.place
               d == [page.canvas EXCEPT !.unsaved = IF r.late THEN @ ELSE FALSE]
               v == IF in THEN [page.nav EXCEPT !.target = r.key] ELSE page.nav
               p == [[[[page EXCEPT !.selected = r.key] EXCEPT !.dirty = FALSE] EXCEPT !.canvas = d] EXCEPT !.nav = v]
    <3>1. IF new /\ place # None THEN Subflow!Go(r, p, "bind", r.key, place)
          ELSE Subflow!Reload(r, p, IF new THEN r.key ELSE None)
      BY <1>0, <1>8, <2>2 DEF Subflow!SubSaved, SubPage
    <3>2. r.key \in srv.drafts /\ r.key \in Processes /\ r.place \in Places \cup {None}
      <4>1. r.kind = "save" /\ r.status # "asked"
        BY <1>8 DEF Subflow!SubSaved
      <4> QED BY <1>4, <2>2, <4>1 DEF SubAsks
    <3>3. SubDiagram(d)
      BY <1>0 DEF SubDiagram
    <3>4. page.nav # None => SubNav(v)
      <4>1. page.nav # None => SubNav(page.nav)
        BY <1>0 DEF SubPage
      <4> QED BY <3>2, <4>1 DEF SubNav
    <3>5. v # None => page.nav # None
      BY DEF Subflow!InSubflow
    <3>6. in => page.nav # None
      BY DEF Subflow!InSubflow
    <3>7. place \in Places \cup {None}
      BY <1>0, <3>2, <3>6 DEF SubPage, SubNav
    <3>8. (IF new THEN r.key ELSE None) \in Processes
      BY <3>2 DEF Processes
    <3> HIDE DEF in, v, d, place, new
    <3>9. SubPage(p, srv.drafts)
      BY <1>0, <3>2, <3>3, <3>4, <3>5 DEF SubPage
    <3> HIDE DEF p
    <3>10. CASE new /\ place # None
      <4>1. SubAsks("bind", r.key, place, "asked", srv.drafts)
        BY <3>2, <3>7, <3>10 DEF SubAsks
      <4> QED BY <1>2, <3>1, <3>9, <3>10, <4>1
    <3>11. CASE ~(new /\ place # None)
      BY <1>13, <3>1, <3>8, <3>9, <3>11
    <3> QED BY <3>10, <3>11
  <2> QED BY <2>1, <2>2
<1>9. CASE Subflow!SubBound(r)
  <2>1. CASE r.status = "failed"
    BY <1>0, <1>3, <1>9, <2>1 DEF Subflow!SubBound
  <2>2. CASE r.status # "failed"
    <3> DEFINE in == Subflow!InSubflow /\ ~r.late
               v == [page.nav EXCEPT !.place = None]
               p == IF in THEN [page EXCEPT !.nav = v] ELSE page
    <3>1. Subflow!Reload(r, p, r.key)
      BY <1>0, <1>9, <2>2 DEF Subflow!SubBound, SubPage
    <3>2. in => SubNav(v)
      <4>1. in => SubNav(page.nav)
        BY <1>0 DEF SubPage, Subflow!InSubflow
      <4> QED BY <4>1 DEF SubNav
    <3> HIDE DEF in, v
    <3>3. SubPage(p, srv.drafts)
      BY <1>0, <3>2 DEF SubPage
    <3>4. r.key \in Processes
      BY <1>4 DEF SubAsks
    <3> QED BY <1>13, <3>1, <3>3, <3>4
  <2> QED BY <2>1, <2>2
<1>10. CASE Subflow!SubListed(r)
  <2>1. CASE ~Subflow!InSubflow
    BY <1>0, <1>3, <1>10, <2>1 DEF Subflow!SubListed
  <2>2. CASE Subflow!InSubflow
    <3> DEFINE bound == IF r.status = "done" THEN srv.bound ELSE Subflow!NoBindings
               p == [page EXCEPT !.nav.variants = bound]
    <3>1. bound \in [Places -> Processes]
      BY <1>5
    <3>2. Subflow!Go(r, p, "defs", r.key, None)
      BY <1>10, <2>2 DEF Subflow!SubListed
    <3> HIDE DEF bound
    <3>3. SubPage(p, srv.drafts)
      BY <1>0, <2>2, <3>1, SubLists DEF Subflow!InSubflow
    <3>4. SubAsks("defs", r.key, None, "asked", srv.drafts)
      BY <1>4 DEF SubAsks
    <3> HIDE DEF p
    <3> QED BY <1>2, <3>2, <3>3, <3>4
  <2> QED BY <2>1, <2>2
<1>14. CASE Subflow!DefsLoaded(r)
  <2> DEFINE p == [page EXCEPT !.defs = IF r.status = "done" THEN Subflow!Listed(srv.drafts) ELSE {}]
  <2>1. SubPage(p, srv.drafts)
    BY <1>0 DEF SubPage, Subflow!Listed
  <2>2. Subflow!Go(r, p, "reload", r.key, None) \/ (page' = p /\ wire' = wire \ {r})
    BY <1>14 DEF Subflow!DefsLoaded
  <2>3. SubAsks("reload", r.key, None, "asked", srv.drafts)
    BY <1>4 DEF SubAsks
  <2> HIDE DEF p
  <2> QED BY <1>2, <1>3, <2>1, <2>2, <2>3
<1>15. CASE Subflow!Reloaded(r)
  <2> DEFINE d == Subflow!Diagram(r.key)
             q == Subflow!OpenDiagram(page, d)
  <2>1. SubDiagram(d)
    BY <1>4 DEF SubDiagram, Subflow!Diagram, SubAsks
  <2>2. SubPage(q, srv.drafts)
    BY <1>0, <2>1, SubShows
  <2>3. page' = [q EXCEPT !.dirty = FALSE] \/ page' = page
    BY <1>15 DEF Subflow!Reloaded
  <2> HIDE DEF q, d
  <2>4. SubPage(page', srv.drafts)
    BY <1>0, <2>2, <2>3 DEF SubPage
  <2> QED BY <1>3, <1>15, <2>4 DEF Subflow!Reloaded
<1>11. CASE Subflow!BindingsListed(r)
  <2>1. SubPage(page', srv.drafts)
    BY <1>0, <1>11 DEF Subflow!BindingsListed, SubPage
  <2> QED BY <1>3, <1>11, <2>1 DEF Subflow!BindingsListed
<1>12. CASE Subflow!BindingChanged(r)
  <2>1. SubAsks("list", None, None, "asked", srv.drafts)
    BY DEF SubAsks, Processes
  <2>2. Subflow!Go(r, page, "list", None, None) \/ (page' = page /\ wire' = wire \ {r})
    BY <1>12 DEF Subflow!BindingChanged
  <2> QED BY <1>0, <1>2, <1>3, <2>1, <2>2
<1> QED BY <1>6, <1>7, <1>8, <1>9, <1>10, <1>11, <1>12, <1>14, <1>15 DEF Subflow!Answer

\* The service stores drafts and bindings, or refuses.
LEMMA SubServes ==
  ASSUME SubInv, NEW r \in wire, Subflow!Serve(r) \/ Subflow!Refuse(r)
  PROVE  SubInv'
<1>0. SubPage(page, srv.drafts) /\ SubWire(wire, srv.drafts) /\ SubServer
  BY DEF SubInv
<1> DEFINE fields == {"kind", "key", "place", "late", "new", "blank"}
<1>1. SubAsks(r.kind, r.key, r.place, r.status, srv.drafts) /\ Framed(wire, fields)
  BY <1>0 DEF SubWire
<1>2. PICK status \in {"done", "failed"} :
        /\ wire' = Settled(wire, r, [r EXCEPT !.status = status]) /\ page' = page
        /\ status = "done" => srv' = Subflow!Effect(r)
        /\ status = "failed" => srv' = srv
  BY DEF Subflow!Serve, Subflow!Refuse, Subflow!Refused, Subflow!Settled, Settled
<1> DEFINE a == [r EXCEPT !.status = status]
<1>3. /\ a.kind = r.kind /\ a.key = r.key /\ a.place = r.place /\ a.status = status
      /\ Framed(wire', fields) /\ wire' = (wire \ {r}) \cup {a}
  <2>1. SameBut(a, r, status) /\ DOMAIN r = fields \cup {"n", "status"} /\ Framed(Settled(wire, r, a), fields)
    BY <1>1, AnswerIs
  <2> HIDE DEF a
  <2> QED BY <1>2, <2>1 DEF SameBut, Settled, a
<1> HIDE DEF a
<1>4. SubServer' /\ srv.drafts \subseteq srv'.drafts /\ (r.kind = "save" /\ status = "done" => r.key \in srv'.drafts)
  <2>1. CASE srv' = srv /\ ~(r.kind = "save" /\ status = "done")
    BY <1>0, <2>1 DEF SubServer
  <2>2. CASE status = "done" /\ r.kind = "save"
    <3>1. srv' = [srv EXCEPT !.drafts = srv.drafts \cup {r.key}]
      BY <1>2, <2>2 DEF Subflow!Effect
    <3>2. r.key \in Keys \cup {Main}
      BY <1>1, <2>2 DEF SubAsks
    <3> QED BY <1>0, <3>1, <3>2 DEF SubServer
  <2>3. CASE status = "done" /\ r.kind \in {"bind", "rebind", "unbind"}
    <3> DEFINE b == [srv.bound EXCEPT ![r.place] = r.key]
    <3>1. srv' = [srv EXCEPT !.bound = b]
      BY <1>0, <1>2, <2>3 DEF Subflow!Effect, SubServer
    <3>2. r.key = None \/ r.key \in srv.drafts
      BY <1>1, <2>3 DEF SubAsks
    <3>3. b \in [Places -> Processes] /\ \A o \in Places : b[o] = None \/ b[o] \in srv.drafts
      BY <1>0, <3>2 DEF SubServer, Processes
    <3> HIDE DEF b
    <3>4. srv'.drafts = srv.drafts /\ srv'.bound = b /\ srv' = [f \in {"drafts", "bound"} |-> srv'[f]]
      BY <1>0, <3>1 DEF SubServer
    <3>5. r.kind # "save"
      BY <2>3
    <3> QED BY <1>0, <3>3, <3>4, <3>5 DEF SubServer
  <2> QED BY <1>2, <2>1, <2>2, <2>3 DEF Subflow!Effect
<1>5. ASSUME NEW q \in wire'
      PROVE  SubAsks(q.kind, q.key, q.place, q.status, srv'.drafts)
  <2>1. CASE q \in wire
    <3>1. SubAsks(q.kind, q.key, q.place, q.status, srv.drafts)
      BY <1>0, <2>1 DEF SubWire
    <3> QED BY <1>4, <3>1 DEF SubAsks
  <2>2. CASE q = a
    BY <1>1, <1>3, <1>4, <2>2 DEF SubAsks
  <2> QED BY <1>3, <2>1, <2>2
<1>6. SubPage(page', srv'.drafts)
  BY <1>0, <1>2, <1>4 DEF SubPage
<1> QED BY <1>3, <1>4, <1>5, <1>6 DEF SubInv, SubWire

\* Every step of the page and of the service keeps the invariant.
LEMMA SubStep ==
  ASSUME SubInv, Subflow!SubflowAssumption, [Subflow!Next]_Subflow!vars
  PROVE  SubInv'
<1>1. CASE UNCHANGED Subflow!vars
  BY <1>1 DEF Subflow!vars, SubInv, SubPage, SubWire, SubServer
<1>2. CASE Subflow!Next
  BY <1>2, SubEdits, SubAsked, SubAnswers, SubServes DEF Subflow!Next
<1> QED BY <1>1, <1>2

\* The page starts in the main process, with one subflow bound.
LEMMA SubStarts ==
  ASSUME Subflow!SubflowAssumption, Subflow!Init
  PROVE  SubInv
<1>1. SubPage(page, srv.drafts)
  <2>1. PICK shown \in {{}, Subflow!Listed(srv.drafts)} :
          page = [nav |-> None, canvas |-> Subflow!Diagram(Main), selected |-> Main, dirty |-> FALSE, frame |-> FALSE,
                  dialog |-> FALSE, bindings |-> Subflow!NoBindings, defs |-> shown, changes |-> 0]
    BY DEF Subflow!Init
  <2>2. shown \subseteq srv.drafts
    BY <2>1 DEF Subflow!Listed
  <2> QED BY <2>1, <2>2 DEF Subflow!Diagram, SubPage, SubDiagram, Processes
<1>2. SubWire(wire, srv.drafts)
  BY DEF Subflow!Init, SubWire, Framed
<1>3. SubServer
  <2>1. PICK k \in Keys : srv = [drafts |-> {Main, k}, bound |-> [Subflow!NoBindings EXCEPT ![Default] = k]]
    BY DEF Subflow!Init
  <2>2. Default \in Places
    BY DEF Subflow!SubflowAssumption
  <2>3. \A o \in Places : srv.bound[o] \in {None, k}
    BY <2>1, <2>2 DEF Subflow!NoBindings
  <2>4. srv.bound \in [Places -> Processes]
    BY <2>1, <2>2, <2>3 DEF Subflow!NoBindings, Processes
  <2> QED BY <2>1, <2>3, <2>4 DEF SubServer
<1> QED BY <1>1, <1>2, <1>3 DEF SubInv

\* The inductive invariant of subflows in place (design-workbench.js).
THEOREM SubInvariance ==
  ASSUME Subflow!SubflowAssumption
  PROVE  Subflow!Spec => []SubInv
<1>1. Subflow!Init => SubInv
  BY SubStarts
<1>2. SubInv /\ [Subflow!Next]_Subflow!vars => SubInv'
  BY SubStep
<1> QED BY <1>1, <1>2, PTL DEF Subflow!Spec

\* The state of the designer keeps to its types (openSubflow .. backToMain).
THEOREM SubTyped ==
  ASSUME Subflow!SubflowAssumption
  PROVE  Subflow!Spec => []Subflow!TypeOK
<1>1. SubInv => Subflow!TypeOK
  BY DEF SubInv, SubPage, SubDiagram, SubNav, SubServer, Subflow!TypeOK, Processes
<1> QED BY <1>1, SubInvariance, PTL

\* Whatever is saved, refused or late, a binding leads to a stored draft
\* (subSave, saveBinding).
THEOREM SubBindings ==
  ASSUME Subflow!SubflowAssumption
  PROVE  Subflow!Spec => []Subflow!BindingsLeadSomewhere
<1>1. SubInv => Subflow!BindingsLeadSomewhere
  BY DEF SubInv, SubServer, Subflow!BindingsLeadSomewhere, Subflow!Known
<1> QED BY <1>1, SubInvariance, PTL

-----------------------------------------------------------------------------
(* The to-do centre: the dialog, and the acts that are asked for.          *)

Todo == INSTANCE FlowTodo WITH MaxChanges <- MaxRounds

TodoFields == {"category", "rows", "total", "at", "filter", "loading", "error", "selected", "trail", "trailLoading",
               "trailError", "menu", "dialog", "changes"}
TodoRequest == {"kind", "of", "op", "cat", "at", "filter", "rows", "total"}
DialogFields == {"kind", "op", "of", "loading", "submitting", "user", "error"}

\* A dialog for handing a task over is one that has users to choose from.
TodoDialog(d) == d = [f \in DialogFields |-> d[f]] /\ (d.op = "transfer" => d.kind = "transfer")

TodoPage(p) == p = [f \in TodoFields |-> p[f]] /\ TodoDialog(p.dialog)

TodoInv == TodoPage(page) /\ Framed(wire, TodoRequest)

\* What may be sent: an act that needs a dialog is the one of the dialog.
Agreed(s) ==
  s.kind = "act" /\ s.op \in {"cancel", "withdraw", "transfer"} =>
    page.dialog.of = s.of /\ page.dialog.op = s.op /\ (s.op = "transfer" => page.dialog.user)

TodoWire == Framed(wire', TodoRequest) /\ Todo!ConfirmedFirstStep

\* Fewer requests, or one more that may be sent.
LEMMA TodoFewer ==
  ASSUME Framed(wire, TodoRequest), wire' \subseteq wire
  PROVE  TodoWire
BY DEF Framed, TodoWire, Todo!ConfirmedFirstStep

LEMMA TodoSends ==
  ASSUME Framed(wire, TodoRequest), NEW w, w \subseteq wire, NEW s, DOMAIN s = TodoRequest, Agreed(s),
         wire' = Todo!Sent(w, MaxWire, s)
  PROVE  TodoWire
<1>1. wire' = Sent(w, MaxWire, s)
  BY DEF Todo!Sent, Sent, Todo!FreeNumber, FreeNumber, Todo!Min, Min
<1>2. "n" \notin TodoRequest /\ "status" \notin TodoRequest /\ {"kind", "op", "of"} \subseteq TodoRequest
  BY DEF TodoRequest
<1>3. Framed(w, TodoRequest)
  BY DEF Framed
<1>4. PICK q : /\ Sent(w, MaxWire, s) = w \cup {q}
               /\ \A f \in TodoRequest : q[f] = s[f]
               /\ Framed(Sent(w, MaxWire, s), TodoRequest)
  BY <1>2, <1>3, SentAdds
<1>5. q.kind = s.kind /\ q.op = s.op /\ q.of = s.of
  BY <1>2, <1>4
<1>6. \A r \in wire' \ wire : r = q
  BY <1>1, <1>4
<1>7. Todo!ConfirmedFirstStep
  BY <1>5, <1>6 DEF Agreed, Todo!ConfirmedFirstStep
<1> QED BY <1>1, <1>4, <1>7 DEF TodoWire

\* The requests of the page.
LEMMA TodoAsks ==
  ASSUME NEW kind, NEW op, NEW of, NEW p
  PROVE  LET a == Todo!Ask(kind, op, of)
             l == Todo!List(p)
         IN  /\ DOMAIN a = TodoRequest /\ a.kind = kind /\ a.op = op /\ a.of = of
             /\ DOMAIN l = TodoRequest /\ l.kind = "list" /\ l.op = "none"
BY DEF Todo!Ask, Todo!List, TodoRequest

\* The page changes in one place.
LEMMA TodoPut ==
  ASSUME NEW p, TodoPage(p), NEW v
  PROVE  /\ \A f \in TodoFields \ {"dialog"} :
              LET q == [p EXCEPT ![f] = v] IN TodoPage(q) /\ q.dialog = p.dialog
         /\ TodoDialog(v) => TodoPage([p EXCEPT !.dialog = v])
<1>1. ASSUME NEW f \in TodoFields \ {"dialog"}
      PROVE  LET q == [p EXCEPT ![f] = v] IN TodoPage(q) /\ q.dialog = p.dialog
  <2> DEFINE q == [p EXCEPT ![f] = v]
  <2>1. q = [g \in TodoFields |-> q[g]] /\ q.dialog = p.dialog
    BY <1>1 DEF TodoPage, TodoFields
  <2> QED BY <2>1 DEF TodoPage
<1>2. ASSUME TodoDialog(v)
      PROVE  TodoPage([p EXCEPT !.dialog = v])
  <2> DEFINE q == [p EXCEPT !.dialog = v]
  <2>1. q = [g \in TodoFields |-> q[g]] /\ q.dialog = v
    BY DEF TodoPage, TodoFields
  <2> QED BY <1>2, <2>1 DEF TodoPage
<1> QED BY <1>1, <1>2

LEMMA DialogPut ==
  ASSUME NEW d, TodoDialog(d), NEW f \in {"loading", "submitting", "user", "error"}, NEW v
  PROVE  TodoDialog([d EXCEPT ![f] = v])
BY DEF TodoDialog, DialogFields

\* The dialogs that are opened.
LEMMA DialogsOpen ==
  ASSUME NEW of
  PROVE  /\ TodoDialog(Todo!NoDialog)
         /\ TodoDialog([Todo!NoDialog EXCEPT !.kind = "transfer", !.op = "transfer", !.of = of, !.loading = TRUE])
         /\ \A act \in {"cancel", "withdraw"} : TodoDialog([Todo!NoDialog EXCEPT !.kind = "confirm", !.op = act, !.of = of])
BY DEF TodoDialog, DialogFields, Todo!NoDialog

\* Loading a list, and choosing a task, leave the dialog as it is.
LEMMA TodoHelpers ==
  ASSUME NEW p, TodoPage(p), NEW row
  PROVE  /\ TodoPage(Todo!Counted(p)) /\ Todo!Counted(p).dialog = p.dialog
         /\ TodoPage(Todo!Selected(p, row)) /\ Todo!Selected(p, row).dialog = p.dialog
         /\ LET q == [p EXCEPT !.menu = 0, !.loading = TRUE, !.error = FALSE]
            IN  TodoPage(q) /\ q.dialog = p.dialog
BY DEF TodoPage, TodoFields, Todo!Counted, Todo!Selected

LEMMA TodoReloads ==
  ASSUME Framed(wire, TodoRequest), NEW p, TodoPage(p), NEW w, w \subseteq wire, Todo!Reload(p, w)
  PROVE  TodoPage(page') /\ TodoWire
<1>1. TodoPage(page')
  BY TodoHelpers DEF Todo!Reload
<1> DEFINE q == [p EXCEPT !.menu = 0, !.loading = TRUE, !.error = FALSE]
<1>2. wire' = Todo!Sent(w, MaxWire, Todo!List(q))
  BY DEF Todo!Reload
<1>3. Agreed(Todo!List(q)) /\ DOMAIN Todo!List(q) = TodoRequest
  BY TodoAsks DEF Agreed
<1> QED BY <1>1, <1>2, <1>3, TodoSends

\* What the user does with the lists and the trail.
LEMMA TodoLists ==
  ASSUME TodoInv,
         \/ Todo!LoadTodos \/ Todo!CloseMenu \/ Todo!ReloadTrail
         \/ \E c \in Todo!Categories : Todo!SwitchCategory(c)
         \/ \E f : Todo!SetFilter(f)
         \/ \E b : Todo!Turn(b)
         \/ \E row : Todo!OpenMenu(row) \/ Todo!SelectTodo(row)
  PROVE  TodoPage(page') /\ TodoWire
<1>0. TodoPage(page) /\ Framed(wire, TodoRequest) /\ wire \subseteq wire
  BY DEF TodoInv
<1> DEFINE q == Todo!Counted(page)
<1>1. TodoPage(q) /\ q.dialog = page.dialog
  BY <1>0, TodoHelpers
<1>2. CASE Todo!LoadTodos
  BY <1>0, <1>1, <1>2, TodoReloads DEF Todo!LoadTodos
<1>3. CASE Todo!CloseMenu
  <2>1. page' = [page EXCEPT !["menu"] = 0] /\ wire' = wire
    BY <1>3 DEF Todo!CloseMenu, Todo!Quiet
  <2>2. "menu" \in TodoFields \ {"dialog"}
    BY DEF TodoFields
  <2> QED BY <1>0, <2>1, <2>2, TodoPut, TodoFewer
<1>4. ASSUME NEW p, TodoPage(p), NEW row, page' = Todo!Selected(p, row),
             NEW w, w \subseteq wire, NEW of, wire' = Todo!Sent(w, MaxWire, Todo!Ask("trail", "none", of))
      PROVE  TodoPage(page') /\ TodoWire
  <2>1. Agreed(Todo!Ask("trail", "none", of)) /\ DOMAIN Todo!Ask("trail", "none", of) = TodoRequest
    BY TodoAsks DEF Agreed
  <2> QED BY <1>0, <1>4, <2>1, TodoHelpers, TodoSends
<1>5. CASE Todo!ReloadTrail
  BY <1>0, <1>1, <1>4, <1>5 DEF Todo!ReloadTrail
<1>6. CASE \E c \in Todo!Categories : Todo!SwitchCategory(c)
  <2>1. PICK c \in Todo!Categories : Todo!SwitchCategory(c)
    BY <1>6
  <2> DEFINE d == IF q.dialog.submitting THEN q.dialog ELSE Todo!NoDialog
             p == [q EXCEPT !.category = c, !.selected = Todo!NoRow, !.trail = 0, !.trailLoading = FALSE, !.trailError = FALSE,
                            !.dialog = d, !.at = 1, !.filter = 0]
  <2>2. TodoDialog(d)
    BY <1>1, DialogsOpen DEF TodoPage
  <2>3. Todo!Reload(p, wire)
    BY <2>1 DEF Todo!SwitchCategory
  <2> HIDE DEF d, q
  <2>4. TodoPage(p)
    <3>1. p = [f \in TodoFields |-> p[f]] /\ p.dialog = d
      BY <1>1 DEF TodoPage, TodoFields
    <3> QED BY <2>2, <3>1 DEF TodoPage
  <2> QED BY <1>0, <2>3, <2>4, TodoReloads
<1>7. ASSUME NEW p, TodoPage(p), NEW f \in {"filter", "at"}, NEW v, NEW u, Todo!Reload([[p EXCEPT !["at"] = u] EXCEPT ![f] = v], wire)
      PROVE  TodoPage(page') /\ TodoWire
  <2>1. {"filter", "at"} \subseteq TodoFields \ {"dialog"}
    BY DEF TodoFields
  <2>2. TodoPage([p EXCEPT !["at"] = u])
    BY <1>7, <2>1, TodoPut
  <2>3. TodoPage([[p EXCEPT !["at"] = u] EXCEPT ![f] = v])
    BY <2>1, <2>2, TodoPut
  <2> QED BY <1>0, <1>7, <2>3, TodoReloads
<1>8. CASE \E f : Todo!SetFilter(f)
  <2>1. PICK f : Todo!Reload([q EXCEPT !.filter = f, !.at = 1], wire)
    BY <1>8 DEF Todo!SetFilter
  <2> HIDE DEF q
  <2>2. [q EXCEPT !.filter = f, !.at = 1] = [[q EXCEPT !["at"] = 1] EXCEPT !["filter"] = f]
    BY <1>1 DEF TodoPage, TodoFields
  <2> QED BY <1>1, <1>7, <2>1, <2>2
<1>9. CASE \E b : Todo!Turn(b)
  <2>1. PICK np : Todo!Reload([q EXCEPT !.at = np], wire)
    BY <1>9 DEF Todo!Turn
  <2> HIDE DEF q
  <2>2. [q EXCEPT !.at = np] = [[q EXCEPT !["at"] = np] EXCEPT !["at"] = np]
    BY <1>1 DEF TodoPage, TodoFields
  <2> QED BY <1>1, <1>7, <2>1, <2>2
<1>10. CASE \E row : Todo!OpenMenu(row)
  <2>1. PICK v : page' = [q EXCEPT !["menu"] = v] /\ wire' = wire
    <3>1. PICK row : Todo!OpenMenu(row)
      BY <1>10
    <3>2. page' = [q EXCEPT !.menu = IF q.menu = row.id THEN 0 ELSE row.id] /\ wire' = wire
      BY <3>1 DEF Todo!OpenMenu, Todo!Quiet
    <3> QED BY <3>2
  <2>2. "menu" \in TodoFields \ {"dialog"}
    BY DEF TodoFields
  <2> QED BY <1>0, <1>1, <2>1, <2>2, TodoPut, TodoFewer
<1>11. CASE \E row : Todo!SelectTodo(row)
  BY <1>0, <1>1, <1>4, <1>11 DEF Todo!SelectTodo
<1> QED BY <1>2, <1>3, <1>5, <1>6, <1>8, <1>9, <1>10, <1>11

\* What the user does to a task.
LEMMA TodoActs ==
  ASSUME TodoInv,
         \/ Todo!PickUser \/ Todo!CloseDialog \/ Todo!ConfirmDialogAction
         \/ \E row : Todo!OpenTransferDialog(row)
         \/ \E row, act : Todo!OpenForm(act, row) \/ Todo!Direct(act, row) \/ Todo!OpenConfirmDialog(act, row)
  PROVE  TodoPage(page') /\ TodoWire
<1>0. TodoPage(page) /\ TodoDialog(page.dialog) /\ Framed(wire, TodoRequest) /\ wire \subseteq wire
  BY DEF TodoInv, TodoPage
<1> DEFINE q == Todo!Counted(page)
<1>1. TodoPage(q) /\ q.dialog = page.dialog
  BY <1>0, TodoHelpers
<1> HIDE DEF q
<1>2. CASE Todo!PickUser
  <2> DEFINE d == [q.dialog EXCEPT !["user"] = TRUE]
  <2>1. page' = [q EXCEPT !.dialog = d] /\ wire' = wire
    BY <1>2 DEF Todo!PickUser, Todo!Quiet, q
  <2>2. TodoDialog(d)
    BY <1>0, <1>1, DialogPut
  <2> HIDE DEF d
  <2> QED BY <1>0, <1>1, <2>1, <2>2, TodoPut, TodoFewer
<1>3. CASE Todo!CloseDialog
  BY <1>0, <1>3, DialogsOpen, TodoPut, TodoFewer DEF Todo!CloseDialog, Todo!Quiet
<1>4. CASE Todo!ConfirmDialogAction
  <2> DEFINE d == [page.dialog EXCEPT !["submitting"] = TRUE]
             a == Todo!Ask("act", page.dialog.op, page.dialog.of)
  <2>1. page' = [page EXCEPT !.dialog = d] /\ wire' = Todo!Sent(wire, MaxWire, a)
    BY <1>4 DEF Todo!ConfirmDialogAction
  <2>2. TodoDialog(d)
    BY <1>0, DialogPut
  <2>3. page.dialog.kind = "transfer" => page.dialog.user
    BY <1>4 DEF Todo!ConfirmDialogAction
  <2>4. Agreed(a) /\ DOMAIN a = TodoRequest
    BY <1>0, <2>3, TodoAsks DEF Agreed, TodoDialog
  <2> HIDE DEF d, a
  <2> QED BY <1>0, <2>1, <2>2, <2>4, TodoPut, TodoSends
<1>5. CASE \E row : Todo!OpenTransferDialog(row)
  <2>1. PICK row : Todo!OpenTransferDialog(row)
    BY <1>5
  <2> DEFINE d == [Todo!NoDialog EXCEPT !.kind = "transfer", !.op = "transfer", !.of = row.id, !.loading = TRUE]
             a == Todo!Ask("users", "none", row.id)
  <2>2. page' = [q EXCEPT !.menu = 0, !.dialog = d] /\ wire' = Todo!Sent(wire, MaxWire, a)
    BY <2>1 DEF Todo!OpenTransferDialog, q
  <2>3. TodoDialog(d) /\ Agreed(a) /\ DOMAIN a = TodoRequest
    <3>1. TodoDialog(d)
      BY DialogsOpen
    <3>2. DOMAIN a = TodoRequest /\ a.kind = "users"
      BY TodoAsks
    <3> QED BY <3>1, <3>2 DEF Agreed
  <2> HIDE DEF d, a
  <2>4. page' = [page' EXCEPT !.dialog = d] /\ TodoPage(page')
    <3>1. page' = [f \in TodoFields |-> page'[f]] /\ page'.dialog = d
      BY <1>1, <2>2 DEF TodoPage, TodoFields
    <3> QED BY <2>3, <3>1 DEF TodoPage
  <2> QED BY <1>0, <2>2, <2>3, <2>4, TodoSends
<1>6. ASSUME NEW kind, NEW op, NEW of, page' = q, wire' = Todo!Sent(wire, MaxWire, Todo!Ask(kind, op, of)),
             kind = "form" \/ op \in {"claim", "ccread"}
      PROVE  TodoPage(page') /\ TodoWire
  <2>1. Agreed(Todo!Ask(kind, op, of)) /\ DOMAIN Todo!Ask(kind, op, of) = TodoRequest
    BY <1>6, TodoAsks DEF Agreed
  <2> QED BY <1>0, <1>1, <1>6, <2>1, TodoSends
<1>7. CASE \E row, act : Todo!OpenForm(act, row)
  BY <1>6, <1>7 DEF Todo!OpenForm, q
<1>8. CASE \E row, act : Todo!Direct(act, row)
  BY <1>6, <1>8 DEF Todo!Direct, q
<1>9. CASE \E row, act : Todo!OpenConfirmDialog(act, row)
  <2>1. PICK row, act : Todo!OpenConfirmDialog(act, row)
    BY <1>9
  <2> DEFINE d == [Todo!NoDialog EXCEPT !.kind = "confirm", !.op = act, !.of = row.id]
  <2>2. page' = [q EXCEPT !.menu = 0, !.dialog = d] /\ wire' = wire
    BY <2>1 DEF Todo!OpenConfirmDialog, Todo!Quiet, q
  <2>3. TodoDialog(d)
    BY <2>1, DialogsOpen DEF Todo!OpenConfirmDialog
  <2> HIDE DEF d
  <2>4. page' = [f \in TodoFields |-> page'[f]] /\ page'.dialog = d
    BY <1>1, <2>2 DEF TodoPage, TodoFields
  <2> QED BY <1>0, <2>2, <2>3, <2>4, TodoFewer DEF TodoPage
<1> QED BY <1>2, <1>3, <1>4, <1>5, <1>7, <1>8, <1>9

\* Answers, and what they make the page ask.
LEMMA TodoAnswers ==
  ASSUME TodoInv, NEW r \in wire, Todo!Answer(r)
  PROVE  TodoPage(page') /\ TodoWire
<1>0. TodoPage(page) /\ TodoDialog(page.dialog) /\ Framed(wire, TodoRequest) /\ wire \ {r} \subseteq wire
  BY DEF TodoInv, TodoPage
<1>1. CASE Todo!ListAnswer(r)
  <2>1. page' = [page EXCEPT !.loading = FALSE, !.error = r.status = "failed",
                             !.rows = IF r.status = "done" THEN r.rows ELSE <<>>, !.total = IF r.status = "done" THEN r.total ELSE 0]
        /\ wire' = wire \ {r}
    BY <1>1 DEF Todo!ListAnswer
  <2>2. page' = [f \in TodoFields |-> page'[f]] /\ page'.dialog = page.dialog
    BY <1>0, <2>1 DEF TodoPage, TodoFields
  <2> QED BY <1>0, <2>1, <2>2, TodoFewer DEF TodoPage
<1>2. CASE Todo!TrailAnswer(r)
  <2>1. page' = [page EXCEPT !.trailLoading = FALSE, !.trail = IF r.status = "done" THEN r.of ELSE 0, !.trailError = page.trailError \/ r.status = "failed"]
        /\ wire' = wire \ {r}
    BY <1>2 DEF Todo!TrailAnswer
  <2>2. page' = [f \in TodoFields |-> page'[f]] /\ page'.dialog = page.dialog
    BY <1>0, <2>1 DEF TodoPage, TodoFields
  <2> QED BY <1>0, <2>1, <2>2, TodoFewer DEF TodoPage
<1>3. ASSUME NEW kind, NEW op, NEW of, kind # "act", TodoPage(page'), wire' = Todo!Sent(wire \ {r}, MaxWire, Todo!Ask(kind, op, of))
      PROVE  TodoPage(page') /\ TodoWire
  <2>1. Agreed(Todo!Ask(kind, op, of)) /\ DOMAIN Todo!Ask(kind, op, of) = TodoRequest
    BY <1>3, TodoAsks DEF Agreed
  <2> QED BY <1>0, <1>3, <2>1, TodoSends
<1>4. CASE page' = page /\ wire' = wire \ {r}
  BY <1>0, <1>4, TodoFewer
<1>5. CASE Todo!FormAnswer(r)
  <2>1. CASE page' = page /\ wire' = Todo!Sent(wire \ {r}, MaxWire, Todo!Ask("node", r.op, r.of))
    BY <1>0, <1>3, <2>1
  <2>2. CASE Todo!ViewFallsBack(r)
    <3>1. CASE page' = page /\ wire' = wire \ {r}
      BY <1>4, <3>1
    <3>2. CASE \E row : /\ page' = Todo!Selected(page, row)
                        /\ wire' = Todo!Sent(wire \ {r}, MaxWire, Todo!Ask("trail", "none", r.of))
      <4>1. PICK row : page' = Todo!Selected(page, row)
        BY <3>2
      <4>2. TodoPage(Todo!Selected(page, row))
        BY <1>0, TodoHelpers
      <4>3. TodoPage(page')
        BY <4>1, <4>2
      <4> QED BY <1>3, <3>2, <4>3
    <3> QED BY <2>2, <3>1, <3>2 DEF Todo!ViewFallsBack
  <2>3. CASE page' = page /\ wire' = wire \ {r}
    BY <1>4, <2>3
  <2> QED BY <1>5, <2>1, <2>2, <2>3 DEF Todo!FormAnswer
<1>6. CASE Todo!BuildWorkspaceWorknode(r)
  BY <1>4, <1>6 DEF Todo!BuildWorkspaceWorknode
<1>7. CASE Todo!UsersAnswer(r)
  <2>1. CASE page' = page /\ wire' = wire \ {r}
    BY <1>4, <2>1
  <2>2. CASE page' = [page EXCEPT !.dialog.loading = FALSE, !.dialog.error = r.status = "failed"] /\ wire' = wire \ {r}
    <3> DEFINE c == [page.dialog EXCEPT !["loading"] = FALSE]
               d == [c EXCEPT !["error"] = r.status = "failed"]
    <3>1. page' = [page EXCEPT !.dialog = d]
      BY <1>0, <2>2 DEF TodoPage, TodoFields
    <3>2. TodoDialog(c)
      BY <1>0, DialogPut
    <3> HIDE DEF c
    <3>3. TodoDialog(d)
      BY <3>2, DialogPut
    <3> HIDE DEF d
    <3>4. TodoPage(page')
      BY <1>0, <3>1, <3>3, TodoPut
    <3> QED BY <1>0, <2>2, <3>4, TodoFewer
  <2> QED BY <1>7, <2>1, <2>2 DEF Todo!UsersAnswer
<1>8. CASE Todo!ActAnswer(r)
  <2>1. CASE page' = page /\ wire' = wire \ {r}
    BY <1>4, <2>1
  <2>2. CASE page' = [page EXCEPT !.dialog.submitting = FALSE, !.dialog.error = TRUE] /\ wire' = wire \ {r}
    <3> DEFINE c == [page.dialog EXCEPT !["submitting"] = FALSE]
               d == [c EXCEPT !["error"] = TRUE]
    <3>1. page' = [page EXCEPT !.dialog = d]
      BY <1>0, <2>2 DEF TodoPage, TodoFields
    <3>2. TodoDialog(c)
      BY <1>0, DialogPut
    <3> HIDE DEF c
    <3>3. TodoDialog(d)
      BY <3>2, DialogPut
    <3> HIDE DEF d
    <3>4. TodoPage(page')
      BY <1>0, <3>1, <3>3, TodoPut
    <3> QED BY <1>0, <2>2, <3>4, TodoFewer
  <2>3. CASE Todo!Reload([page EXCEPT !.dialog = Todo!NoDialog], wire \ {r}) \/ Todo!Reload(page, wire \ {r})
    BY <1>0, <2>3, DialogsOpen, TodoPut, TodoReloads
  <2> QED BY <1>8, <2>1, <2>2, <2>3 DEF Todo!ActAnswer
<1> QED BY <1>1, <1>2, <1>5, <1>6, <1>7, <1>8 DEF Todo!Answer

\* The service, and a form that is done with its task.
LEMMA TodoService ==
  ASSUME TodoInv, \/ \E r \in wire : Todo!Serve(r) \/ Todo!Refuse(r)
                  \/ \E o : Todo!TaskDone(o)
  PROVE  TodoPage(page') /\ TodoWire
<1>0. TodoPage(page) /\ Framed(wire, TodoRequest) /\ wire \subseteq wire
  BY DEF TodoInv
<1> DEFINE closed(a) == a = [f \in TodoRequest \cup {"n", "status"} |-> a[f]] /\ a.status # "asked"
<1>1. ASSUME NEW r \in wire, NEW a, closed(a), page' = page, wire' = (wire \ {r}) \cup {a}
      PROVE  TodoPage(page') /\ TodoWire
  <2>1. Framed(wire', TodoRequest)
    BY <1>0, <1>1 DEF Framed
  <2>2. Todo!ConfirmedFirstStep
    BY <1>1 DEF Todo!ConfirmedFirstStep
  <2> QED BY <1>0, <1>1, <2>1, <2>2 DEF TodoWire
<1>2. ASSUME NEW r \in wire
      PROVE  closed([r EXCEPT !.status = "done"]) /\ closed([r EXCEPT !.status = "failed"]) /\ closed(Todo!Listed(r))
  <2>1. r = [f \in TodoRequest \cup {"n", "status"} |-> r[f]]
    BY <1>0 DEF Framed
  <2>2. ASSUME NEW total, NEW rows
        PROVE  closed([r EXCEPT !.status = "done", !.total = total, !.rows = rows])
    BY <2>1 DEF TodoRequest
  <2>3. closed(Todo!Listed(r))
    BY <2>2 DEF Todo!Listed
  <2>4. ASSUME NEW s \in {"done", "failed"}
        PROVE  closed([r EXCEPT !.status = s])
    BY <2>1
  <2> QED BY <2>3, <2>4
<1> HIDE DEF closed
<1>3. ASSUME NEW r \in wire, Todo!Serve(r)
      PROVE  TodoPage(page') /\ TodoWire
  <2>1. \/ wire' = (wire \ {r}) \cup {[r EXCEPT !.status = "done"]}
        \/ wire' = (wire \ {r}) \cup {Todo!Listed(r)}
    BY <1>3 DEF Todo!Serve, Todo!Settled
  <2>2. page' = page
    BY <1>3 DEF Todo!Serve
  <2> QED BY <1>1, <1>2, <2>1, <2>2
<1>4. ASSUME NEW r \in wire, Todo!Refuse(r)
      PROVE  TodoPage(page') /\ TodoWire
  <2>1. wire' = (wire \ {r}) \cup {[r EXCEPT !.status = "failed"]} /\ page' = page
    BY <1>4 DEF Todo!Refuse, Todo!Refused, Todo!Settled
  <2> QED BY <1>1, <1>2, <2>1
<1>5. ASSUME NEW o, Todo!TaskDone(o)
      PROVE  TodoPage(page') /\ TodoWire
  <2>1. page' = [page EXCEPT !.menu = 0, !.loading = TRUE, !.error = FALSE]
        /\ wire' = Todo!Sent(wire, MaxWire, Todo!List(page))
    BY <1>5 DEF Todo!TaskDone
  <2>2. Agreed(Todo!List(page)) /\ DOMAIN Todo!List(page) = TodoRequest
    BY TodoAsks DEF Agreed
  <2> QED BY <1>0, <2>1, <2>2, TodoHelpers, TodoSends
<1> QED BY <1>3, <1>4, <1>5

\* Every step keeps the invariant, and sends an act of a dialog only.
LEMMA TodoStep ==
  ASSUME TodoInv, Todo!Next
  PROVE  TodoInv' /\ Todo!ConfirmedFirstStep
<1>1. TodoPage(page') /\ TodoWire
  <2>1. CASE \/ Todo!LoadTodos \/ Todo!CloseMenu \/ Todo!ReloadTrail
             \/ \E c \in Todo!Categories : Todo!SwitchCategory(c)
             \/ \E f : Todo!SetFilter(f)
             \/ \E b : Todo!Turn(b)
             \/ \E row : Todo!OpenMenu(row) \/ Todo!SelectTodo(row)
    BY <2>1, TodoLists
  <2>2. CASE \/ Todo!PickUser \/ Todo!CloseDialog \/ Todo!ConfirmDialogAction
             \/ \E row : Todo!OpenTransferDialog(row)
             \/ \E row, act : Todo!OpenForm(act, row) \/ Todo!Direct(act, row) \/ Todo!OpenConfirmDialog(act, row)
    BY <2>2, TodoActs
  <2>3. CASE \E r \in wire : Todo!Answer(r)
    BY <2>3, TodoAnswers
  <2>4. CASE \/ \E r \in wire : Todo!Serve(r) \/ Todo!Refuse(r)
             \/ \E o : Todo!TaskDone(o)
    BY <2>4, TodoService
  <2> QED BY <2>1, <2>2, <2>3, <2>4 DEF Todo!Next
<1> QED BY <1>1 DEF TodoInv, TodoWire

\* In the to-do centre every dialog for handing a task over is the one with
\* users to choose from, and requests keep their form.
THEOREM TodoInvariance ==
  Todo!Spec => []TodoInv
<1>1. Todo!Init => TodoInv
  <2> SUFFICES ASSUME Todo!Init PROVE TodoInv
    OBVIOUS
  <2>1. TodoPage(page)
    <3>1. page = [f \in TodoFields |-> page[f]] /\ page.dialog = Todo!NoDialog
      BY DEF Todo!Init, Todo!Fresh, TodoFields
    <3> QED BY <3>1, DialogsOpen DEF TodoPage
  <2>2. wire = Sent({}, MaxWire, Todo!List(Todo!Fresh))
    BY DEF Todo!Init, Todo!Sent, Sent, Todo!FreeNumber, FreeNumber, Todo!Min, Min
  <2>3. DOMAIN Todo!List(Todo!Fresh) = TodoRequest /\ "n" \notin TodoRequest /\ "status" \notin TodoRequest
    BY TodoAsks DEF TodoRequest
  <2>4. Framed({}, TodoRequest)
    BY DEF Framed
  <2>5. Framed(wire, TodoRequest)
    BY <2>2, <2>3, <2>4, SentAdds
  <2> QED BY <2>1, <2>5 DEF TodoInv
<1>2. TodoInv /\ [Todo!Next]_Todo!vars => TodoInv'
  <2>1. CASE TodoInv /\ Todo!Next
    BY <2>1, TodoStep
  <2>2. CASE TodoInv /\ UNCHANGED Todo!vars
    BY <2>2 DEF Todo!vars, TodoInv, Framed
  <2> QED BY <2>1, <2>2
<1> QED BY <1>1, <1>2, PTL DEF Todo!Spec

\* An instance is cancelled or withdrawn, and a task handed to another user,
\* only by a dialog that named it, with a user chosen (confirmDialogAction).
THEOREM TodoConfirmedFirst ==
  Todo!Spec => Todo!ConfirmedFirst
<1>1. TodoInv /\ [Todo!Next]_Todo!vars => [Todo!ConfirmedFirstStep]_Todo!vars
  BY TodoStep
<1> QED BY <1>1, TodoInvariance, PTL DEF Todo!Spec, Todo!ConfirmedFirst

-----------------------------------------------------------------------------
(* The variables of a process: declarations.                               *)

Vars == INSTANCE FlowVars WITH MaxChanges <- MaxEdits, MaxWire <- MaxChain

VarNames == Names \cup {""}

\* Declarations that hold nothing their type does not have.
Decls ==
  {d \in [name : VarNames, type : Vars!Types, fields : Seq(VarNames), item : {"none", "STRING", "OBJECT"}] :
     /\ d.fields # <<>> => Vars!HasFields(d)
     /\ d.item = "none" <=> d.type # "ARRAY"}

VarsFields == {"key", "schema", "policy", "paths", "dirty", "error", "changes"}

VarsRequest == {"kind", "key", "schema", "policy"}

Declared(p) == p = [f \in VarsFields |-> p[f]] /\ p.schema \in Seq(Decls)

VarsWire(w) == Framed(w, VarsRequest) /\ \A r \in w : r.schema \in Seq(Decls)

VarsStored(s) == s = [k \in Keys |-> s[k]] /\ \A k \in Keys : s[k].schema \in Seq(Decls)

VarsInv == Declared(page) /\ VarsWire(wire) /\ VarsStored(srv)

LEMMA DeclNamed ==
  ASSUME NEW d \in Decls, NEW n \in VarNames
  PROVE  [d EXCEPT !.name = n] \in Decls
BY DEF Decls, Vars!HasFields

LEMMA DeclTyped ==
  ASSUME NEW d \in Decls, NEW t \in Vars!Types
  PROVE  Vars!NormalizeDecl([d EXCEPT !.type = t]) \in Decls
<1> DEFINE a == [d EXCEPT !.type = t]
           b == [a EXCEPT !.fields = <<>>]
           i == IF t = "ARRAY" THEN "OBJECT" ELSE "none"
           c == [b EXCEPT !.item = i]
           Shape == [name : VarNames, type : Vars!Types, fields : Seq(VarNames), item : {"none", "STRING", "OBJECT"}]
<1>1. a \in Shape /\ a.type = t
  BY DEF Decls
<1> HIDE DEF a
<1>2. b \in Shape /\ b.type = t /\ b.fields = <<>>
  <2>1. <<>> \in Seq(VarNames)
    OBVIOUS
  <2> QED BY <1>1, <2>1
<1> HIDE DEF b
<1>3. c \in Shape /\ c.type = t /\ c.fields = <<>> /\ c.item = i
  BY <1>2
<1>4. Vars!NormalizeDecl(a) = c
  BY <1>1 DEF Vars!NormalizeDecl, c, b
<1> HIDE DEF c
<1>5. c.item = "none" <=> c.type # "ARRAY"
  BY <1>3
<1> QED BY <1>3, <1>4, <1>5 DEF Decls, a

LEMMA DeclItem ==
  ASSUME NEW d \in Decls, d.type = "ARRAY", NEW t \in {"STRING", "OBJECT"}
  PROVE  [d EXCEPT !.item = t, !.fields = IF t = "OBJECT" THEN @ ELSE <<>>] \in Decls
<1> DEFINE fs == IF t = "OBJECT" THEN d.fields ELSE <<>>
           a == [d EXCEPT !.item = t]
           b == [a EXCEPT !.fields = fs]
           Shape == [name : VarNames, type : Vars!Types, fields : Seq(VarNames), item : {"none", "STRING", "OBJECT"}]
<1>1. a \in Shape /\ a.type = "ARRAY" /\ a.item = t /\ a.fields = d.fields
  BY DEF Decls
<1>2. [d EXCEPT !.item = t, !.fields = IF t = "OBJECT" THEN @ ELSE <<>>] = b
  BY <1>1
<1> HIDE DEF a
<1>3. fs \in Seq(VarNames)
  BY DEF Decls
<1>4. b \in Shape /\ b.type = "ARRAY" /\ b.item = t /\ b.fields = fs
  BY <1>1, <1>3
<1> HIDE DEF b
<1>5. b.fields # <<>> => Vars!HasFields(b)
  BY <1>4 DEF Vars!HasFields
<1> QED BY <1>2, <1>4, <1>5 DEF Decls

LEMMA DeclFields ==
  ASSUME NEW d \in Decls, Vars!HasFields(d), NEW fs \in Seq(VarNames)
  PROVE  [d EXCEPT !.fields = fs] \in Decls
BY DEF Decls, Vars!HasFields

\* A place of a list is left out.
LEMMA RemovedAt ==
  ASSUME NEW S, NEW s \in Seq(S), NEW i \in 1..Len(s)
  PROVE  Vars!RemoveAt(s, i) \in Seq(S)
<1>1. SubSeq(s, 1, i - 1) \in Seq(S) /\ SubSeq(s, i + 1, Len(s)) \in Seq(S)
  OBVIOUS
<1> QED BY <1>1 DEF Vars!RemoveAt

\* A page whose declarations are replaced, or something else of it.
LEMMA Redeclared ==
  ASSUME NEW p, Declared(p), NEW s \in Seq(Decls)
  PROVE  Declared([p EXCEPT !.schema = s])
BY DEF Declared, VarsFields

LEMMA DeclaredStays ==
  ASSUME NEW p, Declared(p), NEW f \in VarsFields \ {"schema"}, NEW v
  PROVE  Declared([p EXCEPT ![f] = v])
BY DEF Declared, VarsFields

\* A change of the editor, with and without the paths.
LEMMA VarsChange ==
  ASSUME VarsInv, NEW p, Declared(p), Vars!Change(p) \/ Vars!Change(Vars!RecomputeVarPaths(p))
  PROVE  VarsInv'
<1> DEFINE q == Vars!RecomputeVarPaths(p)
<1>1. Declared(q)
  <2> DEFINE v == Vars!Flat(p.schema)
  <2>1. q = [p EXCEPT !["paths"] = v]
    BY DEF Vars!RecomputeVarPaths
  <2> HIDE DEF v, q
  <2>2. Declared([p EXCEPT !["paths"] = v])
    BY DeclaredStays DEF VarsFields
  <2> QED BY <2>1, <2>2
<1> HIDE DEF q
<1>2. ASSUME NEW d, Declared(d), Vars!Change(d)
      PROVE  Declared(page') /\ wire' = wire /\ srv' = srv
  <2>1. page' = [d EXCEPT !["changes"] = d.changes + 1]
    BY <1>2 DEF Vars!Change
  <2>2. Declared(page')
    BY <1>2, <2>1, DeclaredStays DEF VarsFields
  <2> QED BY <1>2, <2>2 DEF Vars!Change
<1>3. Declared(page') /\ wire' = wire /\ srv' = srv
  BY <1>1, <1>2 DEF q
<1> QED BY <1>3 DEF VarsInv, VarsWire, VarsStored, Declared

\* One declaration is replaced.
LEMMA OneDeclared ==
  ASSUME VarsInv, NEW i \in DOMAIN page.schema, NEW d \in Decls
  PROVE  Declared([page EXCEPT !.schema[i] = d])
<1> DEFINE s == [page.schema EXCEPT ![i] = d]
<1>1. s \in Seq(Decls)
  BY DEF VarsInv, Declared
<1> HIDE DEF s
<1>2. Declared([page EXCEPT !.schema = s])
  BY <1>1, Redeclared DEF VarsInv
<1> QED BY <1>2 DEF s

LEMMA VarsOneDecl ==
  ASSUME VarsInv, NEW i \in DOMAIN page.schema,
         \/ Vars!AddField(i)
         \/ \E n \in VarNames : Vars!SetName(i, n)
         \/ \E t \in Vars!Types : Vars!SetType(i, t)
         \/ \E t \in {"STRING", "OBJECT"} : Vars!SetItemType(i, t)
         \/ \E j \in DOMAIN page.schema[i].fields :
              Vars!DeleteField(i, j) \/ \E n \in VarNames : Vars!SetField(i, j, n)
  PROVE  VarsInv'
<1> DEFINE d == page.schema[i]
<1>1. d \in Decls /\ d.fields \in Seq(VarNames)
  BY DEF VarsInv, Declared, Decls
<1>2. ASSUME NEW n \in VarNames, Vars!SetName(i, n)
      PROVE  VarsInv'
  <2> DEFINE e == [d EXCEPT !.name = n]
             p == [page EXCEPT !.schema[i] = e]
  <2>1. e \in Decls
    BY <1>1, DeclNamed
  <2>2. Vars!Change(Vars!RecomputeVarPaths(p))
    BY <1>2 DEF Vars!SetName
  <2> HIDE DEF e
  <2>3. Declared(p)
    BY <2>1, OneDeclared
  <2> HIDE DEF p
  <2> QED BY <2>2, <2>3, VarsChange
<1>3. ASSUME NEW t \in Vars!Types, Vars!SetType(i, t)
      PROVE  VarsInv'
  <2> DEFINE e == Vars!NormalizeDecl([d EXCEPT !.type = t])
             p == [page EXCEPT !.schema[i] = e]
  <2>1. e \in Decls
    BY <1>1, DeclTyped
  <2>2. Vars!Change(Vars!RecomputeVarPaths(p))
    BY <1>3 DEF Vars!SetType
  <2> HIDE DEF e
  <2>3. Declared(p)
    BY <2>1, OneDeclared
  <2> HIDE DEF p
  <2> QED BY <2>2, <2>3, VarsChange
<1>4. ASSUME NEW t \in {"STRING", "OBJECT"}, Vars!SetItemType(i, t)
      PROVE  VarsInv'
  <2> DEFINE e == [d EXCEPT !.item = t, !.fields = IF t = "OBJECT" THEN @ ELSE <<>>]
             p == [page EXCEPT !.schema[i] = e]
  <2>1. e \in Decls
    <3>1. d.type = "ARRAY"
      BY <1>4 DEF Vars!SetItemType
    <3> QED BY <1>1, <3>1, DeclItem
  <2>2. Vars!Change(Vars!RecomputeVarPaths(p))
    BY <1>4 DEF Vars!SetItemType
  <2> HIDE DEF e
  <2>3. Declared(p)
    BY <2>1, OneDeclared
  <2> HIDE DEF p
  <2> QED BY <2>2, <2>3, VarsChange
\* The fields of a declaration become others.
<1>5. ASSUME NEW fs \in Seq(VarNames), Vars!HasFields(d),
             \/ Vars!Change([page EXCEPT !.schema[i].fields = fs])
             \/ Vars!Change(Vars!RecomputeVarPaths([page EXCEPT !.schema[i].fields = fs]))
      PROVE  VarsInv'
  <2> DEFINE e == [d EXCEPT !.fields = fs]
             p == [page EXCEPT !.schema[i] = e]
  <2>1. e \in Decls
    BY <1>1, <1>5, DeclFields
  <2>2. [page EXCEPT !.schema[i].fields = fs] = p
    OBVIOUS
  <2> HIDE DEF e
  <2>3. Declared(p)
    BY <2>1, OneDeclared
  <2> HIDE DEF p
  <2> QED BY <1>5, <2>2, <2>3, VarsChange
<1>6. ASSUME Vars!AddField(i)
      PROVE  VarsInv'
  <2> DEFINE fs == Append(d.fields, "")
  <2>1. fs \in Seq(VarNames)
    <3>1. "" \in VarNames
      BY DEF VarNames
    <3>2. \A l \in Seq(VarNames), n \in VarNames : Append(l, n) \in Seq(VarNames)
      OBVIOUS
    <3> QED BY <1>1, <3>1, <3>2
  <2>2. Vars!HasFields(d) /\ Vars!Change([page EXCEPT !.schema[i].fields = fs])
    BY <1>6 DEF Vars!AddField
  <2> HIDE DEF fs
  <2> QED BY <1>5, <2>1, <2>2
<1>7. ASSUME NEW j \in DOMAIN d.fields, Vars!DeleteField(i, j)
      PROVE  VarsInv'
  <2> DEFINE fs == Vars!RemoveAt(d.fields, j)
  <2>1. fs \in Seq(VarNames)
    <3>1. j \in 1..Len(d.fields)
      BY <1>1
    <3> QED BY <1>1, <3>1, RemovedAt
  <2>2. Vars!HasFields(d) /\ Vars!Change(Vars!RecomputeVarPaths([page EXCEPT !.schema[i].fields = fs]))
    BY <1>7 DEF Vars!DeleteField
  <2> HIDE DEF fs
  <2> QED BY <1>5, <2>1, <2>2
<1>8. ASSUME NEW j \in DOMAIN d.fields, NEW n \in VarNames, Vars!SetField(i, j, n)
      PROVE  VarsInv'
  <2> DEFINE fs == [d.fields EXCEPT ![j] = n]
  <2>1. fs \in Seq(VarNames)
    BY <1>1
  <2>2. Vars!HasFields(d) /\ Vars!Change(Vars!RecomputeVarPaths([page EXCEPT !.schema[i].fields[j] = n]))
    BY <1>8 DEF Vars!SetField
  <2>3. [page EXCEPT !.schema[i].fields[j] = n] = [page EXCEPT !.schema[i].fields = fs]
    OBVIOUS
  <2> HIDE DEF fs
  <2> QED BY <1>5, <2>1, <2>2, <2>3
<1> QED BY <1>2, <1>3, <1>4, <1>6, <1>7, <1>8

LEMMA VarsOther ==
  ASSUME VarsInv,
         \/ Vars!AddDecl
         \/ \E i \in DOMAIN page.schema : Vars!DeleteDecl(i)
         \/ \E v : Vars!SetPolicy(v)
         \/ \E k \in Keys : Vars!LoadDef(k)
  PROVE  VarsInv'
<1>1. Declared(page) /\ page.schema \in Seq(Decls)
  BY DEF VarsInv, Declared
<1>2. CASE Vars!AddDecl
  <2> DEFINE s == Append(page.schema, Vars!NewDecl)
             p == [page EXCEPT !.schema = s]
  <2>1. Vars!NewDecl \in Decls
    <3>1. <<>> \in Seq(VarNames)
      OBVIOUS
    <3> QED BY <3>1 DEF Vars!NewDecl, Decls, VarNames, Vars!Types
  <2>2. s \in Seq(Decls)
    BY <1>1, <2>1
  <2>3. Vars!Change(p)
    BY <1>2 DEF Vars!AddDecl
  <2> HIDE DEF s
  <2>4. Declared(p)
    BY <1>1, <2>2, Redeclared
  <2> HIDE DEF p
  <2> QED BY <2>3, <2>4, VarsChange
<1>3. ASSUME NEW i \in DOMAIN page.schema, Vars!DeleteDecl(i)
      PROVE  VarsInv'
  <2> DEFINE s == Vars!RemoveAt(page.schema, i)
             p == [page EXCEPT !.schema = s]
  <2>1. i \in 1..Len(page.schema)
    BY <1>1
  <2>2. s \in Seq(Decls)
    BY <1>1, <2>1, RemovedAt
  <2>3. Vars!Change(Vars!RecomputeVarPaths(p))
    BY <1>3 DEF Vars!DeleteDecl
  <2> HIDE DEF s
  <2>4. Declared(p)
    BY <1>1, <2>2, Redeclared
  <2> HIDE DEF p
  <2> QED BY <2>3, <2>4, VarsChange
<1>4. ASSUME NEW v, Vars!SetPolicy(v)
      PROVE  VarsInv'
  <2> DEFINE p == [page EXCEPT !["policy"] = v]
  <2>1. Vars!Change(p)
    BY <1>4 DEF Vars!SetPolicy
  <2>2. Declared(p)
    BY <1>1, DeclaredStays DEF VarsFields
  <2> HIDE DEF p
  <2> QED BY <2>1, <2>2, VarsChange
<1>5. ASSUME NEW k \in Keys, Vars!LoadDef(k)
      PROVE  VarsInv'
  <2> DEFINE a == [page EXCEPT !["key"] = k]
             b == [a EXCEPT !.schema = srv[k].schema]
             c == [b EXCEPT !["policy"] = srv[k].policy]
             p == [c EXCEPT !["dirty"] = FALSE]
  <2>1. Vars!Change(Vars!RecomputeVarPaths(p))
    BY <1>5 DEF Vars!LoadDef, Vars!ReadVarSchema
  <2>2. Declared(a) /\ srv[k].schema \in Seq(Decls)
    BY <1>1, DeclaredStays DEF VarsFields, VarsInv, VarsStored
  <2> HIDE DEF a
  <2>3. Declared(b)
    BY <2>2, Redeclared
  <2> HIDE DEF b
  <2>4. Declared(c)
    BY <2>3, DeclaredStays DEF VarsFields
  <2> HIDE DEF c
  <2>5. Declared(p)
    BY <2>4, DeclaredStays DEF VarsFields
  <2> HIDE DEF p
  <2> QED BY <2>1, <2>5, VarsChange
<1> QED BY <1>2, <1>3, <1>4, <1>5

\* The declarations of the moment are sent, or an answer is read.
LEMMA VarsRequests ==
  ASSUME VarsInv,
         \/ Vars!SaveVarSchema \/ Vars!SaveDraft
         \/ \E r \in wire : Vars!Validated(r) \/ Vars!Saved(r)
  PROVE  VarsInv'
<1>1. Declared(page) /\ VarsWire(wire) /\ VarsStored(srv)
  BY DEF VarsInv
<1>2. ASSUME NEW kind, Vars!Ask(kind, page.key)
      PROVE  VarsWire(wire')
  <2> DEFINE s == [kind |-> kind, key |-> page.key, schema |-> page.schema, policy |-> page.policy]
  <2>1. wire' = Sent(wire, MaxChain, s)
    BY <1>2 DEF Vars!Ask, Vars!Sent, Sent, Vars!FreeNumber, FreeNumber, Vars!Min, Min
  <2>2. DOMAIN s = VarsRequest /\ s.schema = page.schema /\ "schema" \in VarsRequest
    BY DEF VarsRequest
  <2>3. "n" \notin VarsRequest /\ "status" \notin VarsRequest
    BY DEF VarsRequest
  <2> HIDE DEF s
  <2>4. PICK r : /\ wire' = wire \cup {r} /\ \A f \in VarsRequest : r[f] = s[f]
                 /\ Framed(wire, VarsRequest) => Framed(wire', VarsRequest)
    BY <2>1, <2>2, <2>3, SentAdds
  <2> QED BY <1>1, <2>2, <2>4 DEF VarsWire, Declared
<1>3. CASE Vars!SaveVarSchema
  <2>1. page' = [page EXCEPT !["paths"] = Vars!Flat(page.schema)]
    BY <1>3 DEF Vars!SaveVarSchema, Vars!RecomputeVarPaths
  <2>2. Declared(page')
    <3> DEFINE v == Vars!Flat(page.schema)
    <3>1. page' = [page EXCEPT !["paths"] = v]
      BY <2>1
    <3> HIDE DEF v
    <3> QED BY <1>1, <3>1, DeclaredStays DEF VarsFields
  <2>3. VarsWire(wire') /\ srv' = srv
    BY <1>2, <1>3 DEF Vars!SaveVarSchema
  <2> QED BY <1>1, <2>2, <2>3 DEF VarsInv, VarsWire, VarsStored, Declared
<1>4. CASE Vars!SaveDraft
  <2>1. VarsWire(wire') /\ srv' = srv /\ page' = page
    BY <1>2, <1>4 DEF Vars!SaveDraft
  <2> QED BY <1>1, <2>1 DEF VarsInv, VarsWire, VarsStored, Declared
<1>5. ASSUME NEW r \in wire, Vars!Validated(r) \/ Vars!Saved(r)
      PROVE  VarsInv'
  <2> DEFINE a == [page EXCEPT !["error"] = FALSE]
             b == [a EXCEPT !["dirty"] = TRUE]
             c == [page EXCEPT !["error"] = TRUE]
             d == [page EXCEPT !["dirty"] = FALSE]
  <2>1. page' \in {b, c, d, page} /\ wire' = wire \ {r} /\ srv' = srv
    BY <1>5 DEF Vars!Validated, Vars!Saved
  <2>2. Declared(a) /\ Declared(c) /\ Declared(d)
    BY <1>1, DeclaredStays DEF VarsFields
  <2> HIDE DEF a, c, d
  <2>3. Declared(b)
    BY <2>2, DeclaredStays DEF VarsFields
  <2> HIDE DEF b
  <2>4. Declared(page')
    BY <1>1, <2>1, <2>2, <2>3
  <2>5. VarsWire(wire')
    BY <1>1, <2>1 DEF VarsWire, Framed
  <2> QED BY <1>1, <2>1, <2>4, <2>5 DEF VarsInv, VarsWire, VarsStored, Declared
<1> QED BY <1>3, <1>4, <1>5

\* What the service does: a draft that is saved is stored.
LEMMA VarsServed ==
  ASSUME VarsInv, NEW r \in wire, Vars!Serve(r) \/ Vars!Refuse(r)
  PROVE  VarsInv'
<1>1. Declared(page) /\ VarsWire(wire) /\ VarsStored(srv)
  BY DEF VarsInv
<1>2. ASSUME NEW status
      PROVE  VarsWire(Settled(wire, r, [r EXCEPT !.status = status]))
  <2> DEFINE a == [r EXCEPT !.status = status]
  <2>1. SameBut(a, r, status) /\ DOMAIN r = VarsRequest \cup {"n", "status"} /\ Framed(Settled(wire, r, a), VarsRequest)
    BY <1>1, AnswerIs DEF VarsWire
  <2> HIDE DEF a
  <2>2. a.schema = r.schema
    BY <2>1 DEF SameBut, VarsRequest
  <2>3. \A q \in Settled(wire, r, a) : q.schema \in Seq(Decls)
    BY <1>1, <2>2 DEF VarsWire, Settled
  <2> QED BY <2>1, <2>3 DEF VarsWire, a
<1>3. CASE Vars!Serve(r)
  <2>1. wire' = Settled(wire, r, [r EXCEPT !.status = "done"])
    BY <1>3 DEF Vars!Serve, Vars!Settled, Settled
  <2>2. VarsWire(wire')
    BY <1>2, <2>1
  <2>3. VarsStored(srv')
    <3> DEFINE s == [schema |-> r.schema, policy |-> r.policy]
    <3>1. s.schema \in Seq(Decls)
      BY <1>1 DEF VarsWire
    <3>2. srv' = [srv EXCEPT ![r.key] = s] \/ srv' = srv
      BY <1>3 DEF Vars!Serve
    <3> HIDE DEF s
    <3> QED BY <1>1, <3>1, <3>2 DEF VarsStored
  <2>4. page' = page
    BY <1>3 DEF Vars!Serve
  <2> QED BY <1>1, <2>2, <2>3, <2>4 DEF VarsInv, VarsWire, VarsStored, Declared
<1>4. CASE Vars!Refuse(r)
  <2>1. wire' = Settled(wire, r, [r EXCEPT !.status = "failed"])
    BY <1>4 DEF Vars!Refuse, Vars!Refused, Vars!Settled, Settled
  <2>2. VarsWire(wire') /\ srv' = srv /\ page' = page
    BY <1>2, <1>4, <2>1 DEF Vars!Refuse
  <2> QED BY <1>1, <2>2 DEF VarsInv, VarsWire, VarsStored, Declared
<1> QED BY <1>3, <1>4

\* A declaration holds nothing its type does not have (definition-workbench.js,
\* normalizeDecl): whatever order types, elements and fields are changed in, and
\* whichever file is read.
THEOREM VarsNoLeftovers ==
  Vars!Spec => []Vars!NoLeftovers
<1>1. Vars!Init => VarsInv
  <2> SUFFICES ASSUME Vars!Init PROVE VarsInv
    OBVIOUS
  <2>1. <<>> \in Seq(Decls)
    OBVIOUS
  <2>2. Declared(page)
    <3>1. PICK k \in Keys : page = [key |-> k, schema |-> <<>>, policy |-> "", paths |-> {}, dirty |-> FALSE, error |-> FALSE, changes |-> 0]
      BY DEF Vars!Init
    <3> QED BY <2>1, <3>1 DEF Declared, VarsFields
  <2>3. VarsWire(wire)
    BY DEF Vars!Init, VarsWire, Framed
  <2>4. VarsStored(srv)
    BY <2>1 DEF Vars!Init, VarsStored
  <2> QED BY <2>2, <2>3, <2>4 DEF VarsInv
<1>2. VarsInv /\ [Vars!Next]_Vars!vars => VarsInv'
  <2> SUFFICES ASSUME VarsInv, [Vars!Next]_Vars!vars
               PROVE  VarsInv'
    OBVIOUS
  <2>1. CASE Vars!Next
    BY <2>1, VarsOneDecl, VarsOther, VarsRequests, VarsServed DEF Vars!Next, VarNames
  <2>2. CASE UNCHANGED Vars!vars
    BY <2>2 DEF Vars!vars, VarsInv, VarsWire, VarsStored, Declared
  <2> QED BY <2>1, <2>2
<1>3. VarsInv => Vars!NoLeftovers
  BY DEF VarsInv, Declared, Decls, Vars!NoLeftovers, Vars!ToSet
<1> QED BY <1>1, <1>2, <1>3, PTL DEF Vars!Spec

-----------------------------------------------------------------------------
(* The property panel: the diagram's attributes, now and in the past.      *)

Property == INSTANCE FlowProperty

\* At most one slot is used, and all three are there.
OneSlot(h) == \E s \in Property!Slots : \E v : h = [Property!NoHandler EXCEPT ![s] = v]

Attributes(a) ==
  /\ a = [f \in {"handler", "loop", "key", "element", "text", "cond", "rows"} |-> a[f]]
  /\ OneSlot(a.handler)

PropertyInv ==
  /\ page = [f \in {"attrs", "past", "selected", "kind", "mode", "rows", "advanced"} |-> page[f]]
  /\ \E S : page.past \in Seq(S) /\ page.attrs \in S /\ \A a \in S : Attributes(a)

\* The slots of a handler.
LEMMA Slotted ==
  ASSUME NEW s \in Property!Slots, NEW v
  PROVE  LET h == [Property!NoHandler EXCEPT ![s] = v]
         IN  /\ h = [t \in Property!Slots |-> IF t = s THEN v ELSE None]
             /\ OneSlot(h) /\ Cardinality({t \in Property!Slots : h[t] # None}) <= 1
<1> DEFINE h == [Property!NoHandler EXCEPT ![s] = v]
           used == {t \in Property!Slots : h[t] # None}
<1>1. h = [t \in Property!Slots |-> IF t = s THEN v ELSE None]
  BY DEF Property!NoHandler
<1>2. OneSlot(h)
  BY DEF OneSlot
<1>3. used = {} \/ used = {s}
  BY <1>1
<1>4. Cardinality({}) = 0 /\ Cardinality({s}) = 1
  BY FS_EmptySet, FS_Singleton
<1>5. Cardinality(used) <= 1
  BY <1>3, <1>4
<1> QED BY <1>1, <1>2, <1>5

\* The attributes become others, and the old ones are kept for undoing.
LEMMA PropertyDoes ==
  ASSUME PropertyInv, NEW b, Attributes(b),
         page' = [f \in {"attrs", "past", "selected", "kind", "mode", "rows", "advanced"} |-> page'[f]],
         page'.attrs = b, page'.past = Append(page.past, page.attrs) \/ page'.past = page.past
  PROVE  PropertyInv'
<1>1. PICK S : page.past \in Seq(S) /\ page.attrs \in S /\ \A a \in S : Attributes(a)
  BY DEF PropertyInv
<1> DEFINE T == S \cup {b}
<1>2. page.past \in Seq(T) /\ page.attrs \in T /\ b \in T /\ \A a \in T : Attributes(a)
  BY <1>1
<1> HIDE DEF T
<1>3. page'.past \in Seq(T)
  BY <1>2
<1> QED BY <1>2, <1>3 DEF PropertyInv

\* A step keeps the shape of the attributes; one that touches the handler is
\* a write of one slot or takes back what was before.
LEMMA PropertyStep ==
  ASSUME PropertyInv, Property!Next
  PROVE  PropertyInv' /\ Attributes(page.attrs) /\ Attributes(page'.attrs)
<1> DEFINE fields == {"attrs", "past", "selected", "kind", "mode", "rows", "advanced"}
<1>0. page = [f \in fields |-> page[f]]
  BY DEF PropertyInv
<1>1. PICK S : page.past \in Seq(S) /\ page.attrs \in S /\ \A a \in S : Attributes(a)
  BY DEF PropertyInv
<1>2. Attributes(page.attrs)
  BY <1>1
<1>3. ASSUME NEW b, Attributes(b), page' = [f \in fields |-> page'[f]],
             page'.attrs = b, page'.past = Append(page.past, page.attrs) \/ page'.past = page.past
      PROVE  PropertyInv' /\ Attributes(page'.attrs)
  BY <1>3, PropertyDoes
<1>4. CASE Property!Undo
  <2> DEFINE old == Property!Last(page.past)
             b == IF Property!InPlace(old, page.attrs) THEN [old EXCEPT !.loop = page.attrs.loop] ELSE old
  <2>1. page.past # << >>
    BY <1>4 DEF Property!Undo
  <2>2. old \in S /\ Property!Front(page.past) \in Seq(S)
    <3>1. Len(page.past) \in Nat \ {0}
      BY <1>1, <2>1
    <3>2. old = page.past[Len(page.past)]
      BY DEF Property!Last
    <3>3. Property!Front(page.past) = SubSeq(page.past, 1, Len(page.past) - 1)
      BY DEF Property!Front
    <3> QED BY <1>1, <3>1, <3>2, <3>3
  <2> HIDE DEF old
  <2>3. Attributes(b)
    BY <1>1, <2>2 DEF Attributes
  <2>4. page' = [[page EXCEPT !.past = Property!Front(page.past)] EXCEPT !.attrs = b]
    BY <1>0, <1>4 DEF Property!Undo, old
  <2> DEFINE T == S \cup {b}
  <2>5. Property!Front(page.past) \in Seq(T) /\ b \in T /\ \A a \in T : Attributes(a)
    BY <1>1, <2>2, <2>3
  <2> HIDE DEF T, b
  <2>6. /\ page' = [f \in fields |-> page'[f]]
        /\ page'.past = Property!Front(page.past) /\ page'.attrs = b
    BY <1>0, <2>4
  <2> QED BY <1>2, <2>3, <2>5, <2>6 DEF PropertyInv
\* A step that hands new attributes to the command stack.
<1>5. ASSUME NEW b, Attributes(b), Property!Do(b)
      PROVE  PropertyInv' /\ Attributes(page'.attrs)
  <2>1. page' = [[page EXCEPT !.attrs = b] EXCEPT !.past = Append(page.past, page.attrs)]
    BY <1>5 DEF Property!Do
  <2>2. page' = [f \in fields |-> page'[f]] /\ page'.attrs = b /\ page'.past = Append(page.past, page.attrs)
    BY <1>0, <2>1
  <2> QED BY <1>3, <1>5, <2>2
<1>6. ASSUME NEW b, Attributes(b), NEW f \in {"kind", "mode"}, NEW v,
             page' = [[[page EXCEPT ![f] = v] EXCEPT !.past = Append(page.past, page.attrs)] EXCEPT !.attrs = b]
      PROVE  PropertyInv' /\ Attributes(page'.attrs)
  <2>1. page' = [g \in fields |-> page'[g]] /\ page'.attrs = b /\ page'.past = Append(page.past, page.attrs)
    BY <1>0, <1>6
  <2> QED BY <1>3, <1>6, <2>1
<1>7. ASSUME NEW s \in Property!Slots, NEW v
      PROVE  Attributes(Property!WriteAssigneeAttrs(s, v))
  BY <1>2, Slotted DEF Attributes, Property!WriteAssigneeAttrs
<1>8. \A k : Property!SlotOf(k) \in Property!Slots
  BY DEF Property!SlotOf, Property!Slots
<1>9. CASE \E k \in Property!Kinds : Property!SetAssigneeKind(k)
  <2>1. PICK k \in Property!Kinds : Property!SetAssigneeKind(k)
    BY <1>9
  <2> DEFINE v == IF k = "initiator" THEN k ELSE None
  <2>2. page' = [[[page EXCEPT !.kind = k] EXCEPT !.past = Append(page.past, page.attrs)]
                   EXCEPT !.attrs = Property!WriteAssigneeAttrs(Property!SlotOf(k), v)]
    BY <1>0, <2>1 DEF Property!SetAssigneeKind
  <2> QED BY <1>2, <1>6, <1>7, <1>8, <2>2
<1>10. CASE Property!ApplyAssigneeValue
  BY <1>2, <1>5, <1>7, <1>8, <1>10 DEF Property!ApplyAssigneeValue
<1>11. CASE \E m \in {None, "parallel", "sequential"} : Property!SetApprovalMode(m)
  <2>1. PICK m : Property!Do([page.attrs EXCEPT !.loop = m])
    BY <1>11 DEF Property!SetApprovalMode
  <2>2. Attributes([page.attrs EXCEPT !.loop = m])
    BY <1>2 DEF Attributes
  <2> QED BY <1>2, <1>5, <2>1, <2>2
<1>12. CASE Property!ApplyProp
  <2>1. Attributes([page.attrs EXCEPT !.text = ~page.attrs.text])
    BY <1>2 DEF Attributes
  <2> QED BY <1>2, <1>5, <1>12, <2>1 DEF Property!ApplyProp, Attributes
<1>13. CASE \E m \in {"org", "fixed"} : Property!SetSubflowMode(m)
  <2>1. PICK m : Property!SetSubflowMode(m)
    BY <1>13
  <2>2. ASSUME NEW f \in {"key", "element"},
               page' = [[[page EXCEPT !.mode = m] EXCEPT !.past = Append(page.past, page.attrs)] EXCEPT !.attrs = [page.attrs EXCEPT ![f] = FALSE]]
        PROVE  PropertyInv' /\ Attributes(page'.attrs)
    <3> DEFINE b == [page.attrs EXCEPT ![f] = FALSE]
    <3>1. Attributes(b)
      BY <1>2 DEF Attributes
    <3> HIDE DEF b
    <3>2. page' = [[[page EXCEPT !["mode"] = m] EXCEPT !.past = Append(page.past, page.attrs)] EXCEPT !.attrs = b]
      BY <2>2 DEF b
    <3> QED BY <1>6, <3>1, <3>2
  <2>3. CASE m = "fixed"
    <3>1. page' = [page EXCEPT !.mode = m, !.past = Append(page.past, page.attrs), !.attrs = [page.attrs EXCEPT !.key = FALSE]]
      BY <2>1, <2>3 DEF Property!SetSubflowMode
    <3> DEFINE b == [page.attrs EXCEPT !["key"] = FALSE]
    <3>2. page' = [page EXCEPT !.mode = m, !.past = Append(page.past, page.attrs), !.attrs = b]
      BY <3>1
    <3> HIDE DEF b
    <3>3. page' = [[[page EXCEPT !.mode = m] EXCEPT !.past = Append(page.past, page.attrs)] EXCEPT !.attrs = b]
      BY <1>0, <3>2
    <3>4. page' = [[[page EXCEPT !.mode = m] EXCEPT !.past = Append(page.past, page.attrs)] EXCEPT !.attrs = [page.attrs EXCEPT !["key"] = FALSE]]
      BY <3>3 DEF b
    <3> QED BY <1>2, <2>2, <3>4
  <2>4. CASE m # "fixed"
    <3>1. page' = [page EXCEPT !.mode = m, !.past = Append(page.past, page.attrs), !.attrs = [page.attrs EXCEPT !.element = FALSE]]
      BY <2>1, <2>4 DEF Property!SetSubflowMode
    <3> DEFINE b == [page.attrs EXCEPT !["element"] = FALSE]
    <3>2. page' = [page EXCEPT !.mode = m, !.past = Append(page.past, page.attrs), !.attrs = b]
      BY <3>1
    <3> HIDE DEF b
    <3>3. page' = [[[page EXCEPT !.mode = m] EXCEPT !.past = Append(page.past, page.attrs)] EXCEPT !.attrs = b]
      BY <1>0, <3>2
    <3>4. page' = [[[page EXCEPT !.mode = m] EXCEPT !.past = Append(page.past, page.attrs)] EXCEPT !.attrs = [page.attrs EXCEPT !["element"] = FALSE]]
      BY <3>3 DEF b
    <3> QED BY <1>2, <2>2, <3>4
  <2>5. PropertyInv' /\ Attributes(page'.attrs)
    BY <2>3, <2>4
  <2> QED BY <1>2, <2>5
<1>14. CASE Property!SetCalled
  <2>1. PICK f \in {"key", "element"} : Property!Do([page.attrs EXCEPT ![f] = TRUE])
    BY <1>14 DEF Property!SetCalled
  <2>2. Attributes([page.attrs EXCEPT ![f] = TRUE])
    BY <1>2 DEF Attributes
  <2> QED BY <1>2, <1>5, <2>1, <2>2
<1>15. ASSUME NEW rows
       PROVE  Attributes(Property!WriteVarMap(rows))
  BY <1>2 DEF Attributes, Property!WriteVarMap
<1>16. CASE Property!AddVarRow
  <2> DEFINE b == Property!WriteVarMap(Append(page.attrs.rows, None))
  <2>1. page' = [[page EXCEPT !.attrs = b] EXCEPT !.past = Append(page.past, page.attrs)]
    BY <1>0, <1>16 DEF Property!AddVarRow
  <2>2. Attributes(b)
    BY <1>15
  <2> HIDE DEF b
  <2>3. page' = [f \in fields |-> page'[f]] /\ page'.attrs = b /\ page'.past = Append(page.past, page.attrs)
    BY <1>0, <2>1
  <2> QED BY <1>2, <1>3, <2>2, <2>3
<1>17. CASE \E i \in 1..MaxRows : Property!DeleteVarRow(i) \/ \E x \in Property!Names \cup {None} : Property!SetVarRow(i, x)
  <2>1. PICK rows : Property!Do(Property!WriteVarMap(rows))
    BY <1>17 DEF Property!DeleteVarRow, Property!SetVarRow
  <2> QED BY <1>2, <1>5, <1>15, <2>1
<1>18. CASE \E c \in Property!Conditions : Property!TypeCondition(c)
  <2>1. PICK c : Property!Do([page.attrs EXCEPT !.cond = c])
    BY <1>18 DEF Property!TypeCondition
  <2>2. Attributes([page.attrs EXCEPT !.cond = c])
    BY <1>2 DEF Attributes
  <2> QED BY <1>2, <1>5, <2>1, <2>2
<1>19. CASE \E c \in Property!Conditions : Property!EditRows(c)
  <2>1. PICK c : Property!EditRows(c)
    BY <1>19
  <2> DEFINE b == [page.attrs EXCEPT !.cond = c]
  <2>2. page' = [[[page EXCEPT !.rows = c] EXCEPT !.attrs = b] EXCEPT !.past = Append(page.past, page.attrs)]
    BY <1>0, <2>1 DEF Property!EditRows
  <2>3. Attributes(b)
    BY <1>2 DEF Attributes
  <2> HIDE DEF b
  <2>4. page' = [f \in fields |-> page'[f]] /\ page'.attrs = b /\ page'.past = Append(page.past, page.attrs)
    BY <1>0, <2>2
  <2> QED BY <1>2, <1>3, <2>3, <2>4
<1>20. CASE \/ \E e \in Property!Elements : Property!Select(e)
            \/ \E b \in BOOLEAN : Property!SetCondMode(b)
  <2>1. page' = [f \in fields |-> page'[f]] /\ page'.attrs = page.attrs /\ page'.past = page.past
    BY <1>0, <1>20 DEF Property!Select, Property!SetCondMode
  <2> QED BY <1>2, <1>3, <2>1
<1> QED BY <1>2, <1>4, <1>9, <1>10, <1>11, <1>12, <1>13, <1>14, <1>16, <1>17, <1>18, <1>19, <1>20 DEF Property!Next

LEMMA PropertyStarts ==
  ASSUME Property!Init
  PROVE  PropertyInv
<1>1. PICK g, c :
        page = [attrs |-> [handler |-> [Property!NoHandler EXCEPT !["groups"] = g], loop |-> None, key |-> FALSE, element |-> FALSE,
                           text |-> FALSE, cond |-> c, rows |-> IF g = None THEN << >> ELSE <<"x">>],
                past |-> << >>, selected |-> "task", kind |-> None, mode |-> None,
                rows |-> None, advanced |-> FALSE]
  BY DEF Property!Init
<1> DEFINE a == page.attrs
<1>2. "groups" \in Property!Slots
  BY DEF Property!Slots
<1>3. OneSlot(a.handler)
  BY <1>1, <1>2, Slotted
<1>4. Attributes(a)
  BY <1>1, <1>3 DEF Attributes
<1>5. page.past \in Seq({a}) /\ a \in {a} /\ \A x \in {a} : Attributes(x)
  BY <1>1, <1>4
<1>6. page = [f \in {"attrs", "past", "selected", "kind", "mode", "rows", "advanced"} |-> page[f]]
  BY <1>1
<1> QED BY <1>5, <1>6 DEF PropertyInv

\* Whoever wrote a handler before: what is there afterwards uses one slot.
LEMMA OneHandlerKept ==
  ASSUME PropertyInv, Property!Next
  PROVE  Property!OneHandlerStep
<1> DEFINE used(h) == {t \in Property!Slots : h[t] # None}
<1>1. OneSlot(page'.attrs.handler)
  BY PropertyStep DEF Attributes
<1>2. PICK s \in Property!Slots : \E v : page'.attrs.handler = [Property!NoHandler EXCEPT ![s] = v]
  BY <1>1 DEF OneSlot
<1>3. PICK v : page'.attrs.handler = [Property!NoHandler EXCEPT ![s] = v]
  BY <1>2
<1>4. Cardinality(used([Property!NoHandler EXCEPT ![s] = v])) <= 1
  BY <1>2, Slotted
<1>5. Cardinality(used(page'.attrs.handler)) <= 1
  BY <1>3, <1>4
<1>6. Property!Cardinality(used(page'.attrs.handler)) = Cardinality(used(page'.attrs.handler))
  BY DEF Property!Cardinality, Cardinality
<1> QED BY <1>5, <1>6 DEF Property!OneHandlerStep

\* The kind that is chosen is the one shown afterwards.
LEMMA KindShown ==
  ASSUME Property!PropertyAssumption, PropertyInv,
         NEW k, k # None, NEW v, (k = "user") => v # "initiator",
         page'.attrs = Property!WriteAssigneeAttrs(Property!SlotOf(k), v),
         \/ v = None /\ page'.kind = k
         \/ k = "user" /\ v = "v"
         \/ k # "user" /\ v = k
  PROVE  Property!ShownKind(page') = k
<1> DEFINE s == Property!SlotOf(k)
           h == page'.attrs.handler
<1>1. s \in Property!Slots /\ s = IF k = "user" THEN "assignee" ELSE "candidates"
  BY DEF Property!SlotOf, Property!Slots
<1>2. Attributes(page.attrs)
  BY DEF PropertyInv
<1>3. h = [Property!NoHandler EXCEPT ![s] = v]
  BY <1>2 DEF Attributes, Property!WriteAssigneeAttrs
<1>4. h = [t \in Property!Slots |-> IF t = s THEN v ELSE None]
  BY <1>1, <1>3, Slotted
<1>5. "assignee" \in Property!Slots /\ "groups" \in Property!Slots /\ "candidates" \in Property!Slots
  BY DEF Property!Slots
<1> HIDE DEF h, s
<1>6. CASE v = None /\ page'.kind = k
  <2>1. h = Property!NoHandler
    BY <1>4, <1>6 DEF Property!NoHandler
  <2> QED BY <1>6, <2>1 DEF Property!ShownKind, h
<1>7. CASE v # None
  <2>1. h # Property!NoHandler
    BY <1>1, <1>4, <1>7 DEF Property!NoHandler
  <2>2. Property!ShownKind(page') = Property!ReadKind(h)
    BY <2>1 DEF Property!ShownKind, h
  <2>3. CASE k = "user"
    <3>1. h["assignee"] # None
      BY <1>1, <1>4, <1>5, <1>7, <2>3
    <3> QED BY <2>2, <2>3, <3>1 DEF Property!ReadKind
  <2>4. CASE k # "user"
    <3>1. h["assignee"] = None /\ h["groups"] = None /\ h["candidates"] = k
      BY <1>1, <1>4, <1>5, <1>7, <2>4
    <3> QED BY <2>2, <3>1 DEF Property!ReadKind
  <2> QED BY <2>3, <2>4
<1>8. v # None \/ (v = None /\ page'.kind = k)
  BY DEF Property!PropertyAssumption
<1> QED BY <1>6, <1>7, <1>8

LEMMA KindStays ==
  ASSUME Property!PropertyAssumption, PropertyInv, Property!Next
  PROVE  Property!ChosenKindStaysStep
<1>1. ASSUME NEW k \in Property!Kinds, Property!SetAssigneeKind(k)
      PROVE  Property!ShownKind(page') = k
  <2> DEFINE v == IF k = "initiator" THEN k ELSE None
             b == Property!WriteAssigneeAttrs(Property!SlotOf(k), v)
  <2>1. page' = [[[page EXCEPT !.kind = k] EXCEPT !.past = Append(page.past, page.attrs)] EXCEPT !.attrs = b]
    BY <1>1 DEF Property!SetAssigneeKind, PropertyInv
  <2> HIDE DEF b
  <2>2. page = [f \in {"attrs", "past", "selected", "kind", "mode", "rows", "advanced"} |-> page[f]]
    BY DEF PropertyInv
  <2>3. page'.attrs = b /\ page'.kind = k
    BY <2>1, <2>2
  <2>4. k # None /\ k \in {"user", "role", "initiator"}
    BY DEF Property!Kinds, Property!PropertyAssumption
  <2>5. page'.attrs = Property!WriteAssigneeAttrs(Property!SlotOf(k), v)
    BY <2>3 DEF b
  <2>6. ((k = "user") => v # "initiator") /\ ((v = None /\ page'.kind = k) \/ (k # "user" /\ v = k))
    BY <2>3, <2>4 DEF Property!PropertyAssumption
  <2> HIDE DEF v
  <2> QED BY <2>4, <2>5, <2>6, KindShown
<1>2. ASSUME Property!ApplyAssigneeValue
      PROVE  Property!ShownKind(page') = Property!ShownKind(page)
  <2> DEFINE k == Property!ShownKind(page)
             v == IF k = "user" THEN "v" ELSE k
  <2>1. k # None
    BY DEF Property!ShownKind, Property!ReadKind, Property!PropertyAssumption
  <2>2. page' = [[page EXCEPT !.attrs = Property!WriteAssigneeAttrs(Property!SlotOf(k), v)] EXCEPT !.past = Append(page.past, page.attrs)]
    BY <1>2 DEF Property!ApplyAssigneeValue, Property!Do
  <2>3. page = [f \in {"attrs", "past", "selected", "kind", "mode", "rows", "advanced"} |-> page[f]]
    BY DEF PropertyInv
  <2>4. page'.attrs = Property!WriteAssigneeAttrs(Property!SlotOf(k), v)
    BY <2>2, <2>3
  <2>5. ((k = "user") => v # "initiator") /\ ((k = "user" /\ v = "v") \/ (k # "user" /\ v = k))
    OBVIOUS
  <2> HIDE DEF k, v
  <2>6. Property!ShownKind(page') = k
    BY <2>1, <2>4, <2>5, KindShown
  <2> QED BY <2>6 DEF k
<1> QED BY <1>1, <1>2 DEF Property!ChosenKindStaysStep

\* What is undone was once written: every state of the diagram, the present
\* one and those on the command stack, has at most one slot in use.
THEOREM PropertyInvariance ==
  Property!Spec => []PropertyInv
<1>1. Property!Init => PropertyInv
  BY PropertyStarts
<1>2. PropertyInv /\ [Property!Next]_Property!vars => PropertyInv'
  <2>1. CASE PropertyInv /\ Property!Next
    BY <2>1, PropertyStep
  <2>2. CASE PropertyInv /\ UNCHANGED Property!vars
    BY <2>2 DEF Property!vars, PropertyInv
  <2> QED BY <2>1, <2>2
<1> QED BY <1>1, <1>2, PTL DEF Property!Spec

\* After a write of the panel, or an undo, a task has one kind of handler
\* only (writeAssigneeAttrs clears the three slots before it writes one).
THEOREM PropertyOneHandler ==
  Property!Spec => Property!OneHandler
<1>1. PropertyInv /\ [Property!Next]_Property!vars => [Property!OneHandlerStep]_Property!vars
  BY OneHandlerKept
<1> QED BY <1>1, PropertyInvariance, PTL DEF Property!Spec, Property!OneHandler

\* The kind the user chose is the one shown, before and after a value of it
\* is written (shownKind, applyAssigneeValue).
THEOREM PropertyKindStays ==
  ASSUME Property!PropertyAssumption
  PROVE  Property!Spec => Property!ChosenKindStays
<1>1. PropertyInv /\ [Property!Next]_Property!vars => [Property!ChosenKindStaysStep]_Property!vars
  BY KindStays
<1> QED BY <1>1, PropertyInvariance, PTL DEF Property!Spec, Property!ChosenKindStays

-----------------------------------------------------------------------------
(* The job monitor: the stream that is open, and the pager of the history. *)

Jobs == INSTANCE PortalJobs

JobsFields == {"jobs", "filter", "selected", "detail", "es", "auto", "hist", "changes"}
JobsRequest == {"kind", "of", "act", "got"}

\* The pager stands on a page of its list, or on one of an empty list.
PagerIs(h) ==
  h = [f \in {"page", "pages", "of"} |-> h[f]] /\ h.page \in Nat \ {0} /\ h.pages \in Nat /\ (h.pages # 0 => h.page <= h.pages)

MonitorIs(p) == p = [f \in JobsFields |-> p[f]] /\ p.es \in {0, p.selected} /\ PagerIs(p.hist)

\* A request for the history names a page.
AsksPage(r) == r.status \in {"asked", "done", "failed"} /\ (r.kind = "history" => r.of \in Nat \ {0})

JobsWire(w) == Framed(w, JobsRequest) /\ \A r \in w : AsksPage(r)

JobsInv == MonitorIs(page) /\ JobsWire(wire)

LEMMA MonitorPuts ==
  ASSUME NEW p, MonitorIs(p), NEW f \in JobsFields, NEW v
  PROVE  /\ f \notin {"es", "selected", "hist"} => MonitorIs([p EXCEPT ![f] = v])
         /\ MonitorIs([p EXCEPT !.es = 0]) /\ MonitorIs([p EXCEPT !.selected = v, !.detail = v, !.es = 0])
         /\ \A h : PagerIs(h) => MonitorIs([p EXCEPT !.hist = h])
BY DEF MonitorIs, JobsFields

LEMMA MonitorDrawn ==
  ASSUME NEW p, MonitorIs(p)
  PROVE  MonitorIs(Jobs!AutoSelectFirst(p)) /\ MonitorIs(Jobs!Counted(p)) /\ MonitorIs(Jobs!Cleared(p))
<1>1. Jobs!AutoSelectFirst(p) = p \/ \E v : Jobs!AutoSelectFirst(p) = [p EXCEPT !["auto"] = v]
  BY DEF Jobs!AutoSelectFirst
<1>2. "auto" \in JobsFields \ {"es", "selected", "hist"} /\ "changes" \in JobsFields \ {"es", "selected", "hist"}
  BY DEF JobsFields
<1>3. MonitorIs(Jobs!AutoSelectFirst(p))
  <2>1. \A v : MonitorIs([p EXCEPT !["auto"] = v])
    BY <1>2, MonitorPuts
  <2> QED BY <1>1, <2>1
<1>4. MonitorIs(Jobs!Counted(p)) /\ MonitorIs(Jobs!Cleared(p))
  <2>1. MonitorIs([p EXCEPT !["changes"] = p.changes + 1])
    BY <1>2, MonitorPuts
  <2> DEFINE q == [p EXCEPT !["detail"] = Jobs!NoDetail]
  <2>2. q = [f \in JobsFields |-> q[f]] /\ PagerIs(q.hist)
    BY DEF MonitorIs, JobsFields
  <2> HIDE DEF q
  <2>3. MonitorIs([q EXCEPT !.selected = 0, !.es = 0])
    BY <2>2 DEF MonitorIs, JobsFields
  <2>4. Jobs!Cleared(p) = [q EXCEPT !.selected = 0, !.es = 0]
    BY DEF Jobs!Cleared, q
  <2> QED BY <2>1, <2>3, <2>4 DEF Jobs!Counted
<1> QED BY <1>3, <1>4

LEMMA JobsSends ==
  ASSUME NEW w, JobsWire(w), NEW max, NEW kind, NEW of, NEW act, kind = "history" => of \in Nat \ {0}
  PROVE  JobsWire(Jobs!Sent(w, max, Jobs!Request(kind, of, act)))
<1> DEFINE s == Jobs!Request(kind, of, act)
<1>1. DOMAIN s = JobsRequest /\ s.kind = kind /\ s.of = of
  BY DEF Jobs!Request, JobsRequest
<1> HIDE DEF s
<1>2. "n" \notin JobsRequest /\ "status" \notin JobsRequest /\ {"kind", "of"} \subseteq JobsRequest
  BY DEF JobsRequest
<1>3. Jobs!Sent(w, max, s) = Sent(w, max, s)
  BY DEF Jobs!Sent, Sent, Jobs!FreeNumber, FreeNumber, Jobs!Min, Min
<1>4. PICK q : /\ Sent(w, max, s) = w \cup {q}
               /\ \A f \in JobsRequest : q[f] = s[f]
               /\ q.status = "asked"
               /\ Framed(Sent(w, max, s), JobsRequest)
  BY <1>1, <1>2, SentAdds DEF JobsWire
<1>5. AsksPage(q)
  BY <1>1, <1>2, <1>4 DEF AsksPage
<1>6. JobsWire(Jobs!Sent(w, max, s))
  BY <1>3, <1>4, <1>5 DEF JobsWire
<1> QED BY <1>6 DEF s

LEMMA JobsTakes ==
  ASSUME NEW w, JobsWire(w), NEW r
  PROVE  JobsWire(w \ {r})
BY DEF JobsWire, Framed

\* The detail of another job, and the stream of it.
LEMMA MonitorOpens ==
  ASSUME NEW p, MonitorIs(p), NEW w, JobsWire(w), NEW s, NEW j, Jobs!OpenMonitor(p, s, w, j)
  PROVE  JobsInv'
<1> DEFINE q == [p EXCEPT !.selected = j]
           e == [q EXCEPT !.es = 0]
           f == [q EXCEPT !.es = j]
           t == IF p.jobs[j].status \in Jobs!Ended THEN Jobs!CloseEs(q, s) ELSE Jobs!Subscribe(q, s, j)
<1>1. t[1] = e \/ t[1] = f \/ (t[1] = q /\ q.es = j)
  BY DEF Jobs!CloseEs, Jobs!Subscribe
<1>2. q = [x \in JobsFields |-> q[x]] /\ q.selected = j /\ PagerIs(q.hist)
  BY DEF MonitorIs, JobsFields
<1>3. page' = Jobs!AutoSelectFirst(t[1]) /\ wire' = Jobs!Sent(w, MaxWire, Jobs!Request("detail", j, ""))
  BY DEF Jobs!OpenMonitor, Jobs!Drawn
<1> HIDE DEF q, t
<1>4. MonitorIs(e) /\ MonitorIs(f) /\ (q.es = j => MonitorIs(q))
  BY <1>2 DEF MonitorIs, JobsFields
<1>5. MonitorIs(page')
  BY <1>1, <1>3, <1>4, MonitorDrawn
<1>6. JobsWire(wire')
  BY <1>3, JobsSends
<1> QED BY <1>5, <1>6 DEF JobsInv

\* The page is drawn again.
LEMMA MonitorShows ==
  ASSUME NEW p, MonitorIs(p), Jobs!Drawn(p), JobsWire(wire')
  PROVE  JobsInv'
BY MonitorDrawn DEF Jobs!Drawn, JobsInv

\* What the user does.
LEMMA JobsUser ==
  ASSUME JobsInv,
         \/ Jobs!SubmitJob
         \/ \E j \in Jobs!Jobs : Jobs!SelectRow(j) \/ Jobs!GotoHistoryPage(j)
         \/ \E j, a : Jobs!Control(j, a)
         \/ \E f : Jobs!SetFilter(f)
  PROVE  JobsInv'
<1> DEFINE p == Jobs!Counted(page)
<1>0. MonitorIs(page) /\ JobsWire(wire) /\ MonitorIs(p)
  BY MonitorDrawn DEF JobsInv
<1> HIDE DEF p
<1>1. CASE Jobs!SubmitJob \/ \E j, a : Jobs!Control(j, a)
  <2>1. page' = p /\ \E j, a : wire' = Jobs!Sent(wire, MaxWire, Jobs!Request("act", j, a))
    BY <1>1 DEF Jobs!SubmitJob, Jobs!Control, p
  <2> QED BY <1>0, <2>1, JobsSends DEF JobsInv
<1>2. CASE \E j \in Jobs!Jobs : Jobs!SelectRow(j)
  BY <1>0, <1>2, MonitorOpens DEF Jobs!SelectRow, p
<1>3. CASE \E j \in Jobs!Jobs : Jobs!GotoHistoryPage(j)
  <2>1. PICK i \in 1..page.hist.pages : page' = [p EXCEPT !.hist.page = i] /\ wire' = Jobs!LoadHistory(page', wire)
    BY <1>3 DEF Jobs!GotoHistoryPage, Jobs!PagerButtons, p
  <2> DEFINE h == [p.hist EXCEPT !.page = i]
  <2>2. p.hist = page.hist /\ page.hist.pages \in Nat /\ PagerIs(page.hist)
    BY <1>0 DEF p, Jobs!Counted, MonitorIs, JobsFields, PagerIs
  <2>3. PagerIs(h) /\ h.page = i
    BY <2>2 DEF PagerIs
  <2>4. page' = [p EXCEPT !.hist = h]
    BY <2>1
  <2> HIDE DEF h
  <2>5. MonitorIs(page')
    BY <1>0, <2>3, <2>4, MonitorPuts DEF JobsFields
  <2>6. page'.hist.page \in Nat \ {0}
    BY <2>5 DEF MonitorIs, PagerIs
  <2>7. JobsWire(wire')
    BY <1>0, <2>1, <2>6, JobsSends DEF Jobs!LoadHistory
  <2> QED BY <2>5, <2>7 DEF JobsInv
<1>4. CASE \E f : Jobs!SetFilter(f)
  <2>1. PICK f : /\ Jobs!Drawn([p EXCEPT !.filter = f, !.hist.page = 1])
                 /\ wire' = Jobs!LoadHistory(page', Jobs!Sent(wire, MaxWire, Jobs!Request("list", 0, "")))
    BY <1>4 DEF Jobs!SetFilter, p
  <2> DEFINE q == [p EXCEPT !["filter"] = f]
             h == [q.hist EXCEPT !.page = 1]
  <2>2. MonitorIs(q)
    BY <1>0, MonitorPuts DEF JobsFields
  <2>3. Jobs!Drawn([q EXCEPT !.hist = h])
    BY <2>1
  <2> HIDE DEF q
  <2>4. PagerIs(h)
    BY <2>2 DEF MonitorIs, PagerIs
  <2> HIDE DEF h
  <2>5. MonitorIs([q EXCEPT !.hist = h])
    BY <2>2, <2>4, MonitorPuts DEF JobsFields
  <2>6. MonitorIs(page')
    BY <2>3, <2>5, MonitorDrawn DEF Jobs!Drawn
  <2>7. page'.hist.page \in Nat \ {0}
    BY <2>6 DEF MonitorIs, PagerIs
  <2>8. JobsWire(wire')
    BY <1>0, <2>1, <2>7, JobsSends DEF Jobs!LoadHistory
  <2> QED BY <2>6, <2>8 DEF JobsInv
<1> QED BY <1>1, <1>2, <1>3, <1>4

\* What the streams tell.
LEMMA JobsEvents ==
  ASSUME JobsInv, Jobs!AutoSelected \/ Jobs!LiveEvent \/ Jobs!SummaryEvent \/ Jobs!Reconnect
  PROVE  JobsInv'
<1>0. MonitorIs(page) /\ JobsWire(wire)
  BY DEF JobsInv
<1>1. CASE Jobs!AutoSelected
  <2>1. MonitorIs([page EXCEPT !["auto"] = 0])
    BY <1>0, MonitorPuts DEF JobsFields
  <2> QED BY <1>0, <1>1, <2>1, MonitorOpens DEF Jobs!AutoSelected
<1>2. CASE Jobs!LiveEvent
  <2>1. PICK d : Jobs!Drawn([page EXCEPT !["detail"] = d]) \/ Jobs!Drawn([[page EXCEPT !["detail"] = d] EXCEPT !.es = 0])
    BY <1>2 DEF Jobs!LiveEvent, Jobs!CloseEs
  <2>2. MonitorIs([page EXCEPT !["detail"] = d])
    BY <1>0, MonitorPuts DEF JobsFields
  <2>3. MonitorIs([[page EXCEPT !["detail"] = d] EXCEPT !.es = 0])
    BY <2>2, MonitorPuts DEF JobsFields
  <2>4. wire' = wire
    BY <1>2 DEF Jobs!LiveEvent
  <2> QED BY <1>0, <2>1, <2>2, <2>3, <2>4, MonitorShows
<1>3. CASE Jobs!SummaryEvent
  <2>1. PICK rows, d : LET q == [page EXCEPT !["jobs"] = rows]
                       IN  Jobs!Drawn(q) \/ Jobs!Drawn(Jobs!Cleared(q)) \/ Jobs!Drawn([q EXCEPT !["detail"] = d])
    <3> DEFINE e == Head(srv.feed)
               a == [page.jobs EXCEPT ![e.of] = Jobs!NoRow]
               b == [page.jobs EXCEPT ![e.of] = [status |-> e.status, rev |-> e.rev]]
               d == IF page.selected = e.of /\ page.detail.of # 0 THEN [page.detail EXCEPT !.status = e.status, !.rev = e.rev] ELSE page.detail
    <3>1. [page EXCEPT !.jobs[e.of] = Jobs!NoRow] = [page EXCEPT !["jobs"] = a]
      OBVIOUS
    <3>2. \/ Jobs!Drawn([page EXCEPT !["jobs"] = a]) \/ Jobs!Drawn(Jobs!Cleared([page EXCEPT !["jobs"] = a]))
          \/ Jobs!Drawn([page EXCEPT !.jobs[e.of] = [status |-> e.status, rev |-> e.rev], !.detail = d])
      BY <1>3, <3>1 DEF Jobs!SummaryEvent
    <3>3. [page EXCEPT !.jobs[e.of] = [status |-> e.status, rev |-> e.rev], !.detail = d] = [[page EXCEPT !["jobs"] = b] EXCEPT !["detail"] = d]
      OBVIOUS
    <3> HIDE DEF a, b, d
    <3> QED BY <3>2, <3>3
  <2> DEFINE q == [page EXCEPT !["jobs"] = rows]
  <2>2. MonitorIs(q)
    BY <1>0, MonitorPuts DEF JobsFields
  <2> HIDE DEF q
  <2>3. MonitorIs(Jobs!Cleared(q)) /\ MonitorIs([q EXCEPT !["detail"] = d])
    BY <2>2, MonitorPuts, MonitorDrawn DEF JobsFields
  <2>4. wire' = wire
    BY <1>3 DEF Jobs!SummaryEvent
  <2> QED BY <1>0, <2>1, <2>2, <2>3, <2>4, MonitorShows DEF q
<1>4. CASE Jobs!Reconnect
  <2>1. page' = page /\ wire' = Jobs!Sent(wire, MaxWire, Jobs!Request("list", 0, ""))
    BY <1>4 DEF Jobs!Reconnect
  <2> QED BY <1>0, <2>1, JobsSends DEF JobsInv
<1> QED BY <1>1, <1>2, <1>3, <1>4

\* The answers.
LEMMA JobsAnswers ==
  ASSUME Jobs!JobsAssumption, JobsInv, NEW r \in wire, Jobs!Answer(r)
  PROVE  JobsInv'
<1> DEFINE w == wire \ {r}
<1>0. MonitorIs(page) /\ JobsWire(wire) /\ JobsWire(w) /\ AsksPage(r)
  BY JobsTakes DEF JobsInv, JobsWire
<1> HIDE DEF w
<1>1. CASE Jobs!DetailAnswer(r)
  <2>1. PICK d : Jobs!Drawn(page) \/ Jobs!Drawn([page EXCEPT !["detail"] = d])
    BY <1>1 DEF Jobs!DetailAnswer
  <2>2. MonitorIs([page EXCEPT !["detail"] = d])
    BY <1>0, MonitorPuts DEF JobsFields
  <2>3. wire' = w \/ wire' = Jobs!Sent(w, MaxWire, Jobs!Request("list", 0, ""))
    BY <1>1 DEF Jobs!DetailAnswer, w
  <2>4. JobsWire(wire')
    BY <1>0, <2>3, JobsSends
  <2> QED BY <1>0, <2>1, <2>2, <2>4, MonitorShows
<1>2. CASE Jobs!ListAnswer(r)
  <2> DEFINE p == IF r.status = "done" THEN [page EXCEPT !["jobs"] = r.got] ELSE page
  <2>1. MonitorIs(p)
    BY <1>0, MonitorPuts DEF JobsFields
  <2>2. Jobs!OpenMonitor(p, srv, w, r.of) \/ (Jobs!Drawn(p) /\ wire' = w)
    BY <1>2 DEF Jobs!ListAnswer, w
  <2> HIDE DEF p
  <2> QED BY <1>0, <2>1, <2>2, MonitorOpens, MonitorShows
<1>3. CASE Jobs!ThenHistory(r)
  <2>1. MonitorIs([page EXCEPT !["jobs"] = r.got])
    BY <1>0, MonitorPuts DEF JobsFields
  <2>2. Jobs!Drawn(page) \/ Jobs!Drawn([page EXCEPT !["jobs"] = r.got])
    BY <1>3 DEF Jobs!ThenHistory
  <2>3. page.hist.page \in Nat \ {0}
    BY <1>0 DEF MonitorIs, PagerIs
  <2>4. JobsWire(wire')
    BY <1>0, <1>3, <2>3, JobsSends DEF Jobs!ThenHistory, Jobs!LoadHistory, w
  <2> QED BY <1>0, <2>1, <2>2, <2>4, MonitorShows
<1>4. CASE Jobs!ActAnswer(r)
  <2>1. Jobs!Drawn(page) \/ Jobs!Drawn(Jobs!Cleared(page))
    BY <1>4 DEF Jobs!ActAnswer
  <2>2. \/ wire' = w
        \/ \E of, act : wire' = Jobs!Sent(w, MaxWire, Jobs!Request("list", of, act))
        \/ \E of, act : wire' = Jobs!Sent(w, MaxWire, Jobs!Request("detail", of, act))
    BY <1>4 DEF Jobs!ActAnswer, w
  <2>3. JobsWire(wire')
    BY <1>0, <2>2, JobsSends
  <2> QED BY <1>0, <2>1, <2>3, MonitorShows, MonitorDrawn
<1>5. CASE Jobs!HistoryAnswer(r)
  <2> DEFINE there == {j \in Jobs!Jobs : r.got[j] # Jobs!NoRow}
             pages == Cardinality(there)
             h == [page |-> r.of, pages |-> pages, of |-> r.of]
             q == [page EXCEPT !.hist = h]
             g == [h EXCEPT !.page = pages]
             back == [q EXCEPT !.hist = g]
  <2>1. pages \in Nat
    <3>1. IsFiniteSet(1..MaxJobs)
      BY FS_Interval DEF Jobs!JobsAssumption
    <3>2. IsFiniteSet(there)
      BY <3>1, FS_Subset DEF Jobs!Jobs
    <3>3. Cardinality(there) \in Nat
      BY <3>2, FS_CardinalityType
    <3> QED BY <3>3
  <2>2. \/ page' = page /\ wire' = w
        \/ pages > 0 /\ r.of > pages /\ page' = back /\ wire' = Jobs!LoadHistory(back, w)
        \/ ~(pages > 0 /\ r.of > pages) /\ page' = q /\ wire' = w
    <3>1. pages = Jobs!Cardinality(there)
      BY DEF Jobs!Cardinality, Cardinality
    <3> HIDE DEF pages, there
    <3>2. r.status = "done" \/ r.status = "failed"
      BY <1>0, <1>5 DEF Jobs!HistoryAnswer, AsksPage
    <3>3. there = {j \in Jobs!Jobs : r.got[j] # Jobs!NoRow}
      BY DEF there
    <3> QED BY <1>5, <3>1, <3>2, <3>3 DEF Jobs!HistoryAnswer, w
  <2> HIDE DEF pages
  <2>3. r.of \in Nat \ {0}
    BY <1>0, <1>5 DEF Jobs!HistoryAnswer, AsksPage
  <2>4. pages > 0 => PagerIs(g)
    BY <2>1, <2>3 DEF PagerIs
  <2>5. ~(pages > 0 /\ r.of > pages) => PagerIs(h)
    BY <2>1, <2>3 DEF PagerIs
  <2>6. q.hist = h /\ back = [page EXCEPT !.hist = g] /\ back.hist.page = pages
    <3>1. page = [f \in JobsFields |-> page[f]]
      BY <1>0 DEF MonitorIs
    <3> HIDE DEF g, h
    <3>2. q.hist = h /\ back = [page EXCEPT !.hist = g] /\ back.hist = g
      BY <3>1 DEF JobsFields
    <3>3. g.page = pages
      BY DEF g, h
    <3> QED BY <3>2, <3>3
  <2>7. CASE page' = page /\ wire' = w
    BY <1>0, <2>7 DEF JobsInv
  <2>8. CASE pages > 0 /\ r.of > pages /\ page' = back /\ wire' = Jobs!LoadHistory(back, w)
    <3>1. MonitorIs(page')
      <4> HIDE DEF g, back
      <4> QED BY <1>0, <2>4, <2>6, <2>8, MonitorPuts DEF JobsFields
    <3>2. JobsWire(wire')
      <4>1. back.hist.page \in Nat \ {0}
        BY <2>1, <2>6, <2>8
      <4> HIDE DEF back
      <4> QED BY <1>0, <2>8, <4>1, JobsSends DEF Jobs!LoadHistory
    <3> QED BY <3>1, <3>2 DEF JobsInv
  <2>9. CASE ~(pages > 0 /\ r.of > pages) /\ page' = q /\ wire' = w
    <3>1. MonitorIs(q)
      <4> HIDE DEF h
      <4> QED BY <1>0, <2>5, <2>9, MonitorPuts DEF JobsFields
    <3> QED BY <1>0, <2>9, <3>1 DEF JobsInv
  <2> QED BY <2>2, <2>7, <2>8, <2>9
<1> QED BY <1>1, <1>2, <1>3, <1>4, <1>5 DEF Jobs!Answer

\* The job service.
LEMMA JobsService ==
  ASSUME JobsInv, NEW r \in wire, Jobs!Serve(r) \/ Jobs!Refuse(r)
  PROVE  JobsInv'
<1>0. MonitorIs(page) /\ JobsWire(wire) /\ AsksPage(r) /\ r = [f \in JobsRequest \cup {"n", "status"} |-> r[f]]
  BY DEF JobsInv, JobsWire, Framed
<1> DEFINE fits(a) == a = [f \in JobsRequest \cup {"n", "status"} |-> a[f]] /\ AsksPage(a)
<1>1. \A of, got : /\ r.kind = "act" => fits([r EXCEPT !.status = "done", !.of = of])
                   /\ fits([r EXCEPT !.status = "done"]) /\ fits([r EXCEPT !.status = "failed"])
                   /\ fits([r EXCEPT !.status = "done", !.got = got])
  BY <1>0 DEF JobsRequest, AsksPage
<1>2. PICK a : fits(a) /\ wire' = (wire \ {r}) \cup {a} /\ page' = page
  <2> HIDE DEF fits
  <2>1. CASE Jobs!Serve(r)
    BY <1>1, <2>1 DEF Jobs!Serve, Jobs!Settled
  <2>2. CASE Jobs!Refuse(r)
    BY <1>1, <2>2 DEF Jobs!Refuse, Jobs!Refused, Jobs!Settled
  <2> QED BY <2>1, <2>2
<1>3. JobsWire(wire')
  BY <1>0, <1>2 DEF JobsWire, Framed
<1> QED BY <1>0, <1>2, <1>3 DEF JobsInv

THEOREM JobsInvariance ==
  ASSUME Jobs!JobsAssumption
  PROVE  Jobs!Spec => []JobsInv
<1>1. Jobs!Init => JobsInv
  <2> SUFFICES ASSUME Jobs!Init PROVE JobsInv
    OBVIOUS
  <2>1. MonitorIs(page)
    <3>1. page = [f \in JobsFields |-> page[f]] /\ page.es = 0 /\ page.hist = [page |-> 1, pages |-> 0, of |-> 1]
      BY DEF Jobs!Init, JobsFields
    <3> QED BY <3>1 DEF MonitorIs, PagerIs
  <2>2. JobsWire({})
    BY DEF JobsWire, Framed
  <2> DEFINE w == Jobs!Sent({}, 2, Jobs!Request("list", 0, ""))
  <2>3. JobsWire(w)
    BY <2>2, JobsSends
  <2>4. wire = Jobs!Sent(w, 2, Jobs!Request("history", 1, ""))
    BY DEF Jobs!Init
  <2>5. 1 \in Nat \ {0}
    OBVIOUS
  <2> HIDE DEF w
  <2>6. JobsWire(wire)
    BY <2>3, <2>4, <2>5, JobsSends
  <2> QED BY <2>1, <2>6 DEF JobsInv
<1>2. JobsInv /\ [Jobs!Next]_Jobs!vars => JobsInv'
  <2> SUFFICES ASSUME JobsInv, [Jobs!Next]_Jobs!vars PROVE JobsInv'
    OBVIOUS
  <2>1. CASE Jobs!AutoSelected \/ Jobs!LiveEvent \/ Jobs!SummaryEvent \/ Jobs!Reconnect
    BY <2>1, JobsEvents
  <2>2. CASE \/ Jobs!SubmitJob
             \/ \E j \in Jobs!Jobs : Jobs!SelectRow(j) \/ Jobs!GotoHistoryPage(j)
             \/ \E j, a : Jobs!Control(j, a)
             \/ \E f : Jobs!SetFilter(f)
    BY <2>2, JobsUser
  <2>3. CASE \E j \in Jobs!Jobs : Jobs!Works(j)
    BY <2>3 DEF Jobs!Works, JobsInv
  <2>4. CASE \E r \in wire : Jobs!Answer(r)
    BY <2>4, JobsAnswers
  <2>5. CASE \E r \in wire : Jobs!Serve(r) \/ Jobs!Refuse(r)
    BY <2>5, JobsService
  <2>6. CASE UNCHANGED Jobs!vars
    BY <2>6 DEF Jobs!vars, JobsInv
  <2> QED BY <2>1, <2>2, <2>3, <2>4, <2>5, <2>6 DEF Jobs!Next
<1> QED BY <1>1, <1>2, PTL DEF Jobs!Spec

\* However answers and events overtake each other, the stream that is open is
\* that of the chosen job (subscribeProgress, closeEs), and the pager of the
\* history stands on a page of its list (loadHistory, gotoHistoryPage).
THEOREM JobsShowChosen ==
  ASSUME Jobs!JobsAssumption
  PROVE  Jobs!Spec => [](Jobs!StreamIsChosen /\ Jobs!PagerInRange)
<1>1. JobsInv => Jobs!StreamIsChosen /\ Jobs!PagerInRange
  BY DEF JobsInv, MonitorIs, PagerIs, Jobs!StreamIsChosen, Jobs!PagerInRange
<1> QED BY <1>1, JobsInvariance, PTL

-----------------------------------------------------------------------------
(* The help centre: back and forward over what was read.                   *)

Help == INSTANCE PortalHelp WITH First <- FirstTopic, MaxChanges <- MaxRounds

HelpFields == {"catalog", "selected", "history", "histIndex", "doc", "failed", "open", "context", "query", "expanded", "all", "changes"}

\* No topic stands beside itself.
Apart(h) == \A i \in 1..Len(h) - 1 : h[i] # h[i + 1]

\* The history, and the place in it.
Read(h, i) == h \in Seq(Topics) /\ Apart(h) /\ (h = <<>> => i = 0) /\ (h # <<>> => i \in 1..Len(h))

ReaderIs(p) ==
  /\ p = [f \in HelpFields |-> p[f]] /\ Read(p.history, p.histIndex)
  /\ p.selected \in Topics \cup {None} /\ p.catalog \subseteq Topics
  /\ p.history # <<>> => p.history[p.histIndex] = p.selected

HelpInv == ReaderIs(page)

LEMMA ReaderPuts ==
  ASSUME NEW p, ReaderIs(p), NEW f \in HelpFields \ {"history", "histIndex", "selected", "catalog"}, NEW v
  PROVE  ReaderIs([p EXCEPT ![f] = v])
BY DEF ReaderIs, HelpFields

\* What was read up to here, and a topic that is not the last of that.
LEMMA ReadOn ==
  ASSUME NEW h, NEW i, Read(h, i), NEW t \in Topics, h # <<>> => h[i] # t
  PROVE  LET kept == SubSeq(h, 1, i)
             more == Append(kept, t)
         IN  Read(more, Len(kept) + 1) /\ more # <<>> /\ more[Len(kept) + 1] = t
<1> DEFINE kept == SubSeq(h, 1, i)
           more == Append(kept, t)
<1>1. h \in Seq(Topics) /\ Len(h) \in Nat /\ i \in Nat /\ i <= Len(h) /\ (i # 0 => i \in 1..Len(h))
  BY DEF Read
<1>2. kept \in Seq(Topics) /\ Len(kept) = i /\ \A j \in 1..i : kept[j] = h[j]
  BY <1>1
<1> HIDE DEF kept
<1>3. more \in Seq(Topics) /\ Len(more) = i + 1 /\ more[i + 1] = t /\ (\A j \in 1..i : more[j] = kept[j])
  BY <1>1, <1>2
<1> HIDE DEF more
<1>4. Apart(more)
  <2> SUFFICES ASSUME NEW j \in 1..Len(more) - 1 PROVE more[j] # more[j + 1]
    BY DEF Apart
  <2>1. j \in 1..i /\ more[j] = h[j] /\ h # <<>>
    BY <1>1, <1>2, <1>3
  <2>2. CASE j = i
    BY <1>3, <2>1, <2>2
  <2>3. CASE j # i
    <3>1. j + 1 \in 1..i /\ j \in 1..Len(h) - 1
      BY <1>1, <2>1, <2>3
    <3>2. more[j + 1] = h[j + 1]
      BY <1>2, <1>3, <3>1
    <3> QED BY <2>1, <3>1, <3>2 DEF Read, Apart
  <2> QED BY <2>2, <2>3
<1>5. more # <<>> /\ i + 1 \in 1..Len(more)
  BY <1>1, <1>3
<1> QED BY <1>2, <1>3, <1>4, <1>5 DEF Read, kept, more

\* What was read up to here.
LEMMA ReadBack ==
  ASSUME NEW h, NEW i, Read(h, i)
  PROVE  LET kept == SubSeq(h, 1, i)
         IN  Read(kept, i) /\ (kept = <<>> <=> h = <<>>) /\ (h # <<>> => kept[i] = h[i]) /\ (kept # <<>> => Help!Last(kept) = h[i])
<1> DEFINE kept == SubSeq(h, 1, i)
<1>1. h \in Seq(Topics) /\ Len(h) \in Nat /\ i \in Nat /\ i <= Len(h) /\ (h # <<>> => i \in 1..Len(h)) /\ (h = <<>> => i = 0)
  BY DEF Read
<1>2. kept \in Seq(Topics) /\ Len(kept) = i /\ \A j \in 1..i : kept[j] = h[j]
  BY <1>1
<1>3. kept = <<>> <=> h = <<>>
  BY <1>1, <1>2
<1> HIDE DEF kept
<1>4. Apart(kept)
  BY <1>1, <1>2 DEF Apart, Read
<1>5. Help!Last(kept) = kept[Len(kept)]
  BY DEF Help!Last
<1>6. Read(kept, i)
  BY <1>1, <1>2, <1>3, <1>4 DEF Read
<1>7. h # <<>> => kept[i] = h[i]
  BY <1>1, <1>2
<1> QED BY <1>2, <1>3, <1>5, <1>6, <1>7 DEF kept

\* The page, with another history and another topic.
LEMMA ReaderTurns ==
  ASSUME NEW p, ReaderIs(p), NEW h, NEW i, NEW t \in Topics, Read(h, i), h # <<>>, h[i] = t, NEW b
  PROVE  /\ ReaderIs([p EXCEPT !.history = h, !.histIndex = i, !.selected = t, !.failed = b])
         /\ i = p.histIndex => ReaderIs([p EXCEPT !.history = h, !.selected = t, !.failed = b])
         /\ h = p.history => ReaderIs([p EXCEPT !.histIndex = i, !.selected = t, !.failed = b])
<1> DEFINE a == [p EXCEPT !.history = h]
           c == [a EXCEPT !.histIndex = i]
           d == [c EXCEPT !.selected = t]
<1>1. a = [f \in HelpFields |-> a[f]] /\ a.history = h /\ a.catalog \subseteq Topics /\ a.histIndex = p.histIndex
  BY DEF ReaderIs, HelpFields
<1> HIDE DEF a
<1>2. c = [f \in HelpFields |-> c[f]] /\ c.history = h /\ c.histIndex = i /\ c.catalog \subseteq Topics
  BY <1>1 DEF HelpFields
<1> HIDE DEF c
<1>3. d = [f \in HelpFields |-> d[f]] /\ d.history = h /\ d.histIndex = i /\ d.catalog \subseteq Topics /\ d.selected = t
  BY <1>2 DEF HelpFields
<1> HIDE DEF d
<1>4. ReaderIs(d)
  BY <1>3 DEF ReaderIs
<1>5. "failed" \in HelpFields \ {"history", "histIndex", "selected", "catalog"}
  BY DEF HelpFields
<1>6. ReaderIs([d EXCEPT !["failed"] = b])
  BY <1>4, <1>5, ReaderPuts
<1>7. [p EXCEPT !.history = h, !.histIndex = i, !.selected = t, !.failed = b] = [d EXCEPT !["failed"] = b]
  BY DEF a, c, d
<1>8. ASSUME i = p.histIndex PROVE [p EXCEPT !.history = h, !.selected = t, !.failed = b] = [d EXCEPT !["failed"] = b]
  <2>1. c = a
    BY <1>1, <1>8 DEF c, HelpFields
  <2> QED BY <2>1 DEF a, d
<1>9. ASSUME h = p.history PROVE [p EXCEPT !.histIndex = i, !.selected = t, !.failed = b] = [d EXCEPT !["failed"] = b]
  <2>1. a = p
    BY <1>9 DEF a, ReaderIs, HelpFields
  <2> QED BY <2>1 DEF c, d
<1> QED BY <1>6, <1>7, <1>8, <1>9

\* A topic that is chosen goes behind what was read.
LEMMA Navigates ==
  ASSUME NEW p, ReaderIs(p), NEW t \in Topics, Help!Navigate(p, t, TRUE)
  PROVE  HelpInv'
<1> DEFINE h == p.history
           i == p.histIndex
           kept == SubSeq(h, 1, i)
           last == [p EXCEPT !.history = kept]
           more == [p EXCEPT !.history = Append(kept, t), !.histIndex = Len(kept) + 1]
<1>1. CASE page' = p
  BY <1>1 DEF HelpInv
<1>2. CASE page' = [Help!Pushed(p, t) EXCEPT !.selected = t, !.failed = FALSE]
  <2>1. Read(h, i) /\ (h # <<>> => h[i] \in Topics) /\ (h = <<>> \/ h # <<>>)
    BY DEF ReaderIs, Read
  <2>2. CASE kept # <<>> /\ Help!Last(kept) = t
    <3>1. page' = [p EXCEPT !.history = kept, !.selected = t, !.failed = FALSE]
      BY <1>2, <2>2 DEF Help!Pushed
    <3>2. Read(kept, i) /\ kept # <<>> /\ kept[i] = t
      BY <2>1, <2>2, ReadBack
    <3> HIDE DEF kept
    <3> QED BY <3>1, <3>2, ReaderTurns DEF HelpInv
  <2>3. CASE ~(kept # <<>> /\ Help!Last(kept) = t)
    <3>1. page' = [p EXCEPT !.history = Append(kept, t), !.histIndex = Len(kept) + 1, !.selected = t, !.failed = FALSE]
      BY <1>2, <2>3 DEF Help!Pushed
    <3>2. h # <<>> => h[i] # t
      BY <2>1, <2>3, ReadBack
    <3>3. Read(Append(kept, t), Len(kept) + 1) /\ Append(kept, t) # <<>> /\ Append(kept, t)[Len(kept) + 1] = t
      <4> HIDE DEF h, i
      <4> QED BY <2>1, <3>2, ReadOn
    <3> HIDE DEF kept
    <3> QED BY <3>1, <3>3, ReaderTurns DEF HelpInv
  <2> QED BY <2>2, <2>3
<1> QED BY <1>1, <1>2 DEF Help!Navigate

\* Back or forward: the topic is the one the history has there.
LEMMA Goes ==
  ASSUME HelpInv, NEW step \in {-1, 1}, Help!Go(step)
  PROVE  HelpInv'
<1> DEFINE p == Help!Counted(page)
           i == page.histIndex + step
           q == [p EXCEPT !.histIndex = i]
           t == page.history[i]
<1>0. ReaderIs(page) /\ ReaderIs(p) /\ p.history = page.history /\ p.histIndex = page.histIndex
  <2>1. "changes" \in HelpFields \ {"history", "histIndex", "selected", "catalog"} /\ ReaderIs(page)
    BY DEF HelpFields, HelpInv
  <2>2. \A v : ReaderIs([page EXCEPT !["changes"] = v])
    BY <2>1, ReaderPuts
  <2>3. p.history = page.history /\ p.histIndex = page.histIndex
    BY <2>1 DEF Help!Counted, ReaderIs, HelpFields
  <2> QED BY <2>1, <2>2, <2>3 DEF Help!Counted
<1>1. Help!Navigate([p EXCEPT !.histIndex = p.histIndex + step], t, FALSE) /\ IF step = 1 THEN Help!CanGoForward(page) ELSE Help!CanGoBack(page)
  BY DEF Help!Go
<1>2. Help!Navigate(q, t, FALSE)
  BY <1>0, <1>1
<1>3. i \in 1..Len(page.history) /\ page.history # <<>> /\ page.history \in Seq(Topics)
  <2>1. page.histIndex \in Nat /\ page.history \in Seq(Topics) /\ Len(page.history) \in Nat
        /\ page.histIndex <= Len(page.history) /\ (page.history = <<>> => page.histIndex = 0)
    BY <1>0 DEF ReaderIs, Read
  <2>2. CASE step = 1
    BY <1>1, <2>1, <2>2 DEF Help!CanGoForward
  <2>3. CASE step = -1
    BY <1>1, <2>1, <2>3 DEF Help!CanGoBack
  <2> QED BY <2>2, <2>3
<1>4. Read(page.history, i) /\ t \in Topics
  BY <1>0, <1>3 DEF ReaderIs, Read
<1> HIDE DEF p
<1>5. \A b : ReaderIs([p EXCEPT !.histIndex = i, !.selected = t, !.failed = b])
  <2>1. page.history[i] = t
    OBVIOUS
  <2> HIDE DEF i, t
  <2> QED BY <1>0, <1>3, <1>4, <2>1, ReaderTurns
<1>6. CASE page' = q /\ t = q.selected
  <2>1. q = [q EXCEPT !.selected = t, !.failed = q.failed]
    BY <1>0, <1>6 DEF ReaderIs, HelpFields
  <2>2. q = [p EXCEPT !.histIndex = i, !.selected = t, !.failed = q.failed]
    BY <2>1
  <2> HIDE DEF q
  <2> QED BY <1>5, <1>6, <2>2 DEF HelpInv
<1>7. CASE page' = [q EXCEPT !.selected = t, !.failed = FALSE]
  BY <1>5, <1>7 DEF HelpInv
<1> QED BY <1>2, <1>6, <1>7 DEF Help!Navigate

\* The first topic is chosen when the catalogue has come.
LEMMA CatalogComes ==
  ASSUME Help!HelpAssumption, HelpInv, NEW r, Help!CatalogAnswer(r)
  PROVE  HelpInv'
<1> DEFINE a == [page EXCEPT !.catalog = Topics]
           p == Help!PickInitial(a)
           h == <<p.selected>>
           q == [p EXCEPT !.history = h, !.histIndex = 1]
<1>0. ReaderIs(page) /\ FirstTopic \in Topics /\ None \notin Topics
  BY DEF HelpInv, Help!HelpAssumption
<1>1. CASE page' = page
  BY <1>0, <1>1 DEF HelpInv
<1>2. CASE page' = IF p.history = <<>> THEN q ELSE p
  <2>1. a = [f \in HelpFields |-> a[f]] /\ a.selected = page.selected /\ a.history = page.history /\ a.histIndex = page.histIndex
        /\ a.catalog = Topics
    BY <1>0 DEF ReaderIs, HelpFields
  <2>2. Read(a.history, a.histIndex) /\ (a.history # <<>> => a.histIndex \in DOMAIN a.history /\ a.selected = a.history[a.histIndex])
    BY <1>0, <2>1 DEF ReaderIs, Read
  <2>3. a.history # <<>> => a.selected \in Topics /\ a.selected # None
    BY <1>0, <2>2 DEF Read
  <2> HIDE DEF a
  <2>4. p = [f \in HelpFields |-> p[f]] /\ p.selected \in Topics /\ p.history = a.history /\ p.histIndex = a.histIndex
        /\ p.catalog = Topics /\ (a.history # <<>> => p.selected = a.selected)
    <3>1. a.selected = page.selected /\ page.selected \in Topics \cup {None}
      BY <1>0, <2>1 DEF ReaderIs
    <3>2. CASE a.selected = None
      BY <1>0, <2>1, <2>3, <3>2 DEF Help!PickInitial, HelpFields
    <3>3. CASE a.selected # None
      BY <2>1, <3>1, <3>3 DEF Help!PickInitial
    <3> QED BY <3>2, <3>3
  <2> HIDE DEF p
  <2>5. ReaderIs(p) \/ p.history = <<>>
    BY <2>2, <2>4 DEF ReaderIs
  <2>6. CASE p.history = <<>>
    <3>1. h \in Seq(Topics) /\ Len(h) = 1 /\ h[1] = p.selected /\ h # <<>>
      BY <2>4
    <3> HIDE DEF h
    <3>2. Read(h, 1)
      BY <3>1 DEF Read, Apart
    <3>3. q = [f \in HelpFields |-> q[f]] /\ q.history = h /\ q.histIndex = 1 /\ q.selected = p.selected /\ q.catalog = Topics
      BY <2>4 DEF HelpFields
    <3> HIDE DEF q
    <3>4. ReaderIs(q)
      BY <2>4, <3>1, <3>2, <3>3 DEF ReaderIs
    <3> QED BY <1>2, <2>6, <3>4 DEF HelpInv
  <2> QED BY <1>2, <2>5, <2>6 DEF HelpInv
<1> QED BY <1>1, <1>2 DEF Help!CatalogAnswer

LEMMA HelpStep ==
  ASSUME Help!HelpAssumption, HelpInv, Help!Next
  PROVE  HelpInv'
<1> DEFINE plain == HelpFields \ {"history", "histIndex", "selected", "catalog"}
<1>0. ReaderIs(page) /\ {"changes", "open", "context", "doc", "failed", "query", "expanded", "all"} \subseteq plain
  BY DEF HelpInv, HelpFields
<1>1. ASSUME NEW p, ReaderIs(p), NEW f \in plain, NEW v, NEW g \in plain, NEW u, NEW h \in plain, NEW x
      PROVE  /\ ReaderIs([p EXCEPT ![f] = v]) /\ ReaderIs([[p EXCEPT ![f] = v] EXCEPT ![g] = u])
             /\ ReaderIs([[[p EXCEPT ![f] = v] EXCEPT ![g] = u] EXCEPT ![h] = x])
  BY <1>1, ReaderPuts
<1> DEFINE p == Help!Counted(page)
<1>2. ReaderIs(p) /\ p.catalog = page.catalog
  <2>1. ReaderIs([page EXCEPT !["changes"] = page.changes + 1])
    BY <1>0, <1>1
  <2> QED BY <1>0, <2>1 DEF Help!Counted, ReaderIs, HelpFields
<1> HIDE DEF p, plain
<1>3. CASE Help!Close
  <2>1. ReaderIs([[p EXCEPT !["open"] = FALSE] EXCEPT !["context"] = Help!NoContext])
    BY <1>0, <1>1, <1>2
  <2> QED BY <1>3, <2>1 DEF Help!Close, HelpInv, p
<1>4. CASE Help!Open
  <2> DEFINE a == [page EXCEPT !["open"] = TRUE]
  <2>1. ReaderIs([a EXCEPT !["context"] = [active |-> TRUE, of |-> a.doc]])
    BY <1>0, <1>1
  <2> QED BY <1>4, <2>1 DEF Help!Open, Help!Publish, HelpInv
<1>5. CASE \E g \in Help!Groups : Help!ToggleExpand(g)
  <2>1. PICK e : page' = [p EXCEPT !.all = FALSE, !.expanded = e]
    BY <1>5 DEF Help!ToggleExpand, p
  <2>2. ReaderIs([[p EXCEPT !["all"] = FALSE] EXCEPT !["expanded"] = e])
    BY <1>0, <1>1, <1>2
  <2> QED BY <2>1, <2>2 DEF HelpInv
<1>6. CASE \E q : Help!Search(q)
  <2>1. PICK q : page' = [p EXCEPT !.query = q]
    BY <1>6 DEF Help!Search, p
  <2>2. ReaderIs([p EXCEPT !["query"] = q])
    BY <1>0, <1>1, <1>2
  <2> QED BY <2>1, <2>2 DEF HelpInv
<1>7. CASE \E t \in Topics : Help!SelectTopic(t) \/ Help!FollowLink(t)
  BY <1>2, <1>7, Navigates DEF Help!SelectTopic, Help!FollowLink, p
<1>8. CASE Help!Go(-1) \/ Help!Go(1)
  BY <1>8, Goes
<1>9. CASE \E r \in wire : Help!DocAnswer(r)
  <2>1. PICK d, b : page' = Help!Publish([page EXCEPT !.doc = d, !.failed = b])
    BY <1>9 DEF Help!DocAnswer
  <2> DEFINE a == [[page EXCEPT !["doc"] = d] EXCEPT !["failed"] = b]
  <2>2. ReaderIs([a EXCEPT !["context"] = [active |-> TRUE, of |-> a.doc]])
    BY <1>0, <1>1
  <2> QED BY <2>1, <2>2 DEF Help!Publish, HelpInv
<1>10. CASE \E r \in wire : Help!CatalogAnswer(r)
  BY <1>10, CatalogComes
<1>11. CASE \E r \in wire : Help!Serve(r) \/ Help!Refuse(r)
  BY <1>0, <1>11 DEF Help!Serve, Help!Refuse, HelpInv
<1> QED BY <1>3, <1>4, <1>5, <1>6, <1>7, <1>8, <1>9, <1>10, <1>11 DEF Help!Next

\* Back and forward behave like a browser's: the chosen topic is the one the
\* history is at, and no two neighbours in it are the same (navigate, goBack, goForward).
THEOREM HelpTellsTopic ==
  ASSUME Help!HelpAssumption
  PROVE  Help!Spec => []Help!HistoryTellsTopic
<1>1. Help!Init => HelpInv
  <2> SUFFICES ASSUME Help!Init PROVE HelpInv
    OBVIOUS
  <2>1. page = [f \in HelpFields |-> page[f]] /\ page.catalog = {} /\ page.selected = None /\ page.history = <<>> /\ page.histIndex = 0
    BY DEF Help!Init, HelpFields
  <2>2. Read(<<>>, 0)
    <3>1. \A i \in 1..Len(<<>>) - 1 : FALSE
      OBVIOUS
    <3> QED BY <3>1 DEF Read, Apart
  <2> QED BY <2>1, <2>2 DEF HelpInv, ReaderIs
<1>2. HelpInv /\ [Help!Next]_Help!vars => HelpInv'
  BY HelpStep DEF Help!vars, HelpInv
<1>3. HelpInv => Help!HistoryTellsTopic
  BY DEF HelpInv, ReaderIs, Read, Apart, Help!HistoryTellsTopic
<1> QED BY <1>1, <1>2, <1>3, PTL DEF Help!Spec

-----------------------------------------------------------------------------
(* The registry of domains, applications and modules: the chosen keys, and *)
(* the filter.                                                             *)

Dam == INSTANCE PortalDam WITH Ids <- RecordIds, MaxChanges <- MaxRounds

DamFields == {"registry", "kind", "selected", "keys", "filter", "drafts", "res", "changes"}
DamRequest == {"kind", "of", "draft", "got"}

Records(s) == \A x \in s : x.key \in Dam!Keys

\* A filter is the key of a domain or of an application, or none.
FilterIs(f) == f = <<>> \/ (f \in Dam!Keys /\ Len(f) <= 2)

Follow(keys, f) ==
  /\ DOMAIN keys = 1..3
  /\ \A k \in 1..2 : keys[k] = IF Len(f) >= k THEN SubSeq(f, 1, k) ELSE <<>>

\* The page, apart from its filter and the chosen keys.
CentreIs(p) == p = [f \in DamFields |-> p[f]] /\ Records(p.registry)

DamPage(p) == CentreIs(p) /\ FilterIs(p.filter) /\ Follow(p.keys, p.filter)

LEMMA FollowIs ==
  ASSUME NEW keys, NEW f, DOMAIN keys = 1..3,
         keys[1] = IF Len(f) >= 1 THEN SubSeq(f, 1, 1) ELSE <<>>,
         keys[2] = IF Len(f) >= 2 THEN SubSeq(f, 1, 2) ELSE <<>>
  PROVE  Follow(keys, f)
<1>1. \A k \in 1..2 : k = 1 \/ k = 2
  OBVIOUS
<1> QED BY <1>1 DEF Follow

\* What requests and answers carry.
Carries(r) ==
  /\ r.kind = "load" => Records(r.got)
  /\ r.kind = "save" => r.draft.key \in Dam!Keys /\ r.of \in Dam!Keys \cup {<<>>}
  /\ r.kind = "delete" => r.of \in Dam!Keys

DamWire(w) == Framed(w, DamRequest) /\ \A r \in w : Carries(r)

DamInv == DamPage(page) /\ DamWire(wire) /\ Records(srv)

\* A key and the keys above it.
LEMMA KeyIs ==
  ASSUME NEW key \in Dam!Keys
  PROVE  /\ key \in Seq(RecordIds) /\ Len(key) \in 1..3 /\ key # <<>> /\ SubSeq(key, 1, Len(key)) = key
         /\ \A n \in 1..Len(key) : /\ SubSeq(key, 1, n) \in Dam!Keys /\ Len(SubSeq(key, 1, n)) = n
                                   /\ \A m \in 1..n : SubSeq(SubSeq(key, 1, n), 1, m) = SubSeq(key, 1, m)
<1>1. PICK n \in 1..3 : key \in [1..n -> RecordIds]
  BY DEF Dam!Keys, Dam!Kinds
<1>2. key \in Seq(RecordIds) /\ Len(key) = n
  BY <1>1
<1>3. SubSeq(key, 1, Len(key)) = key /\ key # <<>>
  BY <1>2
<1>4. ASSUME NEW k \in 1..Len(key)
      PROVE  /\ SubSeq(key, 1, k) \in Dam!Keys /\ Len(SubSeq(key, 1, k)) = k
             /\ \A m \in 1..k : SubSeq(SubSeq(key, 1, k), 1, m) = SubSeq(key, 1, m)
  <2> DEFINE s == SubSeq(key, 1, k)
  <2>1. s \in Seq(RecordIds) /\ Len(s) = k /\ k \in 1..3 /\ \A i \in 1..k : s[i] = key[i]
    BY <1>1, <1>2
  <2> HIDE DEF s
  <2>2. s \in [1..k -> RecordIds]
    BY <2>1
  <2>3. s \in Dam!Keys
    BY <2>1, <2>2 DEF Dam!Keys, Dam!Kinds
  <2>4. ASSUME NEW m \in 1..k PROVE SubSeq(s, 1, m) = SubSeq(key, 1, m)
    <3> DEFINE a == SubSeq(s, 1, m)
               b == SubSeq(key, 1, m)
    <3>1. a \in Seq(RecordIds) /\ Len(a) = m /\ \A i \in 1..m : a[i] = s[i]
      BY <2>1
    <3>2. b \in Seq(RecordIds) /\ Len(b) = m /\ \A i \in 1..m : b[i] = key[i]
      BY <1>1, <1>2, <2>1
    <3> HIDE DEF a, b
    <3>3. a = b
      BY <2>1, <3>1, <3>2
    <3> QED BY <3>3 DEF a, b
  <2> QED BY <2>1, <2>3, <2>4 DEF s
<1> QED BY <1>1, <1>2, <1>3, <1>4

LEMMA CentrePuts ==
  ASSUME NEW p, NEW f \in DamFields \ {"registry", "filter", "keys"}, NEW v
  PROVE  /\ CentreIs(p) => CentreIs([p EXCEPT ![f] = v]) /\ [p EXCEPT ![f] = v].registry = p.registry /\ [p EXCEPT ![f] = v].filter = p.filter /\ [p EXCEPT ![f] = v].keys = p.keys
         /\ DamPage(p) => DamPage([p EXCEPT ![f] = v])
BY DEF DamPage, CentreIs, DamFields

\* The filter and the keys are set together.
LEMMA CentreTurns ==
  ASSUME NEW p, CentreIs(p), NEW f, FilterIs(f), NEW keys, Follow(keys, f)
  PROVE  DamPage([[p EXCEPT !.filter = f] EXCEPT !.keys = keys])
<1> DEFINE a == [p EXCEPT !.filter = f]
           b == [a EXCEPT !.keys = keys]
<1>1. a = [x \in DamFields |-> a[x]] /\ a.filter = f /\ a.registry = p.registry
  BY DEF CentreIs, DamFields
<1> HIDE DEF a
<1>2. b = [x \in DamFields |-> b[x]] /\ b.filter = f /\ b.registry = p.registry /\ b.keys = keys
  BY <1>1 DEF DamFields
<1> HIDE DEF b
<1>3. DamPage(b)
  BY <1>2 DEF DamPage, CentreIs
<1> QED BY <1>3 DEF a, b

\* The filter a key makes.
LEMMA KeyFilters ==
  ASSUME NEW key \in Dam!Keys
  PROVE  LET f == Dam!FilterFrom(key)
         IN  FilterIs(f) /\ Len(f) = (IF Len(key) > 2 THEN 2 ELSE Len(key)) /\ f = SubSeq(key, 1, IF Len(key) > 2 THEN 2 ELSE Len(key))
<1> DEFINE n == IF Len(key) > 2 THEN 2 ELSE Len(key)
<1>1. n \in 1..Len(key) /\ n <= 2
  BY KeyIs
<1>2. SubSeq(key, 1, n) \in Dam!Keys /\ Len(SubSeq(key, 1, n)) = n
  BY <1>1, KeyIs
<1>3. Dam!FilterFrom(key) = SubSeq(key, 1, n)
  BY DEF Dam!FilterFrom
<1> QED BY <1>1, <1>2, <1>3 DEF FilterIs

\* Synchronising the keys with the filter.
LEMMA Synced ==
  ASSUME NEW p, CentreIs(p), FilterIs(p.filter)
  PROVE  DamPage(Dam!SyncKeys(p)) /\ Dam!SyncKeys(p).registry = p.registry /\ Dam!SyncKeys(p).filter = p.filter
<1>1. PICK keys : Dam!SyncKeys(p) = [p EXCEPT !.keys = keys] /\ Follow(keys, p.filter)
  <2> DEFINE last == IF p.kind = 3 THEN p.selected ELSE Dam!NoKey
             keys == [k \in 1..3 |-> CASE k < 3 /\ Len(p.filter) >= k -> SubSeq(p.filter, 1, k)
                                       [] k < 3 /\ Len(p.filter) < k -> Dam!NoKey
                                       [] OTHER -> last]
  <2>1. Dam!SyncKeys(p) = [p EXCEPT !.keys = keys]
    BY DEF Dam!SyncKeys, Dam!Kinds
  <2>2. Len(p.filter) \in Nat
    BY KeyIs DEF FilterIs
  <2>3. Follow(keys, p.filter)
    BY <2>2 DEF Follow, Dam!NoKey
  <2> QED BY <2>1, <2>3
<1>2. DamPage([p EXCEPT !.keys = keys]) /\ [p EXCEPT !.keys = keys].registry = p.registry /\ [p EXCEPT !.keys = keys].filter = p.filter
  BY <1>1 DEF DamPage, CentreIs, DamFields
<1> QED BY <1>1, <1>2

\* The first of what is under a key.
LEMMA FirstIs ==
  ASSUME NEW p, CentreIs(p), NEW key \in Dam!Keys, NEW kind \in 1..3
  PROVE  LET k == Dam!FirstUnder(p, key, kind)
         IN  k = <<>> \/ (k \in Dam!Keys /\ Len(k) = kind /\ SubSeq(k, 1, Len(key)) = key /\ Len(key) <= Len(k))
<1> DEFINE s == {k \in Dam!Of(p, kind) : Dam!IsPrefix(key, k)}
<1>1. Dam!FirstUnder(p, key, kind) = IF s = {} THEN <<>> ELSE Dam!First(s)
  BY DEF Dam!FirstUnder, Dam!NoKey
<1>2. \A k \in s : k \in Dam!Keys /\ Len(k) = kind /\ SubSeq(k, 1, Len(key)) = key /\ Len(key) <= Len(k)
  <2>1. SubSeq(key, 1, Len(key)) = key
    BY KeyIs
  <2>2. ASSUME NEW k \in s PROVE k \in Dam!Keys /\ Len(k) = kind /\ Dam!IsPrefix(key, k)
    BY DEF Dam!Of, Dam!KeysOf, CentreIs, Records
  <2> HIDE DEF s
  <2> QED BY <2>1, <2>2 DEF Dam!IsPrefix
<1>3. s # {} => Dam!First(s) \in s
  BY DEF Dam!First
<1> HIDE DEF s
<1> QED BY <1>1, <1>2, <1>3

\* Choosing a record, and the first of what is under it.
LEMMA ItemSelected ==
  ASSUME NEW p, CentreIs(p), NEW key \in Dam!Keys
  PROVE  DamPage(Dam!SelectItem(p, key)) /\ Dam!SelectItem(p, key).registry = p.registry
<1> DEFINE app == IF Len(key) = 1 THEN Dam!FirstUnder(p, key, 2) ELSE SubSeq(key, 1, 2)
           filter == IF app = Dam!NoKey THEN key ELSE app
           mod == IF Len(key) = 3 THEN key ELSE Dam!FirstUnder(p, filter, 3)
           chosen == IF mod # Dam!NoKey THEN mod ELSE IF app # Dam!NoKey THEN app ELSE key
           keys == <<SubSeq(key, 1, 1), app, mod>>
           drafts == [k \in Dam!Kinds |-> Dam!DraftOf(p, keys[k])]
<1>1. Len(key) \in 1..3 /\ SubSeq(key, 1, Len(key)) = key
  BY KeyIs
<1>2. app = <<>> => Len(key) = 1
  BY <1>1, KeyIs DEF Dam!NoKey
<1>3. app # <<>> => app \in Dam!Keys /\ Len(app) = 2 /\ SubSeq(app, 1, 1) = SubSeq(key, 1, 1)
  <2>1. CASE Len(key) = 1
    BY <1>1, <2>1, FirstIs
  <2>2. CASE Len(key) # 1
    BY <1>1, <2>2, KeyIs
  <2> QED BY <2>1, <2>2
<1> HIDE DEF app
<1>4. FilterIs(filter)
  <2>1. CASE app = <<>>
    BY <1>1, <1>2, <2>1 DEF FilterIs, Dam!NoKey
  <2>2. CASE app # <<>>
    <3>1. filter = app
      BY <2>2 DEF Dam!NoKey
    <3>2. app \in Dam!Keys /\ Len(app) = 2
      BY <1>3, <2>2
    <3>3. Len(app) <= 2
      BY <3>2
    <3>4. FilterIs(app)
      BY <3>2, <3>3 DEF FilterIs
    <3> HIDE DEF filter
    <3> QED BY <3>1, <3>4
  <2> QED BY <2>1, <2>2
<1>5. Follow(keys, filter)
  <2>1. keys[1] = SubSeq(key, 1, 1) /\ keys[2] = app /\ DOMAIN keys = 1..3
    OBVIOUS
  <2> HIDE DEF keys
  <2>2. CASE app = <<>>
    <3>1. filter = key /\ Len(key) = 1
      BY <1>2, <2>2 DEF Dam!NoKey
    <3> HIDE DEF filter
    <3>2. keys[1] = (IF Len(filter) >= 1 THEN SubSeq(filter, 1, 1) ELSE <<>>) /\ keys[2] = IF Len(filter) >= 2 THEN SubSeq(filter, 1, 2) ELSE <<>>
      BY <2>1, <2>2, <3>1
    <3> QED BY <2>1, <3>2, FollowIs
  <2>3. CASE app # <<>>
    <3>1. SubSeq(app, 1, 2) = app
      BY <1>3, <2>3, KeyIs
    <3>2. filter = app
      BY <2>3 DEF Dam!NoKey
    <3> HIDE DEF filter
    <3>3. Len(filter) = 2 /\ SubSeq(filter, 1, 1) = SubSeq(key, 1, 1) /\ SubSeq(filter, 1, 2) = app
      BY <1>3, <2>3, <3>1, <3>2
    <3>4. keys[1] = (IF Len(filter) >= 1 THEN SubSeq(filter, 1, 1) ELSE <<>>) /\ keys[2] = IF Len(filter) >= 2 THEN SubSeq(filter, 1, 2) ELSE <<>>
      BY <2>1, <3>3
    <3> QED BY <2>1, <3>4, FollowIs
  <2> QED BY <2>2, <2>3
<1>6. Dam!SelectItem(p, key) = [p EXCEPT !.filter = filter, !.keys = keys, !.kind = Len(chosen), !.selected = chosen, !.drafts = drafts]
  BY DEF Dam!SelectItem, app
<1> HIDE DEF filter, keys, chosen, drafts
<1> DEFINE a == [[p EXCEPT !.filter = filter] EXCEPT !.keys = keys]
           b == [a EXCEPT !["kind"] = Len(chosen)]
           c == [b EXCEPT !["selected"] = chosen]
<1>7. DamPage(a) /\ a.registry = p.registry
  BY <1>4, <1>5, CentreTurns DEF CentreIs, DamFields
<1>8. Dam!SelectItem(p, key) = [c EXCEPT !["drafts"] = drafts]
  BY <1>6
<1>9. {"kind", "selected", "drafts"} \subseteq DamFields \ {"registry", "filter", "keys"}
  BY DEF DamFields
<1> HIDE DEF a
<1>10. DamPage(b) /\ b.registry = p.registry
  BY <1>7, <1>9, CentrePuts DEF DamPage
<1> HIDE DEF b
<1>11. DamPage(c) /\ c.registry = p.registry
  BY <1>9, <1>10, CentrePuts DEF DamPage
<1> HIDE DEF c
<1>12. CentreIs(c)
  BY <1>11 DEF DamPage
<1>13. DamPage([c EXCEPT !["drafts"] = drafts]) /\ [c EXCEPT !["drafts"] = drafts].registry = c.registry
  BY <1>9, <1>11, <1>12, CentrePuts
<1> QED BY <1>8, <1>11, <1>13

\* After a load the choice is kept when it is still there, or is the first
\* there is.
LEMMA Reconciled ==
  ASSUME NEW p, CentreIs(p), FilterIs(p.filter)
  PROVE  DamPage(Dam!ReconcileSelection(p))
<1> DEFINE q == Dam!SyncKeys(p)
           f == Dam!FilterFrom(p.selected)
           lens == {Len(k) : k \in Dam!KeysOf(p)}
<1>1. DamPage(q) /\ q.registry = p.registry
  BY Synced
<1> HIDE DEF q
<1>2. CASE p.selected \in Dam!Lists(p) /\ Len(p.selected) = p.kind
  <2> DEFINE a == [q EXCEPT !.filter = f]
  <2>1. p.selected \in Dam!Keys
    BY <1>2 DEF Dam!Lists, Dam!KeysOf, CentreIs, Records
  <2>2. FilterIs(f)
    BY <2>1, KeyFilters
  <2> HIDE DEF f
  <2>3. CentreIs(a) /\ a.filter = f
    BY <1>1 DEF DamPage, CentreIs, DamFields
  <2> HIDE DEF a
  <2>4. DamPage(Dam!SyncKeys(a))
    BY <2>2, <2>3, Synced
  <2>5. Dam!ReconcileSelection(p) = Dam!SyncKeys(a)
    BY <1>2 DEF Dam!ReconcileSelection, q, a, f
  <2> QED BY <2>4, <2>5
<1>3. CASE ~(p.selected \in Dam!Lists(p) /\ Len(p.selected) = p.kind) /\ Dam!KeysOf(p) = {}
  <2>1. Dam!ReconcileSelection(p) = [q EXCEPT !["selected"] = Dam!NoKey]
    BY <1>3 DEF Dam!ReconcileSelection, q
  <2>2. "selected" \in DamFields \ {"registry", "filter", "keys"}
    BY DEF DamFields
  <2>3. \A v : DamPage([q EXCEPT !["selected"] = v])
    BY <1>1, <2>2, CentrePuts
  <2> QED BY <2>1, <2>3
<1>4. CASE ~(p.selected \in Dam!Lists(p) /\ Len(p.selected) = p.kind) /\ Dam!KeysOf(p) # {}
  <2> DEFINE kind == Dam!Min(lens)
             key == Dam!First(Dam!Of(p, kind))
  <2>1. Dam!ReconcileSelection(p) = Dam!SelectItem(q, key)
    BY <1>4 DEF Dam!ReconcileSelection, q
  <2>2. lens # {} /\ lens \subseteq 1..3
    <3>1. Dam!KeysOf(p) \subseteq Dam!Keys
      BY DEF Dam!KeysOf, CentreIs, Records
    <3>2. \A k \in Dam!KeysOf(p) : Len(k) \in 1..3
      BY <3>1, KeyIs
    <3> QED BY <1>4, <3>2
  <2>3. kind \in lens
    <3>1. \E x \in lens : \A y \in lens : x <= y
      <4> HIDE DEF lens
      <4>1. CASE 1 \in lens
        BY <2>2, <4>1
      <4>2. CASE 1 \notin lens /\ 2 \in lens
        <5>1. \A y \in lens : 2 <= y
          BY <2>2, <4>2
        <5> QED BY <4>2, <5>1
      <4>3. CASE 1 \notin lens /\ 2 \notin lens
        <5>1. \A y \in lens : y = 3
          BY <2>2, <4>3
        <5>2. 3 \in lens
          BY <2>2, <5>1
        <5>3. \A y \in lens : 3 <= y
          BY <5>1
        <5> QED BY <5>2, <5>3
      <4> QED BY <4>1, <4>2, <4>3
    <3> HIDE DEF lens
    <3> QED BY <3>1 DEF Dam!Min
  <2>4. Dam!Of(p, kind) # {} /\ Dam!Of(p, kind) \subseteq Dam!Keys
    <3> HIDE DEF kind
    <3> QED BY <2>3 DEF Dam!Of, Dam!KeysOf, CentreIs, Records
  <2>5. key \in Dam!Keys
    <3> HIDE DEF kind
    <3> QED BY <2>4 DEF Dam!First
  <2>6. CentreIs(q)
    BY <1>1 DEF DamPage
  <2> HIDE DEF key
  <2> QED BY <2>1, <2>5, <2>6, ItemSelected
<1> QED BY <1>2, <1>3, <1>4

LEMMA DamSends ==
  ASSUME NEW w, DamWire(w), NEW kind, NEW of, NEW draft, NEW got,
         Carries([kind |-> kind, of |-> of, draft |-> draft, got |-> got]),
         wire' = Dam!Sent(w, MaxWire, [kind |-> kind, of |-> of, draft |-> draft, got |-> got])
  PROVE  DamWire(wire')
<1> DEFINE s == [kind |-> kind, of |-> of, draft |-> draft, got |-> got]
<1>1. DOMAIN s = DamRequest /\ Carries(s)
  BY DEF DamRequest
<1>2. wire' = Dam!Sent(w, MaxWire, s)
  OBVIOUS
<1> HIDE DEF s
<1>3. "n" \notin DamRequest /\ "status" \notin DamRequest /\ {"kind", "of", "draft", "got"} \subseteq DamRequest
  BY DEF DamRequest
<1>4. wire' = Sent(w, MaxWire, s)
  BY <1>2 DEF Dam!Sent, Sent, Dam!FreeNumber, FreeNumber, Dam!Min, Min
<1>5. PICK q : /\ Sent(w, MaxWire, s) = w \cup {q}
               /\ \A f \in DamRequest : q[f] = s[f]
               /\ Framed(Sent(w, MaxWire, s), DamRequest)
  BY <1>1, <1>3, SentAdds DEF DamWire
<1>6. Carries(q)
  BY <1>1, <1>3, <1>5 DEF Carries
<1> QED BY <1>4, <1>5, <1>6 DEF DamWire

LEMMA DamTakes ==
  ASSUME NEW w, DamWire(w), NEW r
  PROVE  DamWire(w \ {r})
BY DEF DamWire, Framed

\* What the user does to the page.
LEMMA DamUser ==
  ASSUME DamInv,
         \/ Dam!LoadResources \/ Dam!ResourcesAnswer
         \/ \E key \in Dam!Keys : Dam!Select(key)
         \/ \E kind \in Dam!Kinds : Dam!StartNew(kind) \/ Dam!EditName(kind) \/ \E id : Dam!EditId(kind, id)
  PROVE  DamInv'
<1> DEFINE p == Dam!Counted(page)
           plain == DamFields \ {"registry", "filter", "keys"}
<1>0. DamPage(page) /\ DamWire(wire) /\ Records(srv) /\ {"kind", "selected", "drafts", "res", "changes"} \subseteq plain
  BY DEF DamInv, DamFields
<1>1. DamPage(p) /\ p.filter = page.filter /\ p.keys = page.keys
  <2>1. p = [page EXCEPT !["changes"] = page.changes + 1] /\ CentreIs(page)
    BY <1>0 DEF Dam!Counted, DamPage
  <2> HIDE DEF p
  <2>2. \A v : LET a == [page EXCEPT !["changes"] = v] IN DamPage(a) /\ a.filter = page.filter /\ a.keys = page.keys
    <3> SUFFICES ASSUME NEW v PROVE LET a == [page EXCEPT !["changes"] = v] IN DamPage(a) /\ a.filter = page.filter /\ a.keys = page.keys
      OBVIOUS
    <3>1. "changes" \in plain
      BY <1>0
    <3>2. DamPage([page EXCEPT !["changes"] = v])
      BY <1>0, <3>1, CentrePuts
    <3>3. [page EXCEPT !["changes"] = v].filter = page.filter /\ [page EXCEPT !["changes"] = v].keys = page.keys
      BY <2>1 DEF CentreIs, DamFields
    <3> QED BY <3>2, <3>3
  <2> QED BY <2>1, <2>2
<1> HIDE DEF p
<1>2. wire' = wire /\ srv' = srv
  BY DEF Dam!LoadResources, Dam!ResourcesAnswer, Dam!Select, Dam!StartNew, Dam!EditName, Dam!EditId
<1>3. CASE Dam!LoadResources \/ Dam!ResourcesAnswer
  <2>1. PICK v : page' = [page EXCEPT !["res"] = v]
    <3>1. CASE Dam!LoadResources
      BY <3>1 DEF Dam!LoadResources
    <3>2. CASE Dam!ResourcesAnswer
      <4>1. page' = [page EXCEPT !["res"] = [page.res EXCEPT !.loading = FALSE]]
        BY <3>2 DEF Dam!ResourcesAnswer
      <4> QED BY <4>1
    <3> QED BY <1>3, <3>1, <3>2
  <2> HIDE DEF plain
  <2>2. DamPage(page')
    BY <1>0, <2>1, CentrePuts DEF plain
  <2> QED BY <1>0, <1>2, <2>2 DEF DamInv
<1>4. CASE \E key \in Dam!Keys : Dam!Select(key)
  <2>1. CentreIs(p)
    BY <1>1 DEF DamPage
  <2>2. DamPage(page')
    BY <1>4, <2>1, ItemSelected DEF Dam!Select, p
  <2> QED BY <1>0, <1>2, <2>2 DEF DamInv
<1>5. CASE \E kind \in Dam!Kinds : Dam!EditName(kind) \/ \E id : Dam!EditId(kind, id)
  <2>1. PICK kind \in Dam!Kinds : \E d : page' = [p EXCEPT !.drafts[kind] = d]
    BY <1>5 DEF Dam!EditName, Dam!EditId, p
  <2>2. PICK d : page' = [p EXCEPT !["drafts"] = [p.drafts EXCEPT ![kind] = d]]
    BY <2>1
  <2>3. DamPage(page')
    BY <1>0, <1>1, <2>2, CentrePuts
  <2> QED BY <1>0, <1>2, <2>3 DEF DamInv
<1>6. CASE \E kind \in Dam!Kinds : Dam!StartNew(kind)
  <2>1. PICK kind \in 1..3 : Dam!StartNew(kind)
    BY <1>6 DEF Dam!Kinds
  <2> DEFINE old == page.filter
             n == IF kind = 3 THEN Len(old) ELSE Dam!Min({kind - 1, Len(old)})
             f == SubSeq(old, 1, n)
             keys == [k \in 1..3 |-> IF k >= kind THEN Dam!NoKey ELSE page.keys[k]]
             a == [p EXCEPT !["kind"] = kind]
             b == [a EXCEPT !["selected"] = Dam!NoKey]
             c == [[b EXCEPT !.filter = f] EXCEPT !.keys = keys]
  <2>2. page' = [c EXCEPT !["drafts"] = [c.drafts EXCEPT ![kind] = Dam!NewDraft(c, kind)]]
    <3>1. c = [p EXCEPT !.kind = kind, !.selected = Dam!NoKey,
                        !.filter = SubSeq(p.filter, 1, IF kind = 3 THEN Len(p.filter) ELSE Dam!Min({kind - 1, Len(p.filter)})),
                        !.keys = [k \in Dam!Kinds |-> IF k >= kind THEN Dam!NoKey ELSE p.keys[k]]]
      BY <1>1 DEF Dam!Kinds
    <3>2. page' = [c EXCEPT !.drafts[kind] = Dam!NewDraft(c, kind)]
      <4> HIDE DEF c
      <4> QED BY <2>1, <3>1 DEF Dam!StartNew, p
    <3> HIDE DEF c
    <3> QED BY <3>2
  <2>3. Len(old) \in 0..2 /\ FilterIs(old) /\ Follow(page.keys, old)
    <3>1. FilterIs(old) /\ Follow(page.keys, old)
      BY <1>0 DEF DamPage
    <3>2. CASE old = <<>>
      BY <3>1, <3>2
    <3>3. CASE old \in Dam!Keys /\ Len(old) <= 2
      <4>1. Len(old) \in 1..3
        BY <3>3, KeyIs
      <4> QED BY <3>1, <3>3, <4>1
    <3> QED BY <3>1, <3>2, <3>3 DEF FilterIs
  <2>4. n \in 0..2 /\ n <= Len(old) /\ (kind = 3 => n = Len(old)) /\ (kind = 1 => n = 0) /\ (kind = 2 => n <= 1 /\ (Len(old) >= 1 => n = 1))
    <3>1. \A x, y \in 0..2 : Dam!Min({x, y}) = IF x <= y THEN x ELSE y
      <4> SUFFICES ASSUME NEW x \in 0..2, NEW y \in 0..2 PROVE Dam!Min({x, y}) = IF x <= y THEN x ELSE y
        OBVIOUS
      <4>1. \E z \in {x, y} : \A u \in {x, y} : z <= u
        OBVIOUS
      <4>2. Dam!Min({x, y}) \in {x, y} /\ \A u \in {x, y} : Dam!Min({x, y}) <= u
        BY <4>1 DEF Dam!Min
      <4> HIDE DEF n
      <4> QED BY <4>2
    <3>2. kind - 1 \in 0..2 /\ Len(old) \in 0..2
      BY <2>3
    <3>3. Dam!Min({kind - 1, Len(old)}) = IF kind - 1 <= Len(old) THEN kind - 1 ELSE Len(old)
      BY <3>1, <3>2
    <3> HIDE DEF old
    <3> QED BY <3>2, <3>3
  <2> HIDE DEF n
  <2>5. FilterIs(f) /\ Len(f) = n /\ \A m \in 1..n : SubSeq(f, 1, m) = SubSeq(old, 1, m)
    <3>1. CASE n = 0
      <4>1. f = <<>>
        BY <2>3, <2>4, <3>1, KeyIs DEF FilterIs
      <4> QED BY <3>1, <4>1 DEF FilterIs
    <3>2. CASE n # 0
      <4>1. old \in Dam!Keys /\ n \in 1..Len(old)
        BY <2>3, <2>4, <3>2 DEF FilterIs
      <4> QED BY <2>4, <4>1, KeyIs DEF FilterIs
    <3> QED BY <3>1, <3>2
  <2>6. Follow(keys, f)
    <3>1. page.keys[1] = (IF Len(old) >= 1 THEN SubSeq(old, 1, 1) ELSE <<>>) /\ page.keys[2] = (IF Len(old) >= 2 THEN SubSeq(old, 1, 2) ELSE <<>>)
      BY <2>3 DEF Follow
    <3>2. keys[1] = (IF kind = 1 THEN <<>> ELSE page.keys[1]) /\ keys[2] = (IF kind <= 2 THEN <<>> ELSE page.keys[2]) /\ DOMAIN keys = 1..3
      BY DEF Dam!NoKey
    <3> HIDE DEF f, keys
    <3> HIDE DEF old
    <3>5. Len(old) >= 1 /\ kind # 1 => n >= 1
      BY <2>3, <2>4
    <3>6. n >= 1 => Len(old) >= 1 /\ kind # 1 /\ 1 \in 1..n
      BY <2>3, <2>4
    <3>7. n >= 2 <=> Len(old) >= 2 /\ kind = 3
      BY <2>3, <2>4
    <3>8. n >= 2 => 2 \in 1..n
      BY <2>4
    <3>9. kind <= 2 <=> kind # 3
      OBVIOUS
    <3>3. keys[1] = (IF Len(f) >= 1 THEN SubSeq(f, 1, 1) ELSE <<>>)
      BY <2>5, <3>1, <3>2, <3>5, <3>6
    <3>4. keys[2] = (IF Len(f) >= 2 THEN SubSeq(f, 1, 2) ELSE <<>>)
      BY <2>5, <3>1, <3>2, <3>7, <3>8, <3>9
    <3> QED BY <3>2, <3>3, <3>4, FollowIs
  <2> HIDE DEF f, keys
  <2>7. CentreIs(b)
    <3>1. CentreIs(a)
      BY <1>0, <1>1, CentrePuts DEF DamPage
    <3> HIDE DEF a
    <3> QED BY <1>0, <3>1, CentrePuts
  <2> HIDE DEF b
  <2>8. DamPage(c)
    BY <2>5, <2>6, <2>7, CentreTurns
  <2> HIDE DEF c
  <2>9. DamPage(page')
    BY <1>0, <2>2, <2>8, CentrePuts
  <2> QED BY <1>0, <1>2, <2>9 DEF DamInv
<1> QED BY <1>3, <1>4, <1>5, <1>6

LEMMA DamRequests ==
  ASSUME DamInv,
         Dam!Reload \/ (\E key \in Dam!Keys : Dam!DeleteItem(key)) \/ \E kind \in Dam!Kinds : Dam!SaveDraft(kind)
  PROVE  DamInv'
<1>1. DamPage(page) /\ DamWire(wire) /\ Records(srv) /\ srv' = srv
  BY DEF DamInv, Dam!Reload, Dam!DeleteItem, Dam!SaveDraft
<1>2. DamPage(page')
  <2>1. page' = [page EXCEPT !["changes"] = page.changes + 1]
    BY DEF Dam!Counted, Dam!Reload, Dam!DeleteItem, Dam!SaveDraft
  <2>2. "changes" \in DamFields \ {"registry", "filter", "keys"}
    BY DEF DamFields
  <2>3. \A v : DamPage([page EXCEPT !["changes"] = v])
    BY <1>1, <2>2, CentrePuts
  <2> QED BY <2>1, <2>3
<1>3. PICK kind, of, draft : /\ wire' = Dam!Sent(wire, MaxWire, [kind |-> kind, of |-> of, draft |-> draft, got |-> {}])
                             /\ Carries([kind |-> kind, of |-> of, draft |-> draft, got |-> {}])
  <2>1. CASE Dam!Reload
    <3>1. Carries([kind |-> "load", of |-> Dam!NoKey, draft |-> Dam!NoDraft, got |-> {}])
      BY DEF Carries, Records
    <3>2. wire' = Dam!Sent(wire, MaxWire, [kind |-> "load", of |-> Dam!NoKey, draft |-> Dam!NoDraft, got |-> {}])
      BY <2>1 DEF Dam!Reload, Dam!Ask
    <3> QED BY <3>1, <3>2
  <2>2. CASE \E key \in Dam!Keys : Dam!DeleteItem(key)
    <3>1. PICK key \in Dam!Keys : wire' = Dam!Sent(wire, MaxWire, [kind |-> "delete", of |-> key, draft |-> Dam!NoDraft, got |-> {}])
      BY <2>2 DEF Dam!DeleteItem, Dam!Ask
    <3>2. Carries([kind |-> "delete", of |-> key, draft |-> Dam!NoDraft, got |-> {}])
      BY DEF Carries
    <3> QED BY <3>1, <3>2
  <2>3. CASE \E kind \in Dam!Kinds : Dam!SaveDraft(kind)
    <3>1. PICK kind \in Dam!Kinds : Dam!SaveDraft(kind)
      BY <2>3
    <3> DEFINE of == page.keys[kind]
               draft == Dam!DraftFor(page, kind)
    <3>2. wire' = Dam!Sent(wire, MaxWire, [kind |-> "save", of |-> of, draft |-> draft, got |-> {}])
      BY <3>1 DEF Dam!SaveDraft, Dam!Ask
    <3>3. draft.key \in Dam!Keys
      BY <3>1 DEF Dam!SaveDraft
    <3>4. of \in Dam!Keys \cup {<<>>}
      BY <1>1, <3>1 DEF Dam!SaveDraft, Dam!KeysOf, Dam!NoKey, DamPage, CentreIs, Records
    <3> HIDE DEF of, draft
    <3>5. Carries([kind |-> "save", of |-> of, draft |-> draft, got |-> {}])
      BY <3>3, <3>4 DEF Carries
    <3> QED BY <3>2, <3>5
  <2> QED BY <2>1, <2>2, <2>3
<1>4. DamWire(wire')
  BY <1>1, <1>3, DamSends
<1> QED BY <1>1, <1>2, <1>4 DEF DamInv

LEMMA FilterPrefix ==
  ASSUME NEW of \in Dam!Keys, NEW f, FilterIs(f)
  PROVE  /\ Dam!IsPrefix(of, f) <=> Len(f) >= Len(of) /\ SubSeq(f, 1, Len(of)) = of
         /\ Dam!IsPrefix(of, f) => f \in Dam!Keys /\ Len(f) \in 1..2
<1>1. SubSeq(of, 1, Len(of)) = of /\ Len(of) \in 1..3
  BY KeyIs
<1>2. Len(f) \in 0..2 /\ (Len(f) # 0 => f \in Dam!Keys)
  <2>1. CASE f = <<>>
    BY <2>1
  <2>2. CASE f \in Dam!Keys /\ Len(f) <= 2
    <3>1. Len(f) \in 1..3
      BY <2>2, KeyIs
    <3> QED BY <2>2, <3>1
  <2> QED BY <2>1, <2>2 DEF FilterIs
<1>3. Dam!IsPrefix(of, f) <=> Len(of) <= Len(f) /\ SubSeq(f, 1, Len(of)) = of
  BY <1>1 DEF Dam!IsPrefix
<1>4. Len(of) <= Len(f) <=> Len(f) >= Len(of)
  BY <1>1, <1>2
<1>5. Len(of) <= Len(f) => Len(f) \in 1..2 /\ Len(f) # 0
  BY <1>1, <1>2
<1> QED BY <1>2, <1>3, <1>4, <1>5

LEMMA DamAnswers ==
  ASSUME DamInv, NEW r \in wire, Dam!Answer(r)
  PROVE  DamInv'
<1>1. DamPage(page) /\ DamWire(wire) /\ Records(srv) /\ srv' = srv /\ Carries(r)
  BY DEF DamInv, DamWire, Dam!Answer, Dam!LoadAnswer, Dam!SaveAnswer, Dam!DeleteAnswer, Dam!FailedAnswer, Dam!Then
<1>2. DamWire(wire \ {r})
  BY <1>1, DamTakes
<1>3. DamWire(wire')
  <2>1. CASE wire' = wire \ {r}
    BY <1>2, <2>1
  <2>2. CASE wire' = Dam!Sent(wire \ {r}, MaxWire, [kind |-> "load", of |-> Dam!NoKey, draft |-> Dam!NoDraft, got |-> {}])
    <3>1. Carries([kind |-> "load", of |-> Dam!NoKey, draft |-> Dam!NoDraft, got |-> {}])
      BY DEF Carries, Records
    <3> QED BY <1>2, <2>2, <3>1, DamSends
  <2> QED BY <2>1, <2>2 DEF Dam!Answer, Dam!LoadAnswer, Dam!SaveAnswer, Dam!DeleteAnswer, Dam!FailedAnswer, Dam!Then
<1>4. DamPage(page')
  <2>1. CASE Dam!LoadAnswer(r)
    <3> DEFINE p == [page EXCEPT !.registry = r.got]
    <3>1. CentreIs(p) /\ FilterIs(p.filter)
      BY <1>1, <2>1 DEF Dam!LoadAnswer, Carries, DamPage, CentreIs, DamFields
    <3> HIDE DEF p
    <3>2. DamPage(Dam!ReconcileSelection(p))
      BY <3>1, Reconciled
    <3> QED BY <1>1, <2>1, <3>2 DEF Dam!LoadAnswer, p
  <2>2. CASE Dam!SaveAnswer(r)
    <3> DEFINE key == r.draft.key
               filter == Dam!FilterFrom(key)
               a == [page EXCEPT !["selected"] = key]
               b == [a EXCEPT !["kind"] = Len(key)]
               c == [b EXCEPT !.filter = filter]
               p == Dam!SyncKeys(c)
               keys == [p.keys EXCEPT ![Len(key)] = key]
    <3>1. key \in Dam!Keys
      BY <1>1, <2>2 DEF Carries, Dam!SaveAnswer
    <3>2. page' = [p EXCEPT !.keys = keys]
      BY <2>2 DEF Dam!SaveAnswer, Dam!Then
    <3> HIDE DEF key
    <3>3. FilterIs(filter) /\ Len(filter) = (IF Len(key) > 2 THEN 2 ELSE Len(key)) /\ filter = SubSeq(key, 1, IF Len(key) > 2 THEN 2 ELSE Len(key))
      BY <3>1, KeyFilters
    <3> HIDE DEF filter
    <3>4. CentreIs(b)
      <4>1. {"selected", "kind"} \subseteq DamFields \ {"registry", "filter", "keys"}
        BY DEF DamFields
      <4>2. CentreIs(a)
        BY <1>1, <4>1, CentrePuts DEF DamPage
      <4> HIDE DEF a
      <4> QED BY <4>1, <4>2, CentrePuts
    <3> HIDE DEF b
    <3>5. CentreIs(c) /\ c.filter = filter
      BY <3>4 DEF CentreIs, DamFields
    <3> HIDE DEF c
    <3>6. DamPage(p) /\ p.filter = filter
      BY <3>3, <3>5, Synced
    <3> HIDE DEF p
    <3>7. Follow(keys, filter)
      <4>1. Len(key) \in 1..3 /\ SubSeq(key, 1, Len(key)) = key
        BY <3>1, KeyIs
      <4>2. Follow(p.keys, filter)
        BY <3>6 DEF DamPage
      <4>3. Len(key) \in 1..2 => Len(filter) = Len(key) /\ filter = key
        BY <3>3, <4>1
      <4>4. ASSUME NEW k \in 1..2
            PROVE  keys[k] = IF Len(filter) >= k THEN SubSeq(filter, 1, k) ELSE <<>>
        <5>1. CASE k = Len(key)
          <6>1. Len(filter) = k /\ SubSeq(filter, 1, k) = key
            BY <4>1, <4>3, <5>1
          <6>2. p.keys[k] = IF Len(filter) >= k THEN SubSeq(filter, 1, k) ELSE <<>>
            BY <4>2 DEF Follow
          <6>3. keys[k] = key \/ keys[k] = p.keys[k]
            BY <5>1
          <6> QED BY <6>1, <6>2, <6>3
        <5>2. CASE k # Len(key)
          <6>1. keys[k] = p.keys[k]
            BY <5>2
          <6> HIDE DEF keys
          <6> QED BY <4>2, <6>1 DEF Follow
        <5> QED BY <5>1, <5>2
      <4>5. DOMAIN keys = 1..3
        BY <4>2 DEF Follow
      <4> HIDE DEF keys
      <4> QED BY <4>4, <4>5 DEF Follow
    <3> HIDE DEF keys
    <3> QED BY <3>2, <3>6, <3>7 DEF DamPage, CentreIs, DamFields
  <2>3. CASE Dam!DeleteAnswer(r)
    <3> DEFINE kind == Len(r.of)
               sel == IF page.selected = r.of THEN Dam!NoKey ELSE page.selected
               key == IF page.keys[kind] = r.of THEN Dam!NoKey ELSE page.keys[kind]
               a == [page EXCEPT !["selected"] = sel]
               keys == [page.keys EXCEPT ![kind] = key]
               p == [a EXCEPT !.keys = keys]
               under == kind < 3 /\ Dam!IsPrefix(r.of, page.filter)
               filter == SubSeq(page.filter, 1, kind - 1)
               rest == [k \in 1..3 |-> IF k > kind THEN Dam!NoKey ELSE keys[k]]
    <3>1. r.of \in Dam!Keys /\ kind \in 1..3 /\ r.of # <<>>
      BY <1>1, <2>3, KeyIs DEF Carries, Dam!DeleteAnswer
    <3>2. page = [f \in DamFields |-> page[f]] /\ FilterIs(page.filter) /\ Follow(page.keys, page.filter)
      BY <1>1 DEF DamPage, CentreIs
    <3>3. page' = IF under THEN [[p EXCEPT !.filter = filter] EXCEPT !.keys = rest] ELSE p
      <4>1. p = [page EXCEPT !.selected = IF @ = r.of THEN Dam!NoKey ELSE @, !.keys[kind] = IF @ = r.of THEN Dam!NoKey ELSE @]
        OBVIOUS
      <4>2. p.filter = page.filter /\ p.keys = keys
        BY <3>2 DEF DamFields
      <4> HIDE DEF p, keys
      <4>3. page' = IF under
                    THEN [p EXCEPT !.filter = SubSeq(p.filter, 1, kind - 1),
                                   !.keys = [k \in Dam!Kinds |-> IF k > kind THEN Dam!NoKey ELSE p.keys[k]]]
                    ELSE p
        BY <2>3, <4>1 DEF Dam!DeleteAnswer, Dam!Then
      <4>4. [p EXCEPT !.filter = SubSeq(p.filter, 1, kind - 1),
                      !.keys = [k \in Dam!Kinds |-> IF k > kind THEN Dam!NoKey ELSE p.keys[k]]]
            = [[p EXCEPT !.filter = filter] EXCEPT !.keys = rest]
        BY <4>2 DEF Dam!Kinds
      <4> HIDE DEF under, filter, rest
      <4> QED BY <4>3, <4>4
    <3>4. CentreIs(a) /\ a.filter = page.filter
      <4>1. "selected" \in DamFields \ {"registry", "filter", "keys"}
        BY DEF DamFields
      <4>2. \A v : LET q == [page EXCEPT !["selected"] = v] IN CentreIs(q) /\ q.filter = page.filter
        BY <1>1, <4>1, CentrePuts DEF DamPage
      <4> QED BY <4>2
    <3> HIDE DEF a
    <3>5. CentreIs(p) /\ p.filter = page.filter /\ p.keys = keys
      BY <3>4 DEF CentreIs, DamFields
    <3> HIDE DEF p
    <3> DEFINE At(k) == IF Len(page.filter) >= k THEN SubSeq(page.filter, 1, k) ELSE <<>>
    <3>6. page.keys[1] = At(1) /\ page.keys[2] = At(2)
      BY <3>2 DEF Follow
    <3>7. CASE ~under
      <4>1. ASSUME NEW k \in 1..2
            PROVE  keys[k] = At(k)
        <5>1. page.keys[k] = At(k)
          BY <3>6
        <5>2. CASE k # kind
          <6>1. keys[k] = page.keys[k]
            BY <5>2
          <6> HIDE DEF keys, At
          <6> QED BY <5>1, <6>1
        <5>3. CASE k = kind
          <6>1. page.keys[kind] # r.of
            <7>1. SUFFICES ASSUME page.keys[kind] = r.of PROVE under
              BY <3>7
            <7>2. Len(page.filter) >= kind /\ SubSeq(page.filter, 1, kind) = r.of
              BY <3>1, <5>1, <5>3, <7>1
            <7>3. Dam!IsPrefix(r.of, page.filter)
              BY <3>1, <3>2, <7>2, FilterPrefix
            <7>4. kind < 3
              BY <3>1, <5>3
            <7> QED BY <7>3, <7>4
          <6>2. key = page.keys[kind]
            BY <6>1
          <6> HIDE DEF key, At
          <6>3. keys[kind] = page.keys[kind]
            BY <3>1, <3>2, <6>2 DEF Follow
          <6> QED BY <5>1, <5>3, <6>3
        <5> QED BY <5>2, <5>3
      <4>2. DOMAIN keys = 1..3
        BY <3>2 DEF Follow
      <4> HIDE DEF keys
      <4>4. Follow(keys, page.filter)
        BY <4>1, <4>2 DEF Follow
      <4> HIDE DEF under
      <4>3. page' = p
        BY <3>3, <3>7
      <4> QED BY <3>2, <3>5, <4>4, <4>3 DEF DamPage
    <3>8. CASE under
      <4>1. kind \in 1..2 /\ Dam!IsPrefix(r.of, page.filter)
        BY <3>1, <3>8
      <4>2. Len(page.filter) >= kind /\ SubSeq(page.filter, 1, kind) = r.of /\ page.filter \in Dam!Keys /\ Len(page.filter) \in 1..2
        BY <3>1, <3>2, <4>1, FilterPrefix
      <4>3. FilterIs(filter) /\ Len(filter) = kind - 1 /\ (kind = 2 => SubSeq(filter, 1, 1) = SubSeq(page.filter, 1, 1))
        <5>1. CASE kind = 1
          <6>1. filter = <<>>
            BY <4>2, <5>1, KeyIs
          <6> QED BY <5>1, <6>1 DEF FilterIs
        <5>2. CASE kind = 2
          <6>1. filter = SubSeq(page.filter, 1, 1) /\ 1 \in 1..Len(page.filter)
            BY <4>2, <5>2
          <6> HIDE DEF filter
          <6> QED BY <4>2, <5>2, <6>1, KeyIs DEF FilterIs
        <5> QED BY <4>1, <5>1, <5>2
      <4> HIDE DEF filter
      <4>4. page.keys[kind] = r.of
        <5>1. kind = 1 \/ kind = 2
          BY <4>1
        <5>2. At(kind) = r.of
          BY <4>2
        <5> HIDE DEF kind, At
        <5> QED BY <3>6, <5>1, <5>2
      <4>5. key = <<>>
        BY <4>4 DEF Dam!NoKey
      <4> HIDE DEF key
      <4>51. keys[kind] = <<>> /\ DOMAIN rest = 1..3
        BY <3>1, <3>2, <4>5 DEF Follow
      <4>6. Follow(rest, filter)
        <5>1. CASE kind = 1
          <6>2. rest[2] = <<>>
            BY <5>1 DEF Dam!NoKey
          <6>3. rest[1] = keys[1]
            BY <5>1
          <6>4. keys[1] = <<>> /\ DOMAIN rest = 1..3
            BY <4>51, <5>1
          <6> HIDE DEF rest, keys
          <6>5. Len(filter) = 0
            BY <4>3, <5>1
          <6> QED BY <6>2, <6>3, <6>4, <6>5, FollowIs
        <5>2. CASE kind = 2
          <6>1. rest[1] = page.keys[1] /\ rest[2] = keys[2]
            BY <5>2
          <6>2. keys[2] = <<>> /\ DOMAIN rest = 1..3
            BY <4>51, <5>2
          <6>3. page.keys[1] = SubSeq(filter, 1, 1) /\ Len(filter) = 1
            BY <3>6, <4>2, <4>3, <5>2
          <6> HIDE DEF rest, keys
          <6>4. rest[1] = (IF Len(filter) >= 1 THEN SubSeq(filter, 1, 1) ELSE <<>>) /\ rest[2] = IF Len(filter) >= 2 THEN SubSeq(filter, 1, 2) ELSE <<>>
            BY <6>1, <6>2, <6>3
          <6> QED BY <6>2, <6>4, FollowIs
        <5> QED BY <4>1, <5>1, <5>2
      <4> HIDE DEF rest, under
      <4>7. page' = [[p EXCEPT !.filter = filter] EXCEPT !.keys = rest]
        BY <3>3, <3>8
      <4> QED BY <3>5, <4>3, <4>6, <4>7, CentreTurns
    <3> QED BY <3>7, <3>8
  <2>4. CASE Dam!FailedAnswer(r)
    BY <1>1, <2>4 DEF Dam!FailedAnswer
  <2> QED BY <2>1, <2>2, <2>3, <2>4 DEF Dam!Answer
<1> QED BY <1>1, <1>3, <1>4 DEF DamInv

LEMMA DamService ==
  ASSUME DamInv, NEW r \in wire, Dam!Serve(r) \/ Dam!Refuse(r)
  PROVE  DamInv'
<1>1. DamPage(page) /\ DamWire(wire) /\ Records(srv) /\ Carries(r) /\ page' = page
  BY DEF DamInv, DamWire, Dam!Serve, Dam!Refuse
<1>2. r = [f \in DamRequest \cup {"n", "status"} |-> r[f]] /\ {"kind", "of", "draft", "got"} \subseteq DamRequest
  BY <1>1 DEF DamWire, Framed, DamRequest
<1>3. CASE Dam!Refuse(r)
  <2> DEFINE a == [r EXCEPT !.status = "failed"]
  <2>1. wire' = (wire \ {r}) \cup {a} /\ srv' = srv
    BY <1>3 DEF Dam!Refuse, Dam!Refused, Dam!Settled
  <2>2. Carries(a) /\ DOMAIN a = DamRequest \cup {"n", "status"} /\ a = [f \in DamRequest \cup {"n", "status"} |-> a[f]]
    BY <1>1, <1>2 DEF Carries, DamRequest
  <2> HIDE DEF a
  <2>3. DamWire(wire')
    BY <1>1, <2>1, <2>2 DEF DamWire, Framed
  <2> QED BY <1>1, <2>1, <2>3 DEF DamInv
<1>4. CASE Dam!Serve(r)
  <2> DEFINE got == IF r.kind = "load" THEN srv ELSE {}
             a == [[r EXCEPT !.status = "done"] EXCEPT !.got = got]
  <2>1. wire' = (wire \ {r}) \cup {a}
    BY <1>4 DEF Dam!Serve, Dam!Settled
  <2>2. Carries(a) /\ a = [f \in DamRequest \cup {"n", "status"} |-> a[f]]
    <3>1. Records(got)
      BY <1>1 DEF Records
    <3> HIDE DEF got
    <3>2. a.kind = r.kind /\ a.of = r.of /\ a.draft = r.draft /\ a.got = got /\ a = [f \in DamRequest \cup {"n", "status"} |-> a[f]]
      BY <1>2
    <3> HIDE DEF a
    <3> QED BY <1>1, <3>1, <3>2 DEF Carries
  <2> HIDE DEF a
  <2>3. DamWire(wire')
    BY <1>1, <2>1, <2>2 DEF DamWire, Framed
  <2>4. Records(srv')
    <3>1. CASE r.kind = "save"
      <4> DEFINE key == IF r.of = Dam!NoKey THEN r.draft.key ELSE r.of
      <4>1. key \in Dam!Keys
        BY <1>1, <3>1 DEF Carries, Dam!NoKey
      <4>2. srv' = Dam!Put(srv, key, r.draft.name)
        BY <1>4, <3>1 DEF Dam!Serve
      <4> HIDE DEF key
      <4> QED BY <1>1, <4>1, <4>2 DEF Dam!Put, Records
    <3>2. CASE r.kind # "save"
      BY <1>1, <1>4, <3>2 DEF Dam!Serve, Records
    <3> QED BY <3>1, <3>2
  <2> QED BY <1>1, <2>3, <2>4 DEF DamInv
<1> QED BY <1>3, <1>4

LEMMA DamStart ==
  ASSUME Dam!DamAssumption, Dam!Init
  PROVE  DamInv
<1>1. Records(srv)
  BY DEF Dam!Init, Dam!DamAssumption, Records
<1>2. DamPage(page)
  <2>1. page = [f \in DamFields |-> page[f]] /\ page.registry = {} /\ page.filter = <<>> /\ page.keys = [k \in 1..3 |-> <<>>]
    BY DEF Dam!Init, DamFields, Dam!NoKey, Dam!Kinds
  <2>2. Follow(page.keys, page.filter)
    BY <2>1 DEF Follow
  <2> QED BY <2>1, <2>2 DEF DamPage, CentreIs, Records, FilterIs
<1>3. DamWire(wire)
  <2>1. wire = {[kind |-> "load", of |-> <<>>, draft |-> Dam!NoDraft, got |-> {}, n |-> 1, status |-> "asked"]}
    BY DEF Dam!Init, Dam!NoKey
  <2> DEFINE r == [kind |-> "load", of |-> <<>>, draft |-> Dam!NoDraft, got |-> {}, n |-> 1, status |-> "asked"]
  <2>2. r = [f \in DamRequest \cup {"n", "status"} |-> r[f]] /\ r.kind = "load" /\ r.got = {}
    BY DEF DamRequest
  <2>3. wire = {r}
    BY <2>1
  <2> HIDE DEF r
  <2> QED BY <2>2, <2>3 DEF DamWire, Framed, Carries, Records
<1> QED BY <1>1, <1>2, <1>3 DEF DamInv

LEMMA DamInvariance ==
  ASSUME Dam!DamAssumption
  PROVE  Dam!Spec => []DamInv
<1>1. ASSUME DamInv, [Dam!Next]_(Dam!vars) PROVE DamInv'
  <2>1. CASE UNCHANGED Dam!vars
    BY <1>1, <2>1 DEF DamInv, Dam!vars
  <2>2. CASE Dam!Reload \/ (\E key \in Dam!Keys : Dam!DeleteItem(key)) \/ \E kind \in Dam!Kinds : Dam!SaveDraft(kind)
    BY <1>1, <2>2, DamRequests
  <2>3. CASE \/ Dam!LoadResources \/ Dam!ResourcesAnswer
             \/ \E key \in Dam!Keys : Dam!Select(key)
             \/ \E kind \in Dam!Kinds : Dam!StartNew(kind) \/ Dam!EditName(kind) \/ \E id : Dam!EditId(kind, id)
    BY <1>1, <2>3, DamUser
  <2>4. CASE \E r \in wire : Dam!Answer(r)
    BY <1>1, <2>4, DamAnswers
  <2>5. CASE \E r \in wire : Dam!Serve(r) \/ Dam!Refuse(r)
    BY <1>1, <2>5, DamService
  <2> QED BY <1>1, <2>1, <2>2, <2>3, <2>4, <2>5 DEF Dam!Next
<1> QED BY <1>1, DamStart, PTL DEF Dam!Spec

\* The chosen domain and application are always those of the filter, whatever
\* is selected, begun, saved or deleted, and in whatever order the registry
\* answers (registry-center.js 114-165, 218-312, 374-430).
THEOREM DamFollows ==
  ASSUME Dam!DamAssumption
  PROVE  Dam!Spec => []Dam!KeysFollowFilter
<1>1. DamInv => Dam!KeysFollowFilter
  BY DEF DamInv, DamPage, Follow, Dam!KeysFollowFilter, Dam!NoKey
<1> QED BY <1>1, DamInvariance, PTL
=============================================================================
