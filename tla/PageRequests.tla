----------------------------- MODULE PageRequests -----------------------------
(***************************************************************************)
(* The requests of a native page.  A page asks the services through one    *)
(* fetch function (apiJson) and goes on while it waits; answers come back  *)
(* in any order and may be errors.  A request is a record with at least a  *)
(* kind, a number n and a status; the page modules add what else a request *)
(* carries.  The fetch function itself is not in the page files.           *)
(***************************************************************************)
EXTENDS Integers, FiniteSets, FiniteSetsExt, TLC, TLAPS

Statuses == {"asked", "done", "failed", "conflict"}

Room(wire, max) == Cardinality(wire) < max

(* The smallest number that is free: equal situations are equal states.    *)
FreeNumber(wire, max) == Min(1..max \ {r.n : r \in wire})

Sent(wire, max, r) ==
    LET Field(f) == IF f = "n" THEN FreeNumber(wire, max) ELSE IF f = "status" THEN "asked" ELSE r[f]
    IN  wire \union {[f \in DOMAIN r \union {"n", "status"} |-> Field(f)]}

Settled(wire, r, answer) == (wire \ {r}) \union {answer}

Refused(wire, r) == Settled(wire, r, [r EXCEPT !.status = "failed"])

Pending(wire, kinds) == {r \in wire : r.kind \in kinds}

-----------------------------------------------------------------------------
(* What the helpers do to the requests of a page: a request of the page has *)
(* certain fields, a number and a status; an answer changes nothing of it    *)
(* but the status.                                                           *)

\* Requests have the fields given, n and status.
Framed(wire, fields) ==
  \A r \in wire : r = [f \in fields \cup {"n", "status"} |-> r[f]]

\* The same request but for its status.
SameBut(a, r, status) ==
  /\ DOMAIN a = DOMAIN r /\ a = [f \in DOMAIN r |-> a[f]]
  /\ \A f \in DOMAIN r \ {"status"} : a[f] = r[f]
  /\ a.status = status

\* A request that is sent is what was handed over, numbered and asked.
LEMMA SentAdds ==
  ASSUME NEW wire, NEW max, NEW s, NEW fields, DOMAIN s = fields,
         "n" \notin fields, "status" \notin fields
  PROVE  \E r : /\ Sent(wire, max, s) = wire \cup {r}
                /\ \A f \in fields : r[f] = s[f]
                /\ r.status = "asked"
                /\ Framed(wire, fields) => Framed(Sent(wire, max, s), fields)
<1> DEFINE value(f) == IF f = "n" THEN FreeNumber(wire, max)
                       ELSE IF f = "status" THEN "asked" ELSE s[f]
           r == [f \in fields \cup {"n", "status"} |-> value(f)]
<1>1. Sent(wire, max, s) = wire \cup {r}
  BY DEF Sent
<1>2. \A f \in fields \cup {"n", "status"} : r[f] = value(f)
  OBVIOUS
<1>3. r = [f \in fields \cup {"n", "status"} |-> r[f]]
  BY <1>2
<1>4. /\ \A f \in fields : r[f] = s[f]
      /\ r.status = "asked"
  BY <1>2
<1> HIDE DEF r
<1> QED BY <1>1, <1>3, <1>4 DEF Framed

\* An answer is the request with another status.
LEMMA AnswerIs ==
  ASSUME NEW wire, NEW fields, Framed(wire, fields), NEW r \in wire, NEW status
  PROVE  /\ SameBut([r EXCEPT !.status = status], r, status)
         /\ DOMAIN r = fields \cup {"n", "status"}
         /\ Framed(Settled(wire, r, [r EXCEPT !.status = status]), fields)
<1>1. r = [f \in fields \cup {"n", "status"} |-> r[f]]
  BY DEF Framed
<1> DEFINE a == [r EXCEPT !.status = status]
<1>2. DOMAIN r = fields \cup {"n", "status"}
  BY <1>1
<1>3. a = [f \in DOMAIN r |-> IF f = "status" THEN status ELSE r[f]]
  BY <1>2
<1>4. SameBut(a, r, status) /\ a = [f \in fields \cup {"n", "status"} |-> a[f]]
  BY <1>2, <1>3 DEF SameBut
<1> HIDE DEF a
<1>5. Framed(Settled(wire, r, a), fields)
  BY <1>4 DEF Framed, Settled
<1> QED BY <1>2, <1>4, <1>5 DEF a
=============================================================================
