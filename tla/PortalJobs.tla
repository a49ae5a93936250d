------------------------------ MODULE PortalJobs ------------------------------
(***************************************************************************)
(* The job monitor (job-monitor.js): the live list, fed by a snapshot and  *)
(* by the summary stream; the chosen job with its own stream; the controls *)
(* the list and the detail offer; and the history of archived jobs.        *)
(***************************************************************************)
EXTENDS PageRequests, Sequences

CONSTANTS MaxJobs,      \* jobs, numbered as they are submitted
          Old,          \* how those ended that are archived before the page is opened
          MaxSteps,     \* bound: what the jobs do by themselves
          MaxFeed,      \* bound: events of one stream that are on their way
          MaxChanges,   \* bound: what the user does
          MaxWire       \* bound: requests on the way

JobsAssumption ==
    /\ {MaxJobs, MaxFeed, MaxWire} \subseteq Nat \ {0} /\ {MaxSteps, MaxChanges} \subseteq Nat
    /\ Len(Old) <= MaxJobs /\ \A j \in 1..Len(Old) : Old[j] \in {"completed", "failed"}

VARIABLES page, wire, srv

vars == <<page, wire, srv>>

Jobs == 1..MaxJobs

Ended == {"completed", "failed"}
StatusOrder == <<"running", "paused", "failed", "completed">>
NoDetail == [of |-> 0, status |-> "none", rev |-> 0]
NoRow == [status |-> "none", rev |-> 0]

Request(kind, of, act) == [kind |-> kind, of |-> of, act |-> act, got |-> [j \in Jobs |-> NoRow]]

Init ==
    /\ page = [jobs |-> [j \in Jobs |-> NoRow], filter |-> "", selected |-> 0, detail |-> NoDetail, es |-> 0, auto |-> 0,
               hist |-> [page |-> 1, pages |-> 0, of |-> 1], changes |-> 0]
    /\ wire = Sent(Sent({}, 2, Request("list", 0, "")), 2, Request("history", 1, ""))
    /\ srv = [job |-> [j \in Jobs |-> IF j <= Len(Old) THEN [NoRow EXCEPT !.status = Old[j]] ELSE NoRow],
              archived |-> 1..Len(Old), feed |-> <<>>, live |-> <<>>, steps |-> 0]

Counted(p) == [p EXCEPT !.changes = @ + 1]
May == page.changes < MaxChanges

-----------------------------------------------------------------------------
(* What is shown.  The first of the visible jobs is chosen, a moment after *)
(* the page was drawn, when the chosen one is not among them.              *)

Rank(s) == CHOOSE i \in 1..Len(StatusOrder) : StatusOrder[i] = s

VisibleJobs(p) == {j \in Jobs : p.jobs[j].status # "none" /\ p.filter \in {"", p.jobs[j].status}}

Before(p, i, j) ==
    LET a == Rank(p.jobs[i].status)
        b == Rank(p.jobs[j].status)
    IN  a < b \/ (a = b /\ i >= j)

AutoSelectFirst(p) ==
    LET vis == VisibleJobs(p)
    IN  IF vis = {} \/ p.selected \in vis \/ p.auto # 0 THEN p
        ELSE [p EXCEPT !.auto = CHOOSE i \in vis : \A j \in vis : Before(p, i, j)]

Drawn(p) == page' = AutoSelectFirst(p)

(* The detail is hidden while the filter excludes the chosen job.          *)
MonitorShown(p) == p.detail.of # 0 /\ p.selected \in VisibleJobs(p)

ButtonsOf(s) ==
    {a \in {"pause", "resume", "cancel", "restart", "archive"} :
        \/ a = "pause" /\ s = "running"
        \/ a = "resume" /\ s = "paused"
        \/ a = "cancel" /\ s \in {"running", "paused"}
        \/ a = "restart" /\ s = "failed"
        \/ a = "archive" /\ s \in Ended}

RowButtons(p) == UNION {{j} \X ButtonsOf(p.jobs[j].status) : j \in VisibleJobs(p)}

DetailButtons(p) == IF MonitorShown(p) THEN {p.detail.of} \X ButtonsOf(p.detail.status) ELSE {}

-----------------------------------------------------------------------------
(* The chosen job.                                                         *)

CloseEs(p, s) == <<[p EXCEPT !.es = 0], [s EXCEPT !.live = <<>>]>>

Cleared(p) == [p EXCEPT !.selected = 0, !.detail = NoDetail, !.es = 0]

Subscribe(p, s, j) ==
    IF p.es = j THEN <<p, s>> ELSE <<[p EXCEPT !.es = j], [s EXCEPT !.live = <<s.job[j]>>]>>

OpenMonitor(p, s, w, j) ==
    LET q == [p EXCEPT !.selected = j]
        t == IF p.jobs[j].status \in Ended THEN CloseEs(q, s) ELSE Subscribe(q, s, j)
    IN  /\ Drawn(t[1]) /\ srv' = t[2]
        /\ wire' = Sent(w, MaxWire, Request("detail", j, ""))

SelectRow(j) ==
    /\ May /\ j \in VisibleJobs(page) /\ Room(wire, MaxWire)
    /\ OpenMonitor(Counted(page), srv, wire, j)

AutoSelected ==
    /\ page.auto # 0 /\ Room(wire, MaxWire)
    /\ OpenMonitor([page EXCEPT !.auto = 0], srv, wire, page.auto)

DetailAnswer(r) ==
    /\ r.kind = "detail" /\ r.status # "asked"
    /\ Drawn(IF r.status = "done" THEN [page EXCEPT !.detail = [of |-> r.of] @@ r.got[r.of]] ELSE page)
    /\ wire' = IF r.act = "then list" THEN Sent(wire \ {r}, MaxWire, Request("list", 0, "")) ELSE wire \ {r}
    /\ UNCHANGED srv

(* The stream of one job.  What it says goes into the detail that is there.*)
ApplyProgress(d, e) == IF e.rev < d.rev THEN d ELSE [d EXCEPT !.rev = e.rev]

LiveEvent ==
    /\ srv.live # <<>>
    /\ LET e == Head(srv.live)
           d == ApplyProgress(IF page.detail.of = 0 THEN page.detail ELSE [page.detail EXCEPT !.status = e.status], e)
           t == [srv EXCEPT !.live = Tail(@)]
           c == IF e.status \in Ended THEN CloseEs([page EXCEPT !.detail = d], t) ELSE <<[page EXCEPT !.detail = d], t>>
       IN  Drawn(c[1]) /\ srv' = c[2]
    /\ UNCHANGED wire

-----------------------------------------------------------------------------
(* The list.                                                               *)

Offline(s) == [j \in Jobs |-> IF j \in s.archived THEN NoRow ELSE s.job[j]]

ListAnswer(r) ==
    /\ r.kind = "list" /\ r.status # "asked"
    /\ LET p == IF r.status = "done" THEN [page EXCEPT !.jobs = r.got] ELSE page
       IN  IF r.of # 0 THEN OpenMonitor(p, srv, wire \ {r}, r.of)
           ELSE Drawn(p) /\ wire' = wire \ {r} /\ UNCHANGED srv

(* The summary stream: a row is merged, added or removed.                  *)
SummaryEvent ==
    /\ srv.feed # <<>>
    /\ LET e == Head(srv.feed)
           gone == [page EXCEPT !.jobs[e.of] = NoRow]
           merged == [page EXCEPT !.jobs[e.of] = [status |-> e.status, rev |-> e.rev],
                                  !.detail = IF page.selected = e.of /\ @.of # 0 THEN [@ EXCEPT !.status = e.status, !.rev = e.rev] ELSE @]
           clear == e.status = "removed" /\ page.selected = e.of
       IN  /\ Drawn(IF clear THEN Cleared(gone) ELSE IF e.status = "removed" THEN gone ELSE merged)
           /\ srv' = [srv EXCEPT !.feed = Tail(@), !.live = IF clear THEN <<>> ELSE @]
    /\ UNCHANGED wire

(* The stream is opened again after it broke off: events were lost, and    *)
(* the list is asked for anew.                                             *)
Reconnect ==
    /\ srv.feed # <<>> /\ Room(wire, MaxWire)
    /\ srv' = [srv EXCEPT !.feed = <<>>]
    /\ wire' = Sent(wire, MaxWire, Request("list", 0, "")) /\ UNCHANGED page

-----------------------------------------------------------------------------
(* The operations.                                                         *)

SubmitJob ==
    /\ May /\ Room(wire, MaxWire)
    /\ page' = Counted(page) /\ wire' = Sent(wire, MaxWire, Request("act", 0, "submit")) /\ UNCHANGED srv

Control(j, a) ==
    /\ May /\ Room(wire, MaxWire) /\ <<j, a>> \in RowButtons(page) \union DetailButtons(page)
    /\ page' = Counted(page) /\ wire' = Sent(wire, MaxWire, Request("act", j, a)) /\ UNCHANGED srv

ActAnswer(r) ==
    /\ r.kind = "act" /\ r.status # "asked"
    /\ LET w == wire \ {r}
           archived == r.status = "done" /\ r.act = "archive"
           clear == archived /\ page.selected = r.of
       IN  /\ wire' = CASE r.status = "failed" -> w
                        [] r.status = "done" /\ r.act \in {"submit", "restart"} -> Sent(w, MaxWire, Request("list", r.of, ""))
                        [] archived -> Sent(w, MaxWire, Request("list", 0, "then history"))
                        [] OTHER -> Sent(w, MaxWire, Request("detail", r.of, "then list"))
           /\ Drawn(IF clear THEN Cleared(page) ELSE page)
           /\ srv' = IF clear THEN [srv EXCEPT !.live = <<>>] ELSE srv

-----------------------------------------------------------------------------
(* The history, one job to a page.  The filter counts there when it is a   *)
(* status jobs end with.                                                   *)

HistFilter(p) == IF p.filter \in Ended THEN p.filter ELSE ""

LoadHistory(p, w) == Sent(w, MaxWire, Request("history", p.hist.page, HistFilter(p)))

PagerButtons(p) == 1..p.hist.pages \ {p.hist.page}

GotoHistoryPage(i) ==
    /\ May /\ i \in PagerButtons(page) /\ Room(wire, MaxWire)
    /\ page' = [Counted(page) EXCEPT !.hist.page = i]
    /\ wire' = LoadHistory(page', wire) /\ UNCHANGED srv

SetFilter(f) ==
    /\ May /\ f # page.filter /\ Cardinality(wire) + 2 <= MaxWire
    /\ Drawn([Counted(page) EXCEPT !.filter = f, !.hist.page = 1])
    /\ wire' = LoadHistory(page', Sent(wire, MaxWire, Request("list", 0, "")))
    /\ UNCHANGED srv

PagesOf(s, f) == Cardinality({j \in s.archived : f \in {"", s.job[j].status}})

HistoryAnswer(r) ==
    /\ r.kind = "history" /\ r.status # "asked"
    /\ LET pages == Cardinality({j \in Jobs : r.got[j] # NoRow})
           q == [page EXCEPT !.hist = [page |-> r.of, pages |-> pages, of |-> r.of]]
           back == [q EXCEPT !.hist.page = pages]
       IN  CASE r.status = "failed" -> UNCHANGED page /\ wire' = wire \ {r}
             [] r.status = "done" /\ pages > 0 /\ r.of > pages -> page' = back /\ wire' = LoadHistory(back, wire \ {r})
             [] OTHER -> page' = q /\ wire' = wire \ {r}
    /\ UNCHANGED srv

ThenHistory(r) ==
    /\ r.kind = "list" /\ r.act = "then history" /\ r.status # "asked"
    /\ Drawn(IF r.status = "done" THEN [page EXCEPT !.jobs = r.got] ELSE page)
    /\ wire' = LoadHistory(page, wire \ {r}) /\ UNCHANGED srv

-----------------------------------------------------------------------------
(* The job service.                                                        *)

Told(s, j, status) ==
    LET row == s.job[j]
    IN  [s EXCEPT !.feed = Append(@, [of |-> j, status |-> status, rev |-> row.rev]),
                  !.live = IF page.es = j /\ status # "removed" THEN Append(@, row) ELSE @]

CanTell(s) == Len(s.feed) < MaxFeed /\ Len(s.live) < MaxFeed

Works(j) ==
    /\ srv.job[j].status = "running" /\ srv.steps < MaxSteps /\ CanTell(srv)
    /\ \E row \in [status : {"running"}, rev : {srv.job[j].rev + 1}] \union [status : Ended, rev : {srv.job[j].rev}] :
           srv' = Told([srv EXCEPT !.job[j] = row, !.steps = @ + 1], j, row.status)
    /\ UNCHANGED <<page, wire>>

After(r) ==
    CASE r.act = "pause" /\ srv.job[r.of].status = "running" -> "paused"
      [] r.act = "resume" /\ srv.job[r.of].status = "paused" -> "running"
      [] r.act = "cancel" /\ srv.job[r.of].status \in {"running", "paused"} -> "failed"
      [] OTHER -> ""

NewJob(s) == Cardinality({j \in Jobs : s.job[j].status # "none"}) + 1

Serve(r) ==
    /\ r.status = "asked"
    /\ CASE r.kind = "act" /\ r.act \in {"submit", "restart"} ->
                /\ NewJob(srv) \in Jobs /\ CanTell(srv)
                /\ srv' = Told([srv EXCEPT !.job[NewJob(srv)] = [status |-> "running", rev |-> 0]], NewJob(srv), "running")
                /\ wire' = Settled(wire, r, [r EXCEPT !.status = "done", !.of = NewJob(srv)])
         [] r.kind = "act" /\ r.act = "archive" ->
                /\ r.of \notin srv.archived /\ srv.job[r.of].status \in Ended /\ CanTell(srv)
                /\ srv' = Told([srv EXCEPT !.archived = @ \union {r.of}], r.of, "removed")
                /\ wire' = Settled(wire, r, [r EXCEPT !.status = "done"])
         [] r.kind = "act" /\ r.act \notin {"submit", "restart", "archive"} ->
                /\ After(r) # "" /\ CanTell(srv) /\ r.of \notin srv.archived
                /\ srv' = Told([srv EXCEPT !.job[r.of].status = After(r)], r.of, After(r))
                /\ wire' = Settled(wire, r, [r EXCEPT !.status = "done"])
         [] r.kind # "act" ->
                /\ r.kind = "detail" => r.of \notin srv.archived
                /\ wire' = Settled(wire, r, [r EXCEPT !.status = "done",
                              !.got = IF r.kind = "history"
                                      THEN [j \in Jobs |-> IF j <= PagesOf(srv, r.act) THEN [NoRow EXCEPT !.status = "completed"] ELSE NoRow]
                                      ELSE Offline(srv)])
                /\ UNCHANGED srv
    /\ UNCHANGED page

Refuse(r) == r.status = "asked" /\ wire' = Refused(wire, r) /\ UNCHANGED <<page, srv>>

Answer(r) ==
    \/ DetailAnswer(r)
    \/ r.act # "then history" /\ ListAnswer(r)
    \/ ThenHistory(r)
    \/ ActAnswer(r)
    \/ HistoryAnswer(r)

Next ==
    \/ AutoSelected \/ LiveEvent \/ SummaryEvent \/ Reconnect \/ SubmitJob
    \/ \E j \in Jobs : SelectRow(j) \/ Works(j) \/ GotoHistoryPage(j)
    \/ \E j \in Jobs, a \in {"pause", "resume", "cancel", "restart", "archive"} : Control(j, a)
    \/ \E f \in {"", "running", "completed"} : SetFilter(f)
    \/ \E r \in wire : Answer(r) \/ Serve(r) \/ Refuse(r)

Spec == Init /\ [][Next]_vars

-----------------------------------------------------------------------------

(* The state keeps to its types.                                          *)
TypeOK ==
    /\ \A j \in Jobs : page.jobs[j].status \in {"none", "running", "paused"} \union Ended
    /\ {page.selected, page.es, page.auto, page.detail.of} \subseteq 0..MaxJobs
    /\ page.hist.page \in Nat \ {0}

(* The one stream that is open is that of the chosen job (347-411).        *)
StreamIsChosen == page.es \in {0, page.selected}

(* Answers that overtake one another leave the pager on a page of the list *)
(* it stands over, when that has pages (269-297).                          *)
PagerInRange == page.hist.pages # 0 => page.hist.page <= page.hist.pages

-----------------------------------------------------------------------------
(* Wanted of the page, and not met by the code: README.md, section 7.      *)

(* The controls over the detail act on the chosen job (819-858).           *)
DetailIsChosen == MonitorShown(page) => page.detail.of = page.selected

(* A page number that is out of range falls back to the last page, also to *)
(* the one page an empty list has (285-290, 985).                          *)
EmptyListIsOnePage == page.hist.pages = 0 => page.hist.page = 1

(* When nothing is on the way the rows are the live jobs (353-354).        *)
RowsCatchUp == wire = {} /\ srv.feed = <<>> => page.jobs = Offline(srv)
=============================================================================
