---------------------------- MODULE WebhookLogs ----------------------------
(***************************************************************************)
(* The logs page of one browser tab: the paged, filtered list of the       *)
(* messages of the current organization and the sheet with the detail of   *)
(* one of them. The messages change on the server while the page is open.  *)
(*                                                                         *)
(* The messages of an organization are numbered in the order of their      *)
(* creation. As in OrgPages a cancelled load is forgotten. The browser has *)
(* this tab only: a request names the current organization (what another   *)
(* tab does to that is in OrgPages).                                       *)
(***************************************************************************)
EXTENDS Naturals, FiniteSets

CONSTANTS
    Orgs,
    Limit,     \* rows of a page (20)
    MaxMsgs,   \* bounds the number of messages of each organization
    Hits,      \* the numbers of the messages whose endpoint the search text matches
    Statuses,  \* what the status of a message may be
    Offered,   \* the statuses that the page offers to filter by
    Openable,  \* bounds the messages whose detail is looked at
    None

ASSUME LogsAssumption ==
    /\ None \notin Orgs
    /\ Limit \in Nat \ {0}
    /\ MaxMsgs \in [Orgs -> Nat]
    /\ Hits \subseteq Nat
    /\ "pending" \in Statuses /\ "all" \notin Statuses
    /\ Offered \subseteq Statuses

VARIABLES
    count,     \* the server: how many messages an organization has
    status,    \* the server: the status of a message
    current,   \* currentOrg
    query,     \* page, statusFilter and debouncedSearch
    resetting, \* setPage(1) was called and is not rendered yet
    search,    \* what stands in the search box
    hook,      \* what useWebhookLogs holds
    load,      \* its request in flight, or None
    sheet,     \* selectedLogId and what useWebhookLogDetail holds
    detail,    \* its request in flight, or None
    adrift     \* observer: the page number was chosen for another list

serverVars == <<count, status>>
sheetVars == <<sheet, detail>>
logVars == <<serverVars, current, query, resetting, search, hook, load, sheetVars, adrift>>

Msgs == UNION {{o} \X (1..MaxMsgs[o]) : o \in Orgs}
Filters == {"all"} \cup Offered
Texts == {"", "text"}
Query == [page : Nat \ {0}, status : Filters, search : Texts]

\* A row shows the status that its message had when the page was read.
WebhookLog == [msg : Msgs, status : Statuses]

\* What a list is the answer to is told apart from no list at all.
ASSUME NoneAssumption == None \notin Orgs \X Query

LogsTypeOK ==
    /\ count \in [Orgs -> Nat] /\ \A o \in Orgs : count[o] <= MaxMsgs[o]
    /\ status \in [Msgs -> Statuses]
    /\ current \in Orgs \cup {None}
    /\ query \in Query
    /\ resetting \in BOOLEAN
    /\ search \in Texts
    /\ hook \in [items : SUBSET WebhookLog, total : Nat, loading : BOOLEAN, error : BOOLEAN,
                 from : (Orgs \X Query) \cup {None}]
    /\ load \in [org : Orgs, query : Query, state : {"sent", "counted", "ok", "failed"},
                 data : SUBSET WebhookLog, total : Nat] \cup {None}
    /\ sheet \in [id : Msgs \cup {None}, shown : Msgs \cup {None}, loading : BOOLEAN,
                  error : BOOLEAN]
    /\ detail \in [id : Msgs, org : Orgs \cup {None}, state : {"sent", "ok", "failed"}]
                  \cup {None}
    /\ adrift \in BOOLEAN

-----------------------------------------------------------------------------
(* FindWebhookLogs: a page of the matching messages, newest first.         *)

Matching(o, q) ==
    {n \in 1..count[o] : /\ q.status # "all" => status[<<o, n>>] = q.status
                         /\ q.search = "text" => n \in Hits}

TotalPages(S) == (Cardinality(S) + Limit - 1) \div Limit

Rank(S, n) == Cardinality({m \in S : m >= n})

PageOf(S, p) == {n \in S : (p - 1) * Limit < Rank(S, n) /\ Rank(S, n) <= p * Limit}

Rows(o, q) ==
    {[msg |-> <<o, n>>, status |-> status[<<o, n>>]] : n \in PageOf(Matching(o, q), q.page)}

-----------------------------------------------------------------------------
(* useWebhookLogs.                                                         *)

LogsInit ==
    /\ count = [o \in Orgs |-> 0]
    /\ status = [m \in Msgs |-> "pending"]
    /\ current = None
    /\ query = [page |-> 1, status |-> "all", search |-> ""]
    /\ resetting = FALSE
    /\ search = ""
    /\ hook = [items |-> {}, total |-> 1, loading |-> TRUE, error |-> FALSE, from |-> None]
    /\ load = None
    /\ sheet = [id |-> None, shown |-> None, loading |-> FALSE, error |-> FALSE]
    /\ detail = None
    /\ adrift = FALSE

\* The request names what is asked for when it is sent.
Request(o, q) == [org |-> o, query |-> q, state |-> "sent", data |-> {}, total |-> 0]

\* Mutant of FetchLogs: the effect does not look whether there is an organization.
FetchAnywayMutant(o, q) ==
    /\ hook' = [hook EXCEPT !.loading = TRUE, !.error = FALSE]
    /\ load' = Request(o, q)

\* Mutant of FetchLogs: no second request is sent while one is under way.
OneRequestMutant(o, q) ==
    IF o = None THEN UNCHANGED <<hook, load>>
    ELSE /\ hook' = [hook EXCEPT !.loading = TRUE, !.error = FALSE]
         /\ load' = IF load = None THEN Request(o, q) ELSE load

\* The fetch effect, for the organization o and the query q. The cleanup has
\* cancelled the load before it.
FetchLogs(o, q) ==
    IF o = None THEN UNCHANGED <<hook, load>>
    ELSE /\ hook' = [hook EXCEPT !.loading = TRUE, !.error = FALSE]
         /\ load' = Request(o, q)

\* What the page shows and offers: the rows of the list, the pages that Previous
\* and Next lead to, which stay while a page loads, and in the sheet a message.
LogRows == IF hook.loading THEN {} ELSE hook.items

Pagination ==
    IF hook.total <= 1 THEN {}
    ELSE {p \in {query.page - 1, query.page + 1} : 1 <= p /\ (p < query.page \/ p <= hook.total)}

WebhookLogDetailView == IF sheet.loading \/ sheet.error THEN None ELSE sheet.shown

\* The open sheet covers the page, which takes no clicks then.
Behind == sheet.id = None

\* The user switches, or a late answer of the organization's provider selects
\* another one, with the sheet open or not. The page number survives.
switchOrg(o) ==
    /\ o # current
    /\ current' = o
    /\ FetchLogs(o, query)
    /\ adrift' = (query.page # 1)
    /\ UNCHANGED <<serverVars, query, resetting, search, sheetVars>>

\* After a change of filter one effect calls setPage(1), which takes another
\* render unless the page is the first, and the next one loads the old page.
Refilter(q) ==
    /\ query' = q
    /\ FetchLogs(current, q)
    /\ resetting' = (query.page # 1)
    /\ UNCHANGED <<serverVars, current, search, sheetVars, adrift>>

setStatusFilter(f) ==
    /\ Behind
    /\ f # query.status
    /\ Refilter([query EXCEPT !.status = f])

setSearch(text) ==
    /\ Behind
    /\ text # search
    /\ search' = text
    /\ UNCHANGED <<serverVars, current, query, resetting, hook, load, sheetVars, adrift>>

\* Mutant of DebounceFires: the reset of the page depends on the status only.
KeepPageMutant ==
    /\ search # query.search
    /\ query' = [query EXCEPT !.search = search]
    /\ FetchLogs(current, query')
    /\ UNCHANGED <<serverVars, current, resetting, search, sheetVars, adrift>>

\* Mutant of DebounceFires: an empty box is taken for no search at all.
IgnoreEmptyMutant ==
    /\ search # query.search
    /\ search # ""
    /\ Refilter([query EXCEPT !.search = search])

\* 300 ms after the last change of the search box.
DebounceFires ==
    /\ search # query.search
    /\ Refilter([query EXCEPT !.search = search])

\* The render after setPage(1): its fetch effect replaces the load of the old page.
PageReset ==
    /\ resetting
    /\ resetting' = FALSE
    /\ query' = [query EXCEPT !.page = 1]
    /\ FetchLogs(current, query')
    /\ adrift' = FALSE
    /\ UNCHANGED <<serverVars, current, search, sheetVars>>

\* The list on the screen, whose length limits Next, is one of this
\* organization and these filters.
SameList ==
    hook.from # None /\ hook.from[1] = current /\ [hook.from[2] EXCEPT !.page = query.page] = query

\* A page chosen before the reset was rendered takes its place.
goToPage(p) ==
    /\ Behind
    /\ p \in Pagination
    /\ query' = [query EXCEPT !.page = p]
    /\ FetchLogs(current, query')
    /\ resetting' = FALSE
    /\ adrift' = (p # 1 /\ (adrift \/ resetting \/ ~SameList))
    /\ UNCHANGED <<serverVars, current, search, sheetVars>>

\* The server counts the matching messages, and then reads a page of them: two
\* statements without a transaction. Each may fail, and so may the connection.
CountLogs ==
    /\ load # None
    /\ load.state = "sent"
    /\ \/ load' = [load EXCEPT !.state = "counted",
                               !.total = TotalPages(Matching(load.org, load.query))]
       \/ load' = [load EXCEPT !.state = "failed"]
    /\ UNCHANGED <<serverVars, current, query, resetting, search, hook, sheetVars, adrift>>

SelectLogs ==
    /\ load # None
    /\ load.state = "counted"
    /\ \/ load' = [load EXCEPT !.state = "ok", !.data = Rows(load.org, load.query)]
       \/ load' = [load EXCEPT !.state = "failed"]
    /\ UNCHANGED <<serverVars, current, query, resetting, search, hook, sheetVars, adrift>>

\* Mutant of LogsReply: isLoading is reset on success only.
LogsHangMutant ==
    /\ load # None
    /\ load.state \in {"ok", "failed"}
    /\ hook' = IF load.state = "ok"
               THEN [hook EXCEPT !.items = load.data, !.total = load.total,
                                 !.loading = FALSE, !.from = <<load.org, load.query>>]
               ELSE [hook EXCEPT !.error = TRUE]
    /\ load' = None
    /\ UNCHANGED <<serverVars, current, query, resetting, search, sheetVars, adrift>>

\* `from' is what the request asked for, whatever the page asks for by now.
LogsReply ==
    /\ load # None
    /\ load.state \in {"ok", "failed"}
    /\ hook' = IF load.state = "ok"
               THEN [hook EXCEPT !.items = load.data, !.total = load.total,
                                 !.loading = FALSE, !.from = <<load.org, load.query>>]
               ELSE [hook EXCEPT !.error = TRUE, !.loading = FALSE]
    /\ load' = None
    /\ UNCHANGED <<serverVars, current, query, resetting, search, sheetVars, adrift>>

-----------------------------------------------------------------------------
(* The sheet and useWebhookLogDetail.                                      *)

openDetail(m) ==
    /\ Behind
    /\ \E row \in LogRows : m = row.msg
    /\ sheet' = [sheet EXCEPT !.id = m, !.loading = TRUE, !.error = FALSE]
    /\ detail' = [id |-> m, org |-> current, state |-> "sent"]
    /\ UNCHANGED <<serverVars, current, query, resetting, search, hook, load, adrift>>

\* Mutant of closeDetail: no cleanup cancels the request.
NoCleanupMutant ==
    /\ sheet.id # None
    /\ sheet' = [sheet EXCEPT !.id = None, !.shown = None, !.error = FALSE]
    /\ UNCHANGED <<serverVars, current, query, resetting, search, hook, load, detail, adrift>>

\* The cleanup cancels the request; isLoading keeps its value.
closeDetail ==
    /\ sheet.id # None
    /\ sheet' = [sheet EXCEPT !.id = None, !.shown = None, !.error = FALSE]
    /\ detail' = None
    /\ UNCHANGED <<serverVars, current, query, resetting, search, hook, load, adrift>>

\* A message is found if it is one of the organization the request names. The
\* rows of another one stay on the screen when the load that replaces them fails.
ServeDetail ==
    /\ detail # None
    /\ detail.state = "sent"
    /\ \/ detail.id[1] = detail.org /\ detail' = [detail EXCEPT !.state = "ok"]
       \/ detail' = [detail EXCEPT !.state = "failed"]
    /\ UNCHANGED <<serverVars, current, query, resetting, search, hook, load, sheet, adrift>>

DetailReply ==
    /\ detail # None
    /\ detail.state # "sent"
    /\ sheet' = IF detail.state = "ok"
                THEN [sheet EXCEPT !.shown = detail.id, !.loading = FALSE]
                ELSE [sheet EXCEPT !.error = TRUE, !.loading = FALSE]
    /\ detail' = None
    /\ UNCHANGED <<serverVars, current, query, resetting, search, hook, load, adrift>>

-----------------------------------------------------------------------------
(* Meanwhile, on the server.                                               *)

\* A message is accepted for delivery.
Arrive(o) ==
    /\ count[o] < MaxMsgs[o]
    /\ count' = [count EXCEPT ![o] = @ + 1]
    /\ UNCHANGED <<status, current, query, resetting, search, hook, load, sheetVars, adrift>>

\* An unconditional UPDATE, by a worker or by the scheduler. A message that was
\* 'success' or 'failed' may be 'pending' afterwards, when the scheduler's comes
\* after the outcome of the delivery it has caused.
Update(m, s) ==
    /\ m[2] <= count[m[1]]
    /\ status[m] # s
    /\ status' = [status EXCEPT ![m] = s]
    /\ UNCHANGED <<count, current, query, resetting, search, hook, load, sheetVars, adrift>>

LogsNext ==
    \/ \E o \in Orgs : switchOrg(o) \/ Arrive(o)
    \/ \E f \in Filters : setStatusFilter(f)
    \/ \E text \in Texts : setSearch(text)
    \/ DebounceFires
    \/ PageReset
    \/ \E p \in Pagination : goToPage(p)
    \/ CountLogs
    \/ SelectLogs
    \/ LogsReply
    \/ \E m \in Msgs \cap Openable : openDetail(m)
    \/ closeDetail
    \/ ServeDetail
    \/ DetailReply
    \/ \E m \in Msgs, s \in Statuses : Update(m, s)

LogsSpec == LogsInit /\ [][LogsNext]_logVars

\* fetch settles, timers fire, React renders, and the event loop runs what awaits them.
LogsFairness ==
    /\ WF_logVars(CountLogs)
    /\ WF_logVars(SelectLogs)
    /\ WF_logVars(LogsReply)
    /\ WF_logVars(ServeDetail)
    /\ WF_logVars(DetailReply)
    /\ WF_logVars(DebounceFires)
    /\ WF_logVars(PageReset)

LogsFairSpec == LogsSpec /\ LogsFairness

-----------------------------------------------------------------------------
(* Properties.                                                             *)

\* What the list is said to be the answer to: the rows are messages of that
\* organization, each with a status and an endpoint that pass the filters, and
\* no more than a page of them.
RowsAnswer ==
    hook.from # None =>
        /\ Cardinality(hook.items) <= Limit
        /\ \A row \in hook.items :
             /\ row.msg[1] = hook.from[1]
             /\ hook.from[2].status # "all" => row.status = hook.from[2].status
             /\ hook.from[2].search = "text" => row.msg[2] \in Hits

\* The list on the screen answers the query on the screen, or is what was there
\* before a failed load: the fetch effect of use-webhook-logs.ts implements
\* LoadView for the organization, the filters and the page, where the data of a
\* key is what the server found for a request that named this very key.
LogsView == INSTANCE LoadView WITH
                Keys <- (Orgs \cup {None}) \X Query,
                key <- <<current, query>>,
                shown <- IF hook.loading THEN None ELSE hook.from,
                held <- hook.from

ListAnswersQuery == LogsView!Spec /\ []RowsAnswer

\* The page reset of use-webhook-logs.ts and the limits of Previous and Next
\* (logs-page.tsx): the list of all messages, searched or not, never stands
\* beyond its last page, where it would read "No logs yet" without a way back,
\* unless the reset is on its way or the page was chosen for another organization
\* or for the length of a list that was being replaced. Messages come and go in
\* the list of one status, also in that of 'success' (scheduler.go:52), so
\* nothing of the kind holds there.
PageExists ==
    (query.status = "all" /\ ~hook.loading /\ hook.from = <<current, query>>
        /\ ~adrift /\ ~resetting)
      => query.page = 1 \/ query.page <= hook.total

\* The cancelled flag of use-webhook-log-detail.ts: the open sheet shows the
\* message that was clicked, never one that was opened before it.
SheetShowsSelected == WebhookLogDetailView \in {None, sheet.id}

\* The debounce of use-webhook-logs.ts: what stands in the search box is
\* searched for in the end, unless the user keeps typing.
SearchIsApplied ==
    \/ []<>(search = query.search)
    \/ []<><<search' # search>>_logVars

\* The finally block of use-webhook-logs.ts: the placeholder of the list goes
\* away, unless the user keeps changing what is asked for.
ListLoadingEnds ==
    \/ []<>(~hook.loading \/ current = None)
    \/ []<><<current' # current \/ query' # query>>_logVars
=============================================================================
