------------------------- MODULE WebhookLogsProofs -------------------------
(***************************************************************************)
(* Proofs about WebhookLogs, for any organizations, page size, statuses    *)
(* and number of messages: types, the sheet, the refinement of LoadView by *)
(* lists whose rows answer what was asked for, and that the page number    *)
(* stays within the list of all messages.                                  *)
(***************************************************************************)
EXTENDS WebhookLogs, FiniteSetTheorems, TLAPS

Hook == [items : SUBSET WebhookLog, total : Nat, loading : BOOLEAN, error : BOOLEAN,
         from : (Orgs \X Query) \cup {None}]
Load == [org : Orgs, query : Query, state : {"sent", "counted", "ok", "failed"},
         data : SUBSET WebhookLog, total : Nat]
Sheet == [id : Msgs \cup {None}, shown : Msgs \cup {None}, loading : BOOLEAN,
          error : BOOLEAN]
Detail == [id : Msgs, org : Orgs \cup {None}, state : {"sent", "ok", "failed"}]

\* The list waits for the load in flight, which is the one for the organization
\* and the query of the page. Before there is an organization the list is a
\* placeholder and no load has filled it.
ListInv ==
    /\ load # None => hook.loading /\ load.org = current /\ load.query = query
    /\ current = None => hook.loading /\ hook.from = None

\* What the rows R must be like to answer the query q for the organization o.
Answer(R, o, q) ==
    /\ Cardinality(R) <= Limit
    /\ \A row \in R : /\ row.msg[1] = o
                      /\ q.status # "all" => row.status = q.status
                      /\ q.search = "text" => row.msg[2] \in Hits

\* The rows on their way and those that have arrived answer what was asked for.
RowsInv ==
    /\ load # None /\ load.state = "ok" => Answer(load.data, load.org, load.query)
    /\ hook.from # None => Answer(hook.items, hook.from[1], hook.from[2])

\* The request in flight is for the message that is selected, and what the
\* sheet holds is that message or nothing.
SheetInv ==
    /\ detail # None => detail.id = sheet.id /\ sheet.loading
    /\ sheet.shown \in {None, sheet.id}

LogsInv == LogsTypeOK /\ ListInv /\ RowsInv /\ SheetInv

-----------------------------------------------------------------------------
(* FindWebhookLogs.                                                        *)

\* A division that rounds up is a natural number.
LEMMA CeilingNat ==
    ASSUME NEW n \in Nat, NEW d \in Nat \ {0}
    PROVE  (n + d - 1) \div d \in Nat
<1>1. n + d - 1 \in Nat
  OBVIOUS
<1> QED  BY <1>1

\* A message is one of its organization, with a number in the bound.
LEMMA MsgsOf ==
    ASSUME NEW o \in Orgs, NEW n \in 1..MaxMsgs[o]
    PROVE  <<o, n>> \in Msgs
  BY DEF Msgs

\* The matching messages are numbers of messages, and there are finitely many.
LEMMA MatchingTypes ==
    ASSUME LogsTypeOK, NEW o \in Orgs, NEW q
    PROVE  /\ Matching(o, q) \subseteq 1..MaxMsgs[o]
           /\ Matching(o, q) \subseteq Nat
           /\ IsFiniteSet(Matching(o, q))
           /\ Cardinality(Matching(o, q)) \in Nat
           /\ TotalPages(Matching(o, q)) \in Nat
<1> DEFINE S == Matching(o, q)
<1>1. count[o] \in Nat /\ count[o] <= MaxMsgs[o] /\ MaxMsgs[o] \in Nat
  BY LogsAssumption DEF LogsTypeOK
<1>2. S \subseteq 1..count[o]
  BY DEF Matching
<1>3. IsFiniteSet(1..count[o])
  BY <1>1, FS_Interval
<1>4. IsFiniteSet(S) /\ Cardinality(S) \in Nat
  BY <1>2, <1>3, FS_Subset, FS_CardinalityType
<1>5. S \subseteq 1..MaxMsgs[o] /\ S \subseteq Nat
  BY <1>1, <1>2
<1>6. TotalPages(S) \in Nat
  BY <1>4, CeilingNat, LogsAssumption DEF TotalPages
<1> QED  BY <1>4, <1>5, <1>6

\* Of two matching messages the newer one has the smaller rank.
LEMMA RankOrder ==
    ASSUME NEW S, IsFiniteSet(S), S \subseteq Nat, NEW m \in S, NEW n \in S, n < m
    PROVE  Rank(S, m) \in Nat /\ Rank(S, n) \in Nat /\ Rank(S, m) < Rank(S, n)
<1> DEFINE M == {k \in S : k >= m}
           N == {k \in S : k >= n}
<1>1. IsFiniteSet(N) /\ IsFiniteSet(M)
  BY FS_Subset
<1>2. (\A k \in M : k \in N) /\ n \in N /\ n \notin M
  <2>1. m \in Nat /\ n \in Nat
    OBVIOUS
  <2>2. ASSUME NEW k \in S, k >= m PROVE k >= n
    <3>1. k \in Nat
      BY <2>2
    <3> QED  BY <2>1, <2>2, <3>1
  <2> QED  BY <2>1, <2>2
<1>3. Cardinality(M) \in Nat /\ Cardinality(N) \in Nat
  BY <1>1, FS_CardinalityType
<1>4. Cardinality(M) <= Cardinality(N) /\ Cardinality(M) # Cardinality(N)
  <2> HIDE DEF M, N
  <2>1. M \in SUBSET N /\ M # N
    BY <1>2
  <2> QED  BY <1>1, <2>1, FS_Subset
<1>5. Rank(S, m) = Cardinality(M) /\ Rank(S, n) = Cardinality(N)
  BY DEF Rank
<1> HIDE DEF M, N
<1> QED  BY <1>3, <1>4, <1>5

\* A page has at most Limit rows (LIMIT and OFFSET of message.go): their ranks
\* are different, and in an interval of that length.
LEMMA PageSize ==
    ASSUME NEW S, IsFiniteSet(S), S \subseteq Nat, NEW p \in Nat \ {0}
    PROVE  IsFiniteSet(PageOf(S, p)) /\ Cardinality(PageOf(S, p)) <= Limit
<1> DEFINE P == PageOf(S, p)
           a == (p - 1) * Limit
           T == (a + 1)..(a + Limit)
           f == [n \in P |-> Rank(S, n)]
<1>1. a \in Nat /\ Limit \in Nat /\ p * Limit = a + Limit
  BY LogsAssumption
<1>2. P \subseteq S
  BY DEF PageOf
<1>3. ASSUME NEW n \in P PROVE Rank(S, n) \in T
  <2>1. Rank(S, n) \in Nat
    BY FS_Subset, FS_CardinalityType DEF Rank
  <2>2. a < Rank(S, n) /\ Rank(S, n) <= p * Limit
    BY <1>3 DEF PageOf
  <2> HIDE DEF a
  <2> QED  BY <1>1, <2>1, <2>2
<1>4. ASSUME NEW m \in P, NEW n \in P, m # n PROVE Rank(S, m) # Rank(S, n)
  <2>1. m \in S /\ n \in S /\ m \in Nat /\ n \in Nat
    BY <1>2
  <2>2. \A x, y \in S : y < x =>
          Rank(S, x) \in Nat /\ Rank(S, y) \in Nat /\ Rank(S, x) < Rank(S, y)
    BY RankOrder
  <2>3. n < m \/ m < n
    BY <1>4, <2>1
  <2> QED  BY <2>1, <2>2, <2>3
<1>5. f \in Injection(P, T)
  BY <1>3, <1>4 DEF Injection, IsInjective
<1>6. IsFiniteSet(T) /\ Cardinality(T) = Limit
  <2> HIDE DEF a
  <2> DEFINE u == a + 1
             v == a + Limit
  <2>1. u \in Int /\ v \in Int /\ ~(u > v) /\ v - u + 1 = Limit
    BY <1>1, LogsAssumption
  <2>2. T = u..v
    OBVIOUS
  <2> HIDE DEF u, v, T
  <2>3. IsFiniteSet(u..v) /\ Cardinality(u..v) = IF u > v THEN 0 ELSE v - u + 1
    BY <2>1, FS_Interval
  <2> QED  BY <2>1, <2>2, <2>3
<1>7. IsFiniteSet(P)
  BY <1>2, FS_Subset
<1>8. Cardinality(P) <= Cardinality(T)
  BY <1>5, <1>6, FS_Injection
<1> QED  BY <1>6, <1>7, <1>8

\* The rows of a page are rows, and answer the query.
LEMMA RowsTypes ==
    ASSUME LogsTypeOK, NEW o \in Orgs, NEW q \in Query
    PROVE  Rows(o, q) \subseteq WebhookLog /\ Answer(Rows(o, q), o, q)
<1> DEFINE S == Matching(o, q)
           P == PageOf(S, q.page)
           Row(n) == [msg |-> <<o, n>>, status |-> status[<<o, n>>]]
<1>1. S \subseteq 1..MaxMsgs[o] /\ S \subseteq Nat /\ IsFiniteSet(S)
  BY MatchingTypes
<1>2. P \subseteq S /\ IsFiniteSet(P) /\ Cardinality(P) <= Limit
  <2>1. q.page \in Nat \ {0}
    BY DEF Query
  <2>2. P \subseteq S
    BY DEF PageOf
  <2> QED  BY <1>1, <2>1, <2>2, PageSize
<1>3. \A n \in S : /\ q.status # "all" => status[<<o, n>>] = q.status
                   /\ q.search = "text" => n \in Hits
  BY DEF Matching
<1>4. \A n \in P : <<o, n>> \in Msgs
  BY <1>1, <1>2, MsgsOf
<1> HIDE DEF S
<1>5. Rows(o, q) = {Row(n) : n \in P}
  BY DEF Rows, S
<1> HIDE DEF P
<1>6. Rows(o, q) \subseteq WebhookLog
  <2>1. \A n \in P : status[<<o, n>>] \in Statuses
    BY <1>4 DEF LogsTypeOK
  <2>2. ASSUME NEW n \in P PROVE Row(n) \in WebhookLog
    BY <1>4, <2>1 DEF WebhookLog
  <2> HIDE DEF Row
  <2> QED  BY <1>5, <2>2
<1>7. ASSUME NEW row \in Rows(o, q)
      PROVE  /\ row.msg[1] = o
             /\ q.status # "all" => row.status = q.status
             /\ q.search = "text" => row.msg[2] \in Hits
  <2>1. PICK n \in P : row = Row(n)
    BY <1>5, <1>7
  <2>2. row.msg = <<o, n>> /\ row.status = status[<<o, n>>]
    BY <2>1
  <2>3. n \in S
    BY <1>2, <2>1
  <2> QED  BY <1>3, <2>2, <2>3
<1>8. Cardinality(Rows(o, q)) <= Limit
  <2> DEFINE R == Rows(o, q)
             g == [n \in P |-> Row(n)]
  <2>1. g \in Surjection(P, R)
    BY <1>5 DEF Surjection
  <2>2. IsFiniteSet(R) /\ Cardinality(R) <= Cardinality(P)
    BY <1>2, <2>1, FS_Surjection
  <2>3. Cardinality(R) \in Nat /\ Cardinality(P) \in Nat /\ Limit \in Nat
    BY <1>2, <2>2, FS_CardinalityType, LogsAssumption
  <2> HIDE DEF R
  <2> QED  BY <1>2, <2>2, <2>3 DEF R
<1> QED  BY <1>6, <1>7, <1>8 DEF Answer

\* Previous and Next lead to another page, and never below the first.
LEMMA PaginationTypes ==
    ASSUME LogsTypeOK, NEW p \in Pagination
    PROVE  p \in Nat \ {0} /\ p # query.page
<1>1. query.page \in Nat
  BY DEF LogsTypeOK, Query
<1> QED  BY <1>1 DEF Pagination

-----------------------------------------------------------------------------
(* The invariant.                                                          *)

LEMMA FirstPage == 1 \in Nat \ {0}
  OBVIOUS

LEMMA InitLogs == LogsInit => LogsInv
<1> SUFFICES ASSUME LogsInit PROVE LogsInv
  OBVIOUS
<1> USE LogsAssumption DEF LogsInit
<1>1. query \in Query
  <2>1. "all" \in Filters /\ "" \in Texts
    BY DEF Filters, Texts
  <2> QED  BY <2>1, FirstPage DEF Query
<1>2. /\ hook \in Hook /\ sheet \in Sheet /\ hook.loading /\ hook.from = None
      /\ sheet.id = None /\ sheet.shown = None
  BY DEF Hook, Sheet
<1>3. count \in [Orgs -> Nat] /\ (\A o \in Orgs : count[o] <= MaxMsgs[o])
  <2>1. count = [o \in Orgs |-> 0]
    OBVIOUS
  <2>2. count \in [Orgs -> Nat]
    BY ONLY <2>1
  <2>3. ASSUME NEW o \in Orgs PROVE count[o] <= MaxMsgs[o]
    <3>1. MaxMsgs[o] \in Nat /\ count[o] = 0
      BY ONLY <2>1, LogsAssumption
    <3> QED  BY ONLY <3>1
  <2> QED  BY <2>2, <2>3
<1>4. status \in [Msgs -> Statuses]
  OBVIOUS
<1>5. LogsTypeOK
  BY <1>1, <1>2, <1>3, <1>4 DEF LogsTypeOK, Texts, Hook, Sheet
<1> QED  BY <1>2, <1>5 DEF LogsInv, ListInv, RowsInv, SheetInv

\* A query of the list, by a change of the organization, the filters or the page.
LEMMA FetchInv ==
    ASSUME LogsInv, current' \in Orgs \cup {None}, current = None \/ current' \in Orgs,
           FetchLogs(current', query'), query' \in Query, search' \in Texts,
           resetting' \in BOOLEAN, adrift' \in BOOLEAN, UNCHANGED <<serverVars, sheetVars>>
    PROVE  /\ LogsInv'
           /\ hook'.loading /\ hook'.from = hook.from /\ hook'.total = hook.total
           /\ load' # None => load'.state = "sent"
<1> USE DEF LogsInv, serverVars, sheetVars
<1>1. hook \in Hook /\ load \in Load \cup {None}
  BY DEF LogsTypeOK, Hook, Load
<1>2. CASE current' = None
  <2>1. hook' = hook /\ load' = load /\ current = None
    BY <1>2, LogsAssumption DEF FetchLogs
  <2>2. load = None
    BY <1>1, <2>1, LogsAssumption DEF ListInv, Load
  <2> QED  BY <1>2, <2>1, <2>2 DEF LogsTypeOK, ListInv, RowsInv, SheetInv
<1>3. CASE current' # None
  <2>1. /\ hook' = [hook EXCEPT !.loading = TRUE, !.error = FALSE]
        /\ load' = [org |-> current', query |-> query', state |-> "sent", data |-> {},
                    total |-> 0]
    BY <1>3 DEF FetchLogs, Request
  <2>2. /\ hook' \in Hook /\ hook'.loading /\ hook'.from = hook.from
        /\ hook'.total = hook.total /\ hook'.items = hook.items
    BY <1>1, <2>1 DEF Hook
  <2>3. /\ load' \in Load /\ load'.state = "sent" /\ load'.org = current'
        /\ load'.query = query'
    BY <1>3, <2>1 DEF Load
  <2>4. LogsTypeOK'
    BY <2>2, <2>3 DEF LogsTypeOK, Hook, Load
  <2> QED  BY <1>3, <2>2, <2>3, <2>4 DEF ListInv, RowsInv, SheetInv
<1> QED  BY <1>2, <1>3

\* The steps that run the fetch effect.
Queries ==
    \/ \E o \in Orgs : switchOrg(o)
    \/ \E f \in Filters : setStatusFilter(f)
    \/ DebounceFires
    \/ PageReset
    \/ \E p \in Pagination : goToPage(p)

\* The page number is reset only when it is not the first.
ResetInv == resetting => query.page # 1

\* What each of them does to the query.
LEMMA QueriesStep ==
    ASSUME LogsTypeOK, ResetInv, Queries
    PROVE  /\ current' \in Orgs \cup {None} /\ (current = None \/ current' \in Orgs)
           /\ query' \in Query /\ search' \in Texts /\ resetting' \in BOOLEAN
           /\ adrift' \in BOOLEAN /\ FetchLogs(current', query')
           /\ <<current', query'>> # <<current, query>>
           /\ UNCHANGED <<serverVars, sheetVars>>
           /\ ResetInv'
<1>1. /\ query \in Query /\ current \in Orgs \cup {None} /\ search \in Texts
      /\ adrift \in BOOLEAN /\ resetting \in BOOLEAN /\ query.page \in Nat \ {0}
  BY DEF LogsTypeOK, Query
<1> DEFINE Goal ==
      /\ current' \in Orgs \cup {None} /\ (current = None \/ current' \in Orgs)
      /\ query' \in Query /\ search' \in Texts /\ resetting' \in BOOLEAN
      /\ adrift' \in BOOLEAN /\ FetchLogs(current', query')
      /\ <<current', query'>> # <<current, query>>
      /\ UNCHANGED <<serverVars, sheetVars>>
      /\ ResetInv'
<1>2. ASSUME NEW o \in Orgs, switchOrg(o) PROVE Goal
  BY <1>1, <1>2 DEF switchOrg, ResetInv
<1>3. ASSUME NEW q \in Query, q # query, q.page = query.page, Refilter(q) PROVE Goal
  <2>1. /\ query' = q /\ current' = current /\ resetting' = (query.page # 1)
        /\ search' = search /\ adrift' = adrift /\ UNCHANGED <<serverVars, sheetVars>>
        /\ FetchLogs(current', query')
    BY <1>3 DEF Refilter, serverVars, sheetVars
  <2>2. resetting' \in BOOLEAN /\ ResetInv'
    BY <1>3, <2>1 DEF ResetInv
  <2> QED  BY <1>1, <1>3, <2>1, <2>2
<1>4. ASSUME NEW f \in Filters, setStatusFilter(f) PROVE Goal
  <2> DEFINE q == [query EXCEPT !.status = f]
  <2>1. q \in Query /\ q # query /\ q.page = query.page /\ Refilter(q)
    BY <1>1, <1>4 DEF setStatusFilter, Query
  <2> HIDE DEF q
  <2> QED  BY <1>3, <2>1
<1>5. ASSUME DebounceFires PROVE Goal
  <2> DEFINE q == [query EXCEPT !.search = search]
  <2>1. q \in Query /\ q # query /\ q.page = query.page /\ Refilter(q)
    BY <1>1, <1>5 DEF DebounceFires, Query
  <2> HIDE DEF q
  <2> QED  BY <1>3, <2>1
<1>6. ASSUME NEW p \in Nat \ {0}, p # query.page,
             query' = [query EXCEPT !.page = p], ~resetting', adrift' \in BOOLEAN,
             FetchLogs(current', query'), UNCHANGED <<serverVars, current, search, sheetVars>>,
             resetting' \in BOOLEAN
      PROVE  Goal
  <2>1. query' \in Query /\ query'.page = p
    BY <1>1, <1>6 DEF Query
  <2> QED  BY <1>1, <1>6, <2>1 DEF ResetInv, serverVars, sheetVars
<1>7. ASSUME PageReset PROVE Goal
  <2>1. /\ 1 # query.page /\ query' = [query EXCEPT !.page = 1] /\ resetting' = FALSE
        /\ adrift' = FALSE /\ FetchLogs(current', query')
        /\ UNCHANGED <<serverVars, current, search, sheetVars>>
    BY <1>7 DEF PageReset, ResetInv, serverVars, sheetVars
  <2> HIDE DEF Goal
  <2> QED  BY <1>6, <2>1, FirstPage
<1>8. ASSUME NEW p \in Pagination, goToPage(p) PROVE Goal
  <2>1. p \in Nat \ {0} /\ p # query.page
    BY PaginationTypes
  <2>2. /\ query' = [query EXCEPT !.page = p] /\ resetting' = FALSE
        /\ adrift' = (p # 1 /\ (adrift \/ resetting \/ ~SameList))
        /\ FetchLogs(current', query')
        /\ UNCHANGED <<serverVars, current, search, sheetVars>>
    BY <1>8 DEF goToPage, serverVars, sheetVars
  <2>3. adrift' \in BOOLEAN
    BY <2>2
  <2> HIDE DEF Goal
  <2> QED  BY <1>6, <2>1, <2>2, <2>3
<1> HIDE DEF Goal
<1>9. Goal
  BY <1>2, <1>4, <1>5, <1>7, <1>8 DEF Queries
<1> QED  BY <1>9 DEF Goal

LEMMA QueriesInv ==
    ASSUME LogsInv, ResetInv, Queries
    PROVE  /\ LogsInv' /\ ResetInv'
           /\ hook'.loading /\ hook'.from = hook.from /\ hook'.total = hook.total
           /\ load' # None => load'.state = "sent"
           /\ <<current', query'>> # <<current, query>>
           /\ <<current', query'>> \in (Orgs \cup {None}) \X Query
<1>1. LogsTypeOK
  BY DEF LogsInv
<1> QED  BY <1>1, QueriesStep, FetchInv

\* The other steps of the list.
LEMMA ListStepsInv ==
    ASSUME LogsInv, NEW text \in Texts, setSearch(text) \/ CountLogs \/ SelectLogs \/ LogsReply
    PROVE  LogsInv'
<1> USE DEF LogsInv, serverVars, sheetVars
<1>1. /\ query \in Query /\ current \in Orgs \cup {None} /\ hook \in Hook
      /\ load \in Load \cup {None}
  BY DEF LogsTypeOK, Hook, Load
<1>2. CASE setSearch(text)
  BY <1>2 DEF setSearch, LogsTypeOK, ListInv, RowsInv, SheetInv
<1>3. CASE CountLogs
  <2>1. load \in Load /\ load # None /\ load.org \in Orgs /\ load.query \in Query
    BY <1>1, <1>3 DEF CountLogs, Load
  <2> DEFINE total == TotalPages(Matching(load.org, load.query))
  <2>2. total \in Nat
    BY <2>1, MatchingTypes
  <2>3. \/ load' = [load EXCEPT !.state = "counted", !.total = total]
        \/ load' = [load EXCEPT !.state = "failed"]
    BY <1>3 DEF CountLogs
  <2> HIDE DEF total
  <2>4. /\ load' \in Load /\ load'.state \in {"counted", "failed"}
        /\ load'.org = load.org /\ load'.query = load.query
    BY <2>1, <2>2, <2>3 DEF Load
  <2> QED  BY <1>3, <2>1, <2>4 DEF CountLogs, LogsTypeOK, ListInv, RowsInv, SheetInv, Load
<1>4. CASE SelectLogs
  <2>1. load \in Load /\ load # None /\ load.org \in Orgs /\ load.query \in Query
    BY <1>1, <1>4 DEF SelectLogs, Load
  <2> DEFINE data == Rows(load.org, load.query)
  <2>2. data \subseteq WebhookLog /\ Answer(data, load.org, load.query)
    BY <2>1, RowsTypes
  <2>3. \/ load' = [load EXCEPT !.state = "ok", !.data = data]
        \/ load' = [load EXCEPT !.state = "failed"]
    BY <1>4 DEF SelectLogs
  <2> HIDE DEF data
  <2>4. /\ load' \in Load /\ load'.state \in {"ok", "failed"}
        /\ load'.org = load.org /\ load'.query = load.query
        /\ load'.state = "ok" => load'.data = data
    BY <2>1, <2>2, <2>3 DEF Load
  <2>5. LogsTypeOK'
    BY <1>4, <2>4 DEF SelectLogs, LogsTypeOK, Load
  <2>6. RowsInv'
    BY <1>4, <2>2, <2>4 DEF SelectLogs, RowsInv
  <2> QED  BY <1>4, <2>1, <2>4, <2>5, <2>6 DEF SelectLogs, ListInv, SheetInv
<1>5. CASE LogsReply
  <2>1. /\ load \in Load /\ load # None /\ load.org = current /\ current \in Orgs
        /\ load.data \subseteq WebhookLog /\ load.total \in Nat /\ load.query \in Query
    BY <1>1, <1>5 DEF LogsReply, ListInv, Load
  <2> DEFINE pair == <<load.org, load.query>>
  <2>2. pair \in Orgs \X Query /\ pair[1] = load.org /\ pair[2] = load.query
    BY <2>1
  <2>3. \/ /\ load.state = "ok"
           /\ hook' = [hook EXCEPT !.items = load.data, !.total = load.total,
                                   !.loading = FALSE, !.from = pair]
        \/ hook' = [hook EXCEPT !.error = TRUE, !.loading = FALSE]
    BY <1>5 DEF LogsReply
  <2> HIDE DEF pair
  <2>4. /\ hook' \in Hook
        /\ \/ load.state = "ok" /\ hook'.items = load.data /\ hook'.from = pair
           \/ hook'.items = hook.items /\ hook'.from = hook.from
    BY <1>1, <2>1, <2>2, <2>3 DEF Hook
  <2>5. LogsTypeOK'
    BY <1>5, <2>4 DEF LogsReply, LogsTypeOK, Hook
  <2>6. RowsInv'
    BY <1>5, <2>1, <2>2, <2>4 DEF LogsReply, RowsInv
  <2> QED  BY <1>5, <2>1, <2>5, <2>6, LogsAssumption DEF LogsReply, ListInv, SheetInv
<1> QED  BY <1>2, <1>3, <1>4, <1>5

\* The steps of the sheet.
LEMMA SheetStepsInv ==
    ASSUME LogsInv,
           \/ \E m \in Msgs \cap Openable : openDetail(m)
           \/ closeDetail \/ ServeDetail \/ DetailReply
    PROVE  LogsInv'
<1> USE DEF LogsInv, serverVars
<1>1. sheet \in Sheet /\ detail \in Detail \cup {None} /\ current \in Orgs \cup {None}
  BY DEF LogsTypeOK, Sheet, Detail
<1>2. UNCHANGED <<count, status, current, query, resetting, search, hook, load, adrift>>
  BY DEF openDetail, closeDetail, ServeDetail, DetailReply
<1>3. sheet' \in Sheet /\ detail' \in Detail \cup {None} /\ SheetInv'
  <2>1. ASSUME NEW m \in Msgs, openDetail(m)
        PROVE  sheet' \in Sheet /\ detail' \in Detail \cup {None} /\ SheetInv'
    <3>1. /\ sheet' = [sheet EXCEPT !.id = m, !.loading = TRUE, !.error = FALSE]
          /\ detail' = [id |-> m, org |-> current, state |-> "sent"] /\ sheet.id = None
      BY <2>1 DEF openDetail, Behind
    <3>2. /\ sheet' \in Sheet /\ detail' \in Detail /\ sheet'.id = m /\ sheet'.loading
          /\ sheet'.shown = sheet.shown /\ detail'.id = m
      BY <1>1, <3>1 DEF Sheet, Detail
    <3> QED  BY <3>1, <3>2 DEF SheetInv
  <2>2. CASE closeDetail
    <3>1. /\ sheet' = [sheet EXCEPT !.id = None, !.shown = None, !.error = FALSE]
          /\ detail' = None
      BY <2>2 DEF closeDetail
    <3>2. sheet' \in Sheet /\ sheet'.id = None /\ sheet'.shown = None
      BY <1>1, <3>1 DEF Sheet
    <3> QED  BY <3>1, <3>2 DEF SheetInv
  <2>3. CASE ServeDetail
    <3>1. /\ \/ detail' = [detail EXCEPT !.state = "ok"]
             \/ detail' = [detail EXCEPT !.state = "failed"]
          /\ detail \in Detail /\ detail # None /\ sheet' = sheet
      BY <1>1, <2>3 DEF ServeDetail
    <3>2. detail' \in Detail /\ detail'.id = detail.id
      BY <3>1 DEF Detail
    <3> QED  BY <1>1, <3>1, <3>2 DEF SheetInv
  <2>4. CASE DetailReply
    <3>1. /\ \/ sheet' = [sheet EXCEPT !.shown = detail.id, !.loading = FALSE]
             \/ sheet' = [sheet EXCEPT !.error = TRUE, !.loading = FALSE]
          /\ detail \in Detail /\ detail # None /\ detail' = None /\ detail.id = sheet.id
      BY <1>1, <2>4 DEF DetailReply, SheetInv
    <3>2. /\ sheet' \in Sheet /\ sheet'.id = sheet.id /\ sheet'.loading = FALSE
          /\ sheet'.shown \in {sheet.shown, sheet.id}
      BY <1>1, <3>1 DEF Sheet, Detail
    <3> QED  BY <3>1, <3>2 DEF SheetInv
  <2> QED  BY <2>1, <2>2, <2>3, <2>4
<1>4. LogsTypeOK'
  BY <1>2, <1>3 DEF LogsTypeOK, Sheet, Detail
<1> QED  BY <1>2, <1>3, <1>4 DEF ListInv, RowsInv

\* The steps of the server.
ServerStep == (\E o \in Orgs : Arrive(o)) \/ (\E m \in Msgs, s \in Statuses : Update(m, s))

LEMMA ServerStepsInv ==
    ASSUME LogsInv, ServerStep
    PROVE  LogsInv' /\ (\A o \in Orgs : count[o] <= count'[o])
<1> USE DEF LogsInv, sheetVars
<1>1. UNCHANGED <<current, query, resetting, search, hook, load, sheet, detail, adrift>>
  BY DEF ServerStep, Arrive, Update
<1>2. /\ count' \in [Orgs -> Nat] /\ (\A o \in Orgs : count'[o] <= MaxMsgs[o])
      /\ status' \in [Msgs -> Statuses] /\ (\A o \in Orgs : count[o] <= count'[o])
  <2>1. /\ count \in [Orgs -> Nat] /\ (\A o \in Orgs : count[o] <= MaxMsgs[o])
        /\ status \in [Msgs -> Statuses] /\ MaxMsgs \in [Orgs -> Nat]
    BY LogsAssumption DEF LogsTypeOK
  <2>2. ASSUME NEW o \in Orgs, Arrive(o)
        PROVE  /\ count' \in [Orgs -> Nat] /\ (\A p \in Orgs : count'[p] <= MaxMsgs[p])
               /\ status' = status /\ (\A p \in Orgs : count[p] <= count'[p])
    <3>1. /\ count[o] \in Nat /\ MaxMsgs[o] \in Nat /\ count[o] < MaxMsgs[o]
          /\ count' = [count EXCEPT ![o] = count[o] + 1] /\ status' = status
      BY <2>1, <2>2 DEF Arrive
    <3>2. ASSUME NEW p \in Orgs PROVE count'[p] <= MaxMsgs[p] /\ count[p] <= count'[p]
      <4>1. count[p] \in Nat /\ count[p] <= MaxMsgs[p] /\ MaxMsgs[p] \in Nat
        BY <2>1
      <4>2. count'[p] = IF p = o THEN count[o] + 1 ELSE count[p]
        BY <2>1, <3>1
      <4> QED  BY <3>1, <4>1, <4>2
    <3>3. count[o] + 1 \in Nat
      BY <3>1
    <3> QED  BY <2>1, <3>1, <3>2, <3>3
  <2>3. ASSUME NEW m \in Msgs, NEW s \in Statuses, Update(m, s)
        PROVE  count' = count /\ status' \in [Msgs -> Statuses]
    BY <2>1, <2>3 DEF Update
  <2>4. \A o \in Orgs : count[o] <= count[o]
    BY <2>1
  <2> QED  BY <2>1, <2>2, <2>3, <2>4 DEF ServerStep
<1>3. LogsTypeOK'
  BY <1>1, <1>2 DEF LogsTypeOK
<1> QED  BY <1>1, <1>2, <1>3 DEF ListInv, RowsInv, SheetInv

LEMMA StepLogs == LogsInv /\ ResetInv /\ [LogsNext]_logVars => LogsInv' /\ ResetInv'
<1> SUFFICES ASSUME LogsInv, ResetInv, [LogsNext]_logVars PROVE LogsInv' /\ ResetInv'
  OBVIOUS
<1> USE DEF serverVars, sheetVars
<1>1. CASE UNCHANGED logVars
  BY <1>1 DEF logVars, LogsInv, LogsTypeOK, ListInv, RowsInv, SheetInv, ResetInv
<1>2. CASE Queries
  BY <1>2, QueriesInv
<1>3. CASE (\E text \in Texts : setSearch(text)) \/ CountLogs \/ SelectLogs \/ LogsReply
  <2>1. "" \in Texts
    BY DEF Texts
  <2>2. ResetInv'
    BY <1>3 DEF setSearch, CountLogs, SelectLogs, LogsReply, ResetInv
  <2> QED  BY <1>3, <2>1, <2>2, ListStepsInv
<1>4. CASE \/ \E m \in Msgs \cap Openable : openDetail(m)
           \/ closeDetail \/ ServeDetail \/ DetailReply
  <2>1. ResetInv'
    BY <1>4 DEF openDetail, closeDetail, ServeDetail, DetailReply, ResetInv
  <2> QED  BY <1>4, <2>1, SheetStepsInv
<1>5. CASE ServerStep
  <2>1. ResetInv'
    BY <1>5 DEF ServerStep, Arrive, Update, ResetInv
  <2> QED  BY <1>5, <2>1, ServerStepsInv
<1> QED  BY <1>1, <1>2, <1>3, <1>4, <1>5 DEF LogsNext, Queries, ServerStep

-----------------------------------------------------------------------------
(* The theorems.                                                           *)

\* The inductive invariant: the list and the sheet of the logs page agree with
\* the requests useWebhookLogs and the page have in flight, and the page number
\* is being reset only when there is something to reset.
THEOREM LogsInvariant == LogsSpec => [](LogsInv /\ ResetInv)
<1>1. LogsInit => LogsInv /\ ResetInv
  BY InitLogs DEF LogsInit, ResetInv
<1> QED  BY <1>1, StepLogs, PTL DEF LogsSpec

\* Types, for any page size and number of messages: in particular the page
\* number stays positive, the length of a list is a natural number of pages
\* (FindWebhookLogs), and no list is asked for without an organization.
THEOREM LogsTypes == LogsSpec => []LogsTypeOK
<1>1. LogsInv => LogsTypeOK
  BY DEF LogsInv
<1> QED  BY <1>1, LogsInvariant, PTL

\* The sheet shows the message that was clicked (use-webhook-log-detail.ts), in
\* whatever order messages are opened and closed and answers arrive.
THEOREM LogsSheet == LogsSpec => []SheetShowsSelected
<1>1. LogsInv => SheetShowsSelected
  BY DEF LogsInv, SheetInv, SheetShowsSelected, WebhookLogDetailView
<1> QED  BY <1>1, LogsInvariant, PTL

LEMMA InitList == LogsInit => LogsView!Init
<1> SUFFICES ASSUME LogsInit PROVE LogsView!Init
  OBVIOUS
<1>1. query \in Query /\ hook.loading /\ hook.from = None
  BY InitLogs DEF LogsInv, LogsTypeOK, LogsInit
<1> QED  BY <1>1 DEF LogsView!Init, LogsInit

LEMMA StepList ==
    LogsInv /\ ResetInv /\ [LogsNext]_logVars => [LogsView!Next]_(LogsView!vars)
<1> SUFFICES ASSUME LogsInv, ResetInv, [LogsNext]_logVars
             PROVE  [LogsView!Next]_(LogsView!vars)
  OBVIOUS
<1>1. ASSUME current' = current, query' = query, hook' = hook
      PROVE  UNCHANGED LogsView!vars
  BY <1>1 DEF LogsView!vars
<1>2. CASE Queries
  <2>1. /\ hook'.loading /\ hook'.from = hook.from
        /\ <<current', query'>> # <<current, query>>
        /\ <<current', query'>> \in (Orgs \cup {None}) \X Query
    BY <1>2, QueriesInv
  <2> QED  BY <2>1 DEF LogsView!Next, LogsView!Select
<1>3. CASE LogsReply
  <2>1. hook.loading /\ hook \in Hook /\ load.org = current /\ load.query = query
    BY <1>3 DEF LogsReply, LogsInv, ListInv, LogsTypeOK, Hook
  <2>2. UNCHANGED <<current, query>>
    BY <1>3 DEF LogsReply
  <2>3. ~hook'.loading /\ (hook'.from = <<load.org, load.query>> \/ hook'.from = hook.from)
    BY <1>3, <2>1 DEF LogsReply, Hook
  <2> QED  BY <2>1, <2>2, <2>3 DEF LogsView!Next, LogsView!Succeed, LogsView!Fail
<1>4. CASE \/ \E text \in Texts : setSearch(text)
           \/ CountLogs \/ SelectLogs
           \/ \E m \in Msgs \cap Openable : openDetail(m)
           \/ closeDetail \/ ServeDetail \/ DetailReply
           \/ ServerStep
           \/ UNCHANGED logVars
  BY <1>1, <1>4 DEF setSearch, CountLogs, SelectLogs, openDetail, closeDetail, ServeDetail,
                    DetailReply, ServerStep, Arrive, Update, logVars
<1> QED  BY <1>2, <1>3, <1>4 DEF LogsNext, Queries, ServerStep

\* The list on the screen answers the query on the screen, or is what was there
\* before a failed load: use-webhook-logs.ts implements LoadView, and the rows it
\* holds are those of a page that message.go found for the query they are held
\* for.
THEOREM LogsListView == LogsSpec => ListAnswersQuery
<1>1. LogsInv => RowsAnswer
  BY DEF LogsInv, RowsInv, RowsAnswer, Answer
<1> QED  BY <1>1, LogsInvariant, InitList, StepList, PTL
         DEF LogsSpec, ListAnswersQuery, LogsView!Spec

-----------------------------------------------------------------------------
(* The page number. The list of all messages grows.                        *)

\* The number of pages of the list that q asks for, as the server counts now.
Pages(o, q) == TotalPages(Matching(o, q))

\* p is a page of a list of n pages; the first page is one of any list.
Fits(p, n) == p = 1 \/ p <= n

\* The load has its number of pages.
Counted == load # None /\ load.state \in {"counted", "ok"}

\* A length the server gave is at most the length now; a page that is neither
\* adrift nor being reset fits the list now, the answer on its way, and the list
\* on the screen if that is one for the same filters.
PageInv ==
    /\ current = None => query.page = 1 /\ hook.total = 1
    /\ hook.from # None /\ hook.from[2].status = "all" =>
         hook.total <= Pages(hook.from[1], hook.from[2])
    /\ query.status = "all" /\ Counted => load.total <= Pages(current, query)
    /\ query.status = "all" /\ ~adrift /\ ~resetting =>
         /\ current # None => Fits(query.page, Pages(current, query))
         /\ Counted => Fits(query.page, load.total)
         /\ SameList => Fits(query.page, hook.total)

\* Rounding up keeps the order.
LEMMA CeilingMonotone ==
    ASSUME NEW a \in Nat, NEW b \in Nat, NEW d \in Nat \ {0}, a <= b
    PROVE  (a + d - 1) \div d <= (b + d - 1) \div d
<1> DEFINE u == a + d - 1
           v == b + d - 1
<1>1. u \in Nat /\ v \in Nat /\ u <= v
  OBVIOUS
<1> HIDE DEF u, v
<1> DEFINE x == u \div d
           y == v \div d
<1>2. x \in Nat /\ y \in Nat /\ d * x <= u /\ v < d * (y + 1)
  BY <1>1
<1> HIDE DEF x, y
<1>3. d * x < d * (y + 1)
  <2>1. d * x \in Nat /\ d * (y + 1) \in Nat
    BY <1>2
  <2> QED  BY <1>1, <1>2, <2>1
<1>4. x < y + 1
  BY <1>2, <1>3
<1> QED  BY <1>2, <1>4 DEF x, y, u, v

\* The length of a list is a number.
LEMMA PagesNat ==
    ASSUME LogsTypeOK, NEW o \in Orgs, NEW q \in Query
    PROVE  Pages(o, q) \in Nat
  BY MatchingTypes DEF Pages

\* Arrivals lengthen the list of all messages, and changes of status leave it
\* alone, whichever way they go.
LEMMA ListsGrow ==
    ASSUME LogsTypeOK, LogsTypeOK', NEW o \in Orgs, NEW q \in Query, q.status = "all",
           count[o] <= count'[o]
    PROVE  /\ Pages(o, q) \in Nat /\ Pages(o, q)' \in Nat
           /\ Pages(o, q) <= Pages(o, q)'
<1> DEFINE S == {n \in 1..count[o] : q.search = "text" => n \in Hits}
           T == {n \in 1..count'[o] : q.search = "text" => n \in Hits}
<1>1. Matching(o, q) = S /\ Matching(o, q)' = T
  BY DEF Matching
<1>2. count[o] \in Nat /\ count'[o] \in Nat
  BY DEF LogsTypeOK
<1>3. S \subseteq T
  <2>1. 1..count[o] \subseteq 1..count'[o]
    BY <1>2
  <2> QED  BY <2>1
<1>4. IsFiniteSet(S) /\ IsFiniteSet(T)
  <2>1. IsFiniteSet(1..count[o])
    BY <1>2, FS_Interval
  <2>2. IsFiniteSet(1..count'[o])
    BY <1>2, FS_Interval
  <2> QED  BY <2>1, <2>2, FS_Subset
<1> HIDE DEF S, T
<1>5. Cardinality(S) \in Nat /\ Cardinality(T) \in Nat /\ Cardinality(S) <= Cardinality(T)
  BY <1>3, <1>4, FS_CardinalityType, FS_Subset
<1>6. /\ Pages(o, q) = (Cardinality(S) + Limit - 1) \div Limit
      /\ Pages(o, q)' = (Cardinality(T) + Limit - 1) \div Limit
  BY <1>1 DEF Pages, TotalPages
<1> QED  BY <1>5, <1>6, CeilingNat, CeilingMonotone, LogsAssumption

\* The list on the screen is as long as the one that is asked for was.
LEMMA SameLength ==
    ASSUME LogsTypeOK, SameList
    PROVE  /\ hook.from # None /\ hook.from \in Orgs \X Query
           /\ hook.from[2].status = query.status
           /\ Pages(hook.from[1], hook.from[2]) = Pages(current, query)
<1>1. hook.from \in Orgs \X Query /\ hook.from # None /\ query \in Query
  BY DEF SameList, LogsTypeOK
<1>2. PICK o \in Orgs, q \in Query : hook.from = <<o, q>>
  BY <1>1
<1>3. o = current /\ [q EXCEPT !.page = query.page] = query
  BY <1>2 DEF SameList
<1>4. q.status = query.status /\ q.search = query.search
  BY <1>3 DEF Query
<1>5. Matching(o, q) = Matching(current, query)
  BY <1>3, <1>4 DEF Matching
<1> QED  BY <1>1, <1>2, <1>4, <1>5 DEF Pages

-----------------------------------------------------------------------------

LEMMA InitPage == LogsInit => PageInv
<1> SUFFICES ASSUME LogsInit PROVE PageInv
  OBVIOUS
<1>1. /\ query.page = 1 /\ hook.total = 1 /\ hook.from = None /\ load = None
      /\ current = None
  BY DEF LogsInit
<1> QED  BY <1>1 DEF PageInv, SameList, Counted

\* A new query: the first page, another organization or filter, or a page that
\* Previous or Next offers.
LEMMA QueriesPage ==
    ASSUME LogsInv, ResetInv, PageInv, Queries
    PROVE  PageInv'
<1>1. /\ LogsInv' /\ hook'.from = hook.from /\ hook'.total = hook.total
      /\ count' = count /\ status' = status /\ ~Counted'
      /\ query' \in Query /\ query \in Query /\ query'.page \in Nat
  <2>1. /\ LogsInv' /\ hook'.from = hook.from /\ hook'.total = hook.total
        /\ load' # None => load'.state = "sent"
    BY QueriesInv
  <2>2. UNCHANGED serverVars
    BY QueriesStep DEF LogsInv
  <2>3. query' \in Query /\ query \in Query
    BY <2>1 DEF LogsInv, LogsTypeOK
  <2> QED  BY <2>1, <2>2, <2>3 DEF serverVars, Query, Counted
<1>2. \A o \in Orgs, q \in Query : Pages(o, q)' = Pages(o, q)
  BY <1>1 DEF Pages, Matching
<1>3. hook.from # None => hook.from[1] \in Orgs /\ hook.from[2] \in Query
  BY DEF LogsInv, LogsTypeOK
<1>4. hook'.from # None /\ hook'.from[2].status = "all" =>
        hook'.total <= Pages(hook.from[1], hook.from[2])'
  BY <1>1, <1>2, <1>3 DEF PageInv
<1>5. ASSUME query'.page = 1 \/ adrift' \/ resetting',
             current' = None => query'.page = 1 /\ current = None
      PROVE  PageInv'
  <2>1. current' = None => query'.page = 1 /\ hook'.total = 1
    BY <1>1, <1>5 DEF PageInv
  <2> QED  BY <1>1, <1>4, <1>5, <2>1 DEF PageInv, Fits
<1>6. ASSUME NEW o \in Orgs, switchOrg(o) PROVE PageInv'
  <2>1. current' # None /\ (query'.page = 1 \/ adrift')
    BY <1>6, LogsAssumption DEF switchOrg
  <2> QED  BY <1>5, <2>1
<1>7. ASSUME NEW q \in Query, q.page = query.page, Refilter(q) PROVE PageInv'
  <2>1. query'.page = query.page /\ current' = current /\ resetting' = (query.page # 1)
    BY <1>7 DEF Refilter
  <2>2. current' = None => query'.page = 1 /\ current = None
    BY <2>1 DEF PageInv
  <2> QED  BY <1>5, <2>1, <2>2
<1>8. ASSUME NEW f \in Filters, setStatusFilter(f) PROVE PageInv'
  <2> DEFINE q == [query EXCEPT !.status = f]
  <2>1. q \in Query /\ q.page = query.page /\ Refilter(q)
    BY <1>1, <1>8 DEF setStatusFilter, Query
  <2> HIDE DEF q
  <2> QED  BY <1>7, <2>1
<1>9. ASSUME DebounceFires PROVE PageInv'
  <2> DEFINE q == [query EXCEPT !.search = search]
  <2>1. q \in Query /\ q.page = query.page /\ Refilter(q)
    BY <1>1, <1>9 DEF DebounceFires, Query, LogsInv, LogsTypeOK
  <2> HIDE DEF q
  <2> QED  BY <1>7, <2>1
<1>10. ASSUME PageReset PROVE PageInv'
  <2>1. query'.page = 1 /\ current' = current
    BY <1>1, <1>10 DEF PageReset, Query
  <2> QED  BY <1>5, <2>1
<1>11. ASSUME NEW p \in Pagination, goToPage(p) PROVE PageInv'
  <2>1. /\ current' = current
        /\ query' = [query EXCEPT !.page = p]
        /\ adrift' = (p # 1 /\ (adrift \/ resetting \/ ~SameList))
    BY <1>11 DEF goToPage
  <2>2. query'.page = p /\ query'.status = query.status /\ query'.search = query.search
    BY <1>1, <2>1 DEF Query
  <2>3. /\ hook.total > 1 /\ hook.total \in Nat /\ query.page \in Nat \ {0}
        /\ p \in Nat \ {0} /\ (p < query.page \/ p <= hook.total)
    <3>1. hook.total \in Nat /\ query.page \in Nat \ {0}
      BY <1>1 DEF LogsInv, LogsTypeOK, Query
    <3>2. p \in Nat \ {0}
      BY PaginationTypes DEF LogsInv
    <3>3. hook.total > 1 /\ (p < query.page \/ p <= hook.total)
      BY <3>1 DEF Pagination
    <3> QED  BY <3>1, <3>2, <3>3
  <2>4. current # None /\ current \in Orgs
    BY <2>3 DEF PageInv, LogsInv, LogsTypeOK
  <2>5. CASE p = 1 \/ adrift'
    BY <1>5, <2>1, <2>2, <2>4, <2>5
  <2>6. CASE p # 1 /\ ~adrift'
    <3>1. SameList /\ ~adrift /\ ~resetting
      BY <2>1, <2>6
    <3>2. ASSUME query.status = "all"
          PROVE  p <= hook.total /\ Fits(p, Pages(current, query))
      <4>1. query.page = 1 \/ query.page <= hook.total
        BY <3>1, <3>2 DEF PageInv, Fits
      <4>2. p <= hook.total
        BY <2>3, <2>6, <4>1
      <4>3. hook.total <= Pages(current, query)
        BY <3>1, <3>2, SameLength DEF PageInv, LogsInv
      <4>4. Pages(current, query) \in Nat
        BY <1>1, <2>4, PagesNat DEF LogsInv
      <4> QED  BY <2>3, <4>2, <4>3, <4>4 DEF Fits
    <3>3. Pages(current, query)' = Pages(current, query)
      BY <1>1, <2>1, <2>2 DEF Pages, Matching
    <3> QED  BY <1>1, <1>4, <2>1, <2>2, <2>4, <3>2, <3>3 DEF PageInv, Fits
  <2> QED  BY <2>5, <2>6
<1> QED  BY <1>6, <1>8, <1>9, <1>10, <1>11 DEF Queries

\* The server counts the list and reads a page of it, and the answer arrives.
LEMMA ReplyPage ==
    ASSUME LogsInv, PageInv, CountLogs \/ SelectLogs \/ LogsReply
    PROVE  PageInv'
<1>1. /\ UNCHANGED <<count, status, current, query, resetting, adrift>>
      /\ load # None /\ load.org = current /\ load.query = query /\ current \in Orgs
      /\ current # None /\ hook \in Hook /\ load \in Load /\ query \in Query
      /\ LogsTypeOK
  BY LogsAssumption DEF CountLogs, SelectLogs, LogsReply, serverVars, LogsInv, LogsTypeOK,
                        ListInv, Hook, Load
<1>2. \A o \in Orgs, q \in Query : Pages(o, q)' = Pages(o, q)
  BY <1>1 DEF Pages, Matching
<1>3. hook.from # None => hook.from[1] \in Orgs /\ hook.from[2] \in Query
  BY DEF LogsInv, LogsTypeOK
<1>4. Pages(current, query)' = Pages(current, query) /\ Pages(current, query) \in Nat
  BY <1>1, PagesNat DEF Pages, Matching
<1>5. ASSUME hook' = hook,
             Counted' => \/ load'.total = Pages(current, query)
                         \/ Counted /\ load'.total = load.total
      PROVE  PageInv'
  <2>1. SameList' <=> SameList
    BY <1>1, <1>5 DEF SameList
  <2>2. hook'.from # None /\ hook'.from[2].status = "all" =>
          hook'.total <= Pages(hook.from[1], hook.from[2])'
    BY <1>2, <1>3, <1>5 DEF PageInv
  <2>3. query'.status = "all" /\ Counted' => load'.total <= Pages(current, query)'
    BY <1>1, <1>4, <1>5 DEF PageInv
  <2>4. query'.status = "all" /\ ~adrift' /\ ~resetting' =>
          /\ Fits(query'.page, Pages(current, query)')
          /\ Counted' => Fits(query'.page, load'.total)
          /\ SameList' => Fits(query'.page, hook'.total)
    BY <1>1, <1>4, <1>5, <2>1 DEF PageInv
  <2> QED  BY <1>1, <2>2, <2>3, <2>4 DEF PageInv
<1>6. CASE CountLogs
  <2>1. /\ hook' = hook
        /\ \/ load'.state = "failed"
           \/ load'.total = TotalPages(Matching(load.org, load.query))
    BY <1>1, <1>6 DEF CountLogs, Load
  <2>2. Counted' => load'.total = Pages(current, query)
    BY <1>1, <2>1 DEF Counted, Pages
  <2> QED  BY <1>5, <2>1, <2>2
<1>7. CASE SelectLogs
  <2>1. /\ hook' = hook /\ Counted
        /\ load'.state = "failed" \/ load'.total = load.total
    BY <1>1, <1>7 DEF SelectLogs, Counted, Load
  <2>2. Counted' => load'.total = load.total
    BY <2>1 DEF Counted
  <2> QED  BY <1>5, <2>1, <2>2
<1>8. CASE LogsReply
  <2>1. load' = None /\ ~Counted'
    BY <1>8 DEF LogsReply, Counted
  <2>2. CASE load.state = "ok"
    <3>1. hook'.total = load.total /\ hook'.from = <<current, query>> /\ Counted
      BY <1>1, <1>8, <2>2 DEF LogsReply, Hook, Counted
    <3>2. hook'.from[1] = current' /\ hook'.from[2] = query'
      BY <1>1, <3>1
    <3>3. Pages(hook.from[1], hook.from[2])' = Pages(current, query)
      BY <1>4, <3>2 DEF Pages, Matching
    <3>4. query.status = "all" => load.total <= Pages(current, query)
      BY <3>1 DEF PageInv
    <3>5. query.status = "all" /\ ~adrift /\ ~resetting =>
            Fits(query.page, Pages(current, query)) /\ Fits(query.page, load.total)
      BY <1>1, <3>1 DEF PageInv
    <3> QED  BY <1>1, <1>4, <2>1, <3>1, <3>2, <3>3, <3>4, <3>5 DEF PageInv
  <2>3. CASE load.state # "ok"
    <3>1. hook'.total = hook.total /\ hook'.from = hook.from
      BY <1>1, <1>8, <2>3 DEF LogsReply, Hook
    <3>2. SameList' <=> SameList
      BY <1>1, <3>1 DEF SameList
    <3>3. hook'.from # None /\ hook'.from[2].status = "all" =>
            hook'.total <= Pages(hook.from[1], hook.from[2])'
      BY <1>2, <1>3, <3>1 DEF PageInv
    <3>4. query.status = "all" /\ ~adrift /\ ~resetting =>
            /\ Fits(query.page, Pages(current, query))
            /\ SameList => Fits(query.page, hook.total)
      BY <1>1 DEF PageInv
    <3> QED  BY <1>1, <1>4, <2>1, <3>1, <3>2, <3>3, <3>4 DEF PageInv
  <2> QED  BY <2>2, <2>3
<1> QED  BY <1>6, <1>7, <1>8

\* Messages arrive and change their status while the list is open.
LEMMA ServerPage ==
    ASSUME LogsInv, PageInv, ServerStep
    PROVE  PageInv'
<1>1. /\ UNCHANGED <<current, query, resetting, hook, load, adrift>>
      /\ LogsTypeOK /\ LogsTypeOK' /\ (\A o \in Orgs : count[o] <= count'[o])
      /\ query \in Query /\ query.page \in Nat /\ current \in Orgs \cup {None}
      /\ hook \in Hook /\ load \in Load \cup {None}
  BY ServerStepsInv DEF ServerStep, Arrive, Update, LogsInv, LogsTypeOK, Query, Hook, Load
<1>2. ASSUME NEW o \in Orgs, NEW q \in Query, q.status = "all"
      PROVE  /\ Pages(o, q) \in Nat /\ Pages(o, q)' \in Nat
             /\ Pages(o, q) <= Pages(o, q)'
  BY <1>1, <1>2, ListsGrow
<1>3. (SameList' <=> SameList) /\ (Counted' <=> Counted)
  BY <1>1 DEF SameList, Counted
<1>4. hook.from # None => hook.from[1] \in Orgs /\ hook.from[2] \in Query
  BY DEF LogsInv, LogsTypeOK
<1>5. ASSUME hook.from # None, hook.from[2].status = "all"
      PROVE  hook.total <= Pages(hook.from[1], hook.from[2])'
  <2>1. PICK o \in Orgs, q \in Query : o = hook.from[1] /\ q = hook.from[2]
    BY <1>4, <1>5
  <2>2. hook.total <= Pages(o, q) /\ hook.total \in Nat
    BY <1>1, <1>5, <2>1 DEF PageInv, Hook
  <2>3. hook.total <= Pages(o, q)'
    BY <1>2, <1>5, <2>1, <2>2
  <2>4. o = hook'.from[1] /\ q = hook'.from[2]
    BY <1>1, <2>1
  <2> QED  BY <2>3, <2>4
<1>6. ASSUME query.status = "all", current # None
      PROVE  /\ Pages(current, query) \in Nat /\ Pages(current, query)' \in Nat
             /\ Pages(current, query) <= Pages(current, query)'
  <2>1. PICK o \in Orgs, q \in Query : o = current /\ q = query
    BY <1>1, <1>6
  <2>2. o = current' /\ q = query'
    BY <1>1, <2>1
  <2>3. Pages(o, q) \in Nat /\ Pages(o, q)' \in Nat /\ Pages(o, q) <= Pages(o, q)'
    BY <1>2, <1>6, <2>1
  <2> QED  BY <2>1, <2>2, <2>3
<1>7. query.status = "all" /\ Counted => load.total <= Pages(current, query)'
  <2>1. Counted => load.total \in Nat /\ current # None
    BY <1>1, LogsAssumption DEF LogsInv, ListInv, Load, Counted
  <2> QED  BY <1>6, <2>1 DEF PageInv
<1>8. query.status = "all" /\ ~adrift /\ ~resetting /\ current # None =>
        Fits(query.page, Pages(current, query)')
  BY <1>1, <1>6 DEF PageInv, Fits
<1>9. query.status = "all" /\ ~adrift /\ ~resetting =>
        /\ Counted => Fits(query.page, load.total)
        /\ SameList => Fits(query.page, hook.total)
  BY DEF PageInv
<1>10. current = None => query.page = 1 /\ hook.total = 1
  BY DEF PageInv
<1> QED  BY <1>1, <1>3, <1>5, <1>7, <1>8, <1>9, <1>10 DEF PageInv

LEMMA StepPage == LogsInv /\ ResetInv /\ PageInv /\ [LogsNext]_logVars => PageInv'
<1> SUFFICES ASSUME LogsInv, ResetInv, PageInv, [LogsNext]_logVars PROVE PageInv'
  OBVIOUS
<1>1. CASE Queries
  BY <1>1, QueriesPage
<1>2. CASE CountLogs \/ SelectLogs \/ LogsReply
  BY <1>2, ReplyPage
<1>3. CASE ServerStep
  BY <1>3, ServerPage
<1>4. CASE UNCHANGED <<count, status, current, query, resetting, hook, load, adrift>>
  BY <1>4 DEF PageInv, SameList, Counted, Pages, Matching
<1>5. CASE \/ \E text \in Texts : setSearch(text)
           \/ \E m \in Msgs \cap Openable : openDetail(m)
           \/ closeDetail \/ ServeDetail \/ DetailReply
           \/ UNCHANGED logVars
  BY <1>4, <1>5 DEF setSearch, openDetail, closeDetail, ServeDetail, DetailReply, logVars,
                    serverVars, sheetVars
<1> QED  BY <1>1, <1>2, <1>3, <1>5 DEF LogsNext, Queries, ServerStep

\* The list of all messages, searched or not, never stands beyond its last page,
\* whatever arrives or changes its status between the count, the rows and the
\* answer, unless its page number is being reset or was chosen for another list.
THEOREM LogsPage == LogsSpec => []PageExists
<1>1. LogsInv /\ PageInv => PageExists
  <2> SUFFICES ASSUME LogsInv, PageInv, query.status = "all",
                      hook.from = <<current, query>>, ~adrift, ~resetting
               PROVE  query.page = 1 \/ query.page <= hook.total
    BY DEF PageExists
  <2>1. CASE current = None
    BY <2>1 DEF PageInv
  <2>2. CASE current # None
    <3>1. query \in Query /\ current \in Orgs
      BY <2>2 DEF LogsInv, LogsTypeOK
    <3>2. hook.from # None
      BY <3>1, NoneAssumption
    <3>3. [query EXCEPT !.page = query.page] = query
      BY <3>1 DEF Query
    <3>4. SameList
      BY <3>2, <3>3 DEF SameList
    <3> QED  BY <3>4 DEF PageInv, Fits
  <2> QED  BY <2>1, <2>2
<1> QED  BY <1>1, LogsInvariant, InitPage, StepPage, PTL DEF LogsSpec
=============================================================================
