------------------------------ MODULE OrgPages ------------------------------
(***************************************************************************)
(* The dashboard pages of one browser tab that show the data of an         *)
(* organization: overview, API keys, members, settings, and the            *)
(* playground. One page is mounted at a time; its hook loads the data of   *)
(* the current organization and its handlers change it on the server.      *)
(*                                                                         *)
(* A load is cancelled by the cleanup of its effect: its answer is then    *)
(* ignored, so a cancelled load is simply forgotten. The requests of the   *)
(* handlers (create, revoke, invite, cancel, rotate, send) have no such    *)
(* guard: they live in `ops' until answered, and are only orphaned when    *)
(* their page is unmounted: what the server does for them still counts,    *)
(* and their answers, which nobody looks at, are forgotten. Lists are sets *)
(* of rows: their order and the text of their columns are left out.        *)
(*                                                                         *)
(* A request names the organization of localStorage, which the tabs of the *)
(* browser share, and not the one of this tab: another tab may have        *)
(* selected another one, or none, in the meantime.                         *)
(***************************************************************************)
EXTENDS FiniteSets

CONSTANTS
    Orgs,      \* the organizations of the signed-in user
    Admin,     \* those in which the user is an admin
    Ids,       \* identifiers the server gives to rows
    Start,     \* the rows that the server starts with
    Slots,     \* bounds the number of handler requests in flight
    Elsewhere, \* what another tab may select
    None

Kinds == {"message", "key", "invitation", "secret"}

\* A row of the server; "open" is the status of an invitation (still pending).
Row == [id : Ids, org : Orgs, open : BOOLEAN]

ASSUME PagesAssumption ==
    /\ None \notin Orgs \cup Row
    /\ Admin \subseteq Orgs
    /\ Elsewhere \subseteq Orgs \cup {None}
    /\ Start \in [Kinds -> SUBSET Row]
    /\ \A k, l \in Kinds : \A q \in Start[k], r \in Start[l] : q.id = r.id => q = r
    /\ \A k \in Kinds \ {"invitation"} : \A r \in Start[k] : r.open
    /\ \A o \in Orgs : \E r \in Start["secret"] : r.org = o

VARIABLES
    rows,      \* the server's tables: per kind, a set of rows
    owner,     \* the organization for whose row an identifier was given, or None
    current,   \* currentOrg of the OrgProvider
    header,    \* selected_org of localStorage, sent as X-Org-ID
    elsewhere, \* observer: another tab wrote header after this one did
    route,     \* the mounted page
    hook,      \* the state of the mounted page and its hook
    load,      \* the load that is in flight and not cancelled, or None
    ops        \* the handler requests in flight

server == <<rows, owner>>
stored == <<header, elsewhere>>
pageVars == <<rows, owner, current, header, elsewhere, route, hook, load, ops>>

\* What the hook of each page loads. The playground loads nothing.
KindOf == [overview |-> "message", keys |-> "key", members |-> "invitation",
           settings |-> "secret"]

Routes == DOMAIN KindOf \cup {"playground"}
AdminRoutes == {"members", "settings"}

Listing(k, o) == {r \in rows[k] : r.org = o}

\* view is the organization that the effect ran for, org the one in the header;
\* foreign is `elsewhere' when the request went out.
Load == [view : Orgs, org : Orgs \cup {None}, foreign : BOOLEAN, state : {"sent", "ok"},
         data : SUBSET Row]

Op == [op : {"createKey", "removeKey", "sendInvitation", "cancelInv", "rotate", "send"},
       org : Orgs \cup {None}, arg : Row \cup {None}, home : BOOLEAN,
       state : {"sent", "ok", "failed"}, row : Row \cup {None}]

ASSUME NoneAssumption == None \notin Load \cup Op

\* busy is isCreating, isSending, isRotating or the playground's isLoading;
\* fresh is newlyCreatedKey or the playground's response. The last three
\* fields are observers: the organization whose load filled items, the rows
\* that a handler added for another one or that were loaded while another tab
\* had selected it, and whether a request failed, a handler's request
\* overlapped the load, or another tab had changed what a request named.
Hook == [items : SUBSET Row, loading : BOOLEAN, error : BOOLEAN, busy : BOOLEAN,
         fresh : Row \cup {None}, from : Orgs \cup {None}, late : SUBSET Row,
         raced : BOOLEAN]

PagesTypeOK ==
    /\ rows \in [Kinds -> SUBSET Row]
    /\ owner \in [Ids -> Orgs \cup {None}]
    /\ current \in Orgs \cup {None}
    /\ header \in Orgs \cup {None}
    /\ elsewhere \in BOOLEAN
    /\ route \in Routes
    /\ hook \in Hook
    /\ load \in Load \cup {None}
    /\ ops \in [Slots -> Op \cup {None}]

InFlight == {s \in Slots : ops[s] # None}

-----------------------------------------------------------------------------
(* Mounting a page and running the effect of its hook.                     *)

useDashboardStats == [items |-> {}, loading |-> TRUE, error |-> FALSE, busy |-> FALSE,
                      fresh |-> None, from |-> None, late |-> {}, raced |-> InFlight # {}]
useApiKeys == useDashboardStats
useInvitations == useDashboardStats
useSigningSecret == useDashboardStats
usePlayground == [useDashboardStats EXCEPT !.loading = FALSE]

Mounted(r) == [overview |-> useDashboardStats, keys |-> useApiKeys,
               members |-> useInvitations, settings |-> useSigningSecret,
               playground |-> usePlayground][r]

\* Mutant of Fetch: the effect does not look whether there is an organization.
FetchAnywayMutant(r, o) ==
    IF r \notin DOMAIN KindOf THEN None
    ELSE [view |-> o, org |-> header', foreign |-> elsewhere', state |-> "sent", data |-> {}]

\* The request of the effect, which runs after the handler that caused it: none
\* without an organization. It names the one that localStorage has then.
Fetch(r, o) ==
    IF o = None \/ r \notin DOMAIN KindOf THEN None
    ELSE [view |-> o, org |-> header', foreign |-> elsewhere', state |-> "sent", data |-> {}]

\* The effect runs again after a change of currentOrg.id.
Reloading(h, r) ==
    IF r \notin DOMAIN KindOf THEN h
    ELSE [h EXCEPT !.loading = TRUE, !.error = FALSE, !.raced = InFlight # {}]

\* The page goes: its requests that the server has not handled yet go on alone.
Orphaned == [s \in Slots |-> IF s \in InFlight /\ ops[s].state = "sent"
                             THEN [ops[s] EXCEPT !.home = FALSE] ELSE None]

PagesInit ==
    /\ rows = Start
    /\ owner = [i \in Ids |-> IF \E k \in Kinds : \E r \in Start[k] : r.id = i
                              THEN (CHOOSE r \in UNION {Start[k] : k \in Kinds} : r.id = i).org
                              ELSE None]
    /\ current = None
    /\ header = None
    /\ elsewhere = FALSE
    /\ route = "overview"
    /\ hook = [items |-> {}, loading |-> TRUE, error |-> FALSE, busy |-> FALSE,
               fresh |-> None, from |-> None, late |-> {}, raced |-> FALSE]
    /\ load = None
    /\ ops = [s \in Slots |-> None]

\* AdminRoute: the admin pages are for the admins of the current organization.
AdminRoute(r, o) == r \in AdminRoutes => o \in Admin

\* The links of the sidebar.
DashboardSidebar == {r \in Routes : AdminRoute(r, current)}

\* Mutant of switchOrg: the load of the previous organization is not cancelled.
StaleLoadMutant(o) ==
    /\ o # current
    /\ current' = o
    /\ header' = o
    /\ elsewhere' = FALSE
    /\ IF ~AdminRoute(route, o)
       THEN /\ route' = "overview"
            /\ hook' = useDashboardStats
            /\ ops' = Orphaned
       ELSE /\ hook' = Reloading(hook, route)
            /\ UNCHANGED <<route, ops>>
    /\ load' = IF route' = route /\ load # None THEN load ELSE Fetch(route', o)
    /\ UNCHANGED server

\* Mutant of switchOrg: the choice is not written to localStorage.
NotStoredMutant(o) ==
    /\ o # current
    /\ current' = o
    /\ header' = header
    /\ elsewhere' = FALSE
    /\ IF ~AdminRoute(route, o)
       THEN /\ route' = "overview"
            /\ hook' = useDashboardStats
            /\ ops' = Orphaned
       ELSE /\ hook' = Reloading(hook, route)
            /\ UNCHANGED <<route, ops>>
    /\ load' = Fetch(route', o)
    /\ UNCHANGED server

\* The organizations arrive, or the user picks another one.
switchOrg(o) ==
    /\ o # current
    /\ current' = o
    /\ header' = o
    /\ elsewhere' = FALSE
    /\ IF ~AdminRoute(route, o)
       THEN /\ route' = "overview"
            /\ hook' = useDashboardStats
            /\ ops' = Orphaned
       ELSE /\ hook' = Reloading(hook, route)
            /\ UNCHANGED <<route, ops>>
    /\ load' = Fetch(route', o)
    /\ UNCHANGED server

\* The user picks the current organization again: only localStorage changes.
PickAgain ==
    /\ current # None
    /\ stored # <<current, FALSE>>
    /\ header' = current
    /\ elsewhere' = FALSE
    /\ UNCHANGED <<rows, owner, current, route, hook, load, ops>>

\* Another tab of the browser selects an organization, or logs out.
OtherTab(o) ==
    /\ o # header
    /\ header' = o
    /\ elsewhere' = (o # current)
    /\ UNCHANGED <<rows, owner, current, route, hook, load, ops>>

Visit(r) ==
    /\ r # route
    /\ r \in DashboardSidebar
    /\ UNCHANGED <<rows, owner, current, header, elsewhere>>
    /\ route' = r
    /\ hook' = Mounted(r)
    /\ load' = Fetch(r, current)
    /\ ops' = Orphaned

\* ValidateOrgAccess, and RequireAdmin for the admin pages, check the header.
ServeLoad ==
    /\ load # None
    /\ load.state = "sent"
    /\ load.org # None
    /\ AdminRoute(route, load.org)
    /\ load' = [load EXCEPT !.state = "ok", !.data = Listing(KindOf[route], load.org)]
    /\ UNCHANGED <<rows, owner, current, header, elsewhere, route, hook, ops>>

\* The awaited answer.
LoadReply ==
    /\ load # None
    /\ load.state = "ok"
    /\ hook' = [hook EXCEPT !.items = load.data, !.loading = FALSE, !.from = load.view,
                            !.late = IF load.foreign THEN load.data ELSE {},
                            !.raced = @ \/ load.foreign]
    /\ load' = None
    /\ UNCHANGED <<rows, owner, current, header, elsewhere, route, ops>>

\* Mutant of LoadFails: isLoading is reset on success only.
LoadHangsMutant ==
    /\ load # None
    /\ load.state = "sent"
    /\ hook' = [hook EXCEPT !.error = TRUE, !.raced = TRUE]
    /\ load' = None
    /\ UNCHANGED <<rows, owner, current, header, elsewhere, route, ops>>

\* The load is refused, or fails on the way there or back: the error is set and
\* the old items stay.
LoadFails ==
    /\ load # None
    /\ load.state = "sent"
    /\ hook' = [hook EXCEPT !.error = TRUE, !.loading = FALSE, !.raced = TRUE]
    /\ load' = None
    /\ UNCHANGED <<rows, owner, current, header, elsewhere, route, ops>>

-----------------------------------------------------------------------------
(* What the pages show and enable. An error is shown beside the list that  *)
(* is still held, but in the place of the signing secret.                  *)

Listed == IF hook.loading THEN {} ELSE hook.items

OverviewPage == Listed
ApiKeysPage == Listed
MembersPage == Listed
SettingsPage == IF hook.error THEN {} ELSE Listed

\* The forms and the button of the playground are disabled by their request.
ApiKeyForm == route = "keys" /\ ~hook.busy
InviteForm == route = "members" /\ ~hook.busy
RequestPanel == route = "playground" /\ ~hook.busy

NewKeyBanner == IF route = "keys" THEN hook.fresh ELSE None
ResponsePanel == [error |-> hook.error, response |-> hook.fresh]

\* The rows on the screen.
Screen == [overview |-> OverviewPage, keys |-> ApiKeysPage, members |-> MembersPage,
           settings |-> SettingsPage, playground |-> {}][route]

-----------------------------------------------------------------------------
(* The handlers of the pages: the request goes out.                        *)

Request(s, op, arg) ==
    /\ ops[s] = None
    /\ ops' = [ops EXCEPT ![s] = [op |-> op, org |-> header, arg |-> arg, home |-> TRUE,
                                  state |-> "sent", row |-> None]]
    /\ UNCHANGED <<rows, owner, current, header, elsewhere, route, load>>

\* A handler clears the error; `busy' disables its button.
Busy(h) == [h EXCEPT !.busy = TRUE, !.error = FALSE, !.raced = @ \/ load # None \/ elsewhere]
Asking(h) == [h EXCEPT !.error = FALSE, !.raced = @ \/ load # None \/ elsewhere]

createKey(s) ==
    /\ ApiKeyForm
    /\ Request(s, "createKey", None)
    /\ hook' = Busy(hook)

removeKey(s, r) ==
    /\ route = "keys"
    /\ r \in ApiKeysPage
    /\ Request(s, "removeKey", r)
    /\ hook' = Asking(hook)

clearNewKey ==
    /\ NewKeyBanner # None
    /\ hook' = [hook EXCEPT !.fresh = None]
    /\ UNCHANGED <<rows, owner, current, header, elsewhere, route, load, ops>>

sendInvitation(s) ==
    /\ InviteForm
    /\ Request(s, "sendInvitation", None)
    /\ hook' = Busy(hook)

cancelInv(s, r) ==
    /\ route = "members"
    /\ r \in MembersPage
    /\ r.open
    /\ Request(s, "cancelInv", r)
    /\ hook' = Asking(hook)

rotate(s) ==
    /\ route = "settings"
    /\ SettingsPage # {}
    /\ ~hook.busy
    /\ Request(s, "rotate", None)
    /\ hook' = Busy(hook)

\* The playground sends with an API key that the user pasted.
handleSend(s, key) ==
    /\ RequestPanel
    /\ Request(s, "send", key)
    /\ hook' = [Busy(hook) EXCEPT !.fresh = None]

\* Mutant of handleSendInvalid: the last response is not cleared.
KeepResponseMutant ==
    /\ RequestPanel
    /\ hook' = [hook EXCEPT !.error = TRUE]
    /\ UNCHANGED <<rows, owner, current, header, elsewhere, route, load, ops>>

\* A field of the form is missing or is not JSON.
handleSendInvalid ==
    /\ RequestPanel
    /\ hook' = [hook EXCEPT !.error = TRUE, !.fresh = None]
    /\ UNCHANGED <<rows, owner, current, header, elsewhere, route, load, ops>>

-----------------------------------------------------------------------------
(* The server handles a request. Its answer may be lost on the way. A      *)
(* request that it refuses changes nothing there.                          *)

Handling(s, op) ==
    /\ ops[s] # None
    /\ ops[s].op = op
    /\ ops[s].state = "sent"
    /\ UNCHANGED <<current, header, elsewhere, route, hook, load>>

Answer(s, row) ==
    \E out \in {"ok", "failed"} :
        ops' = [ops EXCEPT ![s] = IF @.home THEN [@ EXCEPT !.state = out, !.row = row]
                                            ELSE None]

\* A row of the organization o gets a new identifier, in the place of old ones.
Insert(s, k, o, old) ==
    \E i \in {j \in Ids : owner[j] = None} :
        LET r == [id |-> i, org |-> o, open |-> TRUE] IN
        /\ rows' = [rows EXCEPT ![k] = (@ \ old) \cup {r}]
        /\ owner' = [owner EXCEPT ![i] = o]
        /\ Answer(s, r)

ApiKeyCreate(s) ==
    /\ Handling(s, "createKey")
    /\ ops[s].org # None
    /\ Insert(s, "key", ops[s].org, {})

\* The row is found by its identifier, whatever organization the request names.
ApiKeyDelete(s) ==
    /\ Handling(s, "removeKey")
    /\ ops[s].org # None
    /\ ops[s].arg \in rows["key"]
    /\ rows' = [rows EXCEPT !["key"] = @ \ {ops[s].arg}]
    /\ Answer(s, None)
    /\ UNCHANGED owner

\* An old invitation of the same address is in the way unless it is closed: the
\* new one then takes its place.
CreateInvitation(s) ==
    /\ Handling(s, "sendInvitation")
    /\ ops[s].org \in Admin
    /\ LET closed == {r \in Listing("invitation", ops[s].org) : ~r.open} IN
       \E old \in {{}} \cup {{r} : r \in closed} :
          Insert(s, "invitation", ops[s].org, old)

\* The row stays, with the status "cancelled", and must be one of this
\* organization, cancelled already or not.
CancelInvitation(s) ==
    /\ Handling(s, "cancelInv")
    /\ ops[s].org \in Admin
    /\ LET closed == [ops[s].arg EXCEPT !.open = FALSE] IN
       /\ Listing("invitation", ops[s].org) \cap {ops[s].arg, closed} # {}
       /\ rows' = [rows EXCEPT !["invitation"] = (@ \ {ops[s].arg}) \cup {closed}]
       /\ Answer(s, None)
    /\ UNCHANGED owner

RotateSigningSecret(s) ==
    /\ Handling(s, "rotate")
    /\ ops[s].org \in Admin
    /\ Insert(s, "secret", ops[s].org, Listing("secret", ops[s].org))

\* The message goes to the organization of the API key.
SendWebhook(s) ==
    /\ Handling(s, "send")
    /\ ops[s].arg \in rows["key"]
    /\ Insert(s, "message", ops[s].arg.org, {})

ServeOp(s) ==
    \/ ApiKeyCreate(s)
    \/ ApiKeyDelete(s)
    \/ CreateInvitation(s)
    \/ CancelInvitation(s)
    \/ RotateSigningSecret(s)
    \/ SendWebhook(s)

-----------------------------------------------------------------------------
(* The awaited answer reaches the handler. Nothing checks that the page    *)
(* still shows the organization the request was made for.                  *)

Late(r) == IF r.org = hook.from THEN {} ELSE {r}

Prepended(h, r) == [h EXCEPT !.items = @ \cup {r}, !.busy = FALSE, !.late = @ \cup Late(r)]

Without(rs, i) == {r \in rs : r.id # i}

\* Mutant of Done: a cancelled invitation stays in the list as a pending one.
KeepCancelledMutant(h, q) ==
    CASE q.op = "createKey" -> [Prepended(h, q.row) EXCEPT !.fresh = q.row]
      [] q.op = "removeKey" -> [h EXCEPT !.items = Without(@, q.arg.id)]
      [] q.op = "sendInvitation" -> Prepended(h, q.row)
      [] q.op = "cancelInv" -> h
      [] q.op = "rotate" -> [h EXCEPT !.items = {q.row}, !.busy = FALSE, !.late = Late(q.row)]
      [] q.op = "send" -> [h EXCEPT !.fresh = q.row, !.busy = FALSE]

Done(h, q) ==
    CASE q.op = "createKey" -> [Prepended(h, q.row) EXCEPT !.fresh = q.row]
      [] q.op = "removeKey" -> [h EXCEPT !.items = Without(@, q.arg.id)]
      [] q.op = "sendInvitation" -> Prepended(h, q.row)
      [] q.op = "cancelInv" -> [h EXCEPT !.items = Without(@, q.arg.id)]
      [] q.op = "rotate" -> [h EXCEPT !.items = {q.row}, !.busy = FALSE, !.late = Late(q.row)]
      [] q.op = "send" -> [h EXCEPT !.fresh = q.row, !.busy = FALSE]

\* Mutant of Failed: the button stays disabled after an error.
StayBusyMutant(h, q) == [h EXCEPT !.error = TRUE, !.raced = TRUE]

\* Only the handlers that set `busy' clear it.
Failed(h, q) ==
    [h EXCEPT !.error = TRUE, !.raced = TRUE,
              !.busy = IF q.op \in {"removeKey", "cancelInv"} THEN @ ELSE FALSE]

OpReply(s) ==
    /\ ops[s] # None
    /\ ops[s].state = "ok"
    /\ hook' = Done(hook, ops[s])
    /\ ops' = [ops EXCEPT ![s] = None]
    /\ UNCHANGED <<rows, owner, current, header, elsewhere, route, load>>

\* The request is refused, or fails on the way there, or its answer is lost.
OpFails(s) ==
    /\ ops[s] # None
    /\ ops[s].state # "ok"
    /\ hook' = IF ops[s].home THEN Failed(hook, ops[s]) ELSE hook
    /\ ops' = [ops EXCEPT ![s] = None]
    /\ UNCHANGED <<rows, owner, current, header, elsewhere, route, load>>

-----------------------------------------------------------------------------

Handler(s) ==
    \/ createKey(s)
    \/ \E r \in hook.items : removeKey(s, r) \/ cancelInv(s, r)
    \/ sendInvitation(s)
    \/ rotate(s)
    \/ \E r \in rows["key"] : handleSend(s, r)

PagesNext ==
    \/ \E o \in Orgs : switchOrg(o)
    \/ PickAgain
    \/ \E o \in Elsewhere : OtherTab(o)
    \/ \E r \in Routes : Visit(r)
    \/ ServeLoad
    \/ LoadReply
    \/ LoadFails
    \/ clearNewKey
    \/ handleSendInvalid
    \/ \E s \in Slots : Handler(s) \/ ServeOp(s) \/ OpReply(s) \/ OpFails(s)

PagesSpec == PagesInit /\ [][PagesNext]_pageVars

\* fetch always settles, with an answer or an error, and the event loop runs
\* the code that awaits it. The user is under no obligation.
PagesFairness == WF_pageVars(LoadReply \/ LoadFails)

PagesFairSpec == PagesSpec /\ PagesFairness

-----------------------------------------------------------------------------
(* Properties.                                                             *)

\* The cancelled flags of the four loading hooks (use-dashboard-stats.ts,
\* use-api-keys.ts, use-invitations.ts, use-signing-secret.ts): all rows of a
\* list are of the organization whose load filled it, except those a handler
\* added, which are of the organization that localStorage had when the user
\* asked for them, and except a list that was loaded while another tab had
\* selected another organization (api-client.ts reads what the tabs share).
ForeignRowsAreLate ==
    \A r \in hook.items : r.org # hook.from => r \in hook.late

\* The handlers keep the list they show equal to the server's by adding,
\* removing and replacing rows themselves (use-api-keys.ts createKey and
\* removeKey, use-invitations.ts, use-signing-secret.ts rotate). With nothing
\* in flight it is the server's list, unless a request failed, a handler's
\* request overlapped the load or another tab changed the organization that a
\* request named.
Converged ==
    LET quiet == load = None /\ InFlight = {} IN
    (quiet /\ route \in DOMAIN KindOf /\ current # None /\ hook.from = current
           /\ ~hook.raced)
        => {r \in Screen : r.open} = {r \in Listing(KindOf[route], current) : r.open}

\* handleSend (playground-page.tsx) disables its button and clears what the
\* panel shows before it asks: the panel has the outcome of one request only,
\* an error or a response and never both.
OneOutcome ==
    (route = "playground" /\ ResponsePanel.error) => ResponsePanel.response = None

\* A page shows what was loaded for the organization that its tab has
\* selected, and nothing that was loaded for an earlier one: the effects with
\* their cancelled flags implement LoadView.
View == INSTANCE LoadView WITH
            Keys <- Orgs \cup {None},
            key <- current,
            shown <- IF hook.loading THEN None ELSE hook.from,
            held <- hook.from

ShowsWhatItLoaded == View!Spec

\* The finally blocks of the hooks: a page with an organization does not show
\* its placeholder for ever, whether its load succeeds or fails, unless the
\* user keeps moving on before the answers come.
LoadingEnds ==
    \/ []<>(~hook.loading \/ current = None)
    \/ []<><<current' # current \/ route' # route>>_pageVars

\* The finally blocks of the handlers, and isLoading of the playground: a
\* button is disabled only while the page awaits a request of that button, so
\* that it becomes usable again when fetch settles, whatever the answer is,
\* which other requests overlap and whether the organization has changed.
Disabling == {"createKey", "sendInvitation", "rotate", "send"}

BusyIsAwaited ==
    hook.busy => \E s \in InFlight : ops[s].home /\ ops[s].op \in Disabling
=============================================================================
