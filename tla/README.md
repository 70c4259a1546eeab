# A TLA+ verification of Chis

Chis is a webhook delivery service: a client posts a message to the API, Chis
stores it, calls the customer's endpoint, retries with exponential back-off and
gives up after a number of failures. This directory holds TLA+ models of its
code, of the server and of the web client, the TLC configurations that check them on
small instances, and theorems that TLAPS proves for every instance. `PROJECT.json` maps every definition to the
source lines it models and lists runs, mutants, findings, hazards and theorems.

## 1. The system

### Components, their state and their operations

| component | source | state | operations |
|---|---|---|---|
| API: webhook handler | `internal/handler/webhook.go` | none | `Send`: validate, call the Delivery service over gRPC |
| Delivery service | `internal/delivery/service.go` | none | `QueueMessage`: INSERT the message, LPUSH its id |
| Redis queue | `internal/queue/` | one list of message ids | `Push` (LPUSH), `Pop` (BRPOP) |
| Worker | `internal/worker/worker.go` | a copy of one message | pop, read the row, sign, call the endpoint, log the attempt, write the outcome |
| Scheduler | `internal/scheduler/scheduler.go` | a batch of rows | every 5 s: read up to 10 due retries; per row push its id, then write the row back as `pending` |
| Message, attempt repositories | `internal/repository/message.go`, `delivery.go` | tables `messages`, `delivery_attempts` | insert, find, two kinds of UPDATE, the retry query |
| Organizations | `internal/handler/organization.go` | table `organizations` with the signing secret | create, list, delete (cascades), rotate the secret |
| Rate limiter | `internal/middleware/ratelimit.go` | a Redis counter per address and minute | INCR, EXPIRE |
| Authorization | `internal/middleware/{auth,org,admin,apikey}.go` | none | token, membership, role and key checks before a handler |
| Invitations | `internal/handler/invitation.go` | table `invitations` | create, cancel, accept, decline, expiry |
| Accounts, API keys | `internal/handler/{auth,apikey}.go` | tables `users`, `accounts`, `memberships`, `api_keys` | register, log in, create and revoke keys |
| Dashboard queries | `internal/handler/dashboard.go`, `FindWebhookLogs` of `repository/message.go` | none | statistics, a page of the filtered messages, one message |
| Web session | `web/src/shared/context`, `shared/api`, `features/auth`, `features/invite`, the organization switcher and the invitations dialog | in localStorage (per browser): token, selected organization; in React (per tab): user, list of organizations, current one | register, log in and out, load, switch, create, join and delete organizations |
| Dashboard pages | `web/src/features/dashboard/{hooks,pages}` | per mounted page: loaded rows, loading, error, busy flags | load on mount and on a change of organization; create, revoke, invite, cancel, rotate, send |
| Logs page | `use-webhook-logs.ts`, `use-webhook-log-detail.ts`, `logs-page.tsx` | page number, filter, search text, rows, open message | filter, debounced search, page, open and close a message |

The rest (e-mail, metrics, logging, validation, start-up, generated gRPC code, the UI
component library, marketing site, manifests) keeps no state a property is about;
`PROJECT.json` lists each part with the reason.

### Interaction

A message lives twice: its row is in PostgreSQL and its id travels through Redis.
`QueueMessage` writes both, without a transaction around them. A worker removes
the id with BRPOP and then holds it only in memory; the row does not say that a
delivery is in progress. When a request fails, the worker writes `retry` and a
time into the row, and the id is nowhere; the scheduler finds the row again and
pushes the id. Workers never look at `status`: whoever has the id delivers. So
everything depends on one informal rule, *a message has at most one id in
circulation and has one exactly while it is `pending`*, which no line of the code
enforces.

The web client keeps copies. Every request takes its token and its organization from
localStorage at the moment it is sent, while the screen shows React state; the two are
written together in one tab, but all tabs share the former. A hook loads its rows in an
effect whose cleanup sets a `cancelled` flag, so that a late answer is ignored; handlers
have no such flag and edit the loaded rows themselves when their request succeeds,
without loading again. `OrgProvider` does the same with the list of organizations, and
its load has no flag either.

### What is hard, and what correctness means

* Interleaving: the scheduler pushes an id before it marks the row, and marks it
  with values read earlier; workers run concurrently; several schedulers may run.
* Partial failure: the errors of the push, of the INSERT of an attempt and of
  every UPDATE are ignored; a process may die between any two calls; Redis has no
  volume and restarts empty.
* Time: due retries are compared with the clock; back-off is `1 << AttemptCount`.
* Deletion and rotation happen while ids are queued or in a worker's hands.
* The handlers of invitations, registration and organizations are sequences of statements
  without a transaction, with unconditional UPDATEs, and several requests run at a time.
* In a tab, loads, requests of handlers, timers and clicks interleave; an answer may come
  after a logout, a switch of organization, a change of page or a second login, and may
  be lost although the server has done what was asked.

Correct means: an endpoint is called by one worker at a time, not again after a
2xx, not before the back-off, and at most `MaxAttempts + 1` times; the log and the
final status tell what happened; what is deleted stays deleted; every accepted
message is eventually tried and settled. An invitation says `accepted` only
if its addressee is a member; a member was invited in that role or founded the
organization, and keeps that role; a cancelled invitation lets nobody in; a deleted
organization is empty. A
successful registration is complete; a request names the organization on the screen of the
tab that selected it; a screen shows the rows of the organization and the query it names,
or says that it failed; what a handler did to a list is what the server did; placeholders
and disabled buttons do not stay.

## 2. The modules

| module | content |
|---|---|
| `Delivery` | the pipeline without faults, and its properties |
| `DeliveryFaults` | extends it with the failures of each call |
| `DeliveryContract` | abstract: the sequence of requests an endpoint may see |
| `MCDelivery`, `MCDeliveryFaults` | instances for TLC |
| `DeliveryProofs` | types and the counting invariant; deletion and rotation |
| `DeliveryFaultsProofs` | the same under faults, and what follows |
| `DeliveryTokenProofs` | the token invariant with one scheduler, and what follows |
| `DeliveryContractProofs` | with one scheduler: the pipeline implements `DeliveryContract`; the log, the final status |
| `Invitations` | invitations, the checks before their handlers, deletion of an organization |
| `MCInvitations` | instances for TLC |
| `InvitationsProofs` | the invariant of invitations and memberships, and what follows |
| `WebSession` | tabs, localStorage, accounts and organizations |
| `OrgPages` | the pages of one tab that show the data of an organization |
| `WebhookLogs` | the logs page of one tab |
| `LoadView` | abstract: what a page that loads its data may show |
| `MCSession`, `MCOrgPages`, `MCWebhookLogs` | instances for TLC |
| `WebSessionProofs` | the invariant of session, list and server, and what follows |
| `OrgPagesProofs`, `WebhookLogsProofs` | the invariants of the pages, and that they implement `LoadView` |

### `Delivery`

State: `message[m]` is the row (status, attempt_count, next_retry_at; `"absent"`
before INSERT and after deletion); `attempts[m]` the rows of `delivery_attempts`;
`queue` the Redis list, oldest id first; `wk[w]` the program counter of a worker and
what it remembers (id, the copy's count and retry time, the secret, the result);
`sched[s]` the scheduler's program counter and the unprocessed rest of its batch,
with the columns it read; `api[m]` the progress of the `QueueMessage` call that
submits `m`; `secret[o]` the version of the signing secret, `NULL` once the
organization is deleted; `now`. Four histories are not in the code: `acks`, `fails`
and `sentAt` record completed requests as the endpoint sees them, `clobbered` the
messages hit by a stale scheduler write.

Each call to PostgreSQL, Redis or the endpoint is one action; SQL statements and
Redis commands are atomic, and between two calls of a process anything may happen.

| action | code |
|---|---|
| `CreateMessage`, `PushMessage` | the two halves of `QueueMessage`; the foreign key refuses a deleted organization |
| `Pop`, `FindById` | `Worker.Start`: BRPOP, SELECT; a missing row drops the id |
| `RefuseRequest` | `http.NewRequest` fails: `UpdateStatus(failed)`, nothing is logged |
| `Sign` | `GetSigningSecret`; on its error the request goes out unsigned |
| `Do` | the HTTP call: 2xx, or anything else including the 10 s timeout |
| `CreateAttempt` | the INSERT, refused silently if the message is gone or the body is not text |
| `Settle` | `RecordOutcome`: `success`; or `retry` with count + 1 and the back-off; or `failed` |
| `FetchRetries`, `Requeue`, `MarkPending` | `processRetries`: query, and per row push and UPDATE |
| `RotateSigningSecret`, `DeleteOrg` | the handlers, with the cascade of the foreign keys |
| `Tick` | a second passes |

URLs, payloads, headers and HMACs are left out: a property tells apart only whether
a request can be built (`BadURL`), whether the answer can be stored (`BinaryReply`),
whether it was 2xx, and which secret signed it.

*Time.* `Tick` is enabled only while some row waits for a moment in the future. In
all other states no guard depends on `now` growing, so waiting adds no order of
events; what is due is determined by the rows alone. Workers may take arbitrarily
long with respect to the clock when some retry is waiting.

*Width.* `AttemptCount` is at most `MaxAttempts` (theorem `AttemptCountIsBounded`), so
`1 << AttemptCount` does not overflow and naturals are exact.

### `DeliveryFaults`

Adds one action per way a call can fail, each of a kind that `FaultKinds` switches
on: `push` (LPUSH fails, or is carried out twice because go-redis repeats a command
whose reply was lost), `pop` (BRPOP's reply is lost), `restart` (Redis comes back
empty), `db` (a statement fails, or for the INSERT of a message, is carried out but
reported as failed), `crash` (a process dies and restarts). `faults` counts them up
to `MaxFaults`. A write that succeeds while its reply is lost is, for calls whose
error is ignored, the normal action.

### `DeliveryContract`

Per message: requests come one after the other, none after a 2xx, at most
`MaxAttempts + 1`, and the one after the n-th failure at least 2^(n-1) seconds after
it. It has no queue, rows, workers or schedulers. The refinement mapping is the
identity on `acks`, `fails`, `sentAt` and `now`; `MeetsContract` is the abstract
specification as a property of `Delivery`.

### `Invitations`

Independent of the pipeline: it shares only the deletion of an organization, whose cascade
to messages is in `Delivery` and to memberships and invitations here. State: `org[o]`
whether the row exists; `member[o][u]` the role in `memberships`, or `"none"`; `inv[i]` the
row of `invitations` with its id and token (`"unused"` before INSERT, `"deleted"` after);
`late` the ids whose `expires_at` is over; `call[p]` a request being handled: its step, its
user and what it remembers. Each SQL statement is an action:

| actions | code |
|---|---|
| `RequestCreate` ... `RequestRespond` | the routes; any user may send any request |
| `ValidateOrgAccess`, `RequireAdmin` | the middleware of the routes with an X-Org-ID |
| `CheckInvitee`, `CheckExisting`, `RemoveOld`, `InsertInvitation` | `CreateInvitation` |
| `FindInOrg`, `CancelInvitation` | `CancelInvitation` |
| `FindOrganization`, `DropOrg` | `DeleteOrg`, with the cascade |
| `FindByToken`, `FindByID`, `Expire`, `Decline`, `CheckJoined`, `MarkAlready`, `CreateMembership`, `ConfirmAccept` | `AcceptInvitation`, `RespondToInvitation` |
| `CallFails` | a statement fails or the API process dies |
| `BecomeLate` | seven days are over |

UNIQUE (org_id, email), UNIQUE (user_id, org_id), the foreign keys and the enum
`invitation_status` are guards of the statements they refuse. Reads of the users table
(never updated) and reads for the wording of answers are part of the neighbouring action.
An address that is not registered yet behaves like a user who is no member. A statement
that is carried out although its reply is lost is the normal action followed by
`CallFails`.

### `WebSession`

The tabs of one browser and the server behind them. Server: `stage[u]` how many of the
four inserts of `Register` were made for a user, `joined[u]` the memberships in order,
`exists` and `gone` the organizations, `invites`. Browser: `token`, `selected`
(localStorage). Per tab: `user`, `orgs`, `current` (the contexts), `link` (the page of an
invitation), `dialog` and `asked` (the pending invitations). `reqs` are the requests in
flight with their headers, and `live` whether anything still awaits the answer.

| actions | code |
|---|---|
| `useLogin`, `useRegister`, `LoginReply` with `setAuth`, `logout`, `Open` | `AuthProvider` and the forms; `Open` is a reload of the tab, which starts from localStorage |
| `OrgsReply` with `setOrganizations`, `switchOrg`, `addOrg`, `removeOrg` | `OrgProvider`; the load starts when a tab becomes signed in |
| `handleCreate`, `handleDelete`, `handleRespond`, `JoinReply`, `DeleteReply`, `ErrorReply` | switcher, danger zone, invitations dialog and page |
| `Login`, `Register`, `ListOrgs`, `CreateOrg`, `JoinOrg`, `DeleteOrg`, `Invite` | the handlers; `Register` is one action per INSERT |

A request may fail before, at or after the server's work: a lost answer is the server's
step followed by `ErrorReply`. Nothing is said about *when* a refused request is refused,
because a refusal changes nothing on the server. Two histories are not in the code:
`writer`, the tab that wrote `selected` last, and `skew`, that a tab's requests overlapped
or failed, or that someone else changed its memberships. Tokens do not expire in the
model; an expired token is a request that fails. `handleCreate` allows more than the code:
the button of the dialog is disabled while its request is in flight, but only as long as
the switcher stays mounted, and the model does not follow its mounts. A list is filtered (`removeOrg`, the query
of the memberships) by `Only`, which counts positions instead of recursing as `SelectSeq`
does, so that it can be reasoned about.

### `OrgPages`

One tab, signed in, of a browser that may have others. Server: `rows` per kind (messages,
API keys, invitations, secrets) and `owner`, which identifiers were given, and in which
organization. Client: `current` (the organization on the screen), `header` (`selected_org`
of localStorage, the X-Org-ID of every request), `route` (the mounted page), `hook` (rows,
loading, error, busy, and the new key or the response), `load` (the load in flight), `ops`
(requests of handlers in flight; `home` says that their page is still mounted). When a page
is unmounted, what the server still does for its requests counts, and their answers, which
nobody looks at, are forgotten. A React
effect and the render that triggers it are one step: nothing else runs between them but the
loads they start. A cancelled load does nothing when it is answered, so it is forgotten when
it is cancelled. Each handler is a step that sends, a step of the server and a step that
receives.

`OtherTab` is what other tabs do to this one: they write `header` (a switch, a creation, a
deletion) or remove it (a logout), and the screen here does not change. A load and a handler's request name
`header` as it is when they are sent; the middleware checks that organization. `PickAgain`
is a click on the organization that is already selected: `setCurrentOrg` changes nothing,
localStorage is written. A cancelled invitation stays on the server, closed; inviting its
address again replaces it. Only this tab changes the server's rows: what other users and
tabs do to them is seen at the next load, as by any page that loads once.

Four histories are not in the code: `elsewhere`, that another tab wrote `header` last and
differs from this one, and the fields `from`, `late` and `raced` of `hook`: for which
organization the effect ran that loaded the rows; which rows a late answer of a handler
added, or a load that named another tab's organization brought; and whether a request
failed, overlapped the load or named another tab's organization. `ForeignRowsAreLate` and
`Converged` exempt what these record: they do not forbid a late row, which the code admits,
but say that there is no other source of wrong rows. In the same way `skew` of `WebSession`
exempts from `ListIsTheServers` the overlaps that the hazards of `org-context.tsx` and
`use-login.ts` describe.

### `WebhookLogs`

As `OrgPages`, with a key that is more than the organization: `query` is page, filter and
debounced text. The load carries the organization and the query that it was sent with, and
the server evaluates those, whatever the page asks for by then. `FindWebhookLogs` is two
statements: `CountLogs` counts the matching messages, `SelectLogs` reads a page of them,
newest first, each row with the status it has at that moment. A change of filter takes two
renders: `Refilter` starts a load for the new filter and the old page and calls
`setPage(1)`; `PageReset` is the render after it, whose effect replaces that load. Answers
and clicks may come in between. `Arrive` and `Update` are the pipeline as the page sees it:
a status may change in any direction, also from `success` back to `pending`
(`scheduler.go:52`), and every status may become every other one, which allows more than
the pipeline. The search box is one of two texts and `DebounceFires` may come at any time
after a change: the 300 ms are not measured. The organization may also change while the
sheet is open, by a late answer of `OrgProvider`. The browser has this one tab; another tab
would change the organization of the header as in `OrgPages`. In both modules `currentOrg`
does not become null again: a logout unmounts the page, and the deletion of the last
organization is left to `WebSession`. `from` (what the request
whose answer is held asked for) and `adrift` (the page number was chosen for another list)
are histories.

### `LoadView`

What both pages promise: a change of key hides the old data at once; data appears because
the load of this very key succeeded, or, after a failed load, because the component puts
back what it held. The refinement mappings take `current` (or `<<current, query>>`) for the
key, and what the hook shows and holds; the data of a key is what a request brought that was
sent for it, so a late answer to another key cannot pass for it. `ShowsWhatItLoaded` is the
abstract specification as a property; `ListAnswersQuery` is that and `RowsAnswer`, that the
rows are messages of the organization they are said to be of, pass the filters they were
asked with, and are no more than a page.

## 3. The runs

| run | instance | checks | result |
|---|---|---|---|
| `Nominal` | 3 messages (one unsendable), 2 workers, 1 scheduler, MaxAttempts 2, batches of 1 | `TypeOK`, `ExclusiveDelivery`, `NotStranded`, `AttemptLog`, `FinalUnlessRequeued`, `MeetsContract` | pass, 310 932 states |
| `Live` | 2 messages of 2 organizations (one deletable, one rotation each), 2 workers, 1 scheduler, MaxAttempts 1, batches of 2, fairness | `NoOrphans`, `MeetsContract`, `RotationReaches`, `FirstAttempt`, `SettlesUnlessClobbered` | pass, 142 430 states |
| `Faults` | 1 message, 2 workers, 2 schedulers, any one fault, fairness | `AttemptBound`, `SuccessIsReal`, `NoPrematureDeadLetter`, `RetryServed` | pass, 168 618 states |
| `StaleWrite` | 1 message, 1 worker, 1 scheduler, fairness | `Settles` | violated |
| `SixAttempts` | 1 message, MaxAttempts 5 | `AtMostMaxAttempts` | violated |
| `Unsigned` | 1 message, deletable organization | `EverySendSigned` | violated |
| `PushLost` | 1 message, one failing push or one restart of Redis, fairness | `FirstAttempt` | violated |
| `Invitations` | 2 users, 2 organizations (one deletable), 2 concurrent requests, 2 invitations, failures | `InvTypeOK`, `AcceptedIsMember`, `MembershipEarned`, `DeletedOrgIsEmpty`, `WithdrawnByAdmin`, `MembershipKept` | pass, 1 248 736 states |
| `CancelRace` | as before, 2 concurrent requests, 1 invitation, no failure | `CancelledCannotJoin` | violated |
| `OrgPages` | 2 organizations (admin of one), 5 ids (2 secrets, a key and a cancelled invitation exist), 2 handler requests in flight, another tab that selects the second organization, fairness | `PagesTypeOK`, `ForeignRowsAreLate`, `Converged`, `OneOutcome`, `BusyIsAwaited`, `ShowsWhatItLoaded`, `LoadingEnds` | pass, 1 234 846 states |
| `WebhookLogs` | 2 organizations, one with up to 2 messages and one with none, pages of 1, two statuses, the sheet of every message, fairness | `LogsTypeOK`, `PageExists`, `SheetShowsSelected`, `ListAnswersQuery`, `SearchIsApplied`, `ListLoadingEnds` | pass, 417 692 states |
| `Session` | 2 tabs, 2 users (one registered), 2 organizations, 2 requests in flight, 5 clicks | `SessionTypeOK`, `HeaderMatchesView`, `CurrentIsListed`, `ListIsTheServers`, `RegisteredIsComplete`, `DeletesWhatItNames` | pass, 1 145 264 states |

What the passing runs show. Although no lock or status check protects it, the
discipline "one id per message" holds with one scheduler and no faults: two workers
never deliver a message at the same time, the scheduler never queues what a worker
holds, and the endpoint sees exactly the contract, also while organizations are
deleted. `AttemptLog` says the numbering of attempts has no gap or repetition.
`NotStranded` and `SettlesUnlessClobbered` say that the stale scheduler write is the
*only* fault-free way to lose a message. With faults and two schedulers exclusivity
and the contract are gone, as they must be; what remains true is the counting: no
count exceeds the bound, no success is invented, nothing is given up early, and a
message that waits for a retry is always served, because that state is in the
database.

`Invitations` shows that the order of the writes is right: the membership is inserted before
the invitation says `accepted`, so a failure in between leaves a pending invitation of a
member, which the next acceptance repairs; the constraints of the tables, not the checks
before them, keep two acceptances or an acceptance and a deletion apart. `MembershipKept`
says so of the role: an address that was re-invited in another role may accept both
invitations at once, both acceptances may find that it is no member yet, and the one whose
INSERT comes second is refused instead of changing what the first gave. A cancellation does
not reach an acceptance that has read the row before (`CancelRace`).

`OrgPages` and `WebhookLogs` show that the `cancelled` flags do their work, and how far it
goes. The load of an earlier organization, filter or page never reaches the screen
(`ShowsWhatItLoaded`, `ListAnswersQuery`). Rows of another organization may get there by a
handler's answer, as when a key is created just before a switch, or by a load that names
what another tab has selected; `ForeignRowsAreLate` says that these are the only ways. A
failed load leaves the previous organization's rows beside the error (the `Fail` step of
`LoadView`). `Converged` states what the edits of the handlers are worth: with nothing in
flight the list is the server's, unless a request failed, overlapped the load or named
another tab's organization. `PageExists` states where the page number is safe, in the list
of all messages: the reset on a change of filter is enough once it is rendered, although the
first render still asks for the old page; a switch of organization and a click on Next over
an old page count are the only ways to a page that does not exist. The list of one status is
left out of it, because it shrinks by itself: that of `pending` with every delivery, those
of `success` and `failed` by the stale write of the scheduler.

`Session` shows what sharing localStorage means. The organization that requests name is the
one on the screen of the tab that wrote it last (`HeaderMatchesView`); in other tabs it
may be another one, and `DeletesWhatItNames` says that the comparison of the name keeps
this from deleting the wrong organization. The load of the organizations is applied
whenever it comes; `CurrentIsListed` holds in spite of that, also after logouts, second
logins and acceptances that overlap it, while the list itself is the server's, with no organization twice, only where
nothing overlapped (`ListIsTheServers`). A registration that succeeds is complete; one that
fails may leave a user who cannot register again.

What the violated runs show (`findings` quotes the documentation each one
contradicts):

1. `StaleWrite`: the scheduler pushes, a worker delivers and writes `success` (or
   `failed`, or the next `retry`), then the scheduler's UPDATE sets `pending` with the
   old columns. The id is nowhere, nothing looks at pending rows: the message stays
   `pending` for ever. Marking the row before the push, or `WHERE status = 'retry'`,
   would close it.
2. `SixAttempts`: `AttemptCount < MaxAttempts` is tested with the count before this
   attempt, so there are six requests, not five. The contract states six.
3. `Unsigned`: the organization is deleted after the row is read; the lookup error is
   logged and the request is sent without the signature headers.
4. `PushLost`: a message whose id is lost is never tried;
   `FindPending` exists in the repository and has no caller.
5. `CancelRace`: an acceptance reads the invitation as pending, an admin cancels it and is
   told that this succeeded, and the acceptance goes on: its user becomes a member, and
   `accepted` overwrites `cancelled`. An UPDATE with `WHERE status = 'pending'` before the
   membership is inserted, in one transaction with it, would close it.

Two more disagreements were met and have no run, being visible without a trace. A response
body that is not text is refused by its column and the error is ignored, so that attempt is
not logged (`BinaryReply`; `AttemptLog` excludes these messages). And the status `declined`
is missing in the enum of `invitations`, so that the UPDATE of a decline always fails and the
invitation stays pending (`Decline`), while the marketing page
(`marketing/src/pages/index.astro:194`) offers to "accept or decline invitations".

### Bounds

Every bound is a constant: `MaxSecret` (rotations), `MaxFaults`, and the sets. Two
workers suffice for a conflict over one message, and three messages with batches of
one give a queue in which the oldest is not the next to be retried; a batch of two in
`Live` makes the second entry grow stale while the first is processed.
`MaxAttempts` 2 has a first attempt, a retry that is retried and a last one;
`SixAttempts` takes the code's 5. One fault at a time is enough to lose or duplicate
an id, and a duplicated id is the beginning of every conflict between two workers. That
retries compete for the ten rows of a batch is seen with batches of one (`Nominal`) and two
(`Live`); `Faults`, which checks `RetryServed`, has one message, so there it says that no
fault loses a retry, not that many retries share the batches fairly. The
theorems of section 4 do not depend on these bounds. Histories stop
counting at `MaxAttempts + 2`, beyond which no property can tell them apart. Deadlock
is not checked in the pipeline: with all messages settled and no client the system rests.

In `Invitations` two requests are enough for every conflict over one row, and two ids for
a re-invitation after a cancellation or for invitations of both organizations. One
organization can be deleted; the other keeps an admin, so that some request can always
begin, and deadlock is checked. Requests and ids are interchangeable, and symmetry is used
for them; no liveness is checked in that run.

In `OrgPages` two organizations and two requests give every order of a request, a switch
and a second request; `Ids` bounds the rows that the server ever creates (one beyond those
that exist), `Slots` the requests in flight, `Elsewhere` what another tab may select: the
second organization, which is the one without admin rights. It makes the admin pages
disappear under a request, and their loads are refused when the other tab has selected it.
That another tab logs out is left to the proofs, where `Elsewhere` is arbitrary. In
`WebhookLogs` `Limit` 1 and `MaxMsgs` 2 give lists of no, one and two pages, and a status
apart from `pending` is enough for a list that grows and shrinks: as every status may become
every other one, a filter on one of them stands for a filter on any. `Openable` bounds the
messages whose detail is looked at, here all of them. No symmetry is used in these two runs,
which check liveness. These runs are of unbounded length:
only the server's rows are finite. In `Session` `MaxClicks` bounds what users do in all, 5 clicks being enough for
a login, a change, a switch and a logout of one tab or for two tabs against each other.
Tabs and slots are interchangeable, and symmetry is used for them; no liveness is checked
there. Deadlock is not checked in these runs: a page whose user does nothing rests.

### Fairness

Weak fairness of `PushMessage` (a handler that has inserted goes on), of each worker's
and each scheduler's step (both are endless loops, and the HTTP client has a timeout of
10 s, so `Do` returns) and of `Tick`. Workers take ids in queue order and the
retry query orders by `next_retry_at`, so no strong fairness is needed. Clients and
administrators are not fair: nobody has to submit, rotate or delete. In
`DeliveryFaults` the processes are fair and the faults finitely many.

In `OrgPages` and `WebhookLogs` answers are fair (`fetch` settles with an answer or an error,
and the event loop runs what awaits it), and so are the debounce timer and the render after
`setPage(1)`. The user and the other tabs are not:
no click has to happen, and the liveness properties except a user who changes what is asked for
infinitely often before the answers come. The answers to handlers need no fairness:
`BusyIsAwaited` says in every state that a disabled button has a request under way.

## 4. The proofs

All theorems hold for arbitrary sets of messages, workers, schedulers and
organizations and any `MaxAttempts` and `BatchLimit`, under the named assumptions of
the modules. `BackoffAssumption` says that 2^n is a natural number for the exponents
used: exponentiation is opaque to the provers, TLC evaluates the assumption.

`DeliveryProofs`: `TypeCorrect` (`Spec => []TypeOK`). `TypeOK` alone is not inductive
(a `MarkPending` takes the head of a batch that must not be empty, a worker beyond `Pop`
must have a message), so the invariant is `CountInv`: types, plus what rows, workers and
batches know of the histories. A row, a copy and a batch entry never count more failed
requests than happened, nor more than `MaxAttempts`; `success` in a row or in a worker's
hands implies a 2xx; `failed` implies `MaxAttempts + 1` failures unless no request can be
built. The clauses about copies are needed because `Settle` and `MarkPending` write copies
back.

`DeletedStaysDeleted` (`NoOrphans`) needs the types only: an UPDATE finds no row, and the
foreign keys refuse an INSERT, once the organization is gone. `RotationReachesWorkers` is a property of the form
`[](P => []Q)`: `Reached(w, o, v)` says that the organization's secret is at least `v` or
gone, and so is the one a signed request of `w` carries; it begins to hold when `P` does
(`Unsigned`: a worker that has not signed holds no secret) and every step keeps it.

`DeliveryFaultsProofs`: the same invariant is preserved by every fault, hence
`AttemptCountIsBounded`, `SuccessIsNeverInvented` and `DeadLetterIsEarned` for `FSpec`, with
any number of schedulers and faults. This is the strongest guarantee of the pipeline: it
needs no exclusivity at all, because counts only grow with requests that happened.
`DeletedStaysDeletedInFaults` and `RotationReachesInFaults` hold for `FSpec` as well.

`DeliveryTokenProofs`: for one scheduler (`OneScheduler`, a hypothesis of the theorems;
`k8s/scheduler.yaml` has one replica) and no faults, `DeliveryIsExclusive` and
`PendingIsNotStranded`. `TokenInv` makes the rule of section 1 precise: ids are not
duplicated in the queue and in the workers' hands (`NoDuplicates`); nobody knows a
message before its handler pushed it (`Unknown`); a row that says `retry` has no id out,
except between the two halves of its re-queue (`Waiting`); what the scheduler has yet to
push has no id out and is as it was read, and what it has pushed is as it was read
exactly as long as its id is out (`BatchTokens`); a worker's count is the row's
(`FreshCopy`). The last two explain the stale write: `MarkPending` is harmless exactly
while the id it pushed is still out. With two schedulers `NoDuplicates` fails, so the
hypothesis cannot be dropped.

`DeliveryContractProofs`: under the same hypothesis `LogTellsTheHistory`,
`FinalStatusStays` and `PipelineMeetsContract`. `ContractInv` adds to the token invariant how
rows, copies and batches relate to the requests that were made: whoever may deliver next,
an id in the queue or a worker that has popped it, has a count equal to the failures so
far, no 2xx behind it and the back-off over (`Queued`, `CopyInv`); a row that waits for a
retry has the time that the contract demands (`Scheduled`), and what a scheduler has read
or pushed is due (`BatchDue`); a message whose id is out has no final status (`Open`); the log
has a row per request but for the one whose answer a worker has not logged yet
(`Logged`). Exclusivity is needed at each of them: a second id would let a request
overtake the back-off, or an attempt be logged twice under one number. Every step of `Do` is
then a step of the contract, and every other one leaves its variables alone or is its tick.

`InvitationsProofs`: for any number of users, organizations, requests and invitations and
with failures, `AcceptedMeansMember`, `MembersWereInvited`, `DeletionIsComplete`, and the
action properties `OnlyAdminsWithdraw` and `MembershipsStay`. `InvInv` adds to the three
invariants what a request may rely on at each step (`CallFacts`): after the middleware its
user is an admin of the organization as long as that exists, because roles never change
and memberships only go with the organization; on the way to `accepted` the invitation is
addressed to the user, and once the membership was found or made it is there as long as
the row is. `Monotone` says how any step may change the tables, and `CallKept` that nothing
a request relies on is lost by it; so each action is treated once for its own request, not
once per pair of requests.

`OrgPagesProofs`: for any organizations, ids and number of requests, `PagesTypes`,
`PagesForeignRows`, `PagesBusy`, `PagesOneOutcome` and `PagesView`, whatever other tabs select. `PagesInv`
adds to the types: a load in flight was started for the current organization and names it
unless another tab has interfered, its page loads something and shows its placeholder, and
its rows are of the organization it names (`LoadInv`; this is what the `cancelled` flag gives,
and without it the invariant is not inductive at `switchOrg`); what this tab wrote last to
localStorage is the organization it shows (`HeaderInv`); an answered
request is one of the mounted page and carries the row that its handler applies
(`AnswerInv`); and a page has at most one request that disables a button, which is disabled
exactly as long as that request is in flight (one half of this is `BusyIsAwaited`), and on the
playground the panel is empty until then (`BusyInv`; without it a second answer could meet
the error of a first). The
refinement of `LoadView` follows: each step is one of its steps or leaves the three mapped
variables alone.

`PagesConverge` (`Converged`) needs more: the list differs from the server's while requests
are in flight, so the invariant has to account for the difference. `TableInv` says that on a
page where nothing failed or overlapped the load, the load is alone and its answer is the
server's list; otherwise all requests are of this page and this organization, and the
server's list is the page's with the answers on their way applied: plus `Added`, minus
`Removed`, or the one row of a rotation (`ItemsInv`). That an answer adds and another takes
away must not depend on their order: no request is about a row that is still to be added.
This holds because the server gives an identifier once, to a row of one organization, and a
closed row is never opened again (`UsedInv`: it also makes removing by identifier the same as
removing the row), and because a button admits one request (`BusyInv`). `NoneAssumption` says that `None` is no record.

`WebhookLogsProofs`: for any page size and number of messages `LogsTypes`, `LogsSheet` and
`LogsListView`, from `LogsInv`: types; a load in flight was sent for the organization and the
query on the screen, and the placeholder is shown meanwhile (`ListInv`: the cleanup of the
effect cancels every other one); the rows on their way and those that are held answer what
their request asked for (`RowsInv`); a detail in flight is of the open message, and the
sheet holds no other (`SheetInv`). `RowsInv` rests on `PageSize`: a page has at most `Limit`
rows, because the rank of a message counts those that are not older and so differs from
message to message (`RankOrder`). `LogsPage` (`PageExists`) from `PageInv`: a page count of the
list of all messages that a load or the hook holds is at most the list's now, because that
list only grows, with any text in the search box and whatever the statuses do, and rounding
up keeps the order (`CeilingMonotone`); and the page that is asked for fits each of the
counts it can be compared with, as long as it was not chosen for another list and its reset
is not on its way. `ResetInv` says that only a page other than the first is being reset.

`WebSessionProofs`: for any tabs, users, organizations and number of requests, `SessionTypes`,
`HeaderMatches`, `CurrentListed`, `ListInStep`, `RegistrationComplete` and `DeletionNamed`.
`SessionInv` has four parts beside the types.

* `AccountInv`: what a request carries, by its kind and state; one registration of a user runs
  at a time, because the address is unique; who is signed in has an account. This gives
  `RegisteredIsComplete`.
* `ServerInv`: a name is used once, a user joins an organization once, and the organization
  that a registration has inserted without its membership has no member and no invitation
  (`FoundingInv`: otherwise the fourth insert could grant a membership twice).
* `ViewInv`: `HeaderMatchesView` and `CurrentIsListed` are inductive given the types.
* `SyncInv`: for a tab that is not skewed, a load is alone and answers with what the server has;
  afterwards the server's memberships are the tab's list with the answers on their way
  applied (`ListInv`: plus `Coming`, minus `Going`), and no answer adds an organization that is
  listed, that another adds, or that one takes away.

Each action is proved to keep the parts it can disturb; lemmas on what posting, serving and
answering a request leave alone (`CalmKeeps`, `SyncFrame`, `AccountServed`, `SyncServed`) do
the rest. `NoneAssumption` says that `None` is none of the records it is compared with.

Each of the invariants was checked by TLC on the instances of section 3 before it was proved.

Only model-checked: the liveness properties `FirstAttempt`, `SettlesUnlessClobbered`,
`RetryServed`, `LoadingEnds`, `SearchIsApplied` and `ListLoadingEnds`, which hold
under fairness and are out of the provers' reach. Every invariant and every other action
property of the runs is proved.

## 5. Not modelled, and the plan

Done: steps 1 to 6.

1. `Delivery`, `DeliveryFaults`, `DeliveryContract` and their runs; counting and token
   invariants proved.
2. `Invitations` with the authorization checks that precede the handlers, and its run.
3. The invariant of `Invitations` proved.
4. `WebSession`, `OrgPages`, `WebhookLogs` with accounts, API keys, the web client and the
   list of logs, and their runs.
5. The invariants of `OrgPages` and `WebhookLogs` and their refinement of `LoadView` proved.
6. Proofs: `Delivery` implements `DeliveryContract` with one scheduler; `NoOrphans`,
   `AttemptLog`, `FinalUnlessRequeued`, `RotationReaches`; `PageExists`, `Converged`; the
   invariant of `WebSession`.
7. Next: which parts of the contract survive which faults, and the safety half of the
   liveness properties: a retry that waits is always one that the scheduler's query finds.

Left out for good: formatting, logging, metrics, HMAC and password hashes, JWT expiry,
layout, copy buttons and their timers, the UI component library, components that nothing
imports (`dashboard-header.tsx`, `dashboard-nav.tsx`, `component-example.tsx`, `example.tsx`),
the statistics' arithmetic, e-mail, the marketing site. The rate limiter is one INCR and one
EXPIRE per request: that a failed EXPIRE leaves a counter that never disappears, and that
an error of Redis lets the request pass, is read off its lines, and a model would only
repeat them.
