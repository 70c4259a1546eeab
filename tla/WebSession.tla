----------------------------- MODULE WebSession -----------------------------
(***************************************************************************)
(* The browser tabs of one browser: who is signed in, which organizations  *)
(* a tab lists and which one it shows, and the server's users,             *)
(* organizations and memberships behind them. The tabs share localStorage  *)
(* (the token and the selected organization, which every request sends     *)
(* along) but not their React state.                                       *)
(*                                                                         *)
(* An organization is identified by its name: slugs are unique. A name is  *)
(* used once, so that a name stands for one organization. How invitations  *)
(* are accepted is the subject of Invitations; here it is one step.        *)
(***************************************************************************)
EXTENDS Naturals, Sequences, FiniteSets, Functions

CONSTANTS
    Tabs,
    Users,
    Orgs,
    Workspace,    \* the name of the organization that a registration creates
    Slots,        \* bounds the requests in flight
    Founders,     \* the users who are registered at the start
    MaxClicks,    \* bounds what users do
    InviteRoles,  \* the roles that invitations give
    None

ASSUME SessionAssumption ==
    /\ Workspace \in [Users -> Orgs]
    /\ InviteRoles \subseteq {"admin", "member"}
    /\ Founders \subseteq Users
    /\ \A u, v \in Founders : Workspace[u] = Workspace[v] => u = v
    /\ MaxClicks \in Nat
    /\ None \notin Tabs \cup Users \cup Orgs

VARIABLES
    \* The server.
    stage,     \* how many of the four inserts of Register a user has
    joined,    \* the memberships a user was ever given, oldest first
    exists,    \* the organizations
    gone,      \* the organizations that were deleted
    invites,   \* the pending invitations
    \* localStorage.
    token,     \* auth_token and auth_user: the user they are of
    selected,  \* selected_org
    writer,    \* observer: the tab that wrote selected_org last
    \* The tabs.
    user,      \* of the AuthProvider
    orgs,      \* organizations of the OrgProvider
    current,   \* currentOrg
    link,      \* the invitation whose link is open, None on the dashboard
    dialog,    \* the pending invitations on offer, each one with its buttons
    asked,     \* the user whose pending invitations are being loaded, or None
    skew,      \* observer: what the tab did or was told overlapped
    reqs,      \* the requests in flight
    clicks     \* observer: what users have done

server == <<stage, joined, exists, gone, invites>>
storage == <<token, selected, writer>>
tabs == <<user, orgs, current, link, dialog, asked, skew>>
sessionVars == <<server, storage, tabs, reqs, clicks>>

Membership == [org : Orgs, role : {"admin", "member"}]
Invitation == [to : Users, org : Orgs, role : {"admin", "member"}]

Kinds == {"login", "register", "orgs", "create", "accept", "respond", "delete"}

\* user is who the token is of, org the X-Org-ID header, arg what the request
\* is about, live whether the code that awaits the answer is still there.
Request == [tab : Tabs, kind : Kinds, user : Users \cup {None}, org : Orgs \cup {None},
            arg : Users \cup Orgs \cup Invitation \cup {None},
            state : {"sent", "running", "ok", "failed"}, data : Seq(Membership), live : BOOLEAN]

ASSUME NoneAssumption == None \notin Membership \cup Invitation \cup Request

SessionTypeOK ==
    /\ stage \in [Users -> 0..4]
    /\ joined \in [Users -> Seq(Membership)]
    /\ exists \subseteq Orgs
    /\ gone \subseteq Orgs
    /\ invites \subseteq Invitation
    /\ token \in Users \cup {None}
    /\ selected \in Orgs \cup {None}
    /\ writer \in Tabs \cup {None}
    /\ user \in [Tabs -> Users \cup {None}]
    /\ orgs \in [Tabs -> Seq(Membership)]
    /\ current \in [Tabs -> Membership \cup {None}]
    /\ link \in [Tabs -> Invitation \cup {None}]
    /\ dialog \in [Tabs -> SUBSET Invitation]
    /\ asked \in [Tabs -> Users \cup {None}]
    /\ skew \in [Tabs -> BOOLEAN]
    /\ reqs \in [Slots -> Request \cup {None}]
    /\ clicks \in 0..MaxClicks

Elems(seq) == {seq[i] : i \in 1..Len(seq)}

\* The entries of a list that are of some of the organizations, in its order.
\* SelectSeq says the same by recursion; counting is what can be reasoned about.
Only(list, some) ==
    LET kept == {i \in 1..Len(list) : list[i].org \in some}
        rank(i) == Cardinality({j \in kept : j <= i})
    IN [k \in 1..Cardinality(kept) |-> list[CHOOSE i \in kept : rank(i) = k]]

\* FindAllByUserID: memberships go with their organization.
FindAllByUserID(u) == Only(joined[u], exists)
IsMember(u, o) == \E m \in Elems(FindAllByUserID(u)) : m.org = o
IsAdmin(u, o) == [org |-> o, role |-> "admin"] \in Elems(FindAllByUserID(u))

SessionInit ==
    /\ stage = [u \in Users |-> IF u \in Founders THEN 4 ELSE 0]
    /\ joined = [u \in Users |-> IF u \in Founders
                                THEN <<[org |-> Workspace[u], role |-> "admin"]>> ELSE <<>>]
    /\ exists = {Workspace[u] : u \in Founders}
    /\ gone = {}
    /\ invites = {}
    /\ token = None /\ selected = None /\ writer = None
    /\ user = [t \in Tabs |-> None]
    /\ orgs = [t \in Tabs |-> <<>>]
    /\ current = [t \in Tabs |-> None]
    /\ link = [t \in Tabs |-> None]
    /\ dialog = [t \in Tabs |-> {}]
    /\ asked = [t \in Tabs |-> None]
    /\ skew = [t \in Tabs |-> FALSE]
    /\ reqs = [s \in Slots |-> None]
    /\ clicks = 0

\* A user does something.
Click == clicks < MaxClicks /\ clicks' = clicks + 1

-----------------------------------------------------------------------------
(* Requests.                                                               *)

\* apiRequest: the headers are read from localStorage when it is called.
apiRequest(t, kind, who, arg) ==
    [tab |-> t, kind |-> kind, user |-> who, org |-> selected, arg |-> arg,
     state |-> "sent", data |-> <<>>, live |-> TRUE]

\* The requests `new' go out, the ones of `rest' being in flight.
Post(new, rest) ==
    \E at \in Injection(new, {s \in Slots : rest[s] = None}) :
        reqs' = [s \in Slots |-> IF s \in Range(at) THEN CHOOSE r \in new : at[r] = s
                                 ELSE rest[s]]

Without(s) == [reqs EXCEPT ![s] = None]

Of(t, kinds) == {s \in Slots : reqs[s] # None /\ reqs[s].tab = t /\ reqs[s].kind \in kinds}

\* The requests that add to the list of a tab or take from it.
Changes == {"create", "accept", "respond", "delete"}

-----------------------------------------------------------------------------
(* AuthProvider, the forms and the routes.                                 *)

PublicRoute(t) == user[t] = None
ProtectedRoute(t) == user[t] # None
AdminRoute(t) == current[t] # None /\ current[t].role = "admin"

\* Which forms are on offer: to sign in and to register, linked to each other.
LoginForm(t) == PublicRoute(t)
RegisterForm(t) == PublicRoute(t)

\* The form is filled in with the credentials of u. Leaving it and coming back
\* enables it again, so several logins of one tab may be in flight.
useLogin(t, u) ==
    /\ LoginForm(t)
    /\ Click
    /\ Post({apiRequest(t, "login", None, u)}, reqs)
    /\ UNCHANGED <<server, storage, tabs>>

useRegister(t, u) ==
    /\ RegisterForm(t)
    /\ Click
    /\ Post({apiRequest(t, "register", None, u)}, reqs)
    /\ UNCHANGED <<server, storage, tabs>>

\* What a signed-in tab asks for when it has come to its page: OrgProvider
\* loads the organizations, and the page of a link accepts the invitation.
Opening(t, who, where) ==
    {apiRequest(t, "orgs", who, None)} \cup
    (IF where = None THEN {} ELSE {apiRequest(t, "accept", who, where)})

\* The dashboard loads the pending invitations.
Asking(who, where) == IF where = None THEN who ELSE None

\* The answer of a login: setAuth, and on to the page that was asked for. The
\* effect of OrgProvider depends on isAuthenticated only: a second login that
\* is answered later changes the user but not the list.
setAuth(s, t, u) ==
    /\ token' = u
    /\ user' = [user EXCEPT ![t] = u]
    /\ IF user[t] = None
       THEN /\ Post(Opening(t, u, link[t]), Without(s))
            /\ asked' = [asked EXCEPT ![t] = Asking(u, link[t])]
            /\ skew' = [skew EXCEPT ![t] = \/ Of(t, Changes \cup {"orgs"}) # {}
                                           \/ current[t] # None
                                           \/ link[t] # None]
       ELSE /\ reqs' = Without(s)
            /\ skew' = [skew EXCEPT ![t] = TRUE]
            /\ UNCHANGED asked
    /\ UNCHANGED <<selected, writer, orgs, current, link, dialog>>

\* The sidebar, with the switcher and the sign-out button, is on the dashboard.
DashboardPage(t) == ProtectedRoute(t) /\ link[t] = None
AcceptInvitePage(t) == ProtectedRoute(t) /\ link[t] # None

\* handleLogout: logout, and the effect of OrgProvider clears the list.
logout(t) ==
    /\ DashboardPage(t)
    /\ Click
    /\ token' = None
    /\ selected' = None
    /\ writer' = t
    /\ user' = [user EXCEPT ![t] = None]
    /\ orgs' = [orgs EXCEPT ![t] = <<>>]
    /\ current' = [current EXCEPT ![t] = None]
    /\ dialog' = [dialog EXCEPT ![t] = {}]
    /\ asked' = [asked EXCEPT ![t] = None]
    /\ UNCHANGED <<server, link, skew, reqs>>

\* A tab is loaded again, on the dashboard or with the link of an invitation:
\* its state starts anew from localStorage, and nothing awaits the answers to
\* what it has asked for before.
Deserted(t) ==
    [s \in Slots |-> IF s \in Of(t, {"orgs"}) THEN None
                     ELSE IF s \in Of(t, Kinds) THEN [reqs[s] EXCEPT !.live = FALSE]
                     ELSE reqs[s]]

Open(t, where) ==
    /\ Click
    /\ link' = [link EXCEPT ![t] = where]
    /\ user' = [user EXCEPT ![t] = token]
    /\ orgs' = [orgs EXCEPT ![t] = <<>>]
    /\ current' = [current EXCEPT ![t] = None]
    /\ dialog' = [dialog EXCEPT ![t] = {}]
    /\ asked' = [asked EXCEPT ![t] = Asking(token, where)]
    /\ skew' = [skew EXCEPT ![t] = where # None]
    /\ Post(IF token = None THEN {} ELSE Opening(t, token, where), Deserted(t))
    /\ UNCHANGED <<server, storage>>

\* From the page of an invitation to the dashboard; its effect is cancelled.
goToDashboard(t) ==
    /\ AcceptInvitePage(t)
    /\ Click
    /\ link' = [link EXCEPT ![t] = None]
    /\ asked' = [asked EXCEPT ![t] = token]
    /\ reqs' = [s \in Slots |-> IF s \in Of(t, {"accept"}) THEN [reqs[s] EXCEPT !.live = FALSE]
                                ELSE reqs[s]]
    /\ UNCHANGED <<server, storage, user, orgs, current, dialog, skew>>

-----------------------------------------------------------------------------
(* OrgProvider and the components that use it.                             *)

Select(t, o) == selected' = o /\ writer' = t

\* The items of the switcher's menu.
OrgSwitcher(t) == IF DashboardPage(t) THEN Elems(orgs[t]) ELSE {}

switchOrg(t, m) ==
    /\ m \in OrgSwitcher(t)
    /\ Click
    /\ current' = [current EXCEPT ![t] = m]
    /\ Select(t, m.org)
    /\ UNCHANGED <<server, token, user, orgs, link, dialog, asked, skew, reqs>>

\* Mutant of addOrg: selected_org is not written.
AddUnselectedMutant(t, m) ==
    /\ orgs' = [orgs EXCEPT ![t] = Append(@, m)]
    /\ current' = [current EXCEPT ![t] = m]
    /\ UNCHANGED <<selected, writer>>

addOrg(t, m) ==
    /\ orgs' = [orgs EXCEPT ![t] = Append(@, m)]
    /\ current' = [current EXCEPT ![t] = m]
    /\ Select(t, m.org)

\* Mutant of removeOrg: the list keeps the organization.
KeepDeletedMutant(t, o) ==
    LET first == IF orgs[t] = <<>> THEN None ELSE orgs[t][1] IN
    /\ current' = [current EXCEPT ![t] = first]
    /\ Select(t, IF first = None THEN None ELSE first.org)
    /\ UNCHANGED orgs

removeOrg(t, o) ==
    LET remaining == Only(orgs[t], Orgs \ {o})
        first == IF remaining = <<>> THEN None ELSE remaining[1]
    IN /\ orgs' = [orgs EXCEPT ![t] = remaining]
       /\ current' = [current EXCEPT ![t] = first]
       /\ Select(t, IF first = None THEN None ELSE first.org)

\* Mutant of setOrganizations: no organization is chosen unless one is stored.
NoDefaultMutant(t, list) ==
    LET matched == {m \in Elems(list) : m.org = selected} IN
    /\ orgs' = [orgs EXCEPT ![t] = list]
    /\ current' = IF matched = {} THEN current
                  ELSE [current EXCEPT ![t] = CHOOSE m \in matched : TRUE]
    /\ UNCHANGED <<selected, writer>>

\* The answer of fetchOrganizations. No flag guards it.
setOrganizations(t, list) ==
    LET matched == {m \in Elems(list) : m.org = selected} IN
    /\ orgs' = [orgs EXCEPT ![t] = list]
    /\ IF matched # {}
       THEN /\ current' = [current EXCEPT ![t] = CHOOSE m \in matched : TRUE]
            /\ UNCHANGED <<selected, writer>>
       ELSE IF list # <<>>
       THEN /\ current' = [current EXCEPT ![t] = list[1]]
            /\ Select(t, list[1].org)
       ELSE UNCHANGED <<current, selected, writer>>

\* A signed-in user asks for a change of the list.
Ask(t, kind, arg) ==
    /\ DashboardPage(t)
    /\ Click
    /\ Post({apiRequest(t, kind, token, arg)}, reqs)
    /\ skew' = [skew EXCEPT ![t] = @ \/ Of(t, {"orgs"}) # {} \/ token # user[t]]
    /\ UNCHANGED <<server, storage, user, orgs, current, link, dialog, asked>>

\* The switcher's dialog. Its button is disabled while an answer is awaited, but
\* one that is mounted anew, after a logout or a reload, does not know of the
\* request before: a second one may be sent whenever there is a dashboard.
handleCreate(t) == Ask(t, "create", None)

\* The danger zone of the settings page, which only an admin is shown. The
\* user types the name of the organization on the screen.
handleDelete(t) ==
    /\ AdminRoute(t)
    /\ Ask(t, "delete", current[t].org)

\* The invitations of the dialog whose buttons are enabled.
PendingInvitationsDialog(t) ==
    {i \in dialog[t] : \A s \in Of(t, {"respond"}) : reqs[s].arg # i}

\* Accepting one. Declining it always fails (see Invitations), which changes
\* nothing, as the failure of an acceptance does.
handleRespond(t, inv) ==
    /\ inv \in PendingInvitationsDialog(t)
    /\ Ask(t, "respond", inv)

closeDialog(t) ==
    /\ dialog[t] # {}
    /\ Click
    /\ dialog' = [dialog EXCEPT ![t] = {}]
    /\ UNCHANGED <<server, storage, user, orgs, current, link, asked, skew, reqs>>

\* The answer of fetchPendingInvitations, or its failure. Serving it is part
\* of this step: nothing but the dialog depends on it.
PendingReply(t) ==
    /\ asked[t] # None
    /\ asked' = [asked EXCEPT ![t] = None]
    /\ \E got \in {{}, {i \in invites : i.to = asked[t]}} :
          dialog' = [dialog EXCEPT ![t] = IF got = {} THEN @ ELSE got]
    /\ UNCHANGED <<server, storage, user, orgs, current, link, skew, reqs, clicks>>

-----------------------------------------------------------------------------
(* The answers to a tab.                                                   *)

Answered(s, kinds) ==
    /\ reqs[s] # None
    /\ reqs[s].kind \in kinds
    /\ reqs[s].state = "ok"
    /\ reqs[s].live
    /\ UNCHANGED <<server, clicks>>

\* The awaiting code of the tab of s goes on.
Resume(s) ==
    LET t == reqs[s].tab IN
    /\ reqs' = Without(s)
    /\ skew' = [skew EXCEPT ![t] = @ \/ reqs[s].user # user[t] \/ reqs[s].state # "ok"]
    /\ UNCHANGED <<token, user, link, asked>>

LoginReply(s) ==
    /\ Answered(s, {"login"})
    /\ setAuth(s, reqs[s].tab, reqs[s].arg)

OrgsReply(s) ==
    /\ Answered(s, {"orgs"})
    /\ Resume(s)
    /\ setOrganizations(reqs[s].tab, reqs[s].data)
    /\ UNCHANGED dialog

\* An organization was created, or an invitation accepted.
JoinReply(s) ==
    /\ Answered(s, {"create", "accept", "respond"})
    /\ Resume(s)
    /\ addOrg(reqs[s].tab, reqs[s].data[1])
    /\ dialog' = IF reqs[s].kind = "respond"
                 THEN [dialog EXCEPT ![reqs[s].tab] = @ \ {reqs[s].arg}] ELSE dialog

DeleteReply(s) ==
    /\ Answered(s, {"delete"})
    /\ Resume(s)
    /\ removeOrg(reqs[s].tab, reqs[s].arg)
    /\ UNCHANGED dialog

\* The request was refused, or failed on the way there or back; when exactly
\* makes no difference to anyone else.
Failed(s) == reqs[s] # None /\ reqs[s].state # "ok"

\* An error is shown or swallowed; nothing that is kept here changes.
ErrorReply(s) ==
    /\ Failed(s)
    /\ reqs[s].live
    /\ reqs[s].kind \in Changes \cup {"orgs"}
    /\ Resume(s)
    /\ UNCHANGED <<server, selected, writer, orgs, current, dialog, clicks>>

\* The forms: an error is shown, or after a registration the login form; or
\* nobody awaits the answer any more.
SilentReply(s) ==
    /\ \/ Failed(s) /\ (reqs[s].kind \in {"login", "register"} \/ ~reqs[s].live)
       \/ reqs[s] # None /\ reqs[s].state = "ok" /\ (reqs[s].kind = "register" \/ ~reqs[s].live)
    /\ reqs' = Without(s)
    /\ UNCHANGED <<server, storage, tabs, clicks>>

-----------------------------------------------------------------------------
(* The server.                                                             *)

Handling(s, kind, states) ==
    /\ reqs[s] # None
    /\ reqs[s].kind = kind
    /\ reqs[s].state \in states
    /\ UNCHANGED <<storage, user, orgs, current, link, dialog, asked, clicks>>

\* The memberships change: other tabs know nothing of it.
Changed(s) ==
    skew' = [t \in Tabs |-> \/ skew[t]
                            \/ t # reqs[s].tab
                            \/ ~reqs[s].live
                            \/ reqs[s].kind = "register"]

\* The answer to what has been done may be lost.
Answer(s, data) ==
    \E out \in {"ok", "failed"} : reqs' = [reqs EXCEPT ![s].state = out, ![s].data = data]

\* The user and the account must be there.
Login(s) ==
    /\ Handling(s, "login", {"sent"})
    /\ stage[reqs[s].arg] >= 2
    /\ Answer(s, <<>>)
    /\ UNCHANGED <<server, skew>>

Fresh(o) == o \notin exists \cup gone

\* Mutant of Register: the address of a user is not unique.
RegisterAgainMutant(s) ==
    LET u == reqs[s].arg IN
    /\ Handling(s, "register", {"sent", "running"})
    /\ stage' = [stage EXCEPT ![u] = @ + 1]
    /\ reqs' = [reqs EXCEPT ![s].state = "running"]
    /\ UNCHANGED <<joined, exists, gone, invites, skew>>

\* Mutant of Register: it answers before the last insert.
RegisterEarlyMutant(s) ==
    LET u == reqs[s].arg
        step == stage[u] + 1
    IN
    /\ Handling(s, "register", {"sent", "running"})
    /\ (reqs[s].state = "sent") = (step = 1)
    /\ step = 3 => Fresh(Workspace[u])
    /\ stage' = [stage EXCEPT ![u] = step]
    /\ exists' = IF step = 3 THEN exists \cup {Workspace[u]} ELSE exists
    /\ IF step = 3 THEN Answer(s, <<>>) ELSE reqs' = [reqs EXCEPT ![s].state = "running"]
    /\ UNCHANGED <<joined, gone, invites, skew>>

\* One insert after the other, in no transaction: the user, whose address is
\* unique, the account, the organization, whose slug is unique, and the
\* membership. A failure leaves what is there.
Register(s) ==
    LET u == reqs[s].arg
        step == stage[u] + 1
        m == [org |-> Workspace[u], role |-> "admin"]
    IN
    /\ Handling(s, "register", {"sent", "running"})
    /\ (reqs[s].state = "sent") = (step = 1)
    /\ step = 3 => Fresh(m.org)
    /\ stage' = [stage EXCEPT ![u] = step]
    /\ exists' = IF step = 3 THEN exists \cup {m.org} ELSE exists
    /\ IF step = 4
       THEN /\ joined' = [joined EXCEPT ![u] = Append(@, m)]
            /\ Changed(s)
            /\ Answer(s, <<>>)
       ELSE /\ reqs' = [reqs EXCEPT ![s].state = "running"]
            /\ UNCHANGED <<joined, skew>>
    /\ UNCHANGED <<gone, invites>>

ListOrgs(s) ==
    /\ Handling(s, "orgs", {"sent"})
    /\ reqs[s].user # None
    /\ reqs' = [reqs EXCEPT ![s].state = "ok", ![s].data = FindAllByUserID(reqs[s].user)]
    /\ UNCHANGED <<server, skew>>

\* Two inserts: without the second the organization has no members.
CreateOrg(s) ==
    /\ Handling(s, "create", {"sent"})
    /\ reqs[s].user # None
    /\ \E o \in Orgs :
          LET m == [org |-> o, role |-> "admin"] IN
          /\ Fresh(o)
          /\ exists' = exists \cup {o}
          /\ \/ /\ joined' = [joined EXCEPT ![reqs[s].user] = Append(@, m)]
                /\ Changed(s)
                /\ Answer(s, <<m>>)
             \/ /\ reqs' = [reqs EXCEPT ![s].state = "failed"]
                /\ UNCHANGED <<joined, skew>>
    /\ UNCHANGED <<stage, gone, invites>>

\* AcceptInvitation and RespondToInvitation. Declining always fails.
JoinOrg(s) ==
    /\ \E kind \in {"accept", "respond"} : Handling(s, kind, {"sent"})
    /\ LET i == reqs[s].arg
           m == [org |-> i.org, role |-> i.role]
       IN /\ i \in invites
          /\ i.to = reqs[s].user
          /\ invites' = invites \ {i}
          /\ IF IsMember(i.to, i.org)
             THEN /\ reqs' = [reqs EXCEPT ![s].state = "failed"]
                  /\ UNCHANGED <<joined, skew>>
             ELSE /\ joined' = [joined EXCEPT ![i.to] = Append(@, m)]
                  /\ Changed(s)
                  /\ Answer(s, <<m>>)
    /\ UNCHANGED <<stage, exists, gone>>

\* Mutant of DeleteOrg: the name in the body is not compared.
DeleteUnnamedMutant(s) ==
    /\ Handling(s, "delete", {"sent"})
    /\ LET o == reqs[s].org IN
       /\ reqs[s].user # None
       /\ o # None
       /\ IsAdmin(reqs[s].user, o)
       /\ exists' = exists \ {o}
       /\ gone' = gone \cup {o}
       /\ invites' = {i \in invites : i.org # o}
    /\ Changed(s)
    /\ Answer(s, <<>>)
    /\ UNCHANGED <<stage, joined>>

\* An admin of the organization of the header, with the name in the body.
DeleteOrg(s) ==
    /\ Handling(s, "delete", {"sent"})
    /\ LET o == reqs[s].org IN
       /\ reqs[s].user # None
       /\ o # None
       /\ IsAdmin(reqs[s].user, o)
       /\ reqs[s].arg = o
       /\ exists' = exists \ {o}
       /\ gone' = gone \cup {o}
       /\ invites' = {i \in invites : i.org # o}
    /\ Changed(s)
    /\ Answer(s, <<>>)
    /\ UNCHANGED <<stage, joined>>

\* An admin invites a user, registered or not.
Invite(i) ==
    /\ Click
    /\ \E u \in Users : IsAdmin(u, i.org)
    /\ ~IsMember(i.to, i.org)
    /\ \A j \in invites : <<j.to, j.org>> # <<i.to, i.org>>
    /\ invites' = invites \cup {i}
    /\ UNCHANGED <<stage, joined, exists, gone, storage, tabs, reqs>>

-----------------------------------------------------------------------------

Serve(s) ==
    \/ Login(s)
    \/ Register(s)
    \/ ListOrgs(s)
    \/ CreateOrg(s)
    \/ JoinOrg(s)
    \/ DeleteOrg(s)

SessionNext ==
    \/ \E t \in Tabs, u \in Users : useLogin(t, u) \/ useRegister(t, u)
    \/ \E t \in Tabs : \/ logout(t)
                       \/ \E where \in invites \cup {None} : Open(t, where)
                       \/ goToDashboard(t)
                       \/ \E m \in Membership : switchOrg(t, m)
                       \/ handleCreate(t)
                       \/ handleDelete(t)
                       \/ \E i \in dialog[t] : handleRespond(t, i)
                       \/ closeDialog(t)
                       \/ PendingReply(t)
    \/ \E s \in Slots : \/ Serve(s)
                        \/ LoginReply(s)
                        \/ OrgsReply(s)
                        \/ JoinReply(s)
                        \/ DeleteReply(s)
                        \/ ErrorReply(s)
                        \/ SilentReply(s)
    \/ \E i \in Invitation : i.role \in InviteRoles /\ Invite(i)

SessionSpec == SessionInit /\ [][SessionNext]_sessionVars

-----------------------------------------------------------------------------
(* Properties.                                                             *)

\* The localStorage writes of org-context.tsx: the organization that the
\* requests name (api-client.ts) is the one on the screen of the tab that
\* wrote it last. Another tab may show another one.
HeaderMatchesView ==
    \A t \in Tabs : (writer = t /\ current[t] # None) => selected = current[t].org

\* The contract of OrgProvider (org-context.tsx), whatever overlaps: a tab that
\* lists organizations has one of them on the screen.
CurrentIsListed ==
    \A t \in Tabs : orgs[t] # <<>> => current[t] \in Elems(orgs[t])

NoneTwice(list) ==
    \A i, j \in 1..Len(list) : list[i].org = list[j].org => i = j

\* addOrg and removeOrg keep the list of a tab equal to the server's without
\* loading it again (org-context.tsx): when nothing is in flight it has the
\* same organizations, none of them twice, unless one of its requests overlapped
\* a load, failed or was made or answered under another user, or another tab
\* or user changed the memberships.
ListIsTheServers ==
    \A t \in Tabs :
        (user[t] # None /\ ~skew[t] /\ Of(t, Kinds) = {})
            => /\ Elems(orgs[t]) = Elems(FindAllByUserID(user[t]))
               /\ NoneTwice(orgs[t])
               /\ orgs[t] = <<>> => current[t] = None

\* DeleteOrg (organization.go) compares the name: whatever other tabs selected
\* meanwhile, only the organization that was on the screen of the tab that
\* asked is deleted.
DeletesWhatItNames ==
    [][\A o \in exists \ exists' :
          \E s \in Slots : reqs[s] # None /\ reqs[s].kind = "delete" /\ reqs[s].arg = o]_sessionVars

\* Register (auth.go) makes four inserts: a registration that reports success
\* has made them all, and a user can be signed in only with an account.
RegisteredIsComplete ==
    /\ \A s \in Slots : (reqs[s] # None /\ reqs[s].kind = "register" /\ reqs[s].state = "ok")
          => \E m \in Elems(joined[reqs[s].arg]) : m.org = Workspace[reqs[s].arg]
    /\ \A t \in Tabs : user[t] # None => stage[user[t]] >= 2
=============================================================================
