----------------------------- MODULE Invitations ----------------------------
(***************************************************************************)
(* Team invitations: the handlers that create, cancel, accept and answer   *)
(* an invitation or delete an organization, the membership checks of the   *)
(* middleware that run before them, and the three tables they share.       *)
(*                                                                         *)
(* A handler is a sequence of SQL statements without a transaction. Each   *)
(* statement that reads or writes one of the tables is an action, and what *)
(* the handler remembers between two of them is in its record. A user is   *)
(* identified with the e-mail address (users.email is UNIQUE, and users    *)
(* are neither changed nor deleted).                                       *)
(***************************************************************************)
EXTENDS Naturals, FiniteSets

CONSTANTS
    Users,     \* registered users, and their e-mail addresses
    Orgs,      \* organizations
    Founder,   \* Founder[o]: the user who created o, its first admin
    Invites,   \* what CreateInvitation may be asked for: org, email and role
    Deletable, \* organizations whose deletion may be requested
    Calls,     \* API requests that can be in progress at the same time
    Ids,       \* ids of invitations; bounds how many are ever created
    Faulty,    \* whether statements fail and the API process dies
    NULL       \* no value

ASSUME InvitationsAssumption ==
    /\ Founder \in [Orgs -> Users]
    /\ Invites \subseteq [org: Orgs, email: Users, role: {"member", "admin"}]
    /\ Deletable \subseteq Orgs
    /\ Faulty \in BOOLEAN

VARIABLES
    org,    \* org[o]: the row of o exists
    member, \* member[o][u]: role of u in o, "none" without a row in memberships
    inv,    \* inv[i]: the invitation with id i (and the token that goes with it)
    late,   \* ids of the invitations whose expires_at is over
    call    \* call[p]: where request p is, and what it remembers

ivars == <<org, member, inv, late, call>>

-----------------------------------------------------------------------------
(* Values.                                                                 *)

Roles == {"member", "admin"}

\* The enum invitation_status.
InvitationStatus == {"pending", "accepted", "expired", "cancelled"}

\* A row, before it is inserted ("unused") and after it is deleted too. Only the
\* status of a row is ever updated.
Invitation == [status: InvitationStatus \cup {"unused", "deleted"},
               org: Orgs \cup {NULL}, email: Users \cup {NULL},
               role: Roles \cup {NULL}]
Unused == [status |-> "unused", org |-> NULL, email |-> NULL, role |-> NULL]

Ops == {"create", "cancel", "delete", "accept", "respond", "decline"}
Steps == {"idle", "access", "admin", "invitee", "existing", "remove", "insert",
          "lookup", "cancel", "organization", "drop", "token", "byId", "expire",
          "decline", "joined", "already", "join", "confirm"}

CallState == [pc: Steps, op: Ops \cup {NULL}, user: Users \cup {NULL},
              org: Orgs \cup {NULL}, email: Users \cup {NULL},
              role: Roles \cup {NULL}, id: Ids \cup {NULL}]
NoCall == [pc |-> "idle", op |-> NULL, user |-> NULL, org |-> NULL,
           email |-> NULL, role |-> NULL, id |-> NULL]

Exists(i) == inv[i].status \in InvitationStatus

-----------------------------------------------------------------------------
(* Statements.                                                             *)

\* membershipRepo.FindByUserAndOrgID: the role, or "none".
FindByUserAndOrgID(u, o) == member[o][u]

\* invitationRepo.FindByOrgAndEmail; UNIQUE (org_id, email).
FindByOrgAndEmail(o, e) == {i \in Ids : Exists(i) /\ inv[i].org = o /\ inv[i].email = e}

\* Mutant of UpdateStatus: a column of type text instead of the enum.
TextColumnMutant(i, status) ==
    inv' = IF Exists(i) THEN [inv EXCEPT ![i].status = status] ELSE inv

\* invitationRepo.UpdateStatus: no row, no effect. A status that the enum does
\* not have is an error and has no effect either.
UpdateStatus(i, status) ==
    inv' = IF Exists(i) /\ status \in InvitationStatus
           THEN [inv EXCEPT ![i].status = status]
           ELSE inv

Go(p, pc) == call' = [call EXCEPT ![p].pc = pc]

\* The answer, a success or an error: the handler is over.
Reply(p) == call' = [call EXCEPT ![p] = NoCall]

-----------------------------------------------------------------------------
(* Requests of authenticated users.                                        *)

Unspent == {i \in Ids : inv[i].status = "unused"}
Creating == {p \in Calls : call[p].op = "create" /\ call[p].pc # "idle"}

Start(p, op, pc, u, o, e, r, i) ==
    /\ call[p].pc = "idle"
    /\ call' = [call EXCEPT ![p] = [pc |-> pc, op |-> op, user |-> u, org |-> o,
                                    email |-> e, role |-> r, id |-> i]]
    /\ UNCHANGED <<org, member, inv, late>>

\* POST /api/invitations, while the bound Ids leaves room.
RequestCreate(p, u, v) ==
    /\ Cardinality(Unspent) > Cardinality(Creating)
    /\ Start(p, "create", "access", u, v.org, v.email, v.role, NULL)

\* DELETE /api/invitations/{id}
RequestCancel(p, u, o, i) ==
    /\ inv[i].status # "unused"
    /\ Start(p, "cancel", "access", u, o, NULL, NULL, i)

\* DELETE /api/org
RequestDelete(p, u, o) == Start(p, "delete", "access", u, o, NULL, NULL, NULL)

\* POST /api/invitations/accept
RequestAccept(p, u, i) ==
    /\ inv[i].status # "unused"
    /\ Start(p, "accept", "token", u, NULL, NULL, NULL, i)

\* POST /api/invitations/{id}/respond, with the action "accept" or "decline"
RequestRespond(p, u, i, op) ==
    /\ inv[i].status # "unused"
    /\ Start(p, op, "byId", u, NULL, NULL, NULL, i)

-----------------------------------------------------------------------------
(* The middleware of the routes that name an organization.                 *)

ValidateOrgAccess(p) ==
    /\ call[p].pc = "access"
    /\ IF FindByUserAndOrgID(call[p].user, call[p].org) = "none"
       THEN Reply(p)
       ELSE Go(p, "admin")
    /\ UNCHANGED <<org, member, inv, late>>

\* RequireAdmin, and on to the handler of the route.
RequireAdmin(p) ==
    /\ call[p].pc = "admin"
    /\ IF FindByUserAndOrgID(call[p].user, call[p].org) # "admin"
       THEN Reply(p)
       ELSE Go(p, CASE call[p].op = "create" -> "invitee"
                    [] call[p].op = "cancel" -> "lookup"
                    [] OTHER                 -> "organization")
    /\ UNCHANGED <<org, member, inv, late>>

-----------------------------------------------------------------------------
(* CreateInvitation.                                                       *)

\* userRepo.FindByEmail and the membership of the invitee. An error counts as
\* "no member".
CheckInvitee(p) ==
    /\ call[p].pc = "invitee"
    /\ \/ /\ FindByUserAndOrgID(call[p].email, call[p].org) # "none"
          /\ Reply(p)
       \/ /\ FindByUserAndOrgID(call[p].email, call[p].org) = "none" \/ Faulty
          /\ Go(p, "existing")
    /\ UNCHANGED <<org, member, inv, late>>

\* The invitation that the address already has.
CheckExisting(p) ==
    /\ call[p].pc = "existing"
    /\ LET found == FindByOrgAndEmail(call[p].org, call[p].email) IN
       \/ /\ found = {}
          /\ Go(p, "insert")
       \/ \E i \in found :
            IF inv[i].status \in {"pending", "accepted"}
            THEN Reply(p)
            ELSE call' = [call EXCEPT ![p] = [@ EXCEPT !.pc = "remove", !.id = i]]
    /\ UNCHANGED <<org, member, inv, late>>

\* invitationRepo.Delete of the old invitation.
RemoveOld(p) ==
    /\ call[p].pc = "remove"
    /\ inv' = [inv EXCEPT ![call[p].id].status = "deleted"]
    /\ Go(p, "insert")
    /\ UNCHANGED <<org, member, late>>

\* invitationRepo.Create. The constraints of the table refuse a second
\* invitation of the address and an organization that is gone. The e-mail and
\* the reads for its wording follow; their errors are ignored.
InsertInvitation(p) ==
    /\ call[p].pc = "insert"
    /\ IF org[call[p].org] /\ FindByOrgAndEmail(call[p].org, call[p].email) = {}
       THEN /\ \E i \in Unspent :
                 inv' = [inv EXCEPT ![i] = [status |-> "pending", org |-> call[p].org,
                                            email |-> call[p].email,
                                            role |-> call[p].role]]
            /\ Reply(p)
       ELSE /\ Reply(p)
            /\ UNCHANGED inv
    /\ UNCHANGED <<org, member, late>>

-----------------------------------------------------------------------------
(* CancelInvitation.                                                       *)

\* Mutant of FindInOrg: any invitation will do.
AnyOrgMutant(p) ==
    /\ call[p].pc = "lookup"
    /\ IF Exists(call[p].id) THEN Go(p, "cancel") ELSE Reply(p)
    /\ UNCHANGED <<org, member, inv, late>>

\* The invitation must be one of the organization's.
FindInOrg(p) ==
    /\ call[p].pc = "lookup"
    /\ IF Exists(call[p].id) /\ inv[call[p].id].org = call[p].org
       THEN Go(p, "cancel")
       ELSE Reply(p)
    /\ UNCHANGED <<org, member, inv, late>>

\* The status is overwritten, whatever it is.
CancelInvitation(p) ==
    /\ call[p].pc = "cancel"
    /\ UpdateStatus(call[p].id, "cancelled")
    /\ Reply(p)
    /\ UNCHANGED <<org, member, late>>

-----------------------------------------------------------------------------
(* DeleteOrg.                                                              *)

\* The organization is there and the name in the request is its name, or not.
FindOrganization(p) ==
    /\ call[p].pc = "organization"
    /\ \/ org[call[p].org] /\ Go(p, "drop")
       \/ Reply(p)
    /\ UNCHANGED <<org, member, inv, late>>

\* Mutant of DropOrg: no ON DELETE CASCADE on memberships.org_id.
KeepMembersMutant(p) ==
    /\ call[p].pc = "drop"
    /\ LET o == call[p].org IN
       /\ org' = [org EXCEPT ![o] = FALSE]
       /\ inv' = [i \in Ids |-> IF Exists(i) /\ inv[i].org = o
                                THEN [inv[i] EXCEPT !.status = "deleted"]
                                ELSE inv[i]]
    /\ Reply(p)
    /\ UNCHANGED <<member, late>>

\* DELETE FROM organizations: memberships and invitations go with it.
DropOrg(p) ==
    /\ call[p].pc = "drop"
    /\ LET o == call[p].org IN
       /\ org' = [org EXCEPT ![o] = FALSE]
       /\ member' = [member EXCEPT ![o] = [u \in Users |-> "none"]]
       /\ inv' = [i \in Ids |-> IF Exists(i) /\ inv[i].org = o
                                THEN [inv[i] EXCEPT !.status = "deleted"]
                                ELSE inv[i]]
    /\ Reply(p)
    /\ UNCHANGED late

-----------------------------------------------------------------------------
(* AcceptInvitation and RespondToInvitation.                               *)

\* FindByToken, and the checks in the order of AcceptInvitation.
FindByToken(p) ==
    /\ call[p].pc = "token"
    /\ LET i == call[p].id IN
       IF inv[i].status # "pending" THEN Reply(p)
       ELSE IF i \in late THEN Go(p, "expire")
       ELSE IF inv[i].email # call[p].user THEN Reply(p)
       ELSE Go(p, "joined")
    /\ UNCHANGED <<org, member, inv, late>>

\* FindByID, and the checks in the order of RespondToInvitation.
FindByID(p) ==
    /\ call[p].pc = "byId"
    /\ LET i == call[p].id IN
       IF inv[i].email # call[p].user \/ inv[i].status # "pending"
       THEN Reply(p)
       ELSE IF i \in late THEN Go(p, "expire")
       ELSE Go(p, IF call[p].op = "decline" THEN "decline" ELSE "joined")
    /\ UNCHANGED <<org, member, inv, late>>

\* An invitation that is too old is written off.
Expire(p) ==
    /\ call[p].pc = "expire"
    /\ UpdateStatus(call[p].id, "expired")
    /\ Reply(p)
    /\ UNCHANGED <<org, member, late>>

\* The status "declined".
Decline(p) ==
    /\ call[p].pc = "decline"
    /\ UpdateStatus(call[p].id, "declined")
    /\ Reply(p)
    /\ UNCHANGED <<org, member, late>>

\* Is the user a member already? An error counts as "no".
CheckJoined(p) ==
    /\ call[p].pc = "joined"
    /\ LET role == FindByUserAndOrgID(call[p].user, inv[call[p].id].org) IN
       \/ role # "none" /\ Go(p, "already")
       \/ (role = "none" \/ Faulty) /\ Go(p, "join")
    /\ UNCHANGED <<org, member, inv, late>>

MarkAlready(p) ==
    /\ call[p].pc = "already"
    /\ UpdateStatus(call[p].id, "accepted")
    /\ Reply(p)
    /\ UNCHANGED <<org, member, late>>

\* Mutant of CreateMembership: its error is ignored.
IgnoreErrorMutant(p) ==
    /\ call[p].pc = "join"
    /\ LET u == call[p].user
           o == inv[call[p].id].org
       IN  \/ /\ org[o] /\ member[o][u] = "none"
              /\ member' = [member EXCEPT ![o][u] = inv[call[p].id].role]
           \/ UNCHANGED member
    /\ Go(p, "confirm")
    /\ UNCHANGED <<org, inv, late>>

\* Mutant of CreateMembership: the INSERT leaves out the role, and the column's
\* default is 'admin'.
DefaultRoleMutant(p) ==
    /\ call[p].pc = "join"
    /\ LET u == call[p].user
           o == inv[call[p].id].org
       IN  IF org[o] /\ member[o][u] = "none"
           THEN /\ member' = [member EXCEPT ![o][u] = "admin"]
                /\ Go(p, "confirm")
           ELSE /\ Reply(p)
                /\ UNCHANGED member
    /\ UNCHANGED <<org, inv, late>>

\* Mutant of CreateMembership: ON CONFLICT DO UPDATE SET role.
UpsertMutant(p) ==
    /\ call[p].pc = "join"
    /\ LET u == call[p].user
           o == inv[call[p].id].org
       IN  IF org[o]
           THEN /\ member' = [member EXCEPT ![o][u] = inv[call[p].id].role]
                /\ Go(p, "confirm")
           ELSE /\ Reply(p)
                /\ UNCHANGED member
    /\ UNCHANGED <<org, inv, late>>

\* membershipRepo.Create with the role of the invitation as it was read (a row
\* keeps its role). The constraints refuse a second row of the user and an
\* organization that is gone.
CreateMembership(p) ==
    /\ call[p].pc = "join"
    /\ LET u == call[p].user
           o == inv[call[p].id].org
       IN  IF org[o] /\ member[o][u] = "none"
           THEN /\ member' = [member EXCEPT ![o][u] = inv[call[p].id].role]
                /\ Go(p, "confirm")
           ELSE /\ Reply(p)
                /\ UNCHANGED member
    /\ UNCHANGED <<org, inv, late>>

\* invitationRepo.AcceptInvitation: no row, no effect, and no error.
ConfirmAccept(p) ==
    /\ call[p].pc = "confirm"
    /\ UpdateStatus(call[p].id, "accepted")
    /\ Reply(p)
    /\ UNCHANGED <<org, member, late>>

-----------------------------------------------------------------------------
(* Faults and time.                                                        *)

\* A statement fails or the API dies: the rest of the handler does not happen.
CallFails(p) ==
    /\ Faulty
    /\ call[p].pc # "idle"
    /\ Reply(p)
    /\ UNCHANGED <<org, member, inv, late>>

\* Seven days have passed since i was created.
BecomeLate(i) ==
    /\ inv[i].status = "pending"
    /\ i \notin late
    /\ late' = late \cup {i}
    /\ UNCHANGED <<org, member, inv, call>>

-----------------------------------------------------------------------------

InvInit ==
    /\ org = [o \in Orgs |-> TRUE]
    /\ member = [o \in Orgs |-> [u \in Users |->
                    IF u = Founder[o] THEN "admin" ELSE "none"]]
    /\ inv = [i \in Ids |-> Unused]
    /\ late = {}
    /\ call = [p \in Calls |-> NoCall]

Request(p) ==
    \E u \in Users :
        \/ \E v \in Invites : RequestCreate(p, u, v)
        \/ \E o \in Orgs, i \in Ids : RequestCancel(p, u, o, i)
        \/ \E o \in Deletable : RequestDelete(p, u, o)
        \/ \E i \in Ids : RequestAccept(p, u, i)
        \/ \E i \in Ids, op \in {"respond", "decline"} : RequestRespond(p, u, i, op)

Handle(p) ==
    \/ ValidateOrgAccess(p) \/ RequireAdmin(p)
    \/ CheckInvitee(p) \/ CheckExisting(p) \/ RemoveOld(p) \/ InsertInvitation(p)
    \/ FindInOrg(p) \/ CancelInvitation(p)
    \/ FindOrganization(p) \/ DropOrg(p)
    \/ FindByToken(p) \/ FindByID(p) \/ Expire(p) \/ Decline(p)
    \/ CheckJoined(p) \/ MarkAlready(p) \/ CreateMembership(p) \/ ConfirmAccept(p)
    \/ CallFails(p)

InvNext ==
    \/ \E p \in Calls : Request(p) \/ Handle(p)
    \/ \E i \in Ids : BecomeLate(i)

InvSpec == InvInit /\ [][InvNext]_ivars

-----------------------------------------------------------------------------
(* Properties.                                                             *)

\* Every variable has its type.
InvTypeOK ==
    /\ org \in [Orgs -> BOOLEAN]
    /\ member \in [Orgs -> [Users -> Roles \cup {"none"}]]
    /\ inv \in [Ids -> Invitation]
    /\ late \subseteq Ids
    /\ call \in [Calls -> CallState]

\* An invitation says "accepted" only if its addressee is a member: no order of
\* the unconditional UPDATEs of concurrent handlers, and no failure between the
\* two writes of an acceptance, makes it say so too early.
AcceptedIsMember ==
    \A i \in Ids :
        inv[i].status = "accepted" => member[inv[i].org][inv[i].email] # "none"

\* A membership comes from the creation of the organization or from an
\* invitation of that organization to that user with that role.
MembershipEarned ==
    \A o \in Orgs, u \in Users :
        member[o][u] # "none" =>
            \/ u = Founder[o] /\ member[o][u] = "admin"
            \/ \E i \in Ids : /\ inv[i].status # "unused"
                              /\ inv[i].org = o
                              /\ inv[i].email = u
                              /\ inv[i].role = member[o][u]

\* Nothing survives the deletion of its organization, also when an invitation
\* was being created or accepted meanwhile.
DeletedOrgIsEmpty ==
    \A o \in Orgs :
        ~org[o] => /\ \A u \in Users : member[o][u] = "none"
                   /\ \A i \in Ids : inv[i].org = o => ~Exists(i)

\* An invitation is cancelled or removed only on behalf of an admin of its
\* organization, although ValidateOrgAccess and RequireAdmin looked at the
\* X-Org-ID header and the handler at the id in the path.
WithdrawnByAdmin ==
    [][\A i \in Ids :
          /\ Exists(i)
          /\ inv'[i].status # inv[i].status
          /\ inv'[i].status \in {"cancelled", "deleted"}
          => \E p \in Calls : /\ call[p].pc \in {"cancel", "remove", "drop"}
                              /\ call[p].org = inv[i].org
                              /\ member[inv[i].org][call[p].user] = "admin"]_ivars

\* A membership is changed by the deletion of its organization and by nothing
\* else: of two acceptances that overlap, of an invitation and of the one that
\* replaced it with another role, the second does not touch what the first gave
\* (CheckJoined of either may come before both INSERTs).
MembershipKept ==
    [][\A o \in Orgs, u \in Users :
          member[o][u] # "none" /\ member'[o][u] # member[o][u] => ~org'[o]]_ivars

\* Members page, of a cancelled invitation: "They will no longer be able to join
\* using this invitation". Nobody becomes a member by an acceptance of it.
CancelledCannotJoin ==
    [][\A p \in Calls :
          call[p].pc = "join" /\ inv[call[p].id].status = "cancelled"
          => LET o == inv[call[p].id].org IN
             member'[o][call[p].user] = member[o][call[p].user]]_ivars
=============================================================================
