------------------------- MODULE InvitationsProofs --------------------------
(***************************************************************************)
(* Proofs about module Invitations, for any number of users, organizations *)
(* and concurrent requests, with failing statements.                       *)
(***************************************************************************)
EXTENDS Invitations, TLAPS

-----------------------------------------------------------------------------
(* The inductive invariant.                                                *)

\* A row that was inserted is complete.
RowComplete(i) ==
    inv[i].status # "unused" =>
        inv[i].org \in Orgs /\ inv[i].email \in Users /\ inv[i].role \in Roles

\* Steps that follow the checks of the middleware, and steps about one invitation.
Cleared == {"invitee", "existing", "remove", "insert", "lookup", "cancel",
            "organization", "drop"}
OnInvitation == {"remove", "lookup", "cancel", "token", "byId", "expire",
                 "decline", "joined", "already", "join", "confirm"}

\* What request p may rely on.
CallFacts(p) ==
    LET c == call[p] IN
    /\ c.pc # "idle" => c.user \in Users
    /\ c.pc \in {"access", "admin"} \cup Cleared => c.org \in Orgs
    /\ c.pc \in {"invitee", "existing", "remove", "insert"}
       \/ (c.pc \in {"access", "admin"} /\ c.op = "create")
       => c.email \in Users /\ c.role \in Roles
    /\ c.pc \in OnInvitation \/ (c.pc \in {"access", "admin"} /\ c.op = "cancel")
       => c.id \in Ids /\ inv[c.id].status # "unused"
    /\ c.pc \in Cleared => ~org[c.org] \/ member[c.org][c.user] = "admin"
    /\ c.pc \in {"remove", "cancel"} => inv[c.id].org = c.org
    /\ c.pc \in {"joined", "already", "join", "confirm"} => inv[c.id].email = c.user
    /\ c.pc \in {"already", "confirm"} /\ Exists(c.id) =>
           member[inv[c.id].org][c.user] # "none"

InvInv ==
    /\ InvTypeOK
    /\ \A i \in Ids : RowComplete(i)
    /\ AcceptedIsMember
    /\ MembershipEarned
    /\ DeletedOrgIsEmpty
    /\ \A p \in Calls : CallFacts(p)

\* How a step may change the tables: rows only gain, lose or change a status, a
\* row never comes back, and a membership only goes with its organization.
Monotone ==
    /\ \A i \in Ids : inv[i].status # "unused" =>
          /\ inv'[i].status # "unused"
          /\ inv'[i].org = inv[i].org
          /\ inv'[i].email = inv[i].email
          /\ inv'[i].role = inv[i].role
          /\ Exists(i)' => Exists(i) /\ org'[inv[i].org]
    /\ \A o \in Orgs : org'[o] => org[o]
    /\ \A o \in Orgs, u \in Users :
          org'[o] /\ member[o][u] # "none" => member'[o][u] = member[o][u]

-----------------------------------------------------------------------------

\* The invariant holds initially.
LEMMA InvHoldsInitially == InvInit => InvInv
  <1> SUFFICES ASSUME InvInit PROVE InvInv
    OBVIOUS
  <1>1. InvTypeOK
    BY InvitationsAssumption DEF InvInit, InvTypeOK, Invitation, Unused, CallState,
       NoCall, Steps, Roles
  <1>2. \A i \in Ids : RowComplete(i)
    BY DEF InvInit, RowComplete, Unused
  <1>3. AcceptedIsMember /\ DeletedOrgIsEmpty
    BY DEF InvInit, AcceptedIsMember, DeletedOrgIsEmpty, Unused, Exists, InvitationStatus
  <1>4. MembershipEarned
    BY DEF InvInit, MembershipEarned
  <1>5. ASSUME NEW p \in Calls PROVE CallFacts(p)
    BY DEF InvInit, CallFacts, NoCall, Cleared, OnInvitation
  <1> QED
    BY <1>1, <1>2, <1>3, <1>4, <1>5 DEF InvInv

\* Nothing a request relies on is lost by a step of another request.
LEMMA CallKept ==
    ASSUME InvInv, InvTypeOK', Monotone, NEW q \in Calls, call'[q] = call[q]
    PROVE  CallFacts(q)'
  <1> DEFINE c == call[q]
  <1>1. CallFacts(q) /\ \A i \in Ids : RowComplete(i)
    BY DEF InvInv
  <1>2. c.pc \in Cleared => ~org'[c.org] \/ member'[c.org][c.user] = "admin"
    BY <1>1 DEF CallFacts, Monotone, Cleared
  <1>3. c.pc \in OnInvitation \/ (c.pc \in {"access", "admin"} /\ c.op = "cancel")
        => /\ c.id \in Ids
           /\ inv'[c.id].status # "unused"
           /\ inv'[c.id].org = inv[c.id].org
           /\ inv'[c.id].email = inv[c.id].email
    BY <1>1 DEF CallFacts, Monotone
  <1>4. ASSUME c.pc \in {"already", "confirm"}, inv'[c.id].status \in InvitationStatus
        PROVE  member'[inv'[c.id].org][c.user] # "none"
    <2>1. c.id \in Ids /\ inv[c.id].status # "unused" /\ c.user \in Users
      BY <1>1, <1>4 DEF CallFacts, OnInvitation
    <2>2. inv[c.id].org \in Orgs /\ inv'[c.id].org = inv[c.id].org
      BY <1>1, <2>1 DEF RowComplete, Monotone
    <2>3. inv[c.id].status \in InvitationStatus /\ org'[inv[c.id].org]
      BY <1>4, <2>1 DEF Monotone, Exists
    <2>4. member[inv[c.id].org][c.user] # "none"
      BY <1>1, <1>4, <2>3 DEF CallFacts, Exists
    <2> QED
      BY <2>1, <2>2, <2>3, <2>4 DEF Monotone
  <1>5. c.pc \in OnInvitation => inv'[c.id].status # "unused"
    BY <1>3
  <1> HIDE DEF c
  <1> QED
    BY <1>1, <1>2, <1>3, <1>4, <1>5 DEF CallFacts, Exists, OnInvitation, Cleared, c

\* A step that only moves request p.
LEMMA CallMoves ==
    ASSUME InvInv, NEW p \in Calls, InvTypeOK', UNCHANGED <<org, member, inv>>,
           \A q \in Calls \ {p} : call'[q] = call[q], CallFacts(p)'
    PROVE  InvInv'
  <1>1. Monotone
    BY DEF Monotone, Exists, InvInv, DeletedOrgIsEmpty, RowComplete
  <1>2. ASSUME NEW q \in Calls PROVE CallFacts(q)'
    BY <1>1, CallKept
  <1> QED
    BY <1>2 DEF InvInv, RowComplete, AcceptedIsMember, MembershipEarned,
       DeletedOrgIsEmpty, Exists

\* A request that has been answered relies on nothing.
LEMMA Answered ==
    ASSUME InvTypeOK, NEW p \in Calls, Reply(p)
    PROVE  /\ call' \in [Calls -> CallState]
           /\ CallFacts(p)'
           /\ \A q \in Calls \ {p} : call'[q] = call[q]
  <1>1. call' = [call EXCEPT ![p] = NoCall] /\ NoCall \in CallState
    BY DEF Reply, NoCall, CallState, Steps
  <1>2. call'[p] = NoCall
    BY <1>1 DEF InvTypeOK
  <1> QED
    BY <1>1, <1>2 DEF InvTypeOK, CallFacts, NoCall, Cleared, OnInvitation

\* A request that goes on keeps its data.
LEMMA GoesOn ==
    ASSUME InvTypeOK, NEW p \in Calls, NEW pc \in Steps, Go(p, pc)
    PROVE  /\ call' \in [Calls -> CallState]
           /\ call'[p] = [call[p] EXCEPT !.pc = pc]
           /\ \A q \in Calls \ {p} : call'[q] = call[q]
  BY DEF InvTypeOK, Go, CallState

\* What p may rely on after it went on from one step to another.
LEMMA FactsAfterGo ==
    ASSUME InvTypeOK, NEW p \in Calls, NEW pc \in Steps, Go(p, pc),
           UNCHANGED <<org, member, inv>>, CallFacts(p), call[p].pc # "idle",
           pc \in Cleared =>
              /\ call[p].org \in Orgs
              /\ ~org[call[p].org] \/ member[call[p].org][call[p].user] = "admin",
           pc = "admin" => call[p].pc = "access",
           pc \in {"invitee", "existing", "remove", "insert"} =>
              call[p].email \in Users /\ call[p].role \in Roles,
           pc \in OnInvitation => call[p].id \in Ids /\ inv[call[p].id].status # "unused",
           pc \in {"remove", "cancel"} => inv[call[p].id].org = call[p].org,
           pc \in {"joined", "already", "join", "confirm"} =>
              inv[call[p].id].email = call[p].user,
           pc \in {"already", "confirm"} =>
              member[inv[call[p].id].org][call[p].user] # "none",
           pc # "access"
    PROVE  CallFacts(p)'
  <1>1. call'[p] = [call[p] EXCEPT !.pc = pc]
    BY GoesOn
  <1>2. /\ call'[p].pc = pc
        /\ call'[p].op = call[p].op
        /\ call'[p].user = call[p].user
        /\ call'[p].org = call[p].org
        /\ call'[p].email = call[p].email
        /\ call'[p].role = call[p].role
        /\ call'[p].id = call[p].id
    BY <1>1 DEF InvTypeOK, CallState
  <1>3. org' = org /\ member' = member /\ inv' = inv
    OBVIOUS
  <1>4. call[p].user \in Users
    BY DEF CallFacts
  <1>5. pc \in {"access", "admin"} \cup Cleared => call[p].org \in Orgs
    <2>1. CASE pc \in Cleared
      BY <2>1
    <2>2. CASE pc = "admin"
      <3>1. call[p].pc = "access"
        BY <2>2
      <3> QED
        BY <3>1 DEF CallFacts
    <2> QED
      BY <2>1, <2>2
  <1>6. pc \in {"access", "admin"} /\ call[p].op = "create"
        => call[p].email \in Users /\ call[p].role \in Roles
    BY DEF CallFacts, Cleared
  <1>7. pc \in {"access", "admin"} /\ call[p].op = "cancel"
        => call[p].id \in Ids /\ inv[call[p].id].status # "unused"
    BY DEF CallFacts
  <1> QED
    BY <1>2, <1>3, <1>4, <1>5, <1>6, <1>7 DEF CallFacts, Exists

-----------------------------------------------------------------------------
(* Steps that leave the tables alone.                                      *)

\* A request starts.
LEMMA InvRequest ==
    ASSUME InvInv, NEW p \in Calls, Request(p)
    PROVE  InvInv'
  <1>1. PICK op \in Ops, pc \in {"access", "token", "byId"}, u \in Users,
             o \in Orgs \cup {NULL}, e \in Users \cup {NULL},
             r \in Roles \cup {NULL}, i \in Ids \cup {NULL} :
          /\ Start(p, op, pc, u, o, e, r, i)
          /\ pc = "access" => o \in Orgs
          /\ op = "create" => e \in Users /\ r \in Roles
          /\ op = "cancel" \/ pc # "access" => i \in Ids /\ inv[i].status # "unused"
    <2>1. PICK u \in Users :
            \/ \E v \in Invites : RequestCreate(p, u, v)
            \/ \E o \in Orgs, i \in Ids : RequestCancel(p, u, o, i)
            \/ \E o \in Deletable : RequestDelete(p, u, o)
            \/ \E i \in Ids : RequestAccept(p, u, i)
            \/ \E i \in Ids, op \in {"respond", "decline"} : RequestRespond(p, u, i, op)
      BY DEF Request
    <2>2. CASE \E v \in Invites : RequestCreate(p, u, v)
      BY <2>2, InvitationsAssumption DEF RequestCreate, Ops, Roles
    <2>3. CASE \E o \in Orgs, i \in Ids : RequestCancel(p, u, o, i)
      BY <2>3 DEF RequestCancel, Ops
    <2>4. CASE \E o \in Deletable : RequestDelete(p, u, o)
      BY <2>4, InvitationsAssumption DEF RequestDelete, Ops
    <2>5. CASE \E i \in Ids : RequestAccept(p, u, i)
      BY <2>5 DEF RequestAccept, Ops
    <2>6. CASE \E i \in Ids, op \in {"respond", "decline"} : RequestRespond(p, u, i, op)
      BY <2>6 DEF RequestRespond, Ops
    <2> QED
      BY <2>1, <2>2, <2>3, <2>4, <2>5, <2>6
  <1> DEFINE c == [pc |-> pc, op |-> op, user |-> u, org |-> o, email |-> e,
                   role |-> r, id |-> i]
  <1>2. /\ call' = [call EXCEPT ![p] = c]
        /\ UNCHANGED <<org, member, inv, late>>
        /\ c \in CallState
    BY <1>1 DEF Start, CallState, Steps
  <1>3. call'[p] = c /\ InvTypeOK'
    BY <1>2 DEF InvInv, InvTypeOK
  <1>4. CallFacts(p)'
    BY <1>1, <1>2, <1>3 DEF CallFacts, Cleared, OnInvitation
  <1>5. \A q \in Calls \ {p} : call'[q] = call[q]
    BY <1>2 DEF InvInv, InvTypeOK
  <1> QED
    BY <1>2, <1>3, <1>4, <1>5, CallMoves

\* A request is answered without a write.
LEMMA InvReply ==
    ASSUME InvInv, NEW p \in Calls, Reply(p), UNCHANGED <<org, member, inv, late>>
    PROVE  InvInv'
  <1>1. InvTypeOK
    BY DEF InvInv
  <1>2. InvTypeOK'
    BY <1>1, Answered DEF InvTypeOK
  <1> QED
    BY <1>1, <1>2, Answered, CallMoves

\* A request goes on without a write.
LEMMA InvGo ==
    ASSUME InvInv, NEW p \in Calls, NEW pc \in Steps, Go(p, pc),
           UNCHANGED <<org, member, inv, late>>, CallFacts(p)'
    PROVE  InvInv'
  <1>1. InvTypeOK
    BY DEF InvInv
  <1>2. InvTypeOK'
    BY <1>1, GoesOn DEF InvTypeOK
  <1> QED
    BY <1>1, <1>2, GoesOn, CallMoves

\* The checks of the middleware and the reads of the handlers.
LEMMA InvRead ==
    ASSUME InvInv, NEW p \in Calls,
           \/ ValidateOrgAccess(p) \/ RequireAdmin(p)
           \/ CheckInvitee(p) \/ CheckExisting(p) \/ FindInOrg(p)
           \/ FindOrganization(p) \/ FindByToken(p) \/ FindByID(p)
           \/ CheckJoined(p) \/ CallFails(p)
    PROVE  InvInv'
  <1>1. /\ InvTypeOK
        /\ CallFacts(p)
        /\ \A i \in Ids : RowComplete(i)
    BY DEF InvInv
  <1>2. UNCHANGED <<org, member, inv, late>>
    BY DEF ValidateOrgAccess, RequireAdmin, CheckInvitee, CheckExisting, FindInOrg,
       FindOrganization, FindByToken, FindByID, CheckJoined, CallFails
  <1>3. CASE Reply(p)
    BY <1>2, <1>3, InvReply
  <1>4. CASE ValidateOrgAccess(p) /\ Go(p, "admin")
    <2>1. "admin" \in Steps /\ call[p].pc = "access"
      BY <1>4 DEF Steps, ValidateOrgAccess
    <2>2. CallFacts(p)'
      BY <1>1, <1>2, <1>4, <2>1, FactsAfterGo DEF CallFacts, Cleared, OnInvitation
    <2> QED
      BY <1>2, <1>4, <2>1, <2>2, InvGo
  <1>5. CASE RequireAdmin(p) /\ ~Reply(p)
    <2>1. PICK pc \in {"invitee", "lookup", "organization"} :
            /\ Go(p, pc)
            /\ pc = "invitee" => call[p].op = "create"
            /\ pc = "lookup" => call[p].op = "cancel"
      BY <1>5 DEF RequireAdmin
    <2>2. call[p].pc = "admin" /\ member[call[p].org][call[p].user] = "admin" /\ pc \in Steps
      BY <1>5 DEF RequireAdmin, FindByUserAndOrgID, Steps
    <2>3. CallFacts(p)'
      BY <1>1, <1>2, <2>1, <2>2, FactsAfterGo DEF CallFacts, Cleared, OnInvitation
    <2> QED
      BY <1>2, <2>1, <2>2, <2>3, InvGo
  <1>6. CASE CheckInvitee(p) /\ Go(p, "existing")
    <2>1. "existing" \in Steps /\ call[p].pc = "invitee"
      BY <1>6 DEF Steps, CheckInvitee
    <2>2. CallFacts(p)'
      BY <1>1, <1>2, <1>6, <2>1, FactsAfterGo DEF CallFacts, Cleared, OnInvitation
    <2> QED
      BY <1>2, <1>6, <2>1, <2>2, InvGo
  <1>7. CASE CheckExisting(p) /\ Go(p, "insert")
    <2>1. "insert" \in Steps /\ call[p].pc = "existing"
      BY <1>7 DEF Steps, CheckExisting
    <2>2. CallFacts(p)'
      BY <1>1, <1>2, <1>7, <2>1, FactsAfterGo DEF CallFacts, Cleared, OnInvitation
    <2> QED
      BY <1>2, <1>7, <2>1, <2>2, InvGo
  <1>8. CASE CheckExisting(p) /\ ~Go(p, "insert") /\ ~Reply(p)
    <2>1. PICK i \in FindByOrgAndEmail(call[p].org, call[p].email) :
            call' = [call EXCEPT ![p] = [@ EXCEPT !.pc = "remove", !.id = i]]
      BY <1>8 DEF CheckExisting
    <2>2. call[p].pc = "existing" /\ i \in Ids /\ Exists(i) /\ inv[i].org = call[p].org
      BY <1>8, <2>1 DEF CheckExisting, FindByOrgAndEmail
    <2>3. /\ call'[p] = [call[p] EXCEPT !.pc = "remove", !.id = i]
          /\ call' \in [Calls -> CallState]
          /\ \A q \in Calls \ {p} : call'[q] = call[q]
      <3>1. [call[p] EXCEPT !.pc = "remove", !.id = i] \in CallState
        BY <1>1, <2>2 DEF InvTypeOK, CallState, Steps
      <3> QED
        BY <1>1, <2>1, <3>1 DEF InvTypeOK
    <2>4. InvTypeOK'
      BY <1>1, <1>2, <2>3 DEF InvTypeOK
    <2>5. /\ call'[p].pc = "remove"
          /\ call'[p].user = call[p].user
          /\ call'[p].org = call[p].org
          /\ call'[p].email = call[p].email
          /\ call'[p].role = call[p].role
          /\ call'[p].id = i
          /\ inv[i].status # "unused"
      BY <1>1, <2>2, <2>3 DEF InvTypeOK, CallState, Exists, InvitationStatus
    <2>6. CallFacts(p)'
      BY <1>1, <1>2, <2>2, <2>5 DEF CallFacts, Cleared, OnInvitation, Exists
    <2> QED
      BY <1>2, <2>3, <2>4, <2>6, CallMoves
  <1>9. CASE FindInOrg(p) /\ Go(p, "cancel")
    <2>1. /\ "cancel" \in Steps
          /\ call[p].pc = "lookup"
          /\ inv[call[p].id].org = call[p].org \/ Reply(p)
      BY <1>9 DEF Steps, FindInOrg
    <2>2. CASE ~Reply(p)
      <3>1. CallFacts(p)'
        BY <1>1, <1>2, <1>9, <2>1, <2>2, FactsAfterGo DEF CallFacts, Cleared, OnInvitation
      <3> QED
        BY <1>2, <1>9, <2>1, <3>1, InvGo
    <2> QED
      BY <1>3, <2>2
  <1>10. CASE FindOrganization(p) /\ Go(p, "drop")
    <2>1. "drop" \in Steps /\ call[p].pc = "organization"
      BY <1>10 DEF Steps, FindOrganization
    <2>2. CallFacts(p)'
      BY <1>1, <1>2, <1>10, <2>1, FactsAfterGo DEF CallFacts, Cleared, OnInvitation
    <2> QED
      BY <1>2, <1>10, <2>1, <2>2, InvGo
  <1>11. CASE FindByToken(p) \/ FindByID(p)
    <2>1. CASE ~Reply(p)
      <3>1. PICK pc \in {"expire", "decline", "joined"} :
              /\ Go(p, pc)
              /\ pc = "joined" => inv[call[p].id].email = call[p].user
        BY <1>11, <2>1 DEF FindByToken, FindByID
      <3>2. call[p].pc \in {"token", "byId"} /\ pc \in Steps
        BY <1>11 DEF FindByToken, FindByID, Steps
      <3>3. CallFacts(p)'
        BY <1>1, <1>2, <3>1, <3>2, FactsAfterGo DEF CallFacts, Cleared, OnInvitation
      <3> QED
        BY <1>2, <3>1, <3>2, <3>3, InvGo
    <2> QED
      BY <1>3, <2>1
  <1>12. CASE CheckJoined(p)
    <2>1. PICK pc \in {"already", "join"} :
            /\ Go(p, pc)
            /\ pc = "already" => member[inv[call[p].id].org][call[p].user] # "none"
      BY <1>12 DEF CheckJoined, FindByUserAndOrgID
    <2>2. call[p].pc = "joined" /\ pc \in Steps
      BY <1>12 DEF CheckJoined, Steps
    <2>3. CallFacts(p)'
      BY <1>1, <1>2, <2>1, <2>2, FactsAfterGo DEF CallFacts, Cleared, OnInvitation
    <2> QED
      BY <1>2, <2>1, <2>2, <2>3, InvGo
  <1>13. CASE ValidateOrgAccess(p)
    BY <1>3, <1>4, <1>13 DEF ValidateOrgAccess
  <1>14. CASE CheckInvitee(p)
    BY <1>3, <1>6, <1>14 DEF CheckInvitee
  <1>15. CASE FindInOrg(p) \/ FindOrganization(p)
    BY <1>3, <1>9, <1>10, <1>15 DEF FindInOrg, FindOrganization
  <1>16. CASE CallFails(p)
    BY <1>3, <1>16 DEF CallFails
  <1> QED
    BY <1>3, <1>5, <1>7, <1>8, <1>11, <1>12, <1>13, <1>14, <1>15, <1>16

-----------------------------------------------------------------------------
(* Steps that write to the tables.                                         *)

\* The parts of the invariant, put together.
LEMMA TablesMove ==
    ASSUME InvInv, NEW p \in Calls, InvTypeOK', Monotone,
           \A q \in Calls \ {p} : call'[q] = call[q], CallFacts(p)',
           \A i \in Ids : RowComplete(i)', AcceptedIsMember', MembershipEarned',
           DeletedOrgIsEmpty'
    PROVE  InvInv'
  <1>1. ASSUME NEW q \in Calls PROVE CallFacts(q)'
    BY CallKept
  <1> QED
    BY <1>1 DEF InvInv

\* A handler ends with invitationRepo.UpdateStatus or AcceptInvitation.
LEMMA InvStatus ==
    ASSUME InvInv, NEW p \in Calls, NEW i \in Ids, NEW st,
           inv[i].status # "unused", UpdateStatus(i, st), Reply(p),
           UNCHANGED <<org, member, late>>,
           st = "accepted" /\ Exists(i) => member[inv[i].org][inv[i].email] # "none"
    PROVE  InvInv'
  <1>1. /\ InvTypeOK
        /\ \A j \in Ids : RowComplete(j)
        /\ AcceptedIsMember /\ MembershipEarned /\ DeletedOrgIsEmpty
    BY DEF InvInv
  <1>2. /\ inv' \in [Ids -> Invitation]
        /\ \A j \in Ids : /\ inv'[j].org = inv[j].org
                          /\ inv'[j].email = inv[j].email
                          /\ inv'[j].role = inv[j].role
                          /\ inv'[j].status # inv[j].status =>
                               /\ j = i
                               /\ inv[j].status \in InvitationStatus
                               /\ inv'[j].status \in InvitationStatus
                               /\ inv'[j].status = st
    BY <1>1 DEF UpdateStatus, Exists, InvTypeOK, Invitation
  <1>3. InvTypeOK'
    BY <1>1, <1>2, Answered DEF InvTypeOK
  <1>4. /\ \A j \in Ids : RowComplete(j)'
        /\ DeletedOrgIsEmpty'
    BY <1>1, <1>2 DEF RowComplete, DeletedOrgIsEmpty, Exists, InvitationStatus
  <1>5. MembershipEarned'
    BY <1>1, <1>2 DEF MembershipEarned, InvitationStatus
  <1>6. AcceptedIsMember'
    BY <1>1, <1>2 DEF AcceptedIsMember, Exists
  <1>7. Monotone
    BY <1>1, <1>2 DEF Monotone, Exists, RowComplete, DeletedOrgIsEmpty, InvitationStatus
  <1> QED
    BY <1>1, <1>3, <1>4, <1>5, <1>6, <1>7, Answered, TablesMove

\* The old invitation is removed.
LEMMA InvRemove ==
    ASSUME InvInv, NEW p \in Calls, RemoveOld(p)
    PROVE  InvInv'
  <1>1. /\ InvTypeOK
        /\ \A j \in Ids : RowComplete(j)
        /\ AcceptedIsMember /\ MembershipEarned /\ DeletedOrgIsEmpty
        /\ CallFacts(p)
    BY DEF InvInv
  <1> DEFINE i == call[p].id
  <1>2. /\ call[p].pc = "remove" /\ Go(p, "insert")
        /\ UNCHANGED <<org, member, late>>
        /\ i \in Ids /\ inv[i].status # "unused"
        /\ inv' = [inv EXCEPT ![i].status = "deleted"]
    BY <1>1 DEF RemoveOld, CallFacts, OnInvitation
  <1>3. "insert" \in Steps
    BY DEF Steps
  <1>4. /\ inv' \in [Ids -> Invitation]
        /\ \A j \in Ids : /\ inv'[j].org = inv[j].org
                          /\ inv'[j].email = inv[j].email
                          /\ inv'[j].role = inv[j].role
                          /\ inv'[j].status # inv[j].status =>
                               j = i /\ inv'[j].status = "deleted"
    BY <1>1, <1>2 DEF InvTypeOK, Invitation
  <1>5. InvTypeOK'
    BY <1>1, <1>2, <1>3, <1>4, GoesOn DEF InvTypeOK
  <1>6. /\ \A j \in Ids : RowComplete(j)'
        /\ DeletedOrgIsEmpty' /\ AcceptedIsMember' /\ MembershipEarned'
    BY <1>1, <1>2, <1>4 DEF RowComplete, DeletedOrgIsEmpty, AcceptedIsMember,
       MembershipEarned, Exists, InvitationStatus
  <1>7. Monotone
    BY <1>1, <1>2, <1>4 DEF Monotone, Exists, RowComplete, DeletedOrgIsEmpty, InvitationStatus
  <1>8. CallFacts(p)'
    <2>1. call'[p] = [call[p] EXCEPT !.pc = "insert"]
      BY <1>1, <1>2, <1>3, GoesOn
    <2>2. /\ call'[p].pc = "insert"
          /\ call'[p].user = call[p].user
          /\ call'[p].org = call[p].org
          /\ call'[p].email = call[p].email
          /\ call'[p].role = call[p].role
      BY <1>1, <2>1 DEF InvTypeOK, CallState
    <2> QED
      BY <1>1, <1>2, <2>2 DEF CallFacts, Cleared, OnInvitation
  <1> QED
    BY <1>1, <1>2, <1>3, <1>5, <1>6, <1>7, <1>8, GoesOn, TablesMove

\* The new invitation is inserted.
LEMMA InvInsert ==
    ASSUME InvInv, NEW p \in Calls, InsertInvitation(p)
    PROVE  InvInv'
  <1>1. /\ InvTypeOK
        /\ \A j \in Ids : RowComplete(j)
        /\ AcceptedIsMember /\ MembershipEarned /\ DeletedOrgIsEmpty
        /\ CallFacts(p)
    BY DEF InvInv
  <1>2. CASE UNCHANGED inv
    BY <1>2, InvReply DEF InsertInvitation
  <1>3. CASE ~UNCHANGED inv
    <2> DEFINE row == [status |-> "pending", org |-> call[p].org,
                       email |-> call[p].email, role |-> call[p].role]
    <2>1. PICK i \in Unspent : inv' = [inv EXCEPT ![i] = row]
      BY <1>3 DEF InsertInvitation
    <2>2. /\ call[p].pc = "insert" /\ org[call[p].org] /\ Reply(p)
          /\ UNCHANGED <<org, member, late>>
          /\ i \in Ids /\ inv[i].status = "unused"
      BY <1>3, <2>1 DEF InsertInvitation, Unspent
    <2>3. /\ call[p].org \in Orgs /\ call[p].email \in Users /\ call[p].role \in Roles
      BY <1>1, <2>2 DEF CallFacts, Cleared
    <2>4. row \in Invitation
      BY <2>3 DEF Invitation, InvitationStatus
    <2>5. /\ inv' \in [Ids -> Invitation]
          /\ inv'[i] = row
          /\ \A j \in Ids \ {i} : inv'[j] = inv[j]
      BY <1>1, <2>1, <2>2, <2>4 DEF InvTypeOK
    <2>6. InvTypeOK'
      BY <1>1, <2>2, <2>5, Answered DEF InvTypeOK
    <2>7. /\ \A j \in Ids : RowComplete(j)'
          /\ DeletedOrgIsEmpty' /\ AcceptedIsMember'
      BY <1>1, <2>2, <2>3, <2>5 DEF RowComplete, DeletedOrgIsEmpty, AcceptedIsMember, Exists
    <2>8. MembershipEarned'
      <3>1. \A j \in Ids : inv[j].status # "unused" => inv'[j] = inv[j]
        BY <2>2, <2>5
      <3> QED
        BY <1>1, <2>2, <3>1 DEF MembershipEarned
    <2>9. Monotone
      BY <1>1, <2>2, <2>5 DEF Monotone, Exists, RowComplete, DeletedOrgIsEmpty, InvitationStatus
    <2> QED
      BY <1>1, <2>2, <2>6, <2>7, <2>8, <2>9, Answered, TablesMove
  <1> QED
    BY <1>2, <1>3

\* The organization is deleted, with its memberships and invitations.
LEMMA InvDrop ==
    ASSUME InvInv, NEW p \in Calls, DropOrg(p)
    PROVE  InvInv'
  <1>1. /\ InvTypeOK
        /\ \A j \in Ids : RowComplete(j)
        /\ AcceptedIsMember /\ MembershipEarned /\ DeletedOrgIsEmpty
        /\ CallFacts(p)
    BY DEF InvInv
  <1> DEFINE o == call[p].org
  <1>2. /\ call[p].pc = "drop" /\ Reply(p) /\ UNCHANGED late
        /\ org' = [org EXCEPT ![o] = FALSE]
        /\ member' = [member EXCEPT ![o] = [u \in Users |-> "none"]]
        /\ inv' = [i \in Ids |-> IF Exists(i) /\ inv[i].org = o
                                 THEN [inv[i] EXCEPT !.status = "deleted"]
                                 ELSE inv[i]]
    BY DEF DropOrg
  <1>3. o \in Orgs
    BY <1>1, <1>2 DEF CallFacts, Cleared
  <1> HIDE DEF o
  <1>4. /\ org' \in [Orgs -> BOOLEAN]
        /\ ~org'[o]
        /\ \A x \in Orgs \ {o} : org'[x] = org[x]
    BY <1>1, <1>2, <1>3 DEF InvTypeOK
  <1>5. /\ member' \in [Orgs -> [Users -> Roles \cup {"none"}]]
        /\ \A u \in Users : member'[o][u] = "none"
        /\ \A x \in Orgs \ {o} : member'[x] = member[x]
    BY <1>1, <1>2, <1>3 DEF InvTypeOK
  <1>6. /\ inv' \in [Ids -> Invitation]
        /\ \A j \in Ids : /\ inv'[j].org = inv[j].org
                          /\ inv'[j].email = inv[j].email
                          /\ inv'[j].role = inv[j].role
                          /\ inv'[j].status # inv[j].status =>
                               inv[j].status # "unused" /\ inv'[j].status = "deleted"
                          /\ inv[j].org = o => inv'[j].status \notin InvitationStatus
    <2>1. ASSUME NEW j \in Ids, inv[j].status \in InvitationStatus, inv[j].org = o
          PROVE  /\ inv'[j] = [inv[j] EXCEPT !.status = "deleted"]
                 /\ inv'[j] \in Invitation
                 /\ inv'[j].status = "deleted"
                 /\ inv'[j].org = inv[j].org
                 /\ inv'[j].email = inv[j].email
                 /\ inv'[j].role = inv[j].role
      BY <1>1, <1>2, <2>1 DEF InvTypeOK, Invitation, Exists
    <2>2. ASSUME NEW j \in Ids, ~(inv[j].status \in InvitationStatus /\ inv[j].org = o)
          PROVE  inv'[j] = inv[j]
      BY <1>2, <2>2 DEF Exists
    <2>3. ASSUME NEW j \in Ids PROVE inv'[j] \in Invitation
      BY <1>1, <2>1, <2>2 DEF InvTypeOK
    <2>4. inv' \in [Ids -> Invitation]
      BY <1>2, <2>3
    <2> QED
      BY <2>1, <2>2, <2>4 DEF InvitationStatus
  <1>7. InvTypeOK'
    BY <1>1, <1>2, <1>4, <1>5, <1>6, Answered DEF InvTypeOK
  <1>8. \A j \in Ids : RowComplete(j)'
    BY <1>1, <1>6 DEF RowComplete
  <1>9. AcceptedIsMember'
    <2> SUFFICES ASSUME NEW j \in Ids, inv'[j].status = "accepted"
                 PROVE  member'[inv'[j].org][inv'[j].email] # "none"
      BY DEF AcceptedIsMember
    <2>1. inv[j].status = "accepted" /\ inv[j].org # o
      BY <1>6 DEF InvitationStatus
    <2>2. inv[j].org \in Orgs
      BY <1>1, <2>1 DEF RowComplete
    <2> QED
      BY <1>1, <1>5, <1>6, <2>1, <2>2 DEF AcceptedIsMember
  <1>10. MembershipEarned'
    <2> SUFFICES ASSUME NEW x \in Orgs, NEW u \in Users, member'[x][u] # "none"
                 PROVE  \/ u = Founder[x] /\ member'[x][u] = "admin"
                        \/ \E i \in Ids : /\ inv'[i].status # "unused"
                                          /\ inv'[i].org = x
                                          /\ inv'[i].email = u
                                          /\ inv'[i].role = member'[x][u]
      BY DEF MembershipEarned
    <2>1. member'[x][u] = member[x][u]
      BY <1>5
    <2> QED
      BY <1>1, <1>6, <2>1 DEF MembershipEarned
  <1>11. DeletedOrgIsEmpty'
    BY <1>1, <1>3, <1>4, <1>5, <1>6 DEF DeletedOrgIsEmpty, Exists, InvitationStatus
  <1>12. Monotone
    BY <1>1, <1>3, <1>4, <1>5, <1>6 DEF Monotone, Exists, RowComplete, DeletedOrgIsEmpty,
       InvitationStatus
  <1> QED
    BY <1>1, <1>2, <1>7, <1>8, <1>9, <1>10, <1>11, <1>12, Answered, TablesMove

\* The addressee becomes a member.
LEMMA InvJoin ==
    ASSUME InvInv, NEW p \in Calls, CreateMembership(p)
    PROVE  InvInv'
  <1>1. /\ InvTypeOK
        /\ \A j \in Ids : RowComplete(j)
        /\ AcceptedIsMember /\ MembershipEarned /\ DeletedOrgIsEmpty
        /\ CallFacts(p)
    BY DEF InvInv
  <1> DEFINE i == call[p].id
             o == inv[i].org
             u == call[p].user
  <1>2. /\ call[p].pc = "join"
        /\ i \in Ids /\ inv[i].status # "unused"
        /\ u \in Users /\ inv[i].email = u
    BY <1>1 DEF CreateMembership, CallFacts, OnInvitation
  <1>3. o \in Orgs /\ inv[i].role \in Roles
    BY <1>1, <1>2 DEF RowComplete
  <1>4. CASE Reply(p) /\ UNCHANGED member
    BY <1>4, InvReply DEF CreateMembership
  <1>5. CASE ~(Reply(p) /\ UNCHANGED member)
    <2>1. /\ org[o] /\ member[o][u] = "none"
          /\ member' = [member EXCEPT ![o][u] = inv[i].role]
          /\ Go(p, "confirm")
          /\ UNCHANGED <<org, inv, late>>
      BY <1>5 DEF CreateMembership
    <2>2. "confirm" \in Steps
      BY DEF Steps
    <2> HIDE DEF i, o, u
    <2>3. /\ member' \in [Orgs -> [Users -> Roles \cup {"none"}]]
          /\ member'[o][u] = inv[i].role
          /\ \A x \in Orgs, v \in Users : x # o \/ v # u => member'[x][v] = member[x][v]
      BY <1>1, <1>2, <1>3, <2>1 DEF InvTypeOK
    <2>4. InvTypeOK'
      BY <1>1, <2>1, <2>2, <2>3, GoesOn DEF InvTypeOK
    <2>5. inv[i].role # "none" /\ inv[i].org = o
      BY <1>3 DEF Roles, o
    <2>6. /\ \A j \in Ids : RowComplete(j)'
          /\ DeletedOrgIsEmpty'
      BY <1>1, <1>3, <2>1, <2>3 DEF RowComplete, DeletedOrgIsEmpty, Exists
    <2>7. AcceptedIsMember'
      <3> SUFFICES ASSUME NEW j \in Ids, inv[j].status = "accepted"
                   PROVE  member'[inv[j].org][inv[j].email] # "none"
        BY <2>1 DEF AcceptedIsMember
      <3>1. inv[j].org \in Orgs /\ inv[j].email \in Users
        BY <1>1 DEF RowComplete
      <3> QED
        BY <1>1, <2>3, <2>5, <3>1 DEF AcceptedIsMember
    <2>8. MembershipEarned'
      BY <1>1, <1>2, <2>1, <2>3, <2>5 DEF MembershipEarned
    <2>9. Monotone
      BY <1>1, <2>1, <2>3 DEF Monotone, Exists, RowComplete, DeletedOrgIsEmpty
    <2>10. CallFacts(p)'
      <3>1. call'[p] = [call[p] EXCEPT !.pc = "confirm"]
        BY <1>1, <2>1, <2>2, GoesOn
      <3>2. /\ call'[p].pc = "confirm"
            /\ call'[p].user = u
            /\ call'[p].id = i
        BY <1>1, <3>1 DEF InvTypeOK, CallState, u, i
      <3> QED
        BY <1>2, <2>1, <2>3, <2>5, <3>2 DEF CallFacts, Cleared, OnInvitation
    <2> QED
      BY <1>1, <2>1, <2>2, <2>4, <2>6, <2>7, <2>8, <2>9, <2>10, GoesOn, TablesMove
  <1> QED
    BY <1>4, <1>5

\* Seven days pass.
LEMMA InvLate ==
    ASSUME InvInv, NEW i \in Ids, BecomeLate(i)
    PROVE  InvInv'
  <1>1. UNCHANGED <<org, member, inv, call>> /\ late' \subseteq Ids
    BY DEF BecomeLate, InvInv, InvTypeOK
  <1> QED
    BY <1>1 DEF InvInv, InvTypeOK, RowComplete, AcceptedIsMember, MembershipEarned,
       DeletedOrgIsEmpty, CallFacts, Exists

-----------------------------------------------------------------------------
(* The theorems.                                                           *)

\* Every step preserves the invariant.
LEMMA InvNextKeeps == InvInv /\ [InvNext]_ivars => InvInv'
  <1> SUFFICES ASSUME InvInv, [InvNext]_ivars PROVE InvInv'
    OBVIOUS
  <1>1. CASE UNCHANGED ivars
    BY <1>1 DEF ivars, InvInv, InvTypeOK, RowComplete, AcceptedIsMember,
       MembershipEarned, DeletedOrgIsEmpty, CallFacts, Exists
  <1>2. ASSUME NEW p \in Calls, Request(p) PROVE InvInv'
    BY <1>2, InvRequest
  <1>3. ASSUME NEW p \in Calls, Handle(p) PROVE InvInv'
    <2>1. CASE \/ ValidateOrgAccess(p) \/ RequireAdmin(p)
               \/ CheckInvitee(p) \/ CheckExisting(p) \/ FindInOrg(p)
               \/ FindOrganization(p) \/ FindByToken(p) \/ FindByID(p)
               \/ CheckJoined(p) \/ CallFails(p)
      BY <2>1, InvRead
    <2>2. CASE CancelInvitation(p) \/ Expire(p) \/ Decline(p)
      <3>1. PICK st \in {"cancelled", "expired", "declined"} :
              /\ UpdateStatus(call[p].id, st)
              /\ Reply(p)
              /\ UNCHANGED <<org, member, late>>
        BY <2>2 DEF CancelInvitation, Expire, Decline
      <3>2. call[p].id \in Ids /\ inv[call[p].id].status # "unused"
        BY <2>2 DEF CancelInvitation, Expire, Decline, InvInv, CallFacts, OnInvitation
      <3> QED
        BY <3>1, <3>2, InvStatus
    <2>3. CASE MarkAlready(p) \/ ConfirmAccept(p)
      <3>1. /\ UpdateStatus(call[p].id, "accepted")
            /\ Reply(p)
            /\ UNCHANGED <<org, member, late>>
            /\ call[p].pc \in {"already", "confirm"}
        BY <2>3 DEF MarkAlready, ConfirmAccept
      <3>2. /\ call[p].id \in Ids
            /\ inv[call[p].id].status # "unused"
            /\ inv[call[p].id].email = call[p].user
            /\ Exists(call[p].id) => member[inv[call[p].id].org][call[p].user] # "none"
        BY <3>1 DEF InvInv, CallFacts, OnInvitation
      <3> QED
        BY <3>1, <3>2, InvStatus
    <2> QED
      BY <1>3, <2>1, <2>2, <2>3, InvRemove, InvInsert, InvDrop, InvJoin DEF Handle
  <1>4. ASSUME NEW i \in Ids, BecomeLate(i) PROVE InvInv'
    BY <1>4, InvLate
  <1> QED
    BY <1>1, <1>2, <1>3, <1>4 DEF InvNext

\* The inductive invariant of the invitation handlers holds in every state,
\* with any number of concurrent requests and with failing statements.
THEOREM InvitationsCorrect == InvSpec => []InvInv
  BY InvHoldsInitially, InvNextKeeps, PTL DEF InvSpec

\* Variables keep their types; the status column holds values of its enum.
THEOREM InvitationsTypes == InvSpec => []InvTypeOK
  <1>1. InvInv => InvTypeOK
    BY DEF InvInv
  <1> QED
    BY <1>1, InvitationsCorrect, PTL

\* An invitation that says "accepted" has made its addressee a member, whatever
\* handlers interleave with the acceptance and wherever it fails.
THEOREM AcceptedMeansMember == InvSpec => []AcceptedIsMember
  <1>1. InvInv => AcceptedIsMember
    BY DEF InvInv
  <1> QED
    BY <1>1, InvitationsCorrect, PTL

\* A member founded the organization or was invited to it in that role.
THEOREM MembersWereInvited == InvSpec => []MembershipEarned
  <1>1. InvInv => MembershipEarned
    BY DEF InvInv
  <1> QED
    BY <1>1, InvitationsCorrect, PTL

\* A deleted organization has no memberships and no invitations.
THEOREM DeletionIsComplete == InvSpec => []DeletedOrgIsEmpty
  <1>1. InvInv => DeletedOrgIsEmpty
    BY DEF InvInv
  <1> QED
    BY <1>1, InvitationsCorrect, PTL

\* Which steps change the status of a row, and to what.
LEMMA StatusChanges ==
    ASSUME InvInv, InvNext, NEW i \in Ids, inv'[i].status # inv[i].status, Exists(i)
    PROVE  \E p \in Calls :
             \/ call[p].pc = "cancel" /\ call[p].id = i /\ inv'[i].status = "cancelled"
             \/ call[p].pc = "remove" /\ call[p].id = i /\ inv'[i].status = "deleted"
             \/ call[p].pc = "drop" /\ call[p].org = inv[i].org /\ inv'[i].status = "deleted"
             \/ inv'[i].status \in {"expired", "accepted"}
  <1>1. inv \in [Ids -> Invitation] /\ ~UNCHANGED inv
    BY DEF InvInv, InvTypeOK
  <1>2. PICK p \in Calls : Handle(p)
    BY <1>1 DEF InvNext, Request, RequestCreate, RequestCancel, RequestDelete,
       RequestAccept, RequestRespond, Start, BecomeLate
  <1>3. CASE CancelInvitation(p) \/ Expire(p) \/ Decline(p) \/ MarkAlready(p) \/ ConfirmAccept(p)
    BY <1>1, <1>3 DEF CancelInvitation, Expire, Decline, MarkAlready, ConfirmAccept,
       UpdateStatus, InvitationStatus, Invitation
  <1>4. CASE RemoveOld(p)
    BY <1>1, <1>4 DEF RemoveOld, Invitation
  <1>5. CASE InsertInvitation(p)
    <2>1. PICK j \in Unspent : \E row : inv' = [inv EXCEPT ![j] = row]
      BY <1>1, <1>5 DEF InsertInvitation
    <2>2. i # j
      BY <2>1 DEF Unspent, Exists, InvitationStatus
    <2> QED
      BY <1>1, <2>1, <2>2
  <1>6. CASE DropOrg(p)
    BY <1>1, <1>6 DEF DropOrg, Invitation
  <1> QED
    BY <1>1, <1>2, <1>3, <1>4, <1>5, <1>6 DEF Handle, ValidateOrgAccess, RequireAdmin,
       CheckInvitee, CheckExisting, FindInOrg, FindOrganization, FindByToken, FindByID,
       CheckJoined, CreateMembership, CallFails

\* Only on behalf of an admin of its organization is an invitation withdrawn.
THEOREM OnlyAdminsWithdraw == InvSpec => WithdrawnByAdmin
  <1> DEFINE A == \A i \in Ids :
          /\ Exists(i)
          /\ inv'[i].status # inv[i].status
          /\ inv'[i].status \in {"cancelled", "deleted"}
          => \E p \in Calls : /\ call[p].pc \in {"cancel", "remove", "drop"}
                              /\ call[p].org = inv[i].org
                              /\ member[inv[i].org][call[p].user] = "admin"
  <1>1. InvInv /\ [InvNext]_ivars => [A]_ivars
    <2> SUFFICES ASSUME InvInv, InvNext, NEW i \in Ids, Exists(i),
                        inv'[i].status # inv[i].status,
                        inv'[i].status \in {"cancelled", "deleted"}
                 PROVE  \E p \in Calls : /\ call[p].pc \in {"cancel", "remove", "drop"}
                                         /\ call[p].org = inv[i].org
                                         /\ member[inv[i].org][call[p].user] = "admin"
      OBVIOUS
    <2>1. PICK p \in Calls :
             \/ call[p].pc = "cancel" /\ call[p].id = i
             \/ call[p].pc = "remove" /\ call[p].id = i
             \/ call[p].pc = "drop" /\ call[p].org = inv[i].org
      BY StatusChanges
    <2>2. CallFacts(p) /\ DeletedOrgIsEmpty
      BY DEF InvInv
    <2>3. call[p].org = inv[i].org /\ call[p].pc \in Cleared
      BY <2>1, <2>2 DEF CallFacts, Cleared
    <2>4. call[p].org \in Orgs
      BY <2>2, <2>3 DEF CallFacts
    <2>5. org[call[p].org]
      BY <2>2, <2>3, <2>4 DEF DeletedOrgIsEmpty
    <2> QED
      BY <2>1, <2>2, <2>3, <2>5 DEF CallFacts
  <1> QED
    BY <1>1, InvitationsCorrect, PTL DEF InvSpec, WithdrawnByAdmin

\* A membership changes only with the deletion of its organization, whatever
\* acceptances overlap (the UNIQUE constraint of memberships and CheckJoined).
THEOREM MembershipsStay == InvSpec => MembershipKept
  <1> DEFINE A == \A o \in Orgs, u \in Users :
          member[o][u] # "none" /\ member'[o][u] # member[o][u] => ~org'[o]
  <1>1. InvInv /\ [InvNext]_ivars => [A]_ivars
    <2> SUFFICES ASSUME InvInv, InvNext, NEW o \in Orgs, NEW u \in Users,
                        member[o][u] # "none", member'[o][u] # member[o][u]
                 PROVE  ~org'[o]
      OBVIOUS
    <2>1. /\ member \in [Orgs -> [Users -> Roles \cup {"none"}]]
          /\ org \in [Orgs -> BOOLEAN] /\ \A p \in Calls : CallFacts(p)
      BY DEF InvInv, InvTypeOK
    <2>2. PICK p \in Calls : DropOrg(p) \/ CreateMembership(p)
      BY DEF InvNext, Request, RequestCreate, RequestCancel, RequestDelete, RequestAccept,
         RequestRespond, Start, BecomeLate, Handle, ValidateOrgAccess, RequireAdmin,
         CheckInvitee, CheckExisting, RemoveOld, InsertInvitation, FindInOrg,
         CancelInvitation, FindOrganization, FindByToken, FindByID, Expire, Decline,
         CheckJoined, MarkAlready, ConfirmAccept, CallFails
    <2>3. CASE DropOrg(p)
      <3>1. call[p].org \in Orgs
        BY <2>1, <2>3 DEF DropOrg, CallFacts, Cleared
      <3>2. o = call[p].org /\ org' = [org EXCEPT ![call[p].org] = FALSE]
        BY <2>1, <2>3, <3>1 DEF DropOrg
      <3> QED
        BY <2>1, <3>2
    <2>4. CASE CreateMembership(p)
      <3> DEFINE x == inv[call[p].id].org
                 v == call[p].user
                 r == inv[call[p].id].role
      <3>1. /\ member' = [member EXCEPT ![x][v] = r]
            /\ member[x][v] = "none"
        BY <2>4 DEF CreateMembership
      <3> HIDE DEF x, v, r
      <3>2. member'[o][u] = IF o = x /\ u = v THEN r ELSE member[o][u]
        BY <2>1, <3>1
      <3> QED
        BY <3>1, <3>2
    <2> QED
      BY <2>2, <2>3, <2>4
  <1> QED
    BY <1>1, InvitationsCorrect, PTL DEF InvSpec, MembershipKept
=============================================================================
