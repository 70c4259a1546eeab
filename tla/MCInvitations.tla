--------------------------- MODULE MCInvitations ----------------------------
(* Small instances of Invitations for TLC.                                 *)
EXTENDS Invitations, TLC

CONSTANTS u1, u2, o1, o2

\* u2 is invited in either role, and u1 as a member.
Asked == {[org |-> o1, email |-> u2, role |-> "member"],
          [org |-> o1, email |-> u2, role |-> "admin"],
          [org |-> o2, email |-> u1, role |-> "member"]}

\* Each of two users has founded an organization.
Founders == [o \in Orgs |-> IF o = o1 THEN u1 ELSE u2]

\* Requests and ids of invitations are interchangeable.
Symmetry == Permutations(Calls) \cup Permutations(Ids)
=============================================================================
