----------------------------- MODULE MCDelivery -----------------------------
(* Small instances of Delivery for TLC.                                    *)
EXTENDS Delivery, TLC

CONSTANTS m1, m2, m3, o1, o2

\* Both messages belong to the same organization.
OneOrg == [m \in Messages |-> o1]

\* Each message belongs to an organization of its own.
TwoOrgs == [m \in Messages |-> IF m = m1 THEN o1 ELSE o2]
=============================================================================
