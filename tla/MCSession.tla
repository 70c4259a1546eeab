----------------------------- MODULE MCSession -----------------------------
(* A small instance of WebSession for TLC. Tabs and slots are alike.       *)
EXTENDS WebSession, TLC

CONSTANTS u1, o1, o2

\* The names that registrations give; someone else may have taken them.
ByFirstName == [u \in Users |-> IF u = u1 THEN o1 ELSE o2]

Alike == Permutations(Tabs) \cup Permutations(Slots)
=============================================================================
