----------------------------- MODULE MCOrgPages -----------------------------
(* A small instance of OrgPages for TLC.                                   *)
EXTENDS OrgPages, TLC

CONSTANTS o1, o2, i1, i2, i3, i4

Given(i, o) == [id |-> i, org |-> o, open |-> TRUE]

\* Two organizations with their signing secrets; an API key and a cancelled
\* invitation of the first.
Tables == [k \in Kinds |->
              CASE k = "secret" -> {Given(i1, o1), Given(i2, o2)}
                [] k = "key" -> {Given(i3, o1)}
                [] k = "invitation" -> {[Given(i4, o1) EXCEPT !.open = FALSE]}
                [] OTHER -> {}]
=============================================================================
