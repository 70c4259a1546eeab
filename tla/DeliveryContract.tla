-------------------------- MODULE DeliveryContract --------------------------
(***************************************************************************)
(* What the pipeline promises to an endpoint, without queue, database,     *)
(* workers or schedulers: the requests for one message come one after the  *)
(* other, never again after a 2xx answer, at most MaxAttempts + 1 in all,  *)
(* and after the n-th failure not before its back-off of 2^(n-1) seconds.  *)
(***************************************************************************)
EXTENDS Naturals

CONSTANTS Messages, MaxAttempts

VARIABLES
    acks,   \* requests for m answered with 2xx
    fails,  \* requests for m that failed
    sentAt, \* when the last request for m completed
    now     \* time in seconds

cvars == <<acks, fails, sentAt, now>>

CInit ==
    /\ acks = [m \in Messages |-> 0]
    /\ fails = [m \in Messages |-> 0]
    /\ sentAt = [m \in Messages |-> 0]
    /\ now = 0

\* A request for m may be made.
MayAttempt(m) ==
    /\ acks[m] = 0
    /\ fails[m] <= MaxAttempts
    /\ fails[m] > 0 => now >= sentAt[m] + 2^(fails[m] - 1)

Succeed(m) ==
    /\ MayAttempt(m)
    /\ acks' = [acks EXCEPT ![m] = 1]
    /\ sentAt' = [sentAt EXCEPT ![m] = now]
    /\ UNCHANGED <<fails, now>>

Fail(m) ==
    /\ MayAttempt(m)
    /\ fails' = [fails EXCEPT ![m] = @ + 1]
    /\ sentAt' = [sentAt EXCEPT ![m] = now]
    /\ UNCHANGED <<acks, now>>

Wait ==
    /\ now' = now + 1
    /\ UNCHANGED <<acks, fails, sentAt>>

CNext == Wait \/ \E m \in Messages : Succeed(m) \/ Fail(m)

CSpec == CInit /\ [][CNext]_cvars
=============================================================================
