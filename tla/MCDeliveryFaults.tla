-------------------------- MODULE MCDeliveryFaults --------------------------
(* Small instances of DeliveryFaults for TLC.                              *)
EXTENDS DeliveryFaults, TLC

CONSTANTS m1, m2, o1

OneOrg == [m \in Messages |-> o1]
=============================================================================
