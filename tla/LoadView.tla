------------------------------ MODULE LoadView ------------------------------
(***************************************************************************)
(* What a page that loads its data with an effect promises about what it   *)
(* shows. `key' is what the effect depends on (the organization, and on    *)
(* the logs page the filters and the page number too), `shown' the key     *)
(* whose data is on the screen, None while a placeholder is there, and     *)
(* `held' the key whose data the component still has in its state.         *)
(*                                                                         *)
(* A change of key hides the old data at once. Data then appears either    *)
(* because the load of this very key succeeded, or, after a failed load,   *)
(* because the component puts what it still held back on the screen.       *)
(***************************************************************************)
CONSTANTS Keys, None

VARIABLES key, shown, held

vars == <<key, shown, held>>

Init ==
    /\ key \in Keys
    /\ shown = None
    /\ held = None

\* The effect runs again for another key.
Select ==
    /\ key' \in Keys \ {key}
    /\ shown' = None
    /\ UNCHANGED held

\* Another component takes the place of this one.
Mount ==
    /\ key' \in Keys
    /\ shown' = None
    /\ held' = None

Succeed ==
    /\ shown = None
    /\ shown' = key
    /\ held' = key
    /\ UNCHANGED key

Fail ==
    /\ shown = None
    /\ shown' = held
    /\ UNCHANGED <<key, held>>

Next == Select \/ Mount \/ Succeed \/ Fail

Spec == Init /\ [][Next]_vars
=============================================================================
