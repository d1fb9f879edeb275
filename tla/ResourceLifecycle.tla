--------------------------- MODULE ResourceLifecycle ---------------------------
(***************************************************************************)
(* What the system promises about one resource (README.md of the           *)
(* repository, resources/types.py): the user says what is desired once the *)
(* last wish is answered, objects are made and removed only as desired,    *)
(* and the state column belongs to the desired state and claims nothing    *)
(* untrue about the object, whichever task saved it.                       *)
(*                                                                         *)
(* A fault may mislead the system about the object.  From then on nothing  *)
(* is promised.                                                            *)
(***************************************************************************)

\* object: as far as the provider lists it.
VARIABLES desired, state, object, mistaken

vars == <<desired, state, object, mistaken>>

None == "none"

Init ==
    /\ desired = None /\ state = "newborn_model"
    /\ object = "absent"
    /\ mistaken = FALSE

\* The states on the way to a desired state.
Stages ==
    [none    |-> {"newborn_model"},
     healthy |-> {"declared", "exists", "healthy", "unhealthy",
                  "creation_failed", "creation_terminated"},
     deleted |-> {"unknown", "deletion_failed", "deleted"}]

Truth ==
    /\ state \in Stages[desired]
    /\ state \in {"exists", "healthy"} => object = "made"
    /\ state = "deleted" => object = "absent"

Answered == desired \in {None, state} \/ state = "creation_terminated"

Ask ==
    /\ Answered
    /\ \/ desired' = "healthy" /\ state' = "declared"
       \/ desired' = "deleted" /\ state' = "unknown"
    /\ UNCHANGED <<object, mistaken>>

\* A task saves the row.
Save == Truth' /\ UNCHANGED <<desired, mistaken>>

Report == Save /\ UNCHANGED object

Make ==
    /\ desired = "healthy"
    /\ object = "absent" /\ object' = "made"
    /\ Save

\* Of some objects the listing has nothing once they are being removed.
Remove ==
    /\ desired = "deleted"
    /\ object = "made" /\ object' \in {"leaving", "absent"}
    /\ Save

Vanish ==
    /\ object = "leaving" /\ object' = "absent"
    /\ UNCHANGED <<desired, state, mistaken>>

Misled == mistaken'

Next == Ask \/ Report \/ Make \/ Remove \/ Vanish \/ Misled

Spec == Init /\ [][Next]_vars
===============================================================================
