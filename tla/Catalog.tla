-------------------------------- MODULE Catalog --------------------------------
(***************************************************************************)
(* What applying HCL files promises about the table of resources           *)
(* (resources/models.py, resources/hcl_utils/ingestion.py), however many   *)
(* files are applied at a time and however they end: a resource appears    *)
(* once, after what it refers to, keeps its references for good, and is    *)
(* wanted only when it is there.                                           *)
(***************************************************************************)
CONSTANT Names

VARIABLES
    catalogue, \* the resources there are
    refersTo,  \* and what each refers to
    wanted     \* those a desired state was expressed for

vars == <<catalogue, refersTo, wanted>>

Init ==
    /\ catalogue = {}
    /\ refersTo = [n \in Names |-> {}]
    /\ wanted = {}

Add(n) ==
    /\ n \notin catalogue
    /\ catalogue' = catalogue \cup {n}
    /\ \E needs \in SUBSET catalogue : refersTo' = [refersTo EXCEPT ![n] = needs]
    /\ UNCHANGED wanted

Want(S) ==
    /\ wanted' = wanted \cup S
    /\ UNCHANGED <<catalogue, refersTo>>

Next ==
    \/ \E n \in Names : Add(n)
    \/ \E S \in SUBSET catalogue : Want(S)

Spec == Init /\ [][Next]_vars
===============================================================================
