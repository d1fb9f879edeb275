---------------------------- MODULE MCProvisioning ----------------------------
(***************************************************************************)
(* Provisioning of a network with two subnetworks, a firewall or an        *)
(* instance.                                                               *)
(***************************************************************************)
EXTENDS Provisioning

CONSTANTS s1, s2, none

AllKinds == {"network", "firewall", "instance"}
TwoSubnets == {s1, s2}

\* Retries of a network's ensure_healthy make its state space large, and so do
\* stages that are executed twice.
Applies == [network |-> 2, firewall |-> 3, instance |-> 2]
Faults  == [network |-> 1, firewall |-> 1, instance |-> 2]

Instances == {"instance"}

\* Close to total_timeout, and a day.
LongDelays == {4000, 86400}
===============================================================================
