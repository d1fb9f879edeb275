------------------------------ MODULE MCReconcile ------------------------------
(***************************************************************************)
(* Reconcile on a network and an instance on it.                           *)
(***************************************************************************)
EXTENDS Reconcile, TLC

CONSTANTS network, instance, none

NetworkAndInstance == {network, instance}

InstanceOnNetwork == (network :> {}) @@ (instance :> {network})

InstanceOnly == {instance}

Nothing == {}

NetworkOnly == {network}

NoDeps == network :> {}
===============================================================================
