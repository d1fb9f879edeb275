---------------------------- MODULE MCHclIngestion ----------------------------
(***************************************************************************)
(* HclIngestion on a network, an address, and an instance that refers to   *)
(* both.                                                                   *)
(***************************************************************************)
EXTENDS HclIngestion

CONSTANTS network, address, instance, none, a1, a2

AllNames == {network, address, instance}

NoRefs == [n \in AllNames |-> {}]
InstanceRefs == [NoRefs EXCEPT ![instance] = {network, address}]

Good == [entries |-> AllNames, refs |-> InstanceRefs, fks |-> InstanceRefs,
         invalid |-> {}, wellFormed |-> TRUE]

\* Of the network alone; with an address that fails its validation; of an
\* instance whose network is not in the file; of one that names network and
\* address by their ids; and one with a cycle.
Base     == [Good EXCEPT !.entries = {network}, !.refs = NoRefs, !.fks = NoRefs]
Faulty   == [Good EXCEPT !.invalid = {address}]
Dangling == [Good EXCEPT !.entries = {instance}]
Literal  == [Dangling EXCEPT !.refs = NoRefs]
Circular == [Good EXCEPT !.refs[network] = {instance}]

AllFiles == {Good, Base, Faulty, Dangling, Literal, Circular}
OneFile  == {Good}

One == {a1}
Two == {a1, a2}
===============================================================================
