------------------------- MODULE MCTransitionEngine -------------------------
(***************************************************************************)
(* TransitionEngine on small instances.  Two transitions are enough for a  *)
(* batch to hold more than one and for a slice of one to cut it; two tries *)
(* reach exhaustion, three also reach the third try, which on_timeout no   *)
(* longer reschedules.  Each bound on faults is per run.                   *)
(***************************************************************************)
EXTENDS TransitionEngine

CONSTANTS s1, s2, none

OneTransition == {1}
TwoTransitions == {1, 2}
OneSubmitter == {s1}
TwoSubmitters == {s1, s2}
=============================================================================
