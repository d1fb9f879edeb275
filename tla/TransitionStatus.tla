--------------------------- MODULE TransitionStatus ---------------------------
(***************************************************************************)
(* What the transition machinery promises about the status column of a     *)
(* TransitionModel (transitions/types.py, transitions/models.py).          *)
(*                                                                         *)
(* A transition is created pending, is handed to the broker once, is       *)
(* started by one worker and settles once: succeeded and failed are final. *)
(* A transition may be compromised: two executions of it were let loose by *)
(* a fault the code does not shield it from.  From then on nothing is      *)
(* promised about its status.                                              *)
(***************************************************************************)
CONSTANT Transitions

VARIABLES status, compromised

vars == <<status, compromised>>

Statuses == {"absent", "pending", "sent_to_broker", "in_progress",
             "succeeded", "failed"}

Terminal == {"succeeded", "failed"}

\* The edges an uncompromised transition may take.
Successors ==
    [absent         |-> {"pending"},
     pending        |-> {"sent_to_broker"},
     sent_to_broker |-> {"in_progress", "failed"},
     in_progress    |-> Terminal,
     succeeded      |-> {},
     failed         |-> {}]

Init ==
    /\ status = [t \in Transitions |-> "absent"]
    /\ compromised = {}

Advance(t) ==
    /\ \E next \in Successors[status[t]] : status' = [status EXCEPT ![t] = next]
    /\ UNCHANGED compromised

Compromise(t) ==
    /\ compromised' = compromised \cup {t}
    /\ \E next \in Statuses : status' = [status EXCEPT ![t] = next]

Scramble(t) ==
    /\ t \in compromised
    /\ \E next \in Statuses : status' = [status EXCEPT ![t] = next]
    /\ UNCHANGED compromised

Next == \E t \in Transitions : Advance(t) \/ Compromise(t) \/ Scramble(t)

Spec == Init /\ [][Next]_vars
===============================================================================
