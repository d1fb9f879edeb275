---------------------------- MODULE ResourceEvents ----------------------------
(***************************************************************************)
(* What an event logged on a resource does to its row                      *)
(* (resources/__init__.py, ResourceModel.log_event).  Of the row only what *)
(* the scheduling reads is kept: desired_state, state and the type of the  *)
(* event that caused the state.                                            *)
(***************************************************************************)

TransitionTypes ==
    {"ensure_dependencies_ready", "ensure_exists", "ensure_healthy",
     "ensure_forward_dependencies_deleted", "ensure_deleted"}

None == "none"

EventTypes ==
    {"dependencies_ready", "forward_dependencies_absent",
     "resource_found", "resource_found_and_healthy", "resource_not_found",
     "creation_request_succeeded", "deletion_request_succeeded",
     "health_checks_succeeded", "health_checks_terminated",
     "deletion_terminated", "terminal_failure"}

DesiredStates == {None, "healthy", "deleted"}

States == {"newborn_model", "declared", "unknown", "exists", "healthy",
           "unhealthy", "creation_failed", "creation_terminated",
           "deletion_failed", "deleted"}

Rows == [desired : DesiredStates, state : States, cause : EventTypes \cup {None}]

\* A key that does not name the transition type or the reason.
Wildcard == "*"

\* <<transition type, event, reason, next state>>
EVENT_SIDE_EFFECTS ==
    {<<"ensure_exists", "resource_found", "found_before_creation", "exists">>,
     <<"ensure_exists", "resource_found", "found_after_creation", "exists">>,
     <<"ensure_exists", "terminal_failure", "creation_request_failed", "creation_failed">>,
     <<"ensure_exists", "terminal_failure", "resource_not_found", "creation_failed">>,
     <<"ensure_healthy", "health_checks_succeeded", Wildcard, "healthy">>,
     <<"ensure_healthy", "health_checks_terminated", Wildcard, "unhealthy">>,
     <<"ensure_deleted", "deletion_terminated", Wildcard, "deletion_failed">>,
     <<"ensure_deleted", "resource_not_found", Wildcard, "deleted">>,
     <<Wildcard, "resource_found_and_healthy", Wildcard, "healthy">>,
     <<"ensure_dependencies_ready", "terminal_failure", Wildcard, "creation_terminated">>,
     <<"ensure_exists", "terminal_failure", Wildcard, "creation_terminated">>,
     <<"ensure_healthy", "terminal_failure", Wildcard, "creation_terminated">>}

Effects(type, event, reason) ==
    {e \in EVENT_SIDE_EFFECTS : e[1] = type /\ e[2] = event /\ e[3] = reason}

\* The most specific key decides.
DecideNextState(type, event, reason) ==
    LET exact == Effects(type, event, reason)
        broad == Effects(type, event, Wildcard)
        found == IF exact # {} THEN exact
                 ELSE IF broad # {} THEN broad ELSE Effects(Wildcard, event, Wildcard)
    IN  IF found = {} THEN None ELSE (CHOOSE e \in found : TRUE)[4]

\* The row that log_event saves, given the row it has in memory.
LogEvent(row, type, event, reason) ==
    LET next == DecideNextState(type, event, reason)
    IN  IF next \in {None, row.state} THEN row
        ELSE [row EXCEPT !.state = next, !.cause = event]
===============================================================================
