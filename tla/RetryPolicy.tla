------------------------------ MODULE RetryPolicy ------------------------------
(***************************************************************************)
(* When a transition that failed is tried again (RETRY_PARAMS and          *)
(* get_next_retry_countdown of resources/base_resource.py).  Times are     *)
(* whole seconds.                                                          *)
(***************************************************************************)
EXTENDS Integers

\* A parameter that a resource class does not give.
NotGiven == 0

Every15s(tries) ==
    [max_retries |-> tries, default_retry_delay |-> 15,
     retry_backoff |-> NotGiven, total_timeout |-> NotGiven]

RETRY_PARAMS ==
    [ensure_dependencies_ready |-> Every15s(5),
     ensure_exists |-> Every15s(5),
     ensure_healthy |-> Every15s(6),
     ensure_forward_dependencies_deleted |-> Every15s(5),
     ensure_deleted |-> Every15s(5)]

\* GcpVpcNetworkResource.RETRY_PARAMS.
NetworkHealthy ==
    [max_retries |-> 15, default_retry_delay |-> NotGiven,
     retry_backoff |-> 2, total_timeout |-> 4200]

\* A class that says nothing about a type has the parameters of ResourceBase.
RetryParams(kind, type) ==
    IF kind = "network" /\ type = "ensure_healthy" THEN NetworkHealthy ELSE RETRY_PARAMS[type]

Day == 86400

\* Mutant of TaskAge: the age is not read.
NoAge(elapsed) == 0

\* get_task_age: .seconds of a timedelta does not have its days.
TaskAge(elapsed) == elapsed % Day

\* 'retries_exhausted' or 'total_timeout_exceeded'; an age of 0 is not looked at.
GivesUp(p, retries, age) ==
    \/ retries >= p.max_retries - 1
    \/ p.total_timeout # NotGiven /\ age # 0 /\ age > p.total_timeout

RetryBackoffMin == 0
RetryBackoffMax == 300

Smaller(a, b) == IF a <= b THEN a ELSE b
Larger(a, b)  == IF a >= b THEN a ELSE b

\* Mutant of Backoff: without retry_backoff_max.
UncappedBackoff(factor, retries) == Larger(RetryBackoffMin, factor * 2 ^ retries)

\* get_exponential_backoff_interval without jitter. Its minimum is half a
\* second.
Backoff(factor, retries) ==
    Larger(RetryBackoffMin, Smaller(RetryBackoffMax, factor * 2 ^ retries))

Countdown(p, retries) ==
    IF p.retry_backoff # NotGiven THEN Backoff(p.retry_backoff, retries)
    ELSE p.default_retry_delay
===============================================================================
