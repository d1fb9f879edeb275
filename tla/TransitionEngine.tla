--------------------------- MODULE TransitionEngine ---------------------------
(***************************************************************************)
(* The execution of transitions: the periodic task submit_transition_tasks *)
(* publishes pending transitions, the broker delivers, and workers run     *)
(* each delivery through the hooks of TransitionTask (before_start, retry, *)
(* on_success, on_failure) and TransitionRequest.on_timeout.               *)
(*                                                                         *)
(* What the task bodies do to resources is left to Reconcile; here a body  *)
(* succeeds, asks for a retry or fails, at any time.  Messages are         *)
(* acknowledged late (make_it_so/celery.py), so a delivery whose worker    *)
(* dies goes back to the broker.                                           *)
(*                                                                         *)
(* lost and compromised are history variables: the transitions that fell   *)
(* into one of the windows in which the code lets go of its only message,  *)
(* or lets a second execution loose.                                       *)
(***************************************************************************)
EXTENDS Integers, FiniteSets

CONSTANTS
    Transitions,    \* primary keys, in order of creation
    Submitters,     \* passes of submit_transition_tasks that may overlap
    MaxRetries,     \* max_retries of the transition type
    BatchLimit,     \* the slice of submit_transition_tasks, [:500]
    NoTransition,   \* a submitter that is not publishing
    MaxCrashes,     \* bound: workers lost
    MaxTimeouts,    \* bound: hard time limits hit
    MaxLosses       \* bound: publications that fail or die half way

ASSUME ConstantsAssumption ==
    /\ Transitions \subseteq Nat
    /\ NoTransition \notin Transitions
    /\ MaxRetries \in Nat \ {0}
    /\ BatchLimit \in Nat \ {0}
    /\ MaxCrashes \in Nat /\ MaxTimeouts \in Nat /\ MaxLosses \in Nat

VARIABLES
    status,       \* TransitionModel.status
    batch,        \* what a pass of submit_transition_tasks has loaded
    broker,       \* messages waiting for a worker
    attempts,     \* deliveries held by a worker
    sent,         \* publications so far, per transition: the delivery tag
    crashes, timeouts, losses,
    lost, compromised

vars == <<status, batch, broker, attempts, sent, crashes, timeouts, losses,
          lost, compromised>>

faults == <<crashes, timeouts, losses>>

Promise == INSTANCE TransitionStatus

Statuses == Promise!Statuses
Terminal == Promise!Terminal

Messages == [t : Transitions, tag : Nat \ {0}, retries : 0..(MaxRetries - 1),
             rescheduled : BOOLEAN]

\* received: before_start has read the transition but not acted on it
\* running:  the task body
\* retried:  the retry is published, this delivery not yet acknowledged
\* settled:  nothing left to do but to acknowledge
\* expired:  on_timeout has acknowledged the delivery, and goes on
Phases == {"received", "running", "retried", "settled", "expired"}

Attempts == [msg : Messages, seen : Statuses, phase : Phases]

Idle == [todo |-> {}, publishing |-> NoTransition]

Init ==
    /\ status = [t \in Transitions |-> "absent"]
    /\ batch = [s \in Submitters |-> Idle]
    /\ broker = {}
    /\ attempts = {}
    /\ sent = [t \in Transitions |-> 0]
    /\ crashes = 0 /\ timeouts = 0 /\ losses = 0
    /\ lost = {}
    /\ compromised = {}

-------------------------------------------------------------------------------
(* Creation and submission *)

Pending == {t \in Transitions : status[t] = "pending"}

\* Somebody creates the next transition: create_missing_transitions, or the
\* transition before it in the pipeline.
Create(t) ==
    /\ status[t] = "absent"
    /\ \A u \in Transitions : u < t => status[u] # "absent"
    /\ status' = [status EXCEPT ![t] = "pending"]
    /\ UNCHANGED <<batch, broker, attempts, sent, faults, lost, compromised>>

\* Mutant of FirstBatch: slices before it filters.
SliceBeforeFilter ==
    LET created == {t \in Transitions : status[t] # "absent"}
    IN  {t \in Pending : Cardinality({u \in created : u > t}) < BatchLimit}

\* The newest BatchLimit pending transitions: the default order is -created.
FirstBatch ==
    {t \in Pending : Cardinality({u \in Pending : u > t}) < BatchLimit}

SubmitBegin(s) ==
    /\ batch[s] = Idle
    /\ Pending # {}
    /\ batch' = [batch EXCEPT ![s].todo = FirstBatch]
    /\ UNCHANGED <<status, broker, attempts, sent, faults, lost, compromised>>

\* Mutant of SubmitMark: the new status is not saved.
SubmitUnmarked(s) ==
    /\ batch[s].publishing = NoTransition
    /\ \E t \in batch[s].todo :
          /\ \A u \in batch[s].todo : u <= t
          /\ batch' = [batch EXCEPT ![s] = [todo |-> @.todo \ {t},
                                            publishing |-> t]]
    /\ UNCHANGED <<status, broker, attempts, sent, faults, lost, compromised>>

\* log_event('sent_to_broker') on the object loaded by SubmitBegin, whose
\* status is still 'pending' whatever the row says by now: it always saves.
SubmitMark(s) ==
    /\ batch[s].publishing = NoTransition
    /\ \E t \in batch[s].todo :
          /\ \A u \in batch[s].todo : u <= t
          /\ batch' = [batch EXCEPT ![s] = [todo |-> @.todo \ {t},
                                            publishing |-> t]]
          /\ status' = [status EXCEPT ![t] = "sent_to_broker"]
          /\ compromised' = IF status[t] = "pending"
                              THEN compromised ELSE compromised \cup {t}
    /\ UNCHANGED <<broker, attempts, sent, faults, lost>>

\* A message is published: apply_async, or the retry of celery.Task.
Publish(t, retries, rescheduled) ==
    /\ broker' = broker \cup {[t |-> t, tag |-> sent[t] + 1,
                               retries |-> retries, rescheduled |-> rescheduled]}
    /\ sent' = [sent EXCEPT ![t] = @ + 1]

SubmitPublish(s) ==
    /\ batch[s].publishing # NoTransition
    /\ Publish(batch[s].publishing, 0, FALSE)
    /\ batch' = [batch EXCEPT ![s].publishing = NoTransition]
    /\ UNCHANGED <<status, attempts, faults, lost, compromised>>

\* The process dies or the broker refuses between the two calls; the rest of
\* the pass is abandoned with it.
SubmitLost(s) ==
    /\ batch[s].publishing # NoTransition
    /\ losses < MaxLosses
    /\ losses' = losses + 1
    /\ lost' = lost \cup {batch[s].publishing}
    /\ batch' = [batch EXCEPT ![s] = Idle]
    /\ UNCHANGED <<status, broker, attempts, sent, crashes, timeouts, compromised>>

-------------------------------------------------------------------------------
(* A delivery *)

\* populate_context: a fresh read of the transition.
Receive(m) ==
    /\ broker' = broker \ {m}
    /\ attempts' = attempts \cup
          {[msg |-> m, seen |-> status[m.t], phase |-> "received"]}
    /\ UNCHANGED <<status, batch, sent, faults, lost, compromised>>

MoveTo(a, phase) ==
    attempts' = (attempts \ {a}) \cup {[a EXCEPT !.phase = phase]}

\* First delivery of a transition that someone already started.
LooksDuplicate(a) ==
    /\ a.seen = "in_progress"
    /\ ~a.msg.rescheduled
    /\ a.msg.retries = 0

\* Mutant of RetriesLeft: one try too many.
OneMoreRetry(a) == a.msg.retries < MaxRetries

RetriesLeft(a) == a.msg.retries < MaxRetries - 1

\* before_start: the transition is over, drop this delivery.
RevokeDuplicate(a) ==
    /\ a.phase = "received"
    /\ a.seen \in Terminal
    /\ MoveTo(a, "settled")
    /\ UNCHANGED <<status, batch, broker, sent, faults, lost, compromised>>

\* Mutant of Start: does not ask whether the transition is over.
StartAnyway(a) ==
    /\ a.phase = "received"
    /\ ~LooksDuplicate(a)
    /\ MoveTo(a, "running")
    /\ status' = IF a.msg.retries = 0 THEN [status EXCEPT ![a.msg.t] = "in_progress"]
                                      ELSE status
    /\ UNCHANGED <<batch, broker, sent, faults, lost, compromised>>

\* before_start goes on to the body; a first try logs 'started', which saves
\* only if the status it read is another one.
Start(a) ==
    /\ a.phase = "received"
    /\ a.seen \notin Terminal
    /\ ~LooksDuplicate(a)
    /\ MoveTo(a, "running")
    /\ status' = IF a.msg.retries = 0 /\ a.seen # "in_progress"
                   THEN [status EXCEPT ![a.msg.t] = "in_progress"] ELSE status
    /\ UNCHANGED <<batch, broker, sent, faults, lost, compromised>>

\* Where TransitionTask.retry is called: by the body's autoretry, or by
\* before_start for what looks like a duplicate.
WantsRetry(a) ==
    \/ a.phase = "running"
    \/ a.phase = "received" /\ LooksDuplicate(a)

\* Mutants of Retry: the body goes on after it (throw=False); nothing is published.
RetryGoesOn(a) ==
    /\ WantsRetry(a) /\ RetriesLeft(a)
    /\ Publish(a.msg.t, a.msg.retries + 1, a.msg.rescheduled)
    /\ MoveTo(a, "running")
    /\ UNCHANGED <<status, batch, faults, lost, compromised>>

RetryForgotten(a) ==
    /\ WantsRetry(a) /\ RetriesLeft(a)
    /\ MoveTo(a, "retried")
    /\ UNCHANGED <<status, batch, broker, sent, faults, lost, compromised>>

\* The retry is published before this delivery is acknowledged.
Retry(a) ==
    /\ WantsRetry(a)
    /\ RetriesLeft(a)
    /\ Publish(a.msg.t, a.msg.retries + 1, a.msg.rescheduled)
    /\ MoveTo(a, "retried")
    /\ UNCHANGED <<status, batch, faults, lost, compromised>>

Settle(a, outcome) ==
    /\ status' = [status EXCEPT ![a.msg.t] = outcome]
    /\ MoveTo(a, "settled")
    /\ UNCHANGED <<batch, broker, sent, faults, lost, compromised>>

\* Out of retries: simulate_failure.
Exhaust(a) ==
    /\ WantsRetry(a)
    /\ ~RetriesLeft(a)
    /\ Settle(a, "failed")

\* The transition on_success logs on is the one before_start read: it was
\* not over then, so 'succeeded' is saved whatever happened since.
Succeed(a) ==
    /\ a.phase = "running"
    /\ Settle(a, "succeeded")

\* TaskFailureException, an exception outside RETRY_FOR, or total_timeout.
Fail(a) ==
    /\ a.phase = "running"
    /\ Settle(a, "failed")

Ack(a) ==
    /\ a.phase \in {"retried", "settled"}
    /\ attempts' = attempts \ {a}
    /\ UNCHANGED <<status, batch, broker, sent, faults, lost, compromised>>

-------------------------------------------------------------------------------
(* Faults *)

\* Mutant of Crash: acks_late is off, so nothing is redelivered.
CrashAfterEarlyAck(a) ==
    /\ crashes < MaxCrashes
    /\ a.phase # "expired"
    /\ crashes' = crashes + 1
    /\ attempts' = attempts \ {a}
    /\ UNCHANGED <<status, batch, broker, sent, timeouts, losses, lost, compromised>>

\* The worker is lost: an unacknowledged delivery goes back to the broker.
Crash(a) ==
    /\ crashes < MaxCrashes
    /\ a.phase # "expired"
    /\ crashes' = crashes + 1
    /\ attempts' = attempts \ {a}
    /\ broker' = broker \cup {a.msg}
    /\ compromised' = IF a.phase = "retried"
                        THEN compromised \cup {a.msg.t} ELSE compromised
    /\ UNCHANGED <<status, batch, sent, timeouts, losses, lost>>

\* on_timeout, first half: the hard limit strikes, the delivery is acknowledged.
Timeout(a) ==
    /\ timeouts < MaxTimeouts
    /\ a.phase # "expired"
    /\ timeouts' = timeouts + 1
    /\ MoveTo(a, "expired")
    /\ compromised' = IF a.phase = "retried" \/ status[a.msg.t] \in Terminal
                        THEN compromised \cup {a.msg.t} ELSE compromised
    /\ UNCHANGED <<status, batch, broker, sent, crashes, losses, lost>>

\* Mutant of MayReschedule: one retry later.
RescheduleLater(a) == ~a.msg.rescheduled /\ a.msg.retries <= 2

MayReschedule(a) == ~a.msg.rescheduled /\ a.msg.retries < 2

\* on_timeout, second half: a new task, once ...
Reschedule(a) ==
    /\ a.phase = "expired"
    /\ MayReschedule(a)
    /\ Publish(a.msg.t, 0, TRUE)
    /\ attempts' = attempts \ {a}
    /\ UNCHANGED <<status, batch, faults, lost, compromised>>

\* ... or simulate_failure.
TimeoutFailure(a) ==
    /\ a.phase = "expired"
    /\ ~MayReschedule(a)
    /\ status' = [status EXCEPT ![a.msg.t] = "failed"]
    /\ attempts' = attempts \ {a}
    /\ UNCHANGED <<batch, broker, sent, faults, lost, compromised>>

\* The delivery is gone, and nothing was published in its place.
LoseDelivery(a) ==
    /\ losses < MaxLosses
    /\ losses' = losses + 1
    /\ lost' = lost \cup {a.msg.t}
    /\ attempts' = attempts \ {a}
    /\ UNCHANGED <<status, batch, broker, sent, crashes, timeouts, compromised>>

\* The worker is lost between the two halves.
TimeoutLost(a) == a.phase = "expired" /\ LoseDelivery(a)

\* The broker refuses the retry: celery rejects the delivery, without having it
\* queued again, and neither retry nor on_failure are told.
RetryLost(a) == WantsRetry(a) /\ RetriesLeft(a) /\ LoseDelivery(a)

-------------------------------------------------------------------------------
Submission == \E s \in Submitters :
    SubmitBegin(s) \/ SubmitMark(s) \/ SubmitPublish(s)

Delivery == \E m \in broker : Receive(m)

Execution == \E a \in attempts :
    \/ RevokeDuplicate(a) \/ Start(a) \/ Retry(a) \/ Exhaust(a)
    \/ Succeed(a) \/ Fail(a) \/ Ack(a) \/ Reschedule(a) \/ TimeoutFailure(a)

Faults ==
    \/ \E s \in Submitters : SubmitLost(s)
    \/ \E a \in attempts : Crash(a) \/ Timeout(a) \/ TimeoutLost(a) \/ RetryLost(a)

Next == (\E t \in Transitions : Create(t)) \/ Submission \/ Delivery \/ Execution \/ Faults

Spec == Init /\ [][Next]_vars

\* Beat keeps submitting and the workers keep working; a fault need not occur,
\* nor need anybody create a transition.
FairSpec == Spec /\ WF_vars(Submission) /\ WF_vars(Delivery) /\ WF_vars(Execution)

-------------------------------------------------------------------------------
(* Properties *)

\* Types of all variables.
TypeOK ==
    /\ status \in [Transitions -> Statuses]
    /\ batch \in [Submitters -> [todo : SUBSET Transitions,
                                 publishing : Transitions \cup {NoTransition}]]
    /\ broker \subseteq Messages
    /\ attempts \subseteq Attempts
    /\ sent \in [Transitions -> Nat]
    /\ crashes \in 0..MaxCrashes
    /\ timeouts \in 0..MaxTimeouts
    /\ losses \in 0..MaxLosses
    /\ lost \subseteq Transitions
    /\ compromised \subseteq Transitions

Publishing(t) == {s \in Submitters : batch[s].publishing = t}

\* Something that will go on with the transition.
WillProceed(a) ==
    \/ a.phase \in {"running", "expired"}
    \/ a.phase = "received" /\ a.seen \notin Terminal

Carried(t) ==
    \/ \E m \in broker : m.t = t
    \/ \E a \in attempts : a.msg.t = t /\ WillProceed(a)
    \/ Publishing(t) # {}

\* Whatever workers crash, time out, overlap or are delivered twice, a
\* transition that reads sent_to_broker or in_progress has a message, a
\* worker or a submitter that will go on with it, unless its publication was
\* lost in one of three windows: between the status save and apply_async in
\* celery_apply_async, between acknowledge and apply_async in on_timeout, and
\* in a retry the broker refuses, whose delivery celery rejects for good.
\* The daemon never looks at such a transition again, and creates no other
\* transition for its resource while it lasts.
NoOrphan ==
    \A t \in Transitions \ lost :
        status[t] \in {"sent_to_broker", "in_progress"} => Carried(t)

\* The same without the exemption: create_missing_transitions and
\* submit_transition_tasks leave nothing behind.
NothingStranded ==
    \A t \in Transitions :
        status[t] \in {"sent_to_broker", "in_progress"} => Carried(t)

\* Whoever may still act on the transition. A delivery whose retry is
\* published has handed the transition over to that message.
Holders(t) ==
    {<<"message", m>> : m \in {n \in broker : n.t = t}} \cup
    {<<"attempt", a>> : a \in {b \in attempts : b.msg.t = t /\ b.phase # "retried"}} \cup
    {<<"submitter", s>> : s \in Publishing(t)}

\* A transition is in one pair of hands at a time, so that no two executions of
\* a task body run concurrently, except for the transitions that went through
\* one of the windows in which the code makes a twin: a stale object saved and
\* published by an overlapping submitter, a worker lost or timed out between
\* the publication of a retry and the acknowledgement, a timeout after the end.
SingleFlight ==
    \A t \in Transitions \ compromised :
        \A x \in Holders(t), y \in Holders(t) : x = y

\* Retries end: whatever crashes and redeliveries it went through, a transition
\* that has no twin is published at most max_retries times, plus the two
\* tries that on_timeout may throw away when it starts the count again.
RetryBudget ==
    \A t \in Transitions \ compromised : sent[t] <= MaxRetries + 2

\* The status column moves only forward and succeeded and failed are final,
\* for transitions without a twin: the engine implements TransitionStatus.
StatusPromise == Promise!Spec

Quiet(t) == status[t] \in Terminal \/ t \in lost

\* Every transition that is created is sooner or later over, and stays so,
\* whatever crashes, times out and overlaps; but for lost publications.
EventuallySettled ==
    \A t \in Transitions : status[t] = "pending" ~> [](Quiet(t))
===============================================================================
