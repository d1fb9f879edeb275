------------------------------- MODULE Reconcile -------------------------------
(***************************************************************************)
(* How desired states become resources: the user applies an HCL file, the  *)
(* daemon task create_missing_transitions starts a pipeline of transitions *)
(* for every resource that is not where it should be, and the transition   *)
(* tasks (ensure_*.py) read the database and the provider, log events on   *)
(* their resource and create the next transition.                          *)
(*                                                                         *)
(* A task works on the copy of its resource it read when the try began,    *)
(* and saving that copy writes every column.                               *)
(*                                                                         *)
(* TransitionEngine is taken for granted: a transition that is created is  *)
(* executed, one try at a time.                                            *)
(***************************************************************************)
EXTENDS ResourceEvents, Integers, FiniteSets

CONSTANTS
    Resources,
    Deps,          \* Deps[r]: what r depends on (ResourceDependencyModel)
    MaxRetries,    \* max_retries of every transition type
    Hidden,        \* not listed any more once their deletion has begun
    ListingLag,    \* TRUE: what is created shows up in the listing later
    HastyUser,     \* TRUE: apply while the system is still at work
    MaxApplies,    \* bound: files applied
    MaxRefusals,   \* bound: provider errors, failed health checks, exceptions
    MaxUnreported, \* bound: failures of a resource not reported on it yet when
                   \* the next pipeline starts
    NoRow          \* a task between two tries

ASSUME ConstantsAssumption ==
    /\ Deps \in [Resources -> SUBSET Resources]
    /\ Hidden \subseteq Resources
    /\ MaxRetries \in Nat \ {0}
    /\ ListingLag \in BOOLEAN /\ HastyUser \in BOOLEAN
    /\ {MaxApplies, MaxRefusals, MaxUnreported} \subseteq Nat

VARIABLES
    row,        \* ResourceModel
    tasks,      \* transitions that are not over, and their tries
    daemon,     \* create_missing_transitions
    provider,   \* what exists at the provider
    wish,       \* history: the desired state last applied
    applies, refusals

vars == <<row, tasks, daemon, provider, wish, applies, refusals>>

Dependents(r) == {d \in Resources : r \in Deps[d]}

\* pending:  created, not begun        waiting: between two tries
\* body:     a try has read its row    verify:  the request was accepted
\* logged:   the outcome is logged, hooks and the next transition remain
\* closing:  all but the success is logged
\* failing:  the transition is failed, its resource not yet told
Phases == {"pending", "waiting", "body", "verify", "logged", "closing", "failing"}

Tasks == [res : Resources, type : TransitionTypes, phase : Phases,
          snap : Rows \cup {NoRow}, retries : 0..(MaxRetries - 1), memo : BOOLEAN]

Existence == {"absent", "creating", "present", "deleting"}

NewTask(r, type) ==
    [res |-> r, type |-> type, phase |-> "pending", snap |-> NoRow,
     retries |-> 0, memo |-> FALSE]

Init ==
    /\ row = [r \in Resources |->
                [desired |-> None, state |-> "newborn_model", cause |-> None]]
    /\ tasks = {}
    /\ daemon = [at |-> "scan", want |-> "healthy", todo |-> {}]
    /\ provider = [r \in Resources |-> "absent"]
    /\ wish = [r \in Resources |-> None]
    /\ applies = 0
    /\ refusals = 0

\* check_exists: what list_resources returns.
Listed(r) == provider[r] = "present" \/ (provider[r] = "deleting" /\ r \notin Hidden)

\* Nothing is under way and nothing is left to do.
Settled ==
    /\ tasks = {} /\ daemon.at = "scan"
    /\ \A r \in Resources :
          \/ row[r].desired \in {None, row[r].state}
          \/ row[r].state = "creation_terminated"

-------------------------------------------------------------------------------
(* The user *)

\* hcl_apply: a file names resources together with what they refer to. One
\* UPDATE sets desired_state and state; state_cause keeps its old value.
Apply(S, d) ==
    /\ applies < MaxApplies
    /\ HastyUser \/ Settled
    /\ applies' = applies + 1
    /\ row' = [r \in Resources |->
                 IF r \in S
                   THEN [row[r] EXCEPT !.desired = d,
                           !.state = IF d = "healthy" THEN "declared" ELSE "unknown"]
                   ELSE row[r]]
    /\ wish' = [r \in Resources |-> IF r \in S THEN d ELSE wish[r]]
    /\ UNCHANGED <<tasks, daemon, provider, refusals>>

Files == {S \in SUBSET Resources : S # {} /\ \A r \in S : Deps[r] \subseteq S}

User == \E S \in Files, d \in {"healthy", "deleted"} : Apply(S, d)

-------------------------------------------------------------------------------
(* create_missing_transitions, one pass at a time: for 'healthy', then for *)
(* 'deleted'                                                               *)

\* Mutant of Other: the pass looks for one desired state only.
AlwaysHealthy(want) == "healthy"

Other(want) == IF want = "healthy" THEN "deleted" ELSE "healthy"

NextStage == [at |-> "scan", want |-> Other(daemon.want), todo |-> {}]

DaemonScan ==
    /\ daemon.at = "scan"
    /\ LET found == {r \in Resources :
                       /\ row[r].desired = daemon.want
                       /\ row[r].state \notin {daemon.want, "creation_terminated"}}
       IN  daemon' = IF found = {} THEN NextStage
                     ELSE [daemon EXCEPT !.at = "filter", !.todo = found]
    /\ UNCHANGED <<row, tasks, provider, wish, applies, refusals>>

\* Mutant of Outstanding: counts what is still pending.
OnlyPending(r) == {k \in tasks : k.res = r /\ k.phase = "pending"}

\* Transitions that are neither succeeded nor failed.
Outstanding(r) == {k \in tasks : k.res = r /\ k.phase # "failing"}

DaemonFilter ==
    /\ daemon.at = "filter"
    /\ LET free == {r \in daemon.todo : Outstanding(r) = {}}
       IN  daemon' = IF free = {} THEN NextStage
                     ELSE [daemon EXCEPT !.at = "create", !.todo = free]
    /\ UNCHANGED <<row, tasks, provider, wish, applies, refusals>>

\* Mutant of InitialType: takes no heed of HAS_DEPENDENCIES.
CreateAtOnce(r) ==
    IF daemon.want = "deleted" THEN "ensure_forward_dependencies_deleted" ELSE "ensure_exists"

InitialType(r) ==
    CASE daemon.want = "deleted" -> "ensure_forward_dependencies_deleted"
      [] daemon.want = "healthy" /\ Deps[r] # {} -> "ensure_dependencies_ready"
      [] daemon.want = "healthy" /\ Deps[r] = {} -> "ensure_exists"

\* get_or_create of a pending transition.
WithTransition(ts, r, type) ==
    IF \E k \in ts : k.res = r /\ k.type = type /\ k.phase = "pending"
      THEN ts ELSE ts \cup {NewTask(r, type)}

Unreported(r) == {k \in tasks : k.res = r /\ k.phase = "failing"}

DaemonCreate ==
    /\ daemon.at = "create"
    /\ \E r \in daemon.todo :
          /\ Cardinality(Unreported(r)) <= MaxUnreported
          /\ tasks' = WithTransition(tasks, r, InitialType(r))
          /\ daemon' = IF daemon.todo = {r} THEN NextStage
                       ELSE [daemon EXCEPT !.todo = @ \ {r}]
    /\ UNCHANGED <<row, provider, wish, applies, refusals>>

Daemon == DaemonScan \/ DaemonFilter \/ DaemonCreate

-------------------------------------------------------------------------------
(* What a try has in common *)

Become(k, next) == tasks' = (tasks \ {k}) \cup {next}

\* A task whose last try is over, but for what the phase names.
Over(k, phase, copy) == [NewTask(k.res, k.type) EXCEPT !.phase = phase, !.snap = copy]

\* ResourceModel.save of the copy the task holds.
Save(k, copy) == row' = [row EXCEPT ![k.res] = copy]

Log(k, event, reason) == LogEvent(k.snap, k.type, event, reason)

\* before_start: read the transition and its resource.
Begin(k) ==
    /\ k.phase \in {"pending", "waiting"}
    /\ Become(k, [k EXCEPT !.phase = "body", !.snap = row[k.res]])
    /\ UNCHANGED <<row, daemon, provider, wish, applies, refusals>>

\* log_resource_event, and on to the next phase of the try.
LogAndGo(k, event, reason, phase) ==
    LET copy == Log(k, event, reason)
    IN  /\ Save(k, copy)
        /\ Become(k, [k EXCEPT !.phase = phase, !.snap = copy])

\* Mutant of RetriesLeft: one try too many.
OneMoreRetry(k) == k.retries < MaxRetries

\* get_next_retry_countdown.
RetriesLeft(k) == k.retries < MaxRetries - 1

\* TransitionTask.retry. saved: the body has already saved its copy; event:
\* the exception is a TaskRetryException, which on_retry logs; side: what
\* is logged in its place when the retries are exhausted. The copy on_retry
\* saves is the stale one, and so is the one on_failure uses.
Retry(k, saved, event, side) ==
    IF RetriesLeft(k)
      THEN /\ Become(k, [k EXCEPT !.phase = "waiting", !.snap = NoRow, !.retries = @ + 1])
           /\ IF saved \/ event THEN Save(k, k.snap) ELSE UNCHANGED row
      ELSE LET copy == IF event /\ side # None
                         THEN Log(k, side, "retries_exhausted") ELSE k.snap
           IN  /\ Become(k, Over(k, "failing", copy))
               /\ IF saved \/ (event /\ side # None) THEN Save(k, copy) ELSE UNCHANGED row

\* An exception that is not retried: the transition is marked failed (the
\* post_save signal) before on_failure is called, which reads it anew.
Raise(k) == Become(k, Over(k, "failing", NoRow))

Refetch(k) ==
    /\ k.phase = "failing" /\ k.snap = NoRow
    /\ Become(k, [k EXCEPT !.snap = row[k.res]])
    /\ UNCHANGED <<row, daemon, provider, wish, applies, refusals>>

\* on_failure: 'terminal_failure' on the resource.
Terminate(k) ==
    /\ k.phase = "failing" /\ k.snap # NoRow
    /\ Save(k, Log(k, "terminal_failure", "exception"))
    /\ tasks' = tasks \ {k}
    /\ UNCHANGED <<daemon, provider, wish, applies, refusals>>

\* Mutant of Successor: ensure_exists is taken for the end of its pipeline.
NoHealthCheck ==
    [ensure_dependencies_ready           |-> {"ensure_exists"},
     ensure_exists                       |-> {},
     ensure_healthy                      |-> {},
     ensure_forward_dependencies_deleted |-> {"ensure_deleted"},
     ensure_deleted                      |-> {}]

Successor == [ensure_dependencies_ready           |-> {"ensure_exists"},
              ensure_exists                       |-> {"ensure_healthy"},
              ensure_healthy                      |-> {},
              ensure_forward_dependencies_deleted |-> {"ensure_deleted"},
              ensure_deleted                      |-> {}]

\* The hooks return and the next transition of the pipeline is created ...
Handover(k) ==
    /\ k.phase = "logged"
    /\ LET rest == (tasks \ {k}) \cup {Over(k, "closing", NoRow)}
       IN  \/ Successor[k.type] = {} /\ tasks' = rest
           \/ \E type \in Successor[k.type] : tasks' = WithTransition(rest, k.res, type)
    /\ UNCHANGED <<row, daemon, provider, wish, applies, refusals>>

\* Mutant of Complete: the success is not logged.
NeverComplete(k) == k.phase = "closing" /\ UNCHANGED vars

\* ... before on_success closes this one.
Complete(k) ==
    /\ k.phase = "closing"
    /\ tasks' = tasks \ {k}
    /\ UNCHANGED <<row, daemon, provider, wish, applies, refusals>>

Refuse == refusals < MaxRefusals /\ refusals' = refusals + 1

\* HttpError or a timeout of a provider call: retried, nothing is logged.
CallFails(k) ==
    /\ k.phase \in {"body", "verify"} \/ (k.phase = "logged" /\ k.type = "ensure_healthy")
    /\ Refuse
    /\ Retry(k, FALSE, FALSE, None)
    /\ UNCHANGED <<daemon, provider, wish, applies>>

\* Any other exception, of the body or of a hook.
Unexpected(k) ==
    /\ k.phase \in {"body", "verify", "logged"}
    /\ Refuse
    /\ Raise(k)
    /\ UNCHANGED <<row, daemon, provider, wish, applies>>

-------------------------------------------------------------------------------
(* ensure_dependencies_ready, ensure_forward_dependencies_deleted *)

DependenciesReady(k) ==
    /\ k.type = "ensure_dependencies_ready" /\ k.phase = "body"
    /\ \A d \in Deps[k.res] : row[d].state = "healthy"
    /\ LogAndGo(k, "dependencies_ready", None, "logged")
    /\ UNCHANGED <<daemon, provider, wish, applies, refusals>>

Failed(d) == row[d].state = "creation_failed" \/ row[d].cause = "terminal_failure"

DependenciesPending(k) ==
    /\ k.type = "ensure_dependencies_ready" /\ k.phase = "body"
    /\ \E d \in Deps[k.res] :
          /\ row[d].state # "healthy"
          /\ \/ Failed(d) /\ Raise(k) /\ UNCHANGED row
             \/ ~Failed(d) /\ Retry(k, FALSE, TRUE, None)
    /\ UNCHANGED <<daemon, provider, wish, applies, refusals>>

\* Mutant of DependentsAbsent: what is not healthy counts as deleted.
DependentsUnhealthy(k) ==
    /\ k.type = "ensure_forward_dependencies_deleted" /\ k.phase = "body"
    /\ \A d \in Dependents(k.res) : row[d].state # "healthy"
    /\ LogAndGo(k, "forward_dependencies_absent", None, "logged")
    /\ UNCHANGED <<daemon, provider, wish, applies, refusals>>

DependentsAbsent(k) ==
    /\ k.type = "ensure_forward_dependencies_deleted" /\ k.phase = "body"
    /\ \A d \in Dependents(k.res) : row[d].state = "deleted"
    /\ LogAndGo(k, "forward_dependencies_absent", None, "logged")
    /\ UNCHANGED <<daemon, provider, wish, applies, refusals>>

\* No resource is ever in the state 'deletion_terminated' the code tests for.
GivenUp(d) == row[d].state = "deletion_terminated" \/ row[d].cause = "terminal_failure"

DependentsPending(k) ==
    /\ k.type = "ensure_forward_dependencies_deleted" /\ k.phase = "body"
    /\ \E d \in Dependents(k.res) :
          /\ row[d].state # "deleted"
          /\ \/ GivenUp(d) /\ Raise(k) /\ UNCHANGED row
             \/ ~GivenUp(d) /\ Retry(k, FALSE, TRUE, "deletion_terminated")
    /\ UNCHANGED <<daemon, provider, wish, applies, refusals>>

-------------------------------------------------------------------------------
(* ensure_exists *)

FoundBefore(k) ==
    /\ k.type = "ensure_exists" /\ k.phase = "body" /\ Listed(k.res)
    /\ LogAndGo(k, "resource_found", "found_before_creation", "logged")
    /\ UNCHANGED <<daemon, provider, wish, applies, refusals>>

CreateRequest(k) ==
    /\ k.type = "ensure_exists" /\ k.phase = "body" /\ ~Listed(k.res)
    /\ ~k.memo
    /\ provider[k.res] = "absent"
    /\ provider' = [provider EXCEPT ![k.res] = IF ListingLag THEN "creating" ELSE "present"]
    /\ Save(k, Log(k, "creation_request_succeeded", None))
    /\ Become(k, [k EXCEPT !.phase = "verify", !.memo = TRUE])
    /\ UNCHANGED <<daemon, wish, applies, refusals>>

FoundAfter(k) ==
    /\ k.type = "ensure_exists" /\ k.phase = "verify" /\ Listed(k.res)
    /\ LogAndGo(k, "resource_found", "found_after_creation", "logged")
    /\ UNCHANGED <<daemon, provider, wish, applies, refusals>>

\* Ten polls and not there yet.
NotYetFound(k) ==
    /\ k.type = "ensure_exists" /\ k.phase = "verify" /\ ~Listed(k.res)
    /\ Retry(k, FALSE, TRUE, None)
    /\ UNCHANGED <<daemon, provider, wish, applies, refusals>>

-------------------------------------------------------------------------------
(* ensure_healthy *)

MissingOnRecheck(k) == k.retries >= 2 /\ ~Listed(k.res)

Healthy(k) ==
    /\ k.type = "ensure_healthy" /\ k.phase = "body"
    /\ ~MissingOnRecheck(k)
    /\ LogAndGo(k, "health_checks_succeeded", None, "logged")
    /\ UNCHANGED <<daemon, provider, wish, applies, refusals>>

NotHealthy(k) ==
    /\ k.type = "ensure_healthy" /\ k.phase = "body"
    /\ \/ MissingOnRecheck(k) /\ Retry(k, FALSE, TRUE, None) /\ UNCHANGED refusals
       \/ /\ ~MissingOnRecheck(k)
          /\ Refuse
          /\ Retry(k, FALSE, TRUE, "health_checks_terminated")
    /\ UNCHANGED <<daemon, provider, wish, applies>>

-------------------------------------------------------------------------------
(* ensure_deleted *)

AbsentBefore(k) ==
    /\ k.type = "ensure_deleted" /\ k.phase = "body" /\ ~Listed(k.res)
    /\ LogAndGo(k, "resource_not_found", "absent_before_deletion", "logged")
    /\ UNCHANGED <<daemon, provider, wish, applies, refusals>>

DeleteRequest(k) ==
    /\ k.type = "ensure_deleted" /\ k.phase = "body" /\ Listed(k.res)
    /\ ~k.memo
    /\ provider' = [provider EXCEPT ![k.res] = "deleting"]
    /\ Save(k, Log(k, "deletion_request_succeeded", None))
    /\ Become(k, [k EXCEPT !.phase = "verify", !.memo = TRUE])
    /\ UNCHANGED <<daemon, wish, applies, refusals>>

\* Mutant of AbsentAfter: trusts the request.
AssumeAbsent(k) ==
    /\ k.type = "ensure_deleted" /\ k.phase = "verify"
    /\ LogAndGo(k, "resource_not_found", "absent_after_deletion", "logged")
    /\ UNCHANGED <<daemon, provider, wish, applies, refusals>>

AbsentAfter(k) ==
    /\ k.type = "ensure_deleted" /\ k.phase = "verify" /\ ~Listed(k.res)
    /\ LogAndGo(k, "resource_not_found", "absent_after_deletion", "logged")
    /\ UNCHANGED <<daemon, provider, wish, applies, refusals>>

NotYetAbsent(k) ==
    /\ k.type = "ensure_deleted" /\ k.phase = "verify" /\ Listed(k.res)
    /\ Retry(k, FALSE, TRUE, "deletion_terminated")
    /\ UNCHANGED <<daemon, provider, wish, applies, refusals>>

-------------------------------------------------------------------------------
(* The creation and deletion requests, when they do not go well *)

NeedsRequest(k) ==
    /\ k.phase = "body"
    /\ \/ k.type = "ensure_exists" /\ ~Listed(k.res)
       \/ k.type = "ensure_deleted" /\ Listed(k.res)

\* A memoized request returns its cache key, which cannot be unpacked.
MemoHit(k) ==
    /\ NeedsRequest(k)
    /\ k.memo
    /\ Raise(k)
    /\ UNCHANGED <<row, daemon, provider, wish, applies, refusals>>

\* The 180 seconds of the memo pass before the next try.
MemoExpires(k) ==
    /\ k.phase = "waiting" /\ k.memo
    /\ Become(k, [k EXCEPT !.memo = FALSE])
    /\ UNCHANGED <<row, daemon, provider, wish, applies, refusals>>

\* 'creating' or 'deleting' is logged, then the provider refuses: with a
\* result (a TaskRetryException follows) or an HttpError. What is already
\* being created or deleted is refused anyhow.
RequestRefused(k) ==
    /\ NeedsRequest(k) /\ ~k.memo
    /\ IF provider[k.res] \in {"creating", "deleting"} THEN UNCHANGED refusals ELSE Refuse
    /\ \E event \in BOOLEAN :
          Retry(k, TRUE, event,
                IF k.type = "ensure_deleted" THEN "deletion_terminated" ELSE None)
    /\ UNCHANGED <<daemon, provider, wish, applies>>

-------------------------------------------------------------------------------
Appear(r) ==
    /\ provider[r] = "creating"
    /\ provider' = [provider EXCEPT ![r] = "present"]
    /\ UNCHANGED <<row, tasks, daemon, wish, applies, refusals>>

Vanish(r) ==
    /\ provider[r] = "deleting"
    /\ provider' = [provider EXCEPT ![r] = "absent"]
    /\ UNCHANGED <<row, tasks, daemon, wish, applies, refusals>>

TaskStep(k) ==
    \/ Begin(k) \/ Handover(k)
    \/ DependenciesReady(k) \/ DependenciesPending(k)
    \/ DependentsAbsent(k) \/ DependentsPending(k)
    \/ FoundBefore(k) \/ CreateRequest(k) \/ FoundAfter(k) \/ NotYetFound(k)
    \/ Healthy(k) \/ NotHealthy(k)
    \/ AbsentBefore(k) \/ DeleteRequest(k) \/ AbsentAfter(k) \/ NotYetAbsent(k)
    \/ MemoHit(k) \/ RequestRefused(k) \/ CallFails(k) \/ Unexpected(k)

TasksOf(r, type) == {k \in tasks : k.res = r /\ k.type = type}

Work(r)         == \E k \in tasks : k.res = r /\ TaskStep(k)
Close(r, type)  == \E k \in TasksOf(r, type) : Complete(k)
Report(r, type) == \E k \in TasksOf(r, type) : Refetch(k) \/ Terminate(k)

Next ==
    \/ User
    \/ Daemon
    \/ \E r \in Resources :
          \/ Work(r) \/ Appear(r) \/ Vanish(r)
          \/ \E type \in TransitionTypes : Close(r, type) \/ Report(r, type)
    \/ \E k \in tasks : MemoExpires(k)

Spec == Init /\ [][Next]_vars

\* Beat keeps the daemon running, workers serve every transition to its end,
\* and the provider finishes what it accepted. The user owes nothing.
FairSpec ==
    /\ Spec
    /\ WF_vars(Daemon)
    /\ \A r \in Resources :
          /\ WF_vars(Work(r)) /\ WF_vars(Appear(r)) /\ WF_vars(Vanish(r))
          /\ \A type \in TransitionTypes : WF_vars(Close(r, type)) /\ WF_vars(Report(r, type))

-------------------------------------------------------------------------------
(* Properties *)

\* The variables hold what the code can put there.
TypeOK ==
    /\ row \in [Resources -> Rows]
    /\ tasks \subseteq Tasks
    /\ daemon \in [at : {"scan", "filter", "create"}, want : {"healthy", "deleted"},
                   todo : SUBSET Resources]
    /\ provider \in [Resources -> Existence]
    /\ wish \in [Resources -> DesiredStates]
    /\ applies \in 0..MaxApplies /\ refusals \in 0..MaxRefusals

\* A resource is worked on by one pipeline: besides tasks that only close or
\* only report their failure there is at most one. The daemon reads the
\* resources, then the transitions, then creates, while tasks hand over.
SinglePipeline ==
    \A k, l \in tasks :
        (k.res = l.res /\ {k.phase, l.phase} \cap {"closing", "failing"} = {}) => k = l

\* "This is scheduled only when a Resource's dependencies are ready": the
\* creation is requested when all the resource depends on exists.
CreateAfterDependencies ==
    [][\A r \in Resources :
          (provider[r] = "absent" /\ provider'[r] # "absent")
              => \A d \in Deps[r] : provider[d] = "present"]_vars

\* A network is not deleted while instances on it exist: the deletion is
\* requested when no dependent of the resource is listed any more.
DeleteAfterDependents ==
    [][\A r \in Resources :
          (provider[r] # "deleting" /\ provider'[r] = "deleting")
              => \A d \in Dependents(r) : provider[d] \in {"absent", "deleting"}]_vars

\* What the database calls healthy exists, and what it calls deleted does not,
\* unless its deletion still goes on where the listing cannot see it.
StatesAreTrue ==
    \A r \in Resources :
        /\ row[r].state = "healthy" => provider[r] = "present"
        /\ row[r].state = "deleted" =>
              provider[r] = "absent" \/ (provider[r] = "deleting" /\ r \in Hidden)

\* What the lifecycle calls the object.
ObjectOf(r) ==
    CASE provider[r] \in {"creating", "present"} -> "made"
      [] provider[r] = "deleting" /\ r \notin Hidden -> "leaving"
      [] OTHER -> "absent"

Lifecycle(r) ==
    INSTANCE ResourceLifecycle
        WITH desired <- row[r].desired, state <- row[r].state,
             object <- ObjectOf(r), mistaken <- FALSE

\* Every resource goes through its lifecycle, as long as the user waits and the
\* listing is prompt: the pipelines move the provider only where the row wants
\* it, and no copy a task saves, however old, tells of another wish or object.
FollowsLifecycle ==
    /\ \A r \in Resources : Lifecycle(r)!Init
    /\ [][\A r \in Resources : [Lifecycle(r)!Next]_(Lifecycle(r)!vars)]_vars

\* A resource the user goes on wanting is healthy again and again, or given up:
\* a pass that read the row before the pipeline ended and the transitions after
\* it starts another one, and ensure_exists takes the row back to 'exists'.
ConvergesUp ==
    \A r \in Resources :
        <>[](row[r].desired = "healthy")
            => []<>(row[r].state \in {"healthy", "creation_terminated"})

\* A resource the user wants gone, with all that depends on it, is deleted in
\* the end.
ConvergesDown ==
    \A r \in Resources :
        <>[](\A d \in {r} \cup Dependents(r) : row[d].desired = "deleted" /\ wish[d] = "deleted")
            => <>[](row[r].state = "deleted")

\* What the user asked for last is what the daemon works towards.
WishKept == \A r \in Resources : row[r].desired = wish[r]
===============================================================================
