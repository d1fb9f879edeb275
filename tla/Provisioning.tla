----------------------------- MODULE Provisioning -----------------------------
(***************************************************************************)
(* One resource at its provider, call by call and save by save: the tasks  *)
(* of its transitions, the hooks that store the identifiers of what was    *)
(* created, and what the API client makes of the provider's answers        *)
(* (gcp_resources).  Workers are lost, calls fail, messages are late and   *)
(* instances restarted; a delivery that was not acknowledged is executed   *)
(* again, beside the transitions its first execution created, or beside    *)
(* its own retry.                                                          *)
(*                                                                         *)
(* Reconcile has the dependencies of several resources, users in a hurry   *)
(* and the races of the daemon; here dependencies are ready, the daemon    *)
(* does its pass in one step, and no publication is lost                   *)
(* (TransitionEngine has that).                                            *)
(***************************************************************************)
EXTENDS RetryPolicy, FiniteSets

CONSTANTS
    Kinds,      \* of network, firewall, instance
    Slots,      \* bound: executions that are open at a time
    Subnets,    \* the subnetworks the provider creates in a network
    Delays,     \* seconds a message may be late
    MaxApplies, \* bound, for each kind: files applied
    MaxFaults,  \* and crashes, failing calls, late messages, restarts, ...
    Doubling,   \* bound: kinds of which a stage is executed twice, as the one fault
    NoRow, NoSubnet

ASSUME ConstantsAssumption ==
    /\ Kinds \subseteq {"network", "firewall", "instance"}
    /\ Slots \in Nat \ {0}
    /\ Delays \subseteq Nat
    /\ {MaxApplies, MaxFaults} \subseteq [Kinds -> Nat]
    /\ NoSubnet \notin Subnets

VARIABLES
    kind,       \* the class of the resource
    row,        \* its ResourceModel
    subnetRows, \* rows made for the subnetworks of a network
    tasks,      \* executions of the transitions that are open
    trans,      \* what the executions of one transition share
    obj,        \* the object at the provider
    others,     \* the project has other networks, other firewalls
    torn,       \* history: a worker was lost between the two hooks
    blind,      \* history: an object that exists was not listed and was taken
                \* for deleted
    doubled,    \* history: a worker was lost before it acknowledged what it had
                \* handed over to the next stage, or scheduled for a retry
    applies, faults

history == <<torn, blind, doubled>>
vars == <<kind, row, subnetRows, tasks, trans, obj, others, history, applies, faults>>

None == "none"
FirstStages == {"ensure_dependencies_ready", "ensure_forward_dependencies_deleted"}
Types == FirstStages \cup {"ensure_exists", "ensure_healthy", "ensure_deleted"}

\* self_link is that of the object, as generated when the row was made, or
\* that of the operation that creates it. self_id likewise: the objects of
\* that name are numbered.
Links == {"object", "operation"}
NoId == 0
OperationId == -1
Ids == Nat \cup {OperationId}

States == {"newborn_model", "declared", "unknown", "exists", "healthy",
           "creation_terminated", "deletion_failed", "deleted"}

Rows == [desired : {None, "healthy", "deleted"}, state : States, link : Links, self_id : Ids]

\* pending:  created                    queued, waiting: a message, the latter
\* check:    before check_exists, or             for a retry
\*           the dependencies           base, hook: before exists_hook_base
\* request:  before the request                  and exists_hook
\* appear, absence: polling
\* found:    'resource_found' is logged health, healthy: before the checks,
\* subnets, insert: healthy_hook                 and before healthy_hook
\* closing:  all but the success is logged
Idle    == {"pending", "queued", "waiting"}
Working == {"check", "request", "base", "hook", "appear", "found", "health",
            "healthy", "subnets", "insert", "absence", "closing"}

\* of: the transition. copy: the row as the try read it. answer: what a creation
\* request returned. links: subnetworks of the network fetched by healthy_hook.
Tasks ==
    [of : 0..Slots, type : Types \cup {None}, pc : {"free"} \cup Idle \cup Working,
     begun : BOOLEAN, retries : Nat, elapsed : Nat, copy : Rows \cup {NoRow},
     answer : {None, "operation", "object"}, links : SUBSET Subnets,
     cur : Subnets \cup {NoSubnet}]

Free ==
    [of |-> 0, type |-> None, pc |-> "free", begun |-> FALSE, retries |-> 0, elapsed |-> 0,
     copy |-> NoRow, answer |-> None, links |-> {}, cur |-> NoSubnet]

\* ended: succeeded or failed, while another execution goes on. memo: the
\* checkpoint of the transition, as Memorize keeps it for 180 seconds.
Transitions == [1..Slots -> [ended : BOOLEAN, memo : BOOLEAN]]

Fresh == [ended |-> FALSE, memo |-> FALSE]

Statuses == {"absent", "pending", "live", "hidden", "stopping"}

Init ==
    /\ kind \in Kinds
    /\ row = [desired |-> None, state |-> "newborn_model", link |-> "object", self_id |-> NoId]
    /\ subnetRows = {}
    /\ tasks = [t \in 1..Slots |-> Free]
    /\ trans = [t \in 1..Slots |-> Fresh]
    /\ obj = [status |-> "absent", id |-> NoId, subnets |-> FALSE]
    /\ others = TRUE
    /\ torn = FALSE /\ blind = FALSE /\ doubled = FALSE
    /\ applies = 0 /\ faults = 0

Open == {t \in 1..Slots : tasks[t].pc # "free"}
At(t, pc) == tasks[t].pc = pc
Is(t, type, pc) == tasks[t].type = type /\ tasks[t].pc = pc

\* The transition of t has not ended.
Outstanding == {t \in Open : ~trans[tasks[t].of].ended}

Put(t, k) == tasks' = [tasks EXCEPT ![t] = k] /\ UNCHANGED trans
Go(t, pc) == Put(t, [tasks[t] EXCEPT !.pc = pc])

\* The end of the transition, for t; others that execute it are not stopped.
Without(t) ==
    [trans EXCEPT ![tasks[t].of] =
        IF \E u \in Open \ {t} : tasks[u].of = tasks[t].of
          THEN [ended |-> TRUE, memo |-> trans[tasks[t].of].memo] ELSE Fresh]

End(t) == tasks' = [tasks EXCEPT ![t] = Free] /\ trans' = Without(t)

\* model_obj.save(), the whole copy, and on with the task.
Save(t, k) == row' = k.copy /\ Put(t, k)
SaveAs(t, pc, copy) == Save(t, [tasks[t] EXCEPT !.pc = pc, !.copy = copy])

New(s, type) == [Free EXCEPT !.of = s, !.type = type, !.pc = "pending"]

Vacant == {s \in 1..Slots : s \notin Open /\ \A t \in Open : tasks[t].of # s}
Slot == CHOOSE s \in Vacant : TRUE

\* create_transition, by t, which goes on as k: one that is pending is taken.
CreateTransition(t, k, type) ==
    \/ /\ \E u \in Open : Is(u, type, "pending")
       /\ Put(t, k)
    \/ /\ ~\E u \in Open : Is(u, type, "pending")
       /\ Vacant # {}
       /\ tasks' = [tasks EXCEPT ![t] = k, ![Slot] = New(Slot, type)]
       /\ UNCHANGED trans

Fault == faults < MaxFaults[kind] /\ faults' = faults + 1

\* A worker is lost, and a stage is executed twice for it.
Double ==
    /\ kind \in Doubling
    /\ faults = 0 /\ MaxFaults[kind] # 0 /\ faults' = MaxFaults[kind]
    /\ doubled' = TRUE

-------------------------------------------------------------------------------
(* The end of a try that does not succeed *)

\* Mutant of Terminated: 'creation_terminated' is not logged.
NotLogged(type, r) == r

\* Mutant of Terminated: a state that ResourceState does not have.
TerminatedState(type, r) ==
    [r EXCEPT !.state = IF type = "ensure_deleted" THEN "deletion_terminated"
                        ELSE "creation_terminated"]

\* 'creation_terminated'; there is no such event for a deletion.
Terminated(type, r) ==
    IF type \in {"ensure_deleted", "ensure_forward_dependencies_deleted"} THEN r
    ELSE [r EXCEPT !.state = "creation_terminated"]

\* An exception that is not retried: on_failure reads the row again.
Unexpected(t) == End(t) /\ row' = Terminated(tasks[t].type, row)

\* The last retry fails: simulate_failure has on_failure save the copy of the try.
\* exc: "retry" is TaskRetryException, "http" any other exception of RETRY_FOR.
Exhausted(k, exc) ==
    IF exc = "retry" /\ k.type = "ensure_deleted"
      THEN [k.copy EXCEPT !.state = "deletion_failed"]
      ELSE Terminated(k.type, k.copy)

Timed(k) == RetryParams(kind, k.type).total_timeout # NotGiven

\* The message that will execute k once more. The age of a task is kept where
\* it is looked at.
Message(k, pc) ==
    [k EXCEPT !.pc = pc, !.copy = NoRow, !.answer = None, !.links = {}, !.cur = NoSubnet]

\* Nothing is left but to log the success; the copy is not saved any more.
Closing(k) == Message(k, "closing")

Later(k, secs) ==
    [Message(k, "waiting") EXCEPT
        !.retries = k.retries + 1,
        !.elapsed = IF Timed(k) THEN k.elapsed + secs ELSE k.elapsed]

RetryIn(t, k, secs, exc) ==
    IF GivesUp(RetryParams(kind, k.type), k.retries, TaskAge(k.elapsed))
      THEN End(t) /\ row' = Exhausted(k, exc)
      ELSE Put(t, Later(k, secs)) /\ row' = IF exc = "http" THEN row ELSE k.copy

Retry(t, exc) ==
    RetryIn(t, tasks[t], Countdown(RetryParams(kind, tasks[t].type), tasks[t].retries), exc)

-------------------------------------------------------------------------------
(* The listing *)

\* list_networks, list_firewalls, list_instances with_statuses.
Listed == obj.status = "live" \/ (obj.status = "stopping" /\ kind # "instance")

\* An answer without 'items': nothing of the kind in the project (KeyError).
NoItems == ~Listed /\ ~others /\ kind # "instance"

\* check_exists, fetch: the listing has the identifier of the copy.
Exists(k)  == Listed /\ k.copy.link = "object"
Missing(k) == ~Exists(k) /\ ~NoItems

Lists(k) ==
    \/ k.pc \in {"appear", "absence"}
    \/ k.pc = "check" /\ k.type \notin FirstStages /\ (k.type = "ensure_healthy" => k.retries >= 2)
    \/ k.pc \in {"health", "healthy"} /\ kind = "network"

ListingBroken(t) ==
    /\ Lists(tasks[t]) /\ NoItems
    /\ Unexpected(t)
    /\ UNCHANGED <<kind, subnetRows, obj, others, history, applies, faults>>

ListingFails(t) ==
    /\ Lists(tasks[t])
    /\ Fault
    /\ Retry(t, "http")
    /\ UNCHANGED <<kind, subnetRows, obj, others, history, applies>>

-------------------------------------------------------------------------------
(* Executions *)

\* submit_transition_tasks.
Submit(t) ==
    /\ At(t, "pending")
    /\ Go(t, "queued")
    /\ UNCHANGED <<kind, row, subnetRows, obj, others, history, applies, faults>>

\* populate_context and before_start. What was begun and is not a retry looks
\* like a duplicate and is put off; that of a transition which ended is revoked.
Receive(t) ==
    /\ tasks[t].pc \in {"queued", "waiting"}
    /\ LET k == [tasks[t] EXCEPT !.pc = "check", !.begun = TRUE, !.copy = row] IN
       IF t \notin Outstanding THEN End(t) /\ UNCHANGED row
       ELSE IF tasks[t].begun /\ tasks[t].retries = 0 THEN RetryIn(t, k, 90, "retry")
       ELSE Put(t, k) /\ UNCHANGED row
    /\ UNCHANGED <<kind, subnetRows, obj, others, history, applies, faults>>

\* No worker takes the message for a while.
Late(t) ==
    /\ At(t, "waiting") /\ Timed(tasks[t])
    /\ Fault
    /\ \E d \in Delays :
          Put(t, [tasks[t] EXCEPT !.pc = "queued", !.elapsed = tasks[t].elapsed + d])
    /\ UNCHANGED <<kind, row, subnetRows, obj, others, history, applies>>

\* A first stage that has handed over.
Handed(k) == k.type \in FirstStages /\ k.pc = "closing"

\* The worker is lost, the delivery comes back.
Crash(t) ==
    /\ tasks[t].pc \in Working
    /\ IF Handed(tasks[t]) THEN Double ELSE Fault /\ UNCHANGED doubled
    /\ Put(t, Message(tasks[t], "queued"))
    /\ torn' = (torn \/ (At(t, "hook") /\ tasks[t].answer = "operation"))
    /\ UNCHANGED <<kind, row, subnetRows, obj, others, blind, applies>>

\* The worker is lost once it has published the retry (and on_retry is done), the
\* delivery comes back beside it.
Twin(t) ==
    /\ At(t, "waiting")
    /\ Double
    /\ Vacant # {}
    /\ tasks' = [tasks EXCEPT ![Slot] =
                     [tasks[t] EXCEPT !.pc = "queued", !.retries = tasks[t].retries - 1]]
    /\ UNCHANGED <<kind, row, subnetRows, trans, obj, others, torn, blind, applies>>

\* on_success.
Succeed(t) ==
    /\ At(t, "closing")
    /\ End(t)
    /\ UNCHANGED <<kind, row, subnetRows, obj, others, history, applies, faults>>

-------------------------------------------------------------------------------
(* ensure_dependencies_ready and ensure_forward_dependencies_deleted *)

Successor(type) ==
    IF type = "ensure_dependencies_ready" THEN "ensure_exists" ELSE "ensure_deleted"

\* _done: 'dependencies_ready', 'forward_dependencies_absent', and the next
\* transition.
Proceed(t) ==
    /\ At(t, "check") /\ tasks[t].type \in FirstStages
    /\ row' = tasks[t].copy
    /\ CreateTransition(t, Closing(tasks[t]), Successor(tasks[t].type))
    /\ UNCHANGED <<kind, subnetRows, obj, others, history, applies, faults>>

-------------------------------------------------------------------------------
(* ensure_exists *)

\* 'resource_found'.
Found(t) ==
    /\ Is(t, "ensure_exists", "check") \/ At(t, "appear")
    /\ Exists(tasks[t])
    /\ SaveAs(t, "found", [tasks[t].copy EXCEPT !.state = "exists"])
    /\ UNCHANGED <<kind, subnetRows, obj, others, history, applies, faults>>

\* Mutant of Identified: an identifier once stored is kept.
IdentifiedOnce(copy) == IF copy.self_id = NoId THEN [copy EXCEPT !.self_id = obj.id] ELSE copy

\* The hooks, with the object as it is listed.
Identified(copy) == [copy EXCEPT !.self_id = obj.id, !.link = "object"]

\* _done: the hooks and the next transition.
HandOver(t) ==
    /\ At(t, "found")
    /\ row' = Identified(tasks[t].copy)
    /\ CreateTransition(t, Closing(tasks[t]), "ensure_healthy")
    /\ UNCHANGED <<kind, subnetRows, obj, others, history, applies, faults>>

Attempts(t) ==
    /\ At(t, "check")
    /\ \/ tasks[t].type = "ensure_exists" /\ Missing(tasks[t])
       \/ tasks[t].type = "ensure_deleted" /\ Exists(tasks[t])

Memo(t) == trans[tasks[t].of].memo

\* The checkpoint is entered: 'creating', 'deleting'.
ToRequest(t) ==
    /\ Attempts(t) /\ ~Memo(t)
    /\ SaveAs(t, "request", tasks[t].copy)
    /\ UNCHANGED <<kind, subnetRows, obj, others, history, applies, faults>>

\* A checkpoint that succeeded in the last 180 seconds returns its cache key,
\* which is not a pair.
MemoHit(t) ==
    /\ Attempts(t) /\ Memo(t)
    /\ Unexpected(t)
    /\ UNCHANGED <<kind, subnetRows, obj, others, history, applies, faults>>

\* Between two tries.
MemoExpires(i) ==
    /\ trans[i].memo
    /\ \A t \in Open : tasks[t].of = i => tasks[t].pc \in {"queued", "waiting"}
    /\ trans' = [trans EXCEPT ![i].memo = FALSE]
    /\ UNCHANGED <<kind, row, subnetRows, tasks, obj, others, history, applies, faults>>

Created == [status |-> "pending", id |-> obj.id + 1, subnets |-> FALSE]

\* The request was accepted and is memorised: 'creation_request_succeeded',
\* 'deletion_request_succeeded'.
Accepted(t, pc, answer) ==
    /\ row' = tasks[t].copy
    /\ tasks' = [tasks EXCEPT ![t].pc = pc, ![t].answer = answer]
    /\ trans' = [trans EXCEPT ![tasks[t].of].memo = TRUE]

CreateRequest(t) ==
    /\ Is(t, "ensure_exists", "request")
    /\ obj.status = "absent"
    /\ obj' = Created
    /\ Accepted(t, "base", "operation")
    /\ UNCHANGED <<kind, subnetRows, others, history, applies, faults>>

\* 409. create_vpc_network returns the network instead, create_firewall stops
\* at a breakpoint and raises, and the exception of create_instance is not one
\* that is retried.
NameTaken(t) ==
    /\ Is(t, "ensure_exists", "request")
    /\ obj.status # "absent"
    /\ \/ kind = "network" /\ Accepted(t, "base", "object")
       \/ kind = "firewall" /\ Retry(t, "http")
       \/ kind \in {"firewall", "instance"} /\ Unexpected(t)
    /\ UNCHANGED <<kind, subnetRows, obj, others, history, applies, faults>>

\* The call fails, or its answer is lost, or its status is not RUNNING. What
\* create_instance raises is retried if it is a RequestException.
CreateFails(t) ==
    /\ Is(t, "ensure_exists", "request")
    /\ Fault
    /\ obj' \in {obj} \cup (IF obj.status = "absent" THEN {Created} ELSE {})
    /\ \/ Retry(t, "http")
       \/ kind = "instance" /\ Unexpected(t)
       \/ obj' # obj /\ Retry(t, "retry")
    /\ UNCHANGED <<kind, subnetRows, others, history, applies>>

\* exists_hook_base stores the selfLink of the answer, that of an operation if
\* it comes from a creation.
HookBase(t) ==
    /\ At(t, "base")
    /\ SaveAs(t, "hook", [tasks[t].copy EXCEPT !.link = tasks[t].answer])
    /\ UNCHANGED <<kind, subnetRows, obj, others, history, applies, faults>>

\* Mutant of Hook: takes selfLink too.
HookSelfLink(t) ==
    /\ At(t, "hook")
    /\ SaveAs(t, "appear", [tasks[t].copy EXCEPT !.self_id = OperationId])
    /\ UNCHANGED <<kind, subnetRows, obj, others, history, applies, faults>>

\* GcpResource.exists_hook: targetLink, which only the answer to a creation
\* has (KeyError).
Hook(t) ==
    /\ At(t, "hook")
    /\ IF tasks[t].answer = "operation"
         THEN SaveAs(t, "appear", [tasks[t].copy EXCEPT !.self_id = OperationId, !.link = "object"])
         ELSE Unexpected(t)
    /\ UNCHANGED <<kind, subnetRows, obj, others, history, applies, faults>>

\* Ten polls and not there.
NotAppeared(t) ==
    /\ At(t, "appear")
    /\ Missing(tasks[t])
    /\ Retry(t, "retry")
    /\ UNCHANGED <<kind, subnetRows, obj, others, history, applies, faults>>

-------------------------------------------------------------------------------
(* ensure_healthy *)

\* From the third try on existence is checked, and the hooks called, again.
Recheck(t) ==
    /\ Is(t, "ensure_healthy", "check")
    /\ IF tasks[t].retries < 2
         THEN Go(t, "health") /\ UNCHANGED row
         ELSE \/ /\ Exists(tasks[t])
                 /\ SaveAs(t, "health", Identified(tasks[t].copy))
              \/ Missing(tasks[t]) /\ Retry(t, "retry")
    /\ UNCHANGED <<kind, subnetRows, obj, others, history, applies, faults>>

\* Mutant of HealthChecks: the age of the network is trusted.
NoSubnetCheck(k) == k.copy.self_id # NoId

\* The health_check__ methods. The age is never known, resource_created_at is
\* not set by anything.
HealthChecks(k) ==
    /\ k.copy.self_id # NoId
    /\ kind = "network" => Exists(k) /\ obj.subnets

\* 'health_checks_succeeded'.
Healthy(t) ==
    /\ At(t, "health")
    /\ HealthChecks(tasks[t])
    /\ SaveAs(t, "healthy", [tasks[t].copy EXCEPT !.state = "healthy"])
    /\ UNCHANGED <<kind, subnetRows, obj, others, history, applies, faults>>

NotHealthy(t) ==
    /\ At(t, "health")
    /\ ~HealthChecks(tasks[t])
    /\ ~(Lists(tasks[t]) /\ NoItems)
    /\ Retry(t, "retry")
    /\ UNCHANGED <<kind, subnetRows, obj, others, history, applies, faults>>

\* On with the links that are left, or the end of the hook.
ToLinks(k, links) ==
    IF links = {} THEN Closing(k)
    ELSE [k EXCEPT !.pc = "subnets", !.links = links, !.cur = NoSubnet]

\* healthy_hook fetches the network; a network that is not found has none.
HealthyHook(t) ==
    /\ At(t, "healthy")
    /\ ~(Lists(tasks[t]) /\ NoItems)
    /\ Put(t, ToLinks(tasks[t],
                IF kind = "network" /\ Exists(tasks[t]) /\ obj.subnets THEN Subnets ELSE {}))
    /\ UNCHANGED <<kind, row, subnetRows, obj, others, history, applies, faults>>

\* get_or_create, a query and an insertion, for one link after the other, in
\* the order of the answer.
QuerySubnet(t) ==
    /\ At(t, "subnets")
    /\ LET s    == CHOOSE s \in Subnets : s \in tasks[t].links
           left == tasks[t].links \ {s}
       IN  Put(t, IF s \in subnetRows THEN ToLinks(tasks[t], left)
                  ELSE [tasks[t] EXCEPT !.pc = "insert", !.links = left, !.cur = s])
    /\ UNCHANGED <<kind, row, subnetRows, obj, others, history, applies, faults>>

\* Someone else inserted it meanwhile: IntegrityError.
InsertSubnet(t) ==
    /\ At(t, "insert")
    /\ IF tasks[t].cur \in subnetRows
         THEN Unexpected(t) /\ UNCHANGED subnetRows
         ELSE /\ subnetRows' = subnetRows \cup {tasks[t].cur}
              /\ Put(t, ToLinks(tasks[t], tasks[t].links))
              /\ UNCHANGED row
    /\ UNCHANGED <<kind, obj, others, history, applies, faults>>

-------------------------------------------------------------------------------
(* ensure_deleted *)

\* Mutant of Absent: 'deleted' is not saved.
AbsentNotSaved(t) ==
    /\ Is(t, "ensure_deleted", "check") \/ At(t, "absence")
    /\ Missing(tasks[t])
    /\ Put(t, Closing(tasks[t]))
    /\ UNCHANGED <<kind, row, subnetRows, obj, others, history, applies, faults>>

\* 'resource_not_found', before the request or after it.
Absent(t) ==
    /\ Is(t, "ensure_deleted", "check") \/ At(t, "absence")
    /\ Missing(tasks[t])
    /\ row' = [tasks[t].copy EXCEPT !.state = "deleted"]
    /\ Put(t, Closing(tasks[t]))
    /\ blind' = (blind \/ obj.status \in {"pending", "hidden"})
    /\ UNCHANGED <<kind, subnetRows, obj, others, torn, doubled, applies, faults>>

\* What is not there, or is being deleted, is refused.
DeleteRequest(t) ==
    /\ Is(t, "ensure_deleted", "request")
    /\ IF obj.status \in {"pending", "live", "hidden"}
         THEN /\ obj' = [obj EXCEPT !.status = "stopping"]
              /\ Accepted(t, "absence", None)
         ELSE /\ IF kind = "instance" THEN Unexpected(t) ELSE Retry(t, "http")
              /\ UNCHANGED obj
    /\ UNCHANGED <<kind, subnetRows, others, history, applies, faults>>

\* The call fails, or its answer is lost.
DeleteFails(t) ==
    /\ Is(t, "ensure_deleted", "request")
    /\ Fault
    /\ obj' \in {obj} \cup (IF obj.status \in {"pending", "live", "hidden"}
                             THEN {[obj EXCEPT !.status = "stopping"]} ELSE {})
    /\ Retry(t, "http") \/ (kind = "instance" /\ Unexpected(t))
    /\ UNCHANGED <<kind, subnetRows, others, history, applies>>

\* Ten polls and still there.
NotYetAbsent(t) ==
    /\ At(t, "absence")
    /\ Exists(tasks[t])
    /\ Retry(t, "retry")
    /\ UNCHANGED <<kind, subnetRows, obj, others, history, applies, faults>>

-------------------------------------------------------------------------------
(* The user and the daemon *)

\* Nothing is under way and nothing is left to do.
Settled ==
    /\ Open = {}
    /\ row.desired \in {None, row.state} \/ row.state = "creation_terminated"

\* hcl_apply, by a user who waits.
Apply(want) ==
    /\ Settled
    /\ applies < MaxApplies[kind]
    /\ applies' = applies + 1
    /\ row' = [row EXCEPT !.desired = want,
                  !.state = IF want = "healthy" THEN "declared" ELSE "unknown"]
    /\ UNCHANGED <<kind, subnetRows, tasks, trans, obj, others, history, faults>>

\* get_initial_transition_type; a network has no dependencies.
InitialType ==
    IF row.desired = "deleted" THEN "ensure_forward_dependencies_deleted"
    ELSE IF kind = "network" THEN "ensure_exists" ELSE "ensure_dependencies_ready"

\* create_missing_transitions.
Daemon ==
    /\ Outstanding = {}
    /\ row.desired \in {"healthy", "deleted"} \ {row.state}
    /\ row.state # "creation_terminated"
    /\ Vacant # {}
    /\ Put(Slot, New(Slot, InitialType))
    /\ UNCHANGED <<kind, row, subnetRows, obj, others, history, applies, faults>>

-------------------------------------------------------------------------------
(* The provider *)

Become(status) == obj' = [obj EXCEPT !.status = status]

\* What was created shows up in the listing.
Appear == obj.status = "pending" /\ Become("live") /\ UNCHANGED faults

\* The subnetworks of a network, some time after it.
GetSubnets ==
    /\ kind = "network" /\ obj.status = "live"
    /\ obj' = [obj EXCEPT !.subnets = TRUE]
    /\ UNCHANGED faults

Vanish == obj.status = "stopping" /\ Become("absent") /\ UNCHANGED faults

\* An instance that is being restarted has none of the listed statuses.
Stop == kind = "instance" /\ obj.status = "live" /\ Become("hidden") /\ Fault

Restarted == obj.status = "hidden" /\ Become("live") /\ UNCHANGED faults

Provider ==
    /\ Appear \/ GetSubnets \/ Vanish \/ Stop \/ Restarted
    /\ UNCHANGED <<kind, row, subnetRows, tasks, trans, others, history, applies>>

\* The last of the others of the kind is deleted.
OthersGo ==
    /\ others /\ kind # "instance"
    /\ Fault
    /\ others' = FALSE
    /\ UNCHANGED <<kind, row, subnetRows, tasks, trans, obj, history, applies>>

-------------------------------------------------------------------------------
Step(t) ==
    \/ Submit(t) \/ Receive(t) \/ Succeed(t) \/ ListingBroken(t)
    \/ Proceed(t) \/ Found(t) \/ HandOver(t) \/ ToRequest(t) \/ MemoHit(t)
    \/ CreateRequest(t) \/ NameTaken(t) \/ HookBase(t) \/ Hook(t) \/ NotAppeared(t)
    \/ Recheck(t) \/ Healthy(t) \/ NotHealthy(t) \/ HealthyHook(t)
    \/ QuerySubnet(t) \/ InsertSubnet(t)
    \/ Absent(t) \/ DeleteRequest(t) \/ NotYetAbsent(t)

Disturbance(t) ==
    \/ ListingFails(t) \/ CreateFails(t) \/ DeleteFails(t) \/ Late(t) \/ Crash(t)
    \/ Twin(t)

Next ==
    \/ \E t \in 1..Slots : Step(t) \/ Disturbance(t) \/ MemoExpires(t)
    \/ \E want \in {"healthy", "deleted"} : Apply(want)
    \/ Daemon \/ Provider \/ OthersGo

Spec == Init /\ [][Next]_vars

\* Workers serve the messages and go on with their tasks, beat keeps the daemon
\* running, and the provider finishes what it accepted, the subnetworks apart.
\* Memos may outlive their transition.
FairSpec ==
    /\ Spec
    /\ WF_vars(Daemon \/ \E t \in Open : Step(t))
    /\ WF_vars((Appear \/ Vanish) /\ Provider)

-------------------------------------------------------------------------------
(* Properties *)

\* The variables hold what the code can put there.
TypeOK ==
    /\ kind \in Kinds
    /\ row \in Rows
    /\ subnetRows \subseteq Subnets
    /\ tasks \in [1..Slots -> Tasks]
    /\ obj \in [status : Statuses, id : Nat, subnets : BOOLEAN]
    /\ trans \in Transitions
    /\ {others, torn, blind, doubled} \subseteq BOOLEAN
    /\ applies \in 0..MaxApplies[kind] /\ faults \in 0..MaxFaults[kind]

\* The row has the selfLink of an operation only while a worker is between the
\* two hooks. It may stay if a worker was lost there, or if the listing left out
\* an object that exists, or if a stage was executed twice after it had handed
\* over or scheduled its retry: then another creation may have read the row in
\* between. A copy of an ensure_healthy never brings it back.
LinkOwn ==
    (row.link = "operation" /\ ~torn /\ ~blind /\ ~doubled)
        => \E t \in Open : At(t, "hook") /\ tasks[t].answer = "operation"

\* A resource that is healthy has the identifiers of the object of that name
\* which exists now, and a network its subnetworks, although their age is never
\* checked, ensure_healthy may have any number of transitions at once and each of
\* them saves its copy of the row. (What was taken for deleted can be found again
\* while its deletion goes on; a stage that is executed twice may end after the
\* next wish.)
HealthyIsReady ==
    (row.state = "healthy" /\ ~blind /\ ~doubled) =>
        /\ row.link = "object" /\ row.self_id = obj.id
        /\ obj.status \in {"live", "hidden"}
        /\ kind = "network" => obj.subnets

\* A network that is healthy, with nothing under way, has a row for each of its
\* subnetworks, however its hooks were interrupted or overlapped.
SubnetsKnown ==
    (kind = "network" /\ Settled /\ row.state = "healthy" /\ ~blind /\ ~doubled)
        => subnetRows = Subnets

\* A resource that is called deleted does not exist any more, or its deletion
\* goes on, but for three cases: a link that was torn, an object the listing
\* leaves out or does not have yet, and a stage that was executed twice.
DeletedIsGone ==
    (row.state = "deleted" /\ ~torn /\ ~blind /\ ~doubled)
        => obj.status \in {"absent", "stopping"}

\* What the lifecycle calls the object.
Object ==
    CASE obj.status \in {"pending", "live", "hidden"} -> "made"
      [] obj.status = "stopping" /\ kind # "instance" -> "leaving"
      [] OTHER -> "absent"

Lifecycle ==
    INSTANCE ResourceLifecycle
        WITH desired <- row.desired, state <- row.state,
             object <- Object, mistaken <- torn \/ blind \/ doubled

\* The resource goes through its lifecycle until a link is torn, an object is
\* taken for deleted or a stage is executed twice: requests whose answers are
\* lost, tries cut short and taken up again, and several ensure_healthy with a
\* copy each neither move the object against the user's wish nor save a state
\* that belongs to another wish or object.
FollowsLifecycle == Lifecycle!Spec

\* A transition with a total_timeout is scheduled again no later than the
\* longest countdown after it, unless its age has passed a day, where it is
\* not seen any more.
TimeoutKept ==
    \A t \in Open :
        (At(t, "waiting") /\ Timed(tasks[t])) =>
            \/ tasks[t].elapsed <= NetworkHealthy.total_timeout + RetryBackoffMax
            \/ tasks[t].elapsed >= Day

\* A resource the user wants is healthy in the end, or given up.
CreationEnds ==
    row.desired = "healthy"
        ~> (row.state \in {"healthy", "creation_terminated"} \/ row.desired # "healthy")

\* A resource the user wants gone is called deleted in the end. With nothing
\* else of the kind in the project the listing never tells (KeyError).
DeletionEnds ==
    (row.desired = "deleted" /\ others)
        ~> (row.state = "deleted" \/ row.desired # "deleted" \/ ~others)
===============================================================================
