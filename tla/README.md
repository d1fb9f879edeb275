# make-it-so in TLA+

*make-it-so* is a small Terraform in Python: a user declares resources in an HCL file and says
whether they should be `healthy` or `deleted`; periodic Celery tasks compare that with the state in
the database and start *transitions*, Celery tasks that create, check and delete the resources at a
provider. This directory holds TLA+ models of that machinery, TLC configurations that check them on
small instances, and TLAPS proofs.

## 1. Inventory

| Component | State | Operations | Modelled in |
|---|---|---|---|
| Transition engine: `transitions/models.py`, `celery_utils/{task_class,request,context}.py`, `submit_transition_tasks` | `TransitionModel.status`, the broker's messages, deliveries held by workers, retry counts | create, submit, start, retry, give up, succeed, fail, acknowledge, hard time limit, worker loss | `TransitionEngine`, `TransitionStatus` |
| Reconciliation: `create_missing_transitions`, `transitions/tasks/ensure_*.py`, `hcl_apply` | `desired_state`, `state`, `state_cause` of every row, outstanding transitions, what exists at the provider | apply, scan/filter/create, the five ensure tasks, hooks, memoized requests | `Reconcile` |
| Resource events: `resources/__init__.py`, `ResourceModel.log_event` | `state`, `state_cause` | `decide_next_state_from_event`, `log_event` | `ResourceEvents` |
| Retry policy: `resources/base_resource.py`, `celery_utils/__init__.py` | `max_retries`, delays, `total_timeout`, the age of a task | `get_next_retry_countdown`, backoff, `get_task_age` | `RetryPolicy` |
| Provisioning: `gcp_resources/resources/`, `exists_hook_base`, `healthy_hook`, `Memorize` | identifiers in `extra_data`, memos in Redis, rows of subnetworks, the object at the provider | `check_exists`, requests behind checkpoints, the hooks, health checks | `Provisioning` |
| HCL ingestion: `resources/hcl_utils/`, `resources/tasks.py`, `hcl_apply` | resource rows, foreign keys in `extra_data`, dependency rows, desired states | parse, resolve references, save row by row, express a desired state | `HclIngestion`, `Catalog` |
| GCP API client: `gcp_resources/api_client.py` | none | listings, creation, deletion | in part, in `Provisioning`: what its calls make of the provider's answers |
| gcloud set-up, manual commands, users, tracing, admin, settings | – | – | not modelled (section 6) |

**Interactions.** Beat triggers the two daemon tasks every 10 and 12 seconds. `create_missing_transitions`
reads resource rows and inserts transitions; `submit_transition_tasks` reads pending transitions and
publishes messages; workers run `ensure_*` tasks, which read the rows of other resources, call the
provider, log events on their own resource (and so change its state) and insert the next transition
of the pipeline. Everything meets in two places: the database (no transactions, no row locks, every
save writes all columns of a copy) and the broker (at-least-once, late acknowledgement).

**What is hard.** Saves of stale copies; a status saved before the message is sent; a retry the broker refuses; retries published
before the old delivery is acknowledged; a stage redelivered after it handed over, which starts the next one twice; the daemon's two reads and its inserts interleaved with
tasks that hand over; failures reported on a transition before they are reported on its resource;
checks of other rows that are stale when acted upon; a provider that lists late or hides what it is
deleting; an identifier taken from the wrong answer and two hooks that save one after the other; a
row saved before its dependency rows; ages that wrap at a day. `PROJECT.json` lists the hazards with their lines and the properties aimed at them.

**What makes the components correct.**
Engine: no transition is forgotten, none is executed twice at a time, retries end, `succeeded` and
`failed` are final, every transition is over in the end. Reconciliation: one pipeline per resource,
creations after dependencies, deletions after dependents, states that tell the truth about the
provider, convergence to the desired state, no desired state lost. Ingestion: references name rows, dependency rows are
complete, a file can be applied again, nothing is scheduled before what it needs. Provisioning: a row has the identifiers of
the object that exists, *deleted* means gone, subnetworks are known, retries keep to their time. Some of these the code
keeps only outside of windows it leaves open; each window has a history variable, and the property that exempts it names it.

## 2. Modules

### `TransitionStatus`: what the engine promises
The status column as an abstract machine: `Successors` lists the edges, `Advance` takes one,
`Compromise` marks a transition of which two executions were let loose, about which nothing is
promised any more (`Scramble`).

### `TransitionEngine`: how it is kept
| Code | Action |
|---|---|
| `TransitionModel.create_transition` | `Create` |
| `submit_transition_tasks`: load, then per transition `log_event('sent_to_broker')` and `apply_async` | `SubmitBegin`, `SubmitMark`, `SubmitPublish`, `SubmitLost` (dies in between) |
| `populate_context` | `Receive`: the status read here is what `before_start` acts on |
| `before_start` | `RevokeDuplicate`, `Start`, `Retry` for what `LooksDuplicate` |
| `retry` and its exhaustion, `simulate_failure` | `Retry` (publishes, the delivery stays until `Ack`), `RetryLost` (Celery turns a publication that fails into a rejection without requeueing), `Exhaust` |
| `on_success`, `on_failure` and the `post_save` signal | `Succeed`, `Fail` |
| `task_acks_late`, `task_reject_on_worker_lost` | `Ack`, `Crash` (the message goes back) |
| `TransitionRequest.on_timeout` | `Timeout` (acknowledges), then `Reschedule`, `TimeoutFailure` or `TimeoutLost` |

`sent` is the delivery tag that tells messages apart. Two history variables record the windows in
which the code itself gives a guarantee up: `lost` (the only message is gone: that of a submission, of a retry, or the one that
`on_timeout` sends after it has acknowledged) and `compromised` (a
twin exists: an overlapping submitter saved a stale object, a worker died or timed out between the
publication of a retry and the acknowledgement, or timed out after the end). The safety properties
exempt exactly these transitions, so they say that there are no *other* windows. Two properties go without an
exemption: `NothingStranded`, which is false (section 5), and `EventuallySettled` as to `compromised`.

### `ResourceEvents` and `Reconcile`: from desired states to resources
`ResourceEvents` is the side-effect table and `log_event`. In `Reconcile` a *task* is an outstanding
transition with the try that works on it. Its `snap` is the copy of the row the try read
(`Begin`), and each event logged saves that copy (`Save`), as `ResourceModel.log_event` does.

| Code | Action |
|---|---|
| `_hcl_express_desired_state` | `Apply`: one UPDATE for a file closed under references |
| `create_missing_transitions` | `DaemonScan`, `DaemonFilter`, `DaemonCreate` (per resource), for `healthy` then `deleted` |
| `ensure_dependencies_ready` | `DependenciesReady`, `DependenciesPending` |
| `ensure_exists` | `FoundBefore`, `CreateRequest`, `FoundAfter`, `NotYetFound` |
| `ensure_healthy` | `Healthy`, `NotHealthy` |
| `ensure_forward_dependencies_deleted` | `DependentsAbsent`, `DependentsPending` |
| `ensure_deleted` | `AbsentBefore`, `DeleteRequest`, `AbsentAfter`, `NotYetAbsent` |
| `Memorize` | `MemoHit` (returns the cache key, which the caller cannot unpack), `MemoExpires` |
| hooks, then the next transition, then `on_success` | `Handover`, `Complete` |
| `retry`, `on_retry`, exhausted retries | `Retry`, called by all of these |
| other exceptions; `on_failure` | `Unexpected`/`Raise`, then `Refetch` and `Terminate` |
| provider and network errors (`RETRY_FOR`) | `CallFails`, `RequestRefused` |
| the provider (external) | `Appear`, `Vanish` |

The two 'creating'/'deleting' and '..._request_succeeded' saves around an accepted request are one
step: they save the same copy. `Reconcile` takes the engine for granted: a transition is executed, one
try at a time; the windows in which the engine fails to do so are not composed with it yet.

### `Catalog` and `HclIngestion`: from files to rows
`Catalog` is what applying files promises about the table of resources: a resource appears once,
after what it refers to, keeps its references, and is wanted only when it is there. `HclIngestion`
implements it (`Catalogued`: `saved` for the catalogue, the names with a desired state for the
wanted ones), with several appliers at a time, each of which may be interrupted anywhere. A file is what
parsing makes of it: entries, the entries each names in its expressions, and the rows each names in its foreign keys, by an expression or by
a literal id (`ingestion.py:166`, `pydantic_models.py:91`), which need not be of the file.

| Code | Action |
|---|---|
| `parse_hcl_file` with its topological order, `_fetch_hcl_resource_models` | `Start` (`Parses`, `Acyclic`, `Resolved`, `Existing`); `InOrder` leaves the choice between entries that may come next |
| `create_resource_from_hcl`: validation, `model_obj.save()` | `SaveRow`, `Invalid`, `Conflict` (a uniqueness constraint) |
| `ResourceDependencyModel.objects.get_or_create`, field by field | `Link` |
| `hcl_ingest_models` ends, `hcl_express_desired_state` begins | `Ingested` |
| `_hcl_express_desired_state` | `Express` (one UPDATE), `NotIngested` |
| an exception or the end of the process; nothing is rolled back | `Interrupt` |
| the pipelines that dependency rows permit (`Reconcile` has them in detail) | `Schedule`, `Complete` |

History: `torn` are the rows whose applier was interrupted before their last dependency row,
`overlapped` marks an applier beside which another worked. `ScheduledInOrder` exempts the first, and rows whose dependency rows an
overlapped applier is writing just then; `NotScheduledUntilReady` exempts nothing and is false (section 5).
What a literal id names may be saved and never wanted: then the instance waits, and no property says that it does not.

### `RetryPolicy`: when a failure is tried again
Pure operators: the parameters of each class and type of transition (`RetryParams`), the age of a task with
the days cut off (`TaskAge`: `.seconds` of a timedelta), `GivesUp`, the exponential `Backoff` and `Countdown`.
Times are whole seconds. `TransitionEngine` and `Reconcile` have the counts of retries only.

### `Provisioning`: one resource at its provider
One network, firewall or instance, call by call and save by save: what `Reconcile` takes as one step
between try and success. A task holds the copy of the row its try read; the row has the two
identifiers that are stored in `extra_data`, `link` (the object's own selfLink or that of the operation that creates it) and
`self_id`. Objects of the name are numbered, so that a stale identifier can be told from the current one. Dependencies are ready, and the
daemon's pass is one step. The five types of transitions are all there: firewalls and instances begin with `ensure_dependencies_ready`,
deletions with `ensure_forward_dependencies_deleted`. `tasks` are executions, each in a slot; `trans` is what the executions of one
transition share, its end and its memo.

| Code | Action |
|---|---|
| `submit_transition_tasks` | `Submit`: only until then does `create_transition` find the transition pending |
| `populate_context`, `before_start` | `Receive` (a delivery that was begun before is put off by 90 s, one whose transition has ended is revoked) |
| `create_transition` | `CreateTransition` (one that is pending is taken), part of `Proceed` and `HandOver` |
| `ensure_dependencies_ready`, `ensure_forward_dependencies_deleted` | `Proceed` |
| `retry`, `get_next_retry_countdown`, `_notify_retries_exhausted`, `on_failure` | `RetryIn`/`Retry` (`Later`; `Exhausted` saves the copy of the try), `Unexpected` (reads the row again; `Terminated`), part of the steps that fail |
| `ensure_exists`: `check_exists`, polling | `Found`, `ToRequest`, `NotAppeared` |
| `checkpoint__attempt_creation` | `CreateRequest`, `NameTaken` (409, treated differently by each class), `CreateFails` (no answer: made or not; retried or not), `MemoHit`, `MemoExpires` |
| `exists_hook_base`, `exists_hook` after a request; after finding it | `HookBase`, `Hook`; `HandOver` |
| `ensure_healthy`: rechecks from the third try on, `health_check__*` | `Recheck`, `Healthy`, `NotHealthy` |
| `healthy_hook`: `get_or_create` of the subnetworks' rows | `HealthyHook`, `QuerySubnet`, `InsertSubnet` |
| `ensure_deleted`, `checkpoint__attempt_deletion` | `ToRequest`, `DeleteRequest`, `DeleteFails`, `Absent`, `NotYetAbsent` |
| `list_*`: no `items` in the answer (`KeyError`); a failing call | `ListingBroken`; `ListingFails` |
| a lost worker, a late message, the end | `Crash` (the delivery is executed again), `Twin` (it is lost between the publication of its retry and the acknowledgement: retry and delivery are both executed), `Late`, `Succeed` |
| `hcl_apply` by a user who waits, `create_missing_transitions` | `Apply`, `Daemon` |
| the provider (external) | `Appear`, `GetSubnets`, `Vanish`, `Stop`, `Restarted`, `OthersGo` |

`Listed` is what the listing shows: an object being deleted, except for instances, whose query filters by status; nothing
that is still being created; no instance that is being restarted.
A redelivered `ensure_exists` hands over once more, so that several `ensure_healthy` of one resource
run side by side. A redelivered first stage creates a second `ensure_exists` or `ensure_deleted` if the one it created before was submitted
meanwhile, and a delivery can be executed beside its own retry: then two executions that create or delete save their copies of one row.
The slots hold them all.

History: `torn`, a worker was lost between the two hooks (the operation's selfLink stays in the row); `blind`, an object that
exists was not listed and was taken for deleted; `doubled`, a worker was lost after its stage had handed over to `ensure_exists` or
`ensure_deleted`, or after it had published its retry, and the stage is executed twice. The properties of identifiers and states exempt `doubled`, for they
are false without. TLC shows an `ensure_dependencies_ready` that is delivered again, reads the row while `ensure_exists` is
between its hooks, and saves it afterwards: the operation's link is back (`LinkOwn`), the next deletion does not find the instance
and calls it *deleted* while it lives (`DeletedIsGone`); if it reads a little later, the row is called *healthy* with the identifier
of the operation (`HealthyIsReady`). `TimeoutKept`,
`CreationEnds` and `DeletionEnds` exempt nothing of the kind.

### `ResourceLifecycle`: what the user sees of one resource
The abstract specification of `Reconcile` (for every resource) and of `Provisioning`, which cut the same tasks at different
depths. Its variables are the two columns `desired` and `state`, the `object` as far as the provider lists it (`absent`, `made`,
`leaving`), and `mistaken`. The user asks (`Ask`) once the last wish is answered; an object is made only while *healthy* is desired
and removed only while *deleted* is (`Make`, `Remove`); whoever saves the row, the state belongs to the desired state
(`Stages`) and *exists*, *healthy* and *deleted* are true of the object (`Truth`, required of every `Save`). What state replaces what
within these limits is left open, because saves of old copies do take states back.

| Abstract | In `Reconcile` | In `Provisioning` |
|---|---|---|
| `object` | `ObjectOf(r)`: *leaving* while it is being deleted, unless in `Hidden` | `Object`: likewise, instances are *absent* as soon as they stop |
| `mistaken` | never: the mapping is for a user who waits and a prompt listing | `torn \/ blind \/ doubled` |
| `Ask` | `Apply` | `Apply` |
| `Make`, `Remove` | `CreateRequest`, `DeleteRequest` (a repeated one is a `Report`) | `CreateRequest`, `DeleteRequest`, and `CreateFails`, `DeleteFails` whose answer only was lost |
| `Vanish` | `Vanish` | `Vanish` |
| `Report` | every other save | every other save |

### Proofs and instances
`TransitionEngineProofs`, `ReconcileProofs`, `ReconcileOrderProofs`, `HclIngestionProofs` and `ProvisioningProofs` hold the theorems of
section 4. The modules `MC...` give the constants values.

The operators introduced by a comment "Mutant of ..." are deliberately wrong variants of the definition
after them, used to make sure that each property can fail.

## 3. Runs

| Run | Instance and bounds | Shows |
|---|---|---|
| `engine_faults` | 1 transition, 1 submitter, `max_retries` 3, 1 crash, 1 time limit, 1 lost publication (616k states) | `NoOrphan`, `SingleFlight`, `RetryBudget`, `StatusPromise` under all combinations of faults |
| `engine_overlap` | 1 transition, 2 submitters, `max_retries` 2, 1 crash, 1 loss | `NoOrphan`, `SingleFlight` and, duplicates included, `EventuallySettled` |
| `engine_batches` | 2 transitions, slice of 1 | a backlog larger than the slice is worked off |
| `engine_stranded` | 1 transition, 1 loss | **violation**: `NothingStranded` |
| `reconcile_cycle` | network and instance, 3 applies, 2 tries each, user waits | `SinglePipeline`, `StatesAreTrue`, ordering of creations and deletions, the refinement `FollowsLifecycle` |
| `reconcile_converges` | network and instance, 2 applies, late listing, 1 failure | `ConvergesUp`, `ConvergesDown` |
| `reconcile_hasty` | network, 3 applies at any time, 3 tries, 2 failures | `SinglePipeline`, `ConvergesUp` for a user in a hurry |
| `reconcile_lost_update` | network, 2 applies at any time | **violation**: `WishKept` |
| `reconcile_destroy_race` | network, 2 applies at any time, 1 failure | **violation**: `ConvergesDown` |
| `hcl_ingest` | network, address and an instance that refers to both; 6 files (complete, a part, an invalid entry, a dangling reference, literal ids, a cycle); 2 appliers, 3 starts, 1 interruption (1,088k states) | `ReferencesSaved`, `TrackedUnlessTorn`, `AloneSucceeds`, `ScheduledInOrder`, and the refinement `Catalogued` |
| `hcl_interrupted` | the complete file, 1 applier, 2 starts, 1 interruption | **violation**: `NotScheduledUntilReady` |
| `provisioning` | a network with 2 subnetworks (2 applies, 1 fault), a firewall (3 applies, 1 fault) and an instance (2 applies, 2 faults, or one stage executed twice); 4 executions at a time; messages late by 4000 s or a day (386k states) | `LinkOwn`, `HealthyIsReady`, `SubnetsKnown`, `DeletedIsGone`, `TimeoutKept`, `CreationEnds`, `DeletionEnds`, the refinement `FollowsLifecycle` |

**Bounds and why they do.** Transitions of the engine share nothing but the slice of a pass, so one
transition shows the faults and two with a slice of one show the backlog. `max_retries` 3 is the least for which
`on_timeout` distinguishes first, second and later tries; the code's 5 or 6 add tries of the same kind.
One fault of each kind in all orders; the proofs lift this bound. A network and an instance are a resource with and
one without dependencies. Three applies make create, destroy, create again.
`MaxUnreported` bounds how many failures of a resource are still unreported on it when
its next pipeline starts: 1 in `reconcile_cycle` (a late report overtaken by a new pipeline), 0 where liveness is checked.
`MaxRefusals` bounds provider errors, failed checks and exceptions together. `Settled` defines the
user who waits: nothing under way and nothing left to do. `Hidden` is the set of resources the listing omits
while they are deleted (`instances.py:48`); the network is not among them.
The files of `hcl_ingest` are one for each outcome of parsing and validation; two foreign keys are the least that can be
tracked in part; the third start applies what two others left behind, while one interruption
falls anywhere. In `provisioning` the class of the resource is chosen at the start: one run, three
kinds. The numbers of retries are the code's own (15 for a network's `ensure_healthy`), which is why the
network gets fewer applies and faults. The firewall's three applies are create, destroy and create again,
with old identifiers in the row; the instance's two faults are a repeated execution and a failure within it. A stage that is executed twice
multiplies the states, so it is the only fault of its behaviour, and `Doubling` names the kinds that may have it: in the run the
instance, whose pipelines have all five types of transitions. (A firewall with two faults, or with stages executed twice, passes as well, in more time.)
Four slots hold the executions these faults can make. 4000 s comes close to `total_timeout` (4200 s), and a
day is where the age wraps.

**Deadlock** is not checked: applies and faults are bounded, and a system whose transitions are all over
may stop.

**Fairness.** Engine: submission, delivery and execution go on (beat and the workers run); creation and
faults owe nothing. Reconcile: the daemon goes on, each resource's task goes on, every closing and
every failure report is eventually done (each is a worker in the middle of a function), and the provider finishes what it
accepted. A memo need not expire, a user need not act. Provisioning: the daemon or some execution goes on, and what the provider accepted appears and
vanishes. Subnetworks may never be there (the network's retries run out), memos may outlive their transition,
and a restart may never end. `HclIngestion` has safety properties only: an applier may stop anywhere.

**What liveness does not say.** `ConvergesUp` says *again and again healthy, or given up*, not *healthy for good*: a daemon pass
that read the row before a pipeline ended and the transitions after it starts another pipeline for a
resource that is healthy, and `ensure_exists` takes its state back to `exists`. TLC shows an endless
repetition of this under the same fairness.

## 4. Proofs

For every number of transitions, submitters, names, files, appliers, slots, retries and faults, from
each module's `ConstantsAssumption`, and for `ReconcileOrderProofs` from its two hypotheses.

* `TypeCorrect`: the types, action by action.
* `NothingOrphaned`: `NoOrphan` is inductive given the types: each action that takes a message,
  delivery or submitter away from a transition puts another in its place, settles it or makes it `lost`, which only the three
  publications that can fail do (`NoOrphanStep`).
* `ExclusiveInvariant`: `SingleFlight` is not inductive: a submitter that loads a pending transition
  must know that no message of it is around, a redelivered message must know that its retries match the counter.
  `Exclusive` says for every transition without a twin which hands (message, delivery,
  submitter) can hold it for each status, that there is only one, and how `sent` is bounded by the
  retries of the holder. The lemmas `Sole...` and `NewCustodyOf...` treat the ways in which a step
  passes a transition on; `ExclusiveStep` applies them action by action.
* `OneExecution` and `RetriesEnd`: `SingleFlight` and `RetryBudget` follow from `Exclusive`.
* `KeepsStatusPromise`: every step of the engine is a step of `TransitionStatus` or a stutter, with
  the invariant giving the status a holder may expect.
* `ReconcileProofs!ReconcileTypeCorrect`: the types of `Reconcile`, for any graph of dependencies.
* `ReconcileProofs!OnePipeline`: `SinglePipeline`. It is inductive once one adds `NothingTodo`: a resource the daemon
  is about to create a transition for has no outstanding one. The daemon checked that in an
  earlier step; it still holds because a new transition comes only from the daemon or from an
  outstanding one.
* `ReconcileOrderProofs`: `RowsTellTheTruth`, `DependenciesFirst` and `DependentsFirst`, for any graph of dependencies and
  any number of failures, assuming `~HastyUser` and `~ListingLag`; TLC refutes each property if one of the two is
  dropped. A check made by one transition is acted on by the next or the one after it, so the
  properties are not inductive. `Fits` adds that what a task found out stays true until it is over:
  past `ensure_dependencies_ready` all dependencies are wanted and exist (`Based`), past
  `ensure_forward_dependencies_deleted` all dependents are unwanted and gone (`Freed`), past `ensure_exists` the
  resource exists (`Found`), and a copy, however old, has the row's desired state and claims nothing untrue
  (`Fit`). Only `Apply` changes desired states, and a user who waits applies when there are no tasks; until then
  requests move the provider only where the row wants it (`Steady`).
* `ReconcileOrderProofs!KeepsLifecycle`: under the same two hypotheses `Reconcile` implements `ResourceLifecycle` for every resource.
  `Fits` and `Fits'` give the truth of the rows before and after a step (`AllTruthful`); `WishesStay` says that no step but the
  user's changes a desired state, although every save writes that column, and `CreationFollows`, `DeletionFollows` and
  `ProviderFollows` map the steps that move an object.

* `HclIngestionProofs`: `HclTypeCorrect`, `NoDanglingReference` and `OnlyTornRowsUntracked` come from one inductive
  invariant, `Inv`, that adds to them what an applier has established by each phase (`ApplierInv`: what it takes for known is saved, the
  links it has left and those written make up the foreign keys, its file parses, the rows it is about to update exist). The order of the entries guards references only;
  foreign keys, which may be literal ids, are guarded by the validation that looks the rows up, and the proof rests on that. `OrderIsKept` adds
  that a row whose dependency rows are being written is not wanted yet, unless an applier worked beside the one that writes them (`NotYetWanted`). `KeepsCatalog` maps every step to one of `Catalog` or a stutter.
  `RepeatableApply` needs to know when appliers were alone (`Alone`).
* `ProvisioningProofs`: one inductive invariant, `Inv`, for seven theorems. `ProvisioningTypeCorrect` needs to
  know which places of a task belong to which type and that a copy is there where it is used (`PhaseOK`). `TimeoutIsKept`: whatever waits was young enough when
  `GivesUp` was asked, the countdown is at most 300 s, and lateness is not added to what waits.
  `LinkIsOwn`, `DeletedMeansGone`, `HealthyMeansReady` and `SubnetsAreKnown` rest on `Order`: of the open executions at most one is on
  the way to a creation or a deletion, the others are `ensure_healthy` or first stages that have handed over (`Single`), each transition has one
  execution (`Lone`), creations are open only while the row wants *healthy* and deletions only while it wants *deleted* (`Purpose`), an
  open `ensure_healthy` means that the object is there and that the row and every copy have its
  identifiers (`Watched`, `PlaceOK`), and a creation whose request was accepted has nothing beside it but what handed over (`Early`,
  `Alone`). A copy is stale all the same: a second `ensure_healthy` saves what it read. `RowOK` is what such a copy may still
  say of the object without doing harm (`CopyOK`), `Covers` that a `healthy_hook` cut short or run twice leaves no subnetwork out.
  `OrderKept` shows that a step that is `Allowed` keeps the order; `EndKeeps`, `StayKeeps` and `SaveKeeps` say which steps are, and
  each action is one of these. `Single` and `Lone` are what the code does not guarantee when a worker is lost at the wrong moment: the order is
  lost with `doubled`, and with `blind`, when an object was taken for deleted by mistake, and the four theorems say
  nothing then (`Exempt`). Types and time limits do not rest on it. A worker lost between the two hooks (`torn`) leaves the operation's link in the row, and what rests on the link is
  excepted; the order itself, readiness and the subnetworks survive it.
* `ProvisioningProofs!KeepsLifecycle`: `Provisioning` implements `ResourceLifecycle`. Nothing is promised once `mistaken` holds, and
  no part of it is ever reset (`Remembered`), so that elsewhere `Order` is available before the step. `TaskDesires` shows that
  what any action of a task saves has the row's desired state, `TaskMoves` that only requests move the object,
  each where the row wants it (`Purpose`), and `TruthTold` that the row tells the truth, which for *deleted* needs that the row's link is
  the object's own.

Only model-checked: liveness (`EventuallySettled`, `ConvergesUp`, `ConvergesDown`, `CreationEnds`, `DeletionEnds`), which is out of
the prover's reach. Every safety property of a passing run is a theorem.

## 5. What the violations show

* `engine_stranded`: `celery_apply_async` saves `sent_to_broker`, then publishes. If publishing
  fails, `submit_transition_tasks` no longer sees the transition and `create_missing_transitions`
  counts it as outstanding: its resource stays where it is (README.md:337 has the daemons check "for any Transitions that need to be
  created or scheduled").
* `reconcile_lost_update`: a task saves the row it read before the user changed `desired_state`
  (README.md:23).
* `reconcile_destroy_race`: destroy is applied between the daemon's scan and the try of `ensure_exists`; that fails,
  the state becomes `creation_terminated`, which the daemon excludes for `deleted` as well; the resource is
  never destroyed (README.md:147).
* `hcl_interrupted`: `create_resource_from_hcl` saves the row of an instance and its dependency rows afterwards, in no
  transaction. After an interruption in between, the next apply finds the row and does not
  look at it again; the scheduler sees an instance that depends on nothing (README.md:181).

Two more facts the `provisioning` run rests on: nothing ever sets `resource_created_at`, so that the
check for a network's age of 90 seconds is skipped, which does no harm as long as the listing of subnetworks is checked
(`HealthyIsReady`); and a deletion does not end while nothing else of the kind exists in the project,
since the listing has no `items` then (`DeletionEnds` speaks of projects with others).

## 6. Plan and what is not modelled

Done: `TransitionStatus`, `TransitionEngine`, `ResourceEvents`, `Reconcile`, `Catalog`, `HclIngestion`, `RetryPolicy`, `Provisioning`, `ResourceLifecycle`.

Next: `Reconcile` over an engine that may strand or execute a transition twice, and overlapping daemon
passes (no code keeps the second pass from starting another pipeline).

**Not modelled**
* Files that change the references of an entry that has a row: the code ignores the difference.
* Duplicate names in a file, the project and provider blocks, and the debugging stops (`rdb`, `breakpoint`) on error
  paths: where one is reached the worker hangs until its time limit, which is `TransitionEngine`'s `Timeout`.
* Rows of subnetworks after they were made: no code updates them, not even when the network is deleted.
* `gcloud` and the commands that create or import a project: sequential set-up around external processes.
* `do_transition` runs one task by hand; `test_task` exercises retries; `ensure_updated` is a stub.
* Users, permissions, base classes, tracing, admin, migrations, settings: data and configuration. The
  settings that matter (late acknowledgement, beat's intervals) are in `TransitionEngine`.
* The event log, the existence and health columns: nothing reads them to decide anything.
