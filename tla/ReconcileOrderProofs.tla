------------------------- MODULE ReconcileOrderProofs -------------------------
(***************************************************************************)
(* Proofs about the order in which Reconcile creates and deletes, and      *)
(* about what its rows say of the provider, for any resources and          *)
(* dependencies and any number of failures.  Taken for granted is a user   *)
(* who waits for the system to settle before applying the next file, and a *)
(* provider that lists what it has created: without either the properties  *)
(* do not hold.                                                            *)
(***************************************************************************)
EXTENDS ReconcileProofs

-------------------------------------------------------------------------------
(* The inductive invariant *)

\* The desired state a transition works towards.
Goal(type) ==
    IF type \in {"ensure_forward_dependencies_deleted", "ensure_deleted"}
      THEN "deleted" ELSE "healthy"

\* Not there, or not listed until it is not there.
Gone(r) == provider[r] = "absent" \/ (provider[r] = "deleting" /\ r \in Hidden)

\* The states on the way to each desired state.
CreationStages ==
    {"declared", "exists", "healthy", "unhealthy", "creation_failed", "creation_terminated"}

DeletionStages == {"unknown", "deletion_failed", "deleted"}

\* What a row, or a copy of it, says of r.
Truthful(copy, r) ==
    /\ copy.desired = None => copy.state = "newborn_model"
    /\ copy.desired = "healthy" => copy.state \in CreationStages
    /\ copy.desired = "deleted" => copy.state \in DeletionStages
    /\ copy.state \in {"exists", "healthy"} => provider[r] = "present"
    /\ copy.state = "deleted" => Gone(r)

\* Saving the copy does no harm, however old it is.
Fit(copy, r) == copy.desired = row[r].desired /\ Truthful(copy, r)

Holds(k) ==
    k.phase \in {"body", "verify", "logged"} \/ (k.phase = "failing" /\ k.snap # NoRow)

Up(d) == row[d].desired = "healthy" /\ provider[d] = "present"

Down(d) == row[d].desired = "deleted" /\ Gone(d)

\* ensure_exists has found the resource.
Found(k) == k.type = "ensure_healthy" \/ (k.type = "ensure_exists" /\ k.phase = "logged")

\* ensure_dependencies_ready has found all dependencies healthy.
Based(k) ==
    \/ k.type \in {"ensure_exists", "ensure_healthy"}
    \/ k.type = "ensure_dependencies_ready" /\ k.phase = "logged"

\* ensure_forward_dependencies_deleted has found all dependents deleted.
Freed(k) ==
    \/ k.type = "ensure_deleted"
    \/ k.type = "ensure_forward_dependencies_deleted" /\ k.phase = "logged"

\* What a task found out stays true until it is over.
TaskFits(k) ==
    /\ row[k.res].desired = Goal(k.type)
    /\ Holds(k) => Fit(k.snap, k.res)
    /\ Found(k) => provider[k.res] = "present"
    /\ Based(k) => \A d \in Deps[k.res] : Up(d)
    /\ Freed(k) => \A d \in Dependents(k.res) : Down(d)

\* Nothing is deleted that is not meant to be.
Kept(r) ==
    /\ provider[r] # "creating"
    /\ row[r].desired # "deleted" => provider[r] = "present" \/ Gone(r)

RowFits(r) == Truthful(row[r], r) /\ Kept(r)

RowsFit == \A r \in Resources : RowFits(r)

TasksFit == \A k \in tasks : TaskFits(k)

TodoFits == daemon.at # "scan" => \A r \in daemon.todo : row[r].desired = daemon.want

Fits == RowsFit /\ TasksFit /\ TodoFits

-------------------------------------------------------------------------------
(* What the events lead to *)

\* A side effect is one the table names.
LEMMA EffectNamed ==
    ASSUME NEW type, NEW event, NEW reason, DecideNextState(type, event, reason) # None
    PROVE  \E e \in EVENT_SIDE_EFFECTS :
              /\ e[1] \in {type, Wildcard} /\ e[2] = event
              /\ e[4] = DecideNextState(type, event, reason)
<1> DEFINE exact == Effects(type, event, reason)
           broad == Effects(type, event, Wildcard)
           found == IF exact # {} THEN exact
                    ELSE IF broad # {} THEN broad ELSE Effects(Wildcard, event, Wildcard)
<1>1. \A e \in found : e \in EVENT_SIDE_EFFECTS /\ e[1] \in {type, Wildcard} /\ e[2] = event
  BY DEF Effects
<1>2. /\ found # {}
      /\ DecideNextState(type, event, reason) = (CHOOSE e \in found : TRUE)[4]
  BY DEF DecideNextState
<1> HIDE DEF found
<1>3. (CHOOSE e \in found : TRUE) \in found
  BY <1>2
<1> QED BY <1>1, <1>2, <1>3

\* Only ensure_exists finds a resource, only ensure_healthy makes a row
\* healthy, only ensure_deleted makes it deleted, and each pipeline stays on
\* its way.
LEMMA NextStates ==
    ASSUME NEW type \in TransitionTypes, NEW event, NEW reason,
           event # "resource_found_and_healthy"
    PROVE  LET next == DecideNextState(type, event, reason)
           IN  /\ next = "exists" => event = "resource_found"
               /\ next = "healthy" => type = "ensure_healthy"
               /\ next = "deleted" => type = "ensure_deleted" /\ event = "resource_not_found"
               /\ next # None => next \in (IF Goal(type) = "healthy" THEN CreationStages
                                           ELSE DeletionStages)
<1> DEFINE next == DecideNextState(type, event, reason)
<1>1. type # Wildcard
  BY DEF TransitionTypes, Wildcard
<1>2. \A e \in EVENT_SIDE_EFFECTS :
        e[1] \in {type, Wildcard} /\ e[2] = event =>
          /\ e[4] = "exists" => event = "resource_found"
          /\ e[4] = "healthy" => type = "ensure_healthy"
          /\ e[4] = "deleted" => type = "ensure_deleted" /\ event = "resource_not_found"
  BY <1>1 DEF EVENT_SIDE_EFFECTS, Wildcard
<1>3. \A e \in EVENT_SIDE_EFFECTS :
        e[1] \in {type, Wildcard} /\ e[2] = event =>
          e[4] \in (IF Goal(type) = "healthy" THEN CreationStages ELSE DeletionStages)
  BY <1>1 DEF EVENT_SIDE_EFFECTS, Goal, Wildcard, CreationStages, DeletionStages
<1>4. CASE next = None
  BY <1>4 DEF None
<1>5. CASE next # None
  BY <1>2, <1>3, <1>5, EffectNamed
<1> QED BY <1>4, <1>5

\* What a task logs on a copy that fits leaves a copy that fits.
LEMMA LoggedFits ==
    ASSUME TypeInv, NEW k \in tasks, TaskFits(k), Holds(k), NEW event, NEW reason,
           event # "resource_found_and_healthy",
           event = "resource_found" => provider[k.res] = "present",
           event = "resource_not_found" => Gone(k.res)
    PROVE  Fit(Log(k, event, reason), k.res)
<1> DEFINE next == DecideNextState(k.type, event, reason)
           copy == Log(k, event, reason)
<1>1. k.type \in TransitionTypes
  BY TaskFields
<1>2. Fit(k.snap, k.res) /\ row[k.res].desired = Goal(k.type)
  BY DEF TaskFits
<1>3. /\ next = "exists" => event = "resource_found"
      /\ next = "healthy" => k.type = "ensure_healthy"
      /\ next = "deleted" => k.type = "ensure_deleted" /\ event = "resource_not_found"
      /\ next # None => next \in (IF Goal(k.type) = "healthy" THEN CreationStages
                                  ELSE DeletionStages)
  BY <1>1, NextStates
<1>4. next \in {"exists", "healthy"} => provider[k.res] = "present"
  BY <1>3 DEF TaskFits, Found
<1>5. next = "deleted" => Gone(k.res)
  BY <1>3
<1>6. k.snap \in Rows
  BY TaskFields DEF Holds
<1>7. CASE next \in {None, k.snap.state}
  BY <1>2, <1>7 DEF Log, LogEvent
<1>8. CASE next \notin {None, k.snap.state}
  <2> HIDE DEF next
  <2>1. copy = [k.snap EXCEPT !.state = next, !.cause = event]
    BY <1>8 DEF Log, LogEvent, next
  <2>2. copy.state = next /\ copy.desired = k.snap.desired
    BY <1>6, <2>1 DEF Rows
  <2>3. k.snap.desired = Goal(k.type) /\ Goal(k.type) \in {"healthy", "deleted"}
    BY <1>2 DEF Fit, Goal
  <2> HIDE DEF copy
  <2>4. Truthful(copy, k.res)
    BY <1>3, <1>4, <1>5, <1>8, <2>2, <2>3 DEF Truthful, None
  <2> QED BY <1>2, <2>2, <2>4 DEF Fit, copy
<1> QED BY <1>7, <1>8

-------------------------------------------------------------------------------
(* While no file is applied, what was found out stays true *)

SameWishes == \A r \in Resources : row'[r].desired = row[r].desired

\* What is wanted stays, what is not wanted stays away.
Steady ==
    \A r \in Resources :
        /\ row[r].desired = "healthy" /\ provider[r] = "present" => provider'[r] = "present"
        /\ row[r].desired = "deleted" /\ Gone(r) => Gone(r)'
        /\ row[r].desired # "deleted" => provider'[r] = "present" \/ Gone(r)'
        /\ provider'[r] # "creating"

LEMMA FitStays ==
    ASSUME SameWishes, Steady, NEW r \in Resources, NEW copy \in Rows, Fit(copy, r)
    PROVE  copy.desired = row'[r].desired /\ Truthful(copy, r)'
<1>1. copy.desired = row'[r].desired
  BY DEF SameWishes, Fit
<1>2. copy.desired \in {None, "healthy", "deleted"} /\ row[r].desired = copy.desired
  BY DEF Fit, Rows, DesiredStates
<1>3. copy.state \in {"exists", "healthy"} => provider'[r] = "present"
  <2>1. copy.state \in {"exists", "healthy"}
            => row[r].desired = "healthy" /\ provider[r] = "present"
    BY <1>2 DEF Fit, Truthful, None, DeletionStages
  <2> QED BY <2>1 DEF Steady
<1>4. copy.state = "deleted" => Gone(r)'
  <2>1. copy.state = "deleted" => row[r].desired = "deleted" /\ Gone(r)
    BY <1>2 DEF Fit, Truthful, None, CreationStages
  <2> QED BY <2>1 DEF Steady
<1> QED BY <1>1, <1>3, <1>4 DEF Fit, Truthful

LEMMA UpStays ==
    ASSUME SameWishes, Steady, NEW d \in Resources
    PROVE  (Up(d) => Up(d)') /\ (Down(d) => Down(d)')
  BY DEF SameWishes, Steady, Up, Down

\* What a task found out stays true.
LEMMA TaskFitStays ==
    ASSUME SameWishes, Steady, NEW k \in Tasks, Copied(k), TaskFits(k)
    PROVE  TaskFits(k)'
<1>1. k.res \in Resources /\ k.snap \in Rows \cup {NoRow}
  BY DEF Tasks
<1>2. Deps[k.res] \subseteq Resources /\ Dependents(k.res) \subseteq Resources
  BY <1>1, ConstantsAssumption DEF Dependents
<1>3. row'[k.res].desired = Goal(k.type)
  BY <1>1 DEF SameWishes, TaskFits
<1>4. Holds(k) => Fit(k.snap, k.res)'
  <2>1. Holds(k) => k.snap \in Rows
    BY <1>1 DEF Holds, Copied
  <2> QED BY <1>1, <2>1, FitStays DEF TaskFits, Fit
<1>5. Found(k) => provider'[k.res] = "present"
  BY <1>1 DEF Found, Goal, TaskFits, Steady
<1>6. Based(k) => \A d \in Deps[k.res] : Up(d)'
  BY <1>2, UpStays DEF TaskFits
<1>7. Freed(k) => \A d \in Dependents(k.res) : Down(d)'
  BY <1>2, UpStays DEF TaskFits
<1> QED BY <1>3, <1>4, <1>5, <1>6, <1>7 DEF TaskFits, Holds, Found, Based, Freed, Dependents

AllFit(new) == \A j \in new : TaskFits(j)

GivesWay(k) == \E new : tasks' = (tasks \ {k}) \cup new /\ AllFit(new)

\* A step of a task that leaves what fits.
Orderly(k) ==
    /\ GivesWay(k)
    /\ \/ UNCHANGED row
       \/ \E copy \in Rows : Fit(copy, k.res) /\ Save(k, copy)
    /\ Steady
    /\ UNCHANGED daemon

LEMMA OrderlyKeepsFits ==
    ASSUME Inv, Inv', Fits, NEW k \in tasks, Orderly(k)
    PROVE  Fits'
<1>1. k.res \in Resources /\ row \in [Resources -> Rows] /\ row' \in [Resources -> Rows]
  BY TaskFields DEF Inv, TypeInv, TypeOK
<1>2. \A r \in Resources : Fit(row'[r], r)
  <2>1. \A r \in Resources : Fit(row[r], r)
    BY DEF Fits, RowsFit, RowFits, Fit
  <2>2. CASE UNCHANGED row
    BY <2>1, <2>2
  <2>3. ASSUME NEW copy \in Rows, Fit(copy, k.res), Save(k, copy)
        PROVE  \A r \in Resources : Fit(row'[r], r)
    BY <1>1, <2>1, <2>3 DEF Save
  <2> QED BY <2>2, <2>3 DEF Orderly
<1>3. SameWishes
  BY <1>2 DEF SameWishes, Fit
<1>4. Steady
  BY DEF Orderly
<1>5. RowsFit'
  <2> SUFFICES ASSUME NEW r \in Resources
               PROVE  RowFits(r)'
    BY DEF RowsFit
  <2>1. row'[r] \in Rows /\ Fit(row'[r], r)
    BY <1>1, <1>2
  <2>2. PICK copy \in Rows : copy = row'[r]
    BY <2>1
  <2>3. Truthful(copy, r)'
    BY <1>3, <1>4, <2>1, <2>2, FitStays
  <2>4. Kept(r)'
    BY <1>3, <1>4 DEF SameWishes, Steady, Kept
  <2> QED BY <2>2, <2>3, <2>4 DEF RowFits, Truthful
<1>6. TasksFit'
  <2> SUFFICES ASSUME NEW j \in tasks' PROVE TaskFits(j)'
    BY DEF TasksFit
  <2>1. j \in Tasks /\ Copied(j)
    BY DEF Inv, TypeInv, TypeOK, Copied
  <2>2. TaskFits(j)
    BY DEF Orderly, GivesWay, AllFit, Fits, TasksFit
  <2> QED BY <1>3, <1>4, <2>1, <2>2, TaskFitStays
<1>7. TodoFits'
  <2>1. daemon.todo \subseteq Resources /\ UNCHANGED daemon
    BY DEF Inv, TypeInv, TypeOK, Orderly
  <2> QED BY <1>3, <2>1 DEF SameWishes, Fits, TodoFits
<1> QED BY <1>5, <1>6, <1>7 DEF Fits

-------------------------------------------------------------------------------
(* The steps of the tasks *)

LEMMA GivesWayTo ==
    ASSUME NEW k, NEW new, tasks' = (tasks \ {k}) \cup new, AllFit(new)
    PROVE  GivesWay(k)
  BY DEF GivesWay

LEMMA NothingMoves ==
    ASSUME Fits, UNCHANGED provider
    PROVE  Steady
  BY DEF Fits, RowsFit, RowFits, Kept, Steady, Gone

\* A task goes on with a copy that fits.
LEMMA NextFits ==
    ASSUME NEW k, TaskFits(k), NEW next, next.res = k.res, next.type = k.type,
           Holds(next) => Fit(next.snap, k.res),
           next.phase = "logged" => k.phase = "logged"
    PROVE  TaskFits(next)
<1>1. (Found(next) => Found(k)) /\ (Based(next) => Based(k)) /\ (Freed(next) => Freed(k))
  BY DEF Found, Based, Freed
<1> QED BY <1>1 DEF TaskFits

LEMMA BecomeOrderly ==
    ASSUME Fits, NEW k, NEW next, TaskFits(next), Become(k, next),
           UNCHANGED <<provider, daemon>>,
           \/ UNCHANGED row
           \/ \E copy \in Rows : Fit(copy, k.res) /\ Save(k, copy)
    PROVE  Orderly(k)
<1>1. tasks' = (tasks \ {k}) \cup {next} /\ AllFit({next})
  BY DEF Become, AllFit
<1>2. GivesWay(k)
  BY <1>1, GivesWayTo
<1>3. Steady
  BY NothingMoves
<1> QED BY <1>2, <1>3 DEF Orderly

LEMMA BeginOrderly ==
    ASSUME Inv, Fits, NEW k \in tasks, Begin(k)
    PROVE  Orderly(k)
<1> DEFINE next == [k EXCEPT !.phase = "body", !.snap = row[k.res]]
<1>1. k \in Tasks /\ k.res \in Resources /\ TaskFits(k)
  BY TaskFields DEF Inv, Fits, TasksFit
<1>2. next.res = k.res /\ next.type = k.type /\ next.phase = "body" /\ next.snap = row[k.res]
  BY <1>1 DEF Tasks
<1>3. Become(k, next) /\ UNCHANGED <<row, provider, daemon>>
  BY DEF Begin
<1> HIDE DEF next
<1>4. Fit(row[k.res], k.res)
  BY <1>1 DEF Fits, RowsFit, RowFits, Fit
<1>5. TaskFits(next)
  BY <1>1, <1>2, <1>4, NextFits
<1> QED BY <1>3, <1>5, BecomeOrderly

\* The next of the pipeline starts from what this one found out.
LEMMA HandoverOrderly ==
    ASSUME Inv, Fits, NEW k \in tasks, Handover(k)
    PROVE  Orderly(k)
<1> DEFINE over == Over(k, "closing", NoRow)
           rest == (tasks \ {k}) \cup {over}
<1>1. k \in Tasks /\ k.type \in TransitionTypes /\ k.phase = "logged" /\ TaskFits(k)
  BY TaskFields DEF Inv, Fits, TasksFit, Handover
<1>2. over.res = k.res /\ over.type = k.type /\ over.phase = "closing"
  BY DEF Over, NewTask
<1>3. UNCHANGED <<row, provider, daemon>> /\ Steady
  BY NothingMoves DEF Handover
<1>4. \/ tasks' = rest
      \/ \E type \in Successor[k.type] : tasks' = WithTransition(rest, k.res, type)
  BY DEF Handover
<1> HIDE DEF over
<1>5. TaskFits(over)
  BY <1>1, <1>2, NextFits DEF Holds
<1>6. ASSUME NEW type \in Successor[k.type], tasks' = WithTransition(rest, k.res, type)
      PROVE  GivesWay(k)
  <2> DEFINE next == NewTask(k.res, type)
  <2>1. next.res = k.res /\ next.type = type /\ next.phase = "pending"
    BY DEF NewTask
  <2>2. tasks' = rest \/ tasks' = rest \cup {next}
    BY <1>6 DEF WithTransition
  <2>3. \/ k.type = "ensure_dependencies_ready" /\ type = "ensure_exists"
        \/ k.type = "ensure_exists" /\ type = "ensure_healthy"
        \/ k.type = "ensure_forward_dependencies_deleted" /\ type = "ensure_deleted"
    BY <1>1, <1>6 DEF Successor, TransitionTypes
  <2> HIDE DEF next
  <2>4. ~Holds(next)
    BY <2>1 DEF Holds
  <2>5. Goal(type) = Goal(k.type)
    BY <2>3 DEF Goal
  <2>6. (Found(next) => Found(k)) /\ (Based(next) => Based(k)) /\ (Freed(next) => Freed(k))
    BY <1>1, <2>1, <2>3 DEF Found, Based, Freed
  <2>7. TaskFits(next)
    BY <1>1, <2>1, <2>4, <2>5, <2>6 DEF TaskFits
  <2>8. AllFit({over}) /\ AllFit({over, next})
    BY <1>5, <2>7 DEF AllFit
  <2>9. tasks' = (tasks \ {k}) \cup {over} \/ tasks' = (tasks \ {k}) \cup {over, next}
    BY <2>2
  <2> QED BY <2>8, <2>9, GivesWayTo
<1>7. ASSUME tasks' = rest
      PROVE  GivesWay(k)
  <2>1. tasks' = (tasks \ {k}) \cup {over} /\ AllFit({over})
    BY <1>5, <1>7 DEF AllFit
  <2> QED BY <2>1, GivesWayTo
<1>8. GivesWay(k)
  BY <1>4, <1>6, <1>7
<1> QED BY <1>3, <1>8 DEF Orderly

\* What a task logs when it is done, if it is right about it.
LEMMA LogOrderly ==
    ASSUME Inv, Fits, NEW k \in tasks, k.phase \in {"body", "verify"},
           NEW event \in EventTypes, NEW reason, LogAndGo(k, event, reason, "logged"),
           UNCHANGED <<provider, daemon>>,
           event # "resource_found_and_healthy",
           event = "resource_found" => provider[k.res] = "present",
           event = "resource_not_found" => Gone(k.res),
           k.type = "ensure_exists" => provider[k.res] = "present",
           k.type = "ensure_dependencies_ready" => \A d \in Deps[k.res] : Up(d),
           k.type = "ensure_forward_dependencies_deleted" =>
              \A d \in Dependents(k.res) : Down(d)
    PROVE  Orderly(k)
<1> DEFINE copy == Log(k, event, reason)
           next == [k EXCEPT !.phase = "logged", !.snap = copy]
<1>1. k \in Tasks /\ k.snap \in Rows /\ TaskFits(k) /\ TypeInv
  BY TaskFields DEF Inv, Fits, TasksFit
<1>2. copy \in Rows
  BY <1>1, LoggedRow DEF Log
<1>3. Fit(copy, k.res)
  BY <1>1, LoggedFits DEF Holds
<1>4. Save(k, copy) /\ Become(k, next)
  BY DEF LogAndGo
<1> HIDE DEF copy
<1>5. next.res = k.res /\ next.type = k.type /\ next.phase = "logged" /\ next.snap = copy
  BY <1>1 DEF Tasks
<1> HIDE DEF next
<1>6. /\ Found(next) => provider[k.res] = "present"
      /\ Based(next) => \A d \in Deps[k.res] : Up(d)
      /\ Freed(next) => \A d \in Dependents(k.res) : Down(d)
  BY <1>1, <1>5 DEF TaskFits, Found, Based, Freed
<1>7. TaskFits(next)
  BY <1>1, <1>3, <1>5, <1>6 DEF TaskFits
<1> QED BY <1>2, <1>3, <1>4, <1>7, BecomeOrderly

\* A failure of the task: nothing is known but what the copy says.
LEMMA FailureOrderly ==
    ASSUME Inv, Fits, NEW k \in tasks, NEW copy, copy # NoRow => Fit(copy, k.res),
           Become(k, Over(k, "failing", copy)), UNCHANGED <<provider, daemon>>,
           \/ UNCHANGED row
           \/ \E saved \in Rows : Fit(saved, k.res) /\ Save(k, saved)
    PROVE  Orderly(k)
<1> DEFINE next == Over(k, "failing", copy)
<1>1. /\ next.res = k.res /\ next.type = k.type
      /\ next.phase = "failing" /\ next.snap = copy
  BY DEF Over, NewTask
<1>2. TaskFits(k)
  BY DEF Fits, TasksFit
<1> HIDE DEF next
<1>3. TaskFits(next)
  BY <1>1, <1>2, NextFits DEF Holds
<1> QED BY <1>3, BecomeOrderly DEF next

LEMMA RetryOrderly ==
    ASSUME Inv, Fits, NEW k \in tasks, k.phase \in {"body", "verify", "logged"},
           NEW saved \in BOOLEAN, NEW event \in BOOLEAN,
           NEW side \in {None, "deletion_terminated", "health_checks_terminated"},
           Retry(k, saved, event, side), UNCHANGED <<provider, daemon>>
    PROVE  Orderly(k)
<1>1. k \in Tasks /\ k.snap \in Rows /\ TaskFits(k) /\ TypeInv
  BY TaskFields DEF Inv, Fits, TasksFit
<1>2. Holds(k) /\ Fit(k.snap, k.res)
  BY <1>1 DEF TaskFits, Holds
<1>3. CASE RetriesLeft(k)
  <2> DEFINE next == [k EXCEPT !.phase = "waiting", !.snap = NoRow, !.retries = @ + 1]
  <2>1. next.res = k.res /\ next.type = k.type /\ next.phase = "waiting"
    BY <1>1 DEF Tasks
  <2>2. Become(k, next) /\ (Save(k, k.snap) \/ UNCHANGED row)
    BY <1>3 DEF Retry
  <2> HIDE DEF next
  <2>3. TaskFits(next)
    BY <1>1, <2>1, NextFits DEF Holds
  <2> QED BY <1>1, <1>2, <2>2, <2>3, BecomeOrderly
<1>4. CASE ~RetriesLeft(k)
  <2> DEFINE copy == IF event /\ side # None THEN Log(k, side, "retries_exhausted") ELSE k.snap
  <2>1. copy \in Rows
    BY <1>1, LoggedRow DEF Log, EventTypes
  <2>2. Fit(copy, k.res)
    BY <1>1, <1>2, LoggedFits
  <2>3. Become(k, Over(k, "failing", copy)) /\ (Save(k, copy) \/ UNCHANGED row)
    BY <1>4 DEF Retry
  <2> HIDE DEF copy
  <2> QED BY <2>1, <2>2, <2>3, FailureOrderly
<1> QED BY <1>3, <1>4

\* What a row calls healthy is wanted and exists, what it calls deleted is not
\* wanted and gone.
LEMMA StatesMean ==
    ASSUME Inv, Fits, NEW d \in Resources
    PROVE  /\ row[d].state = "healthy" => Up(d)
           /\ row[d].state = "deleted" => Down(d)
<1>1. row[d].desired \in {None, "healthy", "deleted"}
  BY DEF Inv, TypeInv, TypeOK, Rows, DesiredStates
<1>2. Truthful(row[d], d)
  BY DEF Fits, RowsFit, RowFits
<1> QED BY <1>1, <1>2 DEF Truthful, Up, Down, None, CreationStages, DeletionStages

\* What the listing says of a resource that is not being created.
LEMMA ListingMeans ==
    ASSUME Inv, Fits, NEW r \in Resources
    PROVE  /\ ~Listed(r) <=> Gone(r)
           /\ Listed(r) /\ row[r].desired = "healthy" => provider[r] = "present"
<1>1. provider[r] \in {"absent", "present", "deleting"}
  BY DEF Inv, TypeInv, TypeOK, Existence, Fits, RowsFit, RowFits, Kept
<1> QED BY <1>1 DEF Listed, Gone, Fits, RowsFit, RowFits, Kept

LEMMA SuccessOrderly ==
    ASSUME Inv, Fits, NEW k \in tasks,
           \/ DependenciesReady(k) \/ DependentsAbsent(k) \/ FoundBefore(k)
           \/ FoundAfter(k) \/ Healthy(k) \/ AbsentBefore(k) \/ AbsentAfter(k)
    PROVE  Orderly(k)
<1>1. k.res \in Resources /\ TaskFits(k)
  BY TaskFields DEF Inv, Fits, TasksFit
<1>2. Deps[k.res] \subseteq Resources /\ Dependents(k.res) \subseteq Resources
  BY <1>1, ConstantsAssumption DEF Dependents
<1>3. UNCHANGED <<provider, daemon>>
  BY DEF DependenciesReady, DependentsAbsent, FoundBefore, FoundAfter, Healthy,
         AbsentBefore, AbsentAfter
<1>4. CASE DependenciesReady(k)
  <2>1. \A d \in Deps[k.res] : Up(d)
    BY <1>2, <1>4, StatesMean DEF DependenciesReady
  <2>2. /\ k.type = "ensure_dependencies_ready" /\ k.phase = "body"
        /\ LogAndGo(k, "dependencies_ready", None, "logged")
    BY <1>4 DEF DependenciesReady
  <2> QED BY <1>3, <2>1, <2>2, LogOrderly DEF EventTypes
<1>5. CASE DependentsAbsent(k)
  <2>1. \A d \in Dependents(k.res) : Down(d)
    BY <1>2, <1>5, StatesMean DEF DependentsAbsent
  <2>2. /\ k.type = "ensure_forward_dependencies_deleted" /\ k.phase = "body"
        /\ LogAndGo(k, "forward_dependencies_absent", None, "logged")
    BY <1>5 DEF DependentsAbsent
  <2> QED BY <1>3, <2>1, <2>2, LogOrderly DEF EventTypes
<1>6. CASE FoundBefore(k) \/ FoundAfter(k)
  <2>1. /\ k.type = "ensure_exists" /\ k.phase \in {"body", "verify"} /\ Listed(k.res)
        /\ \E reason : LogAndGo(k, "resource_found", reason, "logged")
    BY <1>6 DEF FoundBefore, FoundAfter
  <2>2. provider[k.res] = "present"
    BY <1>1, <2>1, ListingMeans DEF TaskFits, Goal
  <2> QED BY <1>3, <2>1, <2>2, LogOrderly DEF EventTypes
<1>7. CASE Healthy(k)
  <2>1. /\ k.type = "ensure_healthy" /\ k.phase = "body"
        /\ LogAndGo(k, "health_checks_succeeded", None, "logged")
    BY <1>7 DEF Healthy
  <2> QED BY <1>3, <2>1, LogOrderly DEF EventTypes
<1>8. CASE AbsentBefore(k) \/ AbsentAfter(k)
  <2>1. /\ k.type = "ensure_deleted" /\ k.phase \in {"body", "verify"} /\ ~Listed(k.res)
        /\ \E reason : LogAndGo(k, "resource_not_found", reason, "logged")
    BY <1>8 DEF AbsentBefore, AbsentAfter
  <2>2. Gone(k.res)
    BY <1>1, <2>1, ListingMeans
  <2> QED BY <1>3, <2>1, <2>2, LogOrderly DEF EventTypes
<1> QED BY <1>4, <1>5, <1>6, <1>7, <1>8

\* The request goes out and is logged: the provider moves where the row wants
\* it.
LEMMA RequestOrderly ==
    ASSUME ~ListingLag, Inv, Fits, NEW k \in tasks, CreateRequest(k) \/ DeleteRequest(k)
    PROVE  Orderly(k)
<1> DEFINE next == [k EXCEPT !.phase = "verify", !.memo = TRUE]
<1>1. /\ k \in Tasks /\ k.res \in Resources /\ k.snap \in Rows /\ k.phase = "body"
      /\ TaskFits(k) /\ TypeInv
  BY TaskFields DEF Inv, Fits, TasksFit, CreateRequest, DeleteRequest
<1>2. Become(k, next) /\ UNCHANGED daemon
  BY DEF CreateRequest, DeleteRequest
<1>3. /\ next.res = k.res /\ next.type = k.type /\ next.phase = "verify"
      /\ next.snap = k.snap
  BY <1>1 DEF Tasks
<1> HIDE DEF next
<1>4. TaskFits(next)
  BY <1>1, <1>3, NextFits DEF TaskFits, Holds
<1>5. tasks' = (tasks \ {k}) \cup {next} /\ AllFit({next})
  BY <1>2, <1>4 DEF Become, AllFit
<1>6. GivesWay(k)
  BY <1>5, GivesWayTo
<1>7. \E event \in EventTypes :
        /\ event \notin {"resource_found_and_healthy", "resource_found", "resource_not_found"}
        /\ Save(k, Log(k, event, None))
  BY DEF CreateRequest, DeleteRequest, EventTypes
<1>8. \E copy \in Rows : Fit(copy, k.res) /\ Save(k, copy)
  <2>1. PICK event \in EventTypes :
          /\ event \notin {"resource_found_and_healthy", "resource_found", "resource_not_found"}
          /\ Save(k, Log(k, event, None))
    BY <1>7
  <2>2. Log(k, event, None) \in Rows
    BY <1>1, LoggedRow DEF Log
  <2>3. Fit(Log(k, event, None), k.res)
    BY <1>1, <2>1, LoggedFits DEF Holds
  <2> QED BY <2>1, <2>2, <2>3
<1>9. Steady
  <2>1. \A r \in Resources : RowFits(r)
    BY DEF Fits, RowsFit
  <2>2. provider \in [Resources -> Existence]
    BY <1>1 DEF TypeInv, TypeOK
  <2>3. CASE CreateRequest(k)
    <3>1. row[k.res].desired = "healthy" /\ provider' = [provider EXCEPT ![k.res] = "present"]
      BY <1>1, <2>3 DEF CreateRequest, TaskFits, Goal
    <3> QED BY <1>1, <2>1, <2>2, <3>1 DEF Steady, RowFits, Kept, Gone
  <2>4. CASE DeleteRequest(k)
    <3>1. /\ row[k.res].desired = "deleted" /\ Listed(k.res)
          /\ provider' = [provider EXCEPT ![k.res] = "deleting"]
      BY <1>1, <2>4 DEF DeleteRequest, TaskFits, Goal
    <3>2. ~Gone(k.res)
      BY <1>1, <3>1, ListingMeans
    <3> QED BY <1>1, <2>1, <2>2, <3>1, <3>2 DEF Steady, RowFits, Kept, Gone
  <2> QED BY <2>3, <2>4
<1> QED BY <1>2, <1>6, <1>8, <1>9 DEF Orderly

LEMMA TroubleOrderly ==
    ASSUME Inv, Fits, NEW k \in tasks,
           \/ DependenciesPending(k) \/ DependentsPending(k) \/ NotYetFound(k)
           \/ NotHealthy(k) \/ NotYetAbsent(k) \/ MemoHit(k)
           \/ RequestRefused(k) \/ CallFails(k) \/ Unexpected(k)
    PROVE  Orderly(k)
<1>1. k.phase \in {"body", "verify", "logged"}
  BY DEF DependenciesPending, DependentsPending, NotYetFound, NotHealthy, NotYetAbsent,
         MemoHit, NeedsRequest, RequestRefused, CallFails, Unexpected
<1>2. UNCHANGED <<provider, daemon>>
  BY DEF DependenciesPending, DependentsPending, NotYetFound, NotHealthy, NotYetAbsent,
         MemoHit, RequestRefused, CallFails, Unexpected
<1>3. \/ Raise(k) /\ UNCHANGED row
      \/ \E saved \in BOOLEAN, event \in BOOLEAN,
            side \in {None, "deletion_terminated", "health_checks_terminated"} :
            Retry(k, saved, event, side)
  <2>1. CASE DependenciesPending(k) \/ DependentsPending(k)
    BY <2>1 DEF DependenciesPending, DependentsPending
  <2>2. CASE NotYetFound(k) \/ NotHealthy(k) \/ NotYetAbsent(k)
    BY <2>2 DEF NotYetFound, NotHealthy, NotYetAbsent
  <2>3. CASE MemoHit(k) \/ CallFails(k) \/ Unexpected(k)
    BY <2>3 DEF MemoHit, CallFails, Unexpected
  <2>4. CASE RequestRefused(k)
    BY <2>4 DEF RequestRefused
  <2> QED BY <2>1, <2>2, <2>3, <2>4
<1>4. CASE Raise(k) /\ UNCHANGED row
  <2>1. Become(k, Over(k, "failing", NoRow)) /\ UNCHANGED row
    BY <1>4 DEF Raise
  <2> QED BY <1>2, <2>1, FailureOrderly
<1> QED BY <1>1, <1>2, <1>3, <1>4, RetryOrderly

LEMMA EndOrderly ==
    ASSUME Inv, Fits, NEW k \in tasks,
           Complete(k) \/ Refetch(k) \/ Terminate(k) \/ MemoExpires(k)
    PROVE  Orderly(k)
<1>1. /\ k \in Tasks /\ k.res \in Resources /\ k.snap \in Rows \cup {NoRow}
      /\ TaskFits(k) /\ TypeInv
  BY TaskFields DEF Inv, Fits, TasksFit
<1>2. UNCHANGED <<provider, daemon>> /\ Steady
  BY NothingMoves DEF Complete, Refetch, Terminate, MemoExpires
<1>3. ASSUME tasks' = tasks \ {k}
      PROVE  GivesWay(k)
  <2>1. tasks' = (tasks \ {k}) \cup {} /\ AllFit({})
    BY <1>3 DEF AllFit
  <2> QED BY <2>1, GivesWayTo
<1>4. CASE Complete(k)
  BY <1>2, <1>3, <1>4 DEF Complete, Orderly
<1>5. CASE Terminate(k)
  <2> DEFINE copy == Log(k, "terminal_failure", "exception")
  <2>1. Holds(k) /\ k.snap \in Rows
    BY <1>1, <1>5 DEF Terminate, Holds
  <2>2. copy \in Rows
    BY <2>1, LoggedRow DEF Log, EventTypes
  <2>3. Fit(copy, k.res)
    BY <1>1, <2>1, LoggedFits
  <2>4. Save(k, copy) /\ tasks' = tasks \ {k}
    BY <1>5 DEF Terminate
  <2> HIDE DEF copy
  <2> QED BY <1>2, <1>3, <2>2, <2>3, <2>4 DEF Orderly
<1>6. CASE Refetch(k)
  <2> DEFINE next == [k EXCEPT !.snap = row[k.res]]
  <2>1. Become(k, next) /\ UNCHANGED row /\ k.phase = "failing"
    BY <1>6 DEF Refetch
  <2>2. next.res = k.res /\ next.type = k.type /\ next.phase = k.phase
        /\ next.snap = row[k.res]
    BY <1>1 DEF Tasks
  <2> HIDE DEF next
  <2>3. Fit(row[k.res], k.res)
    BY <1>1 DEF Fits, RowsFit, RowFits, Fit
  <2>4. TaskFits(next)
    BY <1>1, <2>2, <2>3, NextFits
  <2> QED BY <1>2, <2>1, <2>4, BecomeOrderly
<1>7. CASE MemoExpires(k)
  <2> DEFINE next == [k EXCEPT !.memo = FALSE]
  <2>1. Become(k, next) /\ UNCHANGED row /\ k.phase = "waiting"
    BY <1>7 DEF MemoExpires
  <2>2. next.res = k.res /\ next.type = k.type /\ next.phase = k.phase
    BY <1>1 DEF Tasks
  <2> HIDE DEF next
  <2>3. TaskFits(next)
    BY <1>1, <2>1, <2>2, NextFits DEF Holds
  <2> QED BY <1>2, <2>1, <2>3, BecomeOrderly
<1> QED BY <1>4, <1>5, <1>6, <1>7

-------------------------------------------------------------------------------
(* The other steps *)

LEMMA InitFits == Init => Fits
<1> SUFFICES ASSUME Init PROVE Fits
  OBVIOUS
<1>1. \A r \in Resources : RowFits(r)
  BY DEF Init, RowFits, Truthful, Kept, Gone, None
<1>2. TasksFit /\ TodoFits
  BY DEF Init, TasksFit, TodoFits
<1> QED BY <1>1, <1>2 DEF Fits, RowsFit

\* What is there stays as it was.
LEMMA OldTasksFit ==
    ASSUME Inv, Fits, SameWishes, Steady
    PROVE  \A j \in tasks : TaskFits(j)'
<1> SUFFICES ASSUME NEW j \in tasks PROVE TaskFits(j)'
  OBVIOUS
<1>1. j \in Tasks /\ Copied(j) /\ TaskFits(j)
  BY DEF Inv, TypeInv, TypeOK, Fits, TasksFit
<1> QED BY <1>1, TaskFitStays

\* The daemon starts the pipeline of the desired state, at its first check.
LEMMA DaemonKeepsFits ==
    ASSUME Inv, Fits, Daemon
    PROVE  Fits'
<1>1. UNCHANGED <<row, provider>>
  BY DEF Daemon, DaemonScan, DaemonFilter, DaemonCreate
<1>2. SameWishes /\ Steady
  BY <1>1, NothingMoves DEF SameWishes
<1>3. RowsFit'
  BY <1>1 DEF Fits, RowsFit, RowFits, Truthful, Kept, Gone
<1>4. \A j \in tasks : TaskFits(j)'
  BY <1>2, OldTasksFit
<1>5. /\ daemon.want \in {"healthy", "deleted"} /\ daemon.todo \subseteq Resources
      /\ daemon \in [at : {"scan", "filter", "create"}, want : {"healthy", "deleted"},
                     todo : SUBSET Resources]
  BY DEF Inv, TypeInv, TypeOK
<1>6. NextStage.at = "scan"
  BY DEF NextStage
<1> HIDE DEF NextStage
<1>7. CASE DaemonScan
  <2>1. UNCHANGED tasks
    BY <1>7 DEF DaemonScan
  <2> DEFINE found == {r \in Resources :
                         /\ row[r].desired = daemon.want
                         /\ row[r].state \notin {daemon.want, "creation_terminated"}}
  <2>2. daemon' = NextStage \/ daemon' = [daemon EXCEPT !.at = "filter", !.todo = found]
    BY <1>7 DEF DaemonScan
  <2>3. \A r \in found : row[r].desired = daemon.want
    OBVIOUS
  <2> HIDE DEF found
  <2>4. daemon'.at # "scan" => daemon'.todo = found /\ daemon'.want = daemon.want
    BY <1>5, <1>6, <2>2
  <2>5. TodoFits'
    BY <1>1, <2>3, <2>4 DEF TodoFits
  <2> QED BY <1>3, <1>4, <2>1, <2>5 DEF Fits, TasksFit
<1>8. CASE DaemonFilter
  <2>1. UNCHANGED tasks /\ daemon.at = "filter"
    BY <1>8 DEF DaemonFilter
  <2>2. \/ daemon' = NextStage
        \/ daemon' = [daemon EXCEPT !.at = "create",
                        !.todo = {r \in daemon.todo : Outstanding(r) = {}}]
    BY <1>8 DEF DaemonFilter
  <2>3. TodoFits'
    BY <1>1, <1>5, <1>6, <2>1, <2>2 DEF Fits, TodoFits
  <2> QED BY <1>3, <1>4, <2>1, <2>3 DEF Fits, TasksFit
<1>9. CASE DaemonCreate
  <2>1. PICK r \in daemon.todo :
            /\ tasks' = WithTransition(tasks, r, InitialType(r))
            /\ daemon' = IF daemon.todo = {r} THEN NextStage
                         ELSE [daemon EXCEPT !.todo = @ \ {r}]
    BY <1>9 DEF DaemonCreate
  <2>2. daemon.at = "create" /\ r \in Resources /\ row[r].desired = daemon.want
    BY <1>5, <1>9 DEF DaemonCreate, Fits, TodoFits
  <2>3. TodoFits'
    BY <1>1, <1>5, <1>6, <2>1, <2>2 DEF Fits, TodoFits
  <2> PICK type : type = InitialType(r)
    OBVIOUS
  <2> PICK next : next = NewTask(r, type)
    OBVIOUS
  <2>4. /\ Goal(type) = daemon.want
        /\ \/ type \in {"ensure_dependencies_ready", "ensure_forward_dependencies_deleted"}
           \/ type = "ensure_exists" /\ Deps[r] = {}
    BY <1>5 DEF InitialType, Goal
  <2>5. tasks' = tasks \/ tasks' = tasks \cup {next}
    BY <2>1 DEF WithTransition
  <2>6. next.res = r /\ next.type = type /\ next.phase = "pending"
    BY DEF NewTask
  <2>7. TaskFits(next)
    BY <2>2, <2>4, <2>6 DEF TaskFits, Holds, Found, Based, Freed
  <2>8. TaskFits(next)'
    BY <1>1, <2>7 DEF TaskFits, Holds, Found, Based, Freed, Fit, Truthful, Up, Down, Gone
  <2>9. TasksFit'
    BY <1>4, <2>5, <2>8 DEF TasksFit
  <2> QED BY <1>3, <2>3, <2>9 DEF Fits
<1> QED BY <1>7, <1>8, <1>9 DEF Daemon

\* A file is applied to a system at rest: nothing is deleted where a resource
\* is healthy or was given up, and what is deleted is gone.
LEMMA UserKeepsFits ==
    ASSUME ~HastyUser, Inv, Fits, User
    PROVE  Fits'
<1>1. PICK S \in Files, d \in {"healthy", "deleted"} : Apply(S, d)
  BY DEF User
<1>2. Settled /\ UNCHANGED <<tasks, daemon, provider>>
  BY <1>1 DEF Apply
<1>3. TasksFit' /\ TodoFits'
  BY <1>2 DEF Settled, TasksFit, TodoFits
<1>4. RowsFit'
  <2> SUFFICES ASSUME NEW r \in Resources PROVE RowFits(r)'
    BY DEF RowsFit
  <2>1. RowFits(r) /\ row[r] \in Rows
    BY DEF Fits, RowsFit, Inv, TypeInv, TypeOK
  <2>2. provider[r] = "present" \/ Gone(r) \/ provider[r] = "deleting"
    BY <2>1 DEF Inv, TypeInv, TypeOK, Existence, RowFits, Kept, Gone
  <2>3. CASE r \notin S
    <3>1. row'[r] = row[r]
      BY <1>1, <2>3 DEF Apply
    <3> QED BY <1>2, <2>1, <3>1 DEF RowFits, Truthful, Kept, Gone
  <2>4. CASE r \in S
    <3>1. row'[r].desired = d
          /\ row'[r].state = IF d = "healthy" THEN "declared" ELSE "unknown"
      BY <1>1, <2>1, <2>4 DEF Apply, Rows
    <3>2. row[r].desired = "deleted" => row[r].state = "deleted"
      BY <1>2, <2>1 DEF Settled, RowFits, Truthful, None, DeletionStages
    <3>3. provider[r] = "present" \/ Gone(r)
      BY <2>1, <3>2 DEF RowFits, Truthful, Kept
    <3> QED BY <1>2, <2>1, <3>1, <3>3
            DEF RowFits, Truthful, Kept, Gone, None, CreationStages, DeletionStages
  <2> QED BY <2>3, <2>4
<1> QED BY <1>3, <1>4 DEF Fits

LEMMA ProviderKeepsFits ==
    ASSUME Inv, Fits, NEW r \in Resources, Appear(r) \/ Vanish(r)
    PROVE  Fits'
<1>1. UNCHANGED <<row, tasks, daemon>>
  BY DEF Appear, Vanish
<1>2. \A s \in Resources : RowFits(s)
  BY DEF Fits, RowsFit
<1>3. provider[r] = "deleting" /\ provider' = [provider EXCEPT ![r] = "absent"]
  BY <1>2 DEF Appear, Vanish, RowFits, Kept
<1>4. \A s \in Resources : provider'[s] = IF s = r THEN "absent" ELSE provider[s]
  BY <1>3 DEF Inv, TypeInv, TypeOK
<1>5. Steady /\ SameWishes
  BY <1>1, <1>2, <1>3, <1>4 DEF Steady, SameWishes, RowFits, Kept, Gone
<1>6. RowsFit'
  BY <1>1, <1>2, <1>3, <1>4 DEF RowsFit, RowFits, Truthful, Kept, Gone
<1>7. TasksFit'
  BY <1>1, <1>5, OldTasksFit DEF TasksFit
<1>8. TodoFits'
  BY <1>1 DEF Fits, TodoFits
<1> QED BY <1>6, <1>7, <1>8 DEF Fits

LEMMA TaskOrderly ==
    ASSUME ~ListingLag, Inv, Fits, NEW k \in tasks,
           \/ TaskStep(k) \/ Complete(k) \/ Refetch(k) \/ Terminate(k) \/ MemoExpires(k)
    PROVE  Orderly(k)
  BY BeginOrderly, HandoverOrderly, SuccessOrderly, RequestOrderly, TroubleOrderly,
     EndOrderly DEF TaskStep

LEMMA NextFitsAll ==
    ASSUME ~ListingLag, ~HastyUser
    PROVE  Inv /\ Fits /\ [Next]_vars => Fits'
<1> SUFFICES ASSUME Inv, Fits, [Next]_vars PROVE Fits'
  OBVIOUS
<1>1. Inv'
  BY NextInv
<1>2. CASE User
  BY <1>2, UserKeepsFits
<1>3. CASE Daemon
  BY <1>3, DaemonKeepsFits
<1>4. ASSUME NEW r \in Resources, Appear(r) \/ Vanish(r)
      PROVE  Fits'
  BY <1>4, ProviderKeepsFits
<1>5. ASSUME NEW k \in tasks,
             \/ TaskStep(k) \/ Complete(k) \/ Refetch(k) \/ Terminate(k) \/ MemoExpires(k)
      PROVE  Fits'
  BY <1>1, <1>5, TaskOrderly, OrderlyKeepsFits
<1>6. CASE UNCHANGED vars
  BY <1>6 DEF vars, Fits, RowsFit, RowFits, TasksFit, TodoFits, TaskFits, Holds, Found, Based,
              Freed, Fit, Truthful, Kept, Gone, Up, Down
<1> QED BY <1>2, <1>3, <1>4, <1>5, <1>6 DEF Next, Work, Close, Report, TasksOf

LEMMA AlwaysFits ==
    ASSUME ~ListingLag, ~HastyUser
    PROVE  Spec => [](Inv /\ Fits)
<1>1. Init => Inv /\ Fits
  BY InitInv, InitFits
<1>2. Inv /\ Fits /\ [Next]_vars => (Inv /\ Fits)'
  BY NextInv, NextFitsAll
<1> QED BY <1>1, <1>2, PTL DEF Spec

-------------------------------------------------------------------------------
(* What the requests need *)

\* What moves the provider.
LEMMA ProviderMoves ==
    ASSUME [Next]_vars
    PROVE  \/ UNCHANGED provider
           \/ \E k \in tasks : CreateRequest(k) \/ DeleteRequest(k)
           \/ \E r \in Resources : Appear(r) \/ Vanish(r)
<1>1. ASSUME NEW k \in tasks, TaskStep(k), ~CreateRequest(k), ~DeleteRequest(k)
      PROVE  UNCHANGED provider
  BY <1>1 DEF TaskStep, Begin, Handover, DependenciesReady, DependenciesPending,
         DependentsAbsent, DependentsPending, FoundBefore, FoundAfter, NotYetFound,
         Healthy, NotHealthy, AbsentBefore, AbsentAfter, NotYetAbsent, MemoHit,
         RequestRefused, CallFails, Unexpected
<1>2. ASSUME NEW k \in tasks, Complete(k) \/ Refetch(k) \/ Terminate(k) \/ MemoExpires(k)
      PROVE  UNCHANGED provider
  BY <1>2 DEF Complete, Refetch, Terminate, MemoExpires
<1>3. User \/ Daemon => UNCHANGED provider
  BY DEF User, Apply, Daemon, DaemonScan, DaemonFilter, DaemonCreate
<1>4. UNCHANGED vars => UNCHANGED provider
  BY DEF vars
<1> QED BY <1>1, <1>2, <1>3, <1>4 DEF Next, Work, Close, Report, TasksOf

\* Only a creation request makes something appear, and its task comes after
\* ensure_dependencies_ready.
LEMMA CreationIsBased ==
    ASSUME Inv, Fits, [Next]_vars, NEW r \in Resources,
           provider[r] = "absent", provider'[r] # "absent"
    PROVE  \A d \in Deps[r] : provider[d] = "present"
<1>1. provider \in [Resources -> Existence]
  BY DEF Inv, TypeInv, TypeOK
<1>2. ASSUME NEW k \in tasks, CreateRequest(k) \/ DeleteRequest(k)
      PROVE  CreateRequest(k) /\ k.res = r
  <2>1. k.res = r
    BY <1>1, <1>2 DEF CreateRequest, DeleteRequest
  <2>2. ~DeleteRequest(k)
    BY <2>1 DEF DeleteRequest, Listed
  <2> QED BY <1>2, <2>1, <2>2
<1>3. ASSUME NEW s \in Resources, Appear(s) \/ Vanish(s)
      PROVE  FALSE
  BY <1>1, <1>3 DEF Appear, Vanish
<1>4. PICK k \in tasks : CreateRequest(k) /\ k.res = r
  BY <1>2, <1>3, ProviderMoves
<1>5. TaskFits(k) /\ Based(k)
  BY <1>4 DEF Fits, TasksFit, CreateRequest, Based
<1> QED BY <1>4, <1>5 DEF TaskFits, Up

\* Only a deletion request makes something go, and its task comes after
\* ensure_forward_dependencies_deleted.
LEMMA DeletionIsFree ==
    ASSUME Inv, Fits, [Next]_vars, NEW r \in Resources,
           provider[r] # "deleting", provider'[r] = "deleting"
    PROVE  \A d \in Dependents(r) : provider[d] \in {"absent", "deleting"}
<1>1. provider \in [Resources -> Existence]
  BY DEF Inv, TypeInv, TypeOK
<1>2. ASSUME NEW k \in tasks, CreateRequest(k) \/ DeleteRequest(k)
      PROVE  DeleteRequest(k) /\ k.res = r
  <2>1. k.res = r
    BY <1>1, <1>2 DEF CreateRequest, DeleteRequest
  <2>2. ~CreateRequest(k)
    BY <1>1, <2>1 DEF CreateRequest
  <2> QED BY <1>2, <2>1, <2>2
<1>3. ASSUME NEW s \in Resources, Appear(s) \/ Vanish(s)
      PROVE  FALSE
  BY <1>1, <1>3 DEF Appear, Vanish
<1>4. PICK k \in tasks : DeleteRequest(k) /\ k.res = r
  BY <1>2, <1>3, ProviderMoves
<1>5. TaskFits(k) /\ Freed(k)
  BY <1>4 DEF Fits, TasksFit, DeleteRequest, Freed
<1> QED BY <1>4, <1>5 DEF TaskFits, Down, Gone

\* What the database calls healthy exists and what it calls deleted does not,
\* although tasks save whole rows they read long ago.
THEOREM RowsTellTheTruth ==
    ASSUME ~ListingLag, ~HastyUser
    PROVE  Spec => []StatesAreTrue
<1>1. Inv /\ Fits => StatesAreTrue
  BY DEF Fits, RowsFit, RowFits, Truthful, Gone, StatesAreTrue
<1> QED BY <1>1, AlwaysFits, PTL

\* Nothing is created before all it depends on exists, for any graph of
\* dependencies: what ensure_dependencies_ready saw is still so when
\* ensure_exists, tries and failures later, makes its request.
THEOREM DependenciesFirst ==
    ASSUME ~ListingLag, ~HastyUser
    PROVE  Spec => CreateAfterDependencies
<1>1. Inv /\ Fits /\ [Next]_vars =>
        [\A r \in Resources :
            (provider[r] = "absent" /\ provider'[r] # "absent")
                => \A d \in Deps[r] : provider[d] = "present"]_vars
  BY CreationIsBased
<1> QED BY <1>1, AlwaysFits, PTL DEF Spec, CreateAfterDependencies

\* Nothing is deleted while a dependent of it is listed, for any graph of
\* dependencies: what ensure_forward_dependencies_deleted saw is still so when
\* ensure_deleted makes its request.
THEOREM DependentsFirst ==
    ASSUME ~ListingLag, ~HastyUser
    PROVE  Spec => DeleteAfterDependents
<1>1. Inv /\ Fits /\ [Next]_vars =>
        [\A r \in Resources :
            (provider[r] # "deleting" /\ provider'[r] = "deleting")
                => \A d \in Dependents(r) : provider[d] \in {"absent", "deleting"}]_vars
  BY DeletionIsFree
<1> QED BY <1>1, AlwaysFits, PTL DEF Spec, DeleteAfterDependents
-------------------------------------------------------------------------------
(* The lifecycle of each resource *)

\* While no file is applied wishes stay.
LEMMA WishesStay ==
    ASSUME ~ListingLag, Inv, Fits, [Next]_vars, ~User
    PROVE  SameWishes
<1>1. row \in [Resources -> Rows]
  BY DEF Inv, TypeInv, TypeOK
<1>2. ASSUME NEW k \in tasks, Orderly(k)
      PROVE  SameWishes
  BY <1>1, <1>2, TaskFields DEF Orderly, Save, Fit, SameWishes, Inv
<1>3. ASSUME UNCHANGED row
      PROVE  SameWishes
  BY <1>3 DEF SameWishes
<1>4. CASE Daemon
  BY <1>3, <1>4 DEF Daemon, DaemonScan, DaemonFilter, DaemonCreate
<1>5. ASSUME NEW r \in Resources, Appear(r) \/ Vanish(r)
      PROVE  UNCHANGED row
  BY <1>5 DEF Appear, Vanish
<1>6. CASE UNCHANGED vars
  BY <1>3, <1>6 DEF vars
<1> QED BY <1>2, <1>3, <1>4, <1>5, <1>6, TaskOrderly DEF Next, Work, Close, Report, TasksOf

\* A row that fits says what the lifecycle lets it say.
LEMMA TruthfulRow ==
    ASSUME NEW r \in Resources, row[r] \in Rows, RowFits(r)
    PROVE  Lifecycle(r)!Truth
<1>1. row[r].desired \in {"none", "healthy", "deleted"}
  BY DEF Rows, DesiredStates, None
<1>2. row[r].state \in Lifecycle(r)!Stages[row[r].desired]
  BY <1>1 DEF RowFits, Truthful, None, Lifecycle!Stages, CreationStages, DeletionStages
<1>3. row[r].state \in {"exists", "healthy"} => ObjectOf(r) = "made"
  BY DEF RowFits, Truthful, ObjectOf
<1>4. row[r].state = "deleted" => ObjectOf(r) = "absent"
  BY DEF RowFits, Truthful, Gone, ObjectOf
<1> QED BY <1>2, <1>3, <1>4 DEF Lifecycle!Truth

LEMMA AllTruthful == Inv /\ Fits => \A r \in Resources : Lifecycle(r)!Truth
  BY TruthfulRow DEF Inv, TypeInv, TypeOK, Fits, RowsFit

LEMMA AskFollows ==
    ASSUME ~HastyUser, Inv, User, NEW r \in Resources
    PROVE  [Lifecycle(r)!Next]_(Lifecycle(r)!vars)
<1>1. PICK S \in Files, d \in {"healthy", "deleted"} : Apply(S, d)
  BY DEF User
<1>2. UNCHANGED provider /\ Settled
  BY <1>1 DEF Apply
<1>3. ObjectOf(r)' = ObjectOf(r)
  BY <1>2 DEF ObjectOf
<1>4. CASE r \in S
  <2>1. /\ row'[r].desired = d
        /\ row'[r].state = IF d = "healthy" THEN "declared" ELSE "unknown"
    BY <1>1, <1>4 DEF Apply, Rows, Inv, TypeInv, TypeOK
  <2>2. Lifecycle(r)!Answered
    BY <1>2 DEF Settled, Lifecycle!Answered, Lifecycle!None, None
  <2>3. Lifecycle(r)!Ask
    BY <1>3, <2>1, <2>2 DEF Lifecycle!Ask
  <2> QED BY <2>3 DEF Lifecycle!Next
<1>5. CASE r \notin S
  BY <1>1, <1>3, <1>5 DEF Apply, Lifecycle!vars
<1> QED BY <1>4, <1>5

LEMMA CreationFollows ==
    ASSUME ~ListingLag, Inv, Fits, NEW k \in tasks, CreateRequest(k),
           NEW r \in Resources, Lifecycle(r)!Save
    PROVE  Lifecycle(r)!Next
<1>1. provider \in [Resources -> Existence]
  BY DEF Inv, TypeInv, TypeOK
<1>2. provider[k.res] = "absent" /\ provider' = [provider EXCEPT ![k.res] = "present"]
  BY DEF CreateRequest
<1>3. CASE k.res = r
  <2>1. row[r].desired = "healthy"
    BY <1>3 DEF Fits, TasksFit, TaskFits, CreateRequest, Goal
  <2>2. ObjectOf(r) = "absent" /\ ObjectOf(r)' = "made"
    BY <1>1, <1>2, <1>3 DEF ObjectOf
  <2>3. Lifecycle(r)!Make
    BY <2>1, <2>2 DEF Lifecycle!Make
  <2> QED BY <2>3 DEF Lifecycle!Next
<1>4. CASE k.res # r
  <2>1. ObjectOf(r)' = ObjectOf(r)
    BY <1>1, <1>2, <1>4 DEF ObjectOf
  <2>2. Lifecycle(r)!Report
    BY <2>1 DEF Lifecycle!Report
  <2> QED BY <2>2 DEF Lifecycle!Next
<1> QED BY <1>3, <1>4

LEMMA DeletionFollows ==
    ASSUME Inv, Fits, NEW k \in tasks, DeleteRequest(k),
           NEW r \in Resources, Lifecycle(r)!Save
    PROVE  Lifecycle(r)!Next
<1>1. provider \in [Resources -> Existence]
  BY DEF Inv, TypeInv, TypeOK
<1>2. Listed(k.res) /\ provider' = [provider EXCEPT ![k.res] = "deleting"]
  BY DEF DeleteRequest
<1>3. CASE k.res = r /\ provider[r] = "present"
  <2>1. row[r].desired = "deleted"
    BY <1>3 DEF Fits, TasksFit, TaskFits, DeleteRequest, Goal
  <2>2. ObjectOf(r) = "made" /\ ObjectOf(r)' \in {"leaving", "absent"}
    BY <1>1, <1>2, <1>3 DEF ObjectOf
  <2>3. Lifecycle(r)!Remove
    BY <2>1, <2>2 DEF Lifecycle!Remove
  <2> QED BY <2>3 DEF Lifecycle!Next
<1>4. CASE k.res # r \/ provider[r] # "present"
  <2>1. provider'[r] = provider[r]
    BY <1>1, <1>2, <1>4 DEF Listed
  <2>2. Lifecycle(r)!Report
    BY <2>1 DEF Lifecycle!Report, ObjectOf
  <2> QED BY <2>2 DEF Lifecycle!Next
<1> QED BY <1>3, <1>4

LEMMA ProviderFollows ==
    ASSUME Inv, Fits, NEW s \in Resources, Appear(s) \/ Vanish(s), NEW r \in Resources
    PROVE  [Lifecycle(r)!Next]_(Lifecycle(r)!vars)
<1>1. provider \in [Resources -> Existence] /\ provider[s] # "creating"
  BY DEF Inv, TypeInv, TypeOK, Fits, RowsFit, RowFits, Kept
<1>2. /\ provider[s] = "deleting" /\ provider' = [provider EXCEPT ![s] = "absent"]
      /\ UNCHANGED row
  BY <1>1 DEF Appear, Vanish
<1>3. CASE s = r /\ r \notin Hidden
  <2>1. ObjectOf(r) = "leaving" /\ ObjectOf(r)' = "absent"
    BY <1>1, <1>2, <1>3 DEF ObjectOf
  <2>2. Lifecycle(r)!Vanish
    BY <1>2, <2>1 DEF Lifecycle!Vanish
  <2> QED BY <2>2 DEF Lifecycle!Next
<1>4. CASE s # r \/ r \in Hidden
  <2>1. ObjectOf(r)' = ObjectOf(r)
    BY <1>1, <1>2, <1>4 DEF ObjectOf
  <2> QED BY <1>2, <2>1 DEF Lifecycle!vars
<1> QED BY <1>3, <1>4

LEMMA StepFollows ==
    ASSUME ~ListingLag, ~HastyUser, Inv, Fits, Inv', Fits', [Next]_vars,
           \A q \in Resources : Lifecycle(q)!Truth', NEW r \in Resources
    PROVE  [Lifecycle(r)!Next]_(Lifecycle(r)!vars)
<1>1. CASE User
  BY <1>1, AskFollows
<1>2. CASE ~User
  <2>1. SameWishes
    BY <1>2, WishesStay
  <2>2. Lifecycle(r)!Save
    BY <2>1 DEF SameWishes, Lifecycle!Save
  <2>3. CASE UNCHANGED provider
    <3>1. Lifecycle(r)!Report
      BY <2>2, <2>3 DEF Lifecycle!Report, ObjectOf
    <3> QED BY <3>1 DEF Lifecycle!Next
  <2>4. ASSUME NEW k \in tasks, CreateRequest(k) \/ DeleteRequest(k)
        PROVE  Lifecycle(r)!Next
    BY <2>2, <2>4, CreationFollows, DeletionFollows
  <2>5. ASSUME NEW s \in Resources, Appear(s) \/ Vanish(s)
        PROVE  [Lifecycle(r)!Next]_(Lifecycle(r)!vars)
    BY <2>5, ProviderFollows
  <2> QED BY <2>3, <2>4, <2>5, ProviderMoves
<1> QED BY <1>1, <1>2

\* Reconcile implements ResourceLifecycle for every resource, for any graph of
\* dependencies and any failures: daemon passes, retries and tasks that save
\* what they read long ago neither move an object against the user's wish nor
\* record what is not so.
THEOREM KeepsLifecycle ==
    ASSUME ~ListingLag, ~HastyUser
    PROVE  Spec => FollowsLifecycle
<1>1. Init => \A r \in Resources : Lifecycle(r)!Init
  BY DEF Init, Lifecycle!Init, Lifecycle!None, None, ObjectOf
<1>2. Inv /\ Fits /\ (Inv /\ Fits)' /\ [Next]_vars
        => [\A r \in Resources : [Lifecycle(r)!Next]_(Lifecycle(r)!vars)]_vars
  <2>1. (Inv /\ Fits)' => (\A r \in Resources : Lifecycle(r)!Truth)'
    BY AllTruthful, PTL
  <2> QED BY <2>1, StepFollows
<1> QED BY <1>1, <1>2, AlwaysFits, PTL DEF Spec, FollowsLifecycle
===============================================================================
