---------------------------- MODULE ReconcileProofs ----------------------------
(***************************************************************************)
(* Proofs about Reconcile, for any resources and dependencies, any         *)
(* provider, any user and any number of failures.                          *)
(***************************************************************************)
EXTENDS Reconcile, TLAPS

\* A side effect leads to a state of the model.
LEMMA EffectsAreStates ==
    ASSUME NEW type, NEW event, NEW reason
    PROVE  DecideNextState(type, event, reason) \in States \cup {None}
<1>1. \A e \in EVENT_SIDE_EFFECTS : e[4] \in States
  BY DEF EVENT_SIDE_EFFECTS, States
<1>2. ASSUME NEW found \in SUBSET EVENT_SIDE_EFFECTS, found # {}
      PROVE  (CHOOSE e \in found : TRUE)[4] \in States
  <2>1. (CHOOSE e \in found : TRUE) \in found
    BY <1>2
  <2> QED BY <1>1, <2>1
<1>3. \A t, v, r : Effects(t, v, r) \in SUBSET EVENT_SIDE_EFFECTS
  BY DEF Effects
<1> QED BY <1>2, <1>3 DEF DecideNextState

\* What log_event saves is a row.
LEMMA LoggedRow ==
    ASSUME NEW old \in Rows, NEW type, NEW event \in EventTypes, NEW reason
    PROVE  LogEvent(old, type, event, reason) \in Rows
<1> DEFINE next == DecideNextState(type, event, reason)
<1>1. next \in States \cup {None}
  BY EffectsAreStates
<1>2. CASE next \in {None, old.state}
  BY <1>2 DEF LogEvent
<1>3. CASE next \notin {None, old.state}
  <2>1. next \in States
    BY <1>1, <1>3
  <2> HIDE DEF next
  <2>2. [old EXCEPT !.state = next, !.cause = event] \in Rows
    BY <2>1 DEF Rows
  <2> QED BY <1>3, <2>2 DEF LogEvent, next
<1> QED BY <1>2, <1>3

-------------------------------------------------------------------------------
(* What a step of a task makes of the set of tasks *)

Active(k) == k.phase \notin {"closing", "failing"}

\* A try has read its row.
Copied(k) == k.phase \in {"body", "verify", "logged"} => k.snap \in Rows

TypeInv == TypeOK /\ \A k \in tasks : Copied(k)

\* What may take the place of k: no more than one active task, and only if k
\* was active; failures only, if k was one.
Continues(k, new) ==
    /\ new \subseteq Tasks
    /\ \A j \in new : /\ Copied(j)
                      /\ j.res = k.res
                      /\ Active(j) => Active(k)
                      /\ j.phase # "failing" => k.phase # "failing"
    /\ \A i, j \in new : Active(i) /\ Active(j) => i = j

Replaced(k) == \E new : tasks' = (tasks \ {k}) \cup new /\ Continues(k, new)

\* new is what takes the place of k.
LEMMA ReplacedBy ==
    ASSUME NEW k, NEW new, tasks' = (tasks \ {k}) \cup new, Continues(k, new)
    PROVE  Replaced(k)
  BY DEF Replaced

\* What the type invariant says of one task.
LEMMA TaskFields ==
    ASSUME TypeInv, NEW k \in tasks
    PROVE  /\ k \in Tasks /\ k.res \in Resources /\ k.type \in TransitionTypes
           /\ k.phase \in Phases /\ k.retries \in 0..(MaxRetries - 1)
           /\ k.memo \in BOOLEAN /\ k.snap \in Rows \cup {NoRow}
           /\ k.phase \in {"body", "verify", "logged"} => k.snap \in Rows
  BY DEF TypeInv, TypeOK, Tasks, Copied

\* A new transition is a task, and so is one that is over.
LEMMA NewTaskTyped ==
    ASSUME NEW r \in Resources, NEW type \in TransitionTypes
    PROVE  /\ NewTask(r, type) \in Tasks
           /\ NewTask(r, type).res = r /\ NewTask(r, type).phase = "pending"
  BY ConstantsAssumption DEF NewTask, Tasks, Phases

LEMMA OverTyped ==
    ASSUME NEW k \in Tasks, NEW phase \in {"closing", "failing"},
           NEW copy \in Rows \cup {NoRow}
    PROVE  /\ Over(k, phase, copy) \in Tasks
           /\ Over(k, phase, copy).res = k.res
           /\ Over(k, phase, copy).phase = phase
<1>1. k.res \in Resources /\ k.type \in TransitionTypes /\ phase \in Phases
  BY DEF Tasks, Phases
<1>2. NewTask(k.res, k.type) \in Tasks /\ NewTask(k.res, k.type).res = k.res
  BY <1>1, NewTaskTyped
<1> QED BY <1>1, <1>2 DEF Over, Tasks

\* One task takes the place of k.
LEMMA BecomeReplaces ==
    ASSUME NEW k, NEW next \in Tasks, Become(k, next), Copied(next),
           next.res = k.res, Active(next) => Active(k),
           next.phase # "failing" => k.phase # "failing"
    PROVE  Replaced(k)
<1>1. Continues(k, {next})
  BY DEF Continues
<1> QED BY <1>1 DEF Replaced, Become

\* A row a task saves.
LEMMA SavedRow ==
    ASSUME TypeOK, NEW k \in tasks, NEW copy \in Rows, Save(k, copy)
    PROVE  row' \in [Resources -> Rows]
  BY DEF TypeOK, Save, Tasks

\* log_resource_event in the middle of a try.
LEMMA LogAndGoReplaces ==
    ASSUME TypeInv, NEW k \in tasks, k.phase \in {"body", "verify"},
           NEW event \in EventTypes, NEW reason, LogAndGo(k, event, reason, "logged")
    PROVE  Replaced(k) /\ row' \in [Resources -> Rows]
<1> DEFINE copy == Log(k, event, reason)
<1>1. k \in Tasks /\ k.snap \in Rows /\ Active(k)
  BY TaskFields DEF Active
<1>2. copy \in Rows
  BY <1>1, LoggedRow DEF Log
<1>3. Save(k, copy) /\ Become(k, [k EXCEPT !.phase = "logged", !.snap = copy])
  BY DEF LogAndGo
<1> HIDE DEF copy
<1> DEFINE next == [k EXCEPT !.phase = "logged", !.snap = copy]
<1>4. next \in Tasks /\ next.phase = "logged" /\ next.snap = copy /\ next.res = k.res
  BY <1>1, <1>2 DEF Tasks, Phases
<1>5. Copied(next)
  BY <1>2, <1>4 DEF Copied
<1> HIDE DEF next
<1>6. Become(k, next)
  BY <1>3 DEF next
<1>7. Replaced(k)
  BY <1>1, <1>4, <1>5, <1>6, BecomeReplaces DEF Active
<1> QED BY <1>2, <1>3, <1>7, SavedRow DEF TypeInv

\* A failure takes the place of the task that failed.
LEMMA FailureReplaces ==
    ASSUME TypeInv, NEW k \in tasks, Active(k), NEW copy \in Rows \cup {NoRow},
           Become(k, Over(k, "failing", copy))
    PROVE  Replaced(k)
<1> DEFINE next == Over(k, "failing", copy)
<1>1. next \in Tasks /\ next.res = k.res /\ next.phase = "failing"
  BY TaskFields, OverTyped
<1> HIDE DEF next
<1>2. Copied(next) /\ ~Active(next)
  BY <1>1 DEF Copied, Active
<1> QED BY <1>1, <1>2, BecomeReplaces DEF next

\* TransitionTask.retry: waits for the next try, or fails.
LEMMA RetryReplaces ==
    ASSUME TypeInv, NEW k \in tasks, k.phase \in {"body", "verify", "logged"},
           NEW saved \in BOOLEAN, NEW event \in BOOLEAN,
           NEW side \in EventTypes \cup {None}, Retry(k, saved, event, side)
    PROVE  Replaced(k) /\ row' \in [Resources -> Rows]
<1>1. k \in Tasks /\ k.snap \in Rows /\ Active(k) /\ k.retries \in 0..(MaxRetries - 1)
  BY TaskFields DEF Active
<1>2. row \in [Resources -> Rows]
  BY DEF TypeInv, TypeOK
<1>3. CASE RetriesLeft(k)
  <2> DEFINE next == [k EXCEPT !.phase = "waiting", !.snap = NoRow, !.retries = @ + 1]
  <2>1. k.retries + 1 \in 0..(MaxRetries - 1)
    BY <1>1, <1>3, ConstantsAssumption DEF RetriesLeft
  <2>2. next \in Tasks /\ next.phase = "waiting" /\ next.res = k.res
    BY <1>1, <2>1 DEF Tasks, Phases
  <2>3. Become(k, next)
    BY <1>3 DEF Retry
  <2>4. Save(k, k.snap) \/ UNCHANGED row
    BY <1>3 DEF Retry
  <2> HIDE DEF next
  <2>5. Copied(next) /\ k.phase # "failing"
    BY <2>2 DEF Copied
  <2>6. Replaced(k)
    BY <1>1, <2>2, <2>3, <2>5, BecomeReplaces
  <2> QED BY <1>1, <1>2, <2>4, <2>6, SavedRow DEF TypeInv
<1>4. CASE ~RetriesLeft(k)
  <2> DEFINE copy == IF event /\ side # None THEN Log(k, side, "retries_exhausted") ELSE k.snap
  <2>1. copy \in Rows
    BY <1>1, LoggedRow DEF Log
  <2>2. Become(k, Over(k, "failing", copy)) /\ (Save(k, copy) \/ UNCHANGED row)
    BY <1>4 DEF Retry
  <2> HIDE DEF copy
  <2> QED BY <1>1, <1>2, <2>1, <2>2, FailureReplaces, SavedRow DEF TypeInv
<1> QED BY <1>3, <1>4

\* An exception that is not retried.
LEMMA RaiseReplaces ==
    ASSUME TypeInv, NEW k \in tasks, Active(k), Raise(k)
    PROVE  Replaced(k)
  BY FailureReplaces DEF Raise

-------------------------------------------------------------------------------
(* The steps of the tasks *)

TaskMove(k) ==
    /\ Replaced(k)
    /\ row' \in [Resources -> Rows]
    /\ provider' \in [Resources -> Existence]
    /\ refusals' \in 0..MaxRefusals
    /\ UNCHANGED <<daemon, wish, applies>>

LEMMA BeginMoves ==
    ASSUME TypeInv, NEW k \in tasks, Begin(k)
    PROVE  TaskMove(k)
<1> DEFINE next == [k EXCEPT !.phase = "body", !.snap = row[k.res]]
<1>1. k \in Tasks /\ k.res \in Resources /\ k.phase \in {"pending", "waiting"}
  BY TaskFields DEF Begin
<1>2. row[k.res] \in Rows
  BY <1>1 DEF TypeInv, TypeOK
<1>3. next \in Tasks /\ next.phase = "body" /\ next.snap = row[k.res] /\ next.res = k.res
  BY <1>1, <1>2 DEF Tasks, Phases
<1>4. Become(k, next)
  BY DEF Begin
<1> HIDE DEF next
<1>5. Copied(next) /\ Active(k)
  BY <1>1, <1>2, <1>3 DEF Copied, Active
<1>6. Replaced(k)
  BY <1>1, <1>3, <1>4, <1>5, BecomeReplaces
<1> QED BY <1>6 DEF TaskMove, Begin, TypeInv, TypeOK

\* Handover: the task that is left to close, and the next of its pipeline.
LEMMA HandoverMoves ==
    ASSUME TypeInv, NEW k \in tasks, Handover(k)
    PROVE  TaskMove(k)
<1> DEFINE over == Over(k, "closing", NoRow)
           rest == (tasks \ {k}) \cup {over}
<1>1. k.phase = "logged" /\ k.res \in Resources /\ k.type \in TransitionTypes /\ k \in Tasks
  BY TaskFields DEF Handover
<1>2. over \in Tasks /\ over.res = k.res /\ over.phase = "closing"
  BY <1>1, OverTyped
<1>3. Copied(over) /\ ~Active(over) /\ Active(k)
  BY <1>1, <1>2 DEF Copied, Active
<1>4. \/ tasks' = rest
      \/ \E type \in Successor[k.type] : tasks' = WithTransition(rest, k.res, type)
  BY DEF Handover
<1> HIDE DEF over
<1>5. ASSUME tasks' = rest
      PROVE  Replaced(k)
  <2>1. Continues(k, {over})
    BY <1>1, <1>2, <1>3 DEF Continues
  <2>2. tasks' = (tasks \ {k}) \cup {over}
    BY <1>5
  <2> QED BY <2>1, <2>2, ReplacedBy
<1>6. ASSUME NEW type \in Successor[k.type], tasks' = WithTransition(rest, k.res, type)
      PROVE  Replaced(k)
  <2> DEFINE next == NewTask(k.res, type)
  <2>1. type \in TransitionTypes
    BY <1>1 DEF Successor, TransitionTypes
  <2>2. next \in Tasks /\ next.res = k.res /\ next.phase = "pending"
    BY <1>1, <2>1, NewTaskTyped
  <2>3. tasks' = rest \/ tasks' = rest \cup {next}
    BY <1>6 DEF WithTransition
  <2> HIDE DEF next
  <2>4. Copied(next)
    BY <2>2 DEF Copied
  <2>5. Continues(k, {over}) /\ Continues(k, {over, next})
    BY <1>1, <1>2, <1>3, <2>2, <2>4 DEF Continues
  <2>6. tasks' = (tasks \ {k}) \cup {over} \/ tasks' = (tasks \ {k}) \cup {over, next}
    BY <2>3
  <2> QED BY <2>5, <2>6, ReplacedBy
<1>7. Replaced(k)
  BY <1>4, <1>5, <1>6
<1>8. UNCHANGED <<row, daemon, provider, wish, applies, refusals>>
  BY DEF Handover
<1> QED BY <1>7, <1>8 DEF TaskMove, TypeInv, TypeOK

\* The request was accepted: it is logged and memoized.
LEMMA RequestReplaces ==
    ASSUME TypeInv, NEW k \in tasks, k.phase = "body", NEW event \in EventTypes,
           Save(k, Log(k, event, None)),
           Become(k, [k EXCEPT !.phase = "verify", !.memo = TRUE])
    PROVE  Replaced(k) /\ row' \in [Resources -> Rows]
<1> DEFINE next == [k EXCEPT !.phase = "verify", !.memo = TRUE]
<1>1. k \in Tasks /\ k.snap \in Rows /\ Active(k)
  BY TaskFields DEF Active
<1>2. next \in Tasks /\ next.phase = "verify" /\ next.snap = k.snap /\ next.res = k.res
  BY <1>1 DEF Tasks, Phases
<1> HIDE DEF next
<1>3. Copied(next)
  BY <1>1, <1>2 DEF Copied
<1>4. Replaced(k)
  BY <1>1, <1>2, <1>3, BecomeReplaces DEF next
<1>5. Log(k, event, None) \in Rows
  BY <1>1, LoggedRow DEF Log
<1> QED BY <1>4, <1>5, SavedRow DEF TypeInv

\* What a task logs when all goes well.
LEMMA SuccessMoves ==
    ASSUME TypeInv, NEW k \in tasks,
           \/ DependenciesReady(k) \/ DependentsAbsent(k) \/ FoundBefore(k)
           \/ FoundAfter(k) \/ Healthy(k) \/ AbsentBefore(k) \/ AbsentAfter(k)
    PROVE  TaskMove(k)
<1>1. \E event \in EventTypes : \E reason :
          k.phase \in {"body", "verify"} /\ LogAndGo(k, event, reason, "logged")
  BY DEF DependenciesReady, DependentsAbsent, FoundBefore, FoundAfter, Healthy,
         AbsentBefore, AbsentAfter, EventTypes
<1>2. Replaced(k) /\ row' \in [Resources -> Rows]
  BY <1>1, LogAndGoReplaces
<1>3. UNCHANGED <<daemon, provider, wish, applies, refusals>>
  BY DEF DependenciesReady, DependentsAbsent, FoundBefore, FoundAfter, Healthy,
         AbsentBefore, AbsentAfter
<1> QED BY <1>2, <1>3 DEF TaskMove, TypeInv, TypeOK

LEMMA RequestMoves ==
    ASSUME TypeInv, NEW k \in tasks, CreateRequest(k) \/ DeleteRequest(k)
    PROVE  TaskMove(k)
<1>1. k.phase = "body" /\ Become(k, [k EXCEPT !.phase = "verify", !.memo = TRUE])
  BY DEF CreateRequest, DeleteRequest
<1>2. \E event \in EventTypes : Save(k, Log(k, event, None))
  BY DEF CreateRequest, DeleteRequest, EventTypes
<1>3. Replaced(k) /\ row' \in [Resources -> Rows]
  BY <1>1, <1>2, RequestReplaces
<1>4. provider' \in [Resources -> Existence]
  BY DEF CreateRequest, DeleteRequest, Existence, TypeInv, TypeOK
<1>5. UNCHANGED <<daemon, wish, applies, refusals>>
  BY DEF CreateRequest, DeleteRequest
<1> QED BY <1>3, <1>4, <1>5 DEF TaskMove, TypeInv, TypeOK

\* What a task does when something is amiss.
LEMMA TroubleMoves ==
    ASSUME TypeInv, NEW k \in tasks,
           \/ DependenciesPending(k) \/ DependentsPending(k) \/ NotYetFound(k)
           \/ NotHealthy(k) \/ NotYetAbsent(k) \/ MemoHit(k)
           \/ RequestRefused(k) \/ CallFails(k) \/ Unexpected(k)
    PROVE  TaskMove(k)
<1>1. k.phase \in {"body", "verify", "logged"} /\ Active(k)
  BY DEF DependenciesPending, DependentsPending, NotYetFound, NotHealthy, NotYetAbsent,
         MemoHit, NeedsRequest, RequestRefused, CallFails, Unexpected, Active
<1>2. \/ Raise(k) /\ UNCHANGED row
      \/ \E saved \in BOOLEAN, event \in BOOLEAN, side \in EventTypes \cup {None} :
            Retry(k, saved, event, side)
  <2>1. {"deletion_terminated", "health_checks_terminated"} \subseteq EventTypes
    BY DEF EventTypes
  <2>2. CASE DependenciesPending(k) \/ DependentsPending(k)
    BY <2>1, <2>2 DEF DependenciesPending, DependentsPending
  <2>3. CASE NotYetFound(k) \/ NotHealthy(k) \/ NotYetAbsent(k)
    BY <2>1, <2>3 DEF NotYetFound, NotHealthy, NotYetAbsent
  <2>4. CASE MemoHit(k) \/ CallFails(k) \/ Unexpected(k)
    BY <2>4 DEF MemoHit, CallFails, Unexpected
  <2>5. CASE RequestRefused(k)
    BY <2>1, <2>5 DEF RequestRefused
  <2> QED BY <2>2, <2>3, <2>4, <2>5
<1>3. Replaced(k) /\ row' \in [Resources -> Rows]
  BY <1>1, <1>2, RetryReplaces, RaiseReplaces DEF TypeInv, TypeOK
<1>4. UNCHANGED refusals \/ Refuse
  BY DEF DependenciesPending, DependentsPending, NotYetFound, NotHealthy, NotYetAbsent,
         MemoHit, RequestRefused, CallFails, Unexpected
<1>5. refusals' \in 0..MaxRefusals
  BY <1>4, ConstantsAssumption DEF Refuse, TypeInv, TypeOK
<1>6. UNCHANGED <<daemon, provider, wish, applies>>
  BY DEF DependenciesPending, DependentsPending, NotYetFound, NotHealthy, NotYetAbsent,
         MemoHit, RequestRefused, CallFails, Unexpected
<1> QED BY <1>3, <1>5, <1>6 DEF TaskMove, TypeInv, TypeOK

\* The ends of a task, and the memo of a request that expires.
LEMMA EndMoves ==
    ASSUME TypeInv, NEW k \in tasks,
           Complete(k) \/ Refetch(k) \/ Terminate(k) \/ MemoExpires(k)
    PROVE  TaskMove(k)
<1>1. k \in Tasks /\ k.res \in Resources /\ k.snap \in Rows \cup {NoRow}
  BY TaskFields
<1>2. row[k.res] \in Rows
  BY <1>1 DEF TypeInv, TypeOK
<1>3. UNCHANGED <<daemon, provider, wish, applies, refusals>>
  BY DEF Complete, Refetch, Terminate, MemoExpires
<1>4. ASSUME tasks' = tasks \ {k}
      PROVE  Replaced(k)
  <2>1. Continues(k, {}) /\ tasks' = (tasks \ {k}) \cup {}
    BY <1>4 DEF Continues
  <2> QED BY <2>1, ReplacedBy
<1>5. CASE Complete(k)
  BY <1>3, <1>4, <1>5 DEF Complete, TaskMove, TypeInv, TypeOK
<1>6. CASE Terminate(k)
  <2>1. k.snap \in Rows /\ "terminal_failure" \in EventTypes
    BY <1>1, <1>6 DEF Terminate, EventTypes
  <2>2. Log(k, "terminal_failure", "exception") \in Rows
    BY <2>1, LoggedRow DEF Log
  <2>3. row' \in [Resources -> Rows]
    BY <1>6, <2>2, SavedRow DEF Terminate, TypeInv
  <2> QED BY <1>3, <1>4, <1>6, <2>3 DEF Terminate, TaskMove, TypeInv, TypeOK
<1>7. CASE Refetch(k) \/ MemoExpires(k)
  <2>1. \E next \in Tasks :
            /\ Become(k, next) /\ next.res = k.res /\ next.phase = k.phase
            /\ k.phase \in {"failing", "waiting"}
    BY <1>1, <1>2, <1>7 DEF Refetch, MemoExpires, Tasks
  <2>2. Replaced(k)
    BY <2>1, BecomeReplaces DEF Active, Copied
  <2>3. UNCHANGED row
    BY <1>7 DEF Refetch, MemoExpires
  <2> QED BY <1>3, <2>2, <2>3 DEF TaskMove, TypeInv, TypeOK
<1> QED BY <1>5, <1>6, <1>7

LEMMA TaskMoves ==
    ASSUME TypeInv, NEW k \in tasks,
           \/ TaskStep(k) \/ Complete(k) \/ Refetch(k) \/ Terminate(k) \/ MemoExpires(k)
    PROVE  TaskMove(k)
  BY BeginMoves, HandoverMoves, SuccessMoves, RequestMoves, TroubleMoves, EndMoves
     DEF TaskStep

-------------------------------------------------------------------------------
(* The inductive invariant *)

\* What the daemon is about to create nothing exists for yet, although it
\* counted the transitions a while ago.
NothingTodo == daemon.at = "create" => \A r \in daemon.todo : Outstanding(r) = {}

Inv == TypeInv /\ SinglePipeline /\ NothingTodo

LEMMA InitInv == Init => Inv
<1> SUFFICES ASSUME Init PROVE Inv
  OBVIOUS
<1>1. [desired |-> None, state |-> "newborn_model", cause |-> None] \in Rows
  BY DEF Rows, DesiredStates, States
<1>2. row \in [Resources -> Rows] /\ wish \in [Resources -> DesiredStates]
  BY <1>1 DEF Init, DesiredStates
<1>3. provider \in [Resources -> Existence] /\ applies \in 0..MaxApplies
      /\ refusals \in 0..MaxRefusals
  BY ConstantsAssumption DEF Init, Existence
<1>4. tasks = {}
  BY DEF Init
<1>5. daemon \in [at : {"scan", "filter", "create"}, want : {"healthy", "deleted"},
                  todo : SUBSET Resources] /\ daemon.at = "scan"
  BY DEF Init
<1>6. TypeInv
  BY <1>2, <1>3, <1>4, <1>5 DEF TypeInv, TypeOK
<1>7. SinglePipeline /\ NothingTodo
  BY <1>4, <1>5 DEF SinglePipeline, NothingTodo
<1> QED BY <1>6, <1>7 DEF Inv

\* A task only makes room for what may follow it, so it neither adds a second
\* pipeline nor works where the daemon found nothing.
LEMMA TaskMoveKeepsInv ==
    ASSUME Inv, NEW k \in tasks, TaskMove(k)
    PROVE  Inv'
<1>1. PICK new : tasks' = (tasks \ {k}) \cup new /\ Continues(k, new)
  BY DEF TaskMove, Replaced
<1>2. TypeInv'
  <2>1. tasks' \subseteq Tasks /\ \A j \in tasks' : Copied(j)
    BY <1>1 DEF Continues, Inv, TypeInv, TypeOK
  <2> QED BY <2>1 DEF TaskMove, Inv, TypeInv, TypeOK
<1>3. SinglePipeline'
  <2> SUFFICES ASSUME NEW i \in tasks', NEW j \in tasks', i.res = j.res, Active(i), Active(j)
               PROVE  i = j
    BY DEF SinglePipeline, Active
  <2>1. \A a, b \in tasks : a.res = b.res /\ Active(a) /\ Active(b) => a = b
    BY DEF Inv, SinglePipeline, Active
  <2>2. CASE i \in new /\ j \in new
    BY <1>1, <2>2 DEF Continues
  <2>3. CASE i \in new /\ j \notin new
    <3>1. j \in tasks /\ j # k /\ k.res = j.res /\ Active(k)
      BY <1>1, <2>3 DEF Continues
    <3> QED BY <2>1, <3>1
  <2>4. CASE i \notin new /\ j \in new
    <3>1. i \in tasks /\ i # k /\ k.res = i.res /\ Active(k)
      BY <1>1, <2>4 DEF Continues
    <3> QED BY <2>1, <3>1
  <2>5. CASE i \notin new /\ j \notin new
    BY <1>1, <2>1, <2>5
  <2> QED BY <2>2, <2>3, <2>4, <2>5
<1>4. NothingTodo'
  <2> SUFFICES ASSUME daemon.at = "create", NEW r \in daemon.todo, NEW j \in tasks',
                      j.res = r, j.phase # "failing"
               PROVE  FALSE
    BY DEF NothingTodo, Outstanding, TaskMove
  <2>1. \A i \in tasks : i.res = r => i.phase = "failing"
    BY DEF Inv, NothingTodo, Outstanding
  <2> QED BY <1>1, <2>1 DEF Continues
<1> QED BY <1>2, <1>3, <1>4 DEF Inv

LEMMA DaemonKeepsInv ==
    ASSUME Inv, Daemon
    PROVE  Inv'
<1> DEFINE Stages == [at : {"scan", "filter", "create"}, want : {"healthy", "deleted"},
                      todo : SUBSET Resources]
<1>1. daemon \in Stages
  BY DEF Inv, TypeInv, TypeOK
<1>2. NextStage \in Stages /\ NextStage.at = "scan"
  BY <1>1 DEF NextStage, Other
<1> HIDE DEF NextStage
<1>3. UNCHANGED <<row, provider, wish, applies, refusals>>
  BY DEF Daemon, DaemonScan, DaemonFilter, DaemonCreate
<1>4. ASSUME daemon' \in Stages, UNCHANGED tasks
      PROVE  TypeInv' /\ SinglePipeline'
  BY <1>3, <1>4 DEF Inv, TypeInv, TypeOK, SinglePipeline
<1>5. CASE DaemonScan
  <2>1. daemon' \in Stages /\ daemon'.at # "create"
    BY <1>1, <1>2, <1>5 DEF DaemonScan
  <2>2. UNCHANGED tasks
    BY <1>5 DEF DaemonScan
  <2> QED BY <1>4, <2>1, <2>2 DEF Inv, NothingTodo
<1>6. CASE DaemonFilter
  <2> DEFINE free == {r \in daemon.todo : Outstanding(r) = {}}
  <2>1. UNCHANGED tasks
    BY <1>6 DEF DaemonFilter
  <2>2. daemon' = NextStage \/ daemon' = [daemon EXCEPT !.at = "create", !.todo = free]
    BY <1>6 DEF DaemonFilter
  <2>3. daemon' \in Stages
    BY <1>1, <1>2, <2>2
  <2>4. daemon'.at = "create" => daemon'.todo = free
    BY <1>1, <1>2, <2>2
  <2>5. NothingTodo'
    BY <2>1, <2>4 DEF NothingTodo, Outstanding
  <2> QED BY <1>4, <2>1, <2>3, <2>5 DEF Inv
<1>7. CASE DaemonCreate
  <2>1. PICK r \in daemon.todo :
            /\ tasks' = WithTransition(tasks, r, InitialType(r))
            /\ daemon' = IF daemon.todo = {r} THEN NextStage
                         ELSE [daemon EXCEPT !.todo = @ \ {r}]
    BY <1>7 DEF DaemonCreate
  <2>2. daemon.at = "create" /\ r \in Resources
    BY <1>1, <1>7 DEF DaemonCreate
  <2>3. \A s \in daemon.todo, k \in tasks : k.res = s => k.phase = "failing"
    BY <2>2 DEF Inv, NothingTodo, Outstanding
  <2>4. InitialType(r) \in TransitionTypes
    BY <1>1 DEF InitialType, TransitionTypes
  <2> DEFINE next == NewTask(r, InitialType(r))
  <2>5. next \in Tasks /\ next.res = r /\ next.phase = "pending"
    BY <2>2, <2>4, NewTaskTyped
  <2>6. tasks' = tasks \/ tasks' = tasks \cup {next}
    BY <2>1 DEF WithTransition
  <2> HIDE DEF next
  <2>7. daemon' \in Stages /\ (daemon'.at = "create" => daemon'.todo = daemon.todo \ {r})
    BY <1>1, <1>2, <2>1
  <2>8. TypeInv'
    <3>1. tasks' \subseteq Tasks /\ \A j \in tasks' : Copied(j)
      BY <2>5, <2>6 DEF Inv, TypeInv, TypeOK, Copied
    <3> QED BY <1>3, <2>7, <3>1 DEF Inv, TypeInv, TypeOK
  <2>9. SinglePipeline'
    BY <2>3, <2>5, <2>6 DEF Inv, SinglePipeline
  <2>10. NothingTodo'
    BY <2>3, <2>5, <2>6, <2>7 DEF NothingTodo, Outstanding
  <2> QED BY <2>8, <2>9, <2>10 DEF Inv
<1> QED BY <1>5, <1>6, <1>7 DEF Daemon

LEMMA UserKeepsInv ==
    ASSUME Inv, User
    PROVE  Inv'
<1>1. PICK S \in Files, d \in {"healthy", "deleted"} : Apply(S, d)
  BY DEF User
<1>2. \A r \in Resources :
        [row[r] EXCEPT !.desired = d, !.state = IF d = "healthy" THEN "declared" ELSE "unknown"]
            \in Rows
  <2> SUFFICES ASSUME NEW r \in Resources
               PROVE  [row[r] EXCEPT !.desired = d,
                         !.state = IF d = "healthy" THEN "declared" ELSE "unknown"] \in Rows
    OBVIOUS
  <2>1. row[r] \in Rows
    BY DEF Inv, TypeInv, TypeOK
  <2>2. d \in DesiredStates /\ {"declared", "unknown"} \subseteq States
    BY DEF DesiredStates, States
  <2> QED BY <2>1, <2>2 DEF Rows
<1>3. row' \in [Resources -> Rows]
  BY <1>1, <1>2 DEF Apply, Inv, TypeInv, TypeOK
<1>4. wish' \in [Resources -> DesiredStates]
  BY <1>1 DEF Apply, Inv, TypeInv, TypeOK, DesiredStates
<1>5. applies' \in 0..MaxApplies
  <2>1. applies \in 0..MaxApplies /\ MaxApplies \in Nat
    BY ConstantsAssumption DEF Inv, TypeInv, TypeOK
  <2>2. applies < MaxApplies /\ applies' = applies + 1
    BY <1>1 DEF Apply
  <2> QED BY <2>1, <2>2
<1>6. UNCHANGED <<tasks, daemon, provider, refusals>>
  BY <1>1 DEF Apply
<1> QED BY <1>3, <1>4, <1>5, <1>6
        DEF Inv, TypeInv, TypeOK, SinglePipeline, NothingTodo, Outstanding

LEMMA ProviderKeepsInv ==
    ASSUME Inv, NEW r \in Resources, Appear(r) \/ Vanish(r)
    PROVE  Inv'
<1>1. provider' \in [Resources -> Existence]
  BY DEF Appear, Vanish, Inv, TypeInv, TypeOK, Existence
<1>2. UNCHANGED <<row, tasks, daemon, wish, applies, refusals>>
  BY DEF Appear, Vanish
<1> QED BY <1>1, <1>2 DEF Inv, TypeInv, TypeOK, SinglePipeline, NothingTodo, Outstanding

LEMMA NextInv == Inv /\ [Next]_vars => Inv'
<1> SUFFICES ASSUME Inv, [Next]_vars PROVE Inv'
  OBVIOUS
<1>1. CASE User
  BY <1>1, UserKeepsInv
<1>2. CASE Daemon
  BY <1>2, DaemonKeepsInv
<1>3. ASSUME NEW r \in Resources, Appear(r) \/ Vanish(r)
      PROVE  Inv'
  BY <1>3, ProviderKeepsInv
<1>4. ASSUME NEW k \in tasks,
             \/ TaskStep(k) \/ Complete(k) \/ Refetch(k) \/ Terminate(k) \/ MemoExpires(k)
      PROVE  Inv'
  <2>1. TaskMove(k)
    BY <1>4, TaskMoves DEF Inv
  <2> QED BY <2>1, TaskMoveKeepsInv
<1>5. CASE UNCHANGED vars
  BY <1>5 DEF vars, Inv, TypeInv, TypeOK, SinglePipeline, NothingTodo, Outstanding
<1> QED BY <1>1, <1>2, <1>3, <1>4, <1>5 DEF Next, Work, Close, Report, TasksOf

\* The rows, tasks and scans of Reconcile hold what the code can put there,
\* whatever events are logged on whatever copy of a row.
THEOREM ReconcileTypeCorrect == Spec => []TypeOK
<1>1. Spec => []Inv
  BY InitInv, NextInv, PTL DEF Spec
<1>2. Inv => TypeOK
  BY DEF Inv, TypeInv
<1> QED BY <1>1, <1>2, PTL

\* No resource ever has two pipelines, however the reads of
\* create_missing_transitions, the hand-overs, retries and failures of the
\* tasks and the user's requests interleave.
THEOREM OnePipeline == Spec => []SinglePipeline
<1>1. Spec => []Inv
  BY InitInv, NextInv, PTL DEF Spec
<1>2. Inv => SinglePipeline
  BY DEF Inv
<1> QED BY <1>1, <1>2, PTL
===============================================================================
