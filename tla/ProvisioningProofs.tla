-------------------------- MODULE ProvisioningProofs --------------------------
(***************************************************************************)
(* What Provisioning keeps, for every number of slots, subnetworks, delays *)
(* and bounds: its types, the time a transition with a total_timeout is    *)
(* retried in, and the order in which transitions follow each other (while *)
(* one creates or deletes there is no other that does) with what the row   *)
(* and every copy of it may say of the object meanwhile: until an object   *)
(* is taken for deleted by mistake, or a stage is executed twice.          *)
(***************************************************************************)
EXTENDS Provisioning, TLAPS

Creating == {"base", "hook", "appear", "found"}
Checking == {"health", "healthy", "subnets", "insert"}

\* The places in a task where it has a copy of the row.
Reading == Working \ {"closing"}

PhaseOK(k) ==
    /\ k.pc # "free" => k.type \in Types /\ k.of \in 1..Slots
    /\ k.pc = "waiting" => k.retries # 0
    /\ k.pc \in Reading => k.copy \in Rows
    /\ k.pc \in Creating => k.type = "ensure_exists"
    /\ k.pc \in Checking => k.type = "ensure_healthy"
    /\ k.pc = "absence" => k.type = "ensure_deleted"
    /\ k.pc = "request" => k.type \in {"ensure_exists", "ensure_deleted"}
    /\ k.pc \in {"base", "hook"} => k.answer \in Links
    /\ k.pc = "insert" => k.cur \in Subnets
    /\ k.pc = "subnets" => k.links # {}

GoodTasks == {k \in Tasks : PhaseOK(k)}
TasksOK == tasks \in [1..Slots -> GoodTasks]
IType == TypeOK /\ TasksOK

Read(t) == tasks[t].pc \in Reading
Gone  == obj.status = "absent" \/ (kind = "instance" /\ obj.status = "stopping")
There == obj.status \in {"live", "hidden"}
Made  == obj.status \in {"pending", "live", "hidden"}

\* A creation that was accepted, and has not stored the identifiers yet; one
\* that has stored the selfLink of the operation.
Early(k)  == k.pc \in {"base", "hook"} /\ k.answer = "operation"
Hooked(k) == k.pc = "hook" /\ k.answer = "operation"

\* The state belongs to what is desired.
Decided(r) ==
    /\ r.desired = None => r.state = "newborn_model"
    /\ r.desired = "healthy" => r.state \in {"declared", "exists", "healthy", "creation_terminated"}
    /\ r.desired = "deleted" => r.state \in {"unknown", "deletion_failed", "deleted"}

\* r has the identifiers of the object that exists now.
Own(r) == r.link = "object" /\ r.self_id = obj.id

\* What holds of the row, and of every copy of it. A link that was torn is
\* that of an object nobody deletes.
RowOK(r) ==
    /\ Decided(r)
    /\ (r.state = "deleted" /\ r.link = "object") => Gone
    /\ r.state = "exists" => There
    /\ r.state = "healthy" => Own(r) /\ There /\ (kind = "network" => obj.subnets)
    /\ r.link = "operation" => Made

Watched == \E t \in Open : tasks[t].type = "ensure_healthy"

Deletes(type) == type \in {"ensure_deleted", "ensure_forward_dependencies_deleted"}

Purpose(t) ==
    /\ Deletes(tasks[t].type) => row.desired = "deleted"
    /\ ~Deletes(tasks[t].type) => row.desired = "healthy"

CopyOK(t) ==
    Read(t) =>
        /\ tasks[t].copy.desired = row.desired
        /\ RowOK(tasks[t].copy)
        /\ Watched => Own(tasks[t].copy)
        /\ tasks[t].type = "ensure_deleted" => tasks[t].copy.link = row.link
        /\ (tasks[t].copy.link = "operation" /\ ~torn) => Hooked(tasks[t])

\* healthy_hook of a network finds subnetworks, and leaves none out.
Covers(k) ==
    (kind = "network" /\ k.pc \in {"healthy", "subnets", "insert"}) =>
        /\ obj.subnets
        /\ k.pc = "subnets" => Subnets \subseteq subnetRows \cup k.links
        /\ k.pc = "insert" => Subnets \subseteq subnetRows \cup k.links \cup {k.cur}

\* The others, if any, have handed over.
Alone(t) == \A s \in Open \ {t} : Handed(tasks[s])

PlaceOK(t) ==
    /\ (tasks[t].type = "ensure_healthy" \/ tasks[t].pc = "found") => There
    /\ (tasks[t].type = "ensure_deleted" /\ tasks[t].pc = "request")
           => tasks[t].copy.link = "object"
    /\ Early(tasks[t]) => Alone(t) /\ Made /\ tasks[t].copy.state # "healthy"
    /\ Covers(tasks[t])

TaskOK(t) == Purpose(t) /\ CopyOK(t) /\ PlaceOK(t)

\* On the way to a creation or a deletion.
Builds(k) == k.type # "ensure_healthy" /\ ~Handed(k)

Single == \A s, t \in Open : Builds(tasks[s]) /\ Builds(tasks[t]) => s = t

\* Each transition has one execution.
Lone ==
    /\ \A t \in Open : tasks[t].of = t
    /\ \A s \in 1..Slots : ~trans[s].ended

\* SubnetsKnown, while something is under way.
Known ==
    (kind = "network" /\ row.state = "healthy") =>
        subnetRows = Subnets \/ \E t \in Open : tasks[t].pc # "closing"

Order ==
    /\ RowOK(row)
    /\ (obj.status = "stopping" /\ kind # "instance") => row.desired = "deleted"
    /\ obj.status = "hidden" => kind = "instance"
    /\ Watched => Own(row)
    /\ (row.link = "operation" /\ ~torn) => \E t \in Open : Hooked(tasks[t])
    /\ Known
    /\ \A t \in Open : TaskOK(t)
    /\ Single
    /\ Lone

\* From there on nothing is claimed but the types and the time of messages.
Exempt  == blind \/ doubled
InOrder == Exempt \/ Order

Inv == IType /\ TimeoutKept /\ InOrder

\* TimeoutKept of one task.
InTime(k) ==
    Timed(k) => \/ k.elapsed <= NetworkHealthy.total_timeout + RetryBackoffMax
                \/ k.elapsed >= Day

-------------------------------------------------------------------------------
(* Records and slots *)

LEMMA TaskTyped ==
    ASSUME IType, NEW t \in 1..Slots
    PROVE  tasks[t] \in GoodTasks /\ tasks[t] \in Tasks /\ PhaseOK(tasks[t])
BY DEF IType, TasksOK, GoodTasks

LEMMA FreeGood ==
    /\ Free \in GoodTasks /\ Free.pc = "free"
    /\ \A s \in 1..Slots, type \in Types :
          /\ New(s, type) \in GoodTasks
          /\ New(s, type).type = type /\ New(s, type).pc = "pending" /\ New(s, type).of = s
<1>1. Free \in Tasks /\ Free.pc = "free"
  BY ConstantsAssumption DEF Free, Tasks, Types, Idle, Working, None
<1>2. ASSUME NEW s \in 1..Slots, NEW type \in Types
      PROVE  /\ New(s, type) \in Tasks
             /\ New(s, type).type = type /\ New(s, type).pc = "pending" /\ New(s, type).of = s
  <2>1. PICK m : m = [Free EXCEPT !.of = s]
    OBVIOUS
  <2>2. m \in Tasks /\ m.of = s
    BY <1>1, <2>1 DEF Tasks
  <2>3. PICK n : n = [m EXCEPT !.type = type]
    OBVIOUS
  <2>4. n \in Tasks /\ n.of = s /\ n.type = type
    BY <2>2, <2>3 DEF Tasks
  <2>5. New(s, type) = [n EXCEPT !.pc = "pending"]
    BY <2>1, <2>3 DEF New
  <2> QED BY <2>4, <2>5 DEF Tasks, Idle
<1> QED
  BY <1>1, <1>2
     DEF GoodTasks, PhaseOK, Reading, Working, Creating, Checking

LEMMA MessageTyped ==
    ASSUME NEW k \in Tasks, NEW pc \in {"queued", "closing"}, k.type \in Types, k.of \in 1..Slots
    PROVE  /\ Message(k, pc) \in GoodTasks
           /\ Message(k, pc).pc = pc /\ Message(k, pc).type = k.type /\ Message(k, pc).of = k.of
           /\ Message(k, pc).retries = k.retries /\ Message(k, pc).elapsed = k.elapsed
<1> DEFINE m == Message(k, pc)
<1>1. /\ m \in Tasks /\ m.pc = pc /\ m.type = k.type /\ m.of = k.of
      /\ m.retries = k.retries /\ m.elapsed = k.elapsed
  BY DEF Message, Tasks, Idle, Working, None
<1> HIDE DEF m
<1>2. PhaseOK(m)
  BY <1>1 DEF PhaseOK, Reading, Working, Creating, Checking
<1> QED BY <1>1, <1>2 DEF GoodTasks, m

LEMMA LaterTyped ==
    ASSUME NEW k \in Tasks, k.type \in Types, k.of \in 1..Slots, NEW secs \in Nat
    PROVE  /\ Later(k, secs) \in GoodTasks
           /\ Later(k, secs).pc = "waiting" /\ Later(k, secs).type = k.type
           /\ Later(k, secs).of = k.of
           /\ Later(k, secs).elapsed = IF Timed(k) THEN k.elapsed + secs ELSE k.elapsed
<1> DEFINE m == Message(k, "waiting")
           e == IF Timed(k) THEN k.elapsed + secs ELSE k.elapsed
           n == Later(k, secs)
<1>1. m \in Tasks /\ m.pc = "waiting" /\ m.type = k.type /\ m.of = k.of
  BY DEF Message, Tasks, Idle, Working, None
<1>2. k.retries + 1 \in Nat \ {0} /\ e \in Nat
  BY DEF Tasks
<1> HIDE DEF m, e
<1>3. n = [m EXCEPT !.retries = k.retries + 1, !.elapsed = e]
  BY DEF Later, m, e
<1> HIDE DEF n
<1>4. /\ n \in Tasks /\ n.pc = "waiting" /\ n.type = k.type /\ n.of = k.of /\ n.elapsed = e
      /\ n.retries # 0
  BY <1>1, <1>2, <1>3 DEF Tasks
<1>5. PhaseOK(n)
  BY <1>4 DEF PhaseOK, Reading, Working, Creating, Checking
<1> QED BY <1>4, <1>5 DEF GoodTasks, n, e

\* A transition that is created gets a slot that is free.
LEMMA SlotFree ==
    ASSUME Vacant # {}
    PROVE  Slot \in 1..Slots /\ Slot \notin Open
BY DEF Slot, Vacant

\* Task t becomes k, and a transition that had one execution has no other.
Moved(t, k) ==
    /\ tasks' = [tasks EXCEPT ![t] = k]
    /\ trans' \in Transitions
    /\ Lone => \A s \in 1..Slots : ~trans'[s].ended

LEMMA PutMoves ==
    ASSUME IType, NEW t, NEW k, Put(t, k)
    PROVE  Moved(t, k)
BY DEF IType, TypeOK, Put, Moved, Lone

LEMMA EndMoves ==
    ASSUME IType, NEW t \in Open, End(t)
    PROVE  Moved(t, Free)
<1>1. PICK i \in 1..Slots : i = tasks[t].of
  BY TaskTyped DEF Open, PhaseOK
<1>2. trans \in Transitions
  BY DEF IType, TypeOK
<1>3. PICK new : /\ new = IF \E u \in Open \ {t} : tasks[u].of = i
                           THEN [ended |-> TRUE, memo |-> trans[i].memo] ELSE Fresh
                 /\ trans' = [trans EXCEPT ![i] = new]
  BY <1>1 DEF End, Without
<1>4. new \in [ended : BOOLEAN, memo : BOOLEAN]
  BY <1>2, <1>3 DEF Transitions, Fresh
<1>5. Lone => ~new.ended
  BY <1>1, <1>3 DEF Lone, Fresh
<1>6. trans' \in Transitions
  BY <1>2, <1>3, <1>4 DEF Transitions
<1>7. Lone => \A s \in 1..Slots : ~trans'[s].ended
  BY <1>2, <1>3, <1>5 DEF Lone, Transitions
<1> QED BY <1>6, <1>7 DEF End, Moved

-------------------------------------------------------------------------------
(* Retries *)

LEMMA BackoffBounded ==
    ASSUME NEW factor \in Nat, NEW retries \in Nat
    PROVE  Backoff(factor, retries) \in 0..RetryBackoffMax
<1>1. factor * 2 ^ retries \in Int
  OBVIOUS
<1> DEFINE x == factor * 2 ^ retries
<1> HIDE DEF x
<1>2. Larger(0, Smaller(300, x)) \in 0..300
  BY <1>1 DEF Larger, Smaller, x
<1> QED BY <1>2 DEF Backoff, RetryBackoffMin, RetryBackoffMax, x

LEMMA StandardParams ==
    ASSUME NEW type \in Types
    PROVE  /\ RETRY_PARAMS[type].retry_backoff = NotGiven
           /\ RETRY_PARAMS[type].default_retry_delay = 15
           /\ RETRY_PARAMS[type].total_timeout = NotGiven
<1>1. RETRY_PARAMS[type] \in {Every15s(5), Every15s(6)}
  BY DEF RETRY_PARAMS, Types, FirstStages
<1>2. ASSUME NEW tries
      PROVE  /\ Every15s(tries).retry_backoff = NotGiven
             /\ Every15s(tries).default_retry_delay = 15
             /\ Every15s(tries).total_timeout = NotGiven
  BY DEF Every15s
<1> QED BY <1>1, <1>2

LEMMA CountdownBounded ==
    ASSUME NEW type \in Types, NEW retries \in Nat
    PROVE  Countdown(RetryParams(kind, type), retries) \in 0..RetryBackoffMax
<1>1. CASE kind = "network" /\ type = "ensure_healthy"
  BY <1>1, BackoffBounded DEF Countdown, RetryParams, NetworkHealthy, NotGiven
<1>2. CASE ~(kind = "network" /\ type = "ensure_healthy")
  <2>1. RetryParams(kind, type) = RETRY_PARAMS[type]
    BY <1>2 DEF RetryParams
  <2>2. /\ RETRY_PARAMS[type].retry_backoff = NotGiven
        /\ RETRY_PARAMS[type].default_retry_delay = 15
    BY StandardParams
  <2> QED BY <2>1, <2>2 DEF Countdown, RetryBackoffMax
<1> QED BY <1>1, <1>2

\* What is retried is young, or older than a day.
LEMMA RetryInTime ==
    ASSUME NEW k \in Tasks, k.type \in Types, k.of \in 1..Slots, NEW secs \in 0..RetryBackoffMax,
           ~GivesUp(RetryParams(kind, k.type), k.retries, TaskAge(k.elapsed))
    PROVE  InTime(Later(k, secs))
<1> DEFINE n == Later(k, secs)
<1>0. secs \in Nat
  BY DEF RetryBackoffMax
<1>1. n.type = k.type /\ n.elapsed = IF Timed(k) THEN k.elapsed + secs ELSE k.elapsed
  BY <1>0, LaterTyped
<1>2. Timed(n) <=> Timed(k)
  BY <1>1 DEF Timed
<1> HIDE DEF n
<1>3. CASE Timed(k)
  <2>1. RetryParams(kind, k.type).total_timeout = 4200
    BY <1>3, StandardParams DEF Timed, RetryParams, NetworkHealthy
  <2>2. k.elapsed % 86400 <= 4200
    BY <2>1 DEF GivesUp, TaskAge, Day, NotGiven, Tasks
  <2>3. k.elapsed <= 4200 \/ k.elapsed >= 86400
    BY <2>2 DEF Tasks
  <2>4. n.elapsed <= 4500 \/ n.elapsed >= 86400
    BY <1>0, <1>1, <1>3, <2>3 DEF Tasks, RetryBackoffMax
  <2> QED BY <2>4 DEF InTime, NetworkHealthy, RetryBackoffMax, Day, n
<1>4. CASE ~Timed(k)
  BY <1>2, <1>4 DEF InTime, n
<1> QED BY <1>3, <1>4 DEF n

-------------------------------------------------------------------------------
(* The end of a try *)

\* The row after a try of task t has ended without a success: as it is or as
\* the try knows it, with what the end logs.
Left(t) ==
    /\ row' \in Rows
    /\ \E r \in Rows :
          /\ r = row \/ (Read(t) /\ r = tasks[t].copy)
          /\ row'.desired = r.desired /\ row'.link = r.link /\ row'.self_id = r.self_id
          /\ \/ row'.state = r.state
             \/ Deletes(tasks[t].type) /\ row'.state = "deletion_failed"
             \/ ~Deletes(tasks[t].type) /\ row'.state = "creation_terminated"

\* It is repeated, or its end is logged, where there is an event for that.
Ended(t) ==
    /\ Left(t)
    /\ \E k \in GoodTasks :
          /\ Moved(t, k)
          /\ k.pc = "waiting" => InTime(k)
          /\ \/ /\ k.pc = "free"
                /\ Deletes(tasks[t].type) \/ row'.state = "creation_terminated"
             \/ k.type = tasks[t].type /\ k.of = tasks[t].of /\ k.pc = "waiting"

Excs == {"http", "retry"}

\* r, up to the state.
Alike(e, r) == e.desired = r.desired /\ e.link = r.link /\ e.self_id = r.self_id

LEMMA TerminatedTyped ==
    ASSUME NEW r \in Rows, NEW type \in Types
    PROVE  /\ Terminated(type, r) \in Rows
           /\ Alike(Terminated(type, r), r)
           /\ IF Deletes(type) THEN Terminated(type, r).state = r.state
              ELSE Terminated(type, r).state = "creation_terminated"
BY DEF Terminated, Rows, States, Alike, Deletes

LEMMA UnexpectedEnds ==
    ASSUME IType, NEW t \in Open, Unexpected(t)
    PROVE  Ended(t)
<1>1. row \in Rows
  BY DEF IType, TypeOK
<1>2. PICK type \in Types : type = tasks[t].type
  BY TaskTyped DEF Open, PhaseOK
<1>3. Moved(t, Free) /\ row' = Terminated(type, row)
  BY <1>2, EndMoves DEF Unexpected
<1>4. /\ row' \in Rows /\ Alike(row', row)
      /\ IF Deletes(type) THEN row'.state = row.state
         ELSE row'.state = "creation_terminated"
  <2>1. PICK e : e = Terminated(type, row)
    OBVIOUS
  <2> QED BY <1>1, <1>3, <2>1, TerminatedTyped
<1>5. Left(t)
  BY <1>1, <1>2, <1>4 DEF Left, Alike
<1> QED BY <1>2, <1>3, <1>4, <1>5, FreeGood DEF Ended

LEMMA ExhaustedTyped ==
    ASSUME NEW k \in Tasks, k.type \in Types, k.copy \in Rows, NEW exc \in Excs,
           NEW e, e = Exhausted(k, exc)
    PROVE  /\ e \in Rows
           /\ Alike(e, k.copy)
           /\ \/ Deletes(k.type) /\ e.state \in {k.copy.state, "deletion_failed"}
              \/ ~Deletes(k.type) /\ e.state = "creation_terminated"
<1>1. CASE exc = "retry" /\ k.type = "ensure_deleted"
  <2>1. e = [k.copy EXCEPT !.state = "deletion_failed"]
    BY <1>1 DEF Exhausted
  <2>2. e \in Rows /\ Alike(e, k.copy) /\ e.state = "deletion_failed"
    BY <2>1 DEF Rows, States, Alike
  <2> QED BY <1>1, <2>2 DEF Deletes
<1>2. CASE ~(exc = "retry" /\ k.type = "ensure_deleted")
  BY <1>2, TerminatedTyped DEF Exhausted
<1> QED BY <1>1, <1>2

\* A try that fails is repeated, or was the last one.
LEMMA RetryEnds ==
    ASSUME IType, NEW t \in Open, Read(t), NEW exc \in Excs, Retry(t, exc)
    PROVE  Ended(t)
<1>1. /\ tasks[t].type \in Types /\ row \in Rows /\ tasks[t].copy \in Rows
      /\ tasks[t] \in Tasks /\ tasks[t].retries \in Nat /\ tasks[t].of \in 1..Slots
  BY TaskTyped DEF Open, PhaseOK, Read, IType, TypeOK, Tasks
<1>2. PICK k : k = tasks[t]
  OBVIOUS
<1>3. PICK secs \in 0..RetryBackoffMax :
         secs = Countdown(RetryParams(kind, k.type), k.retries)
  BY <1>1, <1>2, CountdownBounded
<1>4. CASE GivesUp(RetryParams(kind, k.type), k.retries, TaskAge(k.elapsed))
  <2>1. PICK e : e = Exhausted(k, exc)
    OBVIOUS
  <2>2. Moved(t, Free) /\ row' = e
    BY <1>2, <1>4, <2>1, EndMoves DEF Retry, RetryIn
  <2>3. /\ e \in Rows /\ Alike(e, k.copy)
        /\ \/ Deletes(k.type) /\ e.state \in {k.copy.state, "deletion_failed"}
           \/ ~Deletes(k.type) /\ e.state = "creation_terminated"
    BY <1>1, <1>2, <2>1, ExhaustedTyped
  <2>4. Left(t)
    BY <1>1, <1>2, <2>2, <2>3 DEF Left, Alike
  <2> QED BY <1>2, <2>2, <2>3, <2>4, FreeGood DEF Ended
<1>5. CASE ~GivesUp(RetryParams(kind, k.type), k.retries, TaskAge(k.elapsed))
  <2>1. Moved(t, Later(k, secs)) /\ row' \in {row, k.copy}
    BY <1>2, <1>3, <1>5, PutMoves DEF Retry, RetryIn
  <2>2. Left(t)
    BY <1>1, <1>2, <2>1 DEF Left
  <2>3. /\ Later(k, secs) \in GoodTasks /\ Later(k, secs).pc = "waiting"
        /\ Later(k, secs).type = k.type /\ Later(k, secs).of = k.of
    BY <1>1, <1>2, LaterTyped DEF RetryBackoffMax
  <2>4. InTime(Later(k, secs))
    BY <1>1, <1>2, <1>5, RetryInTime
  <2> QED BY <1>2, <2>1, <2>2, <2>3, <2>4 DEF Ended
<1> QED BY <1>4, <1>5

-------------------------------------------------------------------------------
(* One step of one task *)

\* The variables a step of a task has no part in, and the types of the others.
Frame ==
    /\ kind' = kind /\ applies' = applies
    /\ obj' \in [status : Statuses, id : Nat, subnets : BOOLEAN]
    /\ subnetRows \subseteq subnetRows' /\ subnetRows' \subseteq Subnets
    /\ {others', torn', blind', doubled'} \subseteq BOOLEAN
    /\ torn => torn'
    /\ Exempt => Exempt'
    /\ faults' \in 0..MaxFaults[kind]

Stopping == [obj EXCEPT !.status = "stopping"]

\* Steps leave the object alone, or create one where nothing else is under way,
\* or begin a deletion that is wanted.
Calm(t) ==
    \/ obj' = obj
    \/ /\ tasks[t].type = "ensure_exists" /\ Alone(t)
       /\ obj.status = "absent" /\ obj' = Created
    \/ /\ tasks[t].type = "ensure_deleted" /\ tasks[t].pc = "request"
       /\ Made /\ obj' = Stopping

\* What a step of t that leaves it as k has to see to.
Allowed(t, k) ==
    /\ Calm(t) /\ ~Handed(tasks[t])
    /\ k.pc = "free" \/ (k.type = tasks[t].type /\ k.of = tasks[t].of)
    /\ row'.desired = row.desired
    /\ RowOK(row)'
    /\ Watched => Own(row)'
    /\ (row'.link = "operation" /\ ~torn') => Hooked(k)
    /\ (kind = "network" /\ row'.state = "healthy") =>
          \/ subnetRows' = Subnets
          \/ k.pc \notin {"free", "closing"}
          \/ tasks[t].pc = "closing" /\ row'.state = row.state
          \/ \E s \in Open \ {t} : tasks[s].pc # "closing"
    /\ k.pc \in Reading =>
          /\ k.copy.desired = row.desired
          /\ RowOK(k.copy)'
          /\ Watched => Own(k.copy)'
          /\ k.type = "ensure_deleted" => k.copy.link = row'.link
          /\ (k.copy.link = "operation" /\ ~torn') => Hooked(k)
    /\ k.pc = "found" => There'
    /\ (k.type = "ensure_deleted" /\ k.pc = "request") => k.copy.link = "object"
    /\ Early(k) => Alone(t) /\ Made' /\ k.copy.state # "healthy"
    /\ Covers(k)'

\* One that has handed over has nothing to do with the row any more.
LEMMA HandedOut ==
    ASSUME IType, NEW t \in Open, Handed(tasks[t])
    PROVE  /\ ~Read(t) /\ ~Early(tasks[t]) /\ ~Hooked(tasks[t])
           /\ Covers(tasks[t]) /\ PlaceOK(t) /\ CopyOK(t)
           /\ tasks[t].type \in FirstStages /\ tasks[t].pc = "closing"
BY DEF Handed, FirstStages, Read, Reading, Working, Early, Hooked, Covers, PlaceOK, CopyOK

LEMMA MovedTyped ==
    ASSUME IType, NEW t \in 1..Slots, NEW k \in GoodTasks, Moved(t, k)
    PROVE  /\ tasks' \in [1..Slots -> GoodTasks]
           /\ tasks'[t] = k
           /\ \A s \in (1..Slots) \ {t} : tasks'[s] = tasks[s]
BY DEF Moved, IType, TasksOK, GoodTasks

\* The types, and the time a message waits.
LEMMA TypesKept ==
    ASSUME Inv, Frame, row' \in Rows, trans' \in Transitions,
           tasks' \in [1..Slots -> GoodTasks],
           \A s \in 1..Slots :
              tasks'[s] = tasks[s] \/ (tasks'[s].pc = "waiting" => InTime(tasks'[s]))
    PROVE  IType' /\ TimeoutKept'
<1>1. kind' = kind /\ tasks' \in [1..Slots -> Tasks]
  BY DEF Frame, GoodTasks
<1>2. IType'
  BY <1>1 DEF Inv, IType, TypeOK, TasksOK, Frame
<1>3. TimeoutKept'
  <2>1. SUFFICES ASSUME NEW s \in 1..Slots, tasks'[s].pc = "waiting" PROVE InTime(tasks[s])'
    BY DEF TimeoutKept, InTime, Open, At
  <2>2. CASE tasks'[s] = tasks[s]
    <3>1. InTime(tasks[s])
      BY <2>1, <2>2 DEF Inv, TimeoutKept, InTime, Open, At
    <3> QED BY <1>1, <2>2, <3>1 DEF InTime, Timed
  <2>3. CASE InTime(tasks'[s])
    BY <1>1, <2>3 DEF InTime, Timed
  <2> QED BY <2>1, <2>2, <2>3
<1> QED BY <1>2, <1>3

\* While the row can still be seen with the selfLink of an operation, nobody but
\* the one that is at the hook takes a step, if no worker was lost there.
LEMMA LinkOfRow ==
    ASSUME Order, ~torn, NEW t \in Open, ~Hooked(tasks[t]), ~Handed(tasks[t])
    PROVE  row.link # "operation"
<1> SUFFICES ASSUME row.link = "operation" PROVE FALSE
  OBVIOUS
<1>1. PICK s \in Open : Hooked(tasks[s])
  BY DEF Order
<1>2. Alone(s)
  BY <1>1 DEF Order, TaskOK, PlaceOK, Early, Hooked
<1> QED BY <1>1, <1>2 DEF Alone

\* What a creation or a deletion does to the object is no news to the row and
\* its copies.
LEMMA CalmKeeps ==
    ASSUME IType, Order, NEW t \in Open, Calm(t), kind' = kind, NEW r,
           r.desired = row.desired, RowOK(r),
           tasks[t].type = "ensure_deleted" /\ tasks[t].pc = "request" => r.link = "object"
    PROVE  /\ RowOK(r)'
           /\ Watched /\ Own(r) => Own(r)'
<1>1. Purpose(t)
  BY DEF Order, TaskOK
<1>2. CASE obj' = obj
  BY <1>2 DEF RowOK, Decided, Own, Gone, There, Made
<1>3. CASE /\ tasks[t].type = "ensure_exists" /\ Alone(t)
           /\ obj.status = "absent" /\ obj' = Created
  <2>1. obj'.status = "pending" /\ ~Watched
    BY <1>3 DEF Created, Watched, Alone, Handed, FirstStages
  <2>2. r.state \notin {"deleted", "healthy", "exists"}
    BY <1>1, <1>3 DEF Purpose, Deletes, RowOK, Decided, There
  <2> QED BY <2>1, <2>2 DEF RowOK, Decided, Made
<1>4. CASE /\ tasks[t].type = "ensure_deleted" /\ tasks[t].pc = "request"
           /\ Made /\ obj' = Stopping
  <2>1. obj'.id = obj.id
    BY <1>4 DEF Stopping, IType, TypeOK
  <2>2. r.state \notin {"deleted", "healthy", "exists"} /\ r.link = "object"
    BY <1>1, <1>4 DEF Purpose, Deletes, RowOK, Decided, Gone, Made
  <2> QED BY <2>1, <2>2 DEF RowOK, Decided, Own
<1> QED BY <1>2, <1>3, <1>4 DEF Calm

\* One that goes on while t does leaves the object alone.
LEMMA CalmForOthers ==
    ASSUME IType, Order, NEW t \in Open, Calm(t), ~Handed(tasks[t]),
           NEW s \in Open, s # t, ~Handed(tasks[s])
    PROVE  obj' = obj /\ tasks[s].type # "ensure_deleted"
<1>1. Purpose(t) /\ Purpose(s)
  BY DEF Order, TaskOK
<1>2. ~(Builds(tasks[s]) /\ Builds(tasks[t]))
  BY DEF Order, Single
<1>3. tasks[s].type # "ensure_deleted"
  BY <1>1, <1>2 DEF Purpose, Deletes, Builds
<1>4. tasks[t].type # "ensure_deleted"
  BY <1>1, <1>2 DEF Purpose, Deletes, Builds
<1>5. ~Alone(t)
  BY DEF Alone
<1> QED BY <1>3, <1>4, <1>5 DEF Calm

LEMMA OrderKept ==
    ASSUME IType, Order, NEW t \in Open, NEW k \in GoodTasks, Moved(t, k), Frame,
           Allowed(t, k)
    PROVE  Order'
<1>1. /\ t \in 1..Slots /\ tasks'[t] = k
      /\ \A s \in (1..Slots) \ {t} : tasks'[s] = tasks[s]
  BY MovedTyped DEF Open
<1>2. Open' \subseteq Open /\ Open \ {t} \subseteq Open' /\ (t \in Open' <=> k.pc # "free")
  BY <1>1 DEF Open
<1>3. TaskOK(t) /\ Calm(t)
  BY DEF Order, Allowed
<1>4. \A s \in Open' : s \in Open /\ tasks'[s].type = tasks[s].type
  BY <1>1, <1>2 DEF Allowed, Open
<1>5. Watched' => Watched
  BY <1>4 DEF Watched
<1>6. RowOK(row)' /\ (Watched => Own(row))'
  BY <1>5 DEF Allowed
<1>7. (obj.status = "stopping" /\ kind # "instance")' => row'.desired = "deleted"
  BY <1>3 DEF Allowed, Frame, Calm, Created, Order, TaskOK, Purpose, Deletes
<1>8. (obj.status = "hidden" => kind = "instance")'
  BY <1>3 DEF Frame, Calm, Created, Stopping, Order, IType, TypeOK
<1>9. (row'.link = "operation" /\ ~torn') => \E s \in Open' : Hooked(tasks[s])'
  <2>1. SUFFICES ASSUME row'.link = "operation", ~torn'
                 PROVE  t \in Open' /\ Hooked(tasks[t])'
    OBVIOUS
  <2>2. Hooked(k)
    BY <2>1 DEF Allowed
  <2> QED BY <1>1, <1>2, <2>2 DEF Hooked
<1>10. Known'
  <2>1. SUFFICES ASSUME kind = "network", row'.state = "healthy", subnetRows' # Subnets
                 PROVE  \E s \in Open' : tasks'[s].pc # "closing"
    BY DEF Known, Frame
  <2>2. CASE k.pc \notin {"free", "closing"}
    BY <1>1, <1>2, <2>2
  <2>4. ASSUME NEW s \in Open \ {t}, tasks[s].pc # "closing"
        PROVE  \E u \in Open' : tasks'[u].pc # "closing"
    BY <1>1, <1>2, <2>4 DEF Open
  <2>3. CASE tasks[t].pc = "closing" /\ row'.state = row.state
    <3>1. subnetRows # Subnets
      BY <2>1 DEF Frame
    <3>2. PICK s \in Open : tasks[s].pc # "closing"
      BY <2>1, <2>3, <3>1 DEF Order, Known
    <3> QED BY <2>3, <2>4, <3>2
  <2> QED BY <2>1, <2>2, <2>3, <2>4 DEF Allowed
<1>11. ASSUME NEW s \in Open' PROVE TaskOK(s)'
  <2>1. CASE s = t
    <3>1. k.type = tasks[t].type /\ tasks'[s] = k
      BY <1>1, <1>2, <2>1 DEF Allowed
    <3>2. Purpose(s)'
      BY <1>3, <2>1, <3>1 DEF Allowed, TaskOK, Purpose
    <3>3. CopyOK(s)'
      <4>1. SUFFICES ASSUME k.pc \in Reading
                     PROVE  /\ k.copy.desired = row'.desired
                            /\ RowOK(k.copy)'
                            /\ Watched' => Own(k.copy)'
                            /\ k.type = "ensure_deleted" => k.copy.link = row'.link
                            /\ (k.copy.link = "operation" /\ ~torn') => Hooked(k)
        BY <3>1 DEF CopyOK, Read, RowOK, Decided, Own, Hooked
      <4> QED BY <1>5, <4>1 DEF Allowed
    <3>4. (tasks'[s].type = "ensure_healthy" \/ tasks'[s].pc = "found") => There'
      BY <1>3, <3>1 DEF Allowed, Calm, TaskOK, PlaceOK, There
    <3>5. (tasks[s].type = "ensure_deleted" /\ tasks[s].pc = "request")'
              => tasks'[s].copy.link = "object"
      BY <3>1 DEF Allowed
    <3>6. Early(tasks[s])' => Alone(s)' /\ Made' /\ tasks'[s].copy.state # "healthy"
      <4>1. Alone(t) => Alone(t)'
        BY <1>1, <1>2 DEF Alone, Open, Handed
      <4> QED BY <2>1, <3>1, <4>1 DEF Allowed, Early
    <3>7. Covers(tasks[s])'
      BY <3>1 DEF Allowed, Covers
    <3> QED BY <3>2, <3>3, <3>4, <3>5, <3>6, <3>7 DEF TaskOK, PlaceOK
  <2>2. CASE s # t
    <3>1. s \in Open /\ s \in 1..Slots /\ tasks'[s] = tasks[s] /\ TaskOK(s)
      BY <1>1, <1>2, <2>2 DEF Open, Order
    <3>2. Purpose(s)'
      BY <3>1 DEF Allowed, TaskOK, Purpose
    <3>3. CASE Handed(tasks[s])
      BY <3>1, <3>2, <3>3
         DEF TaskOK, CopyOK, PlaceOK, Covers, Read, Reading, Working, Early, Handed, FirstStages
    <3>4. CASE ~Handed(tasks[s])
      <4>1. obj' = obj /\ tasks[s].type # "ensure_deleted"
        BY <1>3, <2>2, <3>1, <3>4, CalmForOthers DEF Allowed
      <4>2. CopyOK(s)'
        BY <1>5, <3>1, <4>1
           DEF Allowed, Frame, TaskOK, CopyOK, Read, RowOK, Decided, Own, Gone, There, Made, Hooked
      <4>3. ~Early(tasks[s])
        BY <2>2, <3>1 DEF Allowed, TaskOK, PlaceOK, Alone
      <4>4. Covers(tasks[s])'
        BY <3>1, <4>1 DEF Frame, TaskOK, PlaceOK, Covers
      <4>5. PlaceOK(s)'
        BY <3>1, <4>1, <4>3, <4>4 DEF TaskOK, PlaceOK, There, Early
      <4> QED BY <3>2, <4>2, <4>5 DEF TaskOK
    <3> QED BY <3>3, <3>4
  <2> QED BY <2>1, <2>2
<1>12. Single'
  <2>1. \A s \in Open' : s \in Open /\ (Builds(tasks'[s]) => Builds(tasks[s]))
    BY <1>1, <1>4 DEF Allowed, Builds, Open
  <2> QED BY <2>1 DEF Order, Single, Builds, Handed
<1>13. Lone'
  <2>1. \A s \in Open' : tasks'[s].of = s
    BY <1>1, <1>2 DEF Allowed, Order, Lone, Open
  <2> QED BY <2>1 DEF Order, Moved, Lone
<1> QED BY <1>6, <1>7, <1>8, <1>9, <1>10, <1>11, <1>12, <1>13 DEF Order

LEMMA MoveKeeps ==
    ASSUME Inv, NEW t \in Open, NEW k \in GoodTasks, Moved(t, k), row' \in Rows, Frame,
           k.pc = "waiting" => InTime(k),
           (Order /\ ~Exempt') => Allowed(t, k)
    PROVE  Inv'
<1>1. t \in 1..Slots /\ IType
  BY DEF Open, Inv
<1>2. IType' /\ TimeoutKept'
  <2>1. /\ tasks' \in [1..Slots -> GoodTasks] /\ trans' \in Transitions
        /\ \A s \in 1..Slots : tasks'[s] = tasks[s] \/ tasks'[s] = k
    BY <1>1, MovedTyped DEF Moved
  <2> QED BY <2>1, TypesKept
<1>3. InOrder'
  BY <1>1, OrderKept DEF Inv, InOrder, Frame
<1> QED BY <1>2, <1>3 DEF Inv

\* A try that ends without a success keeps the invariant, wherever it was but
\* between the hooks.
LEMMA EndKeeps ==
    ASSUME Inv, NEW t \in Open, Ended(t), Frame, ~Hooked(tasks[t]), ~Handed(tasks[t]),
           (Order /\ ~Exempt') => Calm(t)
    PROVE  Inv'
<1>1. PICK k \in GoodTasks :
          /\ Moved(t, k)
          /\ k.pc = "waiting" => InTime(k)
          /\ \/ /\ k.pc = "free"
                /\ Deletes(tasks[t].type) \/ row'.state = "creation_terminated"
             \/ k.type = tasks[t].type /\ k.of = tasks[t].of /\ k.pc = "waiting"
  BY DEF Ended
<1>2. /\ k.pc \notin Reading /\ k.pc \notin {"found", "request", "closing"} /\ ~Early(k)
      /\ Covers(k)'
  BY <1>1 DEF Reading, Working, Early, Covers
<1>3. ASSUME Order, ~Exempt' PROVE Allowed(t, k)
  <2>1. Calm(t) /\ TaskOK(t) /\ kind' = kind
    BY <1>3 DEF Order, Frame
  <2>2. PICK r \in Rows :
          /\ r = row \/ (Read(t) /\ r = tasks[t].copy)
          /\ row'.desired = r.desired /\ row'.link = r.link /\ row'.self_id = r.self_id
          /\ \/ row'.state = r.state
             \/ Deletes(tasks[t].type) /\ row'.state = "deletion_failed"
             \/ ~Deletes(tasks[t].type) /\ row'.state = "creation_terminated"
    BY DEF Ended, Left
  <2>3. r.desired = row.desired /\ RowOK(r) /\ (Watched => Own(r))
    BY <1>3, <2>1, <2>2 DEF Order, TaskOK, CopyOK
  <2>4. tasks[t].type = "ensure_deleted" /\ tasks[t].pc = "request" => r.link = "object"
    BY <2>1, <2>2 DEF TaskOK, CopyOK, PlaceOK, Read, Reading, Working
  <2>5. RowOK(r)' /\ (Watched => Own(r)')
    BY <1>3, <2>1, <2>3, <2>4, CalmKeeps DEF Inv
  <2>6. ~torn' => row'.link # "operation"
    <3>1. SUFFICES ASSUME ~torn PROVE r.link # "operation"
      BY <2>2 DEF Frame
    <3>2. row.link # "operation"
      BY <1>3, <3>1, LinkOfRow
    <3> QED BY <2>1, <2>2, <3>1, <3>2 DEF TaskOK, CopyOK
  <2>7. RowOK(row)' /\ (Watched => Own(row)')
    <3>1. Decided(row')
      BY <2>1, <2>2, <2>3 DEF TaskOK, Purpose, RowOK, Decided
    <3>2. Own(r)' <=> Own(row)'
      BY <2>2 DEF Own
    <3>3. row'.state \in {"healthy", "deleted"} => r.state = row'.state
      BY <2>2
    <3> QED BY <2>2, <2>5, <3>1, <3>2, <3>3 DEF RowOK, Decided
  <2>8. (kind = "network" /\ row'.state = "healthy") =>
            k.pc # "free"
    <3>1. Deletes(tasks[t].type) => row'.state # "healthy"
      BY <2>1, <2>2, <2>3 DEF TaskOK, Purpose, RowOK, Decided
    <3> QED BY <1>1, <3>1
  <2> QED BY <1>1, <1>2, <2>1, <2>2, <2>3, <2>6, <2>7, <2>8 DEF Allowed
<1> QED BY <1>1, <1>3, MoveKeeps DEF Ended, Left

LEMMA Framed ==
    ASSUME IType, UNCHANGED <<kind, subnetRows, obj, others, history, applies>>,
           UNCHANGED faults \/ Fault
    PROVE  Frame
<1>1. MaxFaults[kind] \in Nat /\ faults \in 0..MaxFaults[kind]
  BY ConstantsAssumption DEF IType, TypeOK
<1>2. faults' \in 0..MaxFaults[kind]
  BY <1>1 DEF Fault
<1>3. UNCHANGED <<torn, blind, doubled>>
  BY DEF history
<1> QED BY <1>2, <1>3 DEF IType, TypeOK, Frame, Exempt

\* A step that changes nothing but the place in the task.
LEMMA StayKeeps ==
    ASSUME Inv, NEW t \in Open, NEW k \in GoodTasks, Put(t, k), row' = row, Frame, obj' = obj,
           k.type = tasks[t].type, k.of = tasks[t].of, k.pc \notin {"found", "waiting", "free"}, ~Early(k),
           k.pc \in Reading => Read(t) /\ k.copy = tasks[t].copy,
           (k.type = "ensure_deleted" /\ k.pc = "request") => k.copy.link = "object",
           Hooked(tasks[t]) => torn',
           Handed(tasks[t]) => doubled',
           (Order /\ ~Exempt') =>
               Covers(k)' /\ (kind = "network" /\ k.pc = "closing" => subnetRows' = Subnets)
    PROVE  Inv'
<1>1. row' \in Rows
  BY DEF Inv, IType, TypeOK
<1>2. ASSUME Order, ~Exempt' PROVE Allowed(t, k)
  <2>1. TaskOK(t) /\ Calm(t) /\ kind' = kind /\ ~Handed(tasks[t])
    BY <1>2 DEF Order, Calm, Frame, Exempt
  <2>2. RowOK(row)' /\ (Watched => Own(row)')
    BY <1>2, <2>1 DEF Order, RowOK, Decided, Own, Gone, There, Made
  <2>3. ~torn' => ~torn /\ row.link # "operation"
    BY <1>2, <2>1, LinkOfRow DEF Frame
  <2>4. k.pc \in Reading =>
            /\ k.copy.desired = row.desired
            /\ RowOK(k.copy)'
            /\ Watched => Own(k.copy)'
            /\ k.type = "ensure_deleted" => k.copy.link = row'.link
            /\ (k.copy.link = "operation" /\ ~torn') => Hooked(k)
    <3>1. SUFFICES ASSUME k.pc \in Reading
                   PROVE  /\ k.copy.desired = row.desired
                          /\ RowOK(k.copy)'
                          /\ Watched => Own(k.copy)'
                          /\ k.type = "ensure_deleted" => k.copy.link = row'.link
                          /\ (k.copy.link = "operation" /\ ~torn') => Hooked(k)
      OBVIOUS
    <3>2. k.copy = tasks[t].copy /\ CopyOK(t) /\ Read(t)
      BY <2>1, <3>1 DEF TaskOK
    <3>3. RowOK(k.copy) /\ (Watched => Own(k.copy))
      BY <3>2 DEF CopyOK
    <3>4. RowOK(k.copy)' /\ (Watched => Own(k.copy)')
      BY <2>1, <3>3 DEF RowOK, Decided, Own, Gone, There, Made
    <3> QED BY <2>3, <3>2, <3>4 DEF CopyOK
  <2> QED BY <1>2, <2>1, <2>2, <2>3, <2>4 DEF Allowed
<1> QED BY <1>1, <1>2, PutMoves, MoveKeeps DEF Inv

\* Saved, and on as k.
Saved(t, k) == row' = k.copy /\ Moved(t, k)

\* A step that saves its copy of the row and goes on.
LEMMA SaveKeeps ==
    ASSUME Inv, NEW t \in Open, Read(t), NEW k \in GoodTasks, Saved(t, k), Frame,
           k.type = tasks[t].type, k.of = tasks[t].of, k.pc \in Reading,
           (k.type = "ensure_deleted" /\ k.pc = "request") => k.copy.link = "object",
           k.copy.desired = tasks[t].copy.desired,
           k.copy.link = "operation" =>
               Hooked(k) \/ (k.copy.link = tasks[t].copy.link /\ ~Hooked(tasks[t])),
           (Order /\ ~Exempt') =>
               /\ Calm(t)
               /\ RowOK(k.copy)'
               /\ Watched => Own(k.copy)'
               /\ k.pc = "found" => There'
               /\ Early(k) => Alone(t) /\ Made' /\ k.copy.state # "healthy"
               /\ Covers(k)'
    PROVE  Inv'
<1>1. row' = k.copy /\ Moved(t, k) /\ row' \in Rows /\ k.pc \notin {"waiting", "free", "closing"}
  BY DEF Saved, GoodTasks, PhaseOK, Reading, Working
<1>2. ASSUME Order, ~Exempt' PROVE Allowed(t, k)
  <2>1. TaskOK(t) /\ ~Handed(tasks[t])
    BY <1>2 DEF Order, Handed, Read, Reading
  <2>2. /\ k.copy.desired = row.desired
        /\ (k.copy.link = "operation" /\ ~torn') => Hooked(k)
    BY <2>1 DEF TaskOK, CopyOK, Frame
  <2>3. RowOK(row)' /\ (Watched => Own(row)')
    BY <1>1, <1>2 DEF RowOK, Decided, Own
  <2> QED BY <1>1, <1>2, <2>1, <2>2, <2>3 DEF Allowed
<1> QED BY <1>1, <1>2, MoveKeeps

\* The copy, as it is, for one of them.
LEMMA CopyKept ==
    ASSUME Inv, Order, NEW t \in Open, Read(t), Calm(t), kind' = kind, NEW r, r = tasks[t].copy
    PROVE  RowOK(r)' /\ (Watched => Own(r)')
<1>1. TaskOK(t)
  BY DEF Order
<1>2. /\ r.desired = row.desired /\ RowOK(r) /\ (Watched => Own(r))
      /\ tasks[t].type = "ensure_deleted" /\ tasks[t].pc = "request" => r.link = "object"
  BY <1>1 DEF TaskOK, CopyOK, PlaceOK
<1> QED BY <1>2, CalmKeeps DEF Inv

-------------------------------------------------------------------------------
(* The actions of a task *)

LEMMA Reader ==
    ASSUME IType, NEW t \in 1..Slots
    PROVE  /\ tasks[t].pc # "free" <=> t \in Open
           /\ t \in Open => tasks[t].type \in Types
           /\ Read(t) => t \in Open /\ tasks[t].copy \in Rows /\ ~Handed(tasks[t])
           /\ t \in Open => tasks[t].of \in 1..Slots
BY TaskTyped DEF Open, PhaseOK, Read, Reading, Working, Handed

LEMMA SubmitKeeps ==
    ASSUME Inv, NEW t \in 1..Slots, Submit(t)
    PROVE  Inv'
<1> USE DEF Inv
<1>1. /\ t \in Open /\ tasks[t] \in Tasks /\ tasks[t].type \in Types /\ tasks[t].of \in 1..Slots
      /\ ~Hooked(tasks[t]) /\ ~Handed(tasks[t])
  BY TaskTyped, Reader DEF Submit, At, Hooked, Handed
<1>2. PICK k : k = [tasks[t] EXCEPT !.pc = "queued"]
  OBVIOUS
<1>3. k \in Tasks /\ k.pc = "queued" /\ k.type = tasks[t].type /\ k.of = tasks[t].of
  BY <1>1, <1>2 DEF Tasks, Idle
<1>4. k \in GoodTasks
  BY <1>1, <1>3 DEF GoodTasks, PhaseOK, Reading, Working, Creating, Checking
<1>5. Frame /\ obj' = obj /\ row' = row /\ Put(t, k)
  BY <1>2, Framed DEF Submit, Go
<1>6. /\ k.pc \notin Reading /\ ~Early(k) /\ Covers(k)'
      /\ k.pc \notin {"found", "waiting", "free", "request", "closing"}
  BY <1>3 DEF Reading, Working, Early, Covers
<1> QED BY <1>1, <1>3, <1>4, <1>5, <1>6, StayKeeps

\* What looks like a duplicate is put off.
LEMMA ReceiveEnds ==
    ASSUME IType, NEW t \in Open, Receive(t), t \in Outstanding,
           tasks[t].begun, tasks[t].retries = 0
    PROVE  Ended(t)
<1>1. /\ tasks[t] \in Tasks /\ tasks[t].type \in Types /\ tasks[t].of \in 1..Slots
      /\ row \in Rows
  BY TaskTyped, Reader DEF Open, IType, TypeOK
<1>2. PICK k : k = [tasks[t] EXCEPT !.pc = "check", !.begun = TRUE, !.copy = row]
  OBVIOUS
<1>3. /\ k \in Tasks /\ k.type = tasks[t].type /\ k.copy = row /\ k.of = tasks[t].of
      /\ k.retries = 0
  BY <1>1, <1>2 DEF Tasks, Working
<1>4. RetryIn(t, k, 90, "retry")
  BY <1>2 DEF Receive
<1>5. CASE GivesUp(RetryParams(kind, k.type), k.retries, TaskAge(k.elapsed))
  <2>1. PICK e : e = Exhausted(k, "retry")
    OBVIOUS
  <2>2. Moved(t, Free) /\ row' = e
    BY <1>4, <1>5, <2>1, EndMoves DEF RetryIn
  <2>3. /\ e \in Rows /\ Alike(e, row)
        /\ \/ Deletes(k.type) /\ e.state \in {row.state, "deletion_failed"}
           \/ ~Deletes(k.type) /\ e.state = "creation_terminated"
    BY <1>1, <1>3, <2>1, ExhaustedTyped DEF Excs
  <2>4. Left(t)
    BY <1>1, <1>3, <2>2, <2>3 DEF Left, Alike
  <2> QED BY <1>3, <2>2, <2>3, <2>4, FreeGood DEF Ended
<1>6. CASE ~GivesUp(RetryParams(kind, k.type), k.retries, TaskAge(k.elapsed))
  <2>1. Moved(t, Later(k, 90)) /\ row' = row
    BY <1>3, <1>4, <1>6, PutMoves DEF RetryIn
  <2>2. k.type \in Types /\ k.of \in 1..Slots /\ 90 \in Nat /\ 90 \in 0..RetryBackoffMax
    BY <1>1, <1>3 DEF RetryBackoffMax
  <2>3. /\ Later(k, 90) \in GoodTasks /\ Later(k, 90).pc = "waiting"
        /\ Later(k, 90).type = k.type /\ Later(k, 90).of = k.of
    BY <1>3, <2>2, LaterTyped
  <2>4. InTime(Later(k, 90))
    BY <1>3, <1>6, <2>2, RetryInTime
  <2>5. Left(t)
    BY <1>1, <2>1 DEF Left
  <2> QED BY <1>3, <2>1, <2>3, <2>4, <2>5 DEF Ended
<1> QED BY <1>5, <1>6

LEMMA ReceiveKeeps ==
    ASSUME Inv, NEW t \in 1..Slots, Receive(t)
    PROVE  Inv'
<1> USE DEF Inv
<1>1. /\ t \in Open /\ tasks[t] \in Tasks /\ tasks[t].type \in Types /\ row \in Rows
      /\ tasks[t].of \in 1..Slots
      /\ ~Read(t) /\ ~Hooked(tasks[t]) /\ ~Handed(tasks[t])
  BY TaskTyped, Reader
     DEF Receive, Open, Idle, Read, Reading, Working, Hooked, Handed, IType, TypeOK
<1>2. Frame /\ obj' = obj
  BY Framed DEF Receive
<1>3. CASE t \notin Outstanding
  <2>1. End(t) /\ row' = row /\ ~Order
    BY <1>1, <1>3 DEF Receive, Outstanding, Order, Lone
  <2> QED BY <1>1, <1>2, <2>1, EndMoves, FreeGood, MoveKeeps
<1>4. CASE t \in Outstanding /\ tasks[t].begun /\ tasks[t].retries = 0
  BY <1>1, <1>2, <1>4, ReceiveEnds, EndKeeps DEF Calm
<1>5. CASE t \in Outstanding /\ ~(tasks[t].begun /\ tasks[t].retries = 0)
  <2>1. PICK k : k = [tasks[t] EXCEPT !.pc = "check", !.begun = TRUE, !.copy = row]
    OBVIOUS
  <2>2. /\ k \in Tasks /\ k.type = tasks[t].type /\ k.pc = "check" /\ k.copy = row
        /\ k.of = tasks[t].of
    BY <1>1, <2>1 DEF Tasks, Working
  <2>3. k \in GoodTasks
    BY <1>1, <2>2 DEF GoodTasks, PhaseOK, Reading, Working, Creating, Checking
  <2>4. Moved(t, k) /\ row' = row
    BY <1>5, <2>1, PutMoves DEF Receive
  <2>5. ASSUME Order, ~Exempt' PROVE Allowed(t, k)
    <3>1. Calm(t) /\ kind' = kind
      BY <1>2 DEF Calm, Frame
    <3>2. RowOK(row)' /\ (Watched => Own(row)')
      BY <1>2, <2>4, <2>5, <3>1 DEF Order, RowOK, Decided, Own, Gone, There, Made
    <3>3. RowOK(k.copy)' /\ (Watched => Own(k.copy)')
      BY <2>2, <2>4, <3>2 DEF RowOK, Decided, Own
    <3>4. ~torn' => row'.link # "operation"
      BY <1>1, <1>2, <2>4, <2>5, LinkOfRow DEF Frame
    <3> QED BY <1>1, <1>2, <2>2, <2>4, <3>1, <3>2, <3>3, <3>4 DEF Allowed, Early, Covers
  <2> QED BY <1>1, <1>2, <2>2, <2>3, <2>4, <2>5, MoveKeeps
<1> QED BY <1>3, <1>4, <1>5

LEMMA LateKeeps ==
    ASSUME Inv, NEW t \in 1..Slots, Late(t)
    PROVE  Inv'
<1> USE DEF Inv
<1>1. /\ t \in Open /\ tasks[t] \in Tasks /\ tasks[t].type \in Types
      /\ tasks[t].of \in 1..Slots
      /\ At(t, "waiting") /\ ~Hooked(tasks[t]) /\ ~Handed(tasks[t])
  BY TaskTyped, Reader DEF Late, At, Hooked, Handed
<1>2. PICK d \in Delays :
          Put(t, [tasks[t] EXCEPT !.pc = "queued", !.elapsed = tasks[t].elapsed + d])
  BY DEF Late
<1>3. PICK k : k = [tasks[t] EXCEPT !.pc = "queued", !.elapsed = tasks[t].elapsed + d]
  OBVIOUS
<1>4. tasks[t].elapsed + d \in Nat
  BY <1>1, ConstantsAssumption DEF Tasks
<1>5. k \in Tasks /\ k.pc = "queued" /\ k.type = tasks[t].type /\ k.of = tasks[t].of
  BY <1>1, <1>3, <1>4 DEF Tasks, Idle
<1>6. k \in GoodTasks
  BY <1>1, <1>5 DEF GoodTasks, PhaseOK, Reading, Working, Creating, Checking
<1>7. Frame /\ obj' = obj /\ row' = row /\ Put(t, k)
  BY <1>2, <1>3, Framed DEF Late
<1>8. /\ k.pc \notin Reading /\ ~Early(k) /\ Covers(k)'
      /\ k.pc \notin {"found", "waiting", "free", "request", "closing"}
  BY <1>5 DEF Reading, Working, Early, Covers
<1> QED BY <1>1, <1>5, <1>6, <1>7, <1>8, StayKeeps

LEMMA CrashKeeps ==
    ASSUME Inv, NEW t \in 1..Slots, Crash(t)
    PROVE  Inv'
<1> USE DEF Inv
<1>1. /\ t \in Open /\ tasks[t] \in Tasks /\ tasks[t].type \in Types
      /\ tasks[t].of \in 1..Slots
  BY TaskTyped, Reader DEF Crash, Working
<1>2. PICK k : k = Message(tasks[t], "queued")
  OBVIOUS
<1>3. k \in GoodTasks /\ k.pc = "queued" /\ k.type = tasks[t].type /\ k.of = tasks[t].of
  BY <1>1, <1>2, MessageTyped
<1>4. /\ Put(t, k) /\ row' = row /\ obj' = obj
      /\ Hooked(tasks[t]) => torn'
      /\ Handed(tasks[t]) => doubled'
  BY <1>2 DEF Crash, Hooked, At, Double
<1>5. Frame
  <2>1. torn' \in BOOLEAN /\ (torn => torn')
    BY DEF Crash, IType, TypeOK, At
  <2>2. faults' \in 0..MaxFaults[kind] /\ doubled' \in BOOLEAN /\ (doubled => doubled')
    <3>1. MaxFaults[kind] \in Nat /\ faults \in 0..MaxFaults[kind] /\ doubled \in BOOLEAN
      BY ConstantsAssumption DEF IType, TypeOK
    <3>2. CASE Handed(tasks[t])
      BY <3>1, <3>2 DEF Crash, Double
    <3>3. CASE ~Handed(tasks[t])
      BY <3>1, <3>3 DEF Crash, Fault
    <3> QED BY <3>2, <3>3
  <2> QED BY <2>1, <2>2 DEF Frame, Crash, IType, TypeOK, Exempt
<1>6. /\ k.pc \notin Reading /\ ~Early(k) /\ Covers(k)'
      /\ k.pc \notin {"found", "waiting", "free", "request", "closing"}
  BY <1>3 DEF Reading, Working, Early, Covers
<1> QED BY <1>1, <1>3, <1>4, <1>5, <1>6, StayKeeps

\* From here on a stage has two executions, and nothing is claimed but the types
\* and the time of messages.
LEMMA TwinKeeps ==
    ASSUME Inv, NEW t \in 1..Slots, Twin(t)
    PROVE  Inv'
<1> USE DEF Inv
<1>1. /\ tasks[t] \in Tasks /\ tasks[t].type \in Types /\ tasks[t].of \in 1..Slots
      /\ tasks[t].retries \in Nat \ {0}
  BY TaskTyped, Reader DEF Twin, At, PhaseOK, Tasks
<1>2. PICK k : k = [tasks[t] EXCEPT !.pc = "queued", !.retries = tasks[t].retries - 1]
  OBVIOUS
<1>3. tasks[t].retries - 1 \in Nat
  BY <1>1
<1>4. k \in Tasks /\ k.pc = "queued" /\ k.type = tasks[t].type /\ k.of = tasks[t].of
  BY <1>1, <1>2, <1>3 DEF Tasks, Idle
<1>5. k \in GoodTasks
  BY <1>1, <1>4 DEF GoodTasks, PhaseOK, Reading, Working, Creating, Checking
<1>6. PICK u \in 1..Slots : tasks' = [tasks EXCEPT ![u] = k]
  BY <1>2, SlotFree DEF Twin
<1>7. /\ tasks' \in [1..Slots -> GoodTasks] /\ trans' \in Transitions /\ row' \in Rows
      /\ \A s \in 1..Slots : tasks'[s] = tasks[s] \/ tasks'[s] = k
  BY <1>5, <1>6 DEF Twin, IType, TypeOK, TasksOK
<1>8. Frame /\ doubled'
  <2>1. MaxFaults[kind] \in Nat
    BY ConstantsAssumption DEF IType, TypeOK
  <2> QED BY <2>1 DEF Twin, Double, Frame, Exempt, IType, TypeOK
<1>9. IType' /\ TimeoutKept'
  BY <1>4, <1>7, <1>8, TypesKept
<1> QED BY <1>8, <1>9 DEF InOrder, Exempt

\* What has nothing left to do leaves, and nothing else changes.
LEMMA SucceedKeeps ==
    ASSUME Inv, NEW t \in 1..Slots, Succeed(t)
    PROVE  Inv'
<1> USE DEF Inv
<1>1. t \in Open /\ ~Read(t) /\ ~Hooked(tasks[t]) /\ tasks[t].pc = "closing"
  BY Reader DEF Succeed, At, Read, Reading, Hooked
<1>2. Frame /\ obj' = obj /\ subnetRows' = subnetRows /\ UNCHANGED <<kind, torn, blind, doubled>>
  BY Framed DEF Succeed, history
<1>3. row' = row /\ row \in Rows /\ Moved(t, Free)
  BY <1>1, EndMoves DEF Succeed, IType, TypeOK
<1>4. /\ tasks' \in [1..Slots -> GoodTasks] /\ trans' \in Transitions
      /\ tasks'[t] = Free /\ Free.pc = "free"
      /\ \A s \in (1..Slots) \ {t} : tasks'[s] = tasks[s]
  BY <1>3, MovedTyped, FreeGood DEF Moved
<1>5. IType' /\ TimeoutKept'
  BY <1>2, <1>3, <1>4, TypesKept
<1>6. ASSUME Order PROVE Order'
  <2>1. Open' = Open \ {t} /\ (Watched' => Watched)
    BY <1>4 DEF Open, Watched
  <2>2. RowOK(row)' /\ (Watched => Own(row))'
    BY <1>2, <1>3, <1>6, <2>1 DEF Order, RowOK, Decided, Own, Gone, There, Made
  <2>3. (row'.link = "operation" /\ ~torn') => \E s \in Open' : Hooked(tasks'[s])
    BY <1>1, <1>2, <1>3, <1>4, <1>6, <2>1 DEF Order, Open
  <2>4. Known'
    BY <1>1, <1>2, <1>3, <1>4, <1>6, <2>1 DEF Order, Known, Open
  <2>5. ASSUME NEW s \in Open' PROVE TaskOK(s)'
    <3>1. s \in Open /\ tasks'[s] = tasks[s] /\ TaskOK(s)
      BY <1>4, <1>6, <2>1 DEF Order, Open
    <3>2. Alone(s) => Alone(s)'
      BY <1>4, <2>1 DEF Alone, Open, Handed
    <3> QED BY <1>2, <1>3, <2>1, <3>1, <3>2
            DEF TaskOK, Purpose, CopyOK, PlaceOK, Covers, Read, RowOK, Decided, Own, Gone, There,
                Made, Early, Hooked
  <2>6. Single' /\ Lone'
    BY <1>3, <1>4, <1>6, <2>1 DEF Order, Single, Builds, Handed, Lone, Moved, Open
  <2> QED BY <1>2, <1>3, <1>6, <2>2, <2>3, <2>4, <2>5, <2>6 DEF Order, Hooked
<1> QED BY <1>2, <1>5, <1>6 DEF InOrder, Exempt

LEMMA ListingKeeps ==
    ASSUME Inv, NEW t \in 1..Slots, ListingBroken(t) \/ ListingFails(t)
    PROVE  Inv'
<1> USE DEF Inv
<1>1. tasks[t].pc \in {"appear", "absence", "check", "health", "healthy"}
  BY DEF ListingBroken, ListingFails, Lists
<1>2. t \in Open /\ Read(t) /\ ~Hooked(tasks[t]) /\ ~Handed(tasks[t])
  BY <1>1, Reader DEF Read, Reading, Working, Hooked
<1>3. Frame /\ obj' = obj
  BY Framed DEF ListingBroken, ListingFails
<1>4. Ended(t)
  BY <1>2, UnexpectedEnds, RetryEnds DEF ListingBroken, ListingFails, Excs
<1> QED BY <1>2, <1>3, <1>4, EndKeeps DEF Calm

\* A copy is saved and the try goes on.
LEMMA SavedAs ==
    ASSUME IType, NEW t \in Open,
           NEW pc \in {"request", "found", "hook", "appear", "health", "healthy"},
           NEW copy \in Rows, SaveAs(t, pc, copy),
           pc \in Checking => tasks[t].type = "ensure_healthy",
           pc \in Creating \cup {"appear"} => tasks[t].type = "ensure_exists",
           pc = "request" => tasks[t].type \in {"ensure_exists", "ensure_deleted"},
           pc = "hook" => tasks[t].answer \in Links
    PROVE  \E k \in GoodTasks :
              /\ Saved(t, k) /\ k.pc = pc /\ k.pc \in Reading /\ k.copy = copy
              /\ k.type = tasks[t].type /\ k.of = tasks[t].of /\ k.answer = tasks[t].answer
<1>1. tasks[t] \in Tasks /\ tasks[t].type \in Types /\ tasks[t].of \in 1..Slots
  BY TaskTyped, Reader DEF Open
<1>2. PICK k : k = [tasks[t] EXCEPT !.pc = pc, !.copy = copy]
  OBVIOUS
<1>3. /\ k \in Tasks /\ k.pc = pc /\ k.copy = copy /\ k.type = tasks[t].type
      /\ k.answer = tasks[t].answer /\ k.of = tasks[t].of
  BY <1>1, <1>2 DEF Tasks, Working
<1>4. k \in GoodTasks /\ k.pc \in Reading
  BY <1>1, <1>3 DEF GoodTasks, PhaseOK, Reading, Working, Creating, Checking
<1>5. Saved(t, k)
  BY <1>2, PutMoves DEF SaveAs, Save, Saved
<1> QED BY <1>3, <1>4, <1>5

LEMMA FoundKeeps ==
    ASSUME Inv, NEW t \in 1..Slots, Found(t)
    PROVE  Inv'
<1> USE DEF Inv
<1>1. /\ t \in Open /\ Read(t) /\ tasks[t].copy \in Rows
      /\ tasks[t].type = "ensure_exists" /\ Exists(tasks[t]) /\ ~Hooked(tasks[t])
  BY TaskTyped, Reader
     DEF Found, Is, At, Read, Reading, Working, PhaseOK, Creating, Hooked
<1>2. PICK copy : copy = [tasks[t].copy EXCEPT !.state = "exists"]
  OBVIOUS
<1>3. /\ copy \in Rows /\ copy.desired = tasks[t].copy.desired /\ copy.state = "exists"
      /\ copy.link = "object"
  BY <1>1, <1>2 DEF Rows, States, Exists
<1>4. SaveAs(t, "found", copy) /\ Frame /\ obj' = obj
  BY <1>2, Framed DEF Found
<1>5. PICK k \in GoodTasks :
          /\ Saved(t, k) /\ k.pc = "found" /\ k.pc \in Reading /\ k.copy = copy
          /\ k.type = tasks[t].type /\ k.of = tasks[t].of
  BY <1>1, <1>3, <1>4, SavedAs DEF Checking
<1>6. ASSUME Order
      PROVE  RowOK(k.copy)' /\ (Watched => Own(k.copy)') /\ There'
  <2>1. There'
    BY <1>1, <1>4, <1>6 DEF Order, TaskOK, Purpose, Deletes, Exists, Listed, There
  <2>2. /\ tasks[t].copy.link = "object" /\ (Watched => Own(tasks[t].copy))
        /\ k.copy.self_id = tasks[t].copy.self_id
    BY <1>1, <1>2, <1>5, <1>6 DEF Order, TaskOK, CopyOK, Exists, Rows
  <2>3. k.copy.desired = "healthy" /\ k.copy.state = "exists" /\ k.copy.link = "object"
    BY <1>1, <1>3, <1>5, <1>6 DEF Order, TaskOK, CopyOK, Purpose, Deletes
  <2> QED BY <1>4, <1>5, <2>1, <2>2, <2>3 DEF RowOK, Decided, Own, None
<1>7. ~Early(k) /\ Covers(k)' /\ Calm(t)
  BY <1>4, <1>5 DEF Early, Covers, Calm
<1> QED BY <1>1, <1>3, <1>4, <1>5, <1>6, <1>7, SaveKeeps

\* The transition goes on to the next, which it creates, or finds pending.
LEMMA CreateKeeps ==
    ASSUME Inv, NEW t \in Open, Read(t), row' \in Rows, NEW type \in Types,
           CreateTransition(t, Closing(tasks[t]), type),
           UNCHANGED <<kind, subnetRows, obj, others, history, applies, faults>>,
           \/ type = "ensure_healthy" /\ tasks[t].type = "ensure_exists" /\ tasks[t].pc = "found"
           \/ /\ type # "ensure_healthy" /\ tasks[t].type \in FirstStages
              /\ Deletes(type) <=> Deletes(tasks[t].type),
           Order =>
               /\ row'.desired = row.desired
               /\ RowOK(row)'
               /\ Watched \/ type = "ensure_healthy" => Own(row)'
               /\ row'.link = "operation" => torn
    PROVE  Inv'
<1> USE DEF Inv
<1>1. /\ t \in 1..Slots /\ tasks[t] \in Tasks /\ tasks[t].type \in Types
      /\ tasks[t].of \in 1..Slots /\ ~Handed(tasks[t]) /\ tasks[t].pc \in Reading
  BY TaskTyped, Reader DEF Open, Read
<1>2. Frame /\ Calm(t) /\ UNCHANGED <<torn, blind, doubled>>
  BY Framed DEF Calm, history
<1>3. PICK k : k = Closing(tasks[t])
  OBVIOUS
<1>4. k \in GoodTasks /\ k.pc = "closing" /\ k.type = tasks[t].type /\ k.of = tasks[t].of
  BY <1>1, <1>3, MessageTyped DEF Closing
<1>6. CASE Put(t, k) /\ \E u \in Open : Is(u, type, "pending")
  <2>1. \E u \in Open \ {t} : tasks[u].pc # "closing"
    BY <1>1, <1>6 DEF Is, Reading, Working
  <2>2. k.pc \notin Reading /\ ~Early(k) /\ Covers(k)'
    BY <1>4 DEF Reading, Working, Early, Covers
  <2>3. ASSUME Order PROVE Allowed(t, k)
    BY <1>1, <1>2, <1>4, <2>1, <2>2, <2>3 DEF Allowed
  <2> QED BY <1>1, <1>2, <1>4, <1>6, <2>3, PutMoves, MoveKeeps
<1>7. CASE /\ Vacant # {} /\ UNCHANGED trans
           /\ tasks' = [tasks EXCEPT ![t] = k, ![Slot] = New(Slot, type)]
  <2>1. PICK u : u = Slot
    OBVIOUS
  <2>2. u \in 1..Slots /\ u \notin Open
    BY <1>7, <2>1, SlotFree
  <2>3. PICK n : n = New(u, type)
    OBVIOUS
  <2>4. n \in GoodTasks /\ n.pc = "pending" /\ n.type = type /\ n.of = u
    BY <2>2, <2>3, FreeGood
  <2>5. /\ tasks' \in [1..Slots -> GoodTasks]
        /\ tasks'[t] = k /\ tasks'[u] = n /\ t # u
        /\ \A s \in (1..Slots) \ {t, u} : tasks'[s] = tasks[s]
    BY <1>1, <1>4, <1>7, <2>1, <2>2, <2>3, <2>4 DEF IType, TasksOK, GoodTasks
  <2>6. IType' /\ TimeoutKept'
    <3>1. \A s \in 1..Slots :
             tasks'[s] = tasks[s] \/ (tasks'[s].pc = "waiting" => InTime(tasks'[s]))
      BY <1>4, <2>4, <2>5
    <3> QED BY <1>2, <1>7, <2>5, <3>1, TypesKept DEF IType, TypeOK
  <2>7. ASSUME Order PROVE Order'
    <3>1. TaskOK(t) /\ RowOK(row)' /\ row'.desired = row.desired
      BY <2>7 DEF Order
    <3>2. Open' = Open \cup {u}
      BY <1>4, <2>2, <2>4, <2>5 DEF Open
    <3>3. ASSUME NEW s \in Open, s # t, ~Handed(tasks[s])
          PROVE  tasks[s].type = "ensure_healthy" /\ ~Early(tasks[s])
      <4>1. Builds(tasks[t])
        BY <1>1 DEF Builds, FirstStages
      <4>2. tasks[s].type = "ensure_healthy"
        BY <2>7, <3>3, <4>1 DEF Order, Single, Builds
      <4>3. ~Alone(s)
        BY <1>1, <3>3 DEF Alone
      <4> QED BY <2>7, <3>3, <4>2, <4>3 DEF Order, TaskOK, PlaceOK
    <3>4. Watched' => Watched \/ type = "ensure_healthy"
      BY <1>4, <2>4, <2>5, <3>2 DEF Watched, Open
    <3>5. (Watched => Own(row))'
      BY <2>7, <3>4
    <3>6. /\ (obj.status = "stopping" /\ kind # "instance")' => row'.desired = "deleted"
          /\ (obj.status = "hidden" => kind = "instance")'
      BY <2>7, <3>1 DEF Order
    <3>7. Known'
      BY <2>4, <2>5, <3>2 DEF Known
    <3>8. ASSUME NEW s \in Open' PROVE TaskOK(s)'
      <4>1. CASE s = t
        BY <1>4, <2>5, <3>1, <4>1
           DEF TaskOK, Purpose, CopyOK, PlaceOK, Covers, Read, Reading, Working, Early, There
      <4>2. CASE s = u
        <5>1. Purpose(u)'
          BY <2>4, <2>5, <3>1 DEF TaskOK, Purpose, Deletes, FirstStages
        <5>2. type = "ensure_healthy" => There'
          BY <3>1 DEF TaskOK, PlaceOK, There
        <5> QED BY <2>4, <2>5, <4>2, <5>1, <5>2
                DEF TaskOK, CopyOK, PlaceOK, Covers, Read, Reading, Working, Early
      <4>3. CASE s \notin {t, u}
        <5>1. s \in Open /\ tasks'[s] = tasks[s] /\ TaskOK(s)
          BY <2>5, <2>7, <3>2, <4>3 DEF Open, Order
        <5>2. Purpose(s)'
          BY <3>1, <5>1 DEF TaskOK, Purpose
        <5>3. CASE Handed(tasks[s])
          BY <5>1, <5>2, <5>3
             DEF TaskOK, CopyOK, PlaceOK, Covers, Read, Reading, Working, Early, Handed, FirstStages
        <5>4. CASE ~Handed(tasks[s])
          <6>1. tasks[s].type = "ensure_healthy" /\ ~Early(tasks[s]) /\ Watched
            BY <3>3, <4>3, <5>1, <5>4 DEF Watched
          <6>2. CopyOK(s)'
            BY <1>2, <3>1, <5>1, <6>1
               DEF TaskOK, CopyOK, Read, RowOK, Decided, Own, Gone, There, Made, Hooked
          <6> QED BY <5>1, <5>2, <6>1, <6>2 DEF TaskOK, PlaceOK, Covers, There, Early
        <5> QED BY <5>3, <5>4
      <4> QED BY <4>1, <4>2, <4>3
    <3>9. Single'
      <4>1. ASSUME NEW s \in Open', Builds(tasks'[s])
            PROVE  s = IF type = "ensure_healthy" THEN t ELSE u
        <5>1. CASE s = u
          BY <2>4, <2>5, <4>1, <5>1 DEF Builds
        <5>2. CASE s = t
          BY <1>4, <2>5, <4>1, <5>2 DEF Builds, Handed
        <5>3. CASE s \notin {t, u}
          BY <2>5, <3>2, <3>3, <4>1, <5>3 DEF Builds, Open
        <5> QED BY <5>1, <5>2, <5>3
      <4> QED BY <4>1 DEF Single, Builds, Handed
    <3>10. Lone'
      <4>1. \A s \in Open' : tasks'[s].of = s
        BY <1>4, <2>4, <2>5, <2>7, <3>2 DEF Order, Lone, Open
      <4> QED BY <1>7, <2>7, <4>1 DEF Order, Lone
    <3>11. row'.link = "operation" => torn'
      BY <1>2, <2>7
    <3> QED BY <3>1, <3>5, <3>6, <3>7, <3>8, <3>9, <3>10, <3>11 DEF Order
  <2> QED BY <1>2, <2>6, <2>7 DEF InOrder, Exempt
<1> QED BY <1>3, <1>6, <1>7 DEF CreateTransition

\* The creation hands over to ensure_healthy.
LEMMA HandOverKeeps ==
    ASSUME Inv, NEW t \in 1..Slots, HandOver(t)
    PROVE  Inv'
<1> USE DEF Inv
<1>1. /\ t \in Open /\ Read(t) /\ tasks[t].copy \in Rows
      /\ tasks[t].type = "ensure_exists" /\ tasks[t].pc = "found"
  BY TaskTyped, Reader DEF HandOver, At, Read, Reading, Working, PhaseOK, Creating
<1>2. /\ row' \in Rows /\ row'.desired = tasks[t].copy.desired
      /\ row'.state = tasks[t].copy.state /\ row'.link = "object" /\ row'.self_id = obj.id
  BY <1>1 DEF HandOver, Identified, Rows, Ids, Links, IType, TypeOK
<1>3. UNCHANGED <<kind, subnetRows, obj, others, history, applies, faults>>
  BY DEF HandOver
<1>4. ASSUME Order
      PROVE  row'.desired = row.desired /\ RowOK(row)' /\ Own(row)' /\ row'.link # "operation"
  <2>1. /\ There /\ row.desired = "healthy" /\ row'.desired = row.desired
        /\ RowOK(tasks[t].copy)
    BY <1>1, <1>2, <1>4 DEF Order, TaskOK, Purpose, Deletes, CopyOK, PlaceOK
  <2> QED BY <1>2, <1>3, <2>1 DEF RowOK, Decided, Own, There
<1>5. "ensure_healthy" \in Types
  BY DEF Types
<1> QED BY <1>1, <1>2, <1>3, <1>4, <1>5, CreateKeeps DEF HandOver

\* So does a first stage, to what it waited for.
LEMMA ProceedKeeps ==
    ASSUME Inv, NEW t \in 1..Slots, Proceed(t)
    PROVE  Inv'
<1> USE DEF Inv
<1>1. /\ t \in Open /\ Read(t) /\ tasks[t].copy \in Rows /\ ~Hooked(tasks[t])
      /\ tasks[t].type \in FirstStages /\ ~Handed(tasks[t])
  BY Reader DEF Proceed, At, Read, Reading, Working, Hooked
<1>2. row' = tasks[t].copy
  BY DEF Proceed
<1>3. UNCHANGED <<kind, subnetRows, obj, others, history, applies, faults>>
  BY DEF Proceed
<1>4. Calm(t)
  BY <1>3 DEF Calm
<1>5. ASSUME Order
      PROVE  /\ row'.desired = row.desired /\ RowOK(row)' /\ (Watched => Own(row)')
             /\ row'.link = "operation" => torn
  <2>1. PICK r : r = tasks[t].copy
    OBVIOUS
  <2>2. RowOK(r)' /\ (Watched => Own(r)')
    BY <1>1, <1>3, <1>4, <1>5, <2>1, CopyKept
  <2>3. RowOK(row)' /\ (Watched => Own(row)')
    BY <1>2, <1>3, <2>1, <2>2 DEF RowOK, Decided, Own
  <2> QED BY <1>1, <1>2, <1>5, <2>3 DEF Order, TaskOK, CopyOK
<1>6. PICK type : type = Successor(tasks[t].type)
  OBVIOUS
<1>7. /\ type \in Types /\ type # "ensure_healthy"
      /\ Deletes(type) <=> Deletes(tasks[t].type)
  BY <1>1, <1>6 DEF Successor, Types, FirstStages, Deletes
<1>8. CreateTransition(t, Closing(tasks[t]), type)
  BY <1>6 DEF Proceed
<1> QED BY <1>1, <1>2, <1>3, <1>5, <1>7, <1>8, CreateKeeps

LEMMA ToRequestKeeps ==
    ASSUME Inv, NEW t \in 1..Slots, ToRequest(t)
    PROVE  Inv'
<1> USE DEF Inv
<1>1. /\ t \in Open /\ Read(t) /\ tasks[t].copy \in Rows /\ ~Hooked(tasks[t])
      /\ tasks[t].type \in {"ensure_exists", "ensure_deleted"}
  BY Reader DEF ToRequest, Attempts, At, Read, Reading, Working, Hooked
<1>2. Frame /\ obj' = obj /\ SaveAs(t, "request", tasks[t].copy)
  BY Framed DEF ToRequest
<1>3. PICK k \in GoodTasks :
          /\ Saved(t, k) /\ k.pc = "request" /\ k.pc \in Reading /\ k.copy = tasks[t].copy
          /\ k.type = tasks[t].type /\ k.of = tasks[t].of
  BY <1>1, <1>2, SavedAs DEF Checking, Creating
<1>4. Calm(t) /\ ~Early(k) /\ Covers(k)' /\ k.pc # "found"
  BY <1>2, <1>3 DEF Calm, Early, Covers
<1>5. k.type = "ensure_deleted" => k.copy.link = "object"
  BY <1>3 DEF ToRequest, Attempts, Exists
<1>6. Order => RowOK(k.copy)' /\ (Watched => Own(k.copy)')
  BY <1>1, <1>2, <1>3, <1>4, CopyKept DEF Frame
<1> QED BY <1>1, <1>2, <1>3, <1>4, <1>5, <1>6, SaveKeeps

LEMMA MemoHitKeeps ==
    ASSUME Inv, NEW t \in 1..Slots, MemoHit(t)
    PROVE  Inv'
<1> USE DEF Inv
<1>1. t \in Open /\ ~Hooked(tasks[t]) /\ ~Handed(tasks[t])
  BY Reader DEF MemoHit, Attempts, At, Hooked, Handed
<1>2. Frame /\ obj' = obj /\ Ended(t)
  BY <1>1, Framed, UnexpectedEnds DEF MemoHit
<1> QED BY <1>1, <1>2, EndKeeps DEF Calm

\* The request was accepted.
LEMMA AcceptedTyped ==
    ASSUME IType, NEW t \in Open, tasks[t].pc = "request", NEW pc, NEW answer,
           \/ tasks[t].type = "ensure_exists" /\ pc = "base" /\ answer \in Links
           \/ tasks[t].type = "ensure_deleted" /\ pc = "absence" /\ answer = None,
           Accepted(t, pc, answer)
    PROVE  \E k \in GoodTasks :
              /\ Saved(t, k) /\ k.pc = pc /\ k.pc \in Reading /\ k.copy = tasks[t].copy
              /\ k.type = tasks[t].type /\ k.of = tasks[t].of /\ k.answer = answer
<1>1. /\ tasks[t] \in Tasks /\ tasks[t].copy \in Rows /\ tasks[t].type \in Types
      /\ tasks[t].of \in 1..Slots /\ t \in 1..Slots
  BY TaskTyped, Reader DEF Open, Read, Reading, Working
<1>2. PICK k : k = [tasks[t] EXCEPT !.pc = pc, !.answer = answer]
  OBVIOUS
<1>3. /\ k \in Tasks /\ k.pc = pc /\ k.copy = tasks[t].copy /\ k.type = tasks[t].type
      /\ k.answer = answer /\ k.of = tasks[t].of
  BY <1>1, <1>2 DEF Tasks, Working, Links
<1>4. k \in GoodTasks /\ k.pc \in Reading
  BY <1>1, <1>3 DEF GoodTasks, PhaseOK, Reading, Working, Creating, Checking
<1>5. tasks' = [tasks EXCEPT ![t] = k]
  BY <1>1, <1>2 DEF Accepted, IType, TypeOK
<1>6. trans' \in Transitions /\ (Lone => \A s \in 1..Slots : ~trans'[s].ended)
  <2>1. PICK i \in 1..Slots : i = tasks[t].of
    BY <1>1
  <2>2. PICK new : new = [trans[i] EXCEPT !.memo = TRUE]
    OBVIOUS
  <2>3. trans \in Transitions
    BY DEF IType, TypeOK
  <2>4. trans' = [trans EXCEPT ![i] = new]
    BY <2>1, <2>2 DEF Accepted
  <2>5. new \in [ended : BOOLEAN, memo : BOOLEAN] /\ new.ended = trans[i].ended
    BY <2>2, <2>3 DEF Transitions
  <2> QED BY <2>3, <2>4, <2>5 DEF Transitions, Lone
<1>7. Saved(t, k)
  BY <1>3, <1>5, <1>6 DEF Accepted, Saved, Moved
<1> QED BY <1>3, <1>4, <1>7

\* Where nothing exists no ensure_healthy is open, and the creation is alone.
LEMMA CreatesAlone ==
    ASSUME Order, NEW t \in Open, tasks[t].type = "ensure_exists", obj.status = "absent"
    PROVE  Alone(t) /\ ~Watched
<1>1. ASSUME NEW s \in Open PROVE tasks[s].type # "ensure_healthy"
  BY DEF Order, TaskOK, PlaceOK, There
<1>2. Builds(tasks[t])
  BY DEF Builds, Handed, FirstStages
<1> QED BY <1>1, <1>2 DEF Order, Single, Alone, Builds, Watched

LEMMA CreatedTyped ==
    ASSUME IType
    PROVE  /\ Created \in [status : Statuses, id : Nat, subnets : BOOLEAN]
           /\ Created.status = "pending"
BY DEF Created, Statuses, IType, TypeOK

LEMMA CreateRequestKeeps ==
    ASSUME Inv, NEW t \in 1..Slots, CreateRequest(t)
    PROVE  Inv'
<1> USE DEF Inv
<1>1. /\ t \in Open /\ Read(t) /\ tasks[t].pc = "request"
      /\ tasks[t].type = "ensure_exists" /\ ~Hooked(tasks[t])
  BY Reader DEF CreateRequest, Is, Read, Reading, Working, Hooked
<1>2. obj' = Created /\ obj.status = "absent" /\ Accepted(t, "base", "operation")
  BY DEF CreateRequest
<1>3. PICK k \in GoodTasks :
          /\ Saved(t, k) /\ k.pc = "base" /\ k.pc \in Reading /\ k.copy = tasks[t].copy
          /\ k.type = tasks[t].type /\ k.of = tasks[t].of
  BY <1>1, <1>2, AcceptedTyped DEF Links
<1>4. Frame
  BY <1>2, CreatedTyped DEF CreateRequest, Frame, Exempt, history, IType, TypeOK
<1>5. ASSUME Order
      PROVE  /\ Calm(t) /\ Alone(t) /\ Made' /\ k.copy.state # "healthy"
             /\ RowOK(k.copy)' /\ (Watched => Own(k.copy)')
  <2>1. Alone(t) /\ Calm(t) /\ Made'
    BY <1>1, <1>2, <1>5, CreatesAlone, CreatedTyped DEF Calm, Made
  <2>2. k.copy.state # "healthy"
    BY <1>1, <1>2, <1>3, <1>5 DEF Order, TaskOK, CopyOK, RowOK, There
  <2> QED BY <1>1, <1>3, <1>4, <1>5, <2>1, <2>2, CopyKept DEF Frame
<1>6. Covers(k)' /\ k.pc \notin {"request", "found"}
  BY <1>3 DEF Covers
<1>7. k.copy.link = tasks[t].copy.link
  BY <1>3
<1> QED BY <1>1, <1>3, <1>4, <1>5, <1>6, <1>7, SaveKeeps

LEMMA NameTakenKeeps ==
    ASSUME Inv, NEW t \in 1..Slots, NameTaken(t)
    PROVE  Inv'
<1> USE DEF Inv
<1>1. /\ t \in Open /\ Read(t) /\ tasks[t].pc = "request"
      /\ tasks[t].type = "ensure_exists" /\ ~Hooked(tasks[t])
  BY Reader DEF NameTaken, Is, Read, Reading, Working, Hooked
<1>2. Frame /\ obj' = obj
  BY Framed DEF NameTaken
<1>3. CASE Accepted(t, "base", "object")
  <2>1. PICK k \in GoodTasks :
            /\ Saved(t, k) /\ k.pc = "base" /\ k.pc \in Reading /\ k.copy = tasks[t].copy
            /\ k.type = tasks[t].type /\ k.of = tasks[t].of /\ k.answer = "object"
    BY <1>1, <1>3, AcceptedTyped DEF Links
  <2>2. ~Early(k) /\ Covers(k)' /\ k.pc \notin {"request", "found"} /\ Calm(t)
    BY <1>2, <2>1 DEF Early, Covers, Calm
  <2>3. Order => RowOK(k.copy)' /\ (Watched => Own(k.copy)')
    BY <1>1, <1>2, <2>1, <2>2, CopyKept DEF Frame
  <2> QED BY <1>1, <1>2, <2>1, <2>2, <2>3, SaveKeeps
<1>4. CASE Retry(t, "http") \/ Unexpected(t)
  <2>1. Ended(t) /\ ~Handed(tasks[t])
    BY <1>1, <1>4, Reader, RetryEnds, UnexpectedEnds DEF Excs
  <2> QED BY <1>1, <1>2, <2>1, EndKeeps DEF Calm
<1> QED BY <1>3, <1>4 DEF NameTaken

LEMMA CreateFailsKeeps ==
    ASSUME Inv, NEW t \in 1..Slots, CreateFails(t)
    PROVE  Inv'
<1> USE DEF Inv
<1>1. /\ t \in Open /\ Read(t) /\ tasks[t].type = "ensure_exists" /\ ~Hooked(tasks[t])
  BY Reader DEF CreateFails, Is, Read, Reading, Working, Hooked
<1>2. Ended(t) /\ ~Handed(tasks[t])
  BY <1>1, Reader, RetryEnds, UnexpectedEnds DEF CreateFails, Excs
<1>3. obj' = obj \/ (obj.status = "absent" /\ obj' = Created)
  BY DEF CreateFails
<1>4. faults' \in 0..MaxFaults[kind]
  BY ConstantsAssumption DEF CreateFails, Fault, IType, TypeOK
<1>5. Frame
  BY <1>3, <1>4, CreatedTyped DEF CreateFails, Frame, Exempt, history, IType, TypeOK
<1>6. ASSUME Order PROVE Calm(t)
  BY <1>1, <1>3, <1>6, CreatesAlone, CreatedTyped DEF Calm
<1> QED BY <1>1, <1>2, <1>5, <1>6, EndKeeps

LEMMA HookBaseKeeps ==
    ASSUME Inv, NEW t \in 1..Slots, HookBase(t)
    PROVE  Inv'
<1> USE DEF Inv
<1>1. /\ t \in Open /\ Read(t) /\ tasks[t].copy \in Rows /\ tasks[t].pc = "base"
      /\ tasks[t].type = "ensure_exists" /\ tasks[t].answer \in Links
  BY TaskTyped, Reader DEF HookBase, At, Read, Reading, Working, PhaseOK, Creating
<1>2. PICK copy : copy = [tasks[t].copy EXCEPT !.link = tasks[t].answer]
  OBVIOUS
<1>3. /\ copy \in Rows /\ copy.desired = tasks[t].copy.desired
      /\ copy.state = tasks[t].copy.state /\ copy.link = tasks[t].answer
  BY <1>1, <1>2 DEF Rows
<1>4. SaveAs(t, "hook", copy) /\ Frame /\ obj' = obj
  BY <1>2, Framed DEF HookBase
<1>5. PICK k \in GoodTasks :
          /\ Saved(t, k) /\ k.pc = "hook" /\ k.pc \in Reading /\ k.copy = copy
          /\ k.type = tasks[t].type /\ k.of = tasks[t].of /\ k.answer = tasks[t].answer
  BY <1>1, <1>3, <1>4, SavedAs DEF Checking, Creating
<1>6. k.copy.link = "operation" => Hooked(k)
  BY <1>3, <1>5 DEF Hooked
<1>7. ASSUME Order
      PROVE  /\ RowOK(k.copy)' /\ (Watched => Own(k.copy)')
             /\ Early(k) => Alone(t) /\ Made' /\ k.copy.state # "healthy"
  <2>1. TaskOK(t) /\ kind' = kind /\ k.copy.self_id = tasks[t].copy.self_id
    BY <1>1, <1>2, <1>4, <1>5, <1>7 DEF Order, Frame, Rows
  <2>2. RowOK(tasks[t].copy) /\ (Watched => Own(tasks[t].copy))
        /\ row.desired = "healthy" /\ tasks[t].copy.desired = row.desired
    BY <1>1, <2>1 DEF TaskOK, CopyOK, Purpose, Deletes
  <2>3. CASE tasks[t].answer = "operation"
    <3>1. /\ Alone(t) /\ Made /\ tasks[t].copy.state # "healthy" /\ ~Watched
      BY <1>1, <2>1, <2>3 DEF TaskOK, PlaceOK, Early, Alone, Handed, FirstStages, Watched
    <3> QED BY <1>3, <1>4, <1>5, <2>1, <2>2, <2>3, <3>1 DEF RowOK, Decided, There, Made
  <2>4. CASE tasks[t].answer = "object"
    <3>1. Own(tasks[t].copy) => Own(k.copy)'
      BY <1>3, <1>4, <1>5, <2>1, <2>4 DEF Own
    <3>2. ~Early(k)
      BY <1>5, <2>4 DEF Early
    <3> QED BY <1>3, <1>4, <1>5, <2>1, <2>2, <2>4, <3>1, <3>2 DEF RowOK, Decided, There
  <2> QED BY <1>1, <2>3, <2>4 DEF Links
<1>8. Covers(k)' /\ k.pc \notin {"request", "found"} /\ Calm(t)
  BY <1>4, <1>5 DEF Covers, Calm
<1> QED BY <1>1, <1>3, <1>4, <1>5, <1>6, <1>7, <1>8, SaveKeeps

LEMMA HookKeeps ==
    ASSUME Inv, NEW t \in 1..Slots, Hook(t)
    PROVE  Inv'
<1> USE DEF Inv
<1>1. /\ t \in Open /\ Read(t) /\ tasks[t].copy \in Rows /\ tasks[t].pc = "hook"
      /\ tasks[t].type = "ensure_exists"
  BY TaskTyped, Reader DEF Hook, At, Read, Reading, Working, PhaseOK, Creating
<1>2. Frame /\ obj' = obj
  BY Framed DEF Hook
<1>3. CASE tasks[t].answer = "operation"
  <2>1. PICK copy :
           copy = [tasks[t].copy EXCEPT !.self_id = OperationId, !.link = "object"]
    OBVIOUS
  <2>2. /\ copy \in Rows /\ copy.desired = tasks[t].copy.desired
        /\ copy.state = tasks[t].copy.state /\ copy.link = "object"
    BY <1>1, <2>1 DEF Rows, Ids, Links
  <2>3. SaveAs(t, "appear", copy)
    BY <1>3, <2>1 DEF Hook
  <2>4. PICK k \in GoodTasks :
            /\ Saved(t, k) /\ k.pc = "appear" /\ k.pc \in Reading /\ k.copy = copy
            /\ k.type = tasks[t].type /\ k.of = tasks[t].of
    BY <1>1, <2>2, <2>3, SavedAs DEF Checking, Creating
  <2>5. /\ ~Early(k) /\ Covers(k)' /\ k.pc \notin {"request", "found"}
        /\ Calm(t)
    BY <1>2, <2>4 DEF Early, Covers, Calm
  <2>6. ASSUME Order PROVE RowOK(k.copy)' /\ ~Watched
    <3>1. TaskOK(t) /\ tasks[t].copy.state # "healthy" /\ Alone(t)
      BY <1>1, <1>3, <2>6 DEF Order, TaskOK, PlaceOK, Early
    <3>2. k.copy.desired = "healthy" /\ RowOK(tasks[t].copy) /\ k.copy.state # "healthy"
      BY <1>1, <2>2, <2>4, <3>1 DEF TaskOK, Purpose, Deletes, CopyOK
    <3>3. RowOK(k.copy)'
      BY <1>2, <2>2, <2>4, <3>2 DEF RowOK, Decided, There, None
    <3> QED BY <1>1, <3>1, <3>3 DEF Alone, Handed, FirstStages, Watched
  <2>7. k.copy.link # "operation"
    BY <2>2, <2>4
  <2> QED BY <1>1, <1>2, <2>2, <2>4, <2>5, <2>6, <2>7, SaveKeeps
<1>4. CASE tasks[t].answer # "operation"
  <2>1. Ended(t) /\ ~Hooked(tasks[t]) /\ ~Handed(tasks[t])
    BY <1>1, <1>4, Reader, UnexpectedEnds DEF Hook, Hooked
  <2> QED BY <1>1, <1>2, <2>1, EndKeeps DEF Calm
<1> QED BY <1>3, <1>4

\* Polling that ends without the answer that was hoped for.
LEMMA PolledKeeps ==
    ASSUME Inv, NEW t \in 1..Slots, NotAppeared(t) \/ NotHealthy(t) \/ NotYetAbsent(t)
    PROVE  Inv'
<1> USE DEF Inv
<1>1. t \in Open /\ Read(t) /\ ~Hooked(tasks[t])
  BY Reader DEF NotAppeared, NotHealthy, NotYetAbsent, At, Read, Reading, Working, Hooked
<1>2. Frame /\ obj' = obj
  BY Framed DEF NotAppeared, NotHealthy, NotYetAbsent
<1>3. Ended(t) /\ ~Handed(tasks[t])
  BY <1>1, Reader, RetryEnds DEF NotAppeared, NotHealthy, NotYetAbsent, Excs
<1> QED BY <1>1, <1>2, <1>3, EndKeeps DEF Calm

LEMMA RecheckKeeps ==
    ASSUME Inv, NEW t \in 1..Slots, Recheck(t)
    PROVE  Inv'
<1> USE DEF Inv
<1>1. /\ t \in Open /\ Read(t) /\ tasks[t] \in Tasks /\ tasks[t].copy \in Rows
      /\ tasks[t].type = "ensure_healthy" /\ ~Hooked(tasks[t])
  BY TaskTyped, Reader DEF Recheck, Is, Read, Reading, Working, Hooked
<1>2. Frame /\ obj' = obj
  BY Framed DEF Recheck
<1>3. CASE Go(t, "health") /\ row' = row
  <2>1. PICK k : k = [tasks[t] EXCEPT !.pc = "health"]
    OBVIOUS
  <2>2. /\ k \in Tasks /\ k.pc = "health" /\ k.copy = tasks[t].copy
        /\ k.type = tasks[t].type /\ k.of = tasks[t].of
    BY <1>1, <2>1 DEF Tasks, Working
  <2>3. k \in GoodTasks /\ ~Early(k) /\ Put(t, k)
    BY <1>1, <1>3, <2>1, <2>2, Reader
       DEF GoodTasks, PhaseOK, Reading, Working, Creating, Checking, Types, Early, Go
  <2>4. k.pc \notin {"found", "waiting", "free", "closing", "request"} /\ Covers(k)'
    BY <2>2 DEF Covers
  <2> QED BY <1>1, <1>2, <1>3, <2>2, <2>3, <2>4, Reader, StayKeeps
<1>4. CASE SaveAs(t, "health", Identified(tasks[t].copy)) /\ Exists(tasks[t])
  <2>1. PICK copy : copy = Identified(tasks[t].copy)
    OBVIOUS
  <2>2. /\ copy \in Rows /\ copy.desired = tasks[t].copy.desired
        /\ copy.state = tasks[t].copy.state /\ copy.link = "object" /\ copy.self_id = obj.id
    BY <1>1, <2>1 DEF Identified, Rows, Ids, Links, IType, TypeOK
  <2>3. PICK k \in GoodTasks :
            /\ Saved(t, k) /\ k.pc = "health" /\ k.pc \in Reading /\ k.copy = copy
            /\ k.type = tasks[t].type /\ k.of = tasks[t].of
    BY <1>1, <1>4, <2>1, <2>2, SavedAs DEF Checking, Creating
  <2>4. ~Early(k) /\ Covers(k)' /\ k.pc \notin {"request", "found"} /\ Calm(t)
    BY <1>2, <2>3 DEF Early, Covers, Calm
  <2>5. ASSUME Order PROVE RowOK(k.copy)' /\ Own(k.copy)'
    <3>1. RowOK(tasks[t].copy) /\ There
      BY <1>1, <2>5 DEF Order, TaskOK, CopyOK, PlaceOK
    <3>2. k.copy.desired = "healthy"
      BY <1>1, <2>2, <2>3, <2>5 DEF Order, TaskOK, CopyOK, Purpose, Deletes
    <3>3. Own(k.copy)' /\ There'
      BY <1>2, <2>2, <2>3, <3>1 DEF Own, There
    <3> QED BY <1>2, <2>2, <2>3, <3>1, <3>2, <3>3 DEF RowOK, Decided, Frame
  <2>6. k.copy.link # "operation"
    BY <2>2, <2>3
  <2> QED BY <1>1, <1>2, <2>2, <2>3, <2>4, <2>5, <2>6, SaveKeeps
<1>5. CASE Retry(t, "retry")
  BY <1>1, <1>2, <1>5, Reader, RetryEnds, EndKeeps DEF Excs, Calm
<1> QED BY <1>3, <1>4, <1>5 DEF Recheck

LEMMA HealthyKeeps ==
    ASSUME Inv, NEW t \in 1..Slots, Healthy(t)
    PROVE  Inv'
<1> USE DEF Inv
<1>1. /\ t \in Open /\ Read(t) /\ tasks[t].copy \in Rows
      /\ tasks[t].type = "ensure_healthy" /\ ~Hooked(tasks[t])
  BY TaskTyped, Reader
     DEF Healthy, At, Read, Reading, Working, PhaseOK, Checking, Hooked
<1>2. PICK copy : copy = [tasks[t].copy EXCEPT !.state = "healthy"]
  OBVIOUS
<1>3. /\ copy \in Rows /\ copy.desired = tasks[t].copy.desired /\ copy.state = "healthy"
      /\ copy.link = tasks[t].copy.link
  BY <1>1, <1>2 DEF Rows, States
<1>4. SaveAs(t, "healthy", copy) /\ Frame /\ obj' = obj
  BY <1>2, Framed DEF Healthy
<1>5. PICK k \in GoodTasks :
          /\ Saved(t, k) /\ k.pc = "healthy" /\ k.pc \in Reading /\ k.copy = copy
          /\ k.type = tasks[t].type /\ k.of = tasks[t].of
  BY <1>1, <1>3, <1>4, SavedAs DEF Checking, Creating
<1>6. ~Early(k) /\ k.pc \notin {"request", "found"} /\ Calm(t) /\ Watched
  BY <1>1, <1>4, <1>5 DEF Early, Calm, Watched
<1>7. Covers(k)'
  BY <1>4, <1>5 DEF Covers, Healthy, HealthChecks, Frame
<1>8. ASSUME Order PROVE RowOK(k.copy)' /\ Own(k.copy)'
  <2>1. Own(tasks[t].copy) /\ There /\ tasks[t].copy.desired = "healthy"
    BY <1>1, <1>6, <1>8 DEF Order, TaskOK, CopyOK, PlaceOK, Purpose, Deletes
  <2>2. k.copy.self_id = tasks[t].copy.self_id
    BY <1>1, <1>2, <1>5 DEF Rows
  <2>3. Own(k.copy)' /\ There' /\ (kind = "network" => obj'.subnets)
    BY <1>3, <1>4, <1>5, <2>1, <2>2 DEF Own, There, Healthy, HealthChecks
  <2>4. k.copy.desired = "healthy" /\ k.copy.state = "healthy" /\ kind' = kind
    BY <1>3, <1>4, <1>5, <2>1 DEF Frame
  <2> QED BY <1>5, <2>3, <2>4 DEF RowOK, Decided, Own, None
<1> QED BY <1>1, <1>3, <1>4, <1>5, <1>6, <1>7, <1>8, SaveKeeps

LEMMA ToLinksTyped ==
    ASSUME NEW k \in GoodTasks, k.pc \in Checking, NEW links \in SUBSET Subnets
    PROVE  /\ ToLinks(k, links) \in GoodTasks
           /\ ToLinks(k, links).type = k.type /\ ToLinks(k, links).of = k.of
           /\ \/ ToLinks(k, links).pc = "closing" /\ links = {}
              \/ /\ ToLinks(k, links).pc = "subnets"
                 /\ ToLinks(k, links).copy = k.copy
                 /\ ToLinks(k, links).links = links
<1>1. /\ k \in Tasks /\ k.type = "ensure_healthy" /\ k.copy \in Rows /\ k.type \in Types
      /\ k.of \in 1..Slots
  BY DEF GoodTasks, PhaseOK, Checking, Reading, Working, Types
<1>2. CASE links = {}
  BY <1>1, <1>2, MessageTyped DEF ToLinks, Closing
<1>3. CASE links # {}
  <2>1. PICK m : m = [k EXCEPT !.pc = "subnets", !.links = links, !.cur = NoSubnet]
    OBVIOUS
  <2>2. /\ m \in Tasks /\ m.pc = "subnets" /\ m.links = links /\ m.copy = k.copy
        /\ m.type = k.type /\ m.of = k.of
    BY <1>1, <2>1 DEF Tasks, Working
  <2>3. m \in GoodTasks
    BY <1>1, <1>3, <2>2 DEF GoodTasks, PhaseOK, Reading, Working, Creating, Checking
  <2> QED BY <1>3, <2>1, <2>2, <2>3 DEF ToLinks
<1> QED BY <1>2, <1>3

\* On with the links, or to the end.
LEMMA ToLinksKeeps ==
    ASSUME Inv, NEW t \in Open, tasks[t].pc \in Checking, NEW links \in SUBSET Subnets,
           Put(t, ToLinks(tasks[t], links)), row' = row, Frame, obj' = obj,
           (Order /\ ~Exempt' /\ kind = "network") =>
               obj.subnets /\ Subnets \subseteq subnetRows' \cup links
    PROVE  Inv'
<1>1. Read(t) /\ ~Hooked(tasks[t]) /\ ~Handed(tasks[t]) /\ tasks[t] \in GoodTasks
  BY TaskTyped DEF Handed, Inv, Open, Read, Reading, Working, Checking, Hooked
<1>2. PICK k : k = ToLinks(tasks[t], links)
  OBVIOUS
<1>3. /\ k \in GoodTasks /\ k.type = tasks[t].type /\ k.of = tasks[t].of
      /\ \/ k.pc = "closing" /\ links = {}
         \/ k.pc = "subnets" /\ k.copy = tasks[t].copy /\ k.links = links
  BY <1>1, <1>2, ToLinksTyped
<1>4. /\ k.pc \notin {"found", "waiting", "free", "request"} /\ ~Early(k)
      /\ k.pc \in Reading => k.copy = tasks[t].copy
  BY <1>3 DEF Early, Reading, Working
<1>5. Put(t, k)
  BY <1>2
<1>6. ASSUME Order, ~Exempt'
      PROVE  Covers(k)' /\ (kind = "network" /\ k.pc = "closing" => subnetRows' = Subnets)
  BY <1>3, <1>6 DEF Covers, Frame
<1> QED BY <1>1, <1>3, <1>4, <1>5, <1>6, StayKeeps

LEMMA HealthyHookKeeps ==
    ASSUME Inv, NEW t \in 1..Slots, HealthyHook(t)
    PROVE  Inv'
<1> USE DEF Inv
<1>1. /\ t \in Open /\ tasks[t].pc \in Checking /\ tasks[t].pc = "healthy" /\ Read(t)
      /\ tasks[t].type = "ensure_healthy"
  BY TaskTyped, Reader DEF HealthyHook, At, Checking, Read, Reading, Working, PhaseOK
<1>2. PICK links \in SUBSET Subnets :
         /\ Put(t, ToLinks(tasks[t], links))
         /\ links = IF kind = "network" /\ Exists(tasks[t]) /\ obj.subnets THEN Subnets ELSE {}
  BY DEF HealthyHook
<1>3. Frame /\ obj' = obj /\ row' = row
  BY Framed DEF HealthyHook
<1>4. ASSUME Order, kind = "network" PROVE obj.subnets /\ links = Subnets
  <2>1. obj.subnets /\ There /\ Own(tasks[t].copy)
    BY <1>1, <1>4 DEF Order, TaskOK, CopyOK, PlaceOK, Covers, Watched
  <2>2. Exists(tasks[t])
    BY <1>4, <2>1 DEF Order, There, Own, Exists, Listed
  <2> QED BY <1>2, <1>4, <2>1, <2>2
<1> QED BY <1>1, <1>2, <1>3, <1>4, ToLinksKeeps

LEMMA QuerySubnetKeeps ==
    ASSUME Inv, NEW t \in 1..Slots, QuerySubnet(t)
    PROVE  Inv'
<1> USE DEF Inv
<1>1. /\ t \in Open /\ tasks[t].pc \in Checking /\ Read(t) /\ ~Hooked(tasks[t])
      /\ tasks[t] \in Tasks /\ tasks[t].copy \in Rows /\ tasks[t].type = "ensure_healthy"
      /\ tasks[t].links # {} /\ tasks[t].links \subseteq Subnets
  BY TaskTyped, Reader
     DEF QuerySubnet, At, Read, Reading, Working, PhaseOK, Checking, Hooked, Tasks
<1>2. PICK s \in Subnets :
         s \in tasks[t].links /\ s = CHOOSE x \in Subnets : x \in tasks[t].links
  BY <1>1
<1>3. PICK left \in SUBSET Subnets : left = tasks[t].links \ {s}
  BY <1>1
<1>4. /\ Put(t, IF s \in subnetRows THEN ToLinks(tasks[t], left)
                ELSE [tasks[t] EXCEPT !.pc = "insert", !.links = left, !.cur = s])
      /\ row' = row
  BY <1>2, <1>3 DEF QuerySubnet
<1>5. Frame /\ obj' = obj
  BY Framed DEF QuerySubnet
<1>6. CASE s \in subnetRows
  <2>1. ASSUME Order, kind = "network"
        PROVE  obj.subnets /\ Subnets \subseteq subnetRows' \cup left
    BY <1>1, <1>2, <1>3, <1>5, <1>6, <2>1
       DEF Order, TaskOK, PlaceOK, Covers, QuerySubnet, At
  <2> QED BY <1>1, <1>4, <1>5, <1>6, <2>1, ToLinksKeeps
<1>7. CASE s \notin subnetRows
  <2>1. PICK k : k = [tasks[t] EXCEPT !.pc = "insert", !.links = left, !.cur = s]
    OBVIOUS
  <2>2. /\ k \in Tasks /\ k.pc = "insert" /\ k.copy = tasks[t].copy
        /\ k.type = tasks[t].type /\ k.of = tasks[t].of /\ k.cur = s /\ k.links = left
    BY <1>1, <2>1 DEF Tasks, Working
  <2>3. k \in GoodTasks /\ ~Early(k)
    BY <1>1, <2>2, Reader
       DEF GoodTasks, PhaseOK, Reading, Working, Creating, Checking, Types, Early
  <2>4. Put(t, k)
    BY <1>4, <1>7, <2>1
  <2>5. ASSUME Order PROVE Covers(k)'
    BY <1>1, <1>2, <1>3, <1>5, <2>2, <2>5
       DEF Order, TaskOK, PlaceOK, Covers, QuerySubnet, At, Frame
  <2> QED BY <1>1, <1>4, <1>5, <2>2, <2>3, <2>4, <2>5, Reader, StayKeeps
<1> QED BY <1>6, <1>7

LEMMA InsertSubnetKeeps ==
    ASSUME Inv, NEW t \in 1..Slots, InsertSubnet(t)
    PROVE  Inv'
<1> USE DEF Inv
<1>1. /\ t \in Open /\ tasks[t].pc \in Checking /\ ~Hooked(tasks[t]) /\ ~Handed(tasks[t])
      /\ tasks[t].cur \in Subnets /\ tasks[t].links \in SUBSET Subnets
  BY TaskTyped, Reader DEF InsertSubnet, At, PhaseOK, Checking, Hooked, Handed, Tasks
<1>2. Frame /\ obj' = obj
  BY <1>1 DEF InsertSubnet, Frame, Exempt, history, IType, TypeOK
<1>3. CASE tasks[t].cur \in subnetRows
  <2>1. Ended(t)
    BY <1>1, <1>3, UnexpectedEnds DEF InsertSubnet
  <2> QED BY <1>1, <1>2, <2>1, EndKeeps DEF Calm
<1>4. CASE tasks[t].cur \notin subnetRows
  <2>1. PICK links \in SUBSET Subnets : links = tasks[t].links
    BY <1>1
  <2>2. Put(t, ToLinks(tasks[t], links)) /\ row' = row
    BY <1>4, <2>1 DEF InsertSubnet
  <2>3. subnetRows' = subnetRows \cup {tasks[t].cur} /\ tasks[t].pc = "insert"
    BY <1>4 DEF InsertSubnet, At
  <2>4. ASSUME Order, kind = "network"
        PROVE  obj.subnets /\ Subnets \subseteq subnetRows' \cup links
    BY <1>1, <2>1, <2>3, <2>4 DEF Order, TaskOK, PlaceOK, Covers
  <2> QED BY <1>1, <1>2, <2>2, <2>4, ToLinksKeeps
<1> QED BY <1>3, <1>4

\* 'deleted' is saved where nothing is listed: what is still there by then is
\* accounted for by blind.
LEMMA AbsentKeeps ==
    ASSUME Inv, NEW t \in 1..Slots, Absent(t)
    PROVE  Inv'
<1> USE DEF Inv
<1>1. /\ t \in Open /\ Read(t) /\ tasks[t] \in Tasks /\ tasks[t].copy \in Rows
      /\ tasks[t].type = "ensure_deleted" /\ ~Hooked(tasks[t]) /\ ~Handed(tasks[t])
      /\ tasks[t].of \in 1..Slots /\ Missing(tasks[t])
  BY TaskTyped, Reader
     DEF Absent, Is, At, Read, Reading, Working, PhaseOK, Hooked
<1>2. PICK k : k = Closing(tasks[t])
  OBVIOUS
<1>3. k \in GoodTasks /\ k.pc = "closing" /\ k.type = tasks[t].type /\ k.of = tasks[t].of
  BY <1>1, <1>2, MessageTyped DEF Closing, Types
<1>4. /\ row' \in Rows /\ row'.desired = tasks[t].copy.desired
      /\ row'.state = "deleted" /\ row'.link = tasks[t].copy.link
  BY <1>1 DEF Absent, Rows, States
<1>5. /\ Moved(t, k) /\ obj' = obj
      /\ blind' = (blind \/ obj.status \in {"pending", "hidden"})
  BY <1>2, PutMoves DEF Absent
<1>6. Frame
  BY <1>5 DEF Absent, Frame, Exempt, IType, TypeOK
<1>7. k.pc \notin Reading /\ ~Early(k) /\ Covers(k)' /\ k.pc \notin {"found", "request"}
  BY <1>3 DEF Reading, Working, Early, Covers
<1>8. ASSUME Order, ~Exempt' PROVE Allowed(t, k)
  <2>1. TaskOK(t) /\ Calm(t) /\ kind' = kind
    BY <1>1, <1>5, <1>6, <1>8 DEF Order, Calm, Frame
  <2>2. /\ row.desired = "deleted" /\ tasks[t].copy.desired = "deleted" /\ RowOK(tasks[t].copy)
        /\ (tasks[t].copy.link = "operation" /\ ~torn') => FALSE
    BY <1>1, <1>6, <2>1 DEF TaskOK, Purpose, Deletes, CopyOK, Frame
  <2>3. ~Watched
    BY <1>8, <2>2 DEF Order, TaskOK, Purpose, Deletes, Watched
  <2>4. tasks[t].copy.link = "object" => Gone'
    <3>1. SUFFICES ASSUME tasks[t].copy.link = "object" PROVE Gone
      BY <1>5, <2>1 DEF Gone
    <3>2. obj.status \in Statuses /\ obj.status \notin {"pending", "hidden"}
      BY <1>5, <1>8 DEF Exempt, IType, TypeOK
    <3> QED BY <1>1, <3>1, <3>2 DEF Missing, Exists, Listed, Statuses, Gone
  <2>5. RowOK(row)'
    BY <1>4, <1>5, <2>2, <2>4 DEF RowOK, Decided, Made
  <2> QED BY <1>1, <1>3, <1>4, <1>7, <2>1, <2>2, <2>3, <2>5 DEF Allowed
<1> QED BY <1>1, <1>3, <1>4, <1>5, <1>6, <1>8, MoveKeeps

LEMMA DeleteRequestKeeps ==
    ASSUME Inv, NEW t \in 1..Slots, DeleteRequest(t)
    PROVE  Inv'
<1> USE DEF Inv
<1>1. /\ t \in Open /\ Read(t) /\ tasks[t] \in Tasks /\ tasks[t].copy \in Rows
      /\ tasks[t].type = "ensure_deleted" /\ tasks[t].pc = "request"
      /\ ~Hooked(tasks[t]) /\ ~Handed(tasks[t])
  BY TaskTyped, Reader
     DEF DeleteRequest, Is, Read, Reading, Working, Hooked
<1>2. CASE obj.status \in {"pending", "live", "hidden"}
  <2>1. Accepted(t, "absence", None) /\ obj' = [obj EXCEPT !.status = "stopping"]
    BY <1>2 DEF DeleteRequest
  <2>2. PICK k \in GoodTasks :
            /\ Saved(t, k) /\ k.pc = "absence" /\ k.pc \in Reading /\ k.copy = tasks[t].copy
            /\ k.type = tasks[t].type /\ k.of = tasks[t].of
    BY <1>1, <2>1, AcceptedTyped
  <2>5. Frame
    BY <1>2, <2>1 DEF DeleteRequest, Frame, Exempt, history, IType, TypeOK, Statuses
  <2>6. Calm(t)
    BY <1>1, <1>2, <2>1 DEF Calm, Made, Stopping, DeleteRequest, Is
  <2>7. Order => RowOK(k.copy)' /\ (Watched => Own(k.copy)')
    BY <1>1, <2>2, <2>5, <2>6, CopyKept DEF Frame
  <2>8. Covers(k)' /\ ~Early(k) /\ k.pc \notin {"request", "found"}
    BY <2>2 DEF Covers, Early
  <2> QED BY <1>1, <2>2, <2>5, <2>6, <2>7, <2>8, SaveKeeps
<1>3. CASE obj.status \notin {"pending", "live", "hidden"}
  <2>1. Frame /\ obj' = obj
    BY <1>3, Framed DEF DeleteRequest
  <2>2. Ended(t)
    BY <1>1, <1>3, RetryEnds, UnexpectedEnds DEF DeleteRequest, Excs
  <2> QED BY <1>1, <2>1, <2>2, EndKeeps DEF Calm
<1> QED BY <1>2, <1>3

LEMMA DeleteFailsKeeps ==
    ASSUME Inv, NEW t \in 1..Slots, DeleteFails(t)
    PROVE  Inv'
<1> USE DEF Inv
<1>1. /\ t \in Open /\ Read(t) /\ tasks[t].type = "ensure_deleted"
      /\ ~Hooked(tasks[t]) /\ ~Handed(tasks[t])
  BY Reader DEF DeleteFails, Is, Read, Reading, Working, Hooked
<1>2. Ended(t)
  BY <1>1, RetryEnds, UnexpectedEnds DEF DeleteFails, Excs
<1>3. obj' = obj \/ (Made /\ obj' = Stopping)
  BY DEF DeleteFails, Made, Stopping
<1>4. faults' \in 0..MaxFaults[kind]
  BY ConstantsAssumption DEF DeleteFails, Fault, IType, TypeOK
<1>5. Frame
  BY <1>3, <1>4 DEF DeleteFails, Stopping, Frame, Exempt, history, IType, TypeOK, Statuses
<1>6. Calm(t)
  BY <1>1, <1>3 DEF Calm, DeleteFails, Is
<1> QED BY <1>1, <1>2, <1>5, <1>6, EndKeeps

-------------------------------------------------------------------------------
(* The user, the daemon and the provider *)

LEMMA ApplyKeeps ==
    ASSUME Inv, NEW want \in {"healthy", "deleted"}, Apply(want)
    PROVE  Inv'
<1> USE DEF Inv
<1>1. /\ row' \in Rows /\ row'.desired = want
      /\ row'.state = IF want = "healthy" THEN "declared" ELSE "unknown"
      /\ row'.link = row.link
  BY DEF Apply, Rows, States, IType, TypeOK
<1>2. UNCHANGED <<kind, subnetRows, tasks, trans, obj, others, torn, blind, doubled, faults>>
  BY DEF Apply, history
<1>3. applies' \in 0..MaxApplies[kind]
  BY ConstantsAssumption DEF Apply, IType, TypeOK
<1>4. IType' /\ TimeoutKept'
  BY <1>1, <1>2, <1>3 DEF IType, TypeOK, TasksOK, TimeoutKept, Open, At, Timed
<1>5. ASSUME Order PROVE Order'
  <2>1. Open = {} /\ Open' = {} /\ RowOK(row)
    BY <1>2, <1>5 DEF Apply, Settled, Open, Order
  <2>2. RowOK(row)' /\ Known'
    BY <1>1, <1>2, <2>1 DEF RowOK, Decided, Made, Known, None
  <2>3. (obj.status = "stopping" /\ kind # "instance")' => FALSE
    <3>1. SUFFICES ASSUME obj.status = "stopping", kind # "instance" PROVE FALSE
      BY <1>2
    <3>2. row.desired = "deleted" /\ row.state # "creation_terminated"
      BY <1>5, <2>1, <3>1 DEF Order, RowOK, Decided
    <3>3. row.state = "deleted" /\ row.link \in Links
      BY <3>2 DEF Apply, Settled, None, IType, TypeOK, Rows
    <3> QED BY <2>1, <3>1, <3>3 DEF RowOK, Gone, Made, Links
  <2>4. (obj.status = "hidden" => kind = "instance")'
    BY <1>2, <1>5 DEF Order
  <2>5. row'.link = "operation" => torn'
    BY <1>1, <1>2, <1>5, <2>1 DEF Order
  <2>6. Lone'
    BY <1>2, <1>5, <2>1 DEF Order, Lone
  <2> QED BY <2>1, <2>2, <2>3, <2>4, <2>5, <2>6 DEF Order, Single, Watched
<1> QED BY <1>2, <1>4, <1>5 DEF InOrder, Exempt

\* The first transition of a pipeline.
LEMMA DaemonKeeps ==
    ASSUME Inv, Daemon
    PROVE  Inv'
<1> USE DEF Inv
<1>1. PICK u : u = Slot
  OBVIOUS
<1>2. u \in 1..Slots /\ u \notin Open
  BY <1>1, SlotFree DEF Daemon
<1>3. PICK type \in Types : type = InitialType
  BY DEF InitialType, Types, FirstStages
<1>4. type # "ensure_healthy" /\ (row.desired = "deleted" <=> Deletes(type))
  BY <1>3 DEF InitialType, Deletes
<1>5. PICK k : k = New(u, type)
  OBVIOUS
<1>6. k \in GoodTasks /\ k.pc = "pending" /\ k.type = type /\ k.of = u
  BY <1>2, <1>5, FreeGood
<1>7. Put(u, k) /\ UNCHANGED <<kind, row, subnetRows, trans, obj, others, torn, blind, doubled>>
  BY <1>1, <1>3, <1>5 DEF Daemon, Put, history
<1>8. /\ tasks' \in [1..Slots -> GoodTasks]
      /\ tasks'[u] = k /\ \A s \in (1..Slots) \ {u} : tasks'[s] = tasks[s]
  BY <1>2, <1>6, <1>7 DEF Put, IType, TasksOK, GoodTasks
<1>9. IType' /\ TimeoutKept'
  <2>1. Frame /\ row' \in Rows /\ trans' \in Transitions
    BY <1>7, Framed DEF Daemon, IType, TypeOK
  <2>2. \A s \in 1..Slots :
           tasks'[s] = tasks[s] \/ (tasks'[s].pc = "waiting" => InTime(tasks'[s]))
    BY <1>6, <1>8
  <2> QED BY <1>8, <2>1, <2>2, TypesKept
<1>10. ASSUME Order PROVE Order'
  <2>1. Open = {}
    BY <1>10, TaskTyped DEF Daemon, Outstanding, Order, Lone, Open, PhaseOK
  <2>2. Open' = {u}
    BY <1>2, <1>6, <1>8, <2>1 DEF Open
  <2>3. RowOK(row)' /\ (row.link = "operation" => torn)
    BY <1>7, <1>10, <2>1 DEF Order, RowOK, Decided, Own, Gone, There, Made
  <2>4. /\ (obj.status = "stopping" /\ kind # "instance")' => row'.desired = "deleted"
        /\ (obj.status = "hidden" => kind = "instance")'
    BY <1>7, <1>10 DEF Order
  <2>5. TaskOK(u)'
    BY <1>4, <1>6, <1>7, <1>8
       DEF Daemon, TaskOK, Purpose, CopyOK, PlaceOK, Covers, Read, Reading, Working, Early
  <2>6. Known' /\ ~Watched'
    BY <1>4, <1>6, <1>8, <2>2 DEF Known, Watched
  <2>7. Single' /\ Lone'
    BY <1>6, <1>7, <1>8, <1>10, <2>2 DEF Order, Single, Lone
  <2> QED BY <1>7, <2>2, <2>3, <2>4, <2>5, <2>6, <2>7 DEF Order
<1> QED BY <1>7, <1>9, <1>10 DEF InOrder, Exempt

LEMMA ProviderKeeps ==
    ASSUME Inv, Provider
    PROVE  Inv'
<1> USE DEF Inv
<1>1. UNCHANGED <<kind, row, subnetRows, tasks, trans, others, torn, blind, doubled, applies>>
  BY DEF Provider, history
<1>2. faults' \in 0..MaxFaults[kind]
  BY ConstantsAssumption
     DEF Provider, Appear, GetSubnets, Vanish, Stop, Restarted, Fault, IType, TypeOK
<1>3. obj' \in [status : Statuses, id : Nat, subnets : BOOLEAN]
  BY DEF Provider, Appear, GetSubnets, Vanish, Stop, Restarted, Become, Statuses, IType, TypeOK
<1>4. /\ Gone => Gone'
      /\ There => There'
      /\ Made => Made'
      /\ obj'.id = obj.id
      /\ obj.subnets => obj'.subnets
      /\ obj'.status = "stopping" => obj.status = "stopping"
      /\ obj'.status = "hidden" => obj.status = "hidden" \/ kind = "instance"
  BY <1>1 DEF Provider, Appear, GetSubnets, Vanish, Stop, Restarted, Become, Gone, There, Made,
              IType, TypeOK
<1>5. IType' /\ TimeoutKept'
  BY <1>1, <1>2, <1>3 DEF IType, TypeOK, TasksOK, TimeoutKept, Open, At, Timed
<1>6. ASSUME Order PROVE Order'
  <2>1. Open' = Open /\ (Watched' <=> Watched)
    BY <1>1 DEF Open, Watched
  <2>2. ASSUME NEW r, RowOK(r) PROVE RowOK(r)' /\ (Own(r) => Own(r)')
    BY <1>1, <1>4, <2>2 DEF RowOK, Decided, Own
  <2>3. RowOK(row)' /\ (Watched => Own(row))'
    <3>1. RowOK(row) /\ (Watched => Own(row))
      BY <1>6 DEF Order
    <3>2. PICK r : r = row
      OBVIOUS
    <3> QED BY <1>1, <2>1, <2>2, <3>1, <3>2 DEF RowOK, Decided, Own
  <2>4. ASSUME NEW s \in Open PROVE TaskOK(s)'
    <3>1. TaskOK(s)
      BY <1>6 DEF Order
    <3>2. PICK k : k = tasks[s]
      OBVIOUS
    <3>3. CopyOK(s)'
      <4>1. SUFFICES ASSUME Read(s) PROVE RowOK(k.copy)' /\ (Watched => Own(k.copy)')
        BY <1>1, <2>1, <3>1, <3>2 DEF TaskOK, CopyOK, Read, RowOK, Decided, Own, Hooked
      <4>2. RowOK(k.copy) /\ (Watched => Own(k.copy))
        BY <3>1, <3>2, <4>1 DEF TaskOK, CopyOK
      <4> QED BY <2>2, <4>2
    <3>4. PlaceOK(s)'
      BY <1>1, <1>4, <2>1, <3>1 DEF TaskOK, PlaceOK, Covers, Early, Alone, Handed
    <3> QED BY <1>1, <3>1, <3>3, <3>4 DEF TaskOK, Purpose
  <2>5. Known' /\ Single' /\ Lone'
    BY <1>1, <1>6, <2>1 DEF Order, Known, Single, Builds, Handed, Lone
  <2> QED BY <1>1, <1>4, <1>6, <2>1, <2>3, <2>4, <2>5 DEF Order, Hooked
<1> QED BY <1>1, <1>5, <1>6 DEF InOrder, Exempt

\* A memo is forgotten; nothing asks for it but the transition's next try.
LEMMA MemoExpiresKeeps ==
    ASSUME Inv, NEW i \in 1..Slots, MemoExpires(i)
    PROVE  Inv'
<1> USE DEF Inv
<1>1. /\ UNCHANGED <<kind, row, subnetRows, tasks, obj, others, torn, blind, doubled>>
      /\ UNCHANGED <<applies, faults>>
  BY DEF MemoExpires, history
<1>2. PICK new : new = [trans[i] EXCEPT !.memo = FALSE]
  OBVIOUS
<1>3. trans \in Transitions /\ trans' = [trans EXCEPT ![i] = new]
  BY <1>2 DEF MemoExpires, IType, TypeOK
<1>4. new \in [ended : BOOLEAN, memo : BOOLEAN] /\ new.ended = trans[i].ended
  BY <1>2, <1>3 DEF Transitions
<1>5. trans' \in Transitions /\ \A s \in 1..Slots : trans'[s].ended = trans[s].ended
  BY <1>3, <1>4 DEF Transitions
<1>6. IType' /\ TimeoutKept'
  BY <1>1, <1>5 DEF IType, TypeOK, TasksOK, TimeoutKept, Open, At, Timed
<1>7. Order => Order'
  BY <1>1, <1>5
     DEF Order, Single, Builds, Handed, Lone, Known, Watched, Open, TaskOK, Purpose, CopyOK,
         PlaceOK, Alone, Covers, Read, RowOK, Decided, Own, Gone, There, Made, Early, Hooked
<1> QED BY <1>1, <1>6, <1>7 DEF InOrder, Exempt

\* Nothing the invariant speaks of, but others and faults.
LEMMA RestKeeps ==
    ASSUME Inv, OthersGo \/ UNCHANGED vars
    PROVE  Inv'
<1> USE DEF Inv
<1>1. UNCHANGED <<kind, row, subnetRows, tasks, trans, obj, torn, blind, doubled, applies>>
  BY DEF OthersGo, vars, history
<1>2. others' \in BOOLEAN
  BY DEF OthersGo, vars, IType, TypeOK
<1>3. faults' \in 0..MaxFaults[kind]
  <2>1. MaxFaults[kind] \in Nat /\ faults \in 0..MaxFaults[kind]
    BY ConstantsAssumption DEF IType, TypeOK
  <2>2. faults' = faults \/ Fault
    BY DEF OthersGo, vars
  <2> QED BY <2>1, <2>2 DEF Fault
<1>4. IType' /\ TimeoutKept'
  BY <1>1, <1>2, <1>3 DEF IType, TypeOK, TasksOK, TimeoutKept, Open, At, Timed
<1>5. Order => Order'
  BY <1>1
     DEF Order, Single, Builds, Handed, Lone, Known, Watched, Open, TaskOK, Purpose, CopyOK,
         PlaceOK, Alone, Covers, Read, RowOK, Decided, Own, Gone, There, Made, Early, Hooked
<1> QED BY <1>1, <1>4, <1>5 DEF InOrder, Exempt

-------------------------------------------------------------------------------
(* The invariant *)

LEMMA InitInv == Init => Inv
<1> SUFFICES ASSUME Init PROVE Inv
  OBVIOUS
<1>1. tasks \in [1..Slots -> GoodTasks] /\ tasks \in [1..Slots -> Tasks] /\ Open = {}
  BY FreeGood DEF Init, GoodTasks, Open
<1>2. MaxApplies[kind] \in Nat /\ MaxFaults[kind] \in Nat
  BY ConstantsAssumption DEF Init
<1>3. row \in Rows
  BY DEF Init, Rows, States, Links, Ids, None, NoId
<1>4. TypeOK
  <2>1. kind \in Kinds /\ subnetRows \subseteq Subnets
    BY DEF Init
  <2>2. obj \in [status : Statuses, id : Nat, subnets : BOOLEAN]
    BY DEF Init, Statuses, NoId
  <2>3. others = TRUE /\ torn = FALSE /\ blind = FALSE /\ doubled = FALSE
    BY DEF Init
  <2>4. applies \in 0..MaxApplies[kind] /\ faults \in 0..MaxFaults[kind]
    BY <1>2 DEF Init
  <2>5. trans \in Transitions
    BY DEF Init, Transitions, Fresh
  <2> QED BY <1>1, <1>3, <2>1, <2>2, <2>3, <2>4, <2>5 DEF TypeOK
<1>5. Lone
  BY <1>1 DEF Init, Lone, Fresh
<1>6. Order
  BY <1>1, <1>5 DEF Init, Order, RowOK, Decided, Single, Known, Watched, None
<1> QED BY <1>1, <1>4, <1>6 DEF Inv, IType, TasksOK, TimeoutKept, InOrder

LEMMA NextInv == Inv /\ [Next]_vars => Inv'
<1> SUFFICES ASSUME Inv, [Next]_vars PROVE Inv'
  OBVIOUS
<1>1. ASSUME NEW t \in 1..Slots, Step(t) PROVE Inv'
  BY <1>1, SubmitKeeps, ReceiveKeeps, SucceedKeeps, ListingKeeps, ProceedKeeps, FoundKeeps,
     HandOverKeeps,
     ToRequestKeeps, MemoHitKeeps, CreateRequestKeeps, NameTakenKeeps, HookBaseKeeps,
     HookKeeps, PolledKeeps, RecheckKeeps, HealthyKeeps, HealthyHookKeeps,
     QuerySubnetKeeps, InsertSubnetKeeps, AbsentKeeps, DeleteRequestKeeps
  DEF Step
<1>2. ASSUME NEW t \in 1..Slots, Disturbance(t) PROVE Inv'
  BY <1>2, ListingKeeps, CreateFailsKeeps, DeleteFailsKeeps, LateKeeps, CrashKeeps,
     TwinKeeps
  DEF Disturbance
<1>3. ASSUME NEW t \in 1..Slots, MemoExpires(t) PROVE Inv'
  BY <1>3, MemoExpiresKeeps
<1>4. ASSUME NEW want \in {"healthy", "deleted"}, Apply(want) PROVE Inv'
  BY <1>4, ApplyKeeps
<1>5. CASE Daemon
  BY <1>5, DaemonKeeps
<1>6. CASE Provider
  BY <1>6, ProviderKeeps
<1>7. CASE OthersGo \/ UNCHANGED vars
  BY <1>7, RestKeeps
<1> QED BY <1>1, <1>2, <1>3, <1>4, <1>5, <1>6, <1>7 DEF Next

LEMMA AlwaysInv == Spec => []Inv
BY InitInv, NextInv, PTL DEF Spec

LEMMA DeletedGone ==
    ASSUME Inv, row.state = "deleted", ~torn, ~Exempt
    PROVE  Gone
<1>1. Order /\ IType
  BY DEF Inv, InOrder
<1>2. row.link # "operation"
  <2> SUFFICES ASSUME row.link = "operation" PROVE FALSE
    OBVIOUS
  <2>1. PICK t \in Open : Hooked(tasks[t])
    BY <1>1 DEF Order
  <2>2. tasks[t].type = "ensure_exists"
    BY <1>1, <2>1, TaskTyped DEF Open, Hooked, PhaseOK, Creating
  <2> QED BY <1>1, <2>1, <2>2 DEF Order, TaskOK, Purpose, Deletes, RowOK, Decided
<1>3. row.link = "object"
  BY <1>1, <1>2 DEF IType, TypeOK, Rows, Links
<1> QED BY <1>1, <1>3 DEF Order, RowOK

\* The variables hold what the code can put there, for every bound.
THEOREM ProvisioningTypeCorrect == Spec => []TypeOK
<1>1. Inv => TypeOK
  BY DEF Inv, IType
<1> QED BY <1>1, AlwaysInv, PTL

\* get_next_retry_countdown lets no transition with a total_timeout wait past
\* it for longer than the longest countdown, unless its age has wrapped at a
\* day: however late messages are, however often workers are lost, and beside
\* every second execution of a stage.
THEOREM TimeoutIsKept == Spec => []TimeoutKept
<1>1. Inv => TimeoutKept
  BY DEF Inv
<1> QED BY <1>1, AlwaysInv, PTL

\* While no stage was executed twice after it handed over or scheduled its retry,
\* no worker was lost between the hooks and no object was taken for deleted, the
\* selfLink of an operation is in the row only between exists_hook_base and
\* exists_hook: crashes anywhere else, which repeat a try, and the copies several
\* ensure_healthy read earlier do not bring it back.
THEOREM LinkIsOwn == Spec => []LinkOwn
<1>1. Inv => LinkOwn
  BY DEF Inv, InOrder, Exempt, Order, LinkOwn, Hooked, At
<1> QED BY <1>1, AlwaysInv, PTL

\* A row is called deleted only when the object of that name is gone, or its
\* deletion goes on, with the same three exceptions.
THEOREM DeletedMeansGone == Spec => []DeletedIsGone
<1>1. Inv => DeletedIsGone
  BY DeletedGone DEF DeletedIsGone, Gone, Exempt
<1> QED BY <1>1, AlwaysInv, PTL

\* The health checks and the hooks let no resource be called healthy, by a task
\* that read its row earlier either, that lacks the identifiers of the object
\* there is now, or a network its subnetworks, until an object is taken for
\* deleted or a stage is executed twice. A worker that is lost between the hooks
\* is no exception here.
THEOREM HealthyMeansReady == Spec => []HealthyIsReady
<1>1. Inv => HealthyIsReady
  BY DEF Inv, InOrder, Exempt, Order, RowOK, Own, There, HealthyIsReady
<1> QED BY <1>1, AlwaysInv, PTL

\* healthy_hook is cut short, repeated and run beside the hook of a second
\* ensure_healthy, and still a network that is healthy, with nothing under way,
\* has a row for each subnetwork, with the exceptions of HealthyMeansReady.
THEOREM SubnetsAreKnown == Spec => []SubnetsKnown
<1>1. Inv => SubnetsKnown
  BY DEF Inv, InOrder, Exempt, Order, Known, Settled, SubnetsKnown
<1> QED BY <1>1, AlwaysInv, PTL
-------------------------------------------------------------------------------
(* The lifecycle *)

\* No step of a task changes what is desired.
LEMMA LeftDesired ==
    ASSUME Order, NEW t \in Open, Left(t)
    PROVE  row'.desired = row.desired
BY DEF Left, Order, TaskOK, CopyOK

LEMMA CopyDesired ==
    ASSUME Order, NEW t \in Open, Read(t)
    PROVE  tasks[t].copy.desired = row.desired
BY DEF Order, TaskOK, CopyOK

LEMMA TaskDesires ==
    ASSUME Inv, Order, NEW t \in 1..Slots, Step(t) \/ Disturbance(t)
    PROVE  row'.desired = row.desired
<1>1. IType
  BY DEF Inv
<1>2. tasks[t].pc # "free" => t \in Open
  BY <1>1, Reader
<1>3. ASSUME tasks[t].pc # "free", Ended(t) PROVE row'.desired = row.desired
  BY <1>2, <1>3, LeftDesired DEF Ended
<1>4. CASE \/ Submit(t) \/ Succeed(t) \/ HealthyHook(t) \/ QuerySubnet(t)
           \/ Late(t) \/ Crash(t) \/ Twin(t)
  BY <1>4 DEF Submit, Succeed, HealthyHook, QuerySubnet, Late, Crash, Twin
<1>5. CASE Receive(t)
  <2>1. tasks[t].pc # "free" /\ t \in Open
    BY <1>2, <1>5 DEF Receive, Idle
  <2>2. t \in Outstanding /\ tasks[t].begun /\ tasks[t].retries = 0 => Ended(t)
    BY <1>1, <1>5, <2>1, ReceiveEnds
  <2> QED BY <1>3, <1>5, <2>1, <2>2 DEF Receive
<1>6. CASE ~Read(t)
  BY <1>4, <1>5, <1>6
     DEF Step, Disturbance, ListingBroken, ListingFails, Lists, Proceed, Found, HandOver,
         ToRequest, MemoHit, Attempts, CreateRequest, NameTaken, HookBase, Hook, NotAppeared, Recheck, Healthy, NotHealthy,
         InsertSubnet, Absent, DeleteRequest, NotYetAbsent, CreateFails, DeleteFails,
         Is, At, Read, Reading, Working
<1>7. CASE Read(t)
  <2>1. /\ tasks[t].pc # "free" /\ t \in Open /\ tasks[t].copy \in Rows
        /\ tasks[t].copy.desired = row.desired /\ tasks[t] \in Tasks
    BY <1>1, <1>7, TaskTyped, Reader, CopyDesired
  <2>2. CASE \/ ListingBroken(t) \/ ListingFails(t) \/ MemoHit(t) \/ NotAppeared(t)
             \/ NotHealthy(t) \/ NotYetAbsent(t) \/ CreateFails(t) \/ DeleteFails(t)
    BY <1>1, <1>3, <1>7, <2>1, <2>2, UnexpectedEnds, RetryEnds
       DEF ListingBroken, ListingFails, MemoHit, NotAppeared, NotHealthy, NotYetAbsent,
           CreateFails, DeleteFails, Excs
  <2>3. CASE \/ Found(t) \/ HookBase(t) \/ Healthy(t) \/ HandOver(t) \/ Absent(t)
             \/ Proceed(t) \/ ToRequest(t)
    <3>1. PICK copy : copy = tasks[t].copy
      OBVIOUS
    <3>2. \E r \in {[copy EXCEPT !.state = "exists"], [copy EXCEPT !.link = tasks[t].answer],
                    [copy EXCEPT !.state = "healthy"], Identified(copy),
                    [copy EXCEPT !.state = "deleted"], copy} : row' = r
      BY <2>1, <2>3, <3>1
         DEF Found, HookBase, Healthy, HandOver, Absent, Proceed, ToRequest, SaveAs, Save, Tasks
    <3>3. copy \in Rows /\ copy.desired = row.desired
      BY <2>1, <3>1
    <3>4. PICK answer : answer = tasks[t].answer
      OBVIOUS
    <3> HIDE <3>1
    <3> QED BY <3>2, <3>3, <3>4 DEF Identified, Rows
  <2>4. CASE CreateRequest(t) \/ NameTaken(t) \/ DeleteRequest(t)
    <3>1. \A pc, answer : Accepted(t, pc, answer) => row' = tasks[t].copy
      BY DEF Accepted
    <3> QED BY <1>1, <1>3, <1>7, <2>1, <2>4, <3>1, UnexpectedEnds, RetryEnds
            DEF CreateRequest, NameTaken, DeleteRequest, Excs
  <2>6. CASE Hook(t)
    <3>1. PICK copy : copy = [tasks[t].copy EXCEPT !.self_id = OperationId, !.link = "object"]
      OBVIOUS
    <3>2. ASSUME SaveAs(t, "appear", copy) PROVE row' = copy
      BY <2>1, <3>2 DEF SaveAs, Save, Tasks
    <3> QED BY <1>1, <1>3, <1>7, <2>1, <2>6, <3>1, <3>2, UnexpectedEnds DEF Hook, Rows
  <2>7. CASE Recheck(t)
    <3>1. PICK copy : copy = Identified(tasks[t].copy)
      OBVIOUS
    <3>2. ASSUME SaveAs(t, "health", copy) PROVE row' = copy
      BY <2>1, <3>2 DEF SaveAs, Save, Tasks
    <3> QED BY <1>1, <1>3, <1>7, <2>1, <2>7, <3>1, <3>2, RetryEnds
            DEF Recheck, Identified, Rows, Excs
  <2>8. CASE InsertSubnet(t)
    BY <1>1, <1>3, <1>7, <2>1, <2>8, UnexpectedEnds DEF InsertSubnet
  <2> QED BY <1>4, <1>5, <2>2, <2>3, <2>4, <2>6, <2>7, <2>8 DEF Step, Disturbance
<1> QED BY <1>6, <1>7

LEMMA TaskMoves ==
    ASSUME Inv, Order, NEW t \in 1..Slots, Step(t) \/ Disturbance(t)
    PROVE  /\ kind' = kind
           /\ \/ obj' = obj
              \/ row.desired = "healthy" /\ obj.status = "absent" /\ obj' = Created
              \/ row.desired = "deleted" /\ Made /\ obj' = Stopping
<1>1. tasks[t].pc = "request" => Purpose(t)
  BY Reader DEF Inv, Order, TaskOK
<1>2. CASE CreateRequest(t) \/ CreateFails(t)
  BY <1>1, <1>2 DEF CreateRequest, CreateFails, Is, Purpose, Deletes
<1>3. CASE DeleteRequest(t) \/ DeleteFails(t)
  BY <1>1, <1>3 DEF DeleteRequest, DeleteFails, Is, Purpose, Deletes, Made, Stopping
<1>4. CASE ~(CreateRequest(t) \/ CreateFails(t) \/ DeleteRequest(t) \/ DeleteFails(t))
  BY <1>4 DEF Step, Disturbance, Submit, Receive, Succeed, ListingBroken, ListingFails, Proceed,
              Found, HandOver, ToRequest, MemoHit, NameTaken, HookBase, Hook, NotAppeared, Recheck,
              Healthy, NotHealthy, HealthyHook, QuerySubnet, InsertSubnet, Absent,
              NotYetAbsent, Late, Crash, Twin
<1> QED BY <1>2, <1>3, <1>4

\* What is not misled tells the truth.
LEMMA TruthTold ==
    ASSUME Inv, ~torn, ~Exempt
    PROVE  Lifecycle!Truth
<1>1. RowOK(row) /\ row \in Rows
  BY DEF Inv, InOrder, Order, IType, TypeOK
<1>2. row.desired \in {"none", "healthy", "deleted"}
  BY <1>1 DEF Rows, None
<1>3. row.state \in Lifecycle!Stages[row.desired]
  BY <1>1, <1>2 DEF RowOK, Decided, None, Lifecycle!Stages
<1>4. row.state \in {"exists", "healthy"} => Object = "made"
  BY <1>1 DEF RowOK, There, Object
<1>5. row.state = "deleted" => Object = "absent"
  BY DeletedGone DEF Gone, Object
<1> QED BY <1>3, <1>4, <1>5 DEF Lifecycle!Truth

LEMMA TaskFollows ==
    ASSUME Inv, Order, NEW t \in 1..Slots, Step(t) \/ Disturbance(t),
           Lifecycle!Truth', UNCHANGED <<torn, blind, doubled>>
    PROVE  Lifecycle!Next
<1>1. Lifecycle!Save
  BY TaskDesires DEF Lifecycle!Save
<1>2. /\ obj' = Stopping => obj'.status = "stopping"
      /\ obj' = Created => obj'.status = "pending"
  BY CreatedTyped DEF Inv, IType, TypeOK, Stopping
<1>3. CASE obj' = obj /\ kind' = kind
  BY <1>1, <1>3 DEF Object, Lifecycle!Report, Lifecycle!Next
<1>4. CASE row.desired = "healthy" /\ obj.status = "absent" /\ obj' = Created
  <2>1. Object = "absent" /\ Object' = "made"
    BY <1>2, <1>4 DEF Object
  <2> QED BY <1>1, <1>4, <2>1 DEF Lifecycle!Make, Lifecycle!Next
<1>5. CASE row.desired = "deleted" /\ Made /\ obj' = Stopping
  <2>1. obj'.status \notin {"pending", "live", "hidden"}
    BY <1>2, <1>5
  <2>2. Object = "made" /\ Object' \in {"leaving", "absent"}
    BY <1>5, <2>1 DEF Made, Object
  <2> QED BY <1>1, <1>5, <2>2 DEF Lifecycle!Remove, Lifecycle!Next
<1>6. /\ kind' = kind
      /\ \/ obj' = obj
         \/ row.desired = "healthy" /\ obj.status = "absent" /\ obj' = Created
         \/ row.desired = "deleted" /\ Made /\ obj' = Stopping
  BY TaskMoves
<1> QED BY <1>3, <1>4, <1>5, <1>6

LEMMA ApplyFollows ==
    ASSUME Inv, NEW want \in {"healthy", "deleted"}, Apply(want)
    PROVE  Lifecycle!Next
<1>1. /\ row'.desired = want
      /\ row'.state = IF want = "healthy" THEN "declared" ELSE "unknown"
  BY DEF Apply, Rows, Inv, IType, TypeOK
<1>2. Object' = Object /\ UNCHANGED <<torn, blind, doubled>>
  BY DEF Apply, Object, history
<1>3. Lifecycle!Answered
  BY DEF Apply, Settled, None, Lifecycle!Answered, Lifecycle!None
<1> QED BY <1>1, <1>2, <1>3 DEF Lifecycle!Ask, Lifecycle!Next

LEMMA ProviderFollows ==
    ASSUME Inv, Provider
    PROVE  [Lifecycle!Next]_(Lifecycle!vars)
<1>1. UNCHANGED <<kind, row, torn, blind, doubled>>
  BY DEF Provider, history
<1>2. CASE Vanish
  <2>1. obj.status = "stopping" /\ obj'.status = "absent"
    BY <1>2 DEF Vanish, Become, Inv, IType, TypeOK
  <2>2. CASE kind # "instance"
    BY <1>1, <2>1, <2>2 DEF Object, Lifecycle!Vanish, Lifecycle!Next
  <2>3. CASE kind = "instance"
    BY <1>1, <2>1, <2>3 DEF Object, Lifecycle!vars
  <2> QED BY <2>2, <2>3
<1>3. CASE ~Vanish
  <2>1. /\ obj.status \in {"pending", "live", "hidden"}
        /\ obj'.status \in {"pending", "live", "hidden"}
    BY <1>3 DEF Provider, Appear, GetSubnets, Stop, Restarted, Become, Inv, IType, TypeOK
  <2> QED BY <1>1, <2>1 DEF Object, Lifecycle!vars
<1> QED BY <1>2, <1>3

\* A history is not forgotten.
LEMMA Remembered ==
    ASSUME Inv, [Next]_vars
    PROVE  /\ torn \in BOOLEAN /\ torn' \in BOOLEAN /\ (torn => torn')
           /\ blind \in BOOLEAN /\ blind' \in BOOLEAN /\ (blind => blind')
           /\ doubled \in BOOLEAN /\ doubled' \in BOOLEAN /\ (doubled => doubled')
<1>1. torn \in BOOLEAN /\ blind \in BOOLEAN /\ doubled \in BOOLEAN
  BY DEF Inv, IType, TypeOK
<1>2. ASSUME NEW t \in 1..Slots, Step(t) \/ Disturbance(t)
      PROVE  /\ torn' = torn \/ torn' = (torn \/ (At(t, "hook") /\ tasks[t].answer = "operation"))
             /\ blind' = blind \/ blind' = (blind \/ obj.status \in {"pending", "hidden"})
             /\ doubled' = doubled \/ doubled' = TRUE
  BY <1>2 DEF Step, Disturbance, Submit, Receive, Succeed, ListingBroken, ListingFails, Proceed,
              Found, HandOver, ToRequest, MemoHit, CreateRequest, CreateFails, NameTaken,
              HookBase, Hook, NotAppeared, Recheck, Healthy, NotHealthy, HealthyHook,
              QuerySubnet, InsertSubnet, Absent, DeleteRequest, DeleteFails, NotYetAbsent,
              Late, Crash, Twin, Double, history
<1>3. ASSUME ~\E t \in 1..Slots : Step(t) \/ Disturbance(t)
      PROVE  UNCHANGED <<torn, blind, doubled>>
  BY <1>3 DEF Next, MemoExpires, Apply, Daemon, Provider, OthersGo, history, vars
<1> QED BY <1>1, <1>2, <1>3

LEMMA StepFollows ==
    ASSUME Inv, [Next]_vars, ~torn' /\ ~Exempt' => Lifecycle!Truth'
    PROVE  [Lifecycle!Next]_(Lifecycle!vars)
<1>1. CASE torn' \/ Exempt'
  BY <1>1 DEF Exempt, Lifecycle!Misled, Lifecycle!Next
<1>2. CASE ~torn' /\ ~Exempt'
  <2>1. Order /\ UNCHANGED <<torn, blind, doubled>>
    BY <1>2, Remembered DEF Inv, InOrder, Exempt
  <2>2. ASSUME NEW t \in 1..Slots, Step(t) \/ Disturbance(t)
        PROVE  Lifecycle!Next
    BY <1>2, <2>1, <2>2, TaskFollows
  <2>3. ASSUME NEW want \in {"healthy", "deleted"}, Apply(want)
        PROVE  Lifecycle!Next
    BY <2>3, ApplyFollows
  <2>4. CASE Daemon \/ OthersGo \/ (\E i \in 1..Slots : MemoExpires(i)) \/ UNCHANGED vars
    <3>1. UNCHANGED <<kind, row, obj>>
      BY <2>4 DEF Daemon, OthersGo, MemoExpires, vars
    <3> QED BY <2>1, <3>1 DEF Object, Lifecycle!vars
  <2> QED BY <2>2, <2>3, <2>4, ProviderFollows DEF Next
<1> QED BY <1>1, <1>2

\* The calls and saves of one resource implement ResourceLifecycle: while no link
\* is torn, no object is taken for deleted and no stage is executed twice after
\* it handed over or scheduled its retry, no request and no save goes against
\* what the user wants or tells of an object what is not so: tries are cut short
\* and repeated, answers lost, messages late, and copies of the row old.
THEOREM KeepsLifecycle == Spec => FollowsLifecycle
<1>1. Init => Lifecycle!Init
  BY DEF Init, Object, Lifecycle!Init, Lifecycle!None, None
<1>2. Inv /\ Inv' /\ [Next]_vars => [Lifecycle!Next]_(Lifecycle!vars)
  <2>1. (Inv /\ ~torn /\ ~Exempt)' => Lifecycle!Truth'
    BY TruthTold, PTL
  <2> QED BY <2>1, StepFollows
<1> QED BY <1>1, <1>2, AlwaysInv, PTL DEF Spec, FollowsLifecycle, Lifecycle!Spec
===============================================================================
