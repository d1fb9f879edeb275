----------------------------- MODULE HclIngestion -----------------------------
(***************************************************************************)
(* How an HCL file becomes rows (resources/hcl_utils, resources/tasks.py,  *)
(* the hcl_apply command).  An applier parses the file, reads which of its *)
(* entries have a row already, and creates the others one by one, a        *)
(* resource before what refers to it.  Each row is saved first and its     *)
(* dependency rows afterwards, one at a time and in no transaction.  When  *)
(* all rows are there one UPDATE expresses the desired state, upon which   *)
(* the scheduler starts the pipelines that the dependency rows permit.     *)
(* Several appliers run at a time, and each may be interrupted anywhere.   *)
(***************************************************************************)
EXTENDS Integers, FiniteSets

CONSTANTS
    Names,         \* hcl_slugs
    Files,
    Appliers,      \* hcl_apply commands, hcl_ingest_models and
                   \* hcl_express_desired_state tasks
    MaxStarts,     \* bound: files applied
    MaxInterrupts, \* bound: exceptions and crashes of an applier
    NoName

\* entries: what the file declares; refs[n]: the entries its expressions name;
\* fks[n]: what its fields of type ResourceForeignKey name, by an expression or
\* by the literal id of a row, which need not be of this file; invalid: entries
\* whose validation fails; wellFormed: syntax, provider block and rtypes.
FileType ==
    [entries : SUBSET Names, refs : [Names -> SUBSET Names],
     fks : [Names -> SUBSET Names], invalid : SUBSET Names, wellFormed : BOOLEAN]

ASSUME ConstantsAssumption ==
    /\ Files \subseteq FileType
    /\ NoName \notin Names
    /\ {MaxStarts, MaxInterrupts} \subseteq Nat

VARIABLES
    saved,      \* entries that have a ResourceModel
    refersTo,   \* the foreign keys in its extra_data
    tracked,    \* ResourceDependencyModel: <<resource, depends_on>>
    desired, state,
    pipeline,   \* the pipeline started for a resource that is not over
    applier,
    torn,       \* history: rows whose applier was interrupted before it had
                \* written their dependency rows
    starts, interrupts

rowVars == <<saved, refersTo, tracked, desired, state>>
vars == <<rowVars, pipeline, applier, torn, starts, interrupts>>

None == "none"
Wishes == {"healthy", "deleted"}
States == {"newborn_model", "declared", "unknown"} \cup Wishes
Jobs == {"apply", "ingest", "express"}

Idle == [phase |-> "idle"]

\* links: dependency rows of cur yet to be written. overlapped (history):
\* another applier was at work at the same time.
Working ==
    [phase : {"create", "link", "express"}, job : Jobs, file : Files, want : Wishes,
     known : SUBSET Names, cur : Names \cup {NoName}, links : SUBSET Names,
     overlapped : BOOLEAN]

Outcomes == {"done", "malformed", "invalid", "conflict", "incomplete", "interrupted"}

Ended ==
    [phase : {"ended"}, job : Jobs, overlapped : BOOLEAN, outcome : Outcomes]

Init ==
    /\ saved = {} /\ tracked = {} /\ torn = {}
    /\ refersTo = [n \in Names |-> {}]
    /\ desired = [n \in Names |-> None]
    /\ state = [n \in Names |-> "newborn_model"]
    /\ pipeline = [n \in Names |-> None]
    /\ applier = [a \in Appliers |-> Idle]
    /\ starts = 0 /\ interrupts = 0

At(a, phase) == applier[a].phase = phase
Busy(a) == applier[a].phase \in {"create", "link", "express"}
Busies == {a \in Appliers : Busy(a)}

-------------------------------------------------------------------------------
(* Parsing *)

\* graphlib finds an order: every set of entries has one that refers to none
\* of the set.
Acyclic(f) ==
    \A S \in SUBSET f.entries : S # {} => \E n \in S : f.refs[n] \cap S = {}

\* The order holds names of entries only (or KeyError).
Resolved(f) == \A n \in f.entries : f.refs[n] \subseteq f.entries

Parses(f) == f.wellFormed /\ Acyclic(f) /\ Resolved(f)

\* Mutant of Existing: entries are created whether they have a row or not.
NoneExisting(f) == {}

\* _fetch_hcl_resource_models.
Existing(f) == f.entries \cap saved

-------------------------------------------------------------------------------
(* The applier *)

Set(a, p) == applier' = [applier EXCEPT ![a] = p]

End(a, outcome) ==
    Set(a, [phase |-> "ended", job |-> applier[a].job,
            overlapped |-> applier[a].overlapped, outcome |-> outcome])

\* Mutant of First: one task of hcl_apply is taken for the other.
FirstTask(job) == IF job = "express" THEN "ingest" ELSE "create"

First(job) == IF job = "express" THEN "express" ELSE "create"

Overlap == [a \in Appliers |-> IF Busy(a) THEN [applier[a] EXCEPT !.overlapped = TRUE]
                               ELSE applier[a]]

\* hcl_apply, or one of its two tasks by itself: parse, and read what exists.
Start(a, job, f, want) ==
    /\ ~Busy(a)
    /\ starts < MaxStarts
    /\ starts' = starts + 1
    /\ IF Parses(f)
         THEN applier' = [Overlap EXCEPT ![a] =
                [phase |-> First(job), job |-> job, file |-> f, want |-> want,
                 known |-> Existing(f), cur |-> NoName, links |-> {},
                 overlapped |-> Busies # {}]]
         ELSE Set(a, [phase |-> "ended", job |-> job, overlapped |-> FALSE,
                      outcome |-> "malformed"])
    /\ UNCHANGED <<rowVars, pipeline, torn, interrupts>>

InOrder(p, n) == p.file.refs[n] \subseteq p.known

\* The entries that can be next.
Candidates(p) == {n \in p.file.entries \ p.known : InOrder(p, n)}

\* The fields are valid and the rows the foreign keys name exist.
Valid(p, n) == n \notin p.file.invalid /\ p.file.fks[n] \subseteq saved

\* The entry has a row, and is done with; or its dependency rows are next.
Done(p, n) ==
    [p EXCEPT !.phase = "create", !.known = p.known \cup {n}, !.cur = NoName, !.links = {}]

ToLink(p, n, links) == [p EXCEPT !.phase = "link", !.cur = n, !.links = links]

\* create_resource_from_hcl, up to model_obj.save().
SaveRow(a) ==
    /\ At(a, "create")
    /\ \E n \in Candidates(applier[a]) :
          LET fks == applier[a].file.fks[n] IN
          /\ Valid(applier[a], n)
          /\ n \notin saved
          /\ saved' = saved \cup {n}
          /\ refersTo' = [refersTo EXCEPT ![n] = fks]
          /\ Set(a, IF fks = {} THEN Done(applier[a], n) ELSE ToLink(applier[a], n, fks))
    /\ UNCHANGED <<tracked, desired, state, pipeline, torn, starts, interrupts>>

\* TaskFailureException('hcl_validation_failed').
Invalid(a) ==
    /\ At(a, "create")
    /\ \E n \in Candidates(applier[a]) : ~Valid(applier[a], n)
    /\ End(a, "invalid")
    /\ UNCHANGED <<rowVars, pipeline, torn, starts, interrupts>>

\* The uniqueness constraints: someone else saved the row in the meantime.
Conflict(a) ==
    /\ At(a, "create")
    /\ \E n \in Candidates(applier[a]) : n \in saved /\ Valid(applier[a], n)
    /\ End(a, "conflict")
    /\ UNCHANGED <<rowVars, pipeline, torn, starts, interrupts>>

\* Mutant of Left: the last dependency row is not written.
LeftButOne(links, d) == IF Cardinality(links) <= 2 THEN {} ELSE links \ {d}

Left(links, d) == links \ {d}

\* Mutant of Link: resource and depends_on are swapped.
LinkSwapped(a) ==
    /\ At(a, "link")
    /\ \E d \in applier[a].links :
          LET left == Left(applier[a].links, d)
              n    == applier[a].cur
          IN  /\ tracked' = tracked \cup {<<d, n>>}
              /\ Set(a, IF left = {} THEN Done(applier[a], n) ELSE ToLink(applier[a], n, left))
    /\ UNCHANGED <<saved, refersTo, desired, state, pipeline, torn, starts, interrupts>>

\* ResourceDependencyModel.objects.get_or_create, for one field.
Link(a) ==
    /\ At(a, "link")
    /\ \E d \in applier[a].links :
          LET left == Left(applier[a].links, d)
              n    == applier[a].cur
          IN  /\ tracked' = tracked \cup {<<n, d>>}
              /\ Set(a, IF left = {} THEN Done(applier[a], n) ELSE ToLink(applier[a], n, left))
    /\ UNCHANGED <<saved, refersTo, desired, state, pipeline, torn, starts, interrupts>>

\* Every entry has a row.
Ingested(a) ==
    /\ At(a, "create")
    /\ applier[a].file.entries \subseteq applier[a].known
    /\ IF applier[a].job = "apply"
         THEN Set(a, [applier[a] EXCEPT !.phase = "express"])
         ELSE End(a, "done")
    /\ UNCHANGED <<rowVars, pipeline, torn, starts, interrupts>>

\* Mutant of Express: a desired state is taken back with the row's destruction.
ExpressTakesBack(a) ==
    /\ At(a, "express")
    /\ applier[a].file.entries \subseteq saved
    /\ LET rows == applier[a].file.entries
           want == applier[a].want
       IN  /\ desired' = [n \in Names |->
                            IF n \notin rows THEN desired[n]
                            ELSE IF want = "healthy" THEN want ELSE None]
           /\ state' = [n \in Names |->
                          IF n \notin rows THEN state[n]
                          ELSE IF want = "healthy" THEN "declared" ELSE "unknown"]
    /\ End(a, "done")
    /\ UNCHANGED <<saved, refersTo, tracked, pipeline, torn, starts, interrupts>>

\* _hcl_express_desired_state: reads the rows again.
Express(a) ==
    /\ At(a, "express")
    /\ applier[a].file.entries \subseteq saved
    /\ LET rows == applier[a].file.entries
           want == applier[a].want
       IN  /\ desired' = [n \in Names |-> IF n \in rows THEN want ELSE desired[n]]
           /\ state' = [n \in Names |->
                          IF n \notin rows THEN state[n]
                          ELSE IF want = "healthy" THEN "declared" ELSE "unknown"]
    /\ End(a, "done")
    /\ UNCHANGED <<saved, refersTo, tracked, pipeline, torn, starts, interrupts>>

\* 'hcl resources are not fully ingested'.
NotIngested(a) ==
    /\ At(a, "express")
    /\ ~(applier[a].file.entries \subseteq saved)
    /\ End(a, "incomplete")
    /\ UNCHANGED <<rowVars, pipeline, torn, starts, interrupts>>

\* An exception or the death of the process: nothing is rolled back.
Interrupt(a) ==
    /\ Busy(a)
    /\ interrupts < MaxInterrupts
    /\ interrupts' = interrupts + 1
    /\ torn' = IF At(a, "link") THEN torn \cup {applier[a].cur} ELSE torn
    /\ End(a, "interrupted")
    /\ UNCHANGED <<rowVars, pipeline, starts>>

Apply(a) ==
    \/ SaveRow(a) \/ Invalid(a) \/ Conflict(a) \/ Link(a)
    \/ Ingested(a) \/ Express(a) \/ NotIngested(a) \/ Interrupt(a)

-------------------------------------------------------------------------------
(* The scheduler; Reconcile has it in detail *)

Dependencies(n) == {d \in Names : <<n, d>> \in tracked}
ForwardDependencies(n) == {d \in Names : <<d, n>> \in tracked}

\* Mutant of DependenciesReady: any dependency that is healthy will do.
SomeDependencyReady(n) ==
    Dependencies(n) # {} => \E d \in Dependencies(n) : state[d] = "healthy"

\* ensure_dependencies_ready goes on to ensure_exists.
DependenciesReady(n) == \A d \in Dependencies(n) : state[d] = "healthy"

DependentsDeleted(n) == \A d \in ForwardDependencies(n) : state[d] = "deleted"

Schedule(n) ==
    /\ n \in saved
    /\ pipeline[n] = None
    /\ desired[n] \in Wishes \ {state[n]}
    /\ IF desired[n] = "healthy" THEN DependenciesReady(n) ELSE DependentsDeleted(n)
    /\ pipeline' = [pipeline EXCEPT ![n] = desired[n]]
    /\ UNCHANGED <<rowVars, applier, torn, starts, interrupts>>

\* The rest of the pipeline.
Complete(n) ==
    /\ pipeline[n] # None
    /\ state' = [state EXCEPT ![n] = pipeline[n]]
    /\ pipeline' = [pipeline EXCEPT ![n] = None]
    /\ UNCHANGED <<saved, refersTo, tracked, desired, applier, torn, starts, interrupts>>

Next ==
    \/ \E a \in Appliers :
          \/ Apply(a)
          \/ \E job \in Jobs, f \in Files, want \in Wishes : Start(a, job, f, want)
    \/ \E n \in Names : Schedule(n) \/ Complete(n)

Spec == Init /\ [][Next]_vars

-------------------------------------------------------------------------------
(* Properties *)

\* The variables hold what the code can put there.
TypeOK ==
    /\ saved \subseteq Names /\ torn \subseteq Names
    /\ refersTo \in [Names -> SUBSET Names]
    /\ tracked \subseteq Names \X Names
    /\ desired \in [Names -> Wishes \cup {None}]
    /\ state \in [Names -> States]
    /\ pipeline \in [Names -> Wishes \cup {None}]
    /\ applier \in [Appliers -> Working \cup Ended \cup {Idle}]
    /\ starts \in 0..MaxStarts /\ interrupts \in 0..MaxInterrupts

\* The foreign keys of every row name rows, whatever was interrupted, and the
\* dependency rows are those of the foreign keys.
ReferencesSaved ==
    /\ \A n \in saved : refersTo[n] \subseteq saved
    /\ \A n, d \in Names : <<n, d>> \in tracked => n \in saved /\ d \in refersTo[n]

Linking(n) == {a \in Appliers : At(a, "link") /\ applier[a].cur = n}

\* A row whose dependency rows are incomplete is either still being worked on
\* or one whose applier was interrupted just then; no other way leads there.
TrackedUnlessTorn ==
    \A n \in saved :
        \/ Dependencies(n) = refersTo[n]
        \/ n \in torn
        \/ Linking(n) # {}

\* A file that was applied in part can be applied again: a conflict is the
\* work of an applier that ran at the same time, and hcl_apply never finds
\* its own file incomplete.
AloneSucceeds ==
    \A a \in Appliers :
        At(a, "ended") =>
            /\ applier[a].outcome = "conflict" => applier[a].overlapped
            /\ applier[a].outcome = "incomplete" => applier[a].job = "express"

Started(n) == pipeline[n] = None /\ pipeline'[n] = "healthy"

\* A resource is scheduled when all its foreign keys name healthy resources,
\* but for the two windows: its applier was interrupted before its dependency
\* rows were complete, or they are being written while another applier is at
\* work. An applier by itself never expresses a desired state too early.
ScheduledInOrder ==
    [][\A n \in Names \ torn :
          Started(n) /\ (\A a \in Linking(n) : ~applier[a].overlapped)
              => \A d \in refersTo[n] : state[d] = "healthy"]_vars

Catalogue ==
    INSTANCE Catalog
        WITH catalogue <- saved, wanted <- {n \in Names : desired[n] # None}

\* The table of resources behaves as Catalog promises.
Catalogued == Catalogue!Spec

\* "An instance will not be scheduled for creation until its network is ready
\* and healthy" (README.md:181).
NotScheduledUntilReady ==
    [][\A n \in Names :
          Started(n) => \A d \in refersTo[n] : state[d] = "healthy"]_vars
===============================================================================
