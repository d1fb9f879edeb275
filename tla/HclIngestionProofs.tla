-------------------------- MODULE HclIngestionProofs --------------------------
(***************************************************************************)
(* Proofs about HclIngestion, for any files and any number of appliers,    *)
(* starts and interruptions.                                               *)
(***************************************************************************)
EXTENDS HclIngestion, TLAPS

-------------------------------------------------------------------------------
(* Types *)

\* What the type invariant says of an applier at work.
LEMMA WorkingFields ==
    ASSUME TypeOK, NEW a \in Appliers, Busy(a)
    PROVE  /\ applier[a] \in Working
           /\ applier[a].file \in Files /\ applier[a].file \in FileType
           /\ applier[a].job \in Jobs /\ applier[a].want \in Wishes
           /\ applier[a].known \subseteq Names /\ applier[a].links \subseteq Names
           /\ applier[a].cur \in Names \cup {NoName}
           /\ applier[a].overlapped \in BOOLEAN
<1>1. applier[a] \in Working \cup Ended \cup {Idle}
  BY DEF TypeOK
<1>2. applier[a] \notin Ended /\ applier[a] # Idle
  BY DEF Busy, Ended, Idle
<1>3. applier[a] \in Working
  BY <1>1, <1>2
<1> QED BY <1>3, ConstantsAssumption DEF Working

\* An applier that ends.
LEMMA EndTyped ==
    ASSUME TypeOK, NEW a \in Appliers, Busy(a), NEW outcome \in Outcomes, End(a, outcome)
    PROVE  applier' \in [Appliers -> Working \cup Ended \cup {Idle}]
<1> DEFINE p == [phase |-> "ended", job |-> applier[a].job,
                 overlapped |-> applier[a].overlapped, outcome |-> outcome]
<1>1. p \in Ended
  BY WorkingFields DEF Ended
<1>2. applier' = [applier EXCEPT ![a] = p]
  BY DEF End, Set
<1> QED BY <1>1, <1>2 DEF TypeOK

\* An applier that goes on.
LEMMA GoesOnTyped ==
    ASSUME TypeOK, NEW a \in Appliers, NEW p \in Working, Set(a, p)
    PROVE  /\ applier' \in [Appliers -> Working \cup Ended \cup {Idle}]
           /\ applier'[a] = p
           /\ \A b \in Appliers \ {a} : applier'[b] = applier[b]
  BY DEF TypeOK, Set

\* The fields of an entry of a file.
LEMMA FileFields ==
    ASSUME NEW f \in Files
    PROVE  /\ f.entries \subseteq Names
           /\ \A n \in Names : f.fks[n] \subseteq Names
  BY ConstantsAssumption DEF FileType

\* A file that parses has a working applier start on it.
LEMMA StartTyped ==
    ASSUME TypeOK, NEW a \in Appliers, NEW job \in Jobs, NEW f \in Files,
           NEW want \in Wishes, Start(a, job, f, want)
    PROVE  applier' \in [Appliers -> Working \cup Ended \cup {Idle}]
<1>1. CASE Parses(f)
  <2> DEFINE p == [phase |-> First(job), job |-> job, file |-> f, want |-> want,
                   known |-> Existing(f), cur |-> NoName, links |-> {},
                   overlapped |-> Busies # {}]
  <2>1. p \in Working
    BY FileFields DEF Working, First, Existing
  <2>2. Overlap \in [Appliers -> Working \cup Ended \cup {Idle}]
    <3>1. ASSUME NEW b \in Appliers, Busy(b)
          PROVE  [applier[b] EXCEPT !.overlapped = TRUE] \in Working
      BY <3>1, WorkingFields DEF Working
    <3>2. \A b \in Appliers : applier[b] \in Working \cup Ended \cup {Idle}
      BY DEF TypeOK
    <3> QED BY <3>1, <3>2 DEF Overlap
  <2>3. applier' = [Overlap EXCEPT ![a] = p]
    BY <1>1 DEF Start
  <2> QED BY <2>1, <2>2, <2>3
<1>2. CASE ~Parses(f)
  <2> DEFINE p == [phase |-> "ended", job |-> job, overlapped |-> FALSE,
                   outcome |-> "malformed"]
  <2>1. p \in Ended
    BY DEF Ended, Outcomes
  <2>2. applier' = [applier EXCEPT ![a] = p]
    BY <1>2 DEF Start, Set
  <2> QED BY <2>1, <2>2 DEF TypeOK
<1> QED BY <1>1, <1>2

\* The records of an applier between two rows and between two dependency rows.
LEMMA DoneTyped ==
    ASSUME NEW p \in Working, NEW n \in Names
    PROVE  /\ Done(p, n) \in Working
           /\ Done(p, n).phase = "create" /\ Done(p, n).file = p.file
           /\ Done(p, n).known = p.known \cup {n} /\ Done(p, n).job = p.job
           /\ Done(p, n).overlapped = p.overlapped
  BY DEF Working, Done

LEMMA ToLinkTyped ==
    ASSUME NEW p \in Working, NEW n \in Names, NEW links \in SUBSET Names
    PROVE  /\ ToLink(p, n, links) \in Working
           /\ ToLink(p, n, links).phase = "link" /\ ToLink(p, n, links).file = p.file
           /\ ToLink(p, n, links).known = p.known /\ ToLink(p, n, links).job = p.job
           /\ ToLink(p, n, links).overlapped = p.overlapped
           /\ ToLink(p, n, links).cur = n /\ ToLink(p, n, links).links = links
  BY DEF Working, ToLink

-------------------------------------------------------------------------------
(* The inductive invariant *)

\* What an applier believes to have a row has one.
KnownSaved(a) == Busy(a) => applier[a].known \subseteq saved

\* The dependency rows of the current entry are written or on the list.
LinksLeft(a) ==
    At(a, "link") =>
        /\ applier[a].cur \in saved
        /\ applier[a].links \subseteq refersTo[applier[a].cur]
        /\ refersTo[applier[a].cur] \subseteq
               applier[a].links \cup Dependencies(applier[a].cur)

\* hcl_apply expresses the desired state of rows that are there.
ExpressReady(a) ==
    At(a, "express") /\ applier[a].job = "apply" => applier[a].file.entries \subseteq saved

\* Only the files that parse get this far.
FileParses(a) == Busy(a) => Parses(applier[a].file)

ApplierInv(a) == KnownSaved(a) /\ LinksLeft(a) /\ ExpressReady(a) /\ FileParses(a)

Inv ==
    /\ TypeOK
    /\ ReferencesSaved
    /\ TrackedUnlessTorn
    /\ \A n \in Names : desired[n] # None => n \in saved
    /\ \A a \in Appliers : ApplierInv(a)

\* The other appliers do not mind a step of one.
LEMMA OthersKeep ==
    ASSUME TypeOK, NEW a \in Appliers, NEW p, Set(a, p),
           saved \subseteq saved', tracked \subseteq tracked',
           \A n \in saved : refersTo'[n] = refersTo[n],
           NEW b \in Appliers, b # a, ApplierInv(b)
    PROVE  ApplierInv(b)'
<1>1. applier'[b] = applier[b]
  BY DEF TypeOK, Set
<1>2. KnownSaved(b)' /\ ExpressReady(b)' /\ FileParses(b)'
  BY <1>1 DEF ApplierInv, KnownSaved, ExpressReady, FileParses, Busy, At, Parses,
              Acyclic, Resolved
<1>3. LinksLeft(b)'
  BY <1>1 DEF ApplierInv, LinksLeft, At, Dependencies
<1> QED BY <1>2, <1>3 DEF ApplierInv

\* A step that leaves the rows alone and takes no applier out of its links.
LEMMA RowsStay ==
    ASSUME Inv, UNCHANGED <<saved, refersTo, tracked>>, torn \subseteq torn',
           \A a \in Appliers : At(a, "link") =>
               \/ applier[a].cur \in torn'
               \/ At(a, "link")' /\ applier'[a].cur = applier[a].cur
    PROVE  ReferencesSaved' /\ TrackedUnlessTorn'
<1>1. ReferencesSaved'
  BY DEF Inv, ReferencesSaved
<1>2. ASSUME NEW n \in saved, n \notin torn', Dependencies(n) # refersTo[n]
      PROVE  Linking(n)' # {}
  <2>1. PICK b \in Appliers : At(b, "link") /\ applier[b].cur = n
    BY <1>2 DEF Inv, TrackedUnlessTorn, Linking
  <2> QED BY <1>2, <2>1 DEF Linking
<1>3. TrackedUnlessTorn'
  BY <1>2 DEF TrackedUnlessTorn, Dependencies
<1> QED BY <1>1, <1>3

\* An applier that ends and leaves the rows and what is wanted alone.
LEMMA EndKeeps ==
    ASSUME Inv, NEW a \in Appliers, NEW outcome \in Outcomes, Busy(a), End(a, outcome),
           UNCHANGED rowVars, torn \subseteq torn', torn' \subseteq Names,
           At(a, "link") => applier[a].cur \in torn',
           pipeline' \in [Names -> Wishes \cup {None}],
           starts' \in 0..MaxStarts, interrupts' \in 0..MaxInterrupts
    PROVE  Inv'
<1> DEFINE p == [phase |-> "ended", job |-> applier[a].job,
                 overlapped |-> applier[a].overlapped, outcome |-> outcome]
<1>1. Set(a, p) /\ TypeOK /\ applier'[a] = p
  BY DEF Inv, End, TypeOK, Set
<1>2. TypeOK'
  BY EndTyped DEF Inv, TypeOK, rowVars
<1>3. \A b \in Appliers \ {a} : applier'[b] = applier[b]
  BY <1>1 DEF TypeOK, Set
<1>4. ReferencesSaved' /\ TrackedUnlessTorn'
  BY <1>1, <1>3, RowsStay DEF rowVars, At
<1>5. ASSUME NEW b \in Appliers PROVE ApplierInv(b)'
  <2>1. CASE b = a
    BY <1>1, <2>1 DEF ApplierInv, KnownSaved, LinksLeft, ExpressReady, FileParses, Busy, At
  <2>2. CASE b # a
    BY <1>1, <2>2, OthersKeep DEF Inv, rowVars
  <2> QED BY <2>1, <2>2
<1> QED BY <1>2, <1>4, <1>5 DEF Inv, rowVars

\* A row is saved, after what it refers to.
LEMMA SaveRowKeeps ==
    ASSUME Inv, NEW a \in Appliers, SaveRow(a)
    PROVE  Inv'
<1> USE DEF Inv
<1> DEFINE f == applier[a].file
           p == applier[a]
<1>1. At(a, "create") /\ Busy(a) /\ f \in Files /\ p \in Working
  BY WorkingFields DEF SaveRow, Busy, At
<1>2. PICK n \in Candidates(p) :
        /\ Valid(p, n) /\ n \notin saved
        /\ saved' = saved \cup {n}
        /\ refersTo' = [refersTo EXCEPT ![n] = f.fks[n]]
        /\ Set(a, IF f.fks[n] = {} THEN Done(p, n) ELSE ToLink(p, n, f.fks[n]))
  BY DEF SaveRow
<1> DEFINE fks == f.fks[n]
           q == IF fks = {} THEN Done(p, n) ELSE ToLink(p, n, fks)
<1>3. n \in Names /\ fks \subseteq Names /\ fks \subseteq saved
  BY <1>1, <1>2, FileFields DEF Candidates, Valid
<1>4. UNCHANGED <<tracked, desired, state, pipeline, torn, starts, interrupts>>
  BY DEF SaveRow
<1>5. /\ refersTo' \in [Names -> SUBSET Names] /\ refersTo'[n] = fks
      /\ \A m \in saved : refersTo'[m] = refersTo[m]
  BY <1>2, <1>3 DEF TypeOK
<1>6. q \in Working /\ Set(a, q)
  BY <1>1, <1>2, <1>3, DoneTyped, ToLinkTyped
<1>0. f = p.file
  OBVIOUS
<1> HIDE DEF p, f, fks
<1>7. /\ q.phase = (IF fks = {} THEN "create" ELSE "link") /\ q.file = f /\ q.job = p.job
      /\ q.known \subseteq p.known \cup {n}
      /\ fks # {} => q.cur = n /\ q.links = fks
  <2>1. CASE fks = {}
    <3>1. q = Done(p, n)
      BY <2>1
    <3> HIDE DEF q
    <3> QED BY <1>0, <1>1, <1>3, <2>1, <3>1, DoneTyped
  <2>2. CASE fks # {}
    <3>1. q = ToLink(p, n, fks)
      BY <2>2
    <3> HIDE DEF q
    <3> QED BY <1>0, <1>1, <1>3, <2>2, <3>1, ToLinkTyped
  <2> QED BY <2>1, <2>2
<1> HIDE DEF q
<1>8. /\ applier' \in [Appliers -> Working \cup Ended \cup {Idle}] /\ applier'[a] = q
      /\ \A b \in Appliers \ {a} : applier'[b] = applier[b]
  BY <1>6, GoesOnTyped
<1>9. ReferencesSaved'
  <2>1. \A m \in saved' : refersTo'[m] \subseteq saved'
    BY <1>2, <1>3, <1>5 DEF ReferencesSaved
  <2>2. \A m, d \in Names : <<m, d>> \in tracked' => m \in saved' /\ d \in refersTo'[m]
    BY <1>2, <1>4, <1>5 DEF ReferencesSaved
  <2> QED BY <2>1, <2>2 DEF ReferencesSaved
<1>10. TypeOK'
  BY <1>2, <1>3, <1>4, <1>5, <1>8 DEF TypeOK
<1>11. ASSUME NEW b \in Appliers PROVE ApplierInv(b)'
  <2>1. CASE b = a
    <3>1. KnownSaved(a)' /\ ExpressReady(a)' /\ FileParses(a)'
      BY <1>1, <1>2, <1>7, <1>8
         DEF ApplierInv, KnownSaved, ExpressReady, FileParses, Busy, At, p, f,
             Parses, Acyclic, Resolved
    <3>2. LinksLeft(a)'
      BY <1>2, <1>5, <1>7, <1>8 DEF LinksLeft, At
    <3> QED BY <2>1, <3>1, <3>2 DEF ApplierInv
  <2>2. CASE b # a
    <3>1. saved \subseteq saved' /\ tracked \subseteq tracked'
      BY <1>2, <1>4
    <3> QED BY <1>5, <1>6, <2>2, <3>1, OthersKeep
  <2> QED BY <2>1, <2>2
<1>12. TrackedUnlessTorn'
  <2>1. \A m \in Names : Dependencies(m)' = Dependencies(m)
    BY <1>4 DEF Dependencies
  <2>2. \A m \in saved : Linking(m) # {} => Linking(m)' # {}
    BY <1>1, <1>8 DEF Linking, At
  <2>3. SUFFICES ASSUME NEW m \in saved'
                 PROVE  \/ Dependencies(m)' = refersTo'[m]
                        \/ m \in torn'
                        \/ Linking(m)' # {}
    BY DEF TrackedUnlessTorn
  <2>4. CASE m \in saved
    <3>1. m \in Names /\ torn' = torn /\ refersTo'[m] = refersTo[m]
      BY <1>4, <1>5, <2>4 DEF TypeOK
    <3>2. \/ Dependencies(m) = refersTo[m]
          \/ m \in torn
          \/ Linking(m) # {}
      BY <2>4 DEF TrackedUnlessTorn
    <3> QED BY <2>1, <2>2, <2>4, <3>1, <3>2
  <2>5. CASE m = n /\ fks = {}
    <3>1. Dependencies(n) = {}
      BY <1>2, <1>3 DEF Dependencies, ReferencesSaved
    <3> QED BY <1>3, <1>5, <2>1, <2>5, <3>1
  <2>6. CASE m = n /\ fks # {}
    <3>1. a \in Linking(n)'
      BY <1>7, <1>8, <2>6 DEF Linking, At
    <3> QED BY <2>6, <3>1
  <2>7. saved' = saved \cup {n}
    BY <1>2
  <2> QED BY <2>4, <2>5, <2>6, <2>7
<1> QED BY <1>2, <1>4, <1>9, <1>10, <1>11, <1>12

\* A dependency row is written.
LEMMA LinkKeeps ==
    ASSUME Inv, NEW a \in Appliers, Link(a)
    PROVE  Inv'
<1> USE DEF Inv
<1> DEFINE p == applier[a]
<1>1. At(a, "link") /\ Busy(a) /\ p \in Working /\ p.links \subseteq Names
  BY WorkingFields DEF Link, Busy, At
<1>0. PICK n \in saved : n = p.cur
  BY <1>1 DEF ApplierInv, LinksLeft
<1>2. PICK d \in p.links :
        /\ tracked' = tracked \cup {<<n, d>>}
        /\ Set(a, IF Left(p.links, d) = {} THEN Done(p, n)
                  ELSE ToLink(p, n, Left(p.links, d)))
  BY <1>0 DEF Link
<1> DEFINE left == Left(p.links, d)
           q == IF left = {} THEN Done(p, n) ELSE ToLink(p, n, left)
<1>3. /\ n \in saved /\ n \in Names /\ d \in refersTo[n] /\ d \in Names
      /\ left = p.links \ {d} /\ left \subseteq refersTo[n] /\ left \subseteq Names
      /\ refersTo[n] \subseteq p.links \cup Dependencies(n)
  BY <1>0, <1>1, <1>2 DEF ApplierInv, LinksLeft, Left, TypeOK
<1>4. UNCHANGED <<saved, refersTo, desired, state, pipeline, torn, starts, interrupts>>
  BY DEF Link
<1>5. Set(a, q) /\ p = applier[a] /\ n = p.cur
  BY <1>0, <1>2
<1> HIDE DEF p, left
<1>6. /\ q \in Working /\ q.phase = (IF left = {} THEN "create" ELSE "link")
      /\ q.file = p.file /\ q.job = p.job /\ q.known \subseteq p.known \cup {n}
      /\ left # {} => q.cur = n /\ q.links = left
  <2>1. CASE left = {}
    <3>1. q = Done(p, n)
      BY <2>1
    <3> HIDE DEF q
    <3> QED BY <1>1, <1>3, <2>1, <3>1, DoneTyped
  <2>2. CASE left # {}
    <3>1. q = ToLink(p, n, left)
      BY <2>2
    <3> HIDE DEF q
    <3> QED BY <1>1, <1>3, <2>2, <3>1, ToLinkTyped
  <2> QED BY <2>1, <2>2
<1> HIDE DEF q
<1>7. /\ applier' \in [Appliers -> Working \cup Ended \cup {Idle}] /\ applier'[a] = q
      /\ \A b \in Appliers \ {a} : applier'[b] = applier[b]
  BY <1>5, <1>6, GoesOnTyped
<1>8. Dependencies(n)' = Dependencies(n) \cup {d}
  BY <1>2, <1>3 DEF Dependencies
<1>9. \A m \in Names \ {n} : Dependencies(m)' = Dependencies(m)
  BY <1>2 DEF Dependencies
<1>10. ReferencesSaved'
  BY <1>2, <1>3, <1>4 DEF ReferencesSaved
<1>11. TypeOK'
  BY <1>2, <1>3, <1>4, <1>7 DEF TypeOK
<1>12. ASSUME NEW b \in Appliers PROVE ApplierInv(b)'
  <2>1. CASE b = a
    <3>1. KnownSaved(a)' /\ ExpressReady(a)' /\ FileParses(a)'
      BY <1>1, <1>3, <1>4, <1>5, <1>6, <1>7
         DEF ApplierInv, KnownSaved, ExpressReady, FileParses, Busy, At,
             Parses, Acyclic, Resolved
    <3>2. LinksLeft(a)'
      BY <1>3, <1>4, <1>6, <1>7, <1>8 DEF LinksLeft, At
    <3> QED BY <2>1, <3>1, <3>2 DEF ApplierInv
  <2>2. CASE b # a
    <3>1. saved \subseteq saved' /\ tracked \subseteq tracked'
      BY <1>2, <1>4
    <3> QED BY <1>4, <1>5, <2>2, <3>1, OthersKeep
  <2> QED BY <2>1, <2>2
<1>13. TrackedUnlessTorn'
  <2>1. ASSUME NEW m \in saved, m # n, Linking(m) # {} PROVE Linking(m)' # {}
    BY <1>5, <1>7, <2>1 DEF Linking, At
  <2>2. \A m \in saved \ {n} :
            Dependencies(m)' = refersTo'[m] \/ m \in torn' \/ Linking(m)' # {}
    BY <1>4, <1>9, <2>1 DEF TrackedUnlessTorn, TypeOK
  <2>3. CASE left = {}
    <3>1. Dependencies(n) \subseteq refersTo[n]
      BY <1>3 DEF Dependencies, ReferencesSaved
    <3>2. Dependencies(n)' = refersTo'[n]
      BY <1>3, <1>4, <1>8, <2>3, <3>1
    <3> QED BY <1>4, <2>2, <3>2 DEF TrackedUnlessTorn
  <2>4. CASE left # {}
    <3>1. a \in Linking(n)'
      BY <1>6, <1>7, <2>4 DEF Linking, At
    <3> QED BY <1>4, <2>2, <3>1 DEF TrackedUnlessTorn
  <2> QED BY <2>3, <2>4
<1> QED BY <1>4, <1>10, <1>11, <1>12, <1>13

\* All entries have rows.
LEMMA IngestedKeeps ==
    ASSUME Inv, NEW a \in Appliers, Ingested(a)
    PROVE  Inv'
<1> DEFINE p == applier[a]
           q == [p EXCEPT !.phase = "express"]
<1>1. At(a, "create") /\ Busy(a) /\ p \in Working /\ p.file.entries \subseteq saved
  <2>1. At(a, "create") /\ Busy(a) /\ p.file.entries \subseteq p.known
    BY DEF Ingested, Busy, At
  <2> QED BY <2>1, WorkingFields DEF Inv, ApplierInv, KnownSaved
<1>2. UNCHANGED <<rowVars, pipeline, torn, starts, interrupts>>
  BY DEF Ingested
<1>3. CASE p.job # "apply"
  <2>1. End(a, "done")
    BY <1>3 DEF Ingested
  <2>2. "done" \in Outcomes
    BY DEF Outcomes
  <2> QED BY <1>1, <1>2, <2>1, <2>2, EndKeeps DEF Inv, TypeOK, At
<1>4. CASE p.job = "apply"
  <2>1. Set(a, q) /\ p = applier[a]
    BY <1>4 DEF Ingested
  <2> HIDE DEF p
  <2>2. /\ q \in Working /\ q.phase = "express" /\ q.file = p.file
        /\ q.known = p.known /\ q.job = p.job
    BY <1>1 DEF Working
  <2> HIDE DEF q
  <2>3. /\ applier' \in [Appliers -> Working \cup Ended \cup {Idle}] /\ applier'[a] = q
        /\ \A b \in Appliers \ {a} : applier'[b] = applier[b]
    BY <2>1, <2>2, GoesOnTyped DEF Inv
  <2>4. TypeOK'
    BY <1>2, <2>3 DEF Inv, TypeOK, rowVars
  <2>5. ReferencesSaved' /\ TrackedUnlessTorn'
    BY <1>1, <1>2, <2>3, RowsStay DEF rowVars, At
  <2>6. ASSUME NEW b \in Appliers PROVE ApplierInv(b)'
    <3>1. CASE b = a
      BY <1>1, <1>2, <2>1, <2>2, <2>3, <3>1
         DEF Inv, ApplierInv, KnownSaved, LinksLeft, ExpressReady, FileParses, Busy, At,
             Parses, Acyclic, Resolved, rowVars
    <3>2. CASE b # a
      BY <1>2, <2>1, <3>2, OthersKeep DEF Inv, rowVars
    <3> QED BY <3>1, <3>2
  <2> QED BY <1>2, <2>4, <2>5, <2>6 DEF Inv, rowVars
<1> QED BY <1>3, <1>4

\* The desired state is expressed.
LEMMA ExpressKeeps ==
    ASSUME Inv, NEW a \in Appliers, Express(a)
    PROVE  Inv'
<1> DEFINE f == applier[a].file
<1>1. /\ At(a, "express") /\ Busy(a) /\ f \in Files /\ applier[a].want \in Wishes
      /\ f.entries \subseteq saved
  BY WorkingFields DEF Inv, Express, Busy, At
<1>2. UNCHANGED <<saved, refersTo, tracked, pipeline, torn, starts, interrupts>>
  BY DEF Express
<1>3. /\ desired' \in [Names -> Wishes \cup {None}]
      /\ state' \in [Names -> States]
      /\ \A n \in Names : desired'[n] = IF n \in f.entries THEN applier[a].want ELSE desired[n]
  BY <1>1 DEF Inv, TypeOK, Express, States
<1> DEFINE p == [phase |-> "ended", job |-> applier[a].job,
                 overlapped |-> applier[a].overlapped, outcome |-> "done"]
<1>4. Set(a, p) /\ End(a, "done") /\ applier'[a] = p
  BY DEF Express, End, Set, Inv, TypeOK
<1>5. applier' \in [Appliers -> Working \cup Ended \cup {Idle}]
  BY <1>1, <1>4, EndTyped DEF Inv, Outcomes
<1>6. TypeOK'
  BY <1>2, <1>3, <1>5 DEF Inv, TypeOK
<1>7. \A b \in Appliers \ {a} : applier'[b] = applier[b]
  BY <1>4 DEF Inv, TypeOK, Set
<1>8. ReferencesSaved' /\ TrackedUnlessTorn'
  BY <1>1, <1>2, <1>7, RowsStay DEF At
<1>9. ASSUME NEW b \in Appliers PROVE ApplierInv(b)'
  <2>1. CASE b = a
    BY <1>4, <2>1 DEF ApplierInv, KnownSaved, LinksLeft, ExpressReady, FileParses, Busy, At
  <2>2. CASE b # a
    BY <1>2, <1>4, <2>2, OthersKeep DEF Inv
  <2> QED BY <2>1, <2>2
<1>10. \A n \in Names : desired'[n] # None => n \in saved'
  BY <1>1, <1>2, <1>3 DEF Inv
<1> QED BY <1>6, <1>8, <1>9, <1>10 DEF Inv

\* A file is taken up.
LEMMA StartKeeps ==
    ASSUME Inv, NEW a \in Appliers, NEW job \in Jobs, NEW f \in Files,
           NEW want \in Wishes, Start(a, job, f, want)
    PROVE  Inv'
<1>1. UNCHANGED <<rowVars, pipeline, torn, interrupts>> /\ ~Busy(a)
  BY DEF Start
<1>2. starts' \in 0..MaxStarts
  BY ConstantsAssumption DEF Start, Inv, TypeOK
<1>3. applier' \in [Appliers -> Working \cup Ended \cup {Idle}]
  BY StartTyped DEF Inv
<1>4. TypeOK'
  BY <1>1, <1>2, <1>3 DEF Inv, TypeOK, rowVars
<1>5. ASSUME NEW b \in Appliers, b # a
      PROVE  \/ applier'[b] = applier[b]
             \/ /\ Busy(b) /\ applier'[b] = [applier[b] EXCEPT !.overlapped = TRUE]
  BY <1>5 DEF Start, Set, Overlap, Inv, TypeOK
<1>6. ASSUME NEW b \in Appliers, Busy(b)
      PROVE  LET p == applier[b]
                 q == [p EXCEPT !.overlapped = TRUE]
             IN  /\ q.phase = p.phase /\ q.known = p.known /\ q.cur = p.cur
                 /\ q.links = p.links /\ q.file = p.file /\ q.job = p.job
  BY <1>6, WorkingFields DEF Inv, Working
<1>7. ASSUME NEW b \in Appliers, b # a
      PROVE  /\ At(b, "link")' = At(b, "link") /\ At(b, "express")' = At(b, "express")
             /\ Busy(b)' = Busy(b)
             /\ Busy(b) => /\ applier'[b].known = applier[b].known
                           /\ applier'[b].cur = applier[b].cur
                           /\ applier'[b].links = applier[b].links
                           /\ applier'[b].file = applier[b].file
                           /\ applier'[b].job = applier[b].job
  BY <1>5, <1>6, <1>7 DEF At, Busy
<1>8. ReferencesSaved' /\ TrackedUnlessTorn'
  BY <1>1, <1>7, RowsStay DEF rowVars, At, Busy
<1>9. ASSUME NEW b \in Appliers, b # a PROVE ApplierInv(b)'
  <2>1. ApplierInv(b)
    BY DEF Inv
  <2>2. UNCHANGED <<saved, refersTo, tracked>>
    BY <1>1 DEF rowVars
  <2>3. CASE ~Busy(b)
    BY <1>7, <1>9, <2>3 DEF ApplierInv, KnownSaved, LinksLeft, ExpressReady, FileParses, Busy, At
  <2>4. CASE Busy(b)
    BY <1>7, <1>9, <2>1, <2>2, <2>4
       DEF ApplierInv, KnownSaved, LinksLeft, ExpressReady, FileParses, Dependencies,
           Parses, Acyclic, Resolved
  <2> QED BY <2>3, <2>4
<1>10. ApplierInv(a)'
  <2>1. CASE Parses(f)
    <3> DEFINE q == [phase |-> First(job), job |-> job, file |-> f, want |-> want,
                     known |-> Existing(f), cur |-> NoName, links |-> {},
                     overlapped |-> Busies # {}]
    <3>1. applier'[a] = q
      BY <2>1 DEF Start, Overlap, Inv, TypeOK
    <3>2. /\ applier'[a].phase = First(job) /\ applier'[a].known = Existing(f)
          /\ applier'[a].file = f /\ applier'[a].job = job
      BY <3>1
    <3>3. Existing(f) \subseteq saved' /\ Parses(f)'
      BY <1>1, <2>1 DEF Existing, rowVars, Parses, Acyclic, Resolved
    <3> QED BY <3>2, <3>3 DEF ApplierInv, KnownSaved, LinksLeft, ExpressReady, FileParses, At,
                              Parses, Acyclic, Resolved, First
  <2>2. CASE ~Parses(f)
    <3>1. applier'[a].phase = "ended"
      BY <2>2 DEF Start, Set, Inv, TypeOK
    <3> QED BY <3>1 DEF ApplierInv, KnownSaved, LinksLeft, ExpressReady, FileParses, Busy, At
  <2> QED BY <2>1, <2>2
<1> QED BY <1>1, <1>4, <1>8, <1>9, <1>10 DEF Inv, rowVars

\* An applier that ends without having expressed anything.
LEMMA EndingsKeep ==
    ASSUME Inv, NEW a \in Appliers,
           Invalid(a) \/ Conflict(a) \/ NotIngested(a) \/ Interrupt(a)
    PROVE  Inv'
<1>1. CASE Interrupt(a)
  <2>1. "interrupted" \in Outcomes /\ End(a, "interrupted") /\ Busy(a) /\ UNCHANGED rowVars
    BY <1>1 DEF Interrupt, Outcomes
  <2>2. interrupts' \in 0..MaxInterrupts
    BY <1>1, ConstantsAssumption DEF Interrupt, Inv, TypeOK
  <2>3. At(a, "link") => applier[a].cur \in Names
    BY DEF Inv, ApplierInv, LinksLeft, TypeOK
  <2>4. torn' = IF At(a, "link") THEN torn \cup {applier[a].cur} ELSE torn
    BY <1>1 DEF Interrupt
  <2>5. pipeline' \in [Names -> Wishes \cup {None}] /\ starts' \in 0..MaxStarts
    BY <1>1 DEF Interrupt, Inv, TypeOK
  <2>6. torn \subseteq torn' /\ torn' \subseteq Names /\ (At(a, "link") => applier[a].cur \in torn')
    BY <2>3, <2>4 DEF Inv, TypeOK
  <2> QED BY <2>1, <2>2, <2>5, <2>6, EndKeeps
<1>2. CASE Invalid(a) \/ Conflict(a) \/ NotIngested(a)
  <2>1. UNCHANGED <<rowVars, pipeline, torn, starts, interrupts>> /\ Busy(a) /\ ~At(a, "link")
    BY <1>2 DEF Invalid, Conflict, NotIngested, Busy, At
  <2>2. PICK outcome \in Outcomes : End(a, outcome)
    BY <1>2 DEF Invalid, Conflict, NotIngested, Outcomes
  <2> QED BY <2>1, <2>2, EndKeeps DEF Inv, TypeOK
<1> QED BY <1>1, <1>2

\* The scheduler leaves the rows alone but for their state.
LEMMA SchedulerKeeps ==
    ASSUME Inv, NEW n \in Names, Schedule(n) \/ Complete(n)
    PROVE  Inv'
<1>1. UNCHANGED <<saved, refersTo, tracked, desired, applier, torn, starts, interrupts>>
  BY DEF Schedule, Complete, rowVars
<1>2. state' \in [Names -> States] /\ pipeline' \in [Names -> Wishes \cup {None}]
  <2>1. CASE Schedule(n)
    BY <2>1 DEF Schedule, rowVars, Inv, TypeOK
  <2>2. CASE Complete(n)
    <3>1. pipeline[n] \in States
      BY <2>2 DEF Complete, Inv, TypeOK, States
    <3> QED BY <2>2, <3>1 DEF Complete, Inv, TypeOK
  <2> QED BY <2>1, <2>2
<1>3. TypeOK'
  BY <1>1, <1>2 DEF Inv, TypeOK
<1>4. ReferencesSaved' /\ TrackedUnlessTorn'
  BY <1>1, RowsStay DEF At
<1>5. ASSUME NEW b \in Appliers PROVE ApplierInv(b)'
  BY <1>1 DEF Inv, ApplierInv, KnownSaved, LinksLeft, ExpressReady, FileParses, Busy, At,
              Dependencies, Parses, Acyclic, Resolved
<1> QED BY <1>1, <1>3, <1>4, <1>5 DEF Inv

\* Nothing changes.
LEMMA StutterKeeps ==
    ASSUME Inv, UNCHANGED vars
    PROVE  Inv'
<1>1. UNCHANGED <<saved, refersTo, tracked, desired, state, pipeline, applier, torn,
                  starts, interrupts>>
  BY DEF vars, rowVars
<1>2. TypeOK' /\ ReferencesSaved' /\ TrackedUnlessTorn'
  BY <1>1 DEF Inv, TypeOK, ReferencesSaved, TrackedUnlessTorn, Dependencies, Linking, At
<1>3. ASSUME NEW b \in Appliers PROVE ApplierInv(b)'
  BY <1>1 DEF Inv, ApplierInv, KnownSaved, LinksLeft, ExpressReady, FileParses, Busy, At,
              Dependencies, Parses, Acyclic, Resolved
<1> QED BY <1>1, <1>2, <1>3 DEF Inv

LEMMA InitEstablishes == Init => Inv
<1> SUFFICES ASSUME Init PROVE Inv
  OBVIOUS
<1>1. TypeOK
  BY ConstantsAssumption DEF Init, TypeOK, States, Idle
<1>2. ASSUME NEW a \in Appliers PROVE ApplierInv(a)
  BY DEF Init, Idle, ApplierInv, KnownSaved, LinksLeft, ExpressReady, FileParses, Busy, At
<1> QED BY <1>1, <1>2 DEF Init, Inv, ReferencesSaved, TrackedUnlessTorn

LEMMA StepKeeps == Inv /\ [Next]_vars => Inv'
<1> SUFFICES ASSUME Inv, [Next]_vars PROVE Inv'
  OBVIOUS
<1>1. ASSUME NEW a \in Appliers, Apply(a) PROVE Inv'
  BY <1>1, SaveRowKeeps, LinkKeeps, IngestedKeeps, ExpressKeeps, EndingsKeep DEF Apply
<1>2. ASSUME NEW a \in Appliers, NEW job \in Jobs, NEW f \in Files, NEW want \in Wishes,
             Start(a, job, f, want)
      PROVE  Inv'
  BY <1>2, StartKeeps
<1>3. ASSUME NEW n \in Names, Schedule(n) \/ Complete(n) PROVE Inv'
  BY <1>3, SchedulerKeeps
<1>4. CASE UNCHANGED vars
  BY <1>4, StutterKeeps
<1> QED BY <1>1, <1>2, <1>3, <1>4 DEF Next

LEMMA Invariant == Spec => []Inv
  BY InitEstablishes, StepKeeps, PTL DEF Spec

-------------------------------------------------------------------------------
(* The theorems *)

\* The variables of the model hold what the code can put there.
THEOREM HclTypeCorrect == Spec => []TypeOK
<1>1. Inv => TypeOK
  BY DEF Inv
<1> QED BY <1>1, Invariant, PTL

\* Applying files leaves no foreign key that names a missing row, wherever
\* the appliers are interrupted: create_resource_from_hcl saves a row after
\* what it refers to.
THEOREM NoDanglingReference == Spec => []ReferencesSaved
<1>1. Inv => ReferencesSaved
  BY DEF Inv
<1> QED BY <1>1, Invariant, PTL

\* Dependency rows are missing only while an applier is about to write them,
\* or because it was interrupted just then.
THEOREM OnlyTornRowsUntracked == Spec => []TrackedUnlessTorn
<1>1. Inv => TrackedUnlessTorn
  BY DEF Inv
<1> QED BY <1>1, Invariant, PTL

-------------------------------------------------------------------------------
(* The table of resources refines Catalog *)

Wanted == {n \in Names : desired[n] # None}

\* A step that leaves alone what Catalog sees.
LEMMA CatalogStutters ==
    ASSUME UNCHANGED <<saved, refersTo, desired>>
    PROVE  UNCHANGED Catalogue!vars
  BY DEF Catalogue!vars

\* What an applier does is a step of Catalog, or hidden from it.
LEMMA ApplyRefines ==
    ASSUME Inv, NEW a \in Appliers, Apply(a)
    PROVE  [Catalogue!Next]_(Catalogue!vars)
<1>1. CASE SaveRow(a)
  <2> DEFINE f == applier[a].file
  <2>1. f \in Files
    BY <1>1, WorkingFields DEF SaveRow, Busy, At, Inv
  <2>2. PICK n \in Candidates(applier[a]) :
          /\ Valid(applier[a], n) /\ n \notin saved
          /\ saved' = saved \cup {n}
          /\ refersTo' = [refersTo EXCEPT ![n] = f.fks[n]]
    BY <1>1 DEF SaveRow
  <2>3. n \in Names /\ f.fks[n] \in SUBSET saved
    BY <2>1, <2>2, FileFields DEF Candidates, Valid
  <2>4. Wanted' = Wanted
    BY <1>1 DEF SaveRow, Wanted
  <2>5. Catalogue!Add(n)
    BY <2>2, <2>3, <2>4 DEF Catalogue!Add, Wanted
  <2> QED BY <2>3, <2>5 DEF Catalogue!Next
<1>2. CASE Express(a)
  <2>1. PICK S \in SUBSET saved : S = applier[a].file.entries
    BY <1>2 DEF Express
  <2>2. applier[a].want # None /\ S \subseteq Names
    BY <1>2, <2>1, WorkingFields DEF Express, Busy, At, Inv, TypeOK, Wishes, None
  <2>3. \A n \in Names : desired'[n] = IF n \in S THEN applier[a].want ELSE desired[n]
    BY <1>2, <2>1 DEF Express
  <2>4. Wanted' = Wanted \cup S
    BY <2>2, <2>3 DEF Wanted
  <2>5. Catalogue!Want(S)
    BY <1>2, <2>4 DEF Catalogue!Want, Express, Wanted
  <2> QED BY <2>5 DEF Catalogue!Next
<1>3. CASE Link(a) \/ Ingested(a) \/ Invalid(a) \/ Conflict(a) \/ NotIngested(a) \/ Interrupt(a)
  <2>1. UNCHANGED <<saved, refersTo, desired>>
    BY <1>3 DEF Link, Ingested, Invalid, Conflict, NotIngested, Interrupt, rowVars
  <2> QED BY <2>1, CatalogStutters
<1> QED BY <1>1, <1>2, <1>3 DEF Apply

\* Resources appear once, after what they refer to, keep their references and
\* are wanted only when they are there, whatever the appliers do.
THEOREM KeepsCatalog == Spec => Catalogued
<1>1. Init => Catalogue!Init
  BY DEF Init, Catalogue!Init, None
<1>2. Inv /\ [Next]_vars => [Catalogue!Next]_(Catalogue!vars)
  <2> SUFFICES ASSUME Inv, [Next]_vars PROVE [Catalogue!Next]_(Catalogue!vars)
    OBVIOUS
  <2>1. ASSUME NEW a \in Appliers, Apply(a) PROVE [Catalogue!Next]_(Catalogue!vars)
    BY <2>1, ApplyRefines
  <2>2. ASSUME NEW a \in Appliers, NEW job \in Jobs, NEW f \in Files, NEW want \in Wishes,
               Start(a, job, f, want)
        PROVE  UNCHANGED <<saved, refersTo, desired>>
    BY <2>2 DEF Start, rowVars
  <2>3. ASSUME NEW n \in Names, Schedule(n) \/ Complete(n)
        PROVE  UNCHANGED <<saved, refersTo, desired>>
    BY <2>3 DEF Schedule, Complete, rowVars
  <2>4. CASE UNCHANGED vars
    BY <2>4, CatalogStutters DEF vars, rowVars
  <2> QED BY <2>1, <2>2, <2>3, <2>4, CatalogStutters DEF Next
<1> QED BY <1>1, <1>2, Invariant, PTL DEF Spec, Catalogued, Catalogue!Spec

-------------------------------------------------------------------------------
(* An applier by itself succeeds *)

\* Of two appliers at work each knows that it overlaps with another.
Overlapping ==
    \A a, b \in Appliers : a # b /\ Busy(a) /\ Busy(b) => applier[a].overlapped

\* The rows of its file that an applier by itself does not know of.
Unknown(a) == (applier[a].file.entries \cap saved) \ applier[a].known

NoSurprise(a) ==
    /\ At(a, "create") /\ ~applier[a].overlapped => Unknown(a) = {}
    /\ At(a, "link") /\ ~applier[a].overlapped => Unknown(a) \subseteq {applier[a].cur}
    /\ At(a, "express") => applier[a].job # "ingest"

Succeeds(a) ==
    At(a, "ended") =>
        /\ applier[a].outcome = "conflict" => applier[a].overlapped
        /\ applier[a].outcome = "incomplete" => applier[a].job = "express"

Alone ==
    /\ Overlapping
    /\ \A a \in Appliers : NoSurprise(a) /\ Succeeds(a)

\* A step of one applier, which is alone or leaves the rows as they are.
LEMMA AloneKept ==
    ASSUME Inv, Alone, NEW a \in Appliers, Busy(a), NEW q, Set(a, q),
           q.overlapped = applier[a].overlapped, NoSurprise(a)', Succeeds(a)'
    PROVE  Alone'
<1>1. \A b \in Appliers \ {a} : applier'[b] = applier[b]
  BY DEF Set, Inv, TypeOK
<1>2. applier'[a] = q
  BY DEF Set, Inv, TypeOK
<1>3. Overlapping'
  BY <1>1, <1>2 DEF Alone, Overlapping, Busy
<1>4. ASSUME NEW b \in Appliers, b # a PROVE NoSurprise(b)' /\ Succeeds(b)'
  <2>1. NoSurprise(b) /\ Succeeds(b) /\ applier'[b] = applier[b]
    BY <1>1, <1>4 DEF Alone
  <2>2. Busy(b) => applier[b].overlapped
    BY <1>4 DEF Alone, Overlapping
  <2> QED BY <2>1, <2>2 DEF NoSurprise, Succeeds, At, Busy, Unknown
<1> QED BY <1>3, <1>4 DEF Alone

\* An applier that ends, other than by a conflict of its own making.
LEMMA EndAlone ==
    ASSUME Inv, Alone, NEW a \in Appliers, Busy(a), NEW outcome \in Outcomes, End(a, outcome),
           outcome = "conflict" => applier[a].overlapped,
           outcome = "incomplete" => applier[a].job = "express"
    PROVE  Alone'
<1> DEFINE q == [phase |-> "ended", job |-> applier[a].job,
                 overlapped |-> applier[a].overlapped, outcome |-> outcome]
<1>1. Set(a, q) /\ applier'[a] = q
  BY DEF End, Set, Inv, TypeOK
<1>2. NoSurprise(a)' /\ Succeeds(a)'
  BY <1>1 DEF NoSurprise, Succeeds, At
<1> QED BY <1>1, <1>2, AloneKept

LEMMA ApplyAlone ==
    ASSUME Inv, Inv', Alone, NEW a \in Appliers, Apply(a)
    PROVE  Alone'
<1> DEFINE p == applier[a]
<1>0. NoSurprise(a)
  BY DEF Alone
<1>1. CASE SaveRow(a)
  <2>1. /\ At(a, "create") /\ Busy(a) /\ p \in Working /\ p.file \in Files
    BY <1>1, WorkingFields DEF SaveRow, Busy, At, Inv
  <2>2. PICK n \in Candidates(p) :
          /\ saved' = saved \cup {n}
          /\ Set(a, IF p.file.fks[n] = {} THEN Done(p, n) ELSE ToLink(p, n, p.file.fks[n]))
    BY <1>1 DEF SaveRow
  <2>3. n \in Names /\ p.file.fks[n] \subseteq Names
    BY <2>1, <2>2, FileFields DEF Candidates
  <2>4. CASE p.file.fks[n] = {}
    <3>1. Set(a, Done(p, n)) /\ applier'[a] = Done(p, n)
      BY <2>2, <2>4 DEF Set, Inv, TypeOK
    <3>2. /\ applier'[a].phase = "create" /\ applier'[a].file = p.file
          /\ applier'[a].known = p.known \cup {n} /\ applier'[a].overlapped = p.overlapped
      BY <2>1, <2>3, <3>1, DoneTyped
    <3>3. NoSurprise(a)' /\ Succeeds(a)'
      BY <1>0, <2>1, <2>2, <3>2 DEF NoSurprise, Succeeds, At, Unknown
    <3> QED BY <2>1, <3>1, <3>2, <3>3, AloneKept
  <2>5. CASE p.file.fks[n] # {}
    <3> DEFINE fks == p.file.fks[n]
    <3>1. Set(a, ToLink(p, n, fks)) /\ applier'[a] = ToLink(p, n, fks)
      BY <2>2, <2>5 DEF Set, Inv, TypeOK
    <3>2. /\ applier'[a].phase = "link" /\ applier'[a].file = p.file /\ applier'[a].cur = n
          /\ applier'[a].known = p.known /\ applier'[a].overlapped = p.overlapped
      BY <2>1, <2>3, <3>1, ToLinkTyped
    <3>3. NoSurprise(a)' /\ Succeeds(a)'
      BY <1>0, <2>1, <2>2, <3>2 DEF NoSurprise, Succeeds, At, Unknown
    <3> QED BY <2>1, <3>1, <3>2, <3>3, AloneKept
  <2> QED BY <2>4, <2>5
<1>2. CASE Link(a)
  <2>1. At(a, "link") /\ Busy(a) /\ p \in Working /\ p.links \subseteq Names /\ p.cur \in Names
    BY <1>2, WorkingFields DEF Link, Busy, At, Inv, ApplierInv, LinksLeft, TypeOK
  <2>2. PICK d \in p.links :
          Set(a, IF Left(p.links, d) = {} THEN Done(p, p.cur)
                 ELSE ToLink(p, p.cur, Left(p.links, d)))
    BY <1>2 DEF Link
  <2>3. saved' = saved /\ Left(p.links, d) \subseteq Names
    BY <1>2, <2>1 DEF Link, Left
  <2>4. CASE Left(p.links, d) = {}
    <3>1. Set(a, Done(p, p.cur)) /\ applier'[a] = Done(p, p.cur)
      BY <2>2, <2>4 DEF Set, Inv, TypeOK
    <3>2. /\ applier'[a].phase = "create" /\ applier'[a].file = p.file
          /\ applier'[a].known = p.known \cup {p.cur}
          /\ applier'[a].overlapped = p.overlapped
      BY <2>1, <3>1, DoneTyped
    <3>3. NoSurprise(a)' /\ Succeeds(a)'
      BY <1>0, <2>1, <2>3, <3>2 DEF NoSurprise, Succeeds, At, Unknown
    <3> QED BY <2>1, <3>1, <3>2, <3>3, AloneKept
  <2>5. CASE Left(p.links, d) # {}
    <3> DEFINE left == Left(p.links, d)
    <3>1. Set(a, ToLink(p, p.cur, left)) /\ applier'[a] = ToLink(p, p.cur, left)
      BY <2>2, <2>5 DEF Set, Inv, TypeOK
    <3>2. /\ applier'[a].phase = "link" /\ applier'[a].file = p.file
          /\ applier'[a].cur = p.cur
          /\ applier'[a].known = p.known /\ applier'[a].overlapped = p.overlapped
      BY <2>1, <2>3, <3>1, ToLinkTyped
    <3>3. NoSurprise(a)' /\ Succeeds(a)'
      BY <1>0, <2>1, <2>3, <3>2 DEF NoSurprise, Succeeds, At, Unknown
    <3> QED BY <2>1, <3>1, <3>2, <3>3, AloneKept
  <2> QED BY <2>4, <2>5
<1>3. CASE Ingested(a)
  <2>1. Busy(a) /\ p \in Working
    BY <1>3, WorkingFields DEF Ingested, Busy, At, Inv
  <2>2. CASE p.job = "apply"
    <3> DEFINE q == [p EXCEPT !.phase = "express"]
    <3>1. Set(a, q) /\ applier'[a] = q
      BY <1>3, <2>2 DEF Ingested, Set, Inv, TypeOK
    <3>2. q.phase = "express" /\ q.job = "apply" /\ q.overlapped = p.overlapped
      BY <2>1, <2>2 DEF Working
    <3> HIDE DEF q
    <3>3. NoSurprise(a)' /\ Succeeds(a)'
      BY <3>1, <3>2 DEF NoSurprise, Succeeds, At
    <3> QED BY <2>1, <3>1, <3>2, <3>3, AloneKept
  <2>3. CASE p.job # "apply"
    <3>1. End(a, "done") /\ "done" \in Outcomes
      BY <1>3, <2>3 DEF Ingested, Outcomes
    <3> QED BY <2>1, <3>1, EndAlone
  <2> QED BY <2>2, <2>3
<1>4. CASE Conflict(a)
  <2>1. Busy(a) /\ End(a, "conflict") /\ "conflict" \in Outcomes /\ At(a, "create")
    BY <1>4 DEF Conflict, Busy, At, Outcomes
  <2>2. Unknown(a) # {}
    BY <1>4 DEF Conflict, Candidates, Unknown
  <2>3. applier[a].overlapped
    BY <1>0, <2>1, <2>2, WorkingFields DEF NoSurprise, Inv
  <2> QED BY <2>1, <2>3, EndAlone
<1>5. CASE NotIngested(a)
  <2>1. Busy(a) /\ End(a, "incomplete") /\ "incomplete" \in Outcomes /\ At(a, "express")
    BY <1>5 DEF NotIngested, Busy, At, Outcomes
  <2>2. p.job \in Jobs /\ p.job # "ingest" /\ p.job # "apply"
    BY <1>0, <1>5, <2>1, WorkingFields DEF NotIngested, NoSurprise, Inv, ApplierInv, ExpressReady
  <2>3. p.job = "express"
    BY <2>2 DEF Jobs
  <2> QED BY <2>1, <2>3, EndAlone
<1>6. CASE Express(a) \/ Invalid(a) \/ Interrupt(a)
  <2>1. PICK outcome \in {"done", "invalid", "interrupted"} : End(a, outcome)
    BY <1>6 DEF Express, Invalid, Interrupt
  <2>2. Busy(a) /\ outcome \in Outcomes
    BY <1>6, <2>1 DEF Express, Invalid, Interrupt, Busy, At, Outcomes
  <2> QED BY <2>1, <2>2, EndAlone
<1> QED BY <1>1, <1>2, <1>3, <1>4, <1>5, <1>6 DEF Apply

LEMMA StartAlone ==
    ASSUME Inv, Alone, NEW a \in Appliers, NEW job \in Jobs, NEW f \in Files,
           NEW want \in Wishes, Start(a, job, f, want)
    PROVE  Alone'
<1>0. ~Busy(a) /\ saved' = saved
  BY DEF Start, rowVars
<1>1. CASE ~Parses(f)
  <2>1. applier'[a] = [phase |-> "ended", job |-> job, overlapped |-> FALSE,
                       outcome |-> "malformed"]
    BY <1>1 DEF Start, Set, Inv, TypeOK
  <2>2. \A b \in Appliers \ {a} : applier'[b] = applier[b]
    BY <1>1 DEF Start, Set, Inv, TypeOK
  <2>3. ~Busy(a)' /\ NoSurprise(a)' /\ Succeeds(a)'
    BY <2>1 DEF Busy, NoSurprise, Succeeds, At
  <2> QED BY <1>0, <2>2, <2>3 DEF Alone, Overlapping, NoSurprise, Succeeds, Busy, At, Unknown
<1>2. CASE Parses(f)
  <2> DEFINE q == [phase |-> First(job), job |-> job, file |-> f, want |-> want,
                   known |-> Existing(f), cur |-> NoName, links |-> {},
                   overlapped |-> Busies # {}]
  <2>1. applier'[a] = q
    BY <1>2 DEF Start, Overlap, Inv, TypeOK
  <2>2. /\ applier'[a].phase = First(job) /\ applier'[a].known = Existing(f)
        /\ applier'[a].file = f /\ applier'[a].job = job
        /\ applier'[a].overlapped = (Busies # {})
    BY <2>1
  <2>3. NoSurprise(a)' /\ Succeeds(a)'
    BY <1>0, <2>2 DEF NoSurprise, Succeeds, At, Unknown, Existing, First
  <2>4. ASSUME NEW b \in Appliers, b # a
        PROVE  /\ Busy(b) => /\ applier'[b].overlapped /\ b \in Busies
                             /\ applier'[b].phase = applier[b].phase
                             /\ applier'[b].job = applier[b].job
               /\ ~Busy(b) => applier'[b] = applier[b]
    <3>1. applier'[b] = IF Busy(b) THEN [applier[b] EXCEPT !.overlapped = TRUE] ELSE applier[b]
      BY <1>2, <2>4 DEF Start, Overlap, Inv, TypeOK
    <3>2. CASE Busy(b)
      <4> DEFINE r == applier[b]
      <4>1. r \in Working
        BY <3>2, WorkingFields DEF Inv
      <4>2. applier'[b] = [r EXCEPT !.overlapped = TRUE]
        BY <3>1, <3>2
      <4> HIDE DEF r
      <4>3. /\ applier'[b].overlapped /\ applier'[b].phase = r.phase
            /\ applier'[b].job = r.job
        BY <4>1, <4>2 DEF Working
      <4> QED BY <3>2, <4>3 DEF r, Busies
    <3> QED BY <3>1, <3>2
  <2>5. ASSUME NEW b \in Appliers, b # a PROVE NoSurprise(b)' /\ Succeeds(b)'
    <3>1. NoSurprise(b) /\ Succeeds(b)
      BY DEF Alone
    <3>2. CASE Busy(b)
      BY <2>4, <2>5, <3>1, <3>2 DEF NoSurprise, Succeeds, At, Busy
    <3>3. CASE ~Busy(b)
      BY <2>4, <2>5, <3>1, <3>3 DEF NoSurprise, Succeeds, At, Busy
    <3> QED BY <3>2, <3>3
  <2>6. Overlapping'
    <3>1. ASSUME NEW b \in Appliers, NEW c \in Appliers, b # c, Busy(b)', Busy(c)'
          PROVE  applier'[b].overlapped
      <4>1. CASE b = a
        <5>1. Busy(c)
          BY <2>4, <3>1, <4>1 DEF Busy
        <5> QED BY <2>2, <4>1, <5>1 DEF Busies
      <4>2. CASE b # a
        BY <2>4, <3>1, <4>2 DEF Busy
      <4> QED BY <4>1, <4>2
    <3> QED BY <3>1 DEF Overlapping
  <2> QED BY <2>3, <2>5, <2>6 DEF Alone
<1> QED BY <1>1, <1>2

LEMMA AloneInvariant == Spec => []Alone
<1>1. Init => Alone
  <2>1. ASSUME Init, NEW a \in Appliers PROVE ~Busy(a) /\ NoSurprise(a) /\ Succeeds(a)
    BY <2>1 DEF Init, Idle, Busy, NoSurprise, Succeeds, At
  <2> QED BY <2>1 DEF Alone, Overlapping
<1>2. Inv /\ Inv' /\ Alone /\ [Next]_vars => Alone'
  <2> SUFFICES ASSUME Inv, Inv', Alone, [Next]_vars PROVE Alone'
    OBVIOUS
  <2>1. CASE applier' = applier /\ saved' = saved
    BY <2>1 DEF Alone, Overlapping, NoSurprise, Succeeds, Unknown, Busy, At
  <2>2. ASSUME NEW n \in Names, Schedule(n) \/ Complete(n) PROVE Alone'
    BY <2>1, <2>2 DEF Schedule, Complete, rowVars
  <2>3. CASE UNCHANGED vars
    BY <2>1, <2>3 DEF vars, rowVars
  <2> QED BY <2>2, <2>3, ApplyAlone, StartAlone DEF Next
<1> QED BY <1>1, <1>2, Invariant, PTL DEF Spec

\* Applying a file by itself is repeatable: _fetch_hcl_resource_models finds
\* what an earlier apply left, so that only a simultaneous one conflicts.
THEOREM RepeatableApply == Spec => []AloneSucceeds
<1>1. Alone => AloneSucceeds
  BY DEF Alone, AloneSucceeds, Succeeds
<1> QED BY <1>1, AloneInvariant, PTL

-------------------------------------------------------------------------------
(* What is scheduled *)

\* Nobody wants a row before an applier by itself has written its dependency
\* rows.
NotYetWanted ==
    \A a \in Appliers :
        At(a, "link") /\ ~applier[a].overlapped => desired[applier[a].cur] = None

LEMMA ApplyNotYetWanted ==
    ASSUME Inv, Alone, NotYetWanted, NEW a \in Appliers, Apply(a)
    PROVE  NotYetWanted'
<1>1. ASSUME NEW q, Set(a, q) PROVE applier'[a] = q /\ \A b \in Appliers \ {a} : applier'[b] = applier[b]
  BY <1>1 DEF Set, Inv, TypeOK
<1>2. ASSUME NEW q, Set(a, q), desired' = desired,
             q.phase = "link" /\ ~q.overlapped => desired[q.cur] = None
      PROVE  NotYetWanted'
  BY <1>1, <1>2 DEF NotYetWanted, At
<1>3. CASE SaveRow(a)
  <2>0. PICK n \in Candidates(applier[a]) :
          /\ n \notin saved
          /\ Set(a, IF applier[a].file.fks[n] = {} THEN Done(applier[a], n)
                    ELSE ToLink(applier[a], n, applier[a].file.fks[n]))
    BY <1>3 DEF SaveRow
  <2> DEFINE fks == applier[a].file.fks[n]
  <2>1. /\ n \in Candidates(applier[a]) /\ n \notin saved
        /\ Set(a, IF fks = {} THEN Done(applier[a], n) ELSE ToLink(applier[a], n, fks))
    BY <2>0
  <2> HIDE DEF fks
  <2>2. n \in Names
    BY <1>3, <2>1, WorkingFields, FileFields DEF SaveRow, Candidates, Inv, Busy, At
  <2>3. desired' = desired /\ desired[n] = None
    BY <1>3, <2>1, <2>2 DEF SaveRow, Inv
  <2>4. applier[a] \in Working
    BY <1>3, WorkingFields DEF SaveRow, Inv, Busy, At
  <2>5. Done(applier[a], n).phase = "create"
    BY <2>4 DEF Done, Working
  <2>6. ToLink(applier[a], n, fks).cur = n
    BY <2>4 DEF ToLink, Working
  <2>7. CASE fks = {}
    BY <1>2, <2>1, <2>3, <2>5, <2>7
  <2>8. CASE fks # {}
    BY <1>2, <2>1, <2>3, <2>6, <2>8
  <2> QED BY <2>7, <2>8
<1>4. CASE Link(a)
  <2>1. PICK left :
          Set(a, IF left = {} THEN Done(applier[a], applier[a].cur)
                 ELSE ToLink(applier[a], applier[a].cur, left))
    BY <1>4 DEF Link
  <2>2. applier[a] \in Working /\ desired' = desired /\ At(a, "link")
    BY <1>4, WorkingFields DEF Link, Inv, Busy, At
  <2>3. Done(applier[a], applier[a].cur).phase = "create"
    BY <2>2 DEF Done, Working
  <2>4. /\ ToLink(applier[a], applier[a].cur, left).cur = applier[a].cur
        /\ ToLink(applier[a], applier[a].cur, left).overlapped = applier[a].overlapped
    BY <2>2 DEF ToLink, Working
  <2>5. CASE left = {}
    BY <1>2, <2>1, <2>2, <2>3, <2>5
  <2>6. CASE left # {}
    BY <1>2, <2>1, <2>2, <2>4, <2>6 DEF NotYetWanted
  <2> QED BY <2>5, <2>6
<1>5. ASSUME NEW outcome, End(a, outcome)
      PROVE  /\ applier'[a].phase = "ended"
             /\ \A b \in Appliers \ {a} : applier'[b] = applier[b]
  BY <1>1, <1>5 DEF End
<1>6. CASE Express(a)
  <2>1. Busy(a) /\ applier'[a].phase = "ended"
        /\ \A b \in Appliers \ {a} : applier'[b] = applier[b]
    BY <1>5, <1>6 DEF Express, Busy, At
  <2>2. ASSUME NEW b \in Appliers, At(b, "link")' PROVE applier'[b].overlapped
    BY <2>1, <2>2 DEF Alone, Overlapping, Busy, At
  <2> QED BY <2>2 DEF NotYetWanted
<1>7. CASE Invalid(a) \/ Conflict(a) \/ NotIngested(a) \/ Interrupt(a)
  <2>1. desired' = desired /\ \E outcome : End(a, outcome)
    BY <1>7 DEF Invalid, Conflict, NotIngested, Interrupt, rowVars
  <2> QED BY <1>5, <2>1 DEF NotYetWanted, At
<1>8. CASE Ingested(a)
  <2>1. desired' = desired
    BY <1>8 DEF Ingested, rowVars
  <2>2. CASE applier[a].job = "apply"
    <3>1. applier[a] \in Working
      BY <1>8, WorkingFields DEF Ingested, Inv, Busy, At
    <3>2. [applier[a] EXCEPT !.phase = "express"].phase = "express"
      BY <3>1 DEF Working
    <3> QED BY <1>2, <1>8, <2>1, <2>2, <3>2 DEF Ingested
  <2>3. CASE applier[a].job # "apply"
    BY <1>5, <1>8, <2>1, <2>3 DEF Ingested, NotYetWanted, At
  <2> QED BY <2>2, <2>3
<1> QED BY <1>3, <1>4, <1>6, <1>7, <1>8 DEF Apply

LEMMA StartNotYetWanted ==
    ASSUME Inv, NotYetWanted, NEW a \in Appliers, NEW job \in Jobs, NEW f \in Files,
           NEW want \in Wishes, Start(a, job, f, want)
    PROVE  NotYetWanted'
<1>1. desired' = desired
  BY DEF Start, rowVars
<1>2. applier'[a].phase # "link"
  <2>1. First(job) # "link"
    BY DEF First
  <2> QED BY <2>1 DEF Start, Set, Overlap, Inv, TypeOK
<1>3. ASSUME NEW b \in Appliers \ {a}, At(b, "link")', ~applier'[b].overlapped
      PROVE  applier'[b] = applier[b]
  <2>1. CASE Parses(f)
    <3>1. applier'[b] = IF Busy(b) THEN [applier[b] EXCEPT !.overlapped = TRUE] ELSE applier[b]
      BY <1>3, <2>1 DEF Start, Overlap
    <3>2. Busy(b) => applier[b] \in Working
      BY WorkingFields DEF Inv
    <3> QED BY <1>3, <3>1, <3>2 DEF Working
  <2>2. CASE ~Parses(f)
    BY <1>3, <2>2 DEF Start, Set, Inv, TypeOK
  <2> QED BY <2>1, <2>2
<1> QED BY <1>1, <1>2, <1>3 DEF NotYetWanted, At

\* A resource is scheduled when all its foreign keys name healthy resources
\* (ensure_dependencies_ready), as its dependency rows are complete, unless
\* its applier was interrupted or another one wanted it in the meantime.
THEOREM OrderIsKept == Spec => ScheduledInOrder
<1>1. Spec => []NotYetWanted
  <2>1. Init => NotYetWanted
    BY DEF Init, NotYetWanted, Idle, At
  <2>2. Inv /\ Alone /\ NotYetWanted /\ [Next]_vars => NotYetWanted'
    <3> SUFFICES ASSUME Inv, Alone, NotYetWanted, [Next]_vars PROVE NotYetWanted'
      OBVIOUS
    <3>1. ASSUME NEW n \in Names, Schedule(n) \/ Complete(n) PROVE NotYetWanted'
      BY <3>1 DEF Schedule, Complete, rowVars, NotYetWanted, At
    <3>2. CASE UNCHANGED vars
      BY <3>2 DEF vars, rowVars, NotYetWanted, At
    <3> QED BY <3>1, <3>2, ApplyNotYetWanted, StartNotYetWanted DEF Next
  <2> QED BY <2>1, <2>2, Invariant, AloneInvariant, PTL DEF Spec
<1>2. ASSUME Inv, NotYetWanted, [Next]_vars, NEW n \in Names \ torn, Started(n),
             \A a \in Linking(n) : ~applier[a].overlapped
      PROVE  \A d \in refersTo[n] : state[d] = "healthy"
  <2>1. n \in saved /\ DependenciesReady(n) /\ desired[n] # None
    <3>1. pipeline[n] # pipeline'[n]
      BY <1>2 DEF Started, None
    <3>2. PICK m \in Names : Schedule(m) \/ Complete(m)
      BY <1>2, <3>1 DEF Next, Apply, vars, Start, SaveRow, Link, Ingested, Express, Invalid,
                         Conflict, NotIngested, Interrupt
    <3>3. CASE Complete(m)
      BY <1>2, <3>1, <3>3 DEF Complete, Inv, TypeOK, Started, None
    <3>4. CASE Schedule(m)
      BY <1>2, <3>1, <3>4 DEF Schedule, Inv, TypeOK, Started, None
    <3> QED BY <3>2, <3>3, <3>4
  <2>2. Linking(n) = {}
    BY <1>2, <2>1 DEF Linking, NotYetWanted
  <2>3. Dependencies(n) = refersTo[n]
    BY <1>2, <2>1, <2>2 DEF Inv, TrackedUnlessTorn
  <2> QED BY <2>1, <2>3 DEF DependenciesReady
<1>3. Inv /\ NotYetWanted /\ [Next]_vars =>
        [\A n \in Names \ torn :
            Started(n) /\ (\A a \in Linking(n) : ~applier[a].overlapped)
                => \A d \in refersTo[n] : state[d] = "healthy"]_vars
  BY <1>2
<1> QED BY <1>1, <1>3, Invariant, PTL DEF Spec, ScheduledInOrder
===============================================================================
