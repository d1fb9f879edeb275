------------------------ MODULE TransitionEngineProofs ------------------------
(***************************************************************************)
(* Proofs about TransitionEngine, for any number of transitions and        *)
(* submitters, any max_retries and any number of faults.                   *)
(***************************************************************************)
EXTENDS TransitionEngine, TLAPS

\* Moving a delivery to another phase changes nothing else of it.
LEMMA MovedAttempt ==
    ASSUME NEW a \in Attempts, NEW p \in Phases
    PROVE  /\ [a EXCEPT !.phase = p] \in Attempts
           /\ [a EXCEPT !.phase = p].msg = a.msg
           /\ [a EXCEPT !.phase = p].seen = a.seen
           /\ [a EXCEPT !.phase = p].phase = p
  BY DEF Attempts

\* What a publication adds is a message, and the counter stays a number.
LEMMA PublishedMessage ==
    ASSUME TypeOK, NEW t \in Transitions, NEW r \in 0..(MaxRetries - 1),
           NEW b \in BOOLEAN, Publish(t, r, b)
    PROVE  /\ broker' \subseteq Messages
           /\ sent' \in [Transitions -> Nat]
  BY ConstantsAssumption DEF TypeOK, Publish, Messages

\* Type correctness: every row, message, delivery and submission batch of the
\* engine stays what the code's records are.
THEOREM TypeCorrect == Spec => []TypeOK
<1>1. Init => TypeOK
  BY ConstantsAssumption DEF Init, TypeOK, Idle, Statuses, Promise!Statuses
<1>2. TypeOK /\ [Next]_vars => TypeOK'
  <2> SUFFICES ASSUME TypeOK, [Next]_vars PROVE TypeOK'
    OBVIOUS
  <2> USE ConstantsAssumption
  <2>s. /\ {"pending", "sent_to_broker", "in_progress", "succeeded", "failed"} \subseteq Statuses
        /\ Phases = {"received", "running", "retried", "settled", "expired"}
    BY DEF Statuses, Promise!Statuses, Phases
  <2>a. ASSUME NEW a \in attempts
        PROVE  a \in Attempts /\ a.msg \in Messages /\ a.msg.t \in Transitions
               /\ a.msg.retries \in 0..(MaxRetries - 1) /\ a.msg.rescheduled \in BOOLEAN
    BY DEF TypeOK, Attempts, Messages
  <2>z. 0 \in 0..(MaxRetries - 1) /\ FALSE \in BOOLEAN /\ TRUE \in BOOLEAN
    OBVIOUS
  <2>m. ASSUME NEW a \in attempts, NEW p \in Phases, MoveTo(a, p)
        PROVE  attempts' \subseteq Attempts
    BY <2>a, <2>m, MovedAttempt DEF TypeOK, MoveTo
  <2>1. ASSUME NEW t \in Transitions, Create(t) PROVE TypeOK'
    BY <2>1, <2>s DEF TypeOK, Create, faults
  <2>2. ASSUME NEW s \in Submitters, SubmitBegin(s) PROVE TypeOK'
    BY <2>2 DEF TypeOK, SubmitBegin, FirstBatch, Pending, faults
  <2>3. ASSUME NEW s \in Submitters, SubmitMark(s) PROVE TypeOK'
    BY <2>3, <2>s DEF TypeOK, SubmitMark, faults
  <2>4. ASSUME NEW s \in Submitters, SubmitPublish(s) PROVE TypeOK'
    <3>1. batch[s].publishing \in Transitions
      BY <2>4 DEF TypeOK, SubmitPublish
    <3>2. broker' \subseteq Messages /\ sent' \in [Transitions -> Nat]
      BY <2>4, <3>1, <2>z, PublishedMessage DEF SubmitPublish
    <3> QED BY <2>4, <3>2 DEF TypeOK, SubmitPublish, faults
  <2>5. ASSUME NEW s \in Submitters, SubmitLost(s) PROVE TypeOK'
    <3>1. losses' \in 0..MaxLosses
      BY <2>5 DEF TypeOK, SubmitLost
    <3>2. batch[s].publishing \in Transitions
      BY <2>5 DEF TypeOK, SubmitLost
    <3> QED BY <2>5, <3>1, <3>2 DEF TypeOK, SubmitLost, Idle
  <2>6. ASSUME NEW m \in broker, Receive(m) PROVE TypeOK'
    <3>1. [msg |-> m, seen |-> status[m.t], phase |-> "received"] \in Attempts
      BY <2>s DEF TypeOK, Attempts, Messages
    <3> QED BY <2>6, <3>1 DEF TypeOK, Receive, faults
  <2>7. ASSUME NEW a \in attempts, RevokeDuplicate(a) PROVE TypeOK'
    BY <2>7, <2>m, <2>s DEF TypeOK, RevokeDuplicate, faults
  <2>8. ASSUME NEW a \in attempts, Start(a) PROVE TypeOK'
    <3>1. attempts' \subseteq Attempts
      BY <2>8, <2>m, <2>s DEF Start
    <3> QED BY <2>8, <3>1, <2>s DEF TypeOK, Start, faults
  <2>9. ASSUME NEW a \in attempts, Retry(a) PROVE TypeOK'
    <3>1. attempts' \subseteq Attempts
      BY <2>9, <2>m, <2>s DEF Retry
    <3>2. a.msg.retries + 1 \in 0..(MaxRetries - 1)
      BY <2>9, <2>a DEF Retry, RetriesLeft
    <3>3. broker' \subseteq Messages /\ sent' \in [Transitions -> Nat]
      BY <2>9, <2>a, <3>2, PublishedMessage DEF Retry
    <3> QED BY <2>9, <3>1, <3>3 DEF TypeOK, Retry, faults
  <2>10. ASSUME NEW a \in attempts, NEW o \in Terminal, Settle(a, o) PROVE TypeOK'
    <3>1. attempts' \subseteq Attempts
      BY <2>10, <2>m, <2>s DEF Settle
    <3> QED BY <2>10, <3>1, <2>s DEF TypeOK, Settle, faults, Terminal, Promise!Terminal
  <2>11. ASSUME NEW a \in attempts, Ack(a) PROVE TypeOK'
    BY <2>11 DEF TypeOK, Ack, faults
  <2>12. ASSUME NEW a \in attempts, Crash(a) PROVE TypeOK'
    <3>1. crashes' \in 0..MaxCrashes
      BY <2>12 DEF TypeOK, Crash
    <3>2. a.msg \in Messages /\ a.msg.t \in Transitions
      BY <2>a
    <3> QED BY <2>12, <3>1, <3>2 DEF TypeOK, Crash
  <2>13. ASSUME NEW a \in attempts, Timeout(a) PROVE TypeOK'
    <3>1. attempts' \subseteq Attempts
      BY <2>13, <2>m, <2>s DEF Timeout
    <3>2. timeouts' \in 0..MaxTimeouts
      BY <2>13 DEF TypeOK, Timeout
    <3>3. a.msg.t \in Transitions
      BY <2>a
    <3> QED BY <2>13, <3>1, <3>2, <3>3 DEF TypeOK, Timeout
  <2>14. ASSUME NEW a \in attempts, Reschedule(a) PROVE TypeOK'
    <3>1. broker' \subseteq Messages /\ sent' \in [Transitions -> Nat]
      BY <2>14, <2>a, <2>z, PublishedMessage DEF Reschedule
    <3> QED BY <2>14, <3>1 DEF TypeOK, Reschedule, faults
  <2>15. ASSUME NEW a \in attempts, TimeoutFailure(a) PROVE TypeOK'
    BY <2>15, <2>s DEF TypeOK, TimeoutFailure, faults
  <2>16. ASSUME NEW a \in attempts, TimeoutLost(a) \/ RetryLost(a) PROVE TypeOK'
    <3>1. losses' \in 0..MaxLosses
      BY <2>16 DEF TypeOK, TimeoutLost, RetryLost, LoseDelivery
    <3>2. a.msg.t \in Transitions
      BY <2>a
    <3> QED BY <2>16, <3>1, <3>2 DEF TypeOK, TimeoutLost, RetryLost, LoseDelivery
  <2>17. CASE UNCHANGED vars
    BY <2>17 DEF TypeOK, vars
  <2>18. ASSUME NEW a \in attempts, Exhaust(a) \/ Succeed(a) \/ Fail(a) PROVE TypeOK'
    BY <2>18, <2>10 DEF Exhaust, Succeed, Fail, Terminal, Promise!Terminal
  <2> QED
    BY <2>1, <2>2, <2>3, <2>4, <2>5, <2>6, <2>7, <2>8, <2>9, <2>11, <2>12, <2>13,
       <2>14, <2>15, <2>16, <2>17, <2>18
    DEF Next, Submission, Delivery, Execution, Faults
<1> QED BY <1>1, <1>2, PTL DEF Spec

-------------------------------------------------------------------------------
(* NoOrphan is inductive as it stands, given the types. *)

\* A step that takes one delivery from its worker and leaves the others, the
\* messages and the submitters alone keeps every transition carried, if it
\* does so for the transition of that delivery.
LEMMA CarriedKept ==
    ASSUME NEW t \in Transitions, NEW a \in attempts, Carried(t),
           broker \subseteq broker', attempts \ {a} \subseteq attempts',
           batch' = batch,
           a.msg.t = t /\ WillProceed(a) => Carried(t)'
    PROVE  Carried(t)'
<1>1. CASE \E m \in broker : m.t = t
  BY <1>1 DEF Carried
<1>2. CASE \E b \in attempts : b.msg.t = t /\ WillProceed(b)
  <2>1. PICK b \in attempts : b.msg.t = t /\ WillProceed(b)
    BY <1>2
  <2>2. CASE b = a
    BY <2>1, <2>2
  <2>3. CASE b # a
    BY <2>1, <2>3 DEF Carried, WillProceed
  <2> QED BY <2>2, <2>3
<1>3. CASE Publishing(t) # {}
  BY <1>3 DEF Carried, Publishing
<1> QED BY <1>1, <1>2, <1>3 DEF Carried

\* A published message carries its transition.
LEMMA PublishCarries ==
    ASSUME NEW t, NEW r, NEW b, Publish(t, r, b)
    PROVE  Carried(t)' /\ broker \subseteq broker'
<1> DEFINE m == [t |-> t, tag |-> sent[t] + 1, retries |-> r, rescheduled |-> b]
<1>1. m \in broker' /\ m.t = t
  BY DEF Publish
<1> QED BY <1>1 DEF Carried, Publish

Open == {"sent_to_broker", "in_progress"}

\* Every step keeps the transitions that are under way carried.
LEMMA NoOrphanStep ==
    ASSUME TypeOK, NoOrphan, [Next]_vars
    PROVE  NoOrphan'
<1> SUFFICES ASSUME NEW t \in Transitions, t \notin lost', status'[t] \in Open
             PROVE  Carried(t)'
  BY DEF NoOrphan, Open
<1>o. t \notin lost /\ status[t] \in Open => Carried(t)
  BY DEF NoOrphan, Open
<1>b. ASSUME NEW a \in attempts
      PROVE  a \in Attempts /\ a.msg.t \in Transitions
  BY DEF TypeOK, Attempts, Messages
<1>1. ASSUME NEW u \in Transitions, Create(u) PROVE Carried(t)'
  <2>1. status[t] = status'[t] /\ t \notin lost
    BY <1>1 DEF TypeOK, Create, Open
  <2> QED BY <1>1, <1>o, <2>1 DEF Create, Carried, WillProceed, Publishing
<1>2. ASSUME NEW s \in Submitters, SubmitBegin(s) PROVE Carried(t)'
  <2>1. Carried(t)
    BY <1>2, <1>o DEF SubmitBegin
  <2>2. \A r \in Submitters : batch'[r].publishing = batch[r].publishing
    BY <1>2 DEF SubmitBegin, TypeOK
  <2> QED BY <1>2, <2>1, <2>2 DEF SubmitBegin, Carried, WillProceed, Publishing
<1>3. ASSUME NEW s \in Submitters, SubmitMark(s) PROVE Carried(t)'
  <2>1. PICK u \in batch[s].todo :
           /\ batch' = [batch EXCEPT ![s] = [todo |-> @.todo \ {u}, publishing |-> u]]
           /\ status' = [status EXCEPT ![u] = "sent_to_broker"]
    BY <1>3 DEF SubmitMark
  <2>2. CASE u = t
    <3>1. batch'[s].publishing = t
      BY <2>1, <2>2 DEF TypeOK
    <3> QED BY <3>1 DEF Carried, Publishing
  <2>3. CASE u # t
    <3>1. Carried(t)
      BY <1>3, <1>o, <2>1, <2>3 DEF SubmitMark, TypeOK
    <3>2. \A r \in Submitters : batch[r].publishing = t => batch'[r].publishing = t
      BY <1>3, <2>1, ConstantsAssumption DEF SubmitMark, TypeOK
    <3>3. Publishing(t) \subseteq Publishing(t)'
      BY <3>2 DEF Publishing
    <3> QED BY <1>3, <3>1, <3>3 DEF SubmitMark, Carried, WillProceed
  <2> QED BY <2>2, <2>3
<1>4. ASSUME NEW s \in Submitters, SubmitPublish(s) PROVE Carried(t)'
  <2>0. PICK u : u = batch[s].publishing
    OBVIOUS
  <2>1. Carried(u)' /\ broker \subseteq broker'
    BY <1>4, <2>0, PublishCarries DEF SubmitPublish
  <2>2. CASE u = t
    BY <2>1, <2>2
  <2>3. CASE u # t
    <3>1. Carried(t)
      BY <1>4, <1>o DEF SubmitPublish
    <3>2. Publishing(t) \subseteq Publishing(t)'
      BY <1>4, <2>0, <2>3 DEF SubmitPublish, Publishing, TypeOK
    <3> QED BY <1>4, <2>1, <3>1, <3>2 DEF SubmitPublish, Carried, WillProceed
  <2> QED BY <2>2, <2>3
<1>5. ASSUME NEW s \in Submitters, SubmitLost(s) PROVE Carried(t)'
  <2>1. t \notin lost /\ batch[s].publishing # t /\ status' = status
    BY <1>5 DEF SubmitLost
  <2>2. Carried(t)
    BY <1>o, <2>1
  <2>3. Publishing(t) \subseteq Publishing(t)'
    BY <1>5, <2>1 DEF SubmitLost, Publishing, TypeOK
  <2> QED BY <1>5, <2>2, <2>3 DEF SubmitLost, Carried, WillProceed
<1>6. ASSUME NEW m \in broker, Receive(m) PROVE Carried(t)'
  <2> DEFINE a == [msg |-> m, seen |-> status[m.t], phase |-> "received"]
  <2>1. Carried(t) /\ status[t] \in Open /\ a \in attempts'
    BY <1>6, <1>o DEF Receive
  <2>2. CASE m.t = t
    <3>1. a.msg.t = t /\ WillProceed(a)
      BY <2>1, <2>2 DEF WillProceed, Open, Terminal, Promise!Terminal
    <3> QED BY <2>1, <3>1 DEF Carried, WillProceed
  <2>3. CASE m.t # t
    BY <1>6, <2>1, <2>3 DEF Receive, Carried, WillProceed, Publishing
  <2> QED BY <2>2, <2>3
\* What the steps of a worker have in common.
<1>w. ASSUME NEW a \in attempts, t \notin lost, status[t] \in Open,
             broker \subseteq broker', attempts \ {a} \subseteq attempts',
             batch' = batch, a.msg.t = t /\ WillProceed(a) => Carried(t)'
      PROVE  Carried(t)'
  BY <1>o, <1>w, CarriedKept
<1>7. ASSUME NEW a \in attempts, RevokeDuplicate(a) PROVE Carried(t)'
  <2>1. ~WillProceed(a)
    BY <1>7 DEF RevokeDuplicate, WillProceed
  <2> QED BY <1>7, <1>w, <2>1 DEF RevokeDuplicate, MoveTo
<1>8. ASSUME NEW a \in attempts, Start(a) PROVE Carried(t)'
  <2> DEFINE b == [a EXCEPT !.phase = "running"]
  <2>1. b \in attempts' /\ b.msg = a.msg /\ b.phase = "running"
    BY <1>8, <1>b, MovedAttempt DEF Start, MoveTo, Phases
  <2>2. CASE a.msg.t = t
    BY <2>1, <2>2 DEF Carried, WillProceed
  <2>3. CASE a.msg.t # t
    <3>1. status[t] \in Open
      BY <1>8, <1>b, <2>3 DEF Start, TypeOK
    <3> QED BY <1>8, <1>w, <2>3, <3>1 DEF Start, MoveTo
  <2> QED BY <2>2, <2>3
<1>9. ASSUME NEW a \in attempts, Retry(a) PROVE Carried(t)'
  <2>1. Carried(a.msg.t)' /\ broker \subseteq broker'
    BY <1>9, PublishCarries DEF Retry
  <2> QED BY <1>9, <1>w, <2>1 DEF Retry, MoveTo
<1>10. ASSUME NEW a \in attempts, NEW o \in Terminal, Settle(a, o) PROVE Carried(t)'
  <2>1. a.msg.t # t /\ status[t] \in Open
    BY <1>10, <1>b DEF Settle, TypeOK, Open, Terminal, Promise!Terminal
  <2> QED BY <1>10, <1>w, <2>1 DEF Settle, MoveTo
<1>11. ASSUME NEW a \in attempts, Ack(a) PROVE Carried(t)'
  <2>1. ~WillProceed(a)
    BY <1>11 DEF Ack, WillProceed
  <2> QED BY <1>11, <1>w, <2>1 DEF Ack
<1>12. ASSUME NEW a \in attempts, Crash(a) PROVE Carried(t)'
  <2>1. a.msg \in broker' /\ broker \subseteq broker'
    BY <1>12 DEF Crash
  <2>2. a.msg.t = t => Carried(t)'
    BY <2>1 DEF Carried
  <2> QED BY <1>12, <1>w, <2>1, <2>2 DEF Crash
<1>13. ASSUME NEW a \in attempts, Timeout(a) PROVE Carried(t)'
  <2> DEFINE b == [a EXCEPT !.phase = "expired"]
  <2>1. b \in attempts' /\ b.msg = a.msg /\ b.phase = "expired"
    BY <1>13, <1>b, MovedAttempt DEF Timeout, MoveTo, Phases
  <2>2. a.msg.t = t => Carried(t)'
    BY <2>1 DEF Carried, WillProceed
  <2> QED BY <1>13, <1>w, <2>2 DEF Timeout, MoveTo
<1>14. ASSUME NEW a \in attempts, Reschedule(a) PROVE Carried(t)'
  <2>1. Carried(a.msg.t)' /\ broker \subseteq broker'
    BY <1>14, PublishCarries DEF Reschedule
  <2> QED BY <1>14, <1>w, <2>1 DEF Reschedule
<1>15. ASSUME NEW a \in attempts, TimeoutFailure(a) PROVE Carried(t)'
  <2>1. a.msg.t # t /\ status[t] \in Open
    BY <1>15, <1>b DEF TimeoutFailure, TypeOK, Open
  <2> QED BY <1>15, <1>w, <2>1 DEF TimeoutFailure
<1>16. ASSUME NEW a \in attempts, TimeoutLost(a) \/ RetryLost(a) PROVE Carried(t)'
  BY <1>16, <1>w DEF TimeoutLost, RetryLost, LoseDelivery
<1>17. CASE UNCHANGED vars
  BY <1>17, <1>o DEF vars, Carried, WillProceed, Publishing
<1>18. ASSUME NEW a \in attempts, Exhaust(a) \/ Succeed(a) \/ Fail(a) PROVE Carried(t)'
  BY <1>18, <1>10 DEF Exhaust, Succeed, Fail, Terminal, Promise!Terminal
<1> QED
  BY <1>1, <1>2, <1>3, <1>4, <1>5, <1>6, <1>7, <1>8, <1>9, <1>11, <1>12, <1>13,
     <1>14, <1>15, <1>16, <1>17, <1>18
  DEF Next, Submission, Delivery, Execution, Faults

\* A transition that reads sent_to_broker or in_progress always has something
\* that will go on with it, outside the three windows that lose a publication:
\* whatever overlaps, crashes, times out or is delivered twice, and however often.
THEOREM NothingOrphaned == Spec => []NoOrphan
<1>1. Init => NoOrphan
  BY DEF Init, NoOrphan
<1>2. TypeOK /\ NoOrphan /\ [Next]_vars => NoOrphan'
  BY NoOrphanStep
<1> QED BY <1>1, <1>2, TypeCorrect, PTL DEF Spec

-------------------------------------------------------------------------------
(* One execution at a time.  SingleFlight is not inductive: it needs to    *)
(* know what the holder of a transition implies about its status (so that  *)
(* no holder means not yet sent, or over) and about the count of its       *)
(* publications.                                                           *)

MessageFits(m) ==
    /\ m.retries > 0 => status[m.t] # "sent_to_broker"
    /\ IF m.rescheduled THEN sent[m.t] <= m.retries + 3
                        ELSE sent[m.t] = m.retries + 1

AttemptFits(a) ==
    /\ MessageFits(a.msg)
    /\ a.phase = "received" => a.seen = status[a.msg.t]
    /\ a.phase = "running" => status[a.msg.t] = "in_progress"
    /\ a.phase = "settled" => status[a.msg.t] \in Terminal
    /\ a.phase = "expired" => status[a.msg.t] \notin Terminal

OneHolder(t) == \A x \in Holders(t), y \in Holders(t) : x = y

Unsent(t) ==
    status[t] \in {"absent", "pending"} => Holders(t) = {} /\ sent[t] = 0

HoldersFit(t) ==
    /\ \A s \in Publishing(t) : status[t] = "sent_to_broker" /\ sent[t] = 0
    /\ \A m \in broker : m.t = t => MessageFits(m)
    /\ \A a \in attempts : a.msg.t = t /\ a.phase # "retried" => AttemptFits(a)

Custody(t) ==
    /\ OneHolder(t)
    /\ Unsent(t)
    /\ HoldersFit(t)
    /\ sent[t] <= MaxRetries + 2

Exclusive == \A t \in Transitions \ compromised : Custody(t)

MessagesOf(t) == {m \in broker : m.t = t}
ActiveOf(t) == {a \in attempts : a.msg.t = t /\ a.phase # "retried"}

\* Holders(t) by its three parts.
LEMMA HoldersByKind ==
    ASSUME NEW t
    PROVE  /\ \A m : <<"message", m>> \in Holders(t) <=> m \in broker /\ m.t = t
           /\ \A a : <<"attempt", a>> \in Holders(t)
                       <=> a \in attempts /\ a.msg.t = t /\ a.phase # "retried"
           /\ \A s : <<"submitter", s>> \in Holders(t) <=> s \in Publishing(t)
           /\ \A x \in Holders(t) :
                 \/ \E m \in broker : x = <<"message", m>> /\ m.t = t
                 \/ \E a \in attempts : x = <<"attempt", a>> /\ a.msg.t = t
                                           /\ a.phase # "retried"
                 \/ \E s \in Publishing(t) : x = <<"submitter", s>>
  BY DEF Holders

\* What is known of t when it has no holder ...
LEMMA EmptyHanded ==
    ASSUME NEW t, Holders(t) = {}
    PROVE  MessagesOf(t) = {} /\ ActiveOf(t) = {} /\ Publishing(t) = {}
<1>1. ASSUME NEW m \in broker PROVE m.t # t
  BY HoldersByKind
<1>2. ASSUME NEW a \in attempts PROVE ~(a.msg.t = t /\ a.phase # "retried")
  BY HoldersByKind
<1>3. ASSUME NEW s \in Publishing(t) PROVE FALSE
  BY HoldersByKind
<1> QED BY <1>1, <1>2, <1>3 DEF MessagesOf, ActiveOf

\* ... and of its messages and deliveries when all its holders are one.
LEMMA HeldByOne ==
    ASSUME NEW t, NEW kind, NEW v, \A x \in Holders(t) : x = <<kind, v>>
    PROVE  /\ \A m \in broker : m.t = t => kind = "message" /\ m = v
           /\ \A a \in attempts : a.msg.t = t /\ a.phase # "retried" => kind = "attempt" /\ a = v
<1>1. ASSUME NEW m \in broker, m.t = t PROVE kind = "message" /\ m = v
  <2>1. <<"message", m>> \in Holders(t)
    BY <1>1 DEF Holders
  <2>2. <<"message", m>> = <<kind, v>>
    BY <2>1
  <2> QED BY <2>2
<1>2. ASSUME NEW a \in attempts, a.msg.t = t, a.phase # "retried"
      PROVE  kind = "attempt" /\ a = v
  <2>1. <<"attempt", a>> \in Holders(t)
    BY <1>2 DEF Holders
  <2>2. <<"attempt", a>> = <<kind, v>>
    BY <2>1
  <2> QED BY <2>2
<1> QED BY <1>1, <1>2

\* A step that leaves the rows, messages and deliveries of t alone leaves it
\* in custody.
LEMMA CustodyFrame ==
    ASSUME NEW t \in Transitions, Custody(t),
           status'[t] = status[t], sent'[t] = sent[t],
           MessagesOf(t)' = MessagesOf(t), ActiveOf(t)' = ActiveOf(t),
           Publishing(t)' = Publishing(t)
    PROVE  Custody(t)'
<1>1. Holders(t)' = Holders(t)
  BY DEF Holders, MessagesOf, ActiveOf
<1>2. OneHolder(t)' /\ Unsent(t)'
  BY <1>1 DEF Custody, OneHolder, Unsent
<1>3. \A m : m.t = t /\ MessageFits(m) => MessageFits(m)'
  BY DEF MessageFits
<1>4. \A m \in broker' : m.t = t => MessageFits(m)'
  BY <1>3 DEF Custody, HoldersFit, MessagesOf
<1>5. ASSUME NEW a \in attempts', a.msg.t = t, a.phase # "retried"
      PROVE  AttemptFits(a)'
  <2>1. a \in attempts
    BY <1>5 DEF ActiveOf
  <2>2. AttemptFits(a)
    BY <1>5, <2>1 DEF Custody, HoldersFit
  <2> QED BY <1>3, <1>5, <2>2 DEF AttemptFits
<1> QED BY <1>2, <1>4, <1>5 DEF Custody, HoldersFit

\* The holder of t, when it is a delivery, is alone.
LEMMA SoleAttempt ==
    ASSUME NEW a \in attempts, a.phase # "retried", Custody(a.msg.t)
    PROVE  /\ MessagesOf(a.msg.t) = {}
           /\ ActiveOf(a.msg.t) = {a}
           /\ Publishing(a.msg.t) = {}
           /\ AttemptFits(a)
           /\ status[a.msg.t] \notin {"absent", "pending"}
<1> DEFINE t == a.msg.t
<1>1. <<"attempt", a>> \in Holders(t)
  BY HoldersByKind
<1>2. \A x \in Holders(t) : x = <<"attempt", a>>
  BY <1>1 DEF Custody, OneHolder
<1>3. \A m \in broker : m.t # t
  BY <1>2, HeldByOne
<1>4. \A b \in attempts : b.msg.t = t /\ b.phase # "retried" => b = a
  BY <1>2, HeldByOne
<1>5. ASSUME NEW s \in Publishing(t) PROVE FALSE
  <2>1. <<"submitter", s>> \in Holders(t)
    BY HoldersByKind
  <2>2. <<"submitter", s>> = <<"attempt", a>>
    BY <1>2, <2>1
  <2> QED BY <2>2
<1> QED
  BY <1>1, <1>3, <1>4, <1>5 DEF MessagesOf, ActiveOf, Custody, HoldersFit, Unsent

\* The same for a message.
LEMMA SoleMessage ==
    ASSUME NEW m \in broker, Custody(m.t)
    PROVE  /\ MessagesOf(m.t) = {m}
           /\ ActiveOf(m.t) = {}
           /\ Publishing(m.t) = {}
           /\ MessageFits(m)
           /\ status[m.t] \notin {"absent", "pending"}
<1> DEFINE t == m.t
<1>1. <<"message", m>> \in Holders(t)
  BY HoldersByKind
<1>2. \A x \in Holders(t) : x = <<"message", m>>
  BY <1>1 DEF Custody, OneHolder
<1>3. \A n \in broker : n.t = t => n = m
  BY <1>2, HeldByOne
<1>4. \A b \in attempts : ~(b.msg.t = t /\ b.phase # "retried")
  BY <1>2, HeldByOne
<1>5. ASSUME NEW s \in Publishing(t) PROVE FALSE
  <2>1. <<"submitter", s>> \in Holders(t)
    BY HoldersByKind
  <2>2. <<"submitter", s>> = <<"message", m>>
    BY <1>2, <2>1
  <2> QED BY <2>2
<1> QED
  BY <1>1, <1>3, <1>4, <1>5 DEF MessagesOf, ActiveOf, Custody, HoldersFit, Unsent

\* The same for a submitter.
LEMMA SoleSubmitter ==
    ASSUME NEW s \in Submitters, NEW t, batch[s].publishing = t, Custody(t)
    PROVE  /\ MessagesOf(t) = {}
           /\ ActiveOf(t) = {}
           /\ Publishing(t) = {s}
           /\ status[t] = "sent_to_broker" /\ sent[t] = 0
<1>0. s \in Publishing(t)
  BY DEF Publishing
<1>1. <<"submitter", s>> \in Holders(t)
  BY <1>0, HoldersByKind
<1>2. \A x \in Holders(t) : x = <<"submitter", s>>
  BY <1>1 DEF Custody, OneHolder
<1>3. \A n \in broker : n.t # t
  BY <1>2, HeldByOne
<1>4. \A b \in attempts : ~(b.msg.t = t /\ b.phase # "retried")
  BY <1>2, HeldByOne
<1>5. ASSUME NEW r \in Publishing(t) PROVE r = s
  <2>1. <<"submitter", r>> \in Holders(t)
    BY HoldersByKind
  <2>2. <<"submitter", r>> = <<"submitter", s>>
    BY <1>2, <2>1
  <2> QED BY <2>2
<1> QED
  BY <1>0, <1>3, <1>4, <1>5 DEF MessagesOf, ActiveOf, Custody, HoldersFit

\* No holder is left.
LEMMA NewCustodyOfNone ==
    ASSUME NEW t,
           MessagesOf(t)' = {}, Publishing(t)' = {}, ActiveOf(t)' = {},
           status'[t] \notin {"absent", "pending"}, sent'[t] <= MaxRetries + 2
    PROVE  Custody(t)'
<1>1. \A m \in broker' : m.t # t
  BY DEF MessagesOf
<1>2. \A a \in attempts' : ~(a.msg.t = t /\ a.phase # "retried")
  BY DEF ActiveOf
<1>3. Holders(t)' = {}
  BY <1>1, <1>2 DEF Holders
<1> QED BY <1>1, <1>2, <1>3 DEF Custody, OneHolder, Unsent, HoldersFit

\* The holder is now the delivery b.
LEMMA NewCustodyOfAttempt ==
    ASSUME NEW t, NEW b,
           MessagesOf(t)' = {}, Publishing(t)' = {}, ActiveOf(t)' = {b},
           AttemptFits(b)',
           status'[t] \notin {"absent", "pending"}, sent'[t] <= MaxRetries + 2
    PROVE  Custody(t)'
<1>1. \A m \in broker' : m.t # t
  BY DEF MessagesOf
<1>2. \A a \in attempts' : a.msg.t = t /\ a.phase # "retried" => a = b
  BY DEF ActiveOf
<1>3. Holders(t)' \subseteq {<<"attempt", b>>}
  BY <1>1, <1>2 DEF Holders
<1> QED BY <1>1, <1>2, <1>3 DEF Custody, OneHolder, Unsent, HoldersFit

\* The holder is now the message n.
LEMMA NewCustodyOfMessage ==
    ASSUME NEW t, NEW n,
           MessagesOf(t)' = {n}, Publishing(t)' = {}, ActiveOf(t)' = {},
           MessageFits(n)',
           status'[t] \notin {"absent", "pending"}, sent'[t] <= MaxRetries + 2
    PROVE  Custody(t)'
<1>1. \A m \in broker' : m.t = t => m = n
  BY DEF MessagesOf
<1>2. \A a \in attempts' : ~(a.msg.t = t /\ a.phase # "retried")
  BY DEF ActiveOf
<1>3. Holders(t)' \subseteq {<<"message", n>>}
  BY <1>1, <1>2 DEF Holders
<1> QED BY <1>1, <1>2, <1>3 DEF Custody, OneHolder, Unsent, HoldersFit

\* The holder is now the submitter s.
LEMMA NewCustodyOfSubmitter ==
    ASSUME NEW t, NEW s,
           MessagesOf(t)' = {}, Publishing(t)' = {s}, ActiveOf(t)' = {},
           status'[t] = "sent_to_broker", sent'[t] = 0
    PROVE  Custody(t)'
<1>1. \A m \in broker' : m.t # t
  BY DEF MessagesOf
<1>2. \A a \in attempts' : ~(a.msg.t = t /\ a.phase # "retried")
  BY DEF ActiveOf
<1>3. Holders(t)' \subseteq {<<"submitter", s>>}
  BY <1>1, <1>2 DEF Holders
<1>4. 0 <= MaxRetries + 2
  BY ConstantsAssumption
<1> QED BY <1>1, <1>2, <1>3, <1>4 DEF Custody, OneHolder, Unsent, HoldersFit

\* A worker's step on one transition leaves the others in custody.
LEMMA OthersKept ==
    ASSUME NEW a \in attempts, NEW t \in Transitions, t # a.msg.t, Custody(t),
           attempts \ {a} \subseteq attempts', broker \subseteq broker',
           \A b \in attempts' : b \in attempts \/ b.msg = a.msg,
           \A m \in broker' : m \in broker \/ m.t = a.msg.t,
           batch' = batch, status'[t] = status[t], sent'[t] = sent[t]
    PROVE  Custody(t)'
<1>1. MessagesOf(t)' = MessagesOf(t)
  BY DEF MessagesOf
<1>2. ActiveOf(t)' = ActiveOf(t)
  BY DEF ActiveOf
<1>3. Publishing(t)' = Publishing(t)
  BY DEF Publishing
<1> QED BY <1>1, <1>2, <1>3, CustodyFrame

\* The transition whose delivery only moves to another phase.
LEMMA MovedCustody ==
    ASSUME NEW a \in attempts, a.phase # "retried", Custody(a.msg.t),
           NEW b, b.msg = a.msg, b.phase # "retried",
           attempts' = (attempts \ {a}) \cup {b},
           broker' = broker, batch' = batch, sent' = sent,
           AttemptFits(b)', status'[a.msg.t] \notin {"absent", "pending"}
    PROVE  Custody(a.msg.t)'
<1> PICK t : t = a.msg.t
  OBVIOUS
<1>1. MessagesOf(t) = {} /\ ActiveOf(t) = {a} /\ Publishing(t) = {}
  BY SoleAttempt
<1>2. MessagesOf(t)' = {} /\ Publishing(t)' = {}
  BY <1>1 DEF MessagesOf, Publishing
<1>3. ActiveOf(t)' = {b}
  BY <1>1 DEF ActiveOf
<1>4. sent'[t] <= MaxRetries + 2
  BY DEF Custody
<1> QED BY <1>2, <1>3, <1>4, NewCustodyOfAttempt

\* The transition whose delivery is replaced by a message.
LEMMA HandedToMessage ==
    ASSUME NEW a \in attempts, a.phase # "retried", Custody(a.msg.t),
           NEW m, m.t = a.msg.t, broker' = broker \cup {m},
           attempts \ {a} \subseteq attempts',
           \A b \in attempts' : b \in attempts \ {a} \/ b.phase = "retried",
           batch' = batch, MessageFits(m)',
           status'[a.msg.t] \notin {"absent", "pending"},
           sent'[a.msg.t] <= MaxRetries + 2
    PROVE  Custody(a.msg.t)'
<1> PICK t : t = a.msg.t
  OBVIOUS
<1>1. MessagesOf(t) = {} /\ ActiveOf(t) = {a} /\ Publishing(t) = {}
  BY SoleAttempt
<1>2. MessagesOf(t)' = {m} /\ Publishing(t)' = {}
  BY <1>1 DEF MessagesOf, Publishing
<1>3. ActiveOf(t)' = {}
  BY <1>1 DEF ActiveOf
<1> QED BY <1>2, <1>3, NewCustodyOfMessage

\* The transition whose delivery disappears.
LEMMA HolderGone ==
    ASSUME NEW a \in attempts, a.phase # "retried", Custody(a.msg.t),
           attempts' = attempts \ {a}, broker' = broker, batch' = batch,
           status'[a.msg.t] \notin {"absent", "pending"}, sent' = sent
    PROVE  Custody(a.msg.t)'
<1> PICK t : t = a.msg.t
  OBVIOUS
<1>1. MessagesOf(t) = {} /\ ActiveOf(t) = {a} /\ Publishing(t) = {}
  BY SoleAttempt
<1>2. MessagesOf(t)' = {} /\ Publishing(t)' = {} /\ ActiveOf(t)' = {}
  BY <1>1 DEF MessagesOf, Publishing, ActiveOf
<1>3. sent'[t] <= MaxRetries + 2
  BY DEF Custody
<1> QED BY <1>2, <1>3, NewCustodyOfNone

\* Every step leaves each transition that stays without a twin in custody.
LEMMA ExclusiveStep ==
    ASSUME TypeOK, Exclusive, [Next]_vars
    PROVE  Exclusive'
<1> SUFFICES ASSUME NEW t \in Transitions, t \notin compromised'
             PROVE  Custody(t)'
  BY DEF Exclusive
<1> USE ConstantsAssumption
<1>c. t \notin compromised => Custody(t)
  BY DEF Exclusive
<1>b. ASSUME NEW a \in attempts
      PROVE  /\ a \in Attempts /\ a.msg \in Messages /\ a.msg.t \in Transitions
             /\ a.msg.retries \in 0..(MaxRetries - 1) /\ a.msg.rescheduled \in BOOLEAN
  BY DEF TypeOK, Attempts, Messages
<1>n. sent \in [Transitions -> Nat]
  BY DEF TypeOK
<1>1. ASSUME NEW u \in Transitions, Create(u) PROVE Custody(t)'
  <2>0. Custody(t)
    BY <1>1, <1>c DEF Create
  <2>1. MessagesOf(t)' = MessagesOf(t) /\ ActiveOf(t)' = ActiveOf(t)
        /\ Publishing(t)' = Publishing(t) /\ sent'[t] = sent[t]
    BY <1>1 DEF Create, MessagesOf, ActiveOf, Publishing
  <2>2. CASE u = t
    <3>1. status[t] = "absent" /\ status'[t] = "pending"
      BY <1>1, <2>2 DEF Create, TypeOK
    <3>2. Holders(t) = {} /\ sent[t] = 0
      BY <2>0, <3>1 DEF Custody, Unsent
    <3>3. /\ \A m \in broker : m.t # t
          /\ \A a \in attempts : ~(a.msg.t = t /\ a.phase # "retried")
          /\ Publishing(t) = {}
      BY <3>2 DEF Holders
    <3>4. Holders(t)' = {}
      BY <1>1, <3>2 DEF Create, Holders, Publishing
    <3> QED
      BY <1>1, <2>1, <3>1, <3>2, <3>3, <3>4
      DEF Create, Custody, OneHolder, Unsent, HoldersFit, Publishing
  <2>3. CASE u # t
    <3>1. status'[t] = status[t]
      BY <1>1, <2>3 DEF Create, TypeOK
    <3> QED BY <2>0, <2>1, <3>1, CustodyFrame
  <2> QED BY <2>2, <2>3
<1>2. ASSUME NEW s \in Submitters, SubmitBegin(s) PROVE Custody(t)'
  <2>1. Publishing(t)' = Publishing(t)
    BY <1>2 DEF SubmitBegin, Publishing, TypeOK
  <2> QED BY <1>2, <1>c, <2>1, CustodyFrame DEF SubmitBegin, MessagesOf, ActiveOf
<1>3. ASSUME NEW s \in Submitters, SubmitMark(s) PROVE Custody(t)'
  <2>1. PICK u \in batch[s].todo :
           /\ batch' = [batch EXCEPT ![s] = [todo |-> @.todo \ {u}, publishing |-> u]]
           /\ status' = [status EXCEPT ![u] = "sent_to_broker"]
           /\ compromised' = IF status[u] = "pending"
                               THEN compromised ELSE compromised \cup {u}
    BY <1>3 DEF SubmitMark
  <2>2. u \in Transitions
    BY <1>3, <2>1 DEF TypeOK
  <2>3. MessagesOf(t)' = MessagesOf(t) /\ ActiveOf(t)' = ActiveOf(t) /\ sent'[t] = sent[t]
    BY <1>3 DEF SubmitMark, MessagesOf, ActiveOf
  <2>4. CASE u = t
    <3>1. status[t] = "pending" /\ t \notin compromised
      BY <2>1, <2>4
    <3>2. Holders(t) = {} /\ sent[t] = 0
      BY <1>c, <3>1 DEF Custody, Unsent
    <3>3. MessagesOf(t) = {} /\ ActiveOf(t) = {} /\ Publishing(t) = {}
      BY <3>2, EmptyHanded
    <3>4. Publishing(t)' = {s}
      BY <2>1, <2>4, <3>3 DEF Publishing, TypeOK
    <3>5. status'[t] = "sent_to_broker"
      BY <2>1, <2>4 DEF TypeOK
    <3> QED BY <2>3, <3>2, <3>3, <3>4, <3>5, NewCustodyOfSubmitter
  <2>5. CASE u # t
    <3>1. status'[t] = status[t] /\ t \notin compromised
      BY <2>1, <2>2, <2>5 DEF TypeOK
    <3>2. Publishing(t)' = Publishing(t)
      BY <1>3, <2>1, <2>5 DEF SubmitMark, Publishing, TypeOK
    <3> QED BY <1>c, <2>3, <3>1, <3>2, CustodyFrame
  <2> QED BY <2>4, <2>5
<1>4. ASSUME NEW s \in Submitters, SubmitPublish(s) PROVE Custody(t)'
  <2>0. PICK u : u = batch[s].publishing
    OBVIOUS
  <2>c. Custody(t)
    BY <1>4, <1>c DEF SubmitPublish
  <2>1. PICK n : /\ n.t = u /\ n.retries = 0 /\ n.rescheduled = FALSE
                 /\ broker' = broker \cup {n} /\ sent' = [sent EXCEPT ![u] = @ + 1]
    BY <1>4, <2>0 DEF SubmitPublish, Publish
  <2>u. u \in Transitions
    BY <1>4, <2>0 DEF SubmitPublish, TypeOK
  <2>2. CASE u = t
    <3>1. MessagesOf(t) = {} /\ ActiveOf(t) = {} /\ Publishing(t) = {s}
          /\ status[t] = "sent_to_broker" /\ sent[t] = 0
      BY <2>0, <2>2, <2>c, SoleSubmitter
    <3>2. MessagesOf(t)' = {n}
      BY <2>1, <2>2, <3>1 DEF MessagesOf
    <3>3. ActiveOf(t)' = {}
      BY <1>4, <3>1 DEF SubmitPublish, ActiveOf
    <3>4. Publishing(t)' = {}
      BY <1>4, <3>1 DEF SubmitPublish, Publishing, TypeOK
    <3>5. sent'[t] = 1 /\ status'[t] = "sent_to_broker"
      BY <1>4, <1>n, <2>1, <2>2, <3>1 DEF SubmitPublish
    <3>6. MessageFits(n)'
      BY <2>1, <2>2, <3>5 DEF MessageFits
    <3>7. sent'[t] <= MaxRetries + 2
      BY <3>5
    <3> QED BY <3>2, <3>3, <3>4, <3>5, <3>6, <3>7, NewCustodyOfMessage
  <2>3. CASE u # t
    <3>1. MessagesOf(t)' = MessagesOf(t)
      BY <2>1, <2>3 DEF MessagesOf
    <3>2. ActiveOf(t)' = ActiveOf(t) /\ status'[t] = status[t]
      BY <1>4 DEF SubmitPublish, ActiveOf
    <3>3. Publishing(t)' = Publishing(t)
      BY <1>4, <2>0, <2>3 DEF SubmitPublish, Publishing, TypeOK
    <3>4. sent'[t] = sent[t]
      BY <1>n, <2>1, <2>3
    <3> QED BY <2>c, <3>1, <3>2, <3>3, <3>4, CustodyFrame
  <2> QED BY <2>2, <2>3
<1>5. ASSUME NEW s \in Submitters, SubmitLost(s) PROVE Custody(t)'
  <2>0. PICK u : u = batch[s].publishing
    OBVIOUS
  <2>c. Custody(t)
    BY <1>5, <1>c DEF SubmitLost
  <2>1. MessagesOf(t)' = MessagesOf(t) /\ ActiveOf(t)' = ActiveOf(t)
        /\ status'[t] = status[t] /\ sent'[t] = sent[t]
    BY <1>5 DEF SubmitLost, MessagesOf, ActiveOf
  <2>2. CASE u = t
    <3>1. MessagesOf(t) = {} /\ ActiveOf(t) = {} /\ Publishing(t) = {s}
          /\ status[t] = "sent_to_broker" /\ sent[t] = 0
      BY <2>0, <2>2, <2>c, SoleSubmitter
    <3>2. t # NoTransition
      OBVIOUS
    <3>3. Publishing(t)' = {}
      BY <1>5, <3>1, <3>2 DEF SubmitLost, Publishing, TypeOK, Idle
    <3>4. sent'[t] <= MaxRetries + 2
      BY <2>1, <3>1
    <3> QED BY <2>1, <3>1, <3>3, <3>4, NewCustodyOfNone
  <2>3. CASE u # t
    <3>1. Publishing(t)' = Publishing(t)
      BY <1>5, <2>0, <2>3 DEF SubmitLost, Publishing, TypeOK, Idle
    <3> QED BY <2>c, <2>1, <3>1, CustodyFrame
  <2> QED BY <2>2, <2>3
<1>6. ASSUME NEW m \in broker, Receive(m) PROVE Custody(t)'
  <2>c. Custody(t)
    BY <1>6, <1>c DEF Receive
  <2>1. PICK a :
           /\ a.msg = m /\ a.seen = status[m.t] /\ a.phase = "received"
           /\ broker' = broker \ {m} /\ attempts' = attempts \cup {a}
           /\ status' = status /\ sent' = sent /\ batch' = batch
    BY <1>6 DEF Receive
  <2>2. CASE m.t = t
    <3>1. MessagesOf(t) = {m} /\ ActiveOf(t) = {} /\ Publishing(t) = {} /\ MessageFits(m)
          /\ status[t] \notin {"absent", "pending"}
      BY <2>2, <2>c, SoleMessage
    <3>2. MessagesOf(t)' = {}
      BY <2>1, <3>1 DEF MessagesOf
    <3>3. ActiveOf(t)' = {a}
      BY <2>1, <2>2, <3>1 DEF ActiveOf
    <3>4. Publishing(t)' = {}
      BY <2>1, <3>1 DEF Publishing
    <3>5. AttemptFits(a)'
      BY <2>1, <3>1 DEF AttemptFits, MessageFits
    <3>6. sent'[t] <= MaxRetries + 2
      BY <2>1, <2>c DEF Custody
    <3> QED BY <2>1, <3>1, <3>2, <3>3, <3>4, <3>5, <3>6, NewCustodyOfAttempt
  <2>3. CASE m.t # t
    <3>1. MessagesOf(t)' = MessagesOf(t) /\ ActiveOf(t)' = ActiveOf(t)
          /\ Publishing(t)' = Publishing(t)
      BY <2>1, <2>3 DEF MessagesOf, ActiveOf, Publishing
    <3> QED BY <2>1, <2>c, <3>1, CustodyFrame
  <2> QED BY <2>2, <2>3
\* The steps of a worker: for other transitions they change nothing.
<1>o. ASSUME NEW a \in attempts,
             attempts \ {a} \subseteq attempts', broker \subseteq broker',
             \A b \in attempts' : b \in attempts \/ b.msg = a.msg,
             \A m \in broker' : m \in broker \/ m.t = a.msg.t,
             batch' = batch, compromised \subseteq compromised',
             \A u \in Transitions : u # a.msg.t =>
                status'[u] = status[u] /\ sent'[u] = sent[u],
             a.msg.t = t => Custody(t)'
      PROVE  Custody(t)'
  BY <1>o, <1>c, OthersKept
<1>p. ASSUME NEW a \in attempts, NEW p \in Phases, MoveTo(a, p)
      PROVE  \E b : /\ b.msg = a.msg /\ b.seen = a.seen /\ b.phase = p
                    /\ attempts' = (attempts \ {a}) \cup {b}
  BY <1>b, <1>p, MovedAttempt DEF MoveTo
<1>ph. Phases = {"received", "running", "retried", "settled", "expired"}
  BY DEF Phases
<1>7. ASSUME NEW a \in attempts, RevokeDuplicate(a) PROVE Custody(t)'
  <2>1. PICK b : /\ b.msg = a.msg /\ b.seen = a.seen /\ b.phase = "settled"
                 /\ attempts' = (attempts \ {a}) \cup {b}
    BY <1>7, <1>p, <1>ph DEF RevokeDuplicate
  <2>2. ASSUME a.msg.t = t PROVE Custody(t)'
    <3>1. Custody(a.msg.t)
      BY <1>7, <1>c, <2>2 DEF RevokeDuplicate
    <3>2. AttemptFits(a) /\ status[a.msg.t] \notin {"absent", "pending"}
      BY <1>7, <3>1, SoleAttempt DEF RevokeDuplicate
    <3>3. AttemptFits(b)'
      BY <1>7, <2>1, <3>2 DEF RevokeDuplicate, AttemptFits, MessageFits
    <3> QED BY <1>7, <2>1, <2>2, <3>1, <3>2, <3>3, MovedCustody DEF RevokeDuplicate
  <2> QED BY <1>7, <1>o, <2>1, <2>2 DEF RevokeDuplicate
<1>8. ASSUME NEW a \in attempts, Start(a) PROVE Custody(t)'
  <2>1. PICK b : /\ b.msg = a.msg /\ b.seen = a.seen /\ b.phase = "running"
                 /\ attempts' = (attempts \ {a}) \cup {b}
    BY <1>8, <1>p, <1>ph DEF Start
  <2>2. ASSUME a.msg.t = t PROVE Custody(t)'
    <3>1. Custody(a.msg.t)
      BY <1>8, <1>c, <2>2 DEF Start
    <3>2. AttemptFits(a) /\ status[a.msg.t] \notin {"absent", "pending"}
      BY <1>8, <3>1, SoleAttempt DEF Start
    <3>3. status[a.msg.t] \in {"sent_to_broker", "in_progress"} /\ a.seen = status[a.msg.t]
      BY <1>8, <1>b, <3>2
      DEF Start, AttemptFits, TypeOK, Statuses, Promise!Statuses, Terminal, Promise!Terminal
    <3>4. status'[a.msg.t] = "in_progress"
      BY <1>8, <1>b, <3>2, <3>3 DEF Start, AttemptFits, MessageFits, TypeOK
    <3>5. AttemptFits(b)'
      BY <1>8, <2>1, <3>2, <3>4 DEF Start, AttemptFits, MessageFits
    <3> QED BY <1>8, <2>1, <2>2, <3>1, <3>4, <3>5, MovedCustody DEF Start
  <2>3. \A u \in Transitions : u # a.msg.t => status'[u] = status[u] /\ sent'[u] = sent[u]
    BY <1>8 DEF Start, TypeOK
  <2> QED BY <1>8, <1>o, <2>1, <2>2, <2>3 DEF Start
<1>9. ASSUME NEW a \in attempts, Retry(a) PROVE Custody(t)'
  <2>1. PICK b : /\ b.msg = a.msg /\ b.seen = a.seen /\ b.phase = "retried"
                 /\ attempts' = (attempts \ {a}) \cup {b}
    BY <1>9, <1>p, <1>ph DEF Retry
  <2>2. PICK m : /\ m.t = a.msg.t /\ m.retries = a.msg.retries + 1
                 /\ m.rescheduled = a.msg.rescheduled
                 /\ broker' = broker \cup {m}
                 /\ sent' = [sent EXCEPT ![a.msg.t] = @ + 1]
    BY <1>9 DEF Retry, Publish
  <2>3. ASSUME a.msg.t = t PROVE Custody(t)'
    <3>1. Custody(a.msg.t) /\ a.phase # "retried"
      BY <1>9, <1>c, <2>3 DEF Retry, WantsRetry
    <3>2. AttemptFits(a) /\ status[a.msg.t] \notin {"absent", "pending"}
      BY <3>1, SoleAttempt
    <3>3. status[a.msg.t] = "in_progress" /\ status' = status
      BY <1>9, <3>2 DEF Retry, WantsRetry, LooksDuplicate, AttemptFits
    <3>4. sent'[a.msg.t] = sent[a.msg.t] + 1
      BY <1>b, <1>n, <2>2
    <3>n. /\ sent[a.msg.t] \in Nat /\ a.msg.retries \in Nat /\ MaxRetries \in Nat
          /\ a.msg.retries < MaxRetries - 1 /\ a.msg.rescheduled \in BOOLEAN
      <4>1. sent[a.msg.t] \in Nat
        BY <1>b, <1>n
      <4>2. a.msg.retries \in 0..(MaxRetries - 1) /\ a.msg.rescheduled \in BOOLEAN
        BY <1>b
      <4>3. a.msg.retries < MaxRetries - 1
        BY <1>9 DEF Retry, RetriesLeft
      <4> QED BY <4>1, <4>2, <4>3
    <3>f. IF a.msg.rescheduled THEN sent[a.msg.t] <= a.msg.retries + 3
                               ELSE sent[a.msg.t] = a.msg.retries + 1
      BY <3>2 DEF AttemptFits, MessageFits
    <3>g. IF a.msg.rescheduled THEN sent'[a.msg.t] <= a.msg.retries + 1 + 3
                               ELSE sent'[a.msg.t] = a.msg.retries + 1 + 1
      BY <3>4, <3>f, <3>n
    <3>5. MessageFits(m)'
      BY <2>2, <3>3, <3>g DEF MessageFits
    <3>6. sent'[a.msg.t] <= MaxRetries + 2
      BY <3>g, <3>4, <3>n
    <3>7. \A c \in attempts' : c \in attempts \ {a} \/ c.phase = "retried"
      BY <2>1
    <3> QED
      BY <1>9, <2>1, <2>2, <2>3, <3>1, <3>2, <3>3, <3>5, <3>6, <3>7, HandedToMessage
      DEF Retry
  <2>4. \A u \in Transitions : u # a.msg.t => status'[u] = status[u] /\ sent'[u] = sent[u]
    BY <1>9, <1>n, <2>2 DEF Retry
  <2> QED BY <1>9, <1>o, <2>1, <2>2, <2>3, <2>4 DEF Retry
<1>10. ASSUME NEW a \in attempts, NEW o \in Terminal, Settle(a, o), a.phase # "retried"
       PROVE  Custody(t)'
  <2>1. PICK b : /\ b.msg = a.msg /\ b.seen = a.seen /\ b.phase = "settled"
                 /\ attempts' = (attempts \ {a}) \cup {b}
    BY <1>10, <1>p, <1>ph DEF Settle
  <2>2. ASSUME a.msg.t = t PROVE Custody(t)'
    <3>1. Custody(a.msg.t)
      BY <1>10, <1>c, <2>2 DEF Settle
    <3>2. AttemptFits(a)
      BY <1>10, <3>1, SoleAttempt
    <3>3. status'[a.msg.t] = o
      BY <1>10, <1>b DEF Settle, TypeOK
    <3>4. o \notin {"absent", "pending", "sent_to_broker"}
      BY DEF Terminal, Promise!Terminal
    <3>5. AttemptFits(b)'
      BY <1>10, <2>1, <3>2, <3>3, <3>4 DEF Settle, AttemptFits, MessageFits, Terminal
    <3> QED BY <1>10, <2>1, <2>2, <3>1, <3>3, <3>4, <3>5, MovedCustody DEF Settle
  <2>3. \A u \in Transitions : u # a.msg.t => status'[u] = status[u] /\ sent'[u] = sent[u]
    BY <1>10 DEF Settle, TypeOK
  <2> QED BY <1>10, <1>o, <2>1, <2>2, <2>3 DEF Settle
<1>11. ASSUME NEW a \in attempts, Ack(a) PROVE Custody(t)'
  <2>1. ASSUME a.msg.t = t PROVE Custody(t)'
    <3>1. Custody(a.msg.t)
      BY <1>11, <1>c, <2>1 DEF Ack
    <3>2. CASE a.phase = "retried"
      <4>1. ActiveOf(t)' = ActiveOf(t)
        BY <1>11, <3>2 DEF Ack, ActiveOf
      <4> QED BY <1>11, <2>1, <3>1, <4>1, CustodyFrame DEF Ack, MessagesOf, Publishing
    <3>3. CASE a.phase = "settled"
      <4>1. status[a.msg.t] \notin {"absent", "pending"}
        BY <3>1, <3>3, SoleAttempt
      <4> QED BY <1>11, <2>1, <3>1, <3>3, <4>1, HolderGone DEF Ack
    <3> QED BY <1>11, <3>2, <3>3 DEF Ack
  <2> QED BY <1>11, <1>o, <2>1 DEF Ack
<1>12. ASSUME NEW a \in attempts, Crash(a) PROVE Custody(t)'
  <2>1. ASSUME a.msg.t = t PROVE Custody(t)'
    <3>1. Custody(a.msg.t) /\ a.phase # "retried"
      BY <1>12, <1>c, <2>1 DEF Crash
    <3>2. AttemptFits(a) /\ status[a.msg.t] \notin {"absent", "pending"}
      BY <3>1, SoleAttempt
    <3>3. MessageFits(a.msg)'
      BY <1>12, <3>2 DEF Crash, AttemptFits, MessageFits
    <3>4. sent'[a.msg.t] <= MaxRetries + 2
      BY <1>12, <3>1 DEF Crash, Custody
    <3> QED BY <1>12, <2>1, <3>1, <3>2, <3>3, <3>4, HandedToMessage DEF Crash
  <2> QED BY <1>12, <1>o, <2>1 DEF Crash
<1>13. ASSUME NEW a \in attempts, Timeout(a) PROVE Custody(t)'
  <2>1. PICK b : /\ b.msg = a.msg /\ b.seen = a.seen /\ b.phase = "expired"
                 /\ attempts' = (attempts \ {a}) \cup {b}
    BY <1>13, <1>p, <1>ph DEF Timeout
  <2>2. ASSUME a.msg.t = t PROVE Custody(t)'
    <3>1. Custody(a.msg.t) /\ a.phase # "retried" /\ status[a.msg.t] \notin Terminal
      BY <1>13, <1>c, <2>2 DEF Timeout
    <3>2. AttemptFits(a) /\ status[a.msg.t] \notin {"absent", "pending"}
      BY <3>1, SoleAttempt
    <3>3. AttemptFits(b)'
      BY <1>13, <2>1, <3>1, <3>2 DEF Timeout, AttemptFits, MessageFits, Terminal
    <3> QED BY <1>13, <2>1, <2>2, <3>1, <3>2, <3>3, MovedCustody DEF Timeout
  <2> QED BY <1>13, <1>o, <2>1, <2>2 DEF Timeout
<1>14. ASSUME NEW a \in attempts, Reschedule(a) PROVE Custody(t)'
  <2>1. PICK m : /\ m.t = a.msg.t /\ m.retries = 0 /\ m.rescheduled = TRUE
                 /\ broker' = broker \cup {m}
                 /\ sent' = [sent EXCEPT ![a.msg.t] = @ + 1]
    BY <1>14 DEF Reschedule, Publish
  <2>2. ASSUME a.msg.t = t PROVE Custody(t)'
    <3>1. Custody(a.msg.t) /\ a.phase # "retried"
      BY <1>14, <1>c, <2>2 DEF Reschedule
    <3>2. AttemptFits(a) /\ status[a.msg.t] \notin {"absent", "pending"}
      BY <3>1, SoleAttempt
    <3>3. sent'[a.msg.t] = sent[a.msg.t] + 1
      BY <1>b, <1>n, <2>1
    <3>4. sent[a.msg.t] <= 2
      BY <1>14, <1>b, <3>2 DEF Reschedule, MayReschedule, AttemptFits, MessageFits
    <3>n. sent[a.msg.t] \in Nat
      BY <1>b, <1>n
    <3>g. sent'[a.msg.t] <= 0 + 3
      BY <3>3, <3>4, <3>n
    <3>5. MessageFits(m)' /\ sent'[a.msg.t] <= MaxRetries + 2
      <4>1. MessageFits(m)'
        BY <2>1, <3>g DEF MessageFits
      <4>2. sent'[a.msg.t] <= MaxRetries + 2
        BY <3>3, <3>g, <3>n
      <4> QED BY <4>1, <4>2
    <3> QED BY <1>14, <2>1, <2>2, <3>1, <3>2, <3>5, HandedToMessage DEF Reschedule
  <2>3. \A u \in Transitions : u # a.msg.t => status'[u] = status[u] /\ sent'[u] = sent[u]
    BY <1>14, <1>n, <2>1 DEF Reschedule
  <2> QED BY <1>14, <1>o, <2>1, <2>2, <2>3 DEF Reschedule
<1>15. ASSUME NEW a \in attempts, TimeoutFailure(a) PROVE Custody(t)'
  <2>1. ASSUME a.msg.t = t PROVE Custody(t)'
    <3>1. Custody(a.msg.t) /\ a.phase # "retried"
      BY <1>15, <1>c, <2>1 DEF TimeoutFailure
    <3>2. status'[a.msg.t] = "failed"
      BY <1>15, <1>b DEF TimeoutFailure, TypeOK
    <3> QED BY <1>15, <2>1, <3>1, <3>2, HolderGone DEF TimeoutFailure
  <2>2. \A u \in Transitions : u # a.msg.t => status'[u] = status[u]
    BY <1>15 DEF TimeoutFailure, TypeOK
  <2> QED BY <1>15, <1>o, <2>1, <2>2 DEF TimeoutFailure
<1>16. ASSUME NEW a \in attempts, TimeoutLost(a) \/ RetryLost(a) PROVE Custody(t)'
  <2>1. ASSUME a.msg.t = t PROVE Custody(t)'
    <3>1. Custody(a.msg.t) /\ a.phase # "retried"
      BY <1>16, <1>c, <2>1 DEF TimeoutLost, RetryLost, LoseDelivery, WantsRetry
    <3>2. status[a.msg.t] \notin {"absent", "pending"}
      BY <3>1, SoleAttempt
    <3> QED BY <1>16, <2>1, <3>1, <3>2, HolderGone DEF TimeoutLost, RetryLost, LoseDelivery
  <2> QED BY <1>16, <1>o, <2>1 DEF TimeoutLost, RetryLost, LoseDelivery
<1>17. CASE UNCHANGED vars
  BY <1>17, <1>c, CustodyFrame DEF vars, MessagesOf, ActiveOf, Publishing
<1>18. ASSUME NEW a \in attempts, Exhaust(a) \/ Succeed(a) \/ Fail(a) PROVE Custody(t)'
  BY <1>18, <1>10 DEF Exhaust, Succeed, Fail, WantsRetry, Terminal, Promise!Terminal
<1> QED
  BY <1>1, <1>2, <1>3, <1>4, <1>5, <1>6, <1>7, <1>8, <1>9, <1>11, <1>12, <1>13,
     <1>14, <1>15, <1>16, <1>17, <1>18
  DEF Next, Submission, Delivery, Execution, Faults

\* Together with the types, custody is an inductive invariant.
THEOREM ExclusiveInvariant == Spec => []Exclusive
<1>1. Init => Exclusive
  BY ConstantsAssumption
  DEF Init, Exclusive, Custody, OneHolder, Unsent, HoldersFit, Holders, Publishing, Idle
<1>2. TypeOK /\ Exclusive /\ [Next]_vars => Exclusive'
  BY ExclusiveStep
<1> QED BY <1>1, <1>2, TypeCorrect, PTL DEF Spec

\* A transition is in one pair of hands at a time, unless it went through one
\* of the windows that make a twin of it.
THEOREM OneExecution == Spec => []SingleFlight
<1>1. Exclusive => SingleFlight
  BY DEF Exclusive, Custody, OneHolder, SingleFlight
<1> QED BY <1>1, ExclusiveInvariant, PTL

\* A transition without a twin is published at most max_retries + 2 times,
\* however often it is redelivered.
THEOREM RetriesEnd == Spec => []RetryBudget
<1>1. Exclusive => RetryBudget
  BY DEF Exclusive, Custody, RetryBudget
<1> QED BY <1>1, ExclusiveInvariant, PTL

-------------------------------------------------------------------------------
(* The engine implements TransitionStatus. *)

\* A row that is written with one of its successors advances.
LEMMA Advances ==
    ASSUME NEW t \in Transitions, NEW next \in Promise!Successors[status[t]],
           status' = [status EXCEPT ![t] = next], compromised' = compromised
    PROVE  Promise!Next
  BY DEF Promise!Next, Promise!Advance

\* A row of a transition that is compromised now or was before is unprotected.
LEMMA Unprotected ==
    ASSUME NEW t \in Transitions, NEW next \in Promise!Statuses,
           status' = [status EXCEPT ![t] = next],
           \/ compromised' = compromised \cup {t}
           \/ compromised' = compromised /\ t \in compromised
    PROVE  Promise!Next
  BY DEF Promise!Next, Promise!Compromise, Promise!Scramble

\* Every step of the engine moves one status forward, touches a transition
\* that has a twin, or is invisible.
LEMMA PromiseStep ==
    ASSUME TypeOK, Exclusive, [Next]_vars
    PROVE  [Promise!Next]_(Promise!vars)
<1> USE DEF Promise!vars
<1>k. /\ "pending" \in Promise!Successors["absent"]
      /\ "sent_to_broker" \in Promise!Successors["pending"]
      /\ "in_progress" \in Promise!Successors["sent_to_broker"]
      /\ "failed" \in Promise!Successors["sent_to_broker"]
      /\ "succeeded" \in Promise!Successors["in_progress"]
      /\ "failed" \in Promise!Successors["in_progress"]
  BY DEF Promise!Successors, Promise!Terminal
<1>l. Promise!Statuses = {"absent", "pending", "sent_to_broker", "in_progress",
                          "succeeded", "failed"}
  BY DEF Promise!Statuses
<1>b. ASSUME NEW a \in attempts
      PROVE  a.msg.t \in Transitions
  BY DEF TypeOK, Attempts, Messages
<1>f. ASSUME NEW a \in attempts, a.phase # "retried", a.msg.t \notin compromised
      PROVE  AttemptFits(a) /\ status[a.msg.t] \notin {"absent", "pending"}
  BY <1>b, <1>f, SoleAttempt DEF Exclusive
<1>s. status \in [Transitions -> Promise!Statuses]
  BY DEF TypeOK, Statuses
<1>e. ASSUME NEW a \in attempts, NEW next \in {"succeeded", "failed"},
             status' = [status EXCEPT ![a.msg.t] = next], compromised' = compromised,
             a.phase # "retried",
             a.msg.t \notin compromised => next \in Promise!Successors[status[a.msg.t]]
      PROVE  Promise!Next
  BY <1>e, <1>b, <1>l, Advances, Unprotected
<1>1. ASSUME NEW u \in Transitions, Create(u) PROVE Promise!Next
  BY <1>1, <1>k, Advances DEF Create
<1>3. ASSUME NEW s \in Submitters, SubmitMark(s) PROVE Promise!Next
  <2>1. PICK u \in batch[s].todo :
           /\ status' = [status EXCEPT ![u] = "sent_to_broker"]
           /\ compromised' = IF status[u] = "pending"
                               THEN compromised ELSE compromised \cup {u}
    BY <1>3 DEF SubmitMark
  <2>2. u \in Transitions
    BY <1>3, <2>1 DEF TypeOK
  <2>3. CASE status[u] = "pending"
    BY <1>k, <2>1, <2>2, <2>3, Advances
  <2>4. CASE status[u] # "pending"
    BY <1>l, <2>1, <2>2, <2>4, Unprotected
  <2> QED BY <2>3, <2>4
<1>8. ASSUME NEW a \in attempts, Start(a) PROVE [Promise!Next]_(Promise!vars)
  <2>1. CASE status' = status
    BY <1>8, <2>1 DEF Start
  <2>2. CASE /\ a.msg.retries = 0 /\ a.seen # "in_progress"
             /\ status' = [status EXCEPT ![a.msg.t] = "in_progress"]
    <3>1. CASE a.msg.t \in compromised
      BY <1>8, <1>b, <1>l, <2>2, <3>1, Unprotected DEF Start
    <3>2. CASE a.msg.t \notin compromised
      <4>1. status[a.msg.t] = a.seen /\ status[a.msg.t] \notin {"absent", "pending"}
        BY <1>8, <1>f, <3>2 DEF Start, AttemptFits
      <4>2. status[a.msg.t] = "sent_to_broker"
        BY <1>8, <1>b, <1>l, <1>s, <2>2, <4>1
        DEF Start, Terminal, Promise!Terminal
      <4> QED BY <1>8, <1>b, <1>k, <2>2, <4>2, Advances DEF Start
    <3> QED BY <3>1, <3>2
  <2> QED BY <1>8, <2>1, <2>2 DEF Start
<1>10. ASSUME NEW a \in attempts, Exhaust(a) PROVE Promise!Next
  <2>1. status' = [status EXCEPT ![a.msg.t] = "failed"] /\ compromised' = compromised
        /\ a.phase # "retried"
    BY <1>10 DEF Exhaust, Settle, WantsRetry
  <2>2. a.msg.t \notin compromised => status[a.msg.t] = "in_progress"
    BY <1>10, <1>f, <2>1 DEF Exhaust, WantsRetry, LooksDuplicate, AttemptFits
  <2> QED BY <1>e, <1>k, <2>1, <2>2
<1>11. ASSUME NEW a \in attempts, Succeed(a) \/ Fail(a) PROVE Promise!Next
  <2>1. PICK next \in {"succeeded", "failed"} :
           status' = [status EXCEPT ![a.msg.t] = next] /\ compromised' = compromised
    BY <1>11 DEF Succeed, Fail, Settle
  <2>2. a.phase = "running"
    BY <1>11 DEF Succeed, Fail
  <2>3. a.msg.t \notin compromised => status[a.msg.t] = "in_progress"
    BY <1>f, <2>2 DEF AttemptFits
  <2> QED BY <1>e, <1>k, <2>1, <2>2, <2>3
<1>12. ASSUME NEW a \in attempts, Crash(a) \/ Timeout(a)
       PROVE  [Promise!Next]_(Promise!vars)
  <2>1. status' = status /\ (compromised' = compromised
                               \/ compromised' = compromised \cup {a.msg.t})
    BY <1>12 DEF Crash, Timeout
  <2>2. status' = [status EXCEPT ![a.msg.t] = status[a.msg.t]]
    BY <1>b, <1>s, <2>1
  <2>3. status[a.msg.t] \in Promise!Statuses
    BY <1>b, <1>s
  <2> QED BY <1>b, <2>1, <2>2, <2>3, Unprotected
<1>15. ASSUME NEW a \in attempts, TimeoutFailure(a) PROVE Promise!Next
  <2>1. status' = [status EXCEPT ![a.msg.t] = "failed"] /\ compromised' = compromised
        /\ a.phase = "expired"
    BY <1>15 DEF TimeoutFailure
  <2>2. a.msg.t \notin compromised =>
           /\ status[a.msg.t] \notin {"absent", "pending"}
           /\ status[a.msg.t] \notin Terminal
    BY <1>f, <2>1 DEF AttemptFits
  <2>3. a.msg.t \notin compromised => status[a.msg.t] \in {"sent_to_broker", "in_progress"}
    BY <1>b, <1>l, <1>s, <2>2 DEF Terminal, Promise!Terminal
  <2> QED BY <1>e, <1>k, <2>1, <2>3
<1>16. ASSUME \/ \E s \in Submitters : SubmitBegin(s) \/ SubmitPublish(s) \/ SubmitLost(s)
              \/ \E m \in broker : Receive(m)
              \/ \E a \in attempts : RevokeDuplicate(a) \/ Retry(a) \/ Ack(a)
                                       \/ Reschedule(a) \/ TimeoutLost(a) \/ RetryLost(a)
              \/ UNCHANGED vars
       PROVE  UNCHANGED Promise!vars
  BY <1>16
  DEF SubmitBegin, SubmitPublish, SubmitLost, Receive, RevokeDuplicate, Retry, Ack,
      Reschedule, TimeoutLost, RetryLost, LoseDelivery, vars
<1> QED
  BY <1>1, <1>3, <1>8, <1>10, <1>11, <1>12, <1>15, <1>16
  DEF Next, Submission, Delivery, Execution, Faults

\* The engine keeps the promise: the status of a transition moves only forward,
\* and succeeded and failed are final, unless the transition has a twin.
THEOREM KeepsStatusPromise == Spec => StatusPromise
<1>1. Init => Promise!Init
  BY DEF Init, Promise!Init
<1>2. TypeOK /\ Exclusive /\ [Next]_vars => [Promise!Next]_(Promise!vars)
  BY PromiseStep
<1> QED BY <1>1, <1>2, TypeCorrect, ExclusiveInvariant, PTL
        DEF Spec, StatusPromise, Promise!Spec
===============================================================================
