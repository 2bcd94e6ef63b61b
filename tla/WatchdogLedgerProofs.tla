------------------------ MODULE WatchdogLedgerProofs ------------------------
(***************************************************************************)
(* What the ledger, the textfile and the legacy files promise, proved for  *)
(* every value of the constants.                                           *)
(***************************************************************************)
EXTENDS WatchdogProofs

(***************************************************************************)
(* The inductive invariant.  A scan that is under way holds in memory what *)
(* the disk will say next; each part below relates the two.                *)
(***************************************************************************)

\* 1 while the scan is at one of the labels, else 0.
At(labels) == IF pc \in labels THEN 1 ELSE 0

\* No counter of a exceeds that of b.
AtMost(a, b) ==
    /\ a.attempts <= b.attempts
    /\ a.restarts <= b.restarts
    /\ a.failures <= b.failures
    /\ a.notifications <= b.notifications
    /\ a.notification_failures <= b.notification_failures

\* Counters grow from the textfile to the ledger to the scan's memory.
CountersOrdered ==
    /\ AtMost(textfile, ledger)
    /\ pc # "idle" => AtMost(ledger, r)

\* About to start a command, the scan has announced one more than were started.
AnnouncedAhead ==
    /\ issued + At({"restart"}) <= ledger.attempts
    /\ sent + At({"send"}) <= ledger.notifications

\* An attempt without outcome is the one in flight, or was cut off by a fault.
AttemptsExplained ==
    /\ ledger.attempts <= ledger.restarts + ledger.failures + faults
                              + At({"restart", "record", "outcome"})
    /\ pc # "idle" => r.attempts <= r.restarts + r.failures + faults + At({"restart"})

\* Memory and disk both flag every unconfirmed container and, before the
\* command, the one that is about to become unconfirmed.
Flags ==
    /\ \A c \in unconfirmed : ledger.containers[c].restart_failed
    /\ pc # "idle" => \A c \in unconfirmed : r.containers[c].restart_failed
    /\ pc = "restart" => /\ ledger.containers[target].restart_failed
                         /\ r.containers[target].restart_failed

\* From the first published observation to the end the scan is marked unfinished.
Acting == {"loop", "intend", "restart", "record", "outcome", "alert", "notify", "send", "sent"}

Unfinished ==
    /\ pc # "idle" => ~r.success
    /\ pc \in Acting \union {"observed"} => r.docker_read_ok
    /\ pc \in Acting => ledger.docker_read_ok /\ ~ledger.success
-----------------------------------------------------------------------------
(***************************************************************************)
(* What each update of the Result does to its fields.                      *)
(***************************************************************************)

\* The counters of x are those of y.
SameCounters(x, y) ==
    /\ x.attempts = y.attempts
    /\ x.restarts = y.restarts
    /\ x.failures = y.failures
    /\ x.notifications = y.notifications
    /\ x.notification_failures = y.notification_failures

\* The flags of x are those of y.
SameFlags(x, y) ==
    /\ x.success = y.success
    /\ x.docker_read_ok = y.docker_read_ok

\* Lowering the flags at the start of a scan changes nothing else.
LEMMA ResumedFields ==
    ASSUME ledger \in Result
    PROVE  /\ SameCounters(Resumed, ledger)
           /\ ~Resumed.success
           /\ Resumed.containers = ledger.containers
  BY DEF Resumed, Result, SameCounters

\* A valid observation replaces the containers and raises docker_read_ok.
LEMMA ObservedFields ==
    ASSUME r \in Result, NEW f
    PROVE  LET x == [r EXCEPT !.docker_read_ok = TRUE, !.containers = f]
           IN  /\ SameCounters(x, r)
               /\ x.success = r.success
               /\ x.docker_read_ok
               /\ x.containers = f
  BY DEF Result, SameCounters

\* The intention counts one attempt and flags the target.
LEMMA IntentionFields ==
    ASSUME r \in Result, target \in Containers
    PROVE  /\ Intention.attempts = r.attempts + 1
           /\ Intention.restarts = r.restarts
           /\ Intention.failures = r.failures
           /\ Intention.notifications = r.notifications
           /\ Intention.notification_failures = r.notification_failures
           /\ SameFlags(Intention, r)
           /\ Intention.containers[target].restart_failed
           /\ \A c \in Containers :
                 /\ Intention.containers[c].state = r.containers[c].state
                 /\ r.containers[c].restart_failed => Intention.containers[c].restart_failed
<1>1. Intention = [r EXCEPT !.attempts = r.attempts + 1,
                            !.containers = [r.containers EXCEPT ![target] = Flagged(r.containers[target])]]
  BY DEF Intention, Result
<1>2. r.containers \in [Containers -> Container]
  BY DEF Result
<1>3. Intention.containers = [r.containers EXCEPT ![target] = Flagged(r.containers[target])]
  BY <1>1 DEF Result
<1>4. \A c \in Container : Flagged(c).restart_failed /\ Flagged(c).state = c.state
  BY DEF Flagged, Container
<1>5. /\ Intention.attempts = r.attempts + 1
      /\ Intention.restarts = r.restarts
      /\ Intention.failures = r.failures
      /\ Intention.notifications = r.notifications
      /\ Intention.notification_failures = r.notification_failures
      /\ SameFlags(Intention, r)
  BY <1>1 DEF Result, SameFlags
<1>6. QED
  BY <1>2, <1>3, <1>4, <1>5

\* A successful restart counts one success and unflags the target ...
LEMMA SuccessFields ==
    ASSUME r \in Result, target \in Containers
    PROVE  /\ Outcome(TRUE).attempts = r.attempts
           /\ Outcome(TRUE).restarts = r.restarts + 1
           /\ Outcome(TRUE).failures = r.failures
           /\ Outcome(TRUE).notifications = r.notifications
           /\ Outcome(TRUE).notification_failures = r.notification_failures
           /\ SameFlags(Outcome(TRUE), r)
           /\ \A c \in Containers \ {target} : Outcome(TRUE).containers[c] = r.containers[c]
<1>1. Outcome(TRUE) = [r EXCEPT !.restarts = r.restarts + 1,
                !.containers = [r.containers EXCEPT ![target] = AfterRestart(r.containers[target])]]
  BY DEF Outcome, Result
<1>2. r.containers \in [Containers -> Container]
  BY DEF Result
<1>3. Outcome(TRUE).containers = [r.containers EXCEPT ![target] = AfterRestart(r.containers[target])]
  BY <1>1 DEF Result
<1>4. /\ Outcome(TRUE).attempts = r.attempts
      /\ Outcome(TRUE).restarts = r.restarts + 1
      /\ Outcome(TRUE).failures = r.failures
      /\ Outcome(TRUE).notifications = r.notifications
      /\ Outcome(TRUE).notification_failures = r.notification_failures
      /\ SameFlags(Outcome(TRUE), r)
  BY <1>1 DEF Result, SameFlags
<1>5. QED
  BY <1>2, <1>3, <1>4

\* ... a failed one counts one failure and leaves the containers alone.
LEMMA FailureFields ==
    ASSUME r \in Result
    PROVE  /\ Outcome(FALSE).attempts = r.attempts
           /\ Outcome(FALSE).restarts = r.restarts
           /\ Outcome(FALSE).failures = r.failures + 1
           /\ Outcome(FALSE).notifications = r.notifications
           /\ Outcome(FALSE).notification_failures = r.notification_failures
           /\ SameFlags(Outcome(FALSE), r)
           /\ Outcome(FALSE).containers = r.containers
  BY DEF Outcome, Result, SameFlags

\* Noting an urgent message touches last_alert of the target's State only.
LEMMA AlertFields ==
    ASSUME r \in Result, target \in Containers
    PROVE  LET x == [r EXCEPT !.containers[target] = AfterAlert(@)]
           IN  /\ SameCounters(x, r)
               /\ SameFlags(x, r)
               /\ \A c \in Containers :
                     x.containers[c].restart_failed = r.containers[c].restart_failed
               /\ \A c \in Containers \ {target} : x.containers[c] = r.containers[c]
<1> DEFINE x == [r EXCEPT !.containers[target] = AfterAlert(@)]
<1>1. r.containers \in [Containers -> Container]
  BY DEF Result
<1>2. x.containers = [r.containers EXCEPT ![target] = AfterAlert(r.containers[target])]
  BY DEF Result
<1>3. \A c \in Container : AfterAlert(c).restart_failed = c.restart_failed
  BY DEF AfterAlert, Container
<1>4. SameCounters(x, r) /\ SameFlags(x, r)
  BY DEF Result, SameCounters, SameFlags
<1> HIDE DEF x
<1>5. /\ \A c \in Containers : x.containers[c].restart_failed = r.containers[c].restart_failed
      /\ \A c \in Containers \ {target} : x.containers[c] = r.containers[c]
  BY <1>1, <1>2, <1>3
<1>6. QED
  BY <1>4, <1>5, Zenon DEF x

\* Counting a message, or a failed one, changes one counter.
LEMMA NotificationFields ==
    ASSUME r \in Result
    PROVE  LET x == [r EXCEPT !.notifications = @ + 1]
           IN  /\ x.attempts = r.attempts
               /\ x.restarts = r.restarts
               /\ x.failures = r.failures
               /\ x.notifications = r.notifications + 1
               /\ x.notification_failures = r.notification_failures
               /\ SameFlags(x, r)
               /\ x.containers = r.containers
  BY DEF Result, SameFlags

\* Counting the outcome of a message changes one counter.
LEMMA NotificationFailureFields ==
    ASSUME r \in Result, NEW n \in {0, 1}
    PROVE  LET x == [r EXCEPT !.notification_failures = @ + n]
           IN  /\ x.attempts = r.attempts
               /\ x.restarts = r.restarts
               /\ x.failures = r.failures
               /\ x.notifications = r.notifications
               /\ x.notification_failures = r.notification_failures + n
               /\ SameFlags(x, r)
               /\ x.containers = r.containers
  BY DEF Result, SameFlags

\* The last publication of a scan raises success.
LEMMA FinishFields ==
    ASSUME r \in Result
    PROVE  LET x == [r EXCEPT !.success = TRUE]
           IN  /\ SameCounters(x, r)
               /\ x.success
               /\ x.docker_read_ok = r.docker_read_ok
               /\ x.containers = r.containers
  BY DEF Result, SameCounters
-----------------------------------------------------------------------------
(***************************************************************************)
(* The counters only grow, and the textfile never runs ahead.              *)
(***************************************************************************)

\* The counters of a Result are naturals.
LEMMA CountersNat ==
    ASSUME NEW x \in Result
    PROVE  /\ x.attempts \in Nat /\ x.restarts \in Nat /\ x.failures \in Nat
           /\ x.notifications \in Nat /\ x.notification_failures \in Nat
  BY DEF Result

\* The types that the proofs below use.
LEMMA TypeFacts ==
    ASSUME TypeOK
    PROVE  /\ ledger \in Result /\ textfile \in Result /\ r \in Result
           /\ target \in Containers /\ faults \in Nat /\ issued \in Nat /\ sent \in Nat
           /\ todo \subseteq Containers /\ present \subseteq Containers
           /\ listed \subseteq Containers /\ unconfirmed \subseteq Containers
           /\ legacy \in [Containers -> State] /\ now \in Nat /\ pc \in Labels
           /\ file \in [Containers -> {"none", "valid", "malformed"}]
  BY DEF TypeOK, DiskOK, ScanOK, LoopOK, HistoryOK

\* Each value the scan's Result takes counts at least as much as the one before.
LEMMA UpdatesGrow ==
    ASSUME TypeOK
    PROVE  /\ AtMost(r, r)
           /\ AtMost(ledger, Resumed)
           /\ \A f : AtMost(r, [r EXCEPT !.docker_read_ok = TRUE, !.containers = f])
           /\ AtMost(r, Intention)
           /\ \A ok \in BOOLEAN : AtMost(r, Outcome(ok))
           /\ AtMost(r, [r EXCEPT !.containers[target] = AfterAlert(@)])
           /\ AtMost(r, [r EXCEPT !.notifications = @ + 1])
           /\ \A n \in {0, 1} : AtMost(r, [r EXCEPT !.notification_failures = @ + n])
           /\ AtMost(r, [r EXCEPT !.success = TRUE])
<1>1. r \in Result /\ ledger \in Result /\ target \in Containers
  BY TypeFacts
<1>2. \A x \in Result : \A y : SameCounters(y, x) => AtMost(x, y)
  BY CountersNat DEF SameCounters, AtMost
<1>3. AtMost(r, r)
  BY <1>1, CountersNat DEF AtMost
<1>4. AtMost(ledger, Resumed)
  BY <1>1, <1>2, ResumedFields
<1>5. \A f : AtMost(r, [r EXCEPT !.docker_read_ok = TRUE, !.containers = f])
  BY <1>1, <1>2, ObservedFields
<1>6. AtMost(r, Intention)
  BY <1>1, CountersNat, IntentionFields DEF AtMost
<1>7. \A ok \in BOOLEAN : AtMost(r, Outcome(ok))
  <2>1. ASSUME NEW x, x.attempts = r.attempts, x.restarts \in {r.restarts, r.restarts + 1},
               x.failures \in {r.failures, r.failures + 1},
               x.notifications = r.notifications,
               x.notification_failures = r.notification_failures
        PROVE  AtMost(r, x)
    BY <1>1, <2>1, CountersNat DEF AtMost
  <2>2. /\ r.restarts \in {r.restarts, r.restarts + 1}
        /\ r.restarts + 1 \in {r.restarts, r.restarts + 1}
        /\ r.failures \in {r.failures, r.failures + 1}
        /\ r.failures + 1 \in {r.failures, r.failures + 1}
    OBVIOUS
  <2>3. AtMost(r, Outcome(TRUE))
    BY <1>1, <2>1, <2>2, SuccessFields, Zenon
  <2>4. AtMost(r, Outcome(FALSE))
    BY <1>1, <2>1, <2>2, FailureFields, Zenon
  <2>5. QED
    BY <2>3, <2>4, Zenon
<1>8. AtMost(r, [r EXCEPT !.containers[target] = AfterAlert(@)])
  BY <1>1, <1>2, AlertFields
<1>9. AtMost(r, [r EXCEPT !.notifications = @ + 1])
  BY <1>1, CountersNat, NotificationFields DEF AtMost
<1>10. \A n \in {0, 1} : AtMost(r, [r EXCEPT !.notification_failures = @ + n])
  BY <1>1, CountersNat, NotificationFailureFields DEF AtMost
<1>11. AtMost(r, [r EXCEPT !.success = TRUE])
  BY <1>1, <1>2, FinishFields
<1>12. QED
  BY <1>3, <1>4, <1>5, <1>6, <1>7, <1>8, <1>9, <1>10, <1>11, Zenon

\* AtMost is transitive on Results.
LEMMA AtMostTransitive ==
    ASSUME NEW x \in Result, NEW y \in Result, NEW z \in Result, AtMost(x, y), AtMost(y, z)
    PROVE  AtMost(x, z)
  BY CountersNat DEF AtMost

\* AtMost is reflexive on Results.
LEMMA AtMostReflexive == \A x \in Result : AtMost(x, x)
  BY CountersNat DEF AtMost

\* A publication of a Result that counts at least as much as the scan's memory
\* keeps the order, wherever it is cut off.
LEMMA OrderedPublish ==
    ASSUME TypeOK, CountersOrdered, pc # "idle",
           NEW x \in Result, NEW next, AtMost(r, x), Publish(x, next)
    PROVE  CountersOrdered'
<1>1. ledger \in Result /\ textfile \in Result /\ r \in Result
  BY TypeFacts
<1>2. AtMost(textfile, ledger) /\ AtMost(ledger, r)
  BY DEF CountersOrdered
<1>3. AtMost(ledger, x)
  BY <1>1, <1>2, AtMostTransitive, Zenon
<1>4. AtMost(textfile, x)
  BY <1>1, <1>2, <1>3, AtMostTransitive, Zenon
<1>5. AtMost(x, x)
  BY AtMostReflexive
<1>6. AtMost(textfile', ledger') /\ (pc' # "idle" => AtMost(ledger', r'))
  BY <1>2, <1>3, <1>4, <1>5 DEF Publish
<1>7. QED
  BY <1>6, Zenon DEF CountersOrdered

\* So does a step that leaves the disk alone and makes the memory count no less.
LEMMA OrderedQuiet ==
    ASSUME TypeOK, TypeOK', CountersOrdered, UNCHANGED <<ledger, textfile>>,
           pc' # "idle" => pc # "idle" /\ AtMost(r, r')
    PROVE  CountersOrdered'
<1>1. ledger \in Result /\ r \in Result /\ r' \in Result
  BY DEF TypeOK, DiskOK, LoopOK
<1>2. AtMost(textfile', ledger')
  BY DEF CountersOrdered
<1>3. pc' # "idle" => AtMost(ledger', r')
  BY <1>1, AtMostTransitive DEF CountersOrdered
<1>4. QED
  BY <1>2, <1>3, Zenon DEF CountersOrdered

\* Init establishes the order ...
LEMMA OrderedInit == Init => CountersOrdered
  BY EmptyType, AtMostReflexive DEF Init, CountersOrdered

\* ... and every step keeps it.
LEMMA OrderedNext == TypeOK /\ CountersOrdered /\ [Next]_vars => CountersOrdered'
<1> SUFFICES ASSUME TypeOK, CountersOrdered, [Next]_vars PROVE CountersOrdered'
  OBVIOUS
<1>1. r \in Result /\ ledger \in Result /\ target \in Containers /\ now \in Nat
  BY TypeFacts
<1>2. TypeOK'
  BY TypeNext
<1>3. /\ Intention \in Result
      /\ \A n : [r EXCEPT !.notifications = @ + 1] \in Result
      /\ [r EXCEPT !.success = TRUE] \in Result
  BY <1>1, UpdatesType, NotificationsType, SuccessType, Zenon
<1>4. CASE Start
  <2>1. AtMost(ledger, r') /\ UNCHANGED <<ledger, textfile>>
    BY <1>4, UpdatesGrow, Zenon DEF Start, Goto, disk
  <2>2. QED
    BY <2>1, Zenon DEF CountersOrdered
<1>5. CASE ListUnhealthy
  BY <1>2, <1>5, UpdatesGrow, OrderedQuiet DEF ListUnhealthy, Goto, disk, loop
<1>6. CASE ReadInventory
  <2>1. r' = r \/ \E f : r' = [r EXCEPT !.docker_read_ok = TRUE, !.containers = f]
    BY <1>6 DEF ReadInventory
  <2>2. AtMost(r, r')
    BY <2>1, UpdatesGrow, Zenon
  <2>3. QED
    BY <1>2, <1>6, <2>2, OrderedQuiet DEF ReadInventory, Goto, disk
<1>7. CASE FailScan
  BY <1>1, <1>7, UpdatesGrow, OrderedPublish DEF FailScan
<1>8. CASE PublishObserved
  BY <1>1, <1>8, UpdatesGrow, OrderedPublish DEF PublishObserved
<1>9. ASSUME NEW c \in Containers, Visit(c) PROVE CountersOrdered'
  BY <1>2, <1>9, UpdatesGrow, OrderedQuiet DEF Visit, SaveLegacy, Goto, disk
<1>10. CASE Intend
  BY <1>3, <1>10, UpdatesGrow, OrderedPublish DEF Intend
<1>11. CASE Restart
  <2>1. AtMost(r, r')
    BY <1>11, UpdatesGrow, Zenon DEF Restart
  <2>2. QED
    BY <1>2, <1>11, <2>1, OrderedQuiet DEF Restart, Goto, disk
<1>12. CASE Record
  BY <1>2, <1>12, UpdatesGrow, OrderedQuiet DEF Record, SaveLegacy, loop
<1>13. CASE PublishOutcome
  <2>1. PICK next : Publish(r, next)
    BY <1>13, Zenon DEF PublishOutcome
  <2>2. QED
    BY <1>1, <1>13, <2>1, UpdatesGrow, OrderedPublish DEF PublishOutcome
<1>14. CASE SaveAlert
  <2>1. AtMost(r, r')
    BY <1>14, UpdatesGrow, Zenon DEF SaveAlert
  <2>2. QED
    BY <1>2, <1>14, <2>1, OrderedQuiet DEF SaveAlert, SaveLegacy
<1>15. CASE CountNotification
  <2>1. pc # "idle"
    BY <1>15 DEF CountNotification
  <2>2. QED
    BY <1>3, <1>15, <2>1, UpdatesGrow, OrderedPublish, Zenon DEF CountNotification
<1>16. CASE Send
  <2>1. AtMost(r, r')
    BY <1>16, UpdatesGrow, Zenon DEF Send
  <2>2. QED
    BY <1>2, <1>16, <2>1, OrderedQuiet DEF Send, Goto, disk
<1>17. CASE PublishSent
  BY <1>1, <1>17, UpdatesGrow, OrderedPublish DEF PublishSent
<1>18. CASE CollectGarbage
  BY <1>2, <1>18, UpdatesGrow, OrderedQuiet DEF CollectGarbage, loop
<1>19. CASE Finish
  <2>1. pc # "idle"
    BY <1>19 DEF Finish
  <2>2. QED
    BY <1>3, <1>19, <2>1, UpdatesGrow, OrderedPublish, Zenon DEF Finish
<1>20. CASE Crash
  BY <1>2, <1>20, OrderedQuiet DEF Crash, disk
<1>21. ASSUME NEW c \in Containers, Repair(c) PROVE CountersOrdered'
  BY <1>2, <1>21, OrderedQuiet DEF Repair
<1>22. CASE UNCHANGED vars
  BY <1>2, <1>22, UpdatesGrow, OrderedQuiet DEF vars, disk, loop
<1>23. QED
  BY <1>4, <1>5, <1>6, <1>7, <1>8, <1>9, <1>10, <1>11, <1>12, <1>13, <1>14, <1>15, <1>16,
     <1>17, <1>18, <1>19, <1>20, <1>21, <1>22 DEF Next, EndOfModel

\* A step that writes the ledger or the textfile publishes a Result that counts
\* at least as much as the scan's memory.
LEMMA Publications ==
    ASSUME TypeOK, [Next]_vars, ~UNCHANGED <<ledger, textfile>>
    PROVE  /\ pc # "idle"
           /\ \E x \in Result, next \in Labels : AtMost(r, x) /\ Publish(x, next)
<1>1. r \in Result
  BY TypeFacts
<1>2. /\ Intention \in Result
      /\ [r EXCEPT !.notifications = @ + 1] \in Result
      /\ [r EXCEPT !.success = TRUE] \in Result
  BY <1>1, TypeFacts, UpdatesType, NotificationsType, SuccessType DEF TypeOK, ScanOK
<1>3. /\ FailScan => Publish(r, "idle")
      /\ PublishObserved => Publish(r, "loop")
      /\ Intend => Publish(Intention, "restart")
      /\ CountNotification => Publish([r EXCEPT !.notifications = @ + 1], "send")
      /\ PublishSent => Publish(r, "loop")
      /\ Finish => Publish([r EXCEPT !.success = TRUE], "idle")
  BY Zenon DEF FailScan, PublishObserved, Intend, CountNotification, PublishSent, Finish
<1>4. PublishOutcome => \E next \in {"notify", "alert", "loop"} : Publish(r, next)
  <2> DEFINE next == CASE restarted -> "notify"
                       [] ~restarted /\ now - r.containers[target].state.last_alert >= Cooldown
                                    -> "alert"
                       [] OTHER     -> "loop"
  <2>1. next \in {"notify", "alert", "loop"}
    OBVIOUS
  <2>2. QED
    BY <2>1, Zenon DEF PublishOutcome
<1>5. \/ FailScan \/ PublishObserved \/ Intend \/ PublishOutcome
      \/ CountNotification \/ PublishSent \/ Finish
  BY DEF Next, Start, ListUnhealthy, ReadInventory, Visit, Restart, Record, SaveAlert, Send,
         CollectGarbage, Crash, Repair, EndOfModel, SaveLegacy, Goto, disk, vars
<1>6. pc # "idle"
  BY <1>5 DEF FailScan, PublishObserved, Intend, PublishOutcome, CountNotification,
              PublishSent, Finish
<1>7. \A l \in {"notify", "alert", "loop"} : l \in Labels
  BY DEF Labels
<1>8. \E x \in Result, next \in Labels : AtMost(r, x) /\ Publish(x, next)
  BY <1>1, <1>2, <1>3, <1>4, <1>5, <1>7, UpdatesGrow, LabelsContain, Zenon
<1>9. QED
  BY <1>6, <1>8

\* The counters of the textfile never go back: what a scan renders counts at
\* least what its ledger counts, and the ledger at least what was rendered.
THEOREM MonotoneCounters == Spec => CountersMonotone
<1>1. TypeOK /\ CountersOrdered /\ [Next]_vars => AtMost(textfile, textfile')
  <2> SUFFICES ASSUME TypeOK, CountersOrdered, [Next]_vars
               PROVE  AtMost(textfile, textfile')
    OBVIOUS
  <2>1. textfile \in Result /\ ledger \in Result /\ r \in Result
    BY TypeFacts
  <2>2. CASE textfile' = textfile
    BY <2>1, <2>2, AtMostReflexive, Zenon
  <2>3. CASE textfile' # textfile
    <3>1. PICK x \in Result, next \in Labels : AtMost(r, x) /\ Publish(x, next)
      BY <2>3, Publications, Zenon
    <3>2. textfile' = x
      BY <2>3, <3>1 DEF Publish
    <3>3. AtMost(textfile, ledger) /\ AtMost(ledger, r)
      BY <2>3, Publications DEF CountersOrdered
    <3>4. AtMost(textfile, r)
      BY <2>1, <3>3, AtMostTransitive, Zenon
    <3>5. AtMost(textfile, x)
      BY <2>1, <3>1, <3>4, AtMostTransitive, Zenon
    <3>6. QED
      BY <3>2, <3>5, Zenon
  <2>4. QED
    BY <2>2, <2>3
<1>2. TypeOK /\ TypeOK' /\ AtMost(textfile, textfile') =>
        /\ textfile'.attempts >= textfile.attempts
        /\ textfile'.restarts >= textfile.restarts
        /\ textfile'.failures >= textfile.failures
        /\ textfile'.notifications >= textfile.notifications
        /\ textfile'.notification_failures >= textfile.notification_failures
  <2> SUFFICES ASSUME TypeOK, TypeOK', AtMost(textfile, textfile')
               PROVE  /\ textfile'.attempts >= textfile.attempts
                      /\ textfile'.restarts >= textfile.restarts
                      /\ textfile'.failures >= textfile.failures
                      /\ textfile'.notifications >= textfile.notifications
                      /\ textfile'.notification_failures >= textfile.notification_failures
    OBVIOUS
  <2>1. textfile \in Result /\ textfile' \in Result
    BY DEF TypeOK, DiskOK
  <2>2. QED
    BY <2>1, CountersNat DEF AtMost
<1>3. QED
  BY <1>1, <1>2, TypeInit, TypeNext, OrderedInit, OrderedNext, PTL DEF Spec, CountersMonotone
-----------------------------------------------------------------------------
(***************************************************************************)
(* Every command was announced before it was started.                      *)
(***************************************************************************)

\* A step that starts no command, and does not lead to one, keeps the margin:
\* whatever is published, the ledger's counters do not shrink.
LEMMA AheadQuiet ==
    ASSUME TypeOK, TypeOK', CountersOrdered, AnnouncedAhead, [Next]_vars,
           UNCHANGED <<issued, sent>>, pc' \in {"restart", "send"} => pc' = pc
    PROVE  AnnouncedAhead'
<1>1. ledger \in Result /\ ledger' \in Result /\ r \in Result /\ issued \in Nat /\ sent \in Nat
  BY DEF TypeOK, DiskOK, LoopOK, HistoryOK
<1>2. AtMost(ledger, ledger')
  <2>1. CASE UNCHANGED <<ledger, textfile>>
    BY <1>1, <2>1, AtMostReflexive
  <2>2. CASE ~UNCHANGED <<ledger, textfile>>
    <3>1. PICK x \in Result, next \in Labels : AtMost(r, x) /\ Publish(x, next)
      BY <2>2, Publications, Zenon
    <3>2. ledger' = ledger \/ ledger' = x
      BY <3>1 DEF Publish
    <3>3. AtMost(ledger, r)
      BY <2>2, Publications DEF CountersOrdered
    <3>4. AtMost(ledger, x)
      BY <1>1, <3>1, <3>3, AtMostTransitive, Zenon
    <3>5. QED
      BY <1>1, <3>2, <3>4, AtMostReflexive, Zenon
  <2>3. QED
    BY <2>1, <2>2
<1>3. At({"restart"})' <= At({"restart"}) /\ At({"send"})' <= At({"send"})
  BY DEF At
<1>4. At({"restart"}) \in {0, 1} /\ At({"send"}) \in {0, 1}
      /\ At({"restart"})' \in {0, 1} /\ At({"send"})' \in {0, 1}
  BY DEF At
<1>5. /\ ledger.attempts <= ledger'.attempts
      /\ ledger.notifications <= ledger'.notifications
  BY <1>2 DEF AtMost
<1>6. /\ ledger.attempts \in Nat /\ ledger'.attempts \in Nat
      /\ ledger.notifications \in Nat /\ ledger'.notifications \in Nat
  BY <1>1, CountersNat
<1>7. issued + At({"restart"}) <= ledger.attempts /\ sent + At({"send"}) <= ledger.notifications
  BY DEF AnnouncedAhead
<1> HIDE DEF At
<1>8. issued' + At({"restart"})' <= ledger'.attempts
  BY <1>1, <1>3, <1>4, <1>5, <1>6, <1>7
<1>9. sent' + At({"send"})' <= ledger'.notifications
  BY <1>1, <1>3, <1>4, <1>5, <1>6, <1>7
<1>10. QED
  BY <1>8, <1>9 DEF AnnouncedAhead

\* Announcing a restart or a message makes room for one more command ...
LEMMA AheadAnnounce ==
    ASSUME TypeOK, CountersOrdered, AnnouncedAhead, Intend \/ CountNotification
    PROVE  AnnouncedAhead'
<1>1. /\ ledger \in Result /\ r \in Result /\ target \in Containers
      /\ issued \in Nat /\ sent \in Nat
  BY TypeFacts
<1>2. ledger.attempts \in Nat /\ ledger.notifications \in Nat
      /\ r.attempts \in Nat /\ r.notifications \in Nat
  BY <1>1, CountersNat
<1>3. ledger.attempts <= r.attempts /\ ledger.notifications <= r.notifications
  BY DEF CountersOrdered, AtMost, Intend, CountNotification
<1>4. issued <= ledger.attempts /\ sent <= ledger.notifications
  BY <1>1, <1>2 DEF AnnouncedAhead, At
<1>5. issued' = issued /\ sent' = sent
  BY DEF Intend, CountNotification, history
<1>6. CASE Intend
  <2> DEFINE x == Intention
  <2>1. x.attempts = r.attempts + 1 /\ x.notifications = r.notifications
    BY <1>1, IntentionFields, Zenon
  <2>2. Publish(x, "restart")
    BY <1>6, Zenon DEF Intend
  <2> HIDE DEF x
  <2>3. \/ ledger' = x /\ pc' = "restart"
        \/ ledger' \in {ledger, x} /\ pc' = "idle"
    BY <2>2 DEF Publish
  <2>4. QED
    BY <1>1, <1>2, <1>3, <1>4, <1>5, <2>1, <2>3 DEF AnnouncedAhead, At
<1>7. CASE CountNotification
  <2> DEFINE x == [r EXCEPT !.notifications = @ + 1]
  <2>1. x.notifications = r.notifications + 1 /\ x.attempts = r.attempts
    BY <1>1, NotificationFields, Zenon
  <2>2. Publish(x, "send")
    BY <1>7, Zenon DEF CountNotification
  <2> HIDE DEF x
  <2>3. \/ ledger' = x /\ pc' = "send"
        \/ ledger' \in {ledger, x} /\ pc' = "idle"
    BY <2>2 DEF Publish
  <2>4. QED
    BY <1>1, <1>2, <1>3, <1>4, <1>5, <2>1, <2>3 DEF AnnouncedAhead, At
<1>8. QED
  BY <1>6, <1>7

\* ... and starting it uses that room up.
LEMMA AheadCommand ==
    ASSUME TypeOK, AnnouncedAhead, Restart \/ Send
    PROVE  AnnouncedAhead'
<1>1. ledger \in Result /\ issued \in Nat /\ sent \in Nat
  BY TypeFacts
<1>2. ledger.attempts \in Nat /\ ledger.notifications \in Nat
  BY <1>1, CountersNat
<1>3. CASE Restart
  BY <1>1, <1>2, <1>3 DEF Restart, Goto, disk, AnnouncedAhead, At
<1>4. CASE Send
  BY <1>1, <1>2, <1>4 DEF Send, Goto, disk, AnnouncedAhead, At
<1>5. QED
  BY <1>3, <1>4

\* Every step keeps the announcements ahead of the commands.
LEMMA AheadNext ==
    TypeOK /\ CountersOrdered /\ AnnouncedAhead /\ [Next]_vars => AnnouncedAhead'
<1> SUFFICES ASSUME TypeOK, CountersOrdered, AnnouncedAhead, [Next]_vars,
                    ~(Intend \/ CountNotification \/ Restart \/ Send)
             PROVE  AnnouncedAhead'
  BY AheadAnnounce, AheadCommand
<1>1. UNCHANGED <<issued, sent>>
  BY DEF Next, Start, ListUnhealthy, ReadInventory, FailScan, PublishObserved, Visit, Record,
         PublishOutcome, SaveAlert, PublishSent, CollectGarbage, Finish, Crash, Repair,
         EndOfModel, vars, history
<1>2. \A c \in Containers : AfterSave(c) \in {"intend", "notify", "loop"}
  BY DEF AfterSave
<1>3. pc' \in {"restart", "send"} => pc' = pc
  BY <1>2 DEF Next, Start, ListUnhealthy, ReadInventory, FailScan, PublishObserved, Visit,
         Record, PublishOutcome, SaveAlert, PublishSent, CollectGarbage, Finish, Crash, Repair,
         EndOfModel, vars, Publish, SaveLegacy, Goto
<1>4. QED
  BY <1>1, <1>3, TypeNext, AheadQuiet

\* The ledger on disk has announced every restart command and every message
\* ever started, whatever died in between.
THEOREM WriteAhead == Spec => []Announced
<1>1. Init => AnnouncedAhead
  BY DEF Init, AnnouncedAhead, At, EmptyResult
<1>2. TypeOK /\ AnnouncedAhead => Announced
  <2> SUFFICES ASSUME TypeOK, AnnouncedAhead PROVE Announced
    OBVIOUS
  <2>1. ledger \in Result /\ issued \in Nat /\ sent \in Nat
    BY TypeFacts
  <2>2. ledger.attempts \in Nat /\ ledger.notifications \in Nat
    BY <2>1, CountersNat
  <2>3. QED
    BY <2>1, <2>2 DEF AnnouncedAhead, Announced, At
<1>3. QED
  BY <1>1, <1>2, TypeInit, TypeNext, OrderedInit, OrderedNext, AheadNext, PTL DEF Spec
-----------------------------------------------------------------------------
(***************************************************************************)
(* Every announced attempt has an outcome, a fault, or is in flight.       *)
(***************************************************************************)

\* A publication that changes no outcome keeps the balance: if it is cut off,
\* the fault accounts for an attempt that was in flight.
LEMMA ExplainedPublish ==
    ASSUME TypeOK, AttemptsExplained, pc \notin {"idle", "restart", "record"},
           NEW x \in Result, NEW next, next # "restart", Publish(x, next),
           x.attempts = r.attempts, x.restarts = r.restarts, x.failures = r.failures
    PROVE  AttemptsExplained'
<1>1. ledger \in Result /\ faults \in Nat
  BY TypeFacts
<1>2. /\ ledger.attempts \in Nat /\ ledger.restarts \in Nat /\ ledger.failures \in Nat
      /\ x.attempts \in Nat /\ x.restarts \in Nat /\ x.failures \in Nat
  BY <1>1, CountersNat
<1>3. x.attempts <= x.restarts + x.failures + faults
  BY <1>1, <1>2 DEF AttemptsExplained, At
<1>4. CASE ledger' = x /\ pc' = next /\ faults' = faults /\ r' = x
  BY <1>1, <1>2, <1>3, <1>4 DEF AttemptsExplained, At
<1>5. CASE ledger' = x /\ pc' = "idle" /\ faults' = faults + 1
  BY <1>1, <1>2, <1>3, <1>5 DEF AttemptsExplained, At
<1>6. CASE ledger' = ledger /\ pc' = "idle" /\ faults' = faults + 1
  BY <1>1, <1>2, <1>6 DEF AttemptsExplained, At
<1>7. QED
  BY <1>4, <1>5, <1>6 DEF Publish, Fault

\* A step outside the restart of a container that leaves the ledger and the
\* attempts in memory alone keeps it too, and so does the end of a scan.
LEMMA ExplainedQuiet ==
    ASSUME TypeOK, AttemptsExplained, ledger' = ledger,
           \/ /\ pc' # "restart" /\ pc \notin {"restart", "record", "outcome"}
              /\ faults' \in {faults, faults + 1}
           \/ pc' = "idle" /\ faults' = faults + 1
           \/ pc' = pc /\ faults' = faults,
           pc' # "idle" => /\ pc # "idle"
                           /\ r'.attempts = r.attempts
                           /\ r'.restarts = r.restarts
                           /\ r'.failures = r.failures
    PROVE  AttemptsExplained'
<1>1. ledger \in Result /\ r \in Result /\ faults \in Nat
  BY TypeFacts
<1>2. /\ ledger.attempts \in Nat /\ ledger.restarts \in Nat /\ ledger.failures \in Nat
      /\ r.attempts \in Nat /\ r.restarts \in Nat /\ r.failures \in Nat
  BY <1>1, CountersNat
<1>3. QED
  BY <1>1, <1>2 DEF AttemptsExplained, At

\* Every step keeps the balance of attempts and outcomes.
LEMMA ExplainedNext == TypeOK /\ AttemptsExplained /\ [Next]_vars => AttemptsExplained'
<1> SUFFICES ASSUME TypeOK, AttemptsExplained, [Next]_vars PROVE AttemptsExplained'
  OBVIOUS
<1>1. ledger \in Result /\ r \in Result /\ target \in Containers /\ faults \in Nat
  BY TypeFacts
<1>2. /\ ledger.attempts \in Nat /\ ledger.restarts \in Nat /\ ledger.failures \in Nat
      /\ r.attempts \in Nat /\ r.restarts \in Nat /\ r.failures \in Nat
  BY <1>1, CountersNat
<1>3. CASE Start
  <2>1. /\ r'.attempts = ledger.attempts
        /\ r'.restarts = ledger.restarts
        /\ r'.failures = ledger.failures
    BY <1>1, <1>3, ResumedFields DEF Start, SameCounters
  <2>2. QED
    BY <1>1, <1>2, <1>3, <2>1 DEF Start, Goto, disk, AttemptsExplained, At
<1>4. CASE ListUnhealthy
  BY <1>4, ExplainedQuiet DEF ListUnhealthy, Goto, disk, loop
<1>5. CASE ReadInventory
  <2>1. r' = r \/ \E f : r' = [r EXCEPT !.docker_read_ok = TRUE, !.containers = f]
    BY <1>5 DEF ReadInventory
  <2>2. SameCounters(r', r)
    <3>1. SameCounters(r, r)
      BY DEF SameCounters
    <3>2. QED
      BY <1>1, <2>1, <3>1, ObservedFields, Zenon
  <2>3. QED
    BY <1>5, <2>2, ExplainedQuiet DEF ReadInventory, Goto, disk, SameCounters
<1>6. CASE FailScan
  BY <1>1, <1>6, ExplainedPublish DEF FailScan
<1>7. CASE PublishObserved
  BY <1>1, <1>7, ExplainedPublish DEF PublishObserved
<1>8. ASSUME NEW c \in Containers, Visit(c) PROVE AttemptsExplained'
  <2>1. AfterSave(c) \in {"intend", "notify", "loop"}
    BY DEF AfterSave
  <2>2. QED
    BY <1>8, <2>1, ExplainedQuiet DEF Visit, SaveLegacy, Fault, Goto, disk
<1>9. CASE Intend
  <2> DEFINE x == Intention
  <2>1. x.attempts = r.attempts + 1 /\ x.restarts = r.restarts /\ x.failures = r.failures
    BY <1>1, IntentionFields, Zenon
  <2>2. Publish(x, "restart") /\ pc = "intend"
    BY <1>9, Zenon DEF Intend
  <2> HIDE DEF x
  <2>3. r.attempts <= r.restarts + r.failures + faults
    BY <1>1, <1>2, <2>2 DEF AttemptsExplained, At
  <2>4. ledger.attempts <= ledger.restarts + ledger.failures + faults
    BY <1>1, <1>2, <2>2 DEF AttemptsExplained, At
  <2>5. CASE ledger' = x /\ r' = x /\ pc' = "restart" /\ faults' = faults
    BY <1>1, <1>2, <2>1, <2>3, <2>5 DEF AttemptsExplained, At
  <2>6. CASE ledger' \in {ledger, x} /\ pc' = "idle" /\ faults' = faults + 1
    BY <1>1, <1>2, <2>1, <2>3, <2>4, <2>6 DEF AttemptsExplained, At
  <2>7. QED
    BY <2>2, <2>5, <2>6 DEF Publish, Fault
<1>10. CASE Restart
  <2>1. PICK ok \in BOOLEAN : r' = Outcome(ok)
    BY <1>10, Zenon DEF Restart
  <2>2. /\ r'.attempts = r.attempts
        /\ \/ r'.restarts = r.restarts + 1 /\ r'.failures = r.failures
           \/ r'.restarts = r.restarts /\ r'.failures = r.failures + 1
    <3>1. CASE ok = TRUE
      BY <1>1, <2>1, <3>1, SuccessFields, Zenon
    <3>2. CASE ok = FALSE
      BY <1>1, <2>1, <3>2, FailureFields, Zenon
    <3>3. QED
      BY <3>1, <3>2
  <2>3. pc = "restart" /\ pc' = "record" /\ ledger' = ledger /\ faults' = faults
    BY <1>10 DEF Restart, Goto, disk
  <2>4. r'.attempts <= r'.restarts + r'.failures + faults
    BY <1>1, <1>2, <2>2, <2>3 DEF AttemptsExplained, At
  <2>5. ledger.attempts <= ledger.restarts + ledger.failures + faults + 1
    BY <1>1, <1>2, <2>3 DEF AttemptsExplained, At
  <2>6. r'.restarts \in Nat /\ r'.failures \in Nat
    BY <1>2, <2>2
  <2>7. QED
    BY <1>1, <2>3, <2>4, <2>5, <2>6 DEF AttemptsExplained, At
<1>11. CASE Record
  <2>1. /\ pc = "record" /\ ledger' = ledger /\ r' = r
        /\ \/ pc' = "outcome" /\ faults' = faults
           \/ pc' = "failing" /\ faults' = faults + 1
    BY <1>11 DEF Record, SaveLegacy, Fault, loop
  <2>2. QED
    BY <1>1, <1>2, <2>1 DEF AttemptsExplained, At
<1>12. CASE PublishOutcome
  <2>1. PICK next : Publish(r, next) /\ next # "restart"
    BY <1>12 DEF PublishOutcome
  <2>2. pc = "outcome"
    BY <1>12 DEF PublishOutcome
  <2>3. QED
    BY <1>1, <2>1, <2>2, ExplainedPublish
<1>13. CASE SaveAlert
  <2>1. SameCounters(r', r)
    BY <1>1, <1>13, AlertFields, Zenon DEF SaveAlert
  <2>2. QED
    BY <1>13, <2>1, ExplainedQuiet DEF SaveAlert, SaveLegacy, Fault, SameCounters
<1>14. CASE CountNotification
  <2> DEFINE x == [r EXCEPT !.notifications = @ + 1]
  <2>1. x.attempts = r.attempts /\ x.restarts = r.restarts /\ x.failures = r.failures
    BY <1>1, NotificationFields, Zenon
  <2>2. Publish(x, "send") /\ pc = "notify" /\ x \in Result
    BY <1>1, <1>14, NotificationsType, Zenon DEF CountNotification
  <2> HIDE DEF x
  <2>3. QED
    BY <2>1, <2>2, ExplainedPublish
<1>15. CASE Send
  <2>1. r'.attempts = r.attempts /\ r'.restarts = r.restarts /\ r'.failures = r.failures
    BY <1>1, <1>15, NotificationFailureFields, Zenon DEF Send
  <2>2. QED
    BY <1>15, <2>1, ExplainedQuiet DEF Send, Goto, disk
<1>16. CASE PublishSent
  BY <1>1, <1>16, ExplainedPublish DEF PublishSent
<1>17. CASE CollectGarbage
  BY <1>17, ExplainedQuiet DEF CollectGarbage, Fault, loop
<1>18. CASE Finish
  <2> DEFINE x == [r EXCEPT !.success = TRUE]
  <2>1. x.attempts = r.attempts /\ x.restarts = r.restarts /\ x.failures = r.failures
    BY <1>1, FinishFields, Zenon DEF SameCounters
  <2>2. Publish(x, "idle") /\ pc = "loop" /\ x \in Result
    BY <1>1, <1>18, SuccessType, Zenon DEF Finish
  <2> HIDE DEF x
  <2>3. QED
    BY <2>1, <2>2, ExplainedPublish
<1>19. CASE Crash
  BY <1>19, ExplainedQuiet DEF Crash, Fault, disk
<1>20. ASSUME NEW c \in Containers, Repair(c) PROVE AttemptsExplained'
  BY <1>20, ExplainedQuiet DEF Repair, loop
<1>21. CASE UNCHANGED vars
  BY <1>21 DEF vars, disk, loop, AttemptsExplained, At
<1>22. QED
  BY <1>3, <1>4, <1>5, <1>6, <1>7, <1>8, <1>9, <1>10, <1>11, <1>12, <1>13, <1>14, <1>15,
     <1>16, <1>17, <1>18, <1>19, <1>20, <1>21 DEF Next, EndOfModel

\* Between scans, every announced restart has its outcome in the ledger, except
\* at most one for each crash or failed write.
THEOREM AttemptsAccounted == Spec => []OutcomesAccounted
<1>1. Init => AttemptsExplained
  BY DEF Init, AttemptsExplained, At, EmptyResult
<1>2. TypeOK /\ AttemptsExplained => OutcomesAccounted
  <2> SUFFICES ASSUME TypeOK, AttemptsExplained PROVE OutcomesAccounted
    OBVIOUS
  <2>1. ledger \in Result /\ faults \in Nat
    BY TypeFacts
  <2>2. ledger.attempts \in Nat /\ ledger.restarts \in Nat /\ ledger.failures \in Nat
    BY <2>1, CountersNat
  <2>3. QED
    BY <2>1, <2>2 DEF AttemptsExplained, OutcomesAccounted, At
<1>3. QED
  BY <1>1, <1>2, TypeInit, TypeNext, ExplainedNext, PTL DEF Spec
-----------------------------------------------------------------------------
(***************************************************************************)
(* A failed restart stays visible.                                         *)
(***************************************************************************)

\* A publication that lowers no flag keeps the flags.
LEMMA FlagsPublish ==
    ASSUME TypeOK, Flags, pc # "idle", NEW x, NEW next, next # "restart", Publish(x, next),
           UNCHANGED unconfirmed,
           \A c \in Containers :
              r.containers[c].restart_failed => x.containers[c].restart_failed
    PROVE  Flags'
<1>1. unconfirmed \subseteq Containers
  BY TypeFacts
<1>2. \A c \in unconfirmed : /\ ledger.containers[c].restart_failed
                             /\ x.containers[c].restart_failed
  BY <1>1, Zenon DEF Flags
<1>3. ledger' \in {ledger, x} /\ r' = x /\ pc' # "restart"
  BY DEF Publish
<1>4. \A c \in unconfirmed : ledger'.containers[c].restart_failed
  BY <1>2, <1>3
<1>5. QED
  BY <1>2, <1>3, <1>4, Zenon DEF Flags

\* So does a step that lowers none in memory and leaves the ledger alone.
LEMMA FlagsQuiet ==
    ASSUME TypeOK, Flags, ledger' = ledger, unconfirmed' \subseteq unconfirmed,
           pc' # "restart",
           pc' # "idle" => /\ pc # "idle"
                           /\ \A c \in unconfirmed' : r.containers[c].restart_failed
                                                    => r'.containers[c].restart_failed
    PROVE  Flags'
<1>1. \A c \in unconfirmed' : ledger'.containers[c].restart_failed
  BY DEF Flags
<1>2. pc' # "idle" => \A c \in unconfirmed' : r'.containers[c].restart_failed
  BY Zenon DEF Flags
<1>3. QED
  BY <1>1, <1>2, Zenon DEF Flags

\* The intention flags the target in memory and, unless it is cut off, on disk.
LEMMA FlagsIntend ==
    ASSUME TypeOK, Flags, Intend
    PROVE  Flags'
<1> DEFINE x == Intention
<1>1. r \in Result /\ target \in Containers /\ unconfirmed \subseteq Containers
  BY TypeFacts
<1>2. /\ x.containers[target].restart_failed
      /\ \A c \in Containers :
            r.containers[c].restart_failed => x.containers[c].restart_failed
  BY <1>1, IntentionFields, Zenon
<1>3. Publish(x, "restart") /\ pc = "intend" /\ UNCHANGED <<target, history>>
  BY Zenon DEF Intend
<1>4. unconfirmed' = unconfirmed /\ target' = target
  BY <1>3 DEF history
<1> HIDE DEF x
<1>5. \A c \in unconfirmed : /\ ledger.containers[c].restart_failed
                             /\ x.containers[c].restart_failed
  BY <1>1, <1>2, <1>3, Zenon DEF Flags
<1>6. r' = x
  BY <1>3 DEF Publish
<1>7. CASE ledger' = x
  BY <1>2, <1>4, <1>5, <1>6, <1>7, Zenon DEF Flags
<1>8. CASE ledger' = ledger /\ pc' = "idle"
  <2>1. pc' # "restart"
    BY <1>8
  <2>2. QED
    BY <1>4, <1>5, <1>6, <1>8, <2>1, Zenon DEF Flags
<1>9. QED
  BY <1>3, <1>7, <1>8 DEF Publish

\* The command flags nothing new on disk: the target was flagged already.
LEMMA FlagsRestart ==
    ASSUME TypeOK, Flags, Restart
    PROVE  Flags'
<1>1. r \in Result /\ target \in Containers /\ unconfirmed \subseteq Containers
  BY TypeFacts
<1>2. pc = "restart" /\ pc' = "record" /\ ledger' = ledger
  BY DEF Restart, Goto, disk
<1>3. /\ \A c \in unconfirmed \union {target} :
            ledger.containers[c].restart_failed /\ r.containers[c].restart_failed
  BY <1>2, Zenon DEF Flags
<1>4. PICK ok \in BOOLEAN :
        /\ r' = Outcome(ok)
        /\ unconfirmed' = IF ok THEN unconfirmed \ {target} ELSE unconfirmed \union {target}
  BY Zenon DEF Restart
<1>5. \A c \in unconfirmed' : r'.containers[c].restart_failed
  <2>1. CASE ok = TRUE
    <3>1. \A c \in Containers \ {target} : r'.containers[c] = r.containers[c]
      BY <1>1, <1>4, <2>1, SuccessFields, Zenon
    <3>2. QED
      BY <1>1, <1>3, <1>4, <2>1, <3>1
  <2>2. CASE ok = FALSE
    <3>1. r'.containers = r.containers
      BY <1>1, <1>4, <2>2, FailureFields, Zenon
    <3>2. QED
      BY <1>3, <1>4, <2>2, <3>1
  <2>3. QED
    BY <2>1, <2>2
<1>6. unconfirmed' \subseteq unconfirmed \union {target}
  BY <1>4
<1>7. \A c \in unconfirmed' : ledger'.containers[c].restart_failed
  BY <1>2, <1>3, <1>6, Zenon
<1>8. pc' # "restart"
  BY <1>2
<1>9. QED
  BY <1>5, <1>7, <1>8, Zenon DEF Flags

\* Only a healthy or absent container loses its flag in an observation.
LEMMA FlagsReadInventory ==
    ASSUME TypeOK, Flags, ReadInventory
    PROVE  Flags'
<1>1. r \in Result /\ unconfirmed \subseteq Containers
  BY TypeFacts
<1>2. /\ pc = "ps -a" /\ pc' # "restart" /\ ledger' = ledger
      /\ unconfirmed' \subseteq unconfirmed
  BY DEF ReadInventory, Goto, disk
<1>3. CASE r' = r
  BY <1>2, <1>3, FlagsQuiet
<1>4. ASSUME NEW obs \in [Containers -> Observation],
             r' = [r EXCEPT !.docker_read_ok = TRUE, !.containers = Observed(obs)],
             unconfirmed' = {c \in unconfirmed : obs[c] \notin {"absent", "healthy"}}
      PROVE  Flags'
  <2>1. r'.containers = Observed(obs)
    BY <1>1, <1>4, ObservedFields, Zenon
  <2>2. \A c \in Containers :
            obs[c] \notin {"absent", "healthy"} /\ r.containers[c].restart_failed
                => Observed(obs)[c].restart_failed
    BY DEF Observed
  <2>3. \A c \in unconfirmed' : r.containers[c].restart_failed => r'.containers[c].restart_failed
    BY <1>1, <1>4, <2>1, <2>2
  <2>4. QED
    BY <1>2, <2>3, FlagsQuiet
<1>5. QED
  BY <1>3, <1>4 DEF ReadInventory

\* Every step keeps the flags.
LEMMA FlagsNext == TypeOK /\ Flags /\ [Next]_vars => Flags'
<1> SUFFICES ASSUME TypeOK, Flags, [Next]_vars PROVE Flags'
  OBVIOUS
<1>1. ledger \in Result /\ r \in Result /\ target \in Containers
      /\ unconfirmed \subseteq Containers
  BY TypeFacts
<1>2. CASE Start
  <2>1. r'.containers = ledger.containers /\ ledger' = ledger
    BY <1>1, <1>2, ResumedFields DEF Start, Goto, disk
  <2>2. pc' # "restart" /\ unconfirmed' = unconfirmed
    BY <1>2 DEF Start, Goto, history
  <2>3. QED
    BY <2>1, <2>2 DEF Flags
<1>3. CASE ListUnhealthy
  BY <1>3, FlagsQuiet DEF ListUnhealthy, Goto, disk, loop, history
<1>4. CASE ReadInventory
  BY <1>4, FlagsReadInventory
<1>5. CASE FailScan
  BY <1>5, FlagsPublish DEF FailScan, history
<1>6. CASE PublishObserved
  BY <1>6, FlagsPublish DEF PublishObserved, history
<1>7. ASSUME NEW c \in Containers, Visit(c) PROVE Flags'
  <2>1. AfterSave(c) \in {"intend", "notify", "loop"}
    BY DEF AfterSave
  <2>2. QED
    BY <1>7, <2>1, FlagsQuiet DEF Visit, SaveLegacy, Goto, disk, history
<1>8. CASE Intend
  BY <1>8, FlagsIntend
<1>9. CASE Restart
  BY <1>9, FlagsRestart
<1>10. CASE Record
  BY <1>10, FlagsQuiet DEF Record, SaveLegacy, loop
<1>11. CASE PublishOutcome
  <2>1. PICK next : Publish(r, next) /\ next # "restart"
    BY <1>11 DEF PublishOutcome
  <2>2. pc # "idle" /\ unconfirmed' = unconfirmed
    BY <1>11 DEF PublishOutcome, history
  <2>3. QED
    BY <2>1, <2>2, FlagsPublish, Zenon
<1>12. CASE SaveAlert
  <2>1. \A c \in Containers :
            r'.containers[c].restart_failed = r.containers[c].restart_failed
    BY <1>1, <1>12, AlertFields, Zenon DEF SaveAlert
  <2>2. QED
    BY <1>1, <1>12, <2>1, FlagsQuiet DEF SaveAlert, SaveLegacy, history
<1>13. CASE CountNotification
  <2> DEFINE x == [r EXCEPT !.notifications = @ + 1]
  <2>1. x.containers = r.containers
    BY <1>1, NotificationFields, Zenon
  <2>2. Publish(x, "send") /\ pc = "notify" /\ UNCHANGED history
    BY <1>13, Zenon DEF CountNotification
  <2> HIDE DEF x
  <2>3. QED
    BY <2>1, <2>2, FlagsPublish DEF history
<1>14. CASE Send
  <2>1. PICK n \in {0, 1} : r' = [r EXCEPT !.notification_failures = @ + n]
    BY <1>14, Zenon DEF Send
  <2>2. r'.containers = r.containers
    BY <1>1, <2>1, NotificationFailureFields, Zenon
  <2>3. QED
    BY <1>14, <2>2, FlagsQuiet DEF Send, Goto, disk
<1>15. CASE PublishSent
  BY <1>15, FlagsPublish DEF PublishSent, history
<1>16. CASE CollectGarbage
  BY <1>16, FlagsQuiet DEF CollectGarbage, loop, history
<1>17. CASE Finish
  <2> DEFINE x == [r EXCEPT !.success = TRUE]
  <2>1. x.containers = r.containers
    BY <1>1, FinishFields, Zenon
  <2>2. Publish(x, "idle") /\ pc = "loop" /\ UNCHANGED history
    BY <1>17, Zenon DEF Finish
  <2> HIDE DEF x
  <2>3. QED
    BY <2>1, <2>2, FlagsPublish DEF history
<1>18. CASE Crash
  BY <1>18, FlagsQuiet DEF Crash, disk, history
<1>19. ASSUME NEW c \in Containers, Repair(c) PROVE Flags'
  BY <1>19, FlagsQuiet DEF Repair, history
<1>20. CASE UNCHANGED vars
  BY <1>20 DEF vars, disk, loop, history, Flags
<1>21. QED
  BY <1>2, <1>3, <1>4, <1>5, <1>6, <1>7, <1>8, <1>9, <1>10, <1>11, <1>12, <1>13, <1>14,
     <1>15, <1>16, <1>17, <1>18, <1>19, <1>20 DEF Next, EndOfModel

\* A restart that failed, or was cut off before its outcome was known, shows on
\* disk until the container restarts or is seen healthy or gone.
THEOREM FailureVisible == Spec => []FailureStaysVisible
<1>1. Init => Flags
  BY DEF Init, Flags
<1>2. Flags => FailureStaysVisible
  BY DEF Flags, FailureStaysVisible
<1>3. QED
  BY <1>1, <1>2, TypeInit, TypeNext, FlagsNext, PTL DEF Spec
-----------------------------------------------------------------------------
(***************************************************************************)
(* Nothing happens before the disk says that the scan is under way.        *)
(***************************************************************************)

\* Publishing a valid, unfinished Result keeps the marks on disk.
LEMMA UnfinishedPublish ==
    ASSUME Unfinished, pc \in Acting \union {"observed"}, NEW x, NEW next, Publish(x, next),
           SameFlags(x, r)
    PROVE  Unfinished'
<1>1. ~x.success /\ x.docker_read_ok
  <2>1. pc # "idle"
    BY DEF Acting
  <2>2. QED
    BY <2>1, Zenon DEF Unfinished, SameFlags
<1>2. CASE ledger' = x /\ r' = x
  BY <1>1, <1>2, Zenon DEF Unfinished
<1>3. CASE pc' = "idle"
  BY <1>3 DEF Unfinished, Acting
<1>4. QED
  BY <1>2, <1>3 DEF Publish

\* So does a step that leaves the ledger and the flags in memory alone.
LEMMA UnfinishedQuiet ==
    ASSUME Unfinished, ledger' = ledger,
           pc' # "idle" => pc # "idle" /\ r'.success = r.success,
           pc' \in Acting \union {"observed"} => pc \in Acting \union {"observed"}
                                                 /\ r'.docker_read_ok = r.docker_read_ok,
           pc' \in Acting => pc \in Acting
    PROVE  Unfinished'
  BY Zenon DEF Unfinished

\* Every step keeps the marks while the scan acts.
LEMMA UnfinishedNext == TypeOK /\ Unfinished /\ [Next]_vars => Unfinished'
<1> SUFFICES ASSUME TypeOK, Unfinished, [Next]_vars PROVE Unfinished'
  OBVIOUS
<1>1. ledger \in Result /\ r \in Result /\ target \in Containers
  BY TypeFacts
<1>2. SameFlags(r, r)
  BY DEF SameFlags
<1>3. CASE Start
  <2>1. ~r'.success /\ pc' = "ps"
    BY <1>1, <1>3, ResumedFields DEF Start, Goto
  <2>2. QED
    BY <2>1 DEF Unfinished, Acting
<1>4. CASE ListUnhealthy
  BY <1>4 DEF ListUnhealthy, Goto, disk, loop, Unfinished, Acting
<1>5. CASE ReadInventory
  <2>1. pc = "ps -a" /\ ledger' = ledger
    BY <1>5 DEF ReadInventory, Goto, disk
  <2>2. CASE r' = r /\ pc' = "failing"
    BY <2>1, <2>2 DEF Unfinished, Acting
  <2>3. CASE pc' = "observed" /\ \E f : r' = [r EXCEPT !.docker_read_ok = TRUE, !.containers = f]
    <3>1. r'.success = r.success /\ r'.docker_read_ok
      BY <1>1, <2>3, ObservedFields, Zenon
    <3>2. ~r.success
      BY <2>1 DEF Unfinished
    <3>3. ~r'.success
      BY <3>1, <3>2, Zenon
    <3>4. QED
      BY <2>3, <3>1, <3>3 DEF Unfinished, Acting
  <2>4. QED
    BY <1>5, <2>2, <2>3 DEF ReadInventory, Goto
<1>6. CASE FailScan
  BY <1>6 DEF FailScan, Publish, Unfinished, Acting
<1>7. CASE PublishObserved
  BY <1>2, <1>7, UnfinishedPublish DEF PublishObserved
<1>8. ASSUME NEW c \in Containers, Visit(c) PROVE Unfinished'
  BY <1>8, UnfinishedQuiet DEF Visit, SaveLegacy, Goto, disk, Acting
<1>9. CASE Intend
  <2>1. pc \in Acting /\ SameFlags(Intention, r)
    BY <1>1, <1>9, IntentionFields DEF Intend, Acting
  <2>2. QED
    BY <1>9, <2>1, UnfinishedPublish DEF Intend
<1>10. CASE Restart
  <2>1. PICK ok \in BOOLEAN : r' = Outcome(ok)
    BY <1>10, Zenon DEF Restart
  <2>2. SameFlags(r', r)
    <3>1. CASE ok = TRUE
      BY <1>1, <2>1, <3>1, SuccessFields, Zenon
    <3>2. CASE ok = FALSE
      BY <1>1, <2>1, <3>2, FailureFields, Zenon
    <3>3. QED
      BY <3>1, <3>2
  <2>3. QED
    BY <1>10, <2>2, UnfinishedQuiet DEF Restart, Goto, disk, SameFlags, Acting
<1>11. CASE Record
  BY <1>11, UnfinishedQuiet DEF Record, SaveLegacy, loop, Acting
<1>12. CASE PublishOutcome
  <2>1. PICK next : Publish(r, next)
    BY <1>12, Zenon DEF PublishOutcome
  <2>2. pc \in Acting
    BY <1>12 DEF PublishOutcome, Acting
  <2>3. QED
    BY <1>2, <2>1, <2>2, UnfinishedPublish
<1>13. CASE SaveAlert
  <2>1. SameFlags(r', r)
    BY <1>1, <1>13, AlertFields, Zenon DEF SaveAlert
  <2>2. QED
    BY <1>13, <2>1, UnfinishedQuiet DEF SaveAlert, SaveLegacy, SameFlags, Acting
<1>14. CASE CountNotification
  <2>1. SameFlags([r EXCEPT !.notifications = @ + 1], r)
    BY <1>1, NotificationFields, Zenon
  <2>2. pc \in Acting
    BY <1>14 DEF CountNotification, Acting
  <2>3. pc \in Acting \union {"observed"}
    BY <2>2
  <2>4. QED
    BY <1>14, <2>1, <2>3, UnfinishedPublish, Zenon DEF CountNotification
<1>15. CASE Send
  <2>1. PICK n \in {0, 1} : r' = [r EXCEPT !.notification_failures = @ + n]
    BY <1>15, Zenon DEF Send
  <2>2. SameFlags(r', r)
    BY <1>1, <2>1, NotificationFailureFields, Zenon
  <2>3. QED
    BY <1>15, <2>2, UnfinishedQuiet DEF Send, Goto, disk, SameFlags, Acting
<1>16. CASE PublishSent
  BY <1>2, <1>16, UnfinishedPublish DEF PublishSent, Acting
<1>17. CASE CollectGarbage
  BY <1>17, UnfinishedQuiet DEF CollectGarbage, loop, Acting
<1>18. CASE Finish
  <2>1. pc' = "idle"
    BY <1>18, Zenon DEF Finish, Publish
  <2>2. QED
    BY <2>1 DEF Unfinished, Acting
<1>19. CASE Crash
  BY <1>19 DEF Crash, Unfinished, Acting
<1>20. ASSUME NEW c \in Containers, Repair(c) PROVE Unfinished'
  BY <1>20, UnfinishedQuiet DEF Repair, loop, Acting
<1>21. CASE UNCHANGED vars
  BY <1>21 DEF vars, disk, loop, Unfinished, Acting
<1>22. QED
  BY <1>3, <1>4, <1>5, <1>6, <1>7, <1>8, <1>9, <1>10, <1>11, <1>12, <1>13, <1>14, <1>15,
     <1>16, <1>17, <1>18, <1>19, <1>20, <1>21 DEF Next, EndOfModel

\* Nothing is under way in the initial state.
LEMMA UnfinishedInit == Init => Unfinished
  BY DEF Init, Unfinished, Acting

\* A step that touches a legacy file or starts a command is one of an acting scan.
LEMMA ActingStep ==
    ASSUME [Next]_vars, legacy' # legacy \/ issued' # issued \/ sent' # sent
    PROVE  pc \in Acting
  BY DEF Next, Start, ListUnhealthy, ReadInventory, FailScan, PublishObserved, Visit, Intend,
         Restart, Record, PublishOutcome, SaveAlert, CountNotification, Send, PublishSent,
         CollectGarbage, Finish, Crash, Repair, EndOfModel, Publish, Goto, Acting,
         vars, disk, history

\* No legacy file changes, and no command starts, before the disk says that both
\* inventories were valid and that the scan is not finished.
THEOREM PublishedFirst == Spec => PublishedBeforeAction
<1>1. Unfinished /\ [Next]_vars =>
        (legacy' # legacy \/ issued' # issued \/ sent' # sent
            => ledger.docker_read_ok /\ ~ledger.success)
  BY ActingStep, Zenon DEF Unfinished
<1>2. QED
  BY <1>1, TypeInit, TypeNext, UnfinishedInit, UnfinishedNext, PTL DEF Spec, PublishedBeforeAction
=============================================================================
