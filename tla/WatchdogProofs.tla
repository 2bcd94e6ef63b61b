--------------------------- MODULE WatchdogProofs ---------------------------
(***************************************************************************)
(* Proofs about the container watchdog, for every value of its constants.  *)
(***************************************************************************)
EXTENDS Watchdog, TLAPS

(***************************************************************************)
(* Types.                                                                  *)
(***************************************************************************)

\* Decide maps a State to a State and yields one of the four actions.
LEMMA DecideType ==
    ASSUME NEW s \in State, NEW u \in BOOLEAN, NEW t \in Nat
    PROVE  /\ Decide(s, u, t).state \in State
           /\ Decide(s, u, t).action \in {"none", "wait", "restart", "budget"}
           /\ Decide(s, u, t).notify \in BOOLEAN
<1>1. Aged(s, t) \in State
  BY DEF Aged, State
<1>2. Polled(s, u, t) \in State
  <2>1. \A a \in State : [a EXCEPT !.consecutive = @ + 1] \in State
    BY DEF State
  <2>2. \A a \in State : [a EXCEPT !.consecutive = 0, !.last_alert = 0] \in State
    BY DEF State
  <2>3. QED
    BY <1>1, <2>1, <2>2, Zenon DEF Polled
<1>3. Notify(Polled(s, u, t), u, t) \in BOOLEAN
  BY DEF Notify
<1>4. Action(Polled(s, u, t), u) \in {"none", "wait", "restart", "budget"}
  BY DEF Action
<1>5. \A p \in State : [p EXCEPT !.last_alert = t] \in State
  BY DEF State
<1>6. QED
  BY <1>2, <1>3, <1>4, <1>5, Zenon DEF Decide

\* A fault counts one more fault.
LEMMA FaultType ==
    ASSUME faults \in Nat, Fault
    PROVE  faults' \in Nat
  BY DEF Fault

\* publish writes what it is given, whole or in part; so does saveLegacy.
LEMMA PublishType ==
    ASSUME DiskOK, faults \in Nat, NEW x \in Result, NEW next \in Labels, Publish(x, next)
    PROVE  DiskOK' /\ faults' \in Nat /\ r' \in Result /\ pc' \in Labels
<1>1. ledger' \in Result /\ textfile' \in Result
  BY Zenon DEF DiskOK, Publish
<1>2. faults' \in Nat
  BY FaultType, Zenon DEF Publish
<1>3. "idle" \in Labels
  BY DEF Labels
<1>4. pc' \in Labels
  BY <1>3, Zenon DEF Publish
<1>5. QED
  BY <1>1, <1>2, <1>4, Zenon DEF DiskOK, Publish

\* saveLegacy writes a State to a legacy file, or fails and leaves it alone.
LEMMA SaveType ==
    ASSUME DiskOK, faults \in Nat, NEW c \in Containers, NEW s \in State,
           NEW next \in Labels, SaveLegacy(c, s, next)
    PROVE  DiskOK' /\ faults' \in Nat /\ pc' \in Labels
<1>1. file' \in [Containers -> {"none", "valid", "malformed"}]
  BY DEF DiskOK, SaveLegacy
<1>2. legacy' \in [Containers -> State]
  BY DEF DiskOK, SaveLegacy
<1>3. faults' \in Nat
  BY FaultType, Zenon DEF SaveLegacy
<1>4. "failing" \in Labels
  BY DEF Labels
<1>5. QED
  BY <1>1, <1>2, <1>3, <1>4, Zenon DEF DiskOK, SaveLegacy

\* A step that touches no disk keeps the types of the disk.
LEMMA GotoType ==
    ASSUME DiskOK, faults \in Nat, NEW next \in Labels, Goto(next)
    PROVE  DiskOK' /\ faults' \in Nat /\ pc' \in Labels
  BY Zenon DEF DiskOK, Goto, disk

\* The empty Result is a Result.
LEMMA EmptyType == EmptyResult \in Result
<1>1. ZeroState \in State
  BY DEF ZeroState, State
<1>2. ZeroContainer \in Container
  BY <1>1 DEF ZeroContainer, Container
<1>3. QED
  BY <1>2 DEF EmptyResult, Result

\* Lowering the flags at the start of a scan keeps the Result a Result.
LEMMA FlagsType ==
    ASSUME NEW x \in Result
    PROVE  [x EXCEPT !.success = FALSE, !.docker_read_ok = FALSE] \in Result
  BY DEF Result

\* Replacing the containers by those observed keeps it one.
LEMMA ObservedType ==
    ASSUME NEW x \in Result, NEW f \in [Containers -> Container]
    PROVE  [x EXCEPT !.docker_read_ok = TRUE, !.containers = f] \in Result
  BY DEF Result

\* Raising success at the end of a scan keeps it one.
LEMMA SuccessType ==
    ASSUME NEW x \in Result PROVE [x EXCEPT !.success = TRUE] \in Result
  BY DEF Result

\* Counting a failed restart keeps it one.
LEMMA FailureType ==
    ASSUME NEW x \in Result PROVE [x EXCEPT !.failures = @ + 1] \in Result
  BY DEF Result

\* Counting a message keeps it one.
LEMMA NotificationsType ==
    ASSUME NEW x \in Result PROVE [x EXCEPT !.notifications = @ + 1] \in Result
  BY DEF Result

\* Counting the outcome of a message keeps it one.
LEMMA NotificationFailuresType ==
    ASSUME NEW x \in Result, NEW n \in {0, 1}
    PROVE  [x EXCEPT !.notification_failures = @ + n] \in Result
  BY DEF Result

\* Announcing a restart keeps it one.
LEMMA AttemptType ==
    ASSUME NEW x \in Result, NEW c \in Containers, NEW d \in Container
    PROVE  [x EXCEPT !.attempts = @ + 1, !.containers[c] = d] \in Result
<1>1. \A n \in Nat : [x EXCEPT !.attempts = n, !.containers[c] = d] \in Result
  BY DEF Result
<1>2. x.attempts + 1 \in Nat
  BY DEF Result
<1>3. QED
  BY <1>1, <1>2, Zenon

\* Counting a successful restart keeps it one.
LEMMA RestartType ==
    ASSUME NEW x \in Result, NEW c \in Containers, NEW d \in Container
    PROVE  [x EXCEPT !.restarts = @ + 1, !.containers[c] = d] \in Result
<1>1. \A n \in Nat : [x EXCEPT !.restarts = n, !.containers[c] = d] \in Result
  BY DEF Result
<1>2. x.restarts + 1 \in Nat
  BY DEF Result
<1>3. QED
  BY <1>1, <1>2, Zenon

\* Replacing one Container keeps it one.
LEMMA ContainerType ==
    ASSUME NEW x \in Result, NEW c \in Containers, NEW d \in Container
    PROVE  [x EXCEPT !.containers[c] = d] \in Result
  BY DEF Result

\* Flagging, restarting and alerting map a Container to a Container.
LEMMA ChangesType ==
    ASSUME NEW c \in Container, now \in Nat
    PROVE  Flagged(c) \in Container /\ AfterRestart(c) \in Container
                                    /\ AfterAlert(c) \in Container
<1>1. Flagged(c) \in Container
  BY DEF Flagged, Container
<1>2. c.state \in State
  BY DEF Container
<1>3. Spent(c.state) \in State
  <2>1. \A n \in Nat :
            [c.state EXCEPT !.consecutive = 0, !.restarts = n, !.last_restart = now] \in State
    BY <1>2 DEF State
  <2>2. c.state.restarts + 1 \in Nat
    BY <1>2 DEF State
  <2>3. QED
    BY <2>1, <2>2, Zenon DEF Spent
<1>4. Alerted(c.state) \in State
  BY <1>2 DEF Alerted, State
<1>5. \A s \in State : [c EXCEPT !.restart_failed = FALSE, !.state = s] \in Container
  BY DEF Container
<1>6. \A s \in State : [c EXCEPT !.state = s] \in Container
  BY DEF Container
<1>7. QED
  BY <1>1, <1>3, <1>4, <1>5, <1>6, Zenon DEF AfterRestart, AfterAlert

\* So the intention, the outcome and the alert each leave a Result.
LEMMA UpdatesType ==
    ASSUME r \in Result, target \in Containers, now \in Nat
    PROVE  /\ Intention \in Result
           /\ \A ok \in BOOLEAN : Outcome(ok) \in Result
           /\ [r EXCEPT !.containers[target] = AfterAlert(@)] \in Result
<1>1. r.containers[target] \in Container
  BY DEF Result
<1>2. QED
  BY <1>1, ChangesType, AttemptType, RestartType, FailureType, ContainerType, Zenon
     DEF Intention, Outcome

(***************************************************************************)
(* The type invariant, one step for each action of Next.                   *)
(***************************************************************************)
\* The initial state is well typed.
LEMMA TypeInit == Init => TypeOK
<1> SUFFICES ASSUME Init PROVE TypeOK
  OBVIOUS
<1>1. DiskOK
  <2>1. ZeroState \in State
    BY DEF ZeroState, State
  <2>2. QED
    BY <2>1, EmptyType DEF Init, DiskOK
<1>2. ScanOK
  <2>1. [action |-> "none", notify |-> FALSE] \in Plan
    BY DEF Plan
  <2>2. QED
    BY <2>1, WatchdogAssumption DEF Init, ScanOK, Labels
<1>3. LoopOK
  BY EmptyType DEF Init, LoopOK
<1>4. HistoryOK
  BY DEF Init, HistoryOK
<1>5. QED
  BY <1>1, <1>2, <1>3, <1>4 DEF TypeOK

\* Each label is one of Labels.
LEMMA LabelsContain ==
    \A l \in {"idle", "ps", "ps -a", "failing", "observed", "loop", "intend", "restart",
              "record", "outcome", "alert", "notify", "send", "sent"} : l \in Labels
  BY DEF Labels

\* An inventory, valid or not, leaves a well-typed state.
LEMMA TypeReadInventory ==
    ASSUME TypeOK, ReadInventory
    PROVE  TypeOK'
<1> USE DEF TypeOK
<1>1. DiskOK' /\ faults' \in Nat /\ pc' \in Labels
  BY GotoType, LabelsContain, Zenon DEF ReadInventory, HistoryOK
<1>2. CASE UNCHANGED <<present, plan, r, restartTimes, counted, unconfirmed, lastUrgent>>
  <2>1. ScanOK'
    BY <1>1, <1>2 DEF ReadInventory, ScanOK
  <2>2. LoopOK'
    BY <1>2 DEF ReadInventory, LoopOK
  <2>3. HistoryOK'
    BY <1>1, <1>2 DEF ReadInventory, HistoryOK
  <2>4. QED
    BY <1>1, <2>1, <2>2, <2>3
<1>3. ASSUME NEW obs \in [Containers -> Observation],
             present' = {c \in Containers : obs[c] # "absent"},
             plan' = [c \in Containers |->
                         LET d == Decide(legacy[c], c \in listed, now)
                         IN  [action |-> d.action, notify |-> d.notify]],
             r' = [r EXCEPT !.docker_read_ok = TRUE, !.containers = Observed(obs)],
             restartTimes' = [c \in Containers |-> IF c \in present' THEN restartTimes[c] ELSE {}],
             counted' = [c \in Containers |-> IF c \in present' THEN counted[c] ELSE {}],
             unconfirmed' = {c \in unconfirmed : obs[c] \notin {"absent", "healthy"}},
             lastUrgent' = [c \in Containers |-> IF c \in listed THEN lastUrgent[c] ELSE 0]
      PROVE  TypeOK'
  <2>1. \A c \in Containers : /\ Decide(legacy[c], c \in listed, now).state \in State
                              /\ Decide(legacy[c], c \in listed, now).action
                                    \in {"none", "wait", "restart", "budget"}
                              /\ Decide(legacy[c], c \in listed, now).notify \in BOOLEAN
    <3> TAKE c \in Containers
    <3>1. legacy[c] \in State /\ now \in Nat
      BY DEF DiskOK, ScanOK
    <3>2. (c \in listed) \in BOOLEAN
      OBVIOUS
    <3>3. QED
      BY <3>1, <3>2, DecideType, Zenon
  <2>2. plan' \in [Containers -> Plan]
    BY <1>3, <2>1 DEF Plan
  <2>3. Observed(obs) \in [Containers -> Container]
    <3>1. ZeroContainer \in Container
      BY DEF ZeroContainer, Container, ZeroState, State
    <3>2. \A c \in Containers :
             [state          |-> Decide(legacy[c], c \in listed, now).state,
              unhealthy      |-> c \in listed,
              restart_failed |-> obs[c] # "healthy" /\ r.containers[c].restart_failed]
                \in Container
      BY <2>1 DEF Container
    <3>3. QED
      BY <3>1, <3>2 DEF Observed
  <2>4. r' \in Result
    BY <1>3, <2>3, ObservedType DEF LoopOK
  <2>5. ScanOK'
    BY <1>1, <1>3, <2>2 DEF ReadInventory, ScanOK
  <2>6. LoopOK'
    BY <2>4 DEF ReadInventory, LoopOK
  <2>7. HistoryOK'
    BY <1>1, <1>3 DEF ReadInventory, HistoryOK
  <2>8. QED
    BY <1>1, <2>5, <2>6, <2>7
<1>4. QED
  BY <1>2, <1>3 DEF ReadInventory

\* A visit of the loop leaves a well-typed state.
LEMMA TypeVisit ==
    ASSUME TypeOK, NEW c \in Containers, Visit(c)
    PROVE  TypeOK'
<1> USE DEF TypeOK
<1>1. r.containers[c].state \in State
  BY DEF LoopOK, Result, Container
<1>2. AfterSave(c) \in Labels
  BY DEF AfterSave, Labels
<1>3. DiskOK' /\ faults' \in Nat /\ pc' \in Labels
  BY <1>1, <1>2, SaveType, GotoType, Zenon DEF Visit, HistoryOK
<1>4. ScanOK'
  BY <1>3 DEF Visit, ScanOK, scan
<1>5. LoopOK'
  BY DEF Visit, LoopOK
<1>6. HistoryOK'
  BY <1>3 DEF Visit, HistoryOK, history
<1>7. QED
  BY <1>3, <1>4, <1>5, <1>6

\* The actions that only publish: FailScan, PublishObserved, Intend,
\* PublishOutcome, CountNotification, PublishSent and Finish.
LEMMA TypePublish ==
    ASSUME TypeOK, NEW x \in Result, NEW next \in Labels, Publish(x, next),
           todo' \in {todo, present}, UNCHANGED <<scan, target, urgent, restarted, history>>
    PROVE  TypeOK'
<1> USE DEF TypeOK
<1>1. DiskOK' /\ faults' \in Nat /\ r' \in Result /\ pc' \in Labels
  BY PublishType, Zenon DEF HistoryOK
<1>2. ScanOK'
  BY <1>1 DEF ScanOK, scan
<1>3. LoopOK'
  BY <1>1 DEF LoopOK, ScanOK
<1>4. HistoryOK'
  BY <1>1 DEF HistoryOK, history
<1>5. QED
  BY <1>1, <1>2, <1>3, <1>4

\* Every step leaves a well-typed state.
LEMMA TypeNext == TypeOK /\ [Next]_vars => TypeOK'
<1> SUFFICES ASSUME TypeOK, [Next]_vars PROVE TypeOK'
  OBVIOUS
<1> USE DEF TypeOK
<1>1. r \in Result /\ ledger \in Result /\ target \in Containers /\ now \in Nat
      /\ faults \in Nat
  BY DEF LoopOK, DiskOK, ScanOK, HistoryOK
<1>2. CASE Start
  <2>1. DiskOK' /\ faults' \in Nat /\ pc' \in Labels
    BY <1>1, <1>2, GotoType, LabelsContain, Zenon DEF Start
  <2>2. r' \in Result
    BY <1>1, <1>2, FlagsType DEF Start, Resumed
  <2>3. now' \in Nat
    BY <1>1, <1>2, WatchdogAssumption DEF Start
  <2>4. ScanOK' /\ LoopOK'
    BY <1>2, <2>1, <2>2, <2>3 DEF Start, ScanOK, LoopOK
  <2>5. HistoryOK'
    BY <1>2, <2>1 DEF Start, HistoryOK, history
  <2>6. QED
    BY <2>1, <2>4, <2>5
<1>3. CASE ListUnhealthy
  <2>1. DiskOK' /\ faults' \in Nat /\ pc' \in Labels
    BY <1>1, <1>3, GotoType, LabelsContain, Zenon DEF ListUnhealthy
  <2>2. ScanOK'
    BY <1>3, <2>1 DEF ListUnhealthy, ScanOK
  <2>3. LoopOK'
    BY <1>3 DEF ListUnhealthy, LoopOK, loop
  <2>4. HistoryOK'
    BY <1>3, <2>1 DEF ListUnhealthy, HistoryOK, history
  <2>5. QED
    BY <2>1, <2>2, <2>3, <2>4
<1>4. CASE ReadInventory
  BY <1>4, TypeReadInventory
<1>5. CASE FailScan
  BY <1>1, <1>5, TypePublish, LabelsContain, Zenon DEF FailScan
<1>6. CASE PublishObserved
  BY <1>1, <1>6, TypePublish, LabelsContain, Zenon DEF PublishObserved
<1>7. ASSUME NEW c \in Containers, Visit(c) PROVE TypeOK'
  BY <1>7, TypeVisit
<1>8. CASE Intend
  BY <1>1, <1>8, UpdatesType, TypePublish, LabelsContain, Zenon DEF Intend
<1>9. CASE Restart
  <2>1. DiskOK' /\ faults' \in Nat /\ pc' \in Labels
    BY <1>1, <1>9, GotoType, LabelsContain, Zenon DEF Restart
  <2>2. r' \in Result /\ restarted' \in BOOLEAN
    BY <1>1, <1>9, UpdatesType, Zenon DEF Restart
  <2>3. ScanOK'
    BY <1>9, <2>1 DEF Restart, ScanOK, scan
  <2>4. LoopOK'
    BY <1>9, <2>2 DEF Restart, LoopOK
  <2>5. HistoryOK'
    BY <1>1, <1>9, <2>1 DEF Restart, HistoryOK
  <2>6. QED
    BY <2>1, <2>3, <2>4, <2>5
<1>10. CASE Record
  <2>1. r.containers[target].state \in State
    BY <1>1 DEF Result, Container
  <2>2. DiskOK' /\ faults' \in Nat /\ pc' \in Labels
    BY <1>1, <1>10, <2>1, SaveType, LabelsContain, Zenon DEF Record
  <2>3. ScanOK'
    BY <1>10, <2>2 DEF Record, ScanOK, scan
  <2>4. LoopOK'
    BY <1>10 DEF Record, LoopOK, loop
  <2>5. HistoryOK'
    BY <1>1, <1>10, <2>2 DEF Record, HistoryOK
  <2>6. QED
    BY <2>2, <2>3, <2>4, <2>5
<1>11. CASE PublishOutcome
  <2>1. (CASE restarted -> "notify"
           [] ~restarted /\ now - r.containers[target].state.last_alert >= Cooldown -> "alert"
           [] OTHER -> "loop") \in Labels
    BY DEF Labels
  <2>2. QED
    BY <1>1, <1>11, <2>1, TypePublish, Zenon DEF PublishOutcome
<1>12. CASE SaveAlert
  <2>1. r' \in Result
    BY <1>1, <1>12, UpdatesType, Zenon DEF SaveAlert
  <2>2. r'.containers[target].state \in State
    BY <1>1, <2>1 DEF Result, Container
  <2>3. DiskOK' /\ faults' \in Nat /\ pc' \in Labels
    BY <1>1, <1>12, <2>2, SaveType, LabelsContain, Zenon DEF SaveAlert
  <2>4. ScanOK'
    BY <1>12, <2>3 DEF SaveAlert, ScanOK, scan
  <2>5. LoopOK'
    BY <1>12, <2>1 DEF SaveAlert, LoopOK
  <2>6. HistoryOK'
    BY <1>12, <2>3 DEF SaveAlert, HistoryOK, history
  <2>7. QED
    BY <2>3, <2>4, <2>5, <2>6
<1>13. CASE CountNotification
  BY <1>1, <1>13, NotificationsType, TypePublish, LabelsContain, Zenon DEF CountNotification
<1>14. CASE Send
  <2>1. DiskOK' /\ faults' \in Nat /\ pc' \in Labels
    BY <1>1, <1>14, GotoType, LabelsContain, Zenon DEF Send
  <2>2. r' \in Result
    BY <1>1, <1>14, NotificationFailuresType, Zenon DEF Send
  <2>3. ScanOK'
    BY <1>14, <2>1 DEF Send, ScanOK, scan
  <2>4. LoopOK'
    BY <1>14, <2>2 DEF Send, LoopOK
  <2>5. HistoryOK'
    BY <1>1, <1>14, <2>1 DEF Send, HistoryOK
  <2>6. QED
    BY <2>1, <2>3, <2>4, <2>5
<1>15. CASE PublishSent
  BY <1>1, <1>15, TypePublish, LabelsContain, Zenon DEF PublishSent
<1>16. CASE CollectGarbage
  <2>1. ledger' = ledger /\ textfile' = textfile
    BY <1>16 DEF CollectGarbage
  <2>2. ZeroState \in State
    BY DEF ZeroState, State
  <2>3. /\ file' \in [Containers -> {"none", "valid", "malformed"}]
        /\ legacy' \in [Containers -> State]
    BY <1>16, <2>2 DEF CollectGarbage, Orphans, DiskOK
  <2>4. faults' \in Nat
    BY <1>1, <1>16, FaultType, Zenon DEF CollectGarbage
  <2>5. pc' \in Labels
    BY <1>16, LabelsContain DEF CollectGarbage, ScanOK
  <2>6. DiskOK'
    BY <2>1, <2>3 DEF DiskOK
  <2>7. ScanOK' /\ LoopOK'
    BY <1>16, <2>5 DEF CollectGarbage, ScanOK, LoopOK, scan, loop
  <2>8. HistoryOK'
    BY <1>16, <2>4 DEF CollectGarbage, HistoryOK, history
  <2>9. QED
    BY <2>6, <2>7, <2>8
<1>17. CASE Finish
  BY <1>1, <1>17, SuccessType, TypePublish, LabelsContain, Zenon DEF Finish
<1>18. CASE Crash
  <2>1. faults' \in Nat
    BY <1>1, <1>18, FaultType, Zenon DEF Crash
  <2>2. DiskOK' /\ ScanOK' /\ LoopOK'
    BY <1>18, LabelsContain DEF Crash, DiskOK, ScanOK, LoopOK, disk, scan, loop
  <2>3. HistoryOK'
    BY <1>18, <2>1 DEF Crash, HistoryOK, history
  <2>4. QED
    BY <2>2, <2>3
<1>19. ASSUME NEW c \in Containers, Repair(c) PROVE TypeOK'
  BY <1>19 DEF Repair, DiskOK, ScanOK, LoopOK, HistoryOK, scan, loop, history
<1>20. CASE UNCHANGED vars
  BY <1>20 DEF vars, DiskOK, ScanOK, LoopOK, HistoryOK, disk, scan, loop, history
<1>21. QED
  BY <1>2, <1>3, <1>4, <1>5, <1>6, <1>7, <1>8, <1>9, <1>10, <1>11, <1>12, <1>13, <1>14,
     <1>15, <1>16, <1>17, <1>18, <1>19, <1>20 DEF Next, EndOfModel

\* Every reachable state of the watchdog is well typed: a scan writes only
\* Results to the ledger and four naturals to a legacy file.
THEOREM WatchdogTypes == Spec => []TypeOK
  BY TypeInit, TypeNext, PTL DEF Spec
=============================================================================
