---------------------- MODULE WatchdogAgreementProofs ----------------------
(***************************************************************************)
(* The watchdog's legacy state files: the ledger that reports success      *)
(* agrees with them, and because restarts and alerts are remembered there, *)
(* the restart budget and the cooldown hold across crashes.  The files and *)
(* the ledger are written at different moments, by different steps.        *)
(***************************************************************************)
EXTENDS WatchdogLedgerProofs, FiniteSetTheorems

\* A state file that is missing or does not parse counts nothing.
FilesSaved == \A c \in Containers : file[c] # "valid" => legacy[c] = ZeroState

\* A container that is gone, or is seen for the first time and fine, counts
\* nothing in memory: the loop may leave it without a state file.
ObservedScan == Acting \union {"observed"}

Unvisited == IF pc = "observed" THEN present ELSE todo

FreshUnsaved ==
    pc \in ObservedScan =>
        /\ \A c \in Containers \ present : r.containers[c].state = ZeroState
        /\ \A c \in Unvisited :
              file[c] = "none" /\ c \notin listed => r.containers[c].state = ZeroState

\* The file of a visited container says what memory says, except between a
\* restart and its record.
VisitedSaved ==
    pc \in Acting =>
        /\ todo \subseteq present
        /\ pc # "loop" => target \in present \ todo
        /\ \A c \in present \ todo :
              (c = target /\ pc = "record") \/ r.containers[c].state = legacy[c]

Saved == FilesSaved /\ FreshUnsaved /\ VisitedSaved
-----------------------------------------------------------------------------
\* The states in x are those in y.
SameStates(x, y) == \A c \in Containers : x.containers[c].state = y.containers[c].state

\* A poll that finds a never counted container not unhealthy counts nothing.
LEMMA DecideZero ==
    ASSUME NEW s, s = ZeroState, NEW u \in BOOLEAN, ~u, NEW t \in Nat
    PROVE  Decide(s, u, t).state = ZeroState
<1>1. Aged(s, t) = s
  BY DEF Aged, ZeroState
<1>2. [s EXCEPT !.consecutive = 0, !.last_alert = 0] = s
  <2>1. s \in State /\ s.consecutive = 0 /\ s.last_alert = 0
    BY DEF ZeroState, State
  <2>2. \A a \in State : a.consecutive = 0 /\ a.last_alert = 0 =>
            [a EXCEPT !.consecutive = 0, !.last_alert = 0] = a
    BY DEF State
  <2>3. QED
    BY <2>1, <2>2, Zenon
<1>3. Polled(s, u, t) = s
  BY <1>1, <1>2, Zenon DEF Polled
<1>4. Action(s, u) = "none"
  BY DEF Action
<1>5. ~Notify(s, u, t)
  BY <1>4 DEF Notify
<1>6. Decide(s, u, t).state = s
  BY <1>3, <1>5, Zenon DEF Decide
<1>7. QED
  BY <1>6

\* A scan that is not past its observation has nothing to relate.
LEMMA OutsideScan ==
    ASSUME pc' \notin ObservedScan
    PROVE  FreshUnsaved' /\ VisitedSaved'
<1>1. pc' \notin Acting
  BY DEF ObservedScan
<1>2. QED
  BY <1>1, Zenon DEF FreshUnsaved, VisitedSaved

\* A step between two others of a visit that touches no State keeps the relation.
LEMMA SavedQuiet ==
    ASSUME TypeOK, FreshUnsaved, VisitedSaved,
           pc \in Acting \ {"loop", "record"}, pc' \in Acting,
           UNCHANGED <<file, legacy, present, todo, listed, target>>, SameStates(r', r)
    PROVE  FreshUnsaved' /\ VisitedSaved'
<1>1. todo \subseteq Containers /\ present \subseteq Containers
  BY TypeFacts
<1>2. pc \in ObservedScan /\ pc # "observed" /\ pc' # "observed"
  BY DEF Acting, ObservedScan
<1>3. /\ \A c \in Containers \ present : r.containers[c].state = ZeroState
      /\ \A c \in todo : file[c] = "none" /\ c \notin listed => r.containers[c].state = ZeroState
  BY <1>2, Zenon DEF FreshUnsaved, Unvisited
<1>4. /\ todo \subseteq present /\ target \in present \ todo
      /\ \A c \in present \ todo : r.containers[c].state = legacy[c]
  BY DEF VisitedSaved, Acting
<1>5. FreshUnsaved'
  BY <1>1, <1>2, <1>3 DEF FreshUnsaved, Unvisited, SameStates
<1>6. VisitedSaved'
  BY <1>1, <1>4 DEF VisitedSaved, SameStates
<1>7. QED
  BY <1>5, <1>6

\* A valid observation: the absent count nothing, nor do the fresh and fine.
LEMMA SavedReadInventory ==
    ASSUME TypeOK, FilesSaved, ReadInventory
    PROVE  FreshUnsaved' /\ VisitedSaved'
<1>1. r \in Result /\ now \in Nat
  BY TypeFacts
<1>2. CASE pc' = "failing"
  BY <1>2, OutsideScan DEF ObservedScan, Acting
<1>3. ASSUME NEW obs \in [Containers -> Observation], pc' = "observed", UNCHANGED <<disk, listed>>,
             present' = {c \in Containers : obs[c] # "absent"},
             r' = [r EXCEPT !.docker_read_ok = TRUE, !.containers = Observed(obs)]
      PROVE  FreshUnsaved' /\ VisitedSaved'
  <2>1. r'.containers = Observed(obs)
    BY <1>1, <1>3, ObservedFields, Zenon
  <2>2. \A c \in Containers : Observed(obs)[c].state =
            IF obs[c] = "absent" THEN ZeroState ELSE Decide(legacy[c], c \in listed, now).state
    BY DEF Observed, ZeroContainer
  <2>3. \A c \in Containers \ present' : r'.containers[c].state = ZeroState
    BY <1>3, <2>1, <2>2
  <2>4. ASSUME NEW c \in present', file[c] = "none", c \notin listed
        PROVE  r'.containers[c].state = ZeroState
    <3>1. c \in Containers /\ obs[c] # "absent"
      BY <1>3
    <3>2. legacy[c] = ZeroState
      BY <2>4, <3>1 DEF FilesSaved
    <3>3. (c \in listed) \in BOOLEAN /\ ~(c \in listed)
      BY <2>4
    <3>4. Decide(legacy[c], c \in listed, now).state = ZeroState
      <4> DEFINE u == c \in listed
      <4>1. u \in BOOLEAN /\ ~u
        BY <3>3
      <4> HIDE DEF u
      <4>2. Decide(legacy[c], u, now).state = ZeroState
        BY <1>1, <3>2, <4>1, DecideZero
      <4>3. QED
        BY <4>2, Zenon DEF u
    <3>5. QED
      BY <2>1, <2>2, <3>1, <3>4
  <2>5. file' = file /\ listed' = listed
    BY <1>3 DEF disk
  <2>6. FreshUnsaved'
    BY <1>3, <2>3, <2>4, <2>5 DEF FreshUnsaved, Unvisited
  <2>7. VisitedSaved'
    BY <1>3 DEF VisitedSaved, Acting
  <2>8. QED
    BY <2>6, <2>7
<1>4. QED
  BY <1>2, <1>3, Zenon DEF ReadInventory, Goto

\* A visit saves the container's State, or leaves one that counts nothing.
LEMMA SavedVisit ==
    ASSUME TypeOK, FilesSaved, FreshUnsaved, VisitedSaved, NEW c \in Containers, Visit(c)
    PROVE  FreshUnsaved' /\ VisitedSaved'
<1>1. /\ todo \subseteq Containers /\ present \subseteq Containers
      /\ legacy \in [Containers -> State]
      /\ file \in [Containers -> {"none", "valid", "malformed"}]
  BY TypeFacts
<1>2. /\ pc = "loop" /\ c \in todo /\ todo' = todo \ {c} /\ target' = c
      /\ r' = r /\ present' = present /\ listed' = listed
  BY DEF Visit, scan
<1>3. AfterSave(c) \in Acting \ {"record"}
  BY DEF AfterSave, Acting
<1>4. /\ \A d \in Containers \ present : r.containers[d].state = ZeroState
      /\ \A d \in todo : file[d] = "none" /\ d \notin listed => r.containers[d].state = ZeroState
  BY <1>2 DEF FreshUnsaved, Unvisited, ObservedScan, Acting
<1>5. /\ todo \subseteq present
      /\ \A d \in present \ todo : r.containers[d].state = legacy[d]
  BY <1>2 DEF VisitedSaved, Acting
<1>6. CASE pc' = "failing"
  BY <1>6, OutsideScan DEF ObservedScan, Acting
<1>7. CASE /\ pc' = AfterSave(c)
           /\ \A d \in Containers \ {c} : file'[d] = file[d] /\ legacy'[d] = legacy[d]
           /\ legacy'[c] = r.containers[c].state
  <2>1. pc' \in Acting /\ pc' # "record" /\ pc' # "observed"
    BY <1>3, <1>7 DEF Acting
  <2>2. FreshUnsaved'
    BY <1>1, <1>2, <1>4, <1>7, <2>1 DEF FreshUnsaved, Unvisited
  <2>3. \A d \in present \ todo' : r.containers[d].state = legacy'[d]
    BY <1>1, <1>2, <1>5, <1>7
  <2>4. VisitedSaved'
    BY <1>2, <1>5, <2>3 DEF VisitedSaved
  <2>5. QED
    BY <2>2, <2>4
<1>8. CASE SaveLegacy(c, r.containers[c].state, AfterSave(c))
  <2>1. CASE /\ pc' = AfterSave(c)
             /\ file' = [file EXCEPT ![c] = "valid"]
             /\ legacy' = [legacy EXCEPT ![c] = r.containers[c].state]
    BY <1>1, <1>7, <2>1
  <2>2. QED
    BY <1>6, <1>8, <2>1 DEF SaveLegacy
<1>9. CASE file[c] = "none" /\ c \notin listed /\ Goto(AfterSave(c))
  <2>1. file' = file /\ legacy' = legacy /\ pc' = AfterSave(c)
    BY <1>9 DEF Goto, disk
  <2>2. legacy[c] = ZeroState
    BY <1>9 DEF FilesSaved
  <2>3. r.containers[c].state = ZeroState
    BY <1>2, <1>4, <1>9
  <2>4. QED
    BY <1>7, <2>1, <2>2, <2>3
<1>10. file[c] \in {"none", "valid", "malformed"}
  BY <1>1
<1>11. QED
  BY <1>8, <1>9, Zenon DEF Visit

\* Saving the State of the target, new or not, restores the relation.
LEMMA SavedTarget ==
    ASSUME TypeOK, FreshUnsaved, VisitedSaved, pc \in {"record", "alert"},
           NEW next \in Acting \ {"record"},
           SaveLegacy(target, r'.containers[target].state, next),
           UNCHANGED <<present, todo, listed, target>>,
           \A c \in Containers \ {target} : r'.containers[c].state = r.containers[c].state
    PROVE  FreshUnsaved' /\ VisitedSaved'
<1>1. /\ todo \subseteq Containers /\ present \subseteq Containers /\ target \in Containers
      /\ legacy \in [Containers -> State]
      /\ file \in [Containers -> {"none", "valid", "malformed"}]
  BY TypeFacts
<1>2. /\ \A d \in Containers \ present : r.containers[d].state = ZeroState
      /\ \A d \in todo : file[d] = "none" /\ d \notin listed => r.containers[d].state = ZeroState
  BY DEF FreshUnsaved, Unvisited, ObservedScan, Acting
<1>3. /\ todo \subseteq present /\ target \in present \ todo
      /\ \A d \in (present \ todo) \ {target} : r.containers[d].state = legacy[d]
  BY DEF VisitedSaved, Acting
<1>4. CASE pc' = "failing"
  BY <1>4, OutsideScan DEF ObservedScan, Acting
<1>5. CASE /\ pc' = next
           /\ file' = [file EXCEPT ![target] = "valid"]
           /\ legacy' = [legacy EXCEPT ![target] = r'.containers[target].state]
  <2>1. /\ \A d \in Containers \ {target} : file'[d] = file[d] /\ legacy'[d] = legacy[d]
        /\ legacy'[target] = r'.containers[target].state
    BY <1>1, <1>5
  <2>2. pc' \in Acting /\ pc' # "record" /\ pc' # "observed"
    BY <1>5 DEF Acting
  <2>3. FreshUnsaved'
    BY <1>1, <1>2, <1>3, <2>1, <2>2 DEF FreshUnsaved, Unvisited
  <2>4. VisitedSaved'
    BY <1>1, <1>3, <2>1, <2>2 DEF VisitedSaved
  <2>5. QED
    BY <2>3, <2>4
<1>6. QED
  BY <1>4, <1>5 DEF SaveLegacy

\* The restart changes the State of the target alone, which awaits its record.
LEMMA SavedRestart ==
    ASSUME TypeOK, FreshUnsaved, VisitedSaved, Restart
    PROVE  FreshUnsaved' /\ VisitedSaved'
<1>1. /\ r \in Result /\ target \in Containers
      /\ todo \subseteq Containers /\ present \subseteq Containers
  BY TypeFacts
<1>2. /\ pc = "restart" /\ pc' = "record" /\ file' = file /\ legacy' = legacy
      /\ present' = present /\ todo' = todo /\ listed' = listed /\ target' = target
  BY DEF Restart, Goto, disk, scan
<1>3. PICK ok \in BOOLEAN : r' = Outcome(ok)
  BY Zenon DEF Restart
<1>4. \A c \in Containers \ {target} : r'.containers[c] = r.containers[c]
  <2>1. CASE ok = TRUE
    BY <1>1, <1>3, <2>1, SuccessFields, Zenon
  <2>2. CASE ok = FALSE
    <3>1. r'.containers = r.containers
      BY <1>1, <1>3, <2>2, FailureFields, Zenon
    <3>2. QED
      BY <3>1
  <2>3. QED
    BY <2>1, <2>2
<1>5. /\ \A d \in Containers \ present : r.containers[d].state = ZeroState
      /\ \A d \in todo : file[d] = "none" /\ d \notin listed => r.containers[d].state = ZeroState
  BY <1>2 DEF FreshUnsaved, Unvisited, ObservedScan, Acting
<1>6. /\ todo \subseteq present /\ target \in present \ todo
      /\ \A d \in present \ todo : r.containers[d].state = legacy[d]
  BY <1>2 DEF VisitedSaved, Acting
<1>7. FreshUnsaved'
  BY <1>1, <1>2, <1>4, <1>5, <1>6 DEF FreshUnsaved, Unvisited
<1>8. VisitedSaved'
  BY <1>1, <1>2, <1>4, <1>6 DEF VisitedSaved
<1>9. QED
  BY <1>7, <1>8

\* Garbage collection deletes the files of containers that are gone.
LEMMA SavedCollect ==
    ASSUME TypeOK, FreshUnsaved, VisitedSaved, CollectGarbage
    PROVE  FreshUnsaved' /\ VisitedSaved'
<1>1. /\ present \subseteq Containers /\ legacy \in [Containers -> State]
  BY TypeFacts
<1>2. /\ pc = "loop" /\ todo = {} /\ r' = r
      /\ present' = present /\ todo' = todo /\ target' = target
  BY DEF CollectGarbage, loop, scan
<1>3. CASE pc' = "failing"
  BY <1>3, OutsideScan DEF ObservedScan, Acting
<1>4. CASE pc' = pc
  <2>1. \A d \in present : legacy'[d] = legacy[d]
    BY <1>1 DEF CollectGarbage, Orphans
  <2>2. \A d \in Containers \ present : r.containers[d].state = ZeroState
    BY <1>2 DEF FreshUnsaved, ObservedScan, Acting
  <2>3. \A d \in present : r.containers[d].state = legacy[d]
    BY <1>2 DEF VisitedSaved, Acting
  <2>4. FreshUnsaved'
    BY <1>2, <1>4, <2>2 DEF FreshUnsaved, Unvisited
  <2>5. VisitedSaved'
    BY <1>2, <1>4, <2>1, <2>3 DEF VisitedSaved
  <2>6. QED
    BY <2>4, <2>5
<1>5. QED
  BY <1>3, <1>4 DEF CollectGarbage
-----------------------------------------------------------------------------
\* Every step of the scan keeps its memory and the files related.
LEMMA SavedScanNext ==
    TypeOK /\ Saved /\ [Next]_vars => FreshUnsaved' /\ VisitedSaved'
<1> SUFFICES ASSUME TypeOK, FilesSaved, FreshUnsaved, VisitedSaved, [Next]_vars
             PROVE  FreshUnsaved' /\ VisitedSaved'
  BY DEF Saved
<1>1. r \in Result /\ target \in Containers /\ present \subseteq Containers
  BY TypeFacts
<1>2. SameStates(r, r)
  BY DEF SameStates
<1>3. CASE Start \/ ListUnhealthy \/ FailScan \/ Finish \/ Crash \/ \E c \in Containers : Repair(c)
  <2>1. pc' \notin ObservedScan
    BY <1>3 DEF Start, ListUnhealthy, FailScan, Finish, Crash, Repair, Publish, Goto,
                ObservedScan, Acting
  <2>2. QED
    BY <2>1, OutsideScan
<1>4. CASE ReadInventory
  BY <1>4, SavedReadInventory
<1>5. CASE PublishObserved
  <2>1. CASE pc' = "idle"
    BY <2>1, OutsideScan DEF ObservedScan, Acting
  <2>2. CASE pc' = "loop"
    <3>1. /\ pc = "observed" /\ r' = r /\ file' = file /\ todo' = present
          /\ present' = present /\ listed' = listed
      BY <1>5 DEF PublishObserved, Publish, scan
    <3>2. FreshUnsaved'
      BY <2>2, <3>1 DEF FreshUnsaved, Unvisited, ObservedScan
    <3>3. VisitedSaved'
      BY <2>2, <3>1 DEF VisitedSaved
    <3>4. QED
      BY <3>2, <3>3
  <2>3. QED
    BY <1>5, <2>1, <2>2 DEF PublishObserved, Publish
<1>6. ASSUME NEW c \in Containers, Visit(c) PROVE FreshUnsaved' /\ VisitedSaved'
  BY <1>6, SavedVisit
<1>7. CASE Restart
  BY <1>7, SavedRestart
<1>8. CASE Record
  <2>1. /\ pc = "record" /\ r' = r /\ UNCHANGED <<present, todo, listed, target>>
        /\ SaveLegacy(target, r'.containers[target].state, "outcome")
    BY <1>8 DEF Record, scan, loop
  <2>2. "outcome" \in Acting \ {"record"}
    BY DEF Acting
  <2>3. QED
    BY <2>1, <2>2, SavedTarget
<1>9. CASE SaveAlert
  <2>1. \A c \in Containers \ {target} : r'.containers[c] = r.containers[c]
    BY <1>1, <1>9, AlertFields, Zenon DEF SaveAlert
  <2>2. /\ pc = "alert" /\ UNCHANGED <<present, todo, listed, target>>
        /\ SaveLegacy(target, r'.containers[target].state, "notify")
    BY <1>9 DEF SaveAlert, scan
  <2>3. "notify" \in Acting \ {"record"}
    BY DEF Acting
  <2>4. QED
    BY <2>1, <2>2, <2>3, SavedTarget
<1>10. CASE CollectGarbage
  BY <1>10, SavedCollect
<1>11. ASSUME pc \in Acting \ {"loop", "record"}, pc' \in Acting \union {"idle"},
              UNCHANGED <<file, legacy, present, todo, listed, target>>, SameStates(r', r)
       PROVE  FreshUnsaved' /\ VisitedSaved'
  <2>1. CASE pc' \in Acting
    BY <1>11, <2>1, SavedQuiet
  <2>2. CASE pc' = "idle"
    BY <2>2, OutsideScan DEF ObservedScan, Acting
  <2>3. QED
    BY <1>11, <2>1, <2>2
<1>12. CASE Intend \/ PublishOutcome \/ CountNotification \/ Send \/ PublishSent
  <2>1. pc \in Acting \ {"loop", "record"} /\ pc' \in Acting \union {"idle"}
    BY <1>12 DEF Intend, PublishOutcome, CountNotification, Send, PublishSent, Publish, Goto, Acting
  <2>2. UNCHANGED <<file, legacy, present, todo, listed, target>>
    BY <1>12 DEF Intend, PublishOutcome, CountNotification, Send, PublishSent, Publish, Goto,
                 disk, scan
  <2>3. SameStates(r', r)
    <3>1. CASE Intend
      <4>1. r' = Intention
        BY <3>1, Zenon DEF Intend, Publish
      <4>2. QED
        BY <1>1, <4>1, IntentionFields, Zenon DEF SameStates
    <3>2. CASE PublishOutcome \/ PublishSent
      <4>1. r' = r
        BY <3>2, Zenon DEF PublishOutcome, PublishSent, Publish
      <4>2. QED
        BY <1>2, <4>1
    <3>3. CASE CountNotification \/ Send
      <4>1. r'.containers = r.containers
        <5>1. CASE CountNotification
          BY <1>1, <5>1, NotificationFields, Zenon DEF CountNotification, Publish
        <5>2. CASE Send
          <6>1. PICK n \in {0, 1} : r' = [r EXCEPT !.notification_failures = @ + n]
            BY <5>2, Zenon DEF Send
          <6>2. QED
            BY <1>1, <6>1, NotificationFailureFields, Zenon
        <5>3. QED
          BY <3>3, <5>1, <5>2
      <4>2. QED
        BY <4>1 DEF SameStates
    <3>4. QED
      BY <1>12, <3>1, <3>2, <3>3
  <2>4. QED
    BY <1>11, <2>1, <2>2, <2>3
<1>13. CASE UNCHANGED vars
  BY <1>13 DEF vars, disk, scan, loop, FreshUnsaved, VisitedSaved, Unvisited
<1>14. QED
  BY <1>3, <1>4, <1>5, <1>6, <1>7, <1>8, <1>9, <1>10, <1>12, <1>13 DEF Next, EndOfModel

\* Every step leaves a State only in files that parse.
LEMMA FilesNext == TypeOK /\ FilesSaved /\ [Next]_vars => FilesSaved'
<1> SUFFICES ASSUME TypeOK, FilesSaved, [Next]_vars PROVE FilesSaved'
  OBVIOUS
<1>1. /\ file \in [Containers -> {"none", "valid", "malformed"}]
      /\ legacy \in [Containers -> State]
  BY TypeFacts
<1>2. ASSUME NEW c \in Containers, NEW s, NEW next, SaveLegacy(c, s, next)
      PROVE  FilesSaved'
  BY <1>1, <1>2 DEF SaveLegacy, FilesSaved
<1>3. CASE UNCHANGED <<file, legacy>>
  BY <1>3 DEF FilesSaved
<1>4. ASSUME NEW c \in Containers, Visit(c) PROVE FilesSaved'
  BY <1>2, <1>3, <1>4 DEF Visit, Goto, disk
<1>5. CASE Record \/ SaveAlert
  <2>1. target \in Containers
    BY TypeFacts
  <2>2. QED
    BY <1>2, <1>5, <2>1, Zenon DEF Record, SaveAlert
<1>6. CASE CollectGarbage
  BY <1>1, <1>6 DEF CollectGarbage, Orphans, FilesSaved
<1>7. ASSUME NEW c \in Containers, Repair(c) PROVE FilesSaved'
  BY <1>1, <1>7 DEF Repair, FilesSaved
<1>8. ~(\/ \E c \in Containers : Visit(c) \/ Repair(c)
        \/ Record \/ SaveAlert \/ CollectGarbage) => UNCHANGED <<file, legacy>>
  BY DEF Next, Start, ListUnhealthy, ReadInventory, FailScan, PublishObserved, Intend, Restart,
         PublishOutcome, CountNotification, Send, PublishSent, Finish, Crash, EndOfModel,
         Publish, Goto, vars, disk
<1>9. QED
  BY <1>3, <1>4, <1>5, <1>6, <1>7, <1>8

\* Finish marks a ledger whose containers all agree with their files.
LEMMA AgreementFinish ==
    ASSUME TypeOK, SuccessAgreement, Saved, Finish
    PROVE  SuccessAgreement'
<1> DEFINE x == [r EXCEPT !.success = TRUE]
<1>1. /\ r \in Result /\ present \subseteq Containers
      /\ file \in [Containers -> {"none", "valid", "malformed"}]
  BY TypeFacts
<1>2. x.containers = r.containers
  BY <1>1, FinishFields, Zenon
<1>3. Publish(x, "idle") /\ pc = "loop" /\ todo = {} /\ Orphans = {}
  BY Zenon DEF Finish
<1> HIDE DEF x
<1>4. legacy' = legacy /\ ledger' \in {ledger, x}
  BY <1>3 DEF Publish
<1>5. \A c \in present : r.containers[c].state = legacy[c]
  BY <1>3 DEF Saved, VisitedSaved, Acting
<1>6. \A c \in Containers \ present : r.containers[c].state = legacy[c]
  <2>1. \A c \in Containers \ present : file[c] = "none"
    BY <1>3 DEF Orphans
  <2>2. \A c \in Containers \ present : legacy[c] = ZeroState
    BY <2>1 DEF Saved, FilesSaved
  <2>3. \A c \in Containers \ present : r.containers[c].state = ZeroState
    BY <1>3 DEF Saved, FreshUnsaved, ObservedScan, Acting
  <2>4. QED
    BY <2>2, <2>3
<1>7. CASE ledger' = x
  BY <1>2, <1>4, <1>5, <1>6, <1>7 DEF SuccessAgreement
<1>8. CASE ledger' = ledger
  BY <1>4, <1>8 DEF SuccessAgreement
<1>9. QED
  BY <1>4, <1>7, <1>8

\* Any other step that publishes publishes an unfinished Result, and a step that
\* touches a file does so under an unfinished ledger.
LEMMA AgreementNext ==
    TypeOK /\ Unfinished /\ Saved /\ SuccessAgreement /\ [Next]_vars => SuccessAgreement'
<1> SUFFICES ASSUME TypeOK, Unfinished, Saved, SuccessAgreement, [Next]_vars, ~Finish
             PROVE  SuccessAgreement'
  BY AgreementFinish
<1>1. r \in Result /\ target \in Containers
  BY TypeFacts
<1>2. CASE UNCHANGED <<ledger, legacy>>
  BY <1>2 DEF SuccessAgreement
<1>3. CASE legacy' # legacy
  <2>1. ~ledger.success
    BY <1>3, ActingStep, Zenon DEF Unfinished
  <2>2. ledger' = ledger
    BY <1>3 DEF Next, Start, ListUnhealthy, ReadInventory, FailScan, PublishObserved, Visit,
         Intend, Restart, Record, PublishOutcome, SaveAlert, CountNotification, Send,
         PublishSent, CollectGarbage, Crash, Repair, EndOfModel, Publish, SaveLegacy, Goto,
         vars, disk
  <2>3. QED
    BY <2>1, <2>2 DEF SuccessAgreement
<1>4. CASE ledger' # ledger
  <2>1. pc # "idle"
    BY <1>4, Publications
  <2>2. ~r.success
    BY <2>1, Zenon DEF Unfinished
  <2>3. ledger' = r' /\ legacy' = legacy
    BY <1>4 DEF Next, Start, ListUnhealthy, ReadInventory, FailScan, PublishObserved, Visit,
         Intend, Restart, Record, PublishOutcome, SaveAlert, CountNotification, Send,
         PublishSent, CollectGarbage, Crash, Repair, EndOfModel, Publish, SaveLegacy, Goto,
         vars, disk
  <2>4. FailScan \/ PublishObserved \/ Intend \/ PublishOutcome \/ CountNotification \/ PublishSent
    BY <1>4 DEF Next, Start, ListUnhealthy, ReadInventory, Visit, Restart, Record, SaveAlert,
         Send, CollectGarbage, Crash, Repair, EndOfModel, SaveLegacy, Goto, vars, disk
  <2>5. r'.success = r.success
    <3>1. CASE FailScan \/ PublishObserved \/ PublishOutcome \/ PublishSent
      BY <3>1, Zenon DEF FailScan, PublishObserved, PublishOutcome, PublishSent, Publish
    <3>2. CASE Intend
      BY <1>1, <3>2, IntentionFields, Zenon DEF Intend, Publish, SameFlags
    <3>3. CASE CountNotification
      BY <1>1, <3>3, NotificationFields, Zenon DEF CountNotification, Publish, SameFlags
    <3>4. QED
      BY <2>4, <3>1, <3>2, <3>3
  <2>6. ~ledger'.success
    BY <2>2, <2>3, <2>5, Zenon
  <2>7. QED
    BY <2>6, Zenon DEF SuccessAgreement
<1>5. QED
  BY <1>2, <1>3, <1>4

\* The restart counts of a ledger that reports success are those the next scan
\* decides from: every container's State is the one in its legacy file.
THEOREM LedgerAgreesWithFiles == Spec => []SuccessAgreement
<1>1. Init => Saved /\ SuccessAgreement
  BY DEF Init, Saved, FilesSaved, FreshUnsaved, VisitedSaved, ObservedScan, Acting,
         SuccessAgreement, EmptyResult
<1>2. TypeOK /\ Saved /\ [Next]_vars => Saved'
  BY SavedScanNext, FilesNext DEF Saved
<1>3. QED
  BY <1>1, <1>2, TypeInit, TypeNext, UnfinishedInit, UnfinishedNext, AgreementNext, PTL DEF Spec
-----------------------------------------------------------------------------
(***************************************************************************)
(* The restart budget.  It is decided from a count and a time in a state   *)
(* file, and holds for the sets of restarts that really happened.          *)
(***************************************************************************)

\* The times of C in the Day that ends at t, and those less than a Day old at t.
Within(C, t) == {u \in C : t - Day < u /\ u <= t}
Recent(C, t) == {u \in C : t - u < Day}

\* The State s counts the restarts in C that are recent at t, and none is later
\* than its last.
Remembers(s, C, t) ==
    /\ \A u \in C : u <= s.last_restart
    /\ Cardinality(Recent(C, t)) <= s.restarts

\* The restarts the scan knows of: those counted in the file and, until it is
\* recorded, the one that has just succeeded.
Pending == pc = "record" /\ restarted

Known(c) == IF Pending /\ c = target THEN counted[c] \union {now} ELSE counted[c]

HistoryBounds ==
    \A c \in Containers :
        /\ Known(c) \subseteq restartTimes[c]
        /\ \A u \in restartTimes[c] : u <= now

FilesRemember == \A c \in Containers : Remembers(legacy[c], counted[c], now)

ScanRemembers ==
    pc \in ObservedScan =>
        /\ \A c \in Containers \ present : counted[c] = {}
        /\ \A c \in present : Remembers(r.containers[c].state, Known(c), now)
        /\ \A c \in Unvisited :
              plan[c].action = "restart" => r.containers[c].state.restarts < MaxRestarts
        /\ pc \in {"intend", "restart"} => r.containers[target].state.restarts < MaxRestarts

\* Any Day holds at most MaxRestarts known restarts, and a restart that nobody
\* knows of has cost a fault.
WindowsKept ==
    \A c \in Containers : \A t \in Nat : Cardinality(Within(Known(c), t)) <= MaxRestarts

LossesExplained ==
    \A c \in Containers : Cardinality(restartTimes[c] \ Known(c)) <= faults

BudgetInv ==
    HistoryBounds /\ FilesRemember /\ ScanRemembers /\ WindowsKept /\ LossesExplained
-----------------------------------------------------------------------------
\* The types of the history that the proofs below use.
LEMMA HistoryFacts ==
    ASSUME TypeOK
    PROVE  /\ restartTimes \in [Containers -> SUBSET Nat] /\ counted \in [Containers -> SUBSET Nat]
           /\ lastUrgent \in [Containers -> Nat] /\ restarted \in BOOLEAN /\ urgent \in BOOLEAN
           /\ plan \in [Containers -> Plan] /\ now \in Nat /\ faults \in Nat
           /\ \A c \in Containers : r.containers[c].state \in State /\ legacy[c] \in State
  BY DEF TypeOK, DiskOK, ScanOK, LoopOK, HistoryOK, Result, Container

\* A set of times up to n, and every part of it, is finite.
LEMMA TimesFinite ==
    ASSUME NEW C \in SUBSET Nat, NEW n \in Nat, \A u \in C : u <= n, NEW D \in SUBSET C
    PROVE  IsFiniteSet(D) /\ Cardinality(D) \in Nat
<1>1. IsFiniteSet(C)
  BY FS_BoundedSetOfNaturals
<1>2. QED
  BY <1>1, FS_Subset, FS_CardinalityType

\* Less to remember, later.
LEMMA RemembersLess ==
    ASSUME NEW s \in State, NEW C \in SUBSET Nat, NEW D \in SUBSET C, NEW t \in Nat, NEW v \in Nat,
           t <= v, \A u \in C : u <= t, Remembers(s, C, t)
    PROVE  Remembers(s, D, v)
<1>1. Recent(D, v) \in SUBSET Recent(C, t)
  <2>1. \A u \in D : u \in C /\ u \in Nat /\ (v - u < Day => t - u < Day)
    BY WatchdogAssumption
  <2>2. QED
    BY <2>1 DEF Recent
<1>2. Recent(C, t) \in SUBSET C
  BY DEF Recent
<1>3. IsFiniteSet(Recent(C, t)) /\ Cardinality(Recent(C, t)) \in Nat
  BY <1>2, TimesFinite
<1>4. Cardinality(Recent(D, v)) <= Cardinality(Recent(C, t)) /\ IsFiniteSet(Recent(D, v))
  BY <1>1, <1>3, FS_Subset
<1>5. Cardinality(Recent(D, v)) \in Nat
  BY <1>4, FS_CardinalityType
<1>6. s.restarts \in Nat
  BY DEF State
<1>7. QED
  BY <1>3, <1>4, <1>5, <1>6 DEF Remembers

\* What Decide does to a State: the counts age, a restart is within the budget,
\* and a notification is an alert now, a Cooldown after the one before.
LEMMA DecideFields ==
    ASSUME NEW s \in State, NEW u \in BOOLEAN, NEW t \in Nat
    PROVE  LET d == Decide(s, u, t)
           IN  /\ d.state.last_restart = s.last_restart
               /\ d.state.restarts = s.restarts
                    \/ (d.state.restarts = 0 /\ t - s.last_restart >= Day)
               /\ d.action = "restart" => d.state.restarts < MaxRestarts
               /\ d.notify => /\ u /\ d.state.last_alert = t
                              /\ t - s.last_alert >= Cooldown
               /\ u /\ ~d.notify => d.state.last_alert = s.last_alert
               /\ d.action # "none" => u
<1> DEFINE a == Aged(s, t)
           p == Polled(s, u, t)
           d == Decide(s, u, t)
<1>1. /\ a \in State /\ a.last_restart = s.last_restart /\ a.last_alert = s.last_alert
      /\ a.restarts = s.restarts \/ (a.restarts = 0 /\ t - s.last_restart >= Day)
  BY DEF Aged, State
<1> HIDE DEF a
<1>2. /\ p \in State /\ p.last_restart = a.last_restart /\ p.restarts = a.restarts
      /\ u => p.last_alert = a.last_alert
  <2>1. CASE u
    <3>1. p = [a EXCEPT !.consecutive = @ + 1]
      BY <2>1 DEF Polled, a
    <3>2. QED
      BY <1>1, <3>1 DEF State
  <2>2. CASE ~u
    <3>1. p = [a EXCEPT !.consecutive = 0, !.last_alert = 0]
      BY <2>2 DEF Polled, a
    <3>2. \A b \in State : LET q == [b EXCEPT !.consecutive = 0, !.last_alert = 0]
                          IN  /\ q \in State /\ q.last_restart = b.last_restart
                              /\ q.restarts = b.restarts
      BY DEF State
    <3>3. QED
      BY <1>1, <2>2, <3>1, <3>2, Zenon
  <2>3. QED
    BY <2>1, <2>2
<1> HIDE DEF p
<1>3. /\ Action(p, u) = "restart" => p.restarts < MaxRestarts
      /\ Action(p, u) # "none" => u
  BY DEF Action
<1>4. Notify(p, u, t) => u /\ t - p.last_alert >= Cooldown
  BY DEF Notify, Action
<1>5. /\ d.state = IF Notify(p, u, t) THEN [p EXCEPT !.last_alert = t] ELSE p
      /\ d.action = Action(p, u) /\ d.notify = Notify(p, u, t)
  BY Zenon DEF Decide, p
<1> HIDE DEF d
<1>6. /\ d.state.last_restart = p.last_restart /\ d.state.restarts = p.restarts
      /\ Notify(p, u, t) => d.state.last_alert = t
      /\ ~Notify(p, u, t) => d.state.last_alert = p.last_alert
  BY <1>2, <1>5 DEF State
<1>7. QED
  BY <1>1, <1>2, <1>3, <1>4, <1>5, <1>6 DEF d

\* A poll forgets no restart that is recent: it drops the count only when the
\* last restart is a Day old, and then nothing is recent.
LEMMA RemembersDecide ==
    ASSUME NEW s \in State, NEW C \in SUBSET Nat, NEW t \in Nat, NEW w \in BOOLEAN,
           Remembers(s, C, t)
    PROVE  Remembers(Decide(s, w, t).state, C, t)
<1> DEFINE d == Decide(s, w, t).state
<1>1. /\ d.last_restart = s.last_restart
      /\ d.restarts = s.restarts \/ (d.restarts = 0 /\ t - s.last_restart >= Day)
  BY DecideFields
<1> HIDE DEF d
<1>2. CASE d.restarts = s.restarts
  BY <1>1, <1>2 DEF Remembers, d
<1>3. CASE d.restarts = 0 /\ t - s.last_restart >= Day
  <2>1. s.last_restart \in Nat /\ Day \in Nat
    BY WatchdogAssumption DEF State
  <2>2. \A u \in C : u \in Nat /\ u <= s.last_restart
    BY DEF Remembers
  <2>3. \A u \in C : ~(t - u < Day)
    BY <1>3, <2>1, <2>2
  <2>4. Recent(C, t) = {}
    BY <2>3 DEF Recent
  <2>5. Cardinality(Recent(C, t)) = 0
    BY <2>4, FS_EmptySet
  <2>6. Remembers(d, C, t)
    BY <1>1, <1>3, <2>2, <2>5 DEF Remembers
  <2>7. QED
    BY <2>6 DEF d
<1>4. QED
  BY <1>1, <1>2, <1>3

\* A successful restart is one more recent restart, and the last.
LEMMA RemembersSpent ==
    ASSUME NEW s \in State, NEW C \in SUBSET Nat, now \in Nat, \A u \in C : u <= now,
           Remembers(s, C, now)
    PROVE  /\ Remembers(Spent(s), C \union {now}, now)
           /\ Spent(s).restarts = s.restarts + 1
<1>1. Spent(s).restarts = s.restarts + 1 /\ Spent(s).last_restart = now /\ s.restarts \in Nat
  BY DEF Spent, State
<1>2. Recent(C \union {now}, now) \in SUBSET (Recent(C, now) \union {now})
  BY DEF Recent
<1>3. IsFiniteSet(Recent(C, now)) /\ Cardinality(Recent(C, now)) \in Nat
  <2>1. Recent(C, now) \in SUBSET C
    BY DEF Recent
  <2>2. QED
    BY <2>1, TimesFinite
<1>4. /\ IsFiniteSet(Recent(C, now) \union {now})
      /\ Cardinality(Recent(C, now) \union {now}) \in Nat
      /\ Cardinality(Recent(C, now) \union {now}) <= Cardinality(Recent(C, now)) + 1
  <2>1. IsFiniteSet(Recent(C, now) \union {now})
    BY <1>3, FS_AddElement
  <2>2. Cardinality(Recent(C, now) \union {now}) =
            IF now \in Recent(C, now) THEN Cardinality(Recent(C, now))
            ELSE Cardinality(Recent(C, now)) + 1
    BY <1>3, FS_AddElement
  <2>3. QED
    BY <1>3, <2>1, <2>2
<1>5. /\ Cardinality(Recent(C \union {now}, now)) <= Cardinality(Recent(C, now) \union {now})
      /\ IsFiniteSet(Recent(C \union {now}, now))
  BY <1>2, <1>4, FS_Subset
<1>6. Cardinality(Recent(C \union {now}, now)) \in Nat
  BY <1>5, FS_CardinalityType
<1>7. Cardinality(Recent(C, now)) <= s.restarts
  BY DEF Remembers
<1>8. QED
  BY <1>1, <1>3, <1>4, <1>5, <1>6, <1>7 DEF Remembers

\* A smaller set fits every window, and loses no more.
LEMMA WindowLess ==
    ASSUME NEW C \in SUBSET Nat, NEW n \in Nat, \A u \in C : u <= n, NEW D \in SUBSET C, NEW t \in Nat,
           Cardinality(Within(C, t)) <= MaxRestarts
    PROVE  Cardinality(Within(D, t)) <= MaxRestarts
<1>1. Within(D, t) \in SUBSET Within(C, t) /\ Within(C, t) \in SUBSET C
  BY DEF Within
<1>2. IsFiniteSet(Within(C, t)) /\ Cardinality(Within(C, t)) \in Nat
  BY <1>1, TimesFinite
<1>3. Cardinality(Within(D, t)) <= Cardinality(Within(C, t)) /\ IsFiniteSet(Within(D, t))
  BY <1>1, <1>2, FS_Subset
<1>4. Cardinality(Within(D, t)) \in Nat
  BY <1>3, FS_CardinalityType
<1>5. QED
  BY <1>2, <1>3, <1>4, WatchdogAssumption

\* A restart now is in no window that ended before, and those that it is in hold
\* only what the State remembers.
LEMMA WindowSpent ==
    ASSUME NEW C \in SUBSET Nat, now \in Nat, \A u \in C : u <= now,
           NEW s, s.restarts \in Nat, s.restarts <= MaxRestarts, Remembers(s, C \union {now}, now),
           \A t \in Nat : Cardinality(Within(C, t)) <= MaxRestarts
    PROVE  \A t \in Nat : Cardinality(Within(C \union {now}, t)) <= MaxRestarts
<1> TAKE t \in Nat
<1> DEFINE E == C \union {now}
<1>1. CASE t < now
  <2>1. Within(E, t) = Within(C, t)
    BY <1>1 DEF Within
  <2>2. QED
    BY <2>1
<1>2. CASE t >= now
  <2>1. Within(E, t) \in SUBSET Recent(E, now)
    <3>1. \A u \in E : u \in Nat /\ (t - Day < u => now - u < Day)
      BY <1>2, WatchdogAssumption
    <3>2. QED
      BY <3>1 DEF Within, Recent
  <2>2. E \in SUBSET Nat /\ (\A u \in E : u <= now) /\ Recent(E, now) \in SUBSET E
    BY DEF Recent
  <2> HIDE DEF E
  <2>3. IsFiniteSet(Recent(E, now)) /\ Cardinality(Recent(E, now)) \in Nat
    BY <2>2, TimesFinite
  <2>4. IsFiniteSet(Within(E, t)) /\ Cardinality(Within(E, t)) <= Cardinality(Recent(E, now))
    BY <2>1, <2>3, FS_Subset
  <2>5. Cardinality(Within(E, t)) \in Nat
    BY <2>4, FS_CardinalityType
  <2>6. Cardinality(Recent(E, now)) <= s.restarts
    BY DEF Remembers, E
  <2>7. Cardinality(Within(E, t)) <= MaxRestarts
    BY <2>3, <2>4, <2>5, <2>6, WatchdogAssumption
  <2>8. QED
    BY <2>7 DEF E
<1>3. QED
  BY <1>1, <1>2

\* The steps that move the clock, the history or what is known of it.
LEMMA KnownKept ==
    ASSUME [Next]_vars, ~Start, ~ReadInventory, ~Restart, ~Record, ~(Crash /\ pc = "record")
    PROVE  /\ UNCHANGED <<now, counted, restartTimes>>
           /\ \A c : Known(c)' = Known(c)
           /\ faults' = faults \/ Fault
<1>1. CASE UNCHANGED vars
  BY <1>1 DEF vars, scan, loop, history, Known, Pending
<1>2. CASE ~UNCHANGED vars
  <2>1. UNCHANGED <<now, counted, restartTimes>>
    BY <1>2 DEF Next, ListUnhealthy, FailScan, PublishObserved, Visit, Intend, PublishOutcome,
           SaveAlert, CountNotification, Send, PublishSent, CollectGarbage, Finish, Crash, Repair,
           EndOfModel, scan, history
  <2>2. pc # "record" /\ pc' # "record"
    BY <1>2 DEF Next, ListUnhealthy, FailScan, PublishObserved, Visit, Intend, PublishOutcome,
           SaveAlert, CountNotification, Send, PublishSent, CollectGarbage, Finish, Crash, Repair,
           EndOfModel, Publish, SaveLegacy, Goto, AfterSave
  <2>3. faults' = faults \/ Fault
    BY <1>2 DEF Next, ListUnhealthy, FailScan, PublishObserved, Visit, Intend, PublishOutcome,
           SaveAlert, CountNotification, Send, PublishSent, CollectGarbage, Finish, Crash, Repair,
           EndOfModel, Publish, SaveLegacy, Goto
  <2>4. QED
    BY <2>1, <2>2, <2>3 DEF Known, Pending
<1>3. QED
  BY <1>1, <1>2

-----------------------------------------------------------------------------
\* A step keeps the bounds on the history of restarts.
LEMMA HistoryKept ==
    ASSUME TypeOK, HistoryBounds, [Next]_vars
    PROVE  HistoryBounds'
<1>1. /\ restartTimes \in [Containers -> SUBSET Nat] /\ counted \in [Containers -> SUBSET Nat]
      /\ now \in Nat /\ target \in Containers
  BY HistoryFacts, TypeFacts
<1>2. CASE Start
  <2>1. /\ now' \in Nat /\ now <= now' /\ UNCHANGED <<counted, restartTimes>>
        /\ ~Pending /\ ~Pending'
    BY <1>1, <1>2, WatchdogAssumption DEF Start, Goto, history, Pending
  <2>2. QED
    BY <1>1, <2>1 DEF HistoryBounds, Known
<1>3. CASE ReadInventory
  <2>1. now' = now /\ ~Pending /\ ~Pending'
    BY <1>3 DEF ReadInventory, Goto, Pending
  <2>2. \A c \in Containers : \/ counted'[c] = counted[c] /\ restartTimes'[c] = restartTimes[c]
                              \/ counted'[c] = {} /\ restartTimes'[c] = {}
    BY <1>1, <1>3 DEF ReadInventory
  <2>3. QED
    BY <1>1, <2>1, <2>2 DEF HistoryBounds, Known
<1>4. CASE Restart
  <2>1. UNCHANGED <<now, counted, target>> /\ ~Pending
    BY <1>4 DEF Restart, scan, Pending
  <2>2. restartTimes' = IF restarted' THEN [restartTimes EXCEPT ![target] = @ \union {now}]
                                      ELSE restartTimes
    BY <1>4 DEF Restart
  <2>3. QED
    BY <1>1, <2>1, <2>2 DEF HistoryBounds, Known, Pending
<1>5. CASE Record \/ (Crash /\ pc = "record")
  <2>1. UNCHANGED <<now, restartTimes>> /\ pc = "record" /\ pc' # "record" /\ ~Pending'
    BY <1>5 DEF Record, Crash, SaveLegacy, scan, history, Pending
  <2>2. \A c \in Containers : counted'[c] \subseteq Known(c)
    BY <1>1, <1>5 DEF Record, Crash, history, Known, Pending
  <2>3. QED
    BY <2>1, <2>2 DEF HistoryBounds, Known
<1>6. QED
  BY <1>2, <1>3, <1>4, <1>5, KnownKept DEF HistoryBounds

\* The restart in the memory of the scan fits the budget.
LEMMA WindowsRestart ==
    ASSUME TypeOK, HistoryBounds, ScanRemembers, VisitedSaved, WindowsKept, Restart
    PROVE  WindowsKept'
<1>1. /\ counted \in [Containers -> SUBSET Nat] /\ now \in Nat /\ target \in Containers
      /\ r \in Result /\ r.containers[target].state \in State
  BY HistoryFacts, TypeFacts
<1>2. /\ UNCHANGED <<now, counted, target>> /\ pc = "restart" /\ pc' = "record"
      /\ ~Pending /\ (Pending' <=> restarted')
  BY DEF Restart, scan, Pending, Goto
<1>3. target \in present /\ pc \in ObservedScan
  BY <1>2 DEF VisitedSaved, ObservedScan, Acting
<1> DEFINE s == r.containers[target].state
           C == counted[target]
<1>4. /\ Remembers(s, C, now) /\ s.restarts < MaxRestarts
  BY <1>2, <1>3 DEF ScanRemembers, Known
<1>5. C \in SUBSET Nat /\ \A u \in C : u <= now
  BY <1>1, <1>2 DEF HistoryBounds, Known
<1>6. \A t \in Nat : Cardinality(Within(C, t)) <= MaxRestarts
  BY <1>1, <1>2 DEF WindowsKept, Known
<1>7. \A t \in Nat : Cardinality(Within(C \union {now}, t)) <= MaxRestarts
  <2>1. Remembers(Spent(s), C \union {now}, now) /\ Spent(s).restarts = s.restarts + 1
    BY <1>1, <1>4, <1>5, RemembersSpent
  <2>2. s.restarts \in Nat
    BY <1>1 DEF State
  <2>3. Spent(s).restarts \in Nat /\ Spent(s).restarts <= MaxRestarts
    BY <1>4, <2>1, <2>2, WatchdogAssumption
  <2> HIDE DEF s, C
  <2>4. QED
    BY <1>1, <1>5, <1>6, <2>1, <2>3, WindowSpent
<1>8. \A c \in Containers : \/ Known(c)' = Known(c)
                            \/ c = target /\ Known(c)' = C \union {now}
  BY <1>2 DEF Known
<1> HIDE DEF C
<1>9. QED
  BY <1>7, <1>8 DEF WindowsKept

\* A step keeps the windows within the budget.
LEMMA WindowsNext ==
    ASSUME TypeOK, HistoryBounds, ScanRemembers, VisitedSaved, WindowsKept, [Next]_vars
    PROVE  WindowsKept'
<1>1. CASE Restart
  BY <1>1, WindowsRestart
<1>2. CASE ~Restart
  <2>1. \A c \in Containers : Known(c)' \in SUBSET Known(c)
    <3>1. counted \in [Containers -> SUBSET Nat]
      BY HistoryFacts
    <3>2. CASE Start
      BY <3>2 DEF Start, Goto, history, Known, Pending
    <3>3. CASE ReadInventory
      <4>1. ~Pending /\ ~Pending'
        BY <3>3 DEF ReadInventory, Goto, Pending
      <4>2. \A c \in Containers : counted'[c] = counted[c] \/ counted'[c] = {}
        BY <3>1, <3>3 DEF ReadInventory
      <4>3. QED
        BY <4>1, <4>2 DEF Known
    <3>4. CASE Record \/ (Crash /\ pc = "record")
      <4>1. ~Pending' /\ target \in Containers
        BY <3>4, TypeFacts DEF Record, Crash, SaveLegacy, Pending
      <4>2. \A c \in Containers : counted'[c] \subseteq Known(c)
        BY <3>1, <3>4, <4>1 DEF Record, Crash, history, Known, Pending
      <4>3. QED
        BY <4>1, <4>2 DEF Known
    <3>5. QED
      BY <1>2, <3>2, <3>3, <3>4, KnownKept
  <2>2. ASSUME NEW c \in Containers, NEW t \in Nat
        PROVE  Cardinality(Within(Known(c)', t)) <= MaxRestarts
    <3>1. Known(c) \in SUBSET Nat /\ now \in Nat /\ \A u \in Known(c) : u <= now
      BY <2>2, HistoryFacts DEF HistoryBounds
    <3>2. Cardinality(Within(Known(c), t)) <= MaxRestarts /\ Known(c)' \in SUBSET Known(c)
      BY <2>1, <2>2 DEF WindowsKept
    <3>3. QED
      BY <2>2, <3>1, <3>2, WindowLess
  <2>3. QED
    BY <2>2 DEF WindowsKept
<1>3. QED
  BY <1>1, <1>2

\* A step loses at most one restart, and then counts a fault.
LEMMA LossesNext ==
    ASSUME TypeOK, HistoryBounds, LossesExplained, [Next]_vars
    PROVE  LossesExplained'
<1> DEFINE Loss(c) == restartTimes[c] \ Known(c)
<1>1. /\ restartTimes \in [Containers -> SUBSET Nat] /\ counted \in [Containers -> SUBSET Nat]
      /\ now \in Nat /\ faults \in Nat /\ target \in Containers
  BY HistoryFacts, TypeFacts
<1>2. ASSUME NEW c \in Containers
      PROVE  IsFiniteSet(Loss(c)) /\ Cardinality(Loss(c)) \in Nat /\ Cardinality(Loss(c)) <= faults
  <2>1. Loss(c) \in SUBSET restartTimes[c]
    OBVIOUS
  <2>2. restartTimes[c] \in SUBSET Nat /\ \A u \in restartTimes[c] : u <= now
    BY <1>1, <1>2 DEF HistoryBounds
  <2>3. QED
    BY <1>1, <1>2, <2>1, <2>2, TimesFinite DEF LossesExplained
<1>3. CASE faults' \in {faults, faults + 1} /\ \A c \in Containers : Loss(c)' \in SUBSET Loss(c)
  <2>1. ASSUME NEW c \in Containers PROVE Cardinality(Loss(c)') <= faults'
    <3>1. /\ IsFiniteSet(Loss(c)) /\ Cardinality(Loss(c)) \in Nat /\ Cardinality(Loss(c)) <= faults
      BY <1>2, <2>1
    <3>2. Loss(c)' \in SUBSET Loss(c)
      BY <1>3, <2>1
    <3> HIDE DEF Loss
    <3>3. IsFiniteSet(Loss(c)') /\ Cardinality(Loss(c)') <= Cardinality(Loss(c))
      BY <3>1, <3>2, FS_Subset
    <3>4. Cardinality(Loss(c)') \in Nat
      BY <3>3, FS_CardinalityType
    <3>5. QED
      BY <1>1, <1>3, <3>1, <3>3, <3>4
  <2>2. QED
    BY <2>1 DEF LossesExplained
<1>4. CASE faults' = faults + 1 /\ \A c \in Containers : Loss(c)' \in SUBSET (Loss(c) \union {now})
  <2>1. ASSUME NEW c \in Containers PROVE Cardinality(Loss(c)') <= faults'
    <3>1. /\ IsFiniteSet(Loss(c)) /\ Cardinality(Loss(c)) \in Nat /\ Cardinality(Loss(c)) <= faults
      BY <1>2, <2>1
    <3>2. Loss(c)' \in SUBSET (Loss(c) \union {now})
      BY <1>4, <2>1
    <3> HIDE DEF Loss
    <3>3. IsFiniteSet(Loss(c) \union {now})
      BY <3>1, FS_AddElement
    <3>4. Cardinality(Loss(c) \union {now}) =
              IF now \in Loss(c) THEN Cardinality(Loss(c)) ELSE Cardinality(Loss(c)) + 1
      BY <3>1, FS_AddElement
    <3>5. IsFiniteSet(Loss(c)') /\ Cardinality(Loss(c)') <= Cardinality(Loss(c) \union {now})
      BY <3>2, <3>3, FS_Subset
    <3>6. Cardinality(Loss(c)') \in Nat
      BY <3>5, FS_CardinalityType
    <3>7. QED
      BY <1>1, <1>4, <3>1, <3>4, <3>5, <3>6
  <2>2. QED
    BY <2>1 DEF LossesExplained
<1>5. CASE Start
  BY <1>3, <1>5 DEF Start, Goto, history, Known, Pending
<1>6. CASE ReadInventory
  <2>1. ~Pending /\ ~Pending' /\ faults' = faults
    BY <1>6 DEF ReadInventory, Goto, Pending
  <2>2. \A c \in Containers : \/ counted'[c] = counted[c] /\ restartTimes'[c] = restartTimes[c]
                              \/ counted'[c] = {} /\ restartTimes'[c] = {}
    BY <1>1, <1>6 DEF ReadInventory
  <2>3. QED
    BY <1>3, <2>1, <2>2 DEF Known
<1>7. CASE Restart
  <2>1. UNCHANGED <<now, counted, target, faults>> /\ ~Pending /\ pc' = "record"
    BY <1>7 DEF Restart, scan, Pending, Goto
  <2>2. restartTimes' = IF restarted' THEN [restartTimes EXCEPT ![target] = @ \union {now}]
                                      ELSE restartTimes
    BY <1>7 DEF Restart
  <2>3. \A c \in Containers : Loss(c)' \in SUBSET Loss(c)
    BY <1>1, <2>1, <2>2 DEF Known, Pending
  <2>4. QED
    BY <1>3, <2>1, <2>3
<1>8. CASE Record /\ pc' = "outcome"
  <2>1. UNCHANGED <<now, restartTimes, target, restarted, faults>> /\ pc = "record"
    BY <1>8 DEF Record, SaveLegacy, scan, loop
  <2>2. counted' = IF restarted THEN [counted EXCEPT ![target] = @ \union {now}] ELSE counted
    BY <1>8 DEF Record
  <2>3. \A c \in Containers : Loss(c)' \in SUBSET Loss(c)
    BY <1>1, <1>8, <2>1, <2>2 DEF Known, Pending
  <2>4. QED
    BY <1>3, <2>1, <2>3
<1>9. CASE (Record /\ pc' # "outcome") \/ (Crash /\ pc = "record")
  <2>1. /\ UNCHANGED <<counted, restartTimes>> /\ ~Pending' /\ faults' = faults + 1
    BY <1>9 DEF Record, Crash, SaveLegacy, Fault, history, Pending
  <2>2. \A c \in Containers : Loss(c)' \in SUBSET (Loss(c) \union {now})
    BY <2>1 DEF Known
  <2>3. QED
    BY <1>4, <2>1, <2>2
<1>10. CASE ~(Start \/ ReadInventory \/ Restart \/ Record \/ (Crash /\ pc = "record"))
  <2>1. /\ UNCHANGED restartTimes /\ \A c : Known(c)' = Known(c)
        /\ faults' \in {faults, faults + 1}
    BY <1>10, KnownKept DEF Fault
  <2>2. QED
    BY <1>3, <2>1
<1>11. QED
  BY <1>5, <1>6, <1>7, <1>8, <1>9, <1>10

-----------------------------------------------------------------------------
\* Restarting and alerting the target change only its own State.
LEMMA OutcomeState ==
    ASSUME r \in Result, target \in Containers
    PROVE  /\ Outcome(TRUE).containers[target].state = Spent(r.containers[target].state)
           /\ [r EXCEPT !.containers[target] = AfterAlert(@)].containers[target].state
                = Alerted(r.containers[target].state)
<1>1. r.containers \in [Containers -> Container] /\ r.containers[target] \in Container
  BY DEF Result
<1>2. \A c \in Container : AfterRestart(c).state = Spent(c.state)
                           /\ AfterAlert(c).state = Alerted(c.state)
  BY DEF AfterRestart, AfterAlert, Container
<1>3. Outcome(TRUE).containers = [r.containers EXCEPT ![target] = AfterRestart(r.containers[target])]
  <2>1. Outcome(TRUE) = [r EXCEPT !.restarts = r.restarts + 1,
            !.containers = [r.containers EXCEPT ![target] = AfterRestart(r.containers[target])]]
    BY DEF Outcome, Result
  <2>2. QED
    BY <2>1 DEF Result
<1>4. [r EXCEPT !.containers[target] = AfterAlert(@)].containers
        = [r.containers EXCEPT ![target] = AfterAlert(r.containers[target])]
  BY DEF Result
<1>5. QED
  BY <1>1, <1>2, <1>3, <1>4

\* An alert leaves the count and the time of the restarts alone.
LEMMA AlertedFields ==
    ASSUME NEW s \in State
    PROVE  /\ Alerted(s).restarts = s.restarts /\ Alerted(s).last_restart = s.last_restart
           /\ Alerted(s).last_alert = now
  BY DEF Alerted, State

\* Every state file remembers the restarts it has counted.
LEMMA FilesRememberNext ==
    ASSUME TypeOK, Saved, HistoryBounds, FilesRemember, ScanRemembers, [Next]_vars
    PROVE  FilesRemember'
<1>1. /\ restartTimes \in [Containers -> SUBSET Nat] /\ counted \in [Containers -> SUBSET Nat]
      /\ now \in Nat /\ target \in Containers /\ r \in Result
      /\ legacy \in [Containers -> State] /\ todo \subseteq Containers /\ present \subseteq Containers
      /\ \A c \in Containers : r.containers[c].state \in State
  BY HistoryFacts, TypeFacts
<1>2. \A c \in Containers : \A u \in counted[c] : u <= now
  BY DEF HistoryBounds, Known
<1>3. ASSUME now' \in Nat, now <= now', legacy' = legacy,
             \A c \in Containers : counted'[c] \in SUBSET counted[c]
      PROVE  FilesRemember'
  <2>1. ASSUME NEW c \in Containers PROVE Remembers(legacy'[c], counted'[c], now')
    <3>1. legacy[c] \in State /\ counted[c] \in SUBSET Nat /\ counted'[c] \in SUBSET counted[c]
      BY <1>1, <1>3, <2>1
    <3>2. Remembers(legacy[c], counted[c], now)
      BY <2>1 DEF FilesRemember
    <3>3. Remembers(legacy[c], counted'[c], now')
      BY <1>1, <1>2, <1>3, <2>1, <3>1, <3>2, RemembersLess
    <3>4. QED
      BY <1>3, <3>3
  <2>2. QED
    BY <2>1 DEF FilesRemember
<1>4. CASE Start
  <2>1. now' \in Nat /\ now <= now' /\ UNCHANGED <<legacy, counted>>
    BY <1>1, <1>4, WatchdogAssumption DEF Start, Goto, disk, history
  <2>2. QED
    BY <1>3, <2>1
<1>5. CASE ReadInventory
  <2>1. now' = now /\ legacy' = legacy
    BY <1>5 DEF ReadInventory, Goto, disk
  <2>2. \A c \in Containers : counted'[c] \in SUBSET counted[c]
    BY <1>1, <1>5 DEF ReadInventory
  <2>3. QED
    BY <1>1, <1>3, <2>1, <2>2
<1>6. CASE UNCHANGED <<now, counted, legacy>>
  BY <1>6 DEF FilesRemember
<1>7. ASSUME NEW c \in Containers, Visit(c) PROVE FilesRemember'
  <2>1. /\ pc = "loop" /\ c \in todo /\ UNCHANGED <<now, counted>>
        /\ legacy' = legacy \/ legacy' = [legacy EXCEPT ![c] = r.containers[c].state]
    BY <1>7 DEF Visit, SaveLegacy, Goto, disk, scan, history
  <2>2. c \in present /\ pc \in ObservedScan /\ ~Pending
    BY <2>1 DEF Saved, VisitedSaved, ObservedScan, Acting, Pending
  <2>3. Remembers(r.containers[c].state, counted[c], now)
    BY <2>2 DEF ScanRemembers, Known
  <2>4. QED
    BY <1>1, <2>1, <2>3 DEF FilesRemember
<1>8. CASE Record
  <2>1. /\ pc = "record" /\ now' = now
        /\ \/ legacy' = legacy /\ pc' = "failing"
           \/ legacy' = [legacy EXCEPT ![target] = r.containers[target].state] /\ pc' = "outcome"
        /\ counted' = IF restarted /\ pc' = "outcome"
                      THEN [counted EXCEPT ![target] = @ \union {now}] ELSE counted
    BY <1>8 DEF Record, SaveLegacy, scan
  <2>2. CASE pc' = "failing"
    BY <1>6, <2>1, <2>2
  <2>3. CASE pc' = "outcome"
    <3>1. target \in present /\ pc \in ObservedScan
      BY <2>1 DEF Saved, VisitedSaved, ObservedScan, Acting
    <3>2. Remembers(r.containers[target].state, Known(target), now)
      BY <3>1 DEF ScanRemembers
    <3>3. counted'[target] = Known(target) /\ \A c \in Containers \ {target} : counted'[c] = counted[c]
      BY <1>1, <2>1, <2>3 DEF Known, Pending
    <3>4. legacy'[target] = r.containers[target].state
          /\ \A c \in Containers \ {target} : legacy'[c] = legacy[c]
      BY <1>1, <2>1, <2>3
    <3>5. QED
      BY <2>1, <3>2, <3>3, <3>4 DEF FilesRemember
  <2>4. QED
    BY <2>1, <2>2, <2>3
<1>9. CASE SaveAlert
  <2>1. /\ pc = "alert" /\ UNCHANGED <<now, counted>>
        /\ r' = [r EXCEPT !.containers[target] = AfterAlert(@)]
        /\ legacy' = legacy \/ legacy' = [legacy EXCEPT ![target] = r'.containers[target].state]
    BY <1>9 DEF SaveAlert, SaveLegacy, scan, history
  <2>2. target \in present /\ pc \in ObservedScan /\ ~Pending
    BY <2>1 DEF Saved, VisitedSaved, ObservedScan, Acting, Pending
  <2>3. Remembers(r.containers[target].state, counted[target], now)
    BY <2>2 DEF ScanRemembers, Known
  <2>4. r'.containers[target].state = Alerted(r.containers[target].state)
    BY <1>1, <2>1, OutcomeState
  <2>5. Remembers(r'.containers[target].state, counted[target], now)
    BY <1>1, <2>3, <2>4, AlertedFields DEF Remembers
  <2>6. QED
    BY <1>1, <2>1, <2>5 DEF FilesRemember
<1>10. CASE CollectGarbage
  <2>1. pc = "loop" /\ UNCHANGED <<now, counted>>
    BY <1>10 DEF CollectGarbage, scan, history
  <2>2. \A c \in Containers : legacy'[c] = legacy[c] \/ (c \notin present /\ legacy'[c] = ZeroState)
    BY <1>1, <1>10 DEF CollectGarbage, Orphans
  <2>3. \A c \in Containers \ present : counted[c] = {}
    BY <2>1 DEF ScanRemembers, ObservedScan, Acting
  <2>4. Recent({}, now) = {} /\ Cardinality({}) = 0 /\ ZeroState.restarts = 0
    BY FS_EmptySet DEF Recent, ZeroState
  <2>5. Remembers(ZeroState, {}, now)
    BY <2>4 DEF Remembers
  <2>6. QED
    BY <2>1, <2>2, <2>3, <2>5 DEF FilesRemember
<1>11. CASE ~(\/ Start \/ ReadInventory \/ Record \/ SaveAlert \/ CollectGarbage
              \/ \E c \in Containers : Visit(c))
  <2>1. UNCHANGED <<now, counted, legacy>>
    BY <1>11 DEF Next, ListUnhealthy, FailScan, PublishObserved, Intend, Restart,
         PublishOutcome, CountNotification, Send, PublishSent, Finish, Crash, Repair, EndOfModel,
         Publish, Goto, vars, disk, scan, history
  <2>2. QED
    BY <1>6, <2>1
<1>12. QED
  BY <1>4, <1>5, <1>7, <1>8, <1>9, <1>10, <1>11

\* A valid observation: memory remembers what the files do, and plans a restart
\* only within the budget.
LEMMA ScanRemembersReadInventory ==
    ASSUME TypeOK, HistoryBounds, FilesRemember, ReadInventory, pc' = "observed"
    PROVE  ScanRemembers'
<1>1. /\ counted \in [Containers -> SUBSET Nat] /\ now \in Nat /\ r \in Result
      /\ legacy \in [Containers -> State]
  BY HistoryFacts, TypeFacts
<1>2. PICK obs \in [Containers -> Observation] :
        /\ present' = {c \in Containers : obs[c] # "absent"}
        /\ plan' = [c \in Containers |->
                        LET d == Decide(legacy[c], c \in listed, now)
                        IN  [action |-> d.action, notify |-> d.notify]]
        /\ r' = [r EXCEPT !.docker_read_ok = TRUE, !.containers = Observed(obs)]
        /\ counted' = [c \in Containers |-> IF c \in present' THEN counted[c] ELSE {}]
  BY DEF ReadInventory, Goto
<1>3. now' = now /\ ~Pending' /\ Unvisited' = present'
  BY DEF ReadInventory, Pending, Unvisited
<1>4. r'.containers = Observed(obs)
  BY <1>1, <1>2, ObservedFields, Zenon
<1>5. ASSUME NEW c \in present'
      PROVE  /\ Remembers(r'.containers[c].state, Known(c)', now')
             /\ plan'[c].action = "restart" => r'.containers[c].state.restarts < MaxRestarts
  <2> DEFINE u == c \in listed
             d == Decide(legacy[c], u, now)
  <2>1. c \in Containers /\ obs[c] # "absent" /\ legacy[c] \in State /\ u \in BOOLEAN
    BY <1>1, <1>2, <1>5
  <2>2. Known(c)' = counted[c]
    BY <1>2, <1>3, <1>5, <2>1 DEF Known
  <2>3. r'.containers[c].state = d.state
    BY <1>4, <2>1 DEF Observed
  <2>4. plan'[c].action = d.action
    BY <1>2, <2>1
  <2> HIDE DEF u
  <2>5. Remembers(legacy[c], counted[c], now) /\ counted[c] \in SUBSET Nat
    BY <1>1, <2>1 DEF FilesRemember
  <2>6. Remembers(d.state, counted[c], now)
    BY <1>1, <2>1, <2>5, RemembersDecide
  <2>7. d.action = "restart" => d.state.restarts < MaxRestarts
    BY <1>1, <2>1, DecideFields
  <2>8. QED
    BY <1>3, <2>2, <2>3, <2>4, <2>6, <2>7
<1>6. \A c \in Containers \ present' : counted'[c] = {}
  BY <1>2
<1>7. QED
  BY <1>3, <1>5, <1>6 DEF ScanRemembers

\* Every step of the scan keeps in memory what the budget needs.
LEMMA ScanRemembersNext ==
    ASSUME TypeOK, Saved, HistoryBounds, FilesRemember, ScanRemembers, [Next]_vars
    PROVE  ScanRemembers'
<1>1. /\ counted \in [Containers -> SUBSET Nat] /\ now \in Nat /\ target \in Containers
      /\ r \in Result /\ todo \subseteq Containers /\ present \subseteq Containers
      /\ \A c \in Containers : r.containers[c].state \in State
  BY HistoryFacts, TypeFacts
<1>2. CASE pc' \notin ObservedScan
  BY <1>2 DEF ScanRemembers
<1>3. CASE ReadInventory
  BY <1>2, <1>3, ScanRemembersReadInventory DEF ReadInventory, Goto, ObservedScan, Acting
<1>4. CASE UNCHANGED vars
  BY <1>4 DEF vars, disk, scan, loop, history, ScanRemembers, Known, Pending, Unvisited
<1>5. ASSUME pc \in ObservedScan, pc' \in ObservedScan, pc' # "observed", pc # "record", pc' # "record",
             UNCHANGED <<now, counted, present, plan>>, SameStates(r', r), todo' \in SUBSET Unvisited,
             pc' \in {"intend", "restart"} =>
                r.containers[target'].state.restarts < MaxRestarts /\ target' \in Containers
      PROVE  ScanRemembers'
  <2>1. /\ \A c \in Containers \ present : counted[c] = {}
        /\ \A c \in present : Remembers(r.containers[c].state, Known(c), now)
        /\ \A c \in Unvisited :
              plan[c].action = "restart" => r.containers[c].state.restarts < MaxRestarts
    BY <1>5 DEF ScanRemembers
  <2>2. (\A c : Known(c)' = Known(c)) /\ Unvisited' = todo' /\ Unvisited \subseteq Containers
    BY <1>1, <1>5 DEF Known, Pending, Unvisited
  <2>3. \A c \in Containers : r'.containers[c].state = r.containers[c].state
    BY <1>5 DEF SameStates
  <2>4. QED
    BY <1>1, <1>5, <2>1, <2>2, <2>3 DEF ScanRemembers
<1>6. SameStates(r, r)
  BY DEF SameStates
<1>7. CASE PublishObserved
  <2>1. /\ pc = "observed" /\ r' = r /\ UNCHANGED <<now, counted, present, plan>>
        /\ todo' = Unvisited /\ pc' \in {"loop", "idle"}
    BY <1>7 DEF PublishObserved, Publish, scan, history, Unvisited
  <2>2. QED
    BY <1>2, <1>5, <1>6, <2>1 DEF ObservedScan, Acting
<1>8. ASSUME NEW c \in Containers, Visit(c) PROVE ScanRemembers'
  <2>1. /\ pc = "loop" /\ r' = r /\ UNCHANGED <<now, counted, present, plan>>
        /\ todo' = todo \ {c} /\ target' = c /\ c \in todo
        /\ pc' = AfterSave(c) \/ pc' = "failing"
    BY <1>8 DEF Visit, SaveLegacy, Goto, scan, history
  <2>2. CASE pc' = "failing"
    BY <1>2, <2>2 DEF ObservedScan, Acting
  <2>3. CASE pc' = AfterSave(c)
    <3>1. pc' \in {"intend", "notify", "loop"} /\ (pc' = "intend" => plan[c].action = "restart")
      BY <2>3 DEF AfterSave
    <3>2. pc' = "intend" => r.containers[c].state.restarts < MaxRestarts
      BY <2>1, <3>1 DEF ScanRemembers, ObservedScan, Acting, Unvisited
    <3>3. pc \in ObservedScan /\ pc' \in ObservedScan /\ todo' \in SUBSET Unvisited
      BY <2>1, <3>1 DEF ObservedScan, Acting, Unvisited
    <3>4. QED
      BY <1>5, <1>6, <2>1, <3>1, <3>2, <3>3
  <2>4. QED
    BY <2>1, <2>2, <2>3
<1>9. CASE Intend
  <2>1. /\ pc = "intend" /\ r' = Intention /\ UNCHANGED <<now, counted, present, plan, todo, target>>
        /\ pc' \in {"restart", "idle"}
    BY <1>9 DEF Intend, Publish, scan, history
  <2>2. SameStates(r', r)
    BY <1>1, <2>1, IntentionFields, Zenon DEF SameStates
  <2>3. r.containers[target].state.restarts < MaxRestarts
    BY <2>1 DEF ScanRemembers, ObservedScan, Acting
  <2>4. QED
    BY <1>1, <1>2, <1>5, <2>1, <2>2, <2>3 DEF ObservedScan, Acting, Unvisited
<1>10. CASE PublishOutcome \/ CountNotification \/ Send \/ PublishSent \/ CollectGarbage
  <2>1. /\ pc \in {"outcome", "notify", "send", "sent", "loop"}
        /\ UNCHANGED <<now, counted, present, plan, todo, target>>
        /\ pc' \in {"notify", "alert", "loop", "send", "sent", "idle", "failing"}
    BY <1>10 DEF PublishOutcome, CountNotification, Send, PublishSent, CollectGarbage, Publish,
                 Goto, scan, loop, history
  <2>2. r'.containers = r.containers
    <3>1. CASE PublishOutcome \/ PublishSent \/ CollectGarbage
      <4>1. r' = r
        BY <3>1, Zenon DEF PublishOutcome, PublishSent, CollectGarbage, Publish, loop
      <4>2. QED
        BY <4>1
    <3>2. CASE CountNotification
      BY <1>1, <3>2, NotificationFields, Zenon DEF CountNotification, Publish
    <3>3. CASE Send
      <4>1. PICK n \in {0, 1} : r' = [r EXCEPT !.notification_failures = @ + n]
        BY <3>3, Zenon DEF Send
      <4>2. QED
        BY <1>1, <4>1, NotificationFailureFields, Zenon
    <3>4. QED
      BY <1>10, <3>1, <3>2, <3>3
  <2>3. SameStates(r', r)
    BY <2>2 DEF SameStates
  <2>4. QED
    BY <1>2, <1>5, <2>1, <2>3 DEF ObservedScan, Acting, Unvisited
<1>11. ASSUME pc \in Acting \ {"loop"}, pc' \in Acting \ {"intend", "restart"},
              UNCHANGED <<now, present, plan, todo, target>>,
              Remembers(r'.containers[target].state, Known(target)', now),
              \A c \in Containers \ {target} : /\ r'.containers[c].state = r.containers[c].state
                                               /\ counted'[c] = counted[c]
       PROVE  ScanRemembers'
  <2>1. /\ \A c \in Containers \ present : counted[c] = {}
        /\ \A c \in present : Remembers(r.containers[c].state, Known(c), now)
        /\ \A c \in todo :
              plan[c].action = "restart" => r.containers[c].state.restarts < MaxRestarts
    BY <1>11 DEF ScanRemembers, ObservedScan, Unvisited, Acting
  <2>2. target \in present \ todo
    BY <1>11 DEF Saved, VisitedSaved
  <2>3. \A c \in Containers \ {target} : Known(c)' = Known(c)
    BY <1>11 DEF Known
  <2>4. Unvisited' = todo /\ pc' \notin {"intend", "restart"}
    BY <1>11 DEF Unvisited, Acting
  <2>5. QED
    BY <1>1, <1>11, <2>1, <2>2, <2>3, <2>4 DEF ScanRemembers
<1>12. CASE Restart
  <2>1. /\ pc = "restart" /\ pc' = "record"
        /\ UNCHANGED <<now, counted, present, plan, todo, target>>
    BY <1>12 DEF Restart, Goto, scan
  <2>2. /\ target \in present /\ ~Pending /\ Known(target) = counted[target]
        /\ counted[target] \in SUBSET Nat /\ \A u \in counted[target] : u <= now
    BY <1>1, <2>1 DEF Saved, VisitedSaved, Acting, Pending, Known, HistoryBounds
  <2>3. Remembers(r.containers[target].state, counted[target], now)
    BY <2>1, <2>2 DEF ScanRemembers, ObservedScan, Acting
  <2>4. \/ restarted' = TRUE /\ r' = Outcome(TRUE)
        \/ restarted' = FALSE /\ r' = Outcome(FALSE)
    BY <1>12 DEF Restart
  <2>5. CASE restarted' = TRUE /\ r' = Outcome(TRUE)
    <3>1. r'.containers[target].state = Spent(r.containers[target].state)
      BY <1>1, <2>5, OutcomeState
    <3>2. \A c \in Containers \ {target} : r'.containers[c].state = r.containers[c].state
      BY <1>1, <2>5, SuccessFields, Zenon
    <3>3. Known(target)' = counted[target] \union {now}
      BY <2>1, <2>5 DEF Known, Pending
    <3>4. Remembers(Spent(r.containers[target].state), counted[target] \union {now}, now)
      BY <1>1, <2>2, <2>3, RemembersSpent
    <3>5. QED
      BY <1>11, <2>1, <3>1, <3>2, <3>3, <3>4 DEF Acting
  <2>6. CASE restarted' = FALSE /\ r' = Outcome(FALSE)
    <3>1. r'.containers = r.containers
      BY <1>1, <2>6, FailureFields, Zenon
    <3>2. Known(target)' = counted[target]
      BY <2>1, <2>6 DEF Known, Pending
    <3>3. QED
      BY <1>11, <2>1, <2>3, <3>1, <3>2 DEF Acting
  <2>7. QED
    BY <2>4, <2>5, <2>6
<1>13. CASE Record
  <2>1. /\ pc = "record" /\ pc' \in {"outcome", "failing"} /\ r' = r
        /\ UNCHANGED <<now, present, plan, todo, target, restarted>>
        /\ counted' = IF restarted /\ pc' = "outcome"
                      THEN [counted EXCEPT ![target] = @ \union {now}] ELSE counted
    BY <1>13 DEF Record, SaveLegacy, scan, loop
  <2>2. CASE pc' = "failing"
    BY <1>2, <2>2 DEF ObservedScan, Acting
  <2>3. CASE pc' = "outcome"
    <3>1. target \in present
      BY <2>1 DEF Saved, VisitedSaved, Acting
    <3>2. Remembers(r.containers[target].state, Known(target), now)
      BY <2>1, <3>1 DEF ScanRemembers, ObservedScan, Acting
    <3>3. Known(target)' = Known(target) /\ \A c \in Containers \ {target} : counted'[c] = counted[c]
      BY <1>1, <2>1, <2>3 DEF Known, Pending
    <3>4. QED
      BY <1>11, <2>1, <2>3, <3>2, <3>3 DEF Acting
  <2>4. QED
    BY <2>1, <2>2, <2>3
<1>14. CASE SaveAlert
  <2>1. /\ pc = "alert" /\ pc' \in {"notify", "failing"}
        /\ r' = [r EXCEPT !.containers[target] = AfterAlert(@)]
        /\ UNCHANGED <<now, counted, present, plan, todo, target>>
    BY <1>14 DEF SaveAlert, SaveLegacy, scan, history
  <2>2. CASE pc' = "failing"
    BY <1>2, <2>2 DEF ObservedScan, Acting
  <2>3. CASE pc' = "notify"
    <3>1. target \in present /\ Known(target) = counted[target] /\ Known(target)' = counted[target]
      BY <2>1, <2>3 DEF Saved, VisitedSaved, Acting, Known, Pending
    <3>2. Remembers(r.containers[target].state, counted[target], now)
      BY <2>1, <3>1 DEF ScanRemembers, ObservedScan, Acting
    <3>3. r'.containers[target].state = Alerted(r.containers[target].state)
      BY <1>1, <2>1, OutcomeState
    <3>4. Remembers(r'.containers[target].state, counted[target], now)
      BY <1>1, <3>2, <3>3, AlertedFields DEF Remembers
    <3>5. \A c \in Containers \ {target} : r'.containers[c] = r.containers[c]
      BY <1>1, <2>1, AlertFields, Zenon
    <3>6. QED
      BY <1>11, <2>1, <2>3, <3>1, <3>4, <3>5 DEF Acting
  <2>4. QED
    BY <2>1, <2>2, <2>3
<1>15. CASE Start \/ ListUnhealthy \/ FailScan \/ Finish \/ Crash \/ \E c \in Containers : Repair(c)
  <2>1. pc' \notin ObservedScan
    BY <1>15 DEF Start, ListUnhealthy, FailScan, Finish, Crash, Repair, Publish, Goto,
                ObservedScan, Acting
  <2>2. QED
    BY <1>2, <2>1
<1>16. QED
  BY <1>3, <1>4, <1>7, <1>8, <1>9, <1>10, <1>12, <1>13, <1>14, <1>15 DEF Next, EndOfModel

\* In any Day a container is restarted at most MaxRestarts times, and once more
\* for each crash or failed write: for any length of the Day, any budget, any
\* schedule of scans and any order of health changes.
THEOREM RestartBudget == Spec => []BudgetPerDay
<1>1. Init => BudgetInv
  <2> SUFFICES ASSUME Init PROVE BudgetInv
    OBVIOUS
  <2>1. \A c \in Containers : Known(c) = {} /\ counted[c] = {} /\ restartTimes[c] = {}
    BY DEF Init, Known, Pending
  <2>2. \A t : Within({}, t) = {} /\ Recent({}, t) = {}
    BY DEF Within, Recent
  <2>3. Cardinality({}) = 0
    BY FS_EmptySet
  <2>4. HistoryBounds
    BY <2>1 DEF HistoryBounds
  <2>5. FilesRemember
    <3>1. \A c \in Containers : legacy[c] = ZeroState
      BY DEF Init
    <3>2. Remembers(ZeroState, {}, now)
      BY <2>2, <2>3 DEF Remembers, ZeroState
    <3>3. QED
      BY <2>1, <3>1, <3>2 DEF FilesRemember
  <2>6. ScanRemembers
    BY DEF Init, ScanRemembers, ObservedScan, Acting
  <2>7. WindowsKept
    <3>1. \A c \in Containers : \A t \in Nat : Cardinality(Within(Known(c), t)) = 0
      BY <2>1, <2>2, <2>3, Zenon
    <3>2. QED
      BY <3>1, WatchdogAssumption DEF WindowsKept
  <2>8. LossesExplained
    BY <2>1, <2>3 DEF Init, LossesExplained
  <2>9. QED
    BY <2>4, <2>5, <2>6, <2>7, <2>8 DEF BudgetInv
<1>2. TypeOK /\ Saved /\ BudgetInv /\ [Next]_vars => BudgetInv'
  BY HistoryKept, FilesRememberNext, ScanRemembersNext, WindowsNext, LossesNext DEF BudgetInv, Saved
<1>3. TypeOK /\ BudgetInv => BudgetPerDay
  <2> SUFFICES ASSUME TypeOK, BudgetInv, NEW c \in Containers, NEW t \in restartTimes[c]
               PROVE  Cardinality(Window(c, t)) <= MaxRestarts + faults
    BY DEF BudgetPerDay
  <2> DEFINE in == Within(Known(c), t)
             out == restartTimes[c] \ Known(c)
  <2>1. /\ restartTimes[c] \in SUBSET Nat /\ \A u \in restartTimes[c] : u <= now
        /\ Known(c) \subseteq restartTimes[c] /\ now \in Nat /\ faults \in Nat /\ t \in Nat
    BY HistoryFacts DEF BudgetInv, HistoryBounds
  <2>2. Cardinality(in) <= MaxRestarts /\ Cardinality(out) <= faults
    BY <2>1 DEF BudgetInv, WindowsKept, LossesExplained
  <2>3. in \in SUBSET restartTimes[c] /\ out \in SUBSET restartTimes[c]
        /\ Window(c, t) \in SUBSET (in \union out) /\ in \cap out \in SUBSET restartTimes[c]
    BY <2>1 DEF Within, Window
  <2> HIDE DEF in, out
  <2>4. /\ IsFiniteSet(in) /\ Cardinality(in) \in Nat /\ IsFiniteSet(out) /\ Cardinality(out) \in Nat
        /\ Cardinality(in \cap out) \in Nat
    BY <2>1, <2>3, TimesFinite
  <2>5. /\ IsFiniteSet(in \union out)
        /\ Cardinality(in \union out) = Cardinality(in) + Cardinality(out) - Cardinality(in \cap out)
    BY <2>4, FS_Union
  <2>6. IsFiniteSet(Window(c, t)) /\ Cardinality(Window(c, t)) <= Cardinality(in \union out)
    BY <2>3, <2>5, FS_Subset
  <2>7. Cardinality(Window(c, t)) \in Nat
    BY <2>6, FS_CardinalityType
  <2>8. QED
    BY <2>1, <2>2, <2>4, <2>5, <2>6, <2>7, WatchdogAssumption
<1>4. Init => Saved
  BY DEF Init, Saved, FilesSaved, FreshUnsaved, VisitedSaved, ObservedScan, Acting
<1>5. TypeOK /\ Saved /\ [Next]_vars => Saved'
  BY SavedScanNext, FilesNext DEF Saved
<1>6. QED
  BY <1>1, <1>2, <1>3, <1>4, <1>5, TypeInit, TypeNext, PTL DEF Spec

-----------------------------------------------------------------------------
(***************************************************************************)
(* The cooldown.  The time of an urgent message is on disk before the      *)
(* message is sent, so no crash makes a later scan forget it.              *)
(***************************************************************************)

Spaced(c) == lastUrgent[c] = 0 \/ now - lastUrgent[c] >= Cooldown

AlertsFiled == \A c \in Containers : lastUrgent[c] <= legacy[c].last_alert

\* The same in the memory of a scan, and an urgent message that is planned or
\* under way is dated now and a Cooldown after the last one.
AlertsSeen ==
    pc \in ObservedScan =>
        /\ listed \subseteq present
        /\ \A c \in Containers \ listed : lastUrgent[c] = 0
        /\ \A c \in Containers : lastUrgent[c] <= r.containers[c].state.last_alert
        /\ \A c \in Unvisited :
              /\ plan[c].notify => r.containers[c].state.last_alert = now /\ Spaced(c)
              /\ plan[c].action # "none" => c \in listed

AlertUnderWay ==
    /\ pc \in Acting \ {"loop"} => target \in listed
    /\ pc \in {"intend", "restart", "record", "outcome"} => ~urgent
    /\ pc = "alert" => Spaced(target)
    /\ pc \in {"notify", "send"} /\ urgent =>
          r.containers[target].state.last_alert = now /\ Spaced(target)

AlertInv == AlertsFiled /\ AlertsSeen /\ AlertUnderWay

\* A successful restart leaves the time of the last alert alone.
LEMMA SpentAlert ==
    ASSUME NEW s \in State PROVE Spent(s).last_alert = s.last_alert
<1>1. s.restarts + 1 \in Nat
  BY DEF State
<1>2. \A n \in Nat : [s EXCEPT !.consecutive = 0, !.restarts = n, !.last_restart = now].last_alert
                        = s.last_alert
  BY DEF State
<1>3. QED
  BY <1>1, <1>2, Zenon DEF Spent

\* What a step does to the States in memory, as far as the alerts go: only the
\* alert of a failed restart changes a date, and only the target's.
LEMMA AlertDates ==
    ASSUME TypeOK, [Next]_vars, pc \in Acting \union {"observed"}, pc' \in Acting, ~SaveAlert
    PROVE  \A c \in Containers :
              r'.containers[c].state.last_alert = r.containers[c].state.last_alert
<1>1. r \in Result /\ target \in Containers /\ \A c \in Containers : r.containers[c].state \in State
  BY TypeFacts, HistoryFacts
<1>2. CASE Intend
  <2>1. r' = Intention
    BY <1>2, Zenon DEF Intend, Publish
  <2>2. \A c \in Containers : Intention.containers[c].state = r.containers[c].state
    BY <1>1, IntentionFields, Zenon
  <2>3. QED
    BY <2>1, <2>2
<1>3. CASE CountNotification
  <2>1. r'.containers = r.containers
    BY <1>1, <1>3, NotificationFields, Zenon DEF CountNotification, Publish
  <2>2. QED
    BY <2>1
<1>4. CASE Send
  <2>1. PICK n \in {0, 1} : r' = [r EXCEPT !.notification_failures = @ + n]
    BY <1>4, Zenon DEF Send
  <2>2. r'.containers = r.containers
    BY <1>1, <2>1, NotificationFailureFields, Zenon
  <2>3. QED
    BY <2>2
<1>5. CASE Restart
  <2>1. r' = Outcome(TRUE) \/ r' = Outcome(FALSE)
    BY <1>5 DEF Restart
  <2>2. CASE r' = Outcome(TRUE)
    <3>1. r'.containers[target].state.last_alert = r.containers[target].state.last_alert
      BY <1>1, <2>2, OutcomeState, SpentAlert
    <3>2. \A c \in Containers \ {target} : r'.containers[c] = r.containers[c]
      BY <1>1, <2>2, SuccessFields, Zenon
    <3>3. QED
      BY <3>1, <3>2
  <2>3. CASE r' = Outcome(FALSE)
    <3>1. r'.containers = r.containers
      BY <1>1, <2>3, FailureFields, Zenon
    <3>2. QED
      BY <3>1
  <2>4. QED
    BY <2>1, <2>2, <2>3
<1>6. CASE ~(Intend \/ CountNotification \/ Send \/ Restart)
  <2>1. r' = r
    BY <1>6 DEF Next, Start, ListUnhealthy, ReadInventory, FailScan, PublishObserved, Visit, Record,
         PublishOutcome, PublishSent, CollectGarbage, Finish, Crash, Repair, EndOfModel, Publish,
         Goto, vars, loop, Acting
  <2>2. QED
    BY <2>1
<1>7. QED
  BY <1>2, <1>3, <1>4, <1>5, <1>6

\* An urgent message is dated in the file of its container before it is sent.
LEMMA FiledNext ==
    ASSUME TypeOK, Saved, AlertInv, [Next]_vars
    PROVE  AlertsFiled'
<1>1. /\ now \in Nat /\ target \in Containers /\ r \in Result /\ todo \subseteq Containers
      /\ lastUrgent \in [Containers -> Nat] /\ legacy \in [Containers -> State]
      /\ \A c \in Containers : r.containers[c].state \in State /\ legacy[c].last_alert \in Nat
      /\ Cooldown \in Nat
  BY HistoryFacts, TypeFacts, WatchdogAssumption DEF State
<1>2. ASSUME NEW c \in Containers, NEW s, lastUrgent[c] <= s.last_alert, lastUrgent' = lastUrgent,
             legacy' = legacy \/ legacy' = [legacy EXCEPT ![c] = s]
      PROVE  AlertsFiled'
  BY <1>1, <1>2 DEF AlertInv, AlertsFiled
<1>3. CASE ReadInventory
  <2>1. legacy' = legacy
    BY <1>3 DEF ReadInventory, Goto, disk
  <2>2. \A c \in Containers : lastUrgent'[c] \in {0, lastUrgent[c]}
    BY <1>1, <1>3 DEF ReadInventory
  <2>3. QED
    BY <1>1, <2>1, <2>2 DEF AlertInv, AlertsFiled
<1>4. ASSUME NEW c \in Containers, Visit(c) PROVE AlertsFiled'
  <2>1. /\ pc = "loop" /\ lastUrgent' = lastUrgent
        /\ legacy' = legacy \/ legacy' = [legacy EXCEPT ![c] = r.containers[c].state]
    BY <1>4 DEF Visit, SaveLegacy, Goto, disk, history
  <2>2. lastUrgent[c] <= r.containers[c].state.last_alert
    BY <2>1 DEF AlertInv, AlertsSeen, ObservedScan, Acting
  <2>3. QED
    BY <1>2, <2>1, <2>2
<1>5. CASE Record
  <2>1. /\ pc = "record" /\ lastUrgent' = lastUrgent
        /\ legacy' = legacy \/ legacy' = [legacy EXCEPT ![target] = r.containers[target].state]
    BY <1>5 DEF Record, SaveLegacy
  <2>2. lastUrgent[target] <= r.containers[target].state.last_alert
    BY <1>1, <2>1 DEF AlertInv, AlertsSeen, ObservedScan, Acting
  <2>3. QED
    BY <1>1, <1>2, <2>1, <2>2
<1>6. CASE SaveAlert
  <2>1. /\ pc = "alert" /\ lastUrgent' = lastUrgent
        /\ r' = [r EXCEPT !.containers[target] = AfterAlert(@)]
        /\ legacy' = legacy \/ legacy' = [legacy EXCEPT ![target] = r'.containers[target].state]
    BY <1>6 DEF SaveAlert, SaveLegacy, history
  <2>2. r'.containers[target].state.last_alert = now
    BY <1>1, <2>1, OutcomeState, AlertedFields
  <2>3. lastUrgent[target] <= now
    BY <1>1, <2>1 DEF AlertInv, AlertUnderWay, Spaced
  <2>4. QED
    BY <1>1, <1>2, <2>1, <2>2, <2>3
<1>7. CASE Send
  <2>1. /\ pc = "send" /\ legacy' = legacy
        /\ lastUrgent' = IF urgent THEN [lastUrgent EXCEPT ![target] = now] ELSE lastUrgent
    BY <1>7 DEF Send, Goto, disk
  <2>2. r.containers[target].state = legacy[target]
    BY <2>1 DEF Saved, VisitedSaved, Acting
  <2>3. urgent => legacy[target].last_alert = now
    BY <2>1, <2>2 DEF AlertInv, AlertUnderWay
  <2>4. QED
    BY <1>1, <2>1, <2>3 DEF AlertInv, AlertsFiled
<1>8. CASE CollectGarbage
  <2>1. pc = "loop" /\ lastUrgent' = lastUrgent
    BY <1>8 DEF CollectGarbage, history
  <2>2. \A c \in Containers : legacy'[c] = legacy[c] \/ (c \notin present /\ legacy'[c] = ZeroState)
    BY <1>1, <1>8 DEF CollectGarbage, Orphans
  <2>3. \A c \in Containers \ present : lastUrgent[c] = 0
    BY <2>1 DEF AlertInv, AlertsSeen, ObservedScan, Acting
  <2>4. ZeroState.last_alert = 0
    BY DEF ZeroState
  <2>5. QED
    BY <2>1, <2>2, <2>3, <2>4 DEF AlertInv, AlertsFiled
<1>9. CASE ~(\/ ReadInventory \/ Record \/ SaveAlert \/ Send \/ CollectGarbage
             \/ \E c \in Containers : Visit(c))
  <2>1. UNCHANGED <<lastUrgent, legacy>>
    BY <1>9 DEF Next, Start, ListUnhealthy, FailScan, PublishObserved, Intend, Restart,
         PublishOutcome, CountNotification, PublishSent, Finish, Crash, Repair, EndOfModel,
         Publish, Goto, vars, disk, history
  <2>2. QED
    BY <2>1 DEF AlertInv, AlertsFiled
<1>10. QED
  BY <1>3, <1>4, <1>5, <1>6, <1>7, <1>8, <1>9

\* A valid observation dates every message it plans, a Cooldown after the last.
LEMMA SeenReadInventory ==
    ASSUME TypeOK, AlertsFiled, ReadInventory, pc' = "observed"
    PROVE  AlertsSeen'
<1>1. /\ lastUrgent \in [Containers -> Nat] /\ now \in Nat /\ r \in Result
      /\ legacy \in [Containers -> State] /\ listed \subseteq Containers /\ Cooldown \in Nat
  BY HistoryFacts, TypeFacts, WatchdogAssumption
<1>2. PICK obs \in [Containers -> Observation] :
        /\ Valid(obs)
        /\ present' = {c \in Containers : obs[c] # "absent"}
        /\ plan' = [c \in Containers |->
                        LET d == Decide(legacy[c], c \in listed, now)
                        IN  [action |-> d.action, notify |-> d.notify]]
        /\ r' = [r EXCEPT !.docker_read_ok = TRUE, !.containers = Observed(obs)]
        /\ lastUrgent' = [c \in Containers |-> IF c \in listed THEN lastUrgent[c] ELSE 0]
  BY DEF ReadInventory, Goto
<1>3. now' = now /\ listed' = listed /\ Unvisited' = present'
  BY DEF ReadInventory, Unvisited
<1>4. r'.containers = Observed(obs)
  BY <1>1, <1>2, ObservedFields, Zenon
<1>5. listed \subseteq present'
  BY <1>2 DEF Valid
<1>6. \A c \in Containers \ listed : lastUrgent'[c] = 0
  BY <1>2
<1>7. ASSUME NEW c \in Containers
      PROVE  /\ lastUrgent'[c] <= r'.containers[c].state.last_alert
             /\ c \in present' /\ plan'[c].notify =>
                   r'.containers[c].state.last_alert = now' /\ Spaced(c)'
             /\ plan'[c].action # "none" => c \in listed
  <2> DEFINE u == c \in listed
             d == Decide(legacy[c], u, now)
  <2>1. /\ legacy[c] \in State /\ u \in BOOLEAN /\ lastUrgent[c] \in Nat
        /\ legacy[c].last_alert \in Nat /\ lastUrgent[c] <= legacy[c].last_alert
    BY <1>1, <1>7 DEF AlertsFiled, State
  <2>2. obs[c] # "absent" => r'.containers[c].state = d.state
    BY <1>4, <1>7 DEF Observed
  <2>3. plan'[c].notify = d.notify /\ plan'[c].action = d.action
    BY <1>2, <1>7
  <2>4. lastUrgent'[c] = IF u THEN lastUrgent[c] ELSE 0
    BY <1>2, <1>7
  <2>5. u => obs[c] # "absent"
    BY <1>2, <1>7 DEF Valid
  <2>6. c \in present' <=> obs[c] # "absent"
    BY <1>2, <1>7
  <2>7. r'.containers[c].state.last_alert \in Nat
    <3>1. d.state \in State
      <4> HIDE DEF u
      <4>1. QED
        BY <1>1, <2>1, DecideType, Zenon
    <3>2. obs[c] = "absent" => r'.containers[c].state = ZeroState
      BY <1>4, <1>7 DEF Observed, ZeroContainer
    <3>3. ZeroState.last_alert = 0
      BY DEF ZeroState
    <3> HIDE DEF d
    <3>4. QED
      BY <2>2, <3>1, <3>2, <3>3 DEF State
  <2> HIDE DEF u
  <2>8. /\ d.notify => u /\ d.state.last_alert = now /\ now - legacy[c].last_alert >= Cooldown
        /\ u /\ ~d.notify => d.state.last_alert = legacy[c].last_alert
        /\ d.action # "none" => u
    BY <1>1, <2>1, DecideFields
  <2> HIDE DEF d
  <2>9. lastUrgent'[c] <= r'.containers[c].state.last_alert
    BY <1>1, <2>1, <2>2, <2>4, <2>5, <2>7, <2>8
  <2>10. c \in present' /\ d.notify => r'.containers[c].state.last_alert = now /\ Spaced(c)'
    BY <1>1, <1>3, <2>1, <2>2, <2>4, <2>6, <2>8 DEF Spaced
  <2>11. QED
    BY <1>3, <2>3, <2>8, <2>9, <2>10 DEF u
<1>8. present' \subseteq Containers
  BY <1>2
<1>9. QED
  BY <1>3, <1>5, <1>6, <1>7, <1>8 DEF AlertsSeen

\* Every step of the scan keeps the dates in memory.
LEMMA SeenNext ==
    ASSUME TypeOK, Saved, AlertInv, [Next]_vars
    PROVE  AlertsSeen'
<1>1. /\ now \in Nat /\ target \in Containers /\ r \in Result /\ todo \subseteq Containers
      /\ present \subseteq Containers /\ lastUrgent \in [Containers -> Nat] /\ Cooldown \in Nat
      /\ \A c \in Containers : r.containers[c].state \in State
  BY HistoryFacts, TypeFacts, WatchdogAssumption
<1>2. CASE pc' \notin ObservedScan
  BY <1>2 DEF AlertsSeen
<1>3. CASE ReadInventory
  BY <1>2, <1>3, SeenReadInventory DEF ReadInventory, Goto, ObservedScan, Acting, AlertInv
<1>4. CASE UNCHANGED vars
  BY <1>4 DEF vars, disk, scan, loop, history, AlertInv, AlertsSeen, Spaced, Unvisited
<1>5. ASSUME pc' \in ObservedScan, ~ReadInventory, ~UNCHANGED vars
      PROVE  /\ pc \in ObservedScan /\ pc' \in Acting /\ UNCHANGED <<now, listed, present, plan>>
             /\ todo' \in SUBSET Unvisited
             /\ UNCHANGED lastUrgent \/ Send
  <2>1. pc \in ObservedScan /\ pc' \in Acting
    BY <1>5 DEF Next, Start, ListUnhealthy, FailScan, PublishObserved, Visit, Intend, Restart, Record,
       PublishOutcome, SaveAlert, CountNotification, Send, PublishSent, CollectGarbage, Finish,
       Crash, Repair, EndOfModel, Publish, SaveLegacy, Goto, AfterSave, ObservedScan, Acting
  <2>2. UNCHANGED <<now, listed, present, plan>> /\ (UNCHANGED lastUrgent \/ Send)
    BY <1>5, <2>1 DEF Next, Start, ListUnhealthy, FailScan, PublishObserved, Visit, Intend, Restart,
       Record, PublishOutcome, SaveAlert, CountNotification, Send, PublishSent, CollectGarbage,
       Finish, Crash, Repair, EndOfModel, scan, history, ObservedScan, Acting
  <2>3. todo' \in SUBSET Unvisited
    <3>1. CASE PublishObserved
      BY <3>1 DEF PublishObserved, Unvisited
    <3>2. CASE ~PublishObserved
      <4>1. pc # "observed" /\ todo' \in SUBSET todo
        BY <1>5, <2>1, <3>2 DEF Next, Start, ListUnhealthy, FailScan, Visit, Intend, Restart,
           Record, PublishOutcome, SaveAlert, CountNotification, Send, PublishSent, CollectGarbage,
           Finish, Crash, Repair, EndOfModel, loop, ObservedScan, Acting
      <4>2. QED
        BY <4>1 DEF Unvisited
    <3>3. QED
      BY <3>1, <3>2
  <2>4. QED
    BY <2>1, <2>2, <2>3
<1>6. CASE pc' \in ObservedScan /\ ~ReadInventory /\ ~UNCHANGED vars
  <2>1. /\ pc \in ObservedScan /\ pc' \in Acting /\ UNCHANGED <<now, listed, present, plan>>
        /\ todo' \in SUBSET Unvisited /\ (UNCHANGED lastUrgent \/ Send)
    BY <1>5, <1>6
  <2>2. /\ listed \subseteq present
        /\ \A c \in Containers \ listed : lastUrgent[c] = 0
        /\ \A c \in Containers : lastUrgent[c] <= r.containers[c].state.last_alert
        /\ \A c \in Unvisited :
              /\ plan[c].notify => r.containers[c].state.last_alert = now /\ Spaced(c)
              /\ plan[c].action # "none" => c \in listed
    BY <2>1 DEF AlertInv, AlertsSeen
  <2>3. Unvisited' = todo' /\ Unvisited \subseteq Containers
    BY <1>1, <2>1 DEF Unvisited, Acting
  <2>4. CASE SaveAlert
    <3>1. pc = "alert" /\ UNCHANGED <<lastUrgent, todo>>
          /\ r' = [r EXCEPT !.containers[target] = AfterAlert(@)]
      BY <2>4 DEF SaveAlert, history
    <3>2. target \in present \ todo
      BY <3>1 DEF Saved, VisitedSaved, Acting
    <3>3. \A c \in Containers \ {target} : r'.containers[c] = r.containers[c]
      BY <1>1, <3>1, AlertFields, Zenon
    <3>4. r'.containers[target].state.last_alert = now
      BY <1>1, <3>1, OutcomeState, AlertedFields
    <3>5. lastUrgent[target] <= now
      BY <1>1, <3>1 DEF AlertInv, AlertUnderWay, Spaced
    <3>6. \A c \in Containers : lastUrgent[c] <= r'.containers[c].state.last_alert
      BY <2>2, <3>3, <3>4, <3>5
    <3>7. \A c \in todo : plan[c].notify => r'.containers[c].state.last_alert = now /\ Spaced(c)
      <4>1. pc # "observed" /\ Unvisited = todo
        BY <3>1 DEF Unvisited
      <4>2. QED
        BY <1>1, <2>2, <3>2, <3>3, <4>1
    <3>8. QED
      BY <2>1, <2>2, <2>3, <3>1, <3>6, <3>7 DEF AlertsSeen, Spaced
  <2>5. CASE ~SaveAlert
    <3>1. \A c \in Containers : r'.containers[c].state.last_alert = r.containers[c].state.last_alert
      BY <2>1, <2>5, AlertDates DEF ObservedScan
    <3>2. CASE UNCHANGED lastUrgent
      BY <2>1, <2>2, <2>3, <3>1, <3>2 DEF AlertsSeen, Spaced
    <3>3. CASE Send
      <4>1. /\ pc = "send" /\ UNCHANGED <<todo, target>>
            /\ lastUrgent' = IF urgent THEN [lastUrgent EXCEPT ![target] = now] ELSE lastUrgent
        BY <3>3 DEF Send
      <4>2. CASE ~urgent
        BY <3>2, <4>1, <4>2
      <4>3. CASE urgent
        <5>1. /\ target \in present \ todo
              /\ r.containers[target].state.last_alert = now /\ Spaced(target)
          BY <4>1, <4>3 DEF Saved, VisitedSaved, Acting, AlertInv, AlertUnderWay
        <5>2. lastUrgent'[target] = now /\ \A c \in Containers \ {target} : lastUrgent'[c] = lastUrgent[c]
          BY <1>1, <4>1, <4>3
        <5>3. \A c \in Containers : lastUrgent'[c] <= r'.containers[c].state.last_alert
          BY <1>1, <2>2, <3>1, <5>1, <5>2
        <5>4. pc # "observed" /\ Unvisited = todo
          BY <4>1 DEF Unvisited
        <5>5. \A c \in todo' : plan[c].notify => r'.containers[c].state.last_alert = now /\ Spaced(c)'
          BY <1>1, <2>1, <2>2, <3>1, <4>1, <5>1, <5>2, <5>4 DEF Spaced
        <5>6. target \in listed
          BY <4>1 DEF AlertInv, AlertUnderWay, Acting
        <5>7. QED
          BY <2>1, <2>2, <2>3, <5>2, <5>3, <5>5, <5>6 DEF AlertsSeen
      <4>4. QED
        BY <4>2, <4>3
    <3>4. QED
      BY <2>1, <3>2, <3>3
  <2>6. QED
    BY <2>4, <2>5
<1>7. QED
  BY <1>2, <1>3, <1>4, <1>6

\* Every step keeps what is known of the message under way.
LEMMA UnderWayNext ==
    ASSUME TypeOK, Saved, AlertInv, [Next]_vars
    PROVE  AlertUnderWay'
<1>1. /\ now \in Nat /\ target \in Containers /\ r \in Result /\ Cooldown \in Nat
      /\ lastUrgent \in [Containers -> Nat] /\ urgent \in BOOLEAN
      /\ \A c \in Containers : r.containers[c].state \in State
  BY HistoryFacts, TypeFacts, WatchdogAssumption
<1>2. CASE pc' \notin Acting \ {"loop"}
  BY <1>2 DEF AlertUnderWay, Acting
<1>3. CASE UNCHANGED vars
  BY <1>3 DEF vars, disk, scan, loop, history, AlertInv, AlertUnderWay, Spaced
<1>4. ASSUME NEW c \in Containers, Visit(c), pc' \in Acting \ {"loop"} PROVE AlertUnderWay'
  <2>1. /\ pc = "loop" /\ c \in todo /\ target' = c /\ urgent' = (plan[c].action = "budget")
        /\ UNCHANGED <<r, now, listed, lastUrgent>> /\ pc' \in {AfterSave(c), "failing"}
    BY <1>4 DEF Visit, SaveLegacy, Goto, scan, history
  <2>2. \/ pc' = "intend" /\ plan[c].action = "restart"
        \/ pc' = "notify" /\ plan[c].action = "budget" /\ plan[c].notify
    BY <1>4, <2>1 DEF AfterSave, Acting
  <2>3. /\ plan[c].notify => r.containers[c].state.last_alert = now /\ Spaced(c)
        /\ plan[c].action # "none" => c \in listed
    BY <2>1 DEF AlertInv, AlertsSeen, ObservedScan, Acting, Unvisited
  <2>4. QED
    BY <2>1, <2>2, <2>3 DEF AlertUnderWay, Spaced
<1>5. CASE Intend \/ Restart \/ Record
  <2>1. /\ pc \in {"intend", "restart", "record"}
        /\ pc' \in {"restart", "record", "outcome", "idle", "failing"}
        /\ UNCHANGED <<urgent, listed, target>>
    BY <1>5 DEF Intend, Restart, Record, Publish, SaveLegacy, Goto, scan, loop
  <2>2. QED
    BY <1>2, <2>1 DEF AlertInv, AlertUnderWay, Acting
<1>6. CASE PublishOutcome
  <2>1. /\ pc = "outcome" /\ UNCHANGED <<r, now, urgent, listed, target, lastUrgent>>
        /\ pc' \in {"notify", "alert", "loop", "idle"}
        /\ pc' = "alert" => now - r.containers[target].state.last_alert >= Cooldown
    BY <1>6 DEF PublishOutcome, Publish, scan, history
  <2>2. /\ ~urgent /\ target \in listed
        /\ lastUrgent[target] <= r.containers[target].state.last_alert
    BY <1>1, <2>1 DEF AlertInv, AlertsSeen, AlertUnderWay, ObservedScan, Acting
  <2>3. r.containers[target].state.last_alert \in Nat /\ lastUrgent[target] \in Nat
    BY <1>1 DEF State
  <2>4. pc' = "alert" => Spaced(target)
    BY <1>1, <2>1, <2>2, <2>3 DEF Spaced
  <2>5. QED
    BY <2>1, <2>2, <2>4 DEF AlertUnderWay, Spaced
<1>7. CASE SaveAlert
  <2>1. /\ pc = "alert" /\ UNCHANGED <<now, listed, target, lastUrgent>>
        /\ pc' \in {"notify", "failing"} /\ r' = [r EXCEPT !.containers[target] = AfterAlert(@)]
    BY <1>7 DEF SaveAlert, SaveLegacy, scan, history
  <2>2. r'.containers[target].state.last_alert = now
    BY <1>1, <2>1, OutcomeState, AlertedFields
  <2>3. target \in listed /\ Spaced(target)
    BY <2>1 DEF AlertInv, AlertUnderWay, Acting
  <2>4. QED
    BY <2>1, <2>2, <2>3 DEF AlertUnderWay, Spaced
<1>8. CASE CountNotification
  <2>1. /\ pc = "notify" /\ UNCHANGED <<now, urgent, listed, target, lastUrgent>>
        /\ pc' \in {"send", "idle"}
    BY <1>8 DEF CountNotification, Publish, scan, history
  <2>2. r'.containers = r.containers
    BY <1>1, <1>8, NotificationFields, Zenon DEF CountNotification, Publish
  <2>3. QED
    BY <2>1, <2>2 DEF AlertInv, AlertUnderWay, Spaced, Acting
<1>9. CASE Send
  <2>1. pc = "send" /\ UNCHANGED <<listed, target>> /\ pc' = "sent"
    BY <1>9 DEF Send, Goto, scan
  <2>2. QED
    BY <2>1 DEF AlertInv, AlertUnderWay, Acting
<1>10. CASE ~(\/ Intend \/ Restart \/ Record \/ PublishOutcome \/ SaveAlert \/ CountNotification
              \/ Send \/ \E c \in Containers : Visit(c)) /\ ~UNCHANGED vars
  <2>1. pc' \notin Acting \ {"loop"}
    BY <1>10 DEF Next, Start, ListUnhealthy, ReadInventory, FailScan, PublishObserved, PublishSent,
         CollectGarbage, Finish, Crash, Repair, EndOfModel, Publish, Goto, Acting
  <2>2. QED
    BY <1>2, <2>1
<1>11. QED
  BY <1>2, <1>3, <1>4, <1>5, <1>6, <1>7, <1>8, <1>9, <1>10

\* Urgent messages about a container that stays unhealthy are at least a Cooldown
\* apart, whatever crashes between the decision, the write and the message.
THEOREM CooldownKept == Spec => UrgentSpacing
<1>1. Init => Saved /\ AlertInv
  <2> SUFFICES ASSUME Init PROVE Saved /\ AlertInv
    OBVIOUS
  <2>1. Saved
    BY DEF Init, Saved, FilesSaved, FreshUnsaved, VisitedSaved, ObservedScan, Acting
  <2>2. AlertsFiled
    BY DEF Init, AlertsFiled, ZeroState
  <2>3. AlertsSeen /\ AlertUnderWay
    BY DEF Init, AlertsSeen, AlertUnderWay, ObservedScan, Acting
  <2>4. QED
    BY <2>1, <2>2, <2>3 DEF AlertInv
<1>2. TypeOK /\ Saved /\ [Next]_vars => Saved'
  BY SavedScanNext, FilesNext DEF Saved
<1>3. TypeOK /\ Saved /\ AlertInv /\ [Next]_vars => AlertInv'
  BY FiledNext, SeenNext, UnderWayNext DEF AlertInv
<1>4. TypeOK /\ AlertInv /\ [Next]_vars =>
        [\A c \in Containers :
            lastUrgent[c] # 0 /\ lastUrgent'[c] \notin {0, lastUrgent[c]}
                => lastUrgent'[c] - lastUrgent[c] >= Cooldown]_lastUrgent
  <2> SUFFICES ASSUME TypeOK, AlertInv, [Next]_vars, lastUrgent' # lastUrgent,
                      NEW c \in Containers, lastUrgent[c] # 0,
                      lastUrgent'[c] \notin {0, lastUrgent[c]}
               PROVE  lastUrgent'[c] - lastUrgent[c] >= Cooldown
    OBVIOUS
  <2>1. lastUrgent \in [Containers -> Nat] /\ target \in Containers
    BY HistoryFacts, TypeFacts
  <2>2. ReadInventory \/ Send
    BY DEF Next, Start, ListUnhealthy, FailScan, PublishObserved, Visit, Intend, Restart, Record,
       PublishOutcome, SaveAlert, CountNotification, PublishSent, CollectGarbage, Finish,
       Crash, Repair, EndOfModel, vars, history
  <2>3. CASE ReadInventory
    BY <2>1, <2>3 DEF ReadInventory
  <2>4. CASE Send
    <3>1. /\ pc = "send"
          /\ lastUrgent' = IF urgent THEN [lastUrgent EXCEPT ![target] = now] ELSE lastUrgent
      BY <2>4 DEF Send
    <3>2. urgent /\ c = target /\ lastUrgent'[c] = now
      BY <2>1, <3>1
    <3>3. Spaced(target)
      BY <3>1, <3>2 DEF AlertInv, AlertUnderWay
    <3>4. QED
      BY <3>2, <3>3 DEF Spaced
  <2>5. QED
    BY <2>2, <2>3, <2>4
<1>5. QED
  BY <1>1, <1>2, <1>3, <1>4, TypeInit, TypeNext, PTL DEF Spec, UrgentSpacing
=============================================================================
