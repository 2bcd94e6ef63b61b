------------------------------ MODULE Watchdog ------------------------------
(***************************************************************************)
(* The container watchdog: one scan of `homelab-agent unhealthy-watchdog`  *)
(* (runtime/internal/watchdog/watchdog.go, Execute) after another.         *)
(*                                                                         *)
(* A scan is one process that runs alone (flock -n in the cron wrapper)    *)
(* and may die between any two of its external effects: the wrapper's      *)
(* 240 s timeout, a reboot, a failing write.  What survives it is on disk: *)
(* a counter ledger (status.json), one legacy state file per container,    *)
(* and the metrics textfile.  The Docker daemon and the notification       *)
(* helper are oracles: any answer, any order of health changes.            *)
(*                                                                         *)
(* Containers are numbers, in the order in which their names sort.         *)
(***************************************************************************)
EXTENDS Integers, FiniteSets

CONSTANTS
    Containers,    \* container names, as numbers in sort order
    Threshold,     \* consecutive unhealthy polls before a restart
    MaxRestarts,   \* successful restarts allowed per Day
    Day,           \* 86400 seconds, in units of the clock
    Cooldown,      \* least time between two urgent notifications
    StartTime,     \* the clock when the model starts
    Gaps,          \* possible times between two scans (bound)
    Horizon,       \* the clock's last value (bound)
    MaxFaults      \* crashes and failed writes (bound)

ASSUME WatchdogAssumption ==
    /\ Containers \subseteq Nat
    /\ IsFiniteSet(Containers)
    /\ Threshold \in Nat \ {0}
    /\ MaxRestarts \in Nat \ {0}
    /\ Day \in Nat \ {0}
    /\ Cooldown \in Nat \ {0}
    /\ StartTime \in Nat /\ StartTime >= Day /\ StartTime >= Cooldown
    /\ Gaps \subseteq Nat \ {0}
    /\ Horizon \in Nat
    /\ MaxFaults \in Nat

VARIABLES
    \* on disk
    ledger,        \* status.json: the last published Result
    textfile,      \* the Result the metrics textfile was rendered from
    file,          \* per container: is there a legacy state file, does it parse
    legacy,        \* per container: the State in its legacy file (zero without)
    \* in the memory of the running scan
    pc,            \* what the scan does next
    now,           \* the scan's `now`: the wall clock at its start
    listed,        \* answer of `docker ps --filter health=unhealthy`
    present,       \* containers of `docker ps -a`
    plan,          \* per container: Decide's action and notify flag
    r,             \* the Result being built
    todo,          \* containers the loop has still to visit
    target,        \* the container the loop visits
    urgent,        \* priority of the notification being sent
    restarted,     \* did the docker restart command succeed
    \* observed by nobody: history for the properties
    issued,        \* docker restart commands started
    sent,          \* notification helper invocations
    restartTimes,  \* per container: times of its successful restart commands
    counted,       \* per container: those its legacy file has counted
    unconfirmed,   \* containers whose last restart has no known good outcome
    lastUrgent,    \* per container: time of the last urgent notification, or 0
    faults         \* crashes and failed writes so far

disk    == <<ledger, textfile, file, legacy>>
scan    == <<now, listed, present, plan>>
loop    == <<r, todo, target, urgent, restarted>>
history == <<issued, sent, restartTimes, counted, unconfirmed, lastUrgent>>
vars    == <<disk, pc, scan, loop, history, faults>>
-----------------------------------------------------------------------------
State == [consecutive : Nat, restarts : Nat, last_restart : Nat, last_alert : Nat]

ZeroState == [consecutive |-> 0, restarts |-> 0, last_restart |-> 0, last_alert |-> 0]

\* An absent key of the Go map reads as the zero Container.
Container == [state : State, unhealthy : BOOLEAN, restart_failed : BOOLEAN]

ZeroContainer == [state |-> ZeroState, unhealthy |-> FALSE, restart_failed |-> FALSE]

Result == [success : BOOLEAN, docker_read_ok : BOOLEAN,
           attempts : Nat, restarts : Nat, failures : Nat,
           notifications : Nat, notification_failures : Nat,
           containers : [Containers -> Container]]

EmptyResult == [success |-> FALSE, docker_read_ok |-> FALSE,
                attempts |-> 0, restarts |-> 0, failures |-> 0,
                notifications |-> 0, notification_failures |-> 0,
                containers |-> [c \in Containers |-> ZeroContainer]]

Plan == [action : {"none", "wait", "restart", "budget"}, notify : BOOLEAN]

\* What `docker ps -a` says of a container, as far as the scan tells apart:
\* "unhealthy" is eligibleUnhealthy, "healthy" is running and healthy.
Observation == {"absent", "healthy", "unhealthy", "other"}
-----------------------------------------------------------------------------
(***************************************************************************)
(* Decide: the pure policy, one poll of one container at time t.           *)
(***************************************************************************)
Aged(s, t) ==
    IF s.restarts > 0 /\ t - s.last_restart >= Day
    THEN [s EXCEPT !.restarts = 0] ELSE s

Polled(s, unhealthy, t) ==
    IF unhealthy
    THEN [Aged(s, t) EXCEPT !.consecutive = @ + 1]
    ELSE [Aged(s, t) EXCEPT !.consecutive = 0, !.last_alert = 0]

Action(p, unhealthy) ==
    CASE ~unhealthy                                              -> "none"
      [] unhealthy /\ p.consecutive < Threshold                  -> "wait"
      [] unhealthy /\ p.consecutive >= Threshold
                   /\ p.restarts < MaxRestarts                   -> "restart"
      [] OTHER                                                   -> "budget"

Notify(p, unhealthy, t) ==
    Action(p, unhealthy) = "budget" /\ t - p.last_alert >= Cooldown

Decide(s, unhealthy, t) ==
    LET p == Polled(s, unhealthy, t)
        n == Notify(p, unhealthy, t)
    IN  [state  |-> IF n THEN [p EXCEPT !.last_alert = t] ELSE p,
         action |-> Action(p, unhealthy),
         notify |-> n]
-----------------------------------------------------------------------------
Init ==
    /\ ledger = EmptyResult
    /\ textfile = EmptyResult
    \* The shell engine wrote these files in place, so one may be cut short.
    /\ file \in [Containers -> {"none", "malformed"}]
    /\ legacy = [c \in Containers |-> ZeroState]
    /\ pc = "idle"
    /\ now = StartTime
    /\ listed = {}
    /\ present = {}
    /\ plan = [c \in Containers |-> [action |-> "none", notify |-> FALSE]]
    /\ r = EmptyResult
    /\ todo = {}
    /\ target \in Containers
    /\ urgent = FALSE
    /\ restarted = FALSE
    /\ issued = 0
    /\ sent = 0
    /\ restartTimes = [c \in Containers |-> {}]
    /\ counted = [c \in Containers |-> {}]
    /\ unconfirmed = {}
    /\ lastUrgent = [c \in Containers |-> 0]
    /\ faults = 0

Fault == faults < MaxFaults /\ faults' = faults + 1

\* Definitions named <Definition>_<Slip> are mutants: a bug each that the runs
\* must detect when it takes the definition's place.
Publish_TextfileFirst(x, next) ==
    /\ \/ /\ ledger' = x /\ textfile' = x
          /\ pc' = next
          /\ UNCHANGED faults
       \/ /\ Fault
          /\ textfile' \in {textfile, x}
          /\ pc' = "idle"
          /\ UNCHANGED ledger
    /\ r' = x
    /\ UNCHANGED <<file, legacy>>

\* publish: the ledger, then the textfile; an error ends the scan at once.
Publish(x, next) ==
    /\ \/ /\ ledger' = x /\ textfile' = x
          /\ pc' = next
          /\ UNCHANGED faults
       \/ /\ Fault
          /\ ledger' \in {ledger, x}
          /\ pc' = "idle"
          /\ UNCHANGED textfile
    /\ r' = x
    /\ UNCHANGED <<file, legacy>>

\* saveLegacy: atomic; an error publishes the Result (pc "failing") and ends.
SaveLegacy(c, s, next) ==
    /\ \/ /\ file' = [file EXCEPT ![c] = "valid"]
          /\ legacy' = [legacy EXCEPT ![c] = s]
          /\ pc' = next
          /\ UNCHANGED faults
       \/ /\ Fault
          /\ pc' = "failing"
          /\ UNCHANGED <<file, legacy>>
    /\ UNCHANGED <<ledger, textfile>>

Goto(next) == pc' = next /\ UNCHANGED <<disk, faults>>
-----------------------------------------------------------------------------
\* The Result a scan starts from: the ledger's, with this scan's flags down.
Resumed_KeepsFlags == ledger

Resumed == [ledger EXCEPT !.success = FALSE, !.docker_read_ok = FALSE]

\* A cron tick wins the lock and loads the ledger.  An invalid policy, ledger
\* or log path returns here without touching anything: a stuttering step.
Start ==
    /\ pc = "idle"
    /\ \E gap \in Gaps : now + gap <= Horizon /\ now' = now + gap
    /\ r' = Resumed
    /\ Goto("ps")
    /\ UNCHANGED <<listed, present, plan, todo, target, urgent, restarted, history>>

\* `docker ps --filter health=unhealthy`
ListUnhealthy ==
    /\ pc = "ps"
    /\ \/ \E u \in SUBSET Containers : listed' = u /\ Goto("ps -a")
       \/ UNCHANGED listed /\ Goto("failing")
    /\ UNCHANGED <<now, present, plan, loop, history>>

\* The two listings agree and every state file of a present container parses.
Valid(obs) ==
    /\ listed = {c \in Containers : obs[c] = "unhealthy"}
    /\ \A c \in Containers : obs[c] # "absent" => file[c] # "malformed"

Observed_StoppedClears(obs) ==
    [c \in Containers |->
        IF obs[c] = "absent" THEN ZeroContainer
        ELSE [state          |-> Decide(legacy[c], c \in listed, now).state,
              unhealthy      |-> c \in listed,
              restart_failed |-> obs[c] = "unhealthy" /\ r.containers[c].restart_failed]]

Observed(obs) ==
    [c \in Containers |->
        IF obs[c] = "absent" THEN ZeroContainer
        ELSE [state          |-> Decide(legacy[c], c \in listed, now).state,
              unhealthy      |-> c \in listed,
              restart_failed |-> obs[c] # "healthy" /\ r.containers[c].restart_failed]]

\* `docker ps -a`, the cross-check, the legacy files, and Decide for each.
ReadInventory ==
    /\ pc = "ps -a"
    /\ \/ \E obs \in [Containers -> Observation] :
            /\ Valid(obs)
            /\ present' = {c \in Containers : obs[c] # "absent"}
            /\ plan' = [c \in Containers |->
                            LET d == Decide(legacy[c], c \in listed, now)
                            IN  [action |-> d.action, notify |-> d.notify]]
            /\ r' = [r EXCEPT !.docker_read_ok = TRUE, !.containers = Observed(obs)]
            \* History restarts with a container that was seen to be gone.
            /\ restartTimes' = [c \in Containers |-> IF c \in present' THEN restartTimes[c] ELSE {}]
            /\ counted' = [c \in Containers |-> IF c \in present' THEN counted[c] ELSE {}]
            /\ unconfirmed' = {c \in unconfirmed : obs[c] \notin {"absent", "healthy"}}
            /\ lastUrgent' = [c \in Containers |-> IF c \in listed THEN lastUrgent[c] ELSE 0]
            /\ Goto("observed")
       \/ /\ \/ \E obs \in [Containers -> Observation] : ~Valid(obs)
             \/ TRUE  \* the command fails or its output is malformed
          /\ UNCHANGED <<present, plan, r, restartTimes, counted, unconfirmed, lastUrgent>>
          /\ Goto("failing")
    /\ UNCHANGED <<now, listed, todo, target, urgent, restarted, issued, sent>>

\* fail(): publish what is known and return the error.
FailScan ==
    /\ pc = "failing"
    /\ Publish(r, "idle")
    /\ UNCHANGED <<scan, todo, target, urgent, restarted, history>>

PublishObserved_Deferred ==
    /\ pc = "observed"
    /\ Goto("loop")
    /\ todo' = present
    /\ UNCHANGED <<scan, r, target, urgent, restarted, history>>

PublishObserved ==
    /\ pc = "observed"
    /\ Publish(r, "loop")
    /\ todo' = present
    /\ UNCHANGED <<scan, target, urgent, restarted, history>>

AfterSave(c) ==
    CASE plan[c].action = "restart"                     -> "intend"
      [] plan[c].action = "budget" /\ plan[c].notify    -> "notify"
      [] OTHER                                          -> "loop"

\* The next container in name order: save its decided state.
Visit(c) ==
    /\ pc = "loop"
    /\ c \in todo /\ \A d \in todo : c <= d
    /\ target' = c
    /\ todo' = todo \ {c}
    /\ urgent' = (plan[c].action = "budget")
    /\ IF file[c] # "none" \/ c \in listed
       THEN SaveLegacy(c, r.containers[c].state, AfterSave(c))
       ELSE Goto(AfterSave(c))
    /\ UNCHANGED <<scan, r, restarted, history>>

Flagged(c) == [c EXCEPT !.restart_failed = TRUE]

Intention == [r EXCEPT !.attempts = @ + 1, !.containers[target] = Flagged(@)]

Intend_InMemory ==
    /\ pc = "intend"
    /\ r' = Intention
    /\ Goto("restart")
    /\ UNCHANGED <<scan, todo, target, urgent, restarted, history>>

\* The restart intention and the failure flag reach the disk before Docker.
Intend ==
    /\ pc = "intend"
    /\ Publish(Intention, "restart")
    /\ UNCHANGED <<scan, todo, target, urgent, restarted, history>>

Spent_CountsDown(s) ==
    [s EXCEPT !.consecutive = 0, !.restarts = @ - 1, !.last_restart = now]

Spent_KeepsLastRestart(s) ==
    [s EXCEPT !.consecutive = 0, !.restarts = @ + 1]

\* A successful restart spends one unit of the budget.
Spent(s) ==
    [s EXCEPT !.consecutive = 0, !.restarts = @ + 1, !.last_restart = now]

\* The Container a successful restart command leaves in memory ...
AfterRestart(c) == [c EXCEPT !.restart_failed = FALSE, !.state = Spent(@)]

\* ... and the Result either outcome leaves.
Outcome_DropsFailure(ok) ==
    IF ok THEN [r EXCEPT !.restarts = @ + 1,
                         !.containers[target] = AfterRestart(@)]
          ELSE r

Outcome(ok) ==
    IF ok THEN [r EXCEPT !.restarts = @ + 1,
                         !.containers[target] = AfterRestart(@)]
          ELSE [r EXCEPT !.failures = @ + 1]

\* `docker restart`: succeeds, or fails, or exceeds its 45 s.
Restart ==
    /\ pc = "restart"
    /\ issued' = issued + 1
    /\ \E ok \in BOOLEAN :
        /\ restarted' = ok
        /\ r' = Outcome(ok)
        /\ restartTimes' = IF ok THEN [restartTimes EXCEPT ![target] = @ \union {now}]
                                 ELSE restartTimes
        /\ unconfirmed' = IF ok THEN unconfirmed \ {target} ELSE unconfirmed \union {target}
    /\ Goto("record")
    /\ UNCHANGED <<scan, todo, target, urgent, sent, counted, lastUrgent>>

\* The outcome reaches the container's legacy file ...
Record ==
    /\ pc = "record"
    /\ SaveLegacy(target, r.containers[target].state, "outcome")
    /\ counted' = IF restarted /\ pc' = "outcome"
                  THEN [counted EXCEPT ![target] = @ \union {now}] ELSE counted
    /\ UNCHANGED <<scan, loop, issued, sent, restartTimes, unconfirmed, lastUrgent>>

\* ... then the ledger; what follows is a message, an urgent one only if the
\* command failed and the cooldown has passed.
PublishOutcome ==
    /\ pc = "outcome"
    /\ Publish(r, CASE restarted -> "notify"
                    [] ~restarted /\ now - r.containers[target].state.last_alert >= Cooldown
                                 -> "alert"
                    [] OTHER     -> "loop")
    /\ UNCHANGED <<scan, todo, target, urgent, restarted, history>>

Alerted(s) == [s EXCEPT !.last_alert = now]

AfterAlert(c) == [c EXCEPT !.state = Alerted(@)]

SaveAlert_InMemory ==
    /\ pc = "alert"
    /\ r' = [r EXCEPT !.containers[target] = AfterAlert(@)]
    /\ urgent' = TRUE
    /\ Goto("notify")
    /\ UNCHANGED <<scan, todo, target, restarted, history>>

\* The time of the urgent message is saved before the message is sent.
SaveAlert ==
    /\ pc = "alert"
    /\ r' = [r EXCEPT !.containers[target] = AfterAlert(@)]
    /\ urgent' = TRUE
    /\ SaveLegacy(target, r'.containers[target].state, "notify")
    /\ UNCHANGED <<scan, todo, target, restarted, history>>

CountNotification ==
    /\ pc = "notify"
    /\ Publish([r EXCEPT !.notifications = @ + 1], "send")
    /\ UNCHANGED <<scan, todo, target, urgent, restarted, history>>

Send ==
    /\ pc = "send"
    /\ sent' = sent + 1
    /\ lastUrgent' = IF urgent THEN [lastUrgent EXCEPT ![target] = now] ELSE lastUrgent
    /\ \E failed \in {0, 1} : r' = [r EXCEPT !.notification_failures = @ + failed]
    /\ Goto("sent")
    /\ UNCHANGED <<scan, todo, target, urgent, restarted, issued, restartTimes, counted, unconfirmed>>

PublishSent ==
    /\ pc = "sent"
    /\ Publish(r, "loop")
    /\ UNCHANGED <<scan, todo, target, urgent, restarted, history>>

\* State files of containers that are gone are deleted, and only those.
Orphans == {c \in Containers \ present : file[c] # "none"}

CollectGarbage ==
    /\ pc = "loop" /\ todo = {}
    /\ \E c \in Orphans :
        \/ /\ file' = [file EXCEPT ![c] = "none"]
           /\ legacy' = [legacy EXCEPT ![c] = ZeroState]
           /\ UNCHANGED <<pc, faults>>
        \/ /\ Fault
           /\ pc' = "failing"
           /\ UNCHANGED <<file, legacy>>
    /\ UNCHANGED <<ledger, textfile, scan, loop, history>>

Finish ==
    /\ pc = "loop" /\ todo = {} /\ Orphans = {}
    /\ Publish([r EXCEPT !.success = TRUE], "idle")
    /\ UNCHANGED <<scan, todo, target, urgent, restarted, history>>
-----------------------------------------------------------------------------
\* The 240 s timeout, a reboot, an out-of-memory kill: between any two effects.
Crash ==
    /\ pc # "idle"
    /\ Fault
    /\ pc' = "idle"
    /\ UNCHANGED <<disk, scan, loop, history>>

\* The operator removes a state file that no longer parses.
Repair(c) ==
    /\ pc = "idle"
    /\ file[c] = "malformed"
    /\ file' = [file EXCEPT ![c] = "none"]
    /\ UNCHANGED <<ledger, textfile, legacy, pc, scan, loop, history, faults>>

\* The bounded clock has run out: the model ends between two scans.
EndOfModel ==
    /\ pc = "idle"
    /\ \A gap \in Gaps : now + gap > Horizon
    /\ UNCHANGED vars

Next ==
    \/ Start \/ ListUnhealthy \/ ReadInventory \/ FailScan \/ PublishObserved
    \/ \E c \in Containers : Visit(c)
    \/ Intend \/ Restart \/ Record \/ PublishOutcome \/ SaveAlert
    \/ CountNotification \/ Send \/ PublishSent
    \/ CollectGarbage \/ Finish
    \/ Crash
    \/ \E c \in Containers : Repair(c)
    \/ EndOfModel

Spec == Init /\ [][Next]_vars
-----------------------------------------------------------------------------
Labels == {"idle", "ps", "ps -a", "failing", "observed", "loop", "intend", "restart",
           "record", "outcome", "alert", "notify", "send", "sent"}

DiskOK ==
    /\ ledger \in Result /\ textfile \in Result
    /\ file \in [Containers -> {"none", "valid", "malformed"}]
    /\ legacy \in [Containers -> State]

ScanOK ==
    /\ pc \in Labels /\ now \in Nat
    /\ listed \subseteq Containers /\ present \subseteq Containers
    /\ plan \in [Containers -> Plan]

LoopOK ==
    /\ r \in Result
    /\ todo \subseteq Containers /\ target \in Containers
    /\ urgent \in BOOLEAN /\ restarted \in BOOLEAN

HistoryOK ==
    /\ issued \in Nat /\ sent \in Nat
    /\ restartTimes \in [Containers -> SUBSET Nat]
    /\ counted \in [Containers -> SUBSET Nat]
    /\ unconfirmed \subseteq Containers
    /\ lastUrgent \in [Containers -> Nat]
    /\ faults \in Nat

\* Every variable has its type: the ledger, the textfile and the Result in
\* memory are Results, and every legacy file holds four naturals (ParseState).
TypeOK == DiskOK /\ ScanOK /\ LoopOK /\ HistoryOK

\* Write-ahead: the ledger on disk has announced every docker restart command
\* and every notification ever started, whatever dies in between.
Announced ==
    /\ issued <= ledger.attempts
    /\ sent <= ledger.notifications

\* Between scans, every announced attempt has its outcome in the ledger, except
\* at most one for each crash or failed write.
OutcomesAccounted ==
    pc = "idle" => ledger.attempts <= ledger.restarts + ledger.failures + faults

\* A restart that failed, or was cut off before its outcome was known, shows
\* as restart_failed on disk until the container restarts or is seen healthy.
FailureStaysVisible ==
    \A c \in unconfirmed : ledger.containers[c].restart_failed

\* Any window of one Day holds at most MaxRestarts successful restarts of a
\* container, and one more for each crash or failed write: a success that died
\* before its legacy file counted it.
Window(c, t) == {u \in restartTimes[c] : t - Day < u /\ u <= t}

BudgetPerDay ==
    \A c \in Containers : \A t \in restartTimes[c] :
        Cardinality(Window(c, t)) <= MaxRestarts + faults

\* Two urgent notifications about a container that stayed unhealthy in between
\* are at least Cooldown apart, crashes included.
UrgentSpacing ==
    [][\A c \in Containers :
            lastUrgent[c] # 0 /\ lastUrgent'[c] \notin {0, lastUrgent[c]}
                => lastUrgent'[c] - lastUrgent[c] >= Cooldown]_lastUrgent

\* Prometheus never sees a counter go back: the ledger is written before the
\* textfile, so a scan that resumes from the ledger is never behind it.
CountersMonotone ==
    [][/\ textfile'.attempts >= textfile.attempts
       /\ textfile'.restarts >= textfile.restarts
       /\ textfile'.failures >= textfile.failures
       /\ textfile'.notifications >= textfile.notifications
       /\ textfile'.notification_failures >= textfile.notification_failures]_textfile

\* No legacy file changes, no restart and no message goes out before the disk
\* says that both inventories were valid and that the scan is not finished.
PublishedBeforeAction ==
    [][legacy' # legacy \/ issued' # issued \/ sent' # sent
            => ledger.docker_read_ok /\ ~ledger.success]_<<legacy, issued, sent>>

\* A ledger that reports success agrees with the legacy files: the published
\* restart counts are those the next scan's budget decision starts from.
SuccessAgreement ==
    ledger.success => \A c \in Containers : ledger.containers[c].state = legacy[c]
=============================================================================
