----------------------------- MODULE AutoDeploy -----------------------------
(***************************************************************************)
(* The Pi-side GitOps controller: homelab-autodeploy.sh, run from cron,    *)
(* and the decisions it takes in homelab_autodeploy.py.                    *)
(*                                                                         *)
(* A run adopts the commit of the newest deploy tag, deploys the targets   *)
(* whose files differ from the last good commit, in dependency order, and  *)
(* on the first failure resets the checkout and deploys the attempted      *)
(* targets again.  Runs exclude one another (flock -n).  The script does   *)
(* not stop at a failing command (no `set -e`): a failed reset, state      *)
(* write or plan is a fault after which the run simply goes on.            *)
(*                                                                         *)
(* Targets are numbers in the order in which a plan deploys them.  Tree    *)
(* says which version of a target's files a commit holds; a plan is the    *)
(* set of targets on which two commits differ.                             *)
(***************************************************************************)
EXTENDS Integers, FiniteSets

CONSTANTS
    Targets,       \* deployable targets, as numbers in plan order
    Commits,       \* commits a deploy tag may point at
    Initial,       \* the commit checked out and running at first
    None,          \* no commit: an empty field of the state file
    Tree,          \* Tree[c][t]: version of target t's files in commit c
    NeverAuto,     \* NEVER_AUTO: targets only the operator deploys, all with a baseline
    CIGate,        \* is a CI token configured
    MaxTags,       \* deploy tags cut (bound)
    MaxManual,     \* deploys by the operator (bound)
    MaxFaults      \* crashes and failing commands (bound)

NoPlaybook == 0    \* the version of a target a commit does not contain
Partial    == -1   \* the running state after some of a playbook's tasks

ASSUME AutoDeployAssumption ==
    /\ Targets \subseteq Nat /\ IsFiniteSet(Targets)
    /\ Initial \in Commits /\ None \notin Commits
    /\ Tree \in [Commits -> [Targets -> Nat]]
    /\ NeverAuto \subseteq Targets
    /\ CIGate \in BOOLEAN
    /\ MaxTags \in Nat /\ MaxManual \in Nat /\ MaxFaults \in Nat

VARIABLES
    \* on GitHub
    tag,           \* the commit the newest deploy tag points at, or None
    green,         \* commits whose CI run concluded with success
    \* on the Pi's disk, and what is running
    state,         \* the controller's state file
    head,          \* the checkout's commit
    runtime,       \* per target: the version that runs, or Partial
    marker,        \* per held target: the commit it was last deployed from
    drift,         \* per held target: the drift gauge, 0 or 1
    \* in the memory of the running script
    pc,            \* what the run does next
    origin,        \* ORIGIN: the commit being deployed
    lastGood,      \* LAST_GOOD: plan and rollback baseline
    todo,          \* targets of the current loop still to deploy
    attempted,     \* targets the deploy loop has reached
    rbFail,        \* RB_FAIL: some target failed to restore
    \* observed by nobody: history for the properties
    restored,      \* targets this run's current loop deployed without an error
    suspect,       \* targets a disturbed run may have left off the baseline
    lastAttempt,   \* the commit of the last run that attempted one, or None
    unrecorded,    \* its attempt could not be written to the state file
    tags, manual, faults   \* tags cut, deploys by hand and faults so far

remote  == <<tag, green, tags>>
memory  == <<origin, lastGood, todo, attempted, rbFail>>
history == <<restored, suspect, lastAttempt, unrecorded>>
held    == <<marker, drift, manual>>
vars    == <<remote, state, head, runtime, pc, memory, history, held, faults>>
-----------------------------------------------------------------------------
StateFile == [last_good_sha : Commits \union {None},
              seen_sha      : Commits \union {None},
              failed_sha    : Commits \union {None}]

Seed == [last_good_sha |-> None, seen_sha |-> None, failed_sha |-> None]

\* Definitions named <Definition>_<Slip> are mutants: a bug each that the runs
\* must detect when it takes the definition's place.
needs_deploy_IgnoresSeen(s, c) == c # None /\ c # s.failed_sha /\ c # s.last_good_sha

needs_deploy_StopsWhileHeld(s, c) == c # None /\ s.failed_sha = None /\ c # s.seen_sha

needs_deploy(s, c) == c # None /\ c # s.failed_sha /\ c # s.seen_sha

on_attempt(s, c) == [s EXCEPT !.seen_sha = c]

on_success(s, c) == [s EXCEPT !.last_good_sha = c, !.failed_sha = None]

on_fail(s, c)    == [s EXCEPT !.failed_sha = c]

Baseline_NoFallback == state.last_good_sha

\* LAST_GOOD falls back to the checkout before the first success.
Baseline == IF state.last_good_sha = None THEN head ELSE state.last_good_sha

\* plan_targets without its gates: the targets on which two commits differ.
changed_targets(a, b) == {t \in Targets : Tree[a][t] # Tree[b][t]}

\* plan_targets: the deny-list wins.
plan_targets(a, b) == changed_targets(a, b) \ NeverAuto

\* rollback_targets: every target the deploy loop reached, the failed included.
rollback_targets_SkipFailed == attempted \intersect restored

rollback_targets == attempted

First(S, t) == t \in S /\ \A u \in S : t <= u
-----------------------------------------------------------------------------
Init ==
    /\ tag = None /\ green = {} /\ tags = 0
    /\ state = Seed
    /\ head = Initial
    /\ runtime = Tree[Initial]
    /\ marker = [t \in NeverAuto |-> Initial] /\ drift = [t \in NeverAuto |-> 0]
    /\ manual = 0
    /\ pc = "idle"
    /\ origin = Initial /\ lastGood = Initial
    /\ todo = {} /\ attempted = {} /\ rbFail = FALSE
    /\ restored = {} /\ suspect = {} /\ lastAttempt = None /\ unrecorded = FALSE
    /\ faults = 0

Fault == faults < MaxFaults /\ faults' = faults + 1

\* state_set: a new file moved into place; when that fails the run goes on.
StateSet(new) ==
    \/ state' = new /\ UNCHANGED faults
    \/ state' = state /\ Fault

\* git reset --hard: a failure (a stale index.lock) is logged and ignored.
GitReset(c) ==
    \/ head' = c /\ UNCHANGED faults
    \/ head' = head /\ Fault
-----------------------------------------------------------------------------
\* The operator cuts a deploy tag, on any commit; CI reports on a commit.
CutTag(c) ==
    /\ tags < MaxTags
    /\ tag # c
    /\ tag' = c /\ tags' = tags + 1
    /\ UNCHANGED <<green, state, head, runtime, pc, memory, history, held, faults>>

CIPasses(c) ==
    /\ c \in {tag, origin} \ green      \* the commits a run may ask about
    /\ green' = green \union {c}
    /\ UNCHANGED <<tag, tags, state, head, runtime, pc, memory, history, held, faults>>

\* `make t` on the operator's machine, from any commit.  The role records that
\* commit on the way: a play that fails may or may not have got that far.
ManualDeploy(t, c) ==
    /\ manual < MaxManual
    /\ manual' = manual + 1
    /\ \/ /\ runtime' = [runtime EXCEPT ![t] = Tree[c][t]]
          /\ marker' = [marker EXCEPT ![t] = c]
          /\ UNCHANGED faults
       \/ /\ runtime' = [runtime EXCEPT ![t] = Partial]
          /\ marker' \in {marker, [marker EXCEPT ![t] = c]}
          /\ Fault
    /\ UNCHANGED <<remote, state, head, pc, memory, history, drift>>

\* A run ends, and with it what the script had in memory.
EndRun ==
    /\ pc' = "idle"
    /\ origin' = Initial /\ lastGood' = Initial
    /\ todo' = {} /\ attempted' = {} /\ rbFail' = FALSE /\ restored' = {}

drifted_SinceAdoption(t) == t \in changed_targets(Baseline, tag)

\* Have the files of a held target changed since it was last deployed?
drifted(t) == t \in changed_targets(marker[t], tag)

\* A cron run fetches, resolves the newest tag and its baseline, and publishes
\* the drift of the held targets.  A diff that fails reads as no change.
WatchDrift ==
    /\ pc = "idle" /\ tag # None
    /\ origin' = tag /\ lastGood' = Baseline
    /\ \/ /\ drift' = [t \in NeverAuto |-> IF drifted(t) THEN 1 ELSE 0]
          /\ UNCHANGED faults
       \/ /\ drift' = [t \in NeverAuto |-> 0] /\ Fault
          /\ \E t \in NeverAuto : drifted(t)
    /\ pc' = "gate"
    /\ UNCHANGED <<remote, state, head, runtime, todo, attempted, rbFail, history,
                   marker, manual>>

\* The tag is new and its CI green.
Evaluate ==
    /\ pc = "gate"
    /\ needs_deploy(state, origin)
    /\ CIGate => origin \in green
    /\ pc' = "attempt"
    /\ UNCHANGED <<remote, state, head, runtime, memory, history, held, faults>>

RecordAttempt ==
    /\ pc = "attempt"
    /\ StateSet(on_attempt(state, origin))
    /\ unrecorded' = (state'.seen_sha # origin)
    /\ pc' = "checkout"
    /\ lastAttempt' = origin
    /\ UNCHANGED <<remote, head, runtime, memory, restored, suspect, held>>

Checkout ==
    /\ pc = "checkout"
    /\ GitReset(origin)
    /\ suspect' = IF head' = origin THEN suspect
                  ELSE suspect \union plan_targets(lastGood, origin)
    /\ pc' = "plan"
    /\ UNCHANGED <<remote, state, runtime, memory, restored, lastAttempt, unrecorded, held>>

\* The diff and the plan; if either command fails the plan is empty.
ComputePlan ==
    /\ pc = "plan"
    /\ \/ todo' = plan_targets(lastGood, origin) /\ UNCHANGED <<suspect, faults>>
       \/ /\ todo' = {} /\ Fault
          /\ suspect' = suspect \union plan_targets(lastGood, origin)
    /\ pc' = IF todo' = {} THEN "adopt" ELSE "deploy"
    /\ UNCHANGED <<remote, state, head, runtime, origin, lastGood, attempted, rbFail,
                   restored, lastAttempt, unrecorded, held>>

(***************************************************************************)
(* deploy_target: up to three attempts at one playbook, taken as one step. *)
(* Without a playbook it returns 0 and does nothing.  A failure leaves the *)
(* target as it was (the check failed) or with some of its tasks applied.  *)
(***************************************************************************)
DeployOK(t) ==
    /\ runtime' = IF Tree[head][t] = NoPlaybook THEN runtime
                  ELSE [runtime EXCEPT ![t] = Tree[head][t]]
    /\ restored' = restored \union {t}

DeployFails(t) ==
    /\ Tree[head][t] # NoPlaybook
    /\ runtime' \in {runtime, [runtime EXCEPT ![t] = Partial]}
    /\ UNCHANGED restored

AfterDeploy_GoesOn(ok) == IF todo' = {} THEN "adopt" ELSE "deploy"

AfterDeploy(ok) ==
    IF ~ok THEN "reset" ELSE IF todo' = {} THEN "adopt" ELSE "deploy"

\* The deploy loop: in order, up to the first failure.
Deploy(t) ==
    /\ pc = "deploy"
    /\ First(todo, t)
    /\ todo' = todo \ {t}
    /\ attempted' = attempted \union {t}
    /\ \/ DeployOK(t)    /\ pc' = AfterDeploy(TRUE)
       \/ DeployFails(t) /\ pc' = AfterDeploy(FALSE)
    /\ UNCHANGED <<remote, state, head, origin, lastGood, rbFail, suspect, lastAttempt, unrecorded, faults, held>>

\* What a run cut short leaves in doubt: what it reached, and before the first
\* success, when the moving checkout is itself the baseline, its whole plan.
Exposed == attempted \union (IF state.last_good_sha = None /\ pc # "gate"
                             THEN plan_targets(lastGood, origin) ELSE {})

\* Targets whose playbook the checkout lacks though something of them runs.
Undeployable(S) == {t \in S : Tree[head][t] = NoPlaybook /\ runtime[t] # NoPlaybook}

\* Every target deployed, or nothing to deploy: the commit is the last good.
Adopt ==
    /\ pc = "adopt"
    /\ StateSet(on_success(state, origin))
    /\ suspect' =
         IF state'.last_good_sha # origin THEN suspect \union Exposed
         ELSE (IF head = origin THEN suspect \ restored ELSE suspect)
                  \union Undeployable(attempted)
    /\ EndRun
    /\ UNCHANGED <<remote, head, runtime, lastAttempt, unrecorded, held>>

\* Rollback: the files first, then the attempted targets.
Reset ==
    /\ pc = "reset"
    /\ GitReset(lastGood)
    /\ suspect' = IF head' = lastGood THEN suspect ELSE suspect \union Exposed
    /\ pc' = "select"
    /\ UNCHANGED <<remote, state, runtime, memory, restored, lastAttempt, unrecorded, held>>

SelectRestore ==
    /\ pc = "select"
    /\ restored' = {}
    /\ \/ todo' = rollback_targets /\ UNCHANGED <<suspect, faults>>
       \/ todo' = {} /\ Fault /\ suspect' = suspect \union attempted
    /\ pc' = IF todo' = {} THEN "fail" ELSE "restore"
    /\ UNCHANGED <<remote, state, head, runtime, origin, lastGood, attempted, rbFail, lastAttempt, unrecorded, held>>

\* The restore loop goes on after a failure.
Restore(t) ==
    /\ pc = "restore"
    /\ First(todo, t)
    /\ todo' = todo \ {t}
    /\ \/ DeployOK(t)    /\ UNCHANGED <<rbFail, suspect>>
       \/ DeployFails(t) /\ rbFail' = TRUE /\ suspect' = suspect \union {t}
    /\ pc' = IF todo' = {} THEN "fail" ELSE "restore"
    /\ UNCHANGED <<remote, state, head, origin, lastGood, attempted, lastAttempt, unrecorded, faults, held>>

RecordFailure ==
    /\ pc = "fail"
    /\ StateSet(on_fail(state, origin))
    /\ suspect' = (IF head = lastGood THEN suspect \ restored ELSE suspect)
                      \union Undeployable(attempted)
    /\ EndRun
    /\ UNCHANGED <<remote, head, runtime, lastAttempt, unrecorded, held>>
-----------------------------------------------------------------------------
\* A reboot or a kill; the target being deployed may be left half applied.
Current == {t \in todo : pc \in {"deploy", "restore"} /\ First(todo, t)}

Crash ==
    /\ pc # "idle"
    /\ Fault
    /\ \E hit \in SUBSET {t \in Current : Tree[head][t] # NoPlaybook} :
        /\ runtime' = [t \in Targets |-> IF t \in hit THEN Partial ELSE runtime[t]]
        /\ suspect' = suspect \union Exposed \union hit
    /\ EndRun
    /\ UNCHANGED <<remote, state, head, lastAttempt, unrecorded, held>>

\* A cron run that ends early: a handled tag, CI pending or red.
NothingToDo ==
    /\ pc = "gate"
    /\ ~needs_deploy(state, origin) \/ (CIGate /\ origin \notin green)
    /\ EndRun
    /\ UNCHANGED <<remote, state, head, runtime, suspect, lastAttempt, unrecorded, held, faults>>

\* One that finds no tag.
NoTag == pc = "idle" /\ tag = None /\ UNCHANGED vars

Controller ==
    \/ WatchDrift \/ Evaluate \/ NothingToDo \/ RecordAttempt \/ Checkout \/ ComputePlan
    \/ \E t \in Targets : Deploy(t)
    \/ Adopt \/ Reset \/ SelectRestore
    \/ \E t \in Targets : Restore(t)
    \/ RecordFailure

Next ==
    \/ \E c \in Commits : CutTag(c) \/ CIPasses(c)
    \/ Controller
    \/ NoTag
    \/ \E t \in NeverAuto, c \in Commits : ManualDeploy(t, c)
    \/ Crash

Spec == Init /\ [][Next]_vars

\* Cron starts a run every cycle and a run that is not killed goes on.
FairSpec == Spec /\ WF_vars(Controller)
-----------------------------------------------------------------------------
\* Every variable has its type; a target runs a version or is half applied.
TypeOK ==
    /\ tag \in Commits \union {None} /\ green \subseteq Commits
    /\ state \in StateFile
    /\ head \in Commits
    /\ runtime \in [Targets -> Nat \union {Partial}]
    /\ marker \in [NeverAuto -> Commits] /\ drift \in [NeverAuto -> {0, 1}]
    /\ pc \in {"idle", "gate", "attempt", "checkout", "plan", "deploy", "adopt",
               "reset", "select", "restore", "fail"}
    /\ origin \in Commits /\ lastGood \in Commits
    /\ todo \subseteq Targets /\ attempted \subseteq Targets /\ restored \subseteq Targets
    /\ suspect \subseteq Targets
    /\ lastAttempt \in Commits \union {None}
    /\ rbFail \in BOOLEAN /\ unrecorded \in BOOLEAN
    /\ tags \in Nat /\ manual \in Nat /\ faults \in Nat

\* Between runs, every target of the controller runs exactly what the last good commit holds,
\* except those a disturbed run touched: attempted by a run that crashed, lost
\* a command or failed to restore them, and not deployed by a clean run since.
\* The plan's diff and the rollback's scope are only right for the others.
BlastRadius ==
    pc = "idle" => \A t \in Targets \ (suspect \union NeverAuto) : runtime[t] = Tree[Baseline][t]

\* A target is deployed only on top of the new version of every target that
\* precedes it in the plan: the loop stops at the first failure.
DependenciesFirst ==
    pc \in {"deploy", "adopt"} =>
        \A t \in attempted : Tree[head][t] \in {NoPlaybook, runtime[t]}

\* No commit is attempted twice in a row, whatever became of the first attempt
\* (success, rollback, crash), unless the state file missed the attempt.
NoRetry ==
    [][pc = "gate" /\ pc' = "attempt" => origin' # lastAttempt \/ unrecorded]_pc

\* The newest deploy tag, once its CI is green, is attempted or superseded.
TagHandled ==
    LET due == tag \in green \ {state.seen_sha, state.failed_sha} IN due ~> ~due

\* The drift gauge of a held target is not cleared by the adoption of the
\* commit that changed it: only when the target runs what the newest tag holds,
\* or its manual deploy failed, or the run's diff did
\* (homelab-autodeploy.sh.j2:139-174).
DriftClearsByDeploy ==
    [][\A t \in NeverAuto :
          drift[t] = 1 /\ drift'[t] = 0
          => runtime[t] \in {Tree[origin'][t], Partial} \/ faults' # faults]_vars

\* A held target that does not run what the newest tag holds is shown to drift,
\* also when its commit has long been adopted.
DriftIsShown ==
    \A t \in NeverAuto :
        LET behind == tag # None /\ runtime[t] \notin {Tree[tag][t], Partial}
        IN behind ~> drift[t] = 1 \/ ~behind

\* The docstring of rollback_targets: the failed target "MUST therefore be
\* re-deployed at last-good to reconverge".  A rollback that reports success
\* leaves no attempted target half applied.
RollbackReconverges ==
    pc = "fail" /\ ~rbFail => \A t \in attempted : runtime[t] # Partial

\* The homelab_autodeploy_held gauge is "1 while a failed commit is held (not
\* yet superseded by a green deploy)": a hold is not lifted by a run that
\* deploys nothing while a target is still half applied.
HeldUntilGreen ==
    [][state.failed_sha # None /\ state'.failed_sha = None
            => restored # {} \/ \A t \in Targets : runtime[t] # Partial]_state
=============================================================================
