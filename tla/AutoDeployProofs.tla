-------------------------- MODULE AutoDeployProofs --------------------------
(***************************************************************************)
(* Proofs about the GitOps controller, for any targets, commits, deny-list *)
(* and deploy tags, and any number of faults and manual deploys.           *)
(***************************************************************************)
EXTENDS AutoDeploy, TLAPS

(* The types of the variables, grouped by who changes them. *)

PCs == {"idle", "gate", "attempt", "checkout", "plan", "deploy", "adopt",
        "reset", "select", "restore", "fail"}

RemoteTypes == tag \in Commits \union {None} /\ green \subseteq Commits /\ tags \in Nat

HeldTypes == /\ marker \in [NeverAuto -> Commits] /\ drift \in [NeverAuto -> {0, 1}]
             /\ manual \in Nat

DiskTypes == state \in StateFile /\ head \in Commits

RunTypes == /\ pc \in PCs
            /\ origin \in Commits /\ lastGood \in Commits
            /\ lastAttempt \in Commits \union {None}

SetTypes == /\ todo \subseteq Targets /\ attempted \subseteq Targets
            /\ restored \subseteq Targets /\ suspect \subseteq Targets

FlagTypes == rbFail \in BOOLEAN /\ unrecorded \in BOOLEAN

Types == /\ RemoteTypes /\ HeldTypes /\ DiskTypes /\ RunTypes /\ SetTypes /\ FlagTypes
         /\ runtime \in [Targets -> Nat \union {Partial}] /\ faults \in Nat

LEMMA TypesImply == Types => TypeOK
BY DEF Types, RemoteTypes, HeldTypes, DiskTypes, RunTypes, SetTypes, FlagTypes, PCs, TypeOK

LEMMA PlanType ==
    ASSUME NEW a, NEW b
    PROVE  plan_targets(a, b) \subseteq Targets \ NeverAuto
BY DEF plan_targets, changed_targets

\* A version in some commit.
LEMMA TreeType ==
    ASSUME NEW c \in Commits, NEW t \in Targets
    PROVE  Tree[c][t] \in Nat
BY AutoDeployAssumption

LEMMA ConfigFacts ==
    /\ Initial \in Commits /\ None \notin Commits /\ NeverAuto \subseteq Targets
    /\ Targets \subseteq Nat
BY AutoDeployAssumption

\* The steps that change the remote, and those that leave it alone.
LEMMA RemoteKept ==
    ASSUME Types, [Next]_vars
    PROVE  RemoteTypes'
<1>1. ASSUME NEW c \in Commits, CutTag(c) PROVE RemoteTypes'
    BY <1>1 DEF CutTag, Types, RemoteTypes
<1>2. ASSUME NEW c \in Commits, CIPasses(c) PROVE RemoteTypes'
    BY <1>2 DEF CIPasses, Types, RemoteTypes
<1>3. CASE UNCHANGED remote
    BY <1>3 DEF remote, Types, RemoteTypes
<1>4. QED
    BY <1>1, <1>2, <1>3
       DEF Next, Controller, WatchDrift, Evaluate, NothingToDo, RecordAttempt, Checkout,
           ComputePlan, Deploy, Adopt, Reset, SelectRestore, Restore, RecordFailure, NoTag,
           ManualDeploy, Crash, vars

LEMMA HeldKept ==
    ASSUME Types, [Next]_vars
    PROVE  HeldTypes'
<1>1. HeldTypes
    BY DEF Types
<1>2. CASE WatchDrift
    BY <1>1, <1>2 DEF WatchDrift, HeldTypes
<1>3. ASSUME NEW t \in NeverAuto, NEW c \in Commits, ManualDeploy(t, c) PROVE HeldTypes'
    BY <1>1, <1>3 DEF ManualDeploy, HeldTypes
<1>4. CASE UNCHANGED held
    BY <1>1, <1>4 DEF held, HeldTypes
<1>5. QED
    BY <1>2, <1>3, <1>4
       DEF Next, Controller, Evaluate, NothingToDo, RecordAttempt, Checkout,
           ComputePlan, Deploy, Adopt, Reset, SelectRestore, Restore, RecordFailure, NoTag,
           CutTag, CIPasses, Crash, vars

LEMMA StateTypes ==
    ASSUME NEW s \in StateFile, NEW c \in Commits
    PROVE  on_attempt(s, c) \in StateFile /\ on_success(s, c) \in StateFile
           /\ on_fail(s, c) \in StateFile
BY DEF on_attempt, on_success, on_fail, StateFile

LEMMA DiskKept ==
    ASSUME Types, [Next]_vars
    PROVE  DiskTypes'
<1>1. state \in StateFile /\ head \in Commits /\ origin \in Commits /\ lastGood \in Commits
    BY DEF Types, DiskTypes, RunTypes
<1>2. CASE RecordAttempt
    BY <1>1, <1>2, StateTypes DEF RecordAttempt, StateSet, DiskTypes
<1>3. CASE Adopt
    BY <1>1, <1>3, StateTypes DEF Adopt, StateSet, DiskTypes
<1>4. CASE RecordFailure
    BY <1>1, <1>4, StateTypes DEF RecordFailure, StateSet, DiskTypes
<1>5. CASE Checkout \/ Reset
    BY <1>1, <1>5 DEF Checkout, Reset, GitReset, DiskTypes
<1>6. CASE UNCHANGED <<state, head>>
    BY <1>1, <1>6 DEF DiskTypes
<1>7. QED
    BY <1>2, <1>3, <1>4, <1>5, <1>6
       DEF Next, Controller, WatchDrift, Evaluate, NothingToDo, ComputePlan, Deploy,
           SelectRestore, Restore, NoTag, ManualDeploy, CutTag, CIPasses, Crash, vars

LEMMA FaultsKept ==
    ASSUME Types, [Next]_vars
    PROVE  faults' \in Nat
<1>1. CASE Fault
    BY <1>1 DEF Fault, Types
<1>2. CASE UNCHANGED faults
    BY <1>2 DEF Types
<1>3. QED
    BY <1>1, <1>2
       DEF Next, Controller, WatchDrift, Evaluate, NothingToDo, RecordAttempt, StateSet, Checkout,
           GitReset, ComputePlan, Deploy, Adopt, Reset, SelectRestore, Restore, RecordFailure,
           NoTag, ManualDeploy, CutTag, CIPasses, Crash, vars
-----------------------------------------------------------------------------
(* What the steps that deploy do.                                          *)

\* A good version, or nothing to deploy.
Deployed(t) == Tree[head][t] \in {NoPlaybook, runtime[t]}

LEMMA DeployOKFacts ==
    ASSUME Types, NEW t \in Targets, DeployOK(t), UNCHANGED head
    PROVE  /\ runtime' \in [Targets -> Nat \union {Partial}]
           /\ \A u \in Targets \ {t} : runtime'[u] = runtime[u]
           /\ Tree[head][t] \in {NoPlaybook, runtime'[t]}
           /\ restored' = restored \union {t}
<1>1. Tree[head][t] \in Nat /\ runtime \in [Targets -> Nat \union {Partial}]
    BY TreeType DEF Types, DiskTypes
<1>2. QED
    BY <1>1 DEF DeployOK

LEMMA DeployFailsFacts ==
    ASSUME Types, NEW t \in Targets, DeployFails(t)
    PROVE  /\ runtime' \in [Targets -> Nat \union {Partial}]
           /\ \A u \in Targets \ {t} : runtime'[u] = runtime[u]
           /\ restored' = restored
<1>1. runtime \in [Targets -> Nat \union {Partial}]
    BY DEF Types
<1>2. QED
    BY <1>1 DEF DeployFails

\* One turn of the deploy loop: the target is deployed and the loop goes on, or
\* it fails and the rollback begins.
LEMMA DeployFacts ==
    ASSUME Types, NEW t \in Targets, Deploy(t)
    PROVE  /\ pc = "deploy" /\ t \in todo
           /\ todo' = todo \ {t} /\ attempted' = attempted \union {t}
           /\ UNCHANGED <<head, origin, lastGood, state, suspect, lastAttempt>>
           /\ runtime' \in [Targets -> Nat \union {Partial}]
           /\ \A u \in Targets \ {t} : runtime'[u] = runtime[u]
           /\ restored \subseteq restored' /\ restored' \subseteq restored \union {t}
           /\ \/ pc' = "reset"
              \/ /\ pc' = (IF todo' = {} THEN "adopt" ELSE "deploy")
                 /\ Tree[head][t] \in {NoPlaybook, runtime'[t]}
<1>1. /\ pc = "deploy" /\ t \in todo
      /\ todo' = todo \ {t} /\ attempted' = attempted \union {t}
      /\ UNCHANGED <<head, origin, lastGood, state, suspect, lastAttempt>>
    BY DEF Deploy, First
<1>2. CASE DeployOK(t) /\ pc' = AfterDeploy(TRUE)
    <2>1. pc' = IF todo' = {} THEN "adopt" ELSE "deploy"
        BY <1>2 DEF AfterDeploy
    <2>2. QED
        BY <1>1, <1>2, <2>1, DeployOKFacts
<1>3. CASE DeployFails(t) /\ pc' = AfterDeploy(FALSE)
    <2>1. pc' = "reset"
        BY <1>3 DEF AfterDeploy
    <2>2. QED
        BY <1>1, <1>3, <2>1, DeployFailsFacts
<1>4. QED
    BY <1>2, <1>3 DEF Deploy

\* One turn of the restore loop, which goes on after a failure.
LEMMA RestoreFacts ==
    ASSUME Types, NEW t \in Targets, Restore(t)
    PROVE  /\ pc = "restore" /\ t \in todo /\ todo' = todo \ {t}
           /\ pc' = (IF todo' = {} THEN "fail" ELSE "restore")
           /\ UNCHANGED <<head, origin, lastGood, state, attempted, lastAttempt>>
           /\ runtime' \in [Targets -> Nat \union {Partial}]
           /\ \A u \in Targets \ {t} : runtime'[u] = runtime[u]
           /\ \/ /\ Tree[head][t] \in {NoPlaybook, runtime'[t]}
                 /\ restored' = restored \union {t} /\ suspect' = suspect
              \/ restored' = restored /\ suspect' = suspect \union {t}
<1>1. /\ pc = "restore" /\ t \in todo /\ todo' = todo \ {t}
      /\ pc' = (IF todo' = {} THEN "fail" ELSE "restore")
      /\ UNCHANGED <<head, origin, lastGood, state, attempted, lastAttempt>>
    BY DEF Restore, First
<1>2. CASE DeployOK(t) /\ UNCHANGED suspect
    BY <1>1, <1>2, DeployOKFacts
<1>3. CASE DeployFails(t) /\ suspect' = suspect \union {t}
    BY <1>1, <1>3, DeployFailsFacts
<1>4. QED
    BY <1>2, <1>3 DEF Restore
-----------------------------------------------------------------------------
(* Types.                                                                  *)

LEMMA RuntimeKept ==
    ASSUME Types, [Next]_vars
    PROVE  runtime' \in [Targets -> Nat \union {Partial}]
<1>1. runtime \in [Targets -> Nat \union {Partial}]
    BY DEF Types
<1>2. ASSUME NEW t \in NeverAuto, NEW c \in Commits, ManualDeploy(t, c)
      PROVE  runtime' \in [Targets -> Nat \union {Partial}]
    <2>1. t \in Targets /\ Tree[c][t] \in Nat
        BY ConfigFacts, TreeType
    <2>2. QED
        BY <1>1, <1>2, <2>1 DEF ManualDeploy
<1>3. ASSUME NEW t \in Targets, Deploy(t) \/ Restore(t)
      PROVE  runtime' \in [Targets -> Nat \union {Partial}]
    BY <1>3, DeployFacts, RestoreFacts
<1>4. CASE Crash
    BY <1>1, <1>4 DEF Crash
<1>5. CASE UNCHANGED runtime
    BY <1>1, <1>5
<1>6. QED
    BY <1>2, <1>3, <1>4, <1>5
       DEF Next, Controller, WatchDrift, Evaluate, NothingToDo, RecordAttempt, Checkout,
           ComputePlan, Adopt, Reset, SelectRestore, RecordFailure, NoTag, CutTag, CIPasses, vars

LEMMA BaselineType ==
    ASSUME Types
    PROVE  Baseline \in Commits
BY DEF Types, DiskTypes, StateFile, Baseline

LEMMA RunKept ==
    ASSUME Types, [Next]_vars
    PROVE  RunTypes'
<1>1. RunTypes
    BY DEF Types
<1>2. CASE WatchDrift
    BY <1>1, <1>2, BaselineType DEF WatchDrift, RunTypes, PCs, Types, RemoteTypes, history
<1>3. CASE RecordAttempt
    BY <1>1, <1>3 DEF RecordAttempt, RunTypes, PCs, memory
<1>4. ASSUME NEW t \in Targets, Deploy(t) \/ Restore(t) PROVE RunTypes'
    BY <1>1, <1>4, DeployFacts, RestoreFacts DEF RunTypes, PCs
<1>5. CASE EndRun /\ UNCHANGED lastAttempt
    BY <1>1, <1>5, ConfigFacts DEF EndRun, RunTypes, PCs
<1>6. CASE pc' \in PCs /\ UNCHANGED <<origin, lastGood, lastAttempt>>
    BY <1>1, <1>6 DEF RunTypes
<1>7. CASE Evaluate \/ Checkout \/ ComputePlan \/ Reset \/ SelectRestore
    BY <1>6, <1>7 DEF Evaluate, Checkout, ComputePlan, Reset, SelectRestore, PCs, memory, history
<1>8. CASE UNCHANGED <<pc, origin, lastGood, lastAttempt>>
    BY <1>1, <1>8 DEF RunTypes
<1>9. QED
    BY <1>2, <1>3, <1>4, <1>5, <1>7, <1>8
       DEF Next, Controller, NothingToDo, Adopt, RecordFailure, NoTag, CutTag, CIPasses,
           ManualDeploy, Crash, vars, memory, history

LEMMA SetsKept ==
    ASSUME Types, [Next]_vars
    PROVE  SetTypes'
<1>1. SetTypes
    BY DEF Types
<1>2. Exposed \subseteq Targets
    BY <1>1, PlanType DEF Exposed, SetTypes
<1>3. \A S \in SUBSET Targets : Undeployable(S) \subseteq Targets
    BY DEF Undeployable
<1>4. ASSUME NEW t \in Targets, Deploy(t) \/ Restore(t) PROVE SetTypes'
    BY <1>1, <1>4, DeployFacts, RestoreFacts DEF SetTypes
<1>5. CASE Checkout \/ Reset
    BY <1>1, <1>2, <1>5, PlanType DEF Checkout, Reset, SetTypes, memory
<1>6. CASE ComputePlan
    BY <1>1, <1>6, PlanType DEF ComputePlan, SetTypes
<1>7. CASE SelectRestore
    BY <1>1, <1>7 DEF SelectRestore, SetTypes, rollback_targets
<1>8. ASSUME EndRun, suspect' \subseteq Targets PROVE SetTypes'
    BY <1>8 DEF EndRun, SetTypes
<1>9. CASE Adopt \/ RecordFailure
    <2>1. suspect' \subseteq Targets
        BY <1>1, <1>2, <1>3, <1>9 DEF Adopt, RecordFailure, SetTypes
    <2>2. QED
        BY <1>8, <1>9, <2>1 DEF Adopt, RecordFailure
<1>10. CASE Crash
    <2>1. suspect' \subseteq Targets
        BY <1>1, <1>2, <1>10 DEF Crash, Current, SetTypes
    <2>2. QED
        BY <1>8, <1>10, <2>1 DEF Crash
<1>11. CASE NothingToDo
    BY <1>1, <1>8, <1>11 DEF NothingToDo, SetTypes
<1>12. CASE UNCHANGED <<todo, attempted, restored, suspect>>
    BY <1>1, <1>12 DEF SetTypes
<1>13. QED
    BY <1>4, <1>5, <1>6, <1>7, <1>9, <1>10, <1>11, <1>12
       DEF Next, Controller, WatchDrift, Evaluate, RecordAttempt, NoTag, CutTag, CIPasses,
           ManualDeploy, vars, memory, history

LEMMA FlagsKept ==
    ASSUME Types, [Next]_vars
    PROVE  FlagTypes'
<1>1. rbFail \in BOOLEAN /\ unrecorded \in BOOLEAN
    BY DEF Types, FlagTypes
<1>2. rbFail' \in BOOLEAN
    <2>1. CASE UNCHANGED rbFail
        BY <1>1, <2>1
    <2>2. CASE rbFail' = TRUE \/ rbFail' = FALSE
        BY <2>2
    <2>3. QED
        BY <2>1, <2>2
           DEF Next, Controller, WatchDrift, Evaluate, NothingToDo, RecordAttempt, Checkout,
               ComputePlan, Deploy, Adopt, Reset, SelectRestore, Restore, RecordFailure, NoTag,
               ManualDeploy, CutTag, CIPasses, Crash, EndRun, vars, memory
<1>3. unrecorded' \in BOOLEAN
    <2>1. CASE UNCHANGED unrecorded
        BY <1>1, <2>1
    <2>2. CASE RecordAttempt
        BY <2>2 DEF RecordAttempt
    <2>3. QED
        BY <2>1, <2>2
           DEF Next, Controller, WatchDrift, Evaluate, NothingToDo, Checkout,
               ComputePlan, Deploy, Adopt, Reset, SelectRestore, Restore, RecordFailure, NoTag,
               ManualDeploy, CutTag, CIPasses, Crash, vars, history
<1>4. QED
    BY <1>2, <1>3 DEF FlagTypes

LEMMA TypesInit == Init => Types
<1> SUFFICES ASSUME Init PROVE Types
    OBVIOUS
<1>1. RemoteTypes /\ HeldTypes /\ DiskTypes
    BY ConfigFacts DEF Init, Seed, StateFile, RemoteTypes, HeldTypes, DiskTypes
<1>2. RunTypes /\ SetTypes
    BY ConfigFacts DEF Init, RunTypes, SetTypes, PCs
<1>3. FlagTypes
    BY DEF Init, FlagTypes
<1>4. runtime \in [Targets -> Nat \union {Partial}] /\ faults \in Nat
    BY AutoDeployAssumption DEF Init
<1>5. QED
    BY <1>1, <1>2, <1>3, <1>4 DEF Types

LEMMA TypesKept == Types /\ [Next]_vars => Types'
BY RemoteKept, HeldKept, DiskKept, RunKept, SetsKept, FlagsKept, RuntimeKept, FaultsKept DEF Types

LEMMA TypesAlways == Spec => []Types
BY TypesInit, TypesKept, PTL DEF Spec

\* Every reachable state of the controller is well typed: no run deploys an
\* unknown target or takes the empty field of the state file for a commit.
THEOREM AutoDeployTypes == Spec => []TypeOK
BY TypesAlways, TypesImply, PTL
-----------------------------------------------------------------------------
(* No commit is attempted twice in a row.                                  *)

\* The state file names the last attempt, unless it missed it.
AttemptKnown == unrecorded \/ state.seen_sha = lastAttempt

LEMMA SeenKept ==
    ASSUME NEW s \in StateFile, NEW c
    PROVE  on_success(s, c).seen_sha = s.seen_sha /\ on_fail(s, c).seen_sha = s.seen_sha
BY DEF StateFile, on_success, on_fail

\* A run takes up a commit only if the run before it was for another one, or
\* could not record its attempt: failed and crashed deploys are not retried.
THEOREM OneAttempt == Spec => NoRetry
<1> DEFINE Other == pc = "gate" /\ pc' = "attempt" => origin' # lastAttempt \/ unrecorded
<1>1. Init => AttemptKnown
    BY DEF Init, AttemptKnown, Seed
<1>2. Types /\ AttemptKnown /\ [Next]_vars => AttemptKnown'
    <2> SUFFICES ASSUME Types, AttemptKnown, [Next]_vars PROVE AttemptKnown'
        OBVIOUS
    <2>1. state \in StateFile
        BY DEF Types, DiskTypes
    <2>2. CASE RecordAttempt
        BY <2>2 DEF RecordAttempt, AttemptKnown
    <2>3. CASE state'.seen_sha = state.seen_sha /\ UNCHANGED <<lastAttempt, unrecorded>>
        BY <2>3 DEF AttemptKnown
    <2>4. CASE Adopt \/ RecordFailure
        <3>1. state'.seen_sha = state.seen_sha
            BY <2>1, <2>4, SeenKept DEF Adopt, RecordFailure, StateSet
        <3>2. QED
            BY <2>3, <2>4, <3>1 DEF Adopt, RecordFailure
    <2>5. CASE UNCHANGED <<state, lastAttempt, unrecorded>>
        BY <2>3, <2>5
    <2>6. QED
        BY <2>2, <2>4, <2>5
           DEF Next, Controller, WatchDrift, Evaluate, NothingToDo, Checkout,
               ComputePlan, Deploy, Reset, SelectRestore, Restore, NoTag,
               ManualDeploy, CutTag, CIPasses, Crash, vars, history
<1>3. Types /\ AttemptKnown /\ [Next]_vars => [Other]_pc
    <2> SUFFICES ASSUME Types, AttemptKnown, [Next]_vars, pc = "gate", pc' = "attempt"
                 PROVE  origin' # lastAttempt \/ unrecorded
        OBVIOUS
    <2>1. Evaluate
        <3>1. \A t \in Targets : ~Deploy(t) /\ ~Restore(t)
            BY DeployFacts, RestoreFacts
        <3>2. QED
            BY <3>1 DEF Next, Controller, WatchDrift, NothingToDo, RecordAttempt, Checkout,
               ComputePlan, Adopt, Reset, SelectRestore, RecordFailure, EndRun, NoTag,
               ManualDeploy, CutTag, CIPasses, Crash, vars
    <2>2. QED
        BY <2>1 DEF Evaluate, needs_deploy, AttemptKnown, memory
<1>4. QED
    BY <1>1, <1>2, <1>3, TypesAlways, PTL DEF Spec, NoRetry
-----------------------------------------------------------------------------
(* What runs, and from which commit.                                       *)

\* A run takes its baseline from the state file.  Before the first success that
\* is the checkout, which is then at the baseline or at the new commit, and does
\* not move before the checkout step.
Early == {"gate", "attempt", "checkout"}
BaselineKnown ==
    pc # "idle" =>
        /\ state.last_good_sha # None => lastGood = state.last_good_sha
        /\ state.last_good_sha = None => head \in {lastGood, origin}
        /\ state.last_good_sha = None /\ pc \in Early => head = lastGood

\* What a run has not reached runs the baseline's version.
Untouched ==
    pc # "idle" => \A t \in Targets \ (suspect \union NeverAuto \union attempted) :
                        runtime[t] = Tree[lastGood][t]

\* A run reaches only targets of its plan, and nothing before it has planned.
Plan == plan_targets(lastGood, origin)
InScope ==
    /\ attempted \union todo \subseteq Plan
    /\ restored \subseteq attempted
    /\ pc \in Early \union {"plan"} => attempted = {}
    /\ pc \in {"adopt", "fail"} => todo = {}

\* A run ends with its memory, and restores only what it has attempted.
IdleClean == pc = "idle" => attempted = {} /\ todo = {} /\ restored = {}
RestoreScope == pc = "restore" => todo \subseteq attempted

\* A run that deploys from another checkout than it means to distrusts its plan.
CheckoutKnown ==
    pc \in {"plan", "deploy", "adopt"} /\ head # origin => Plan \subseteq suspect

PlanKept == pc \in {"deploy", "adopt"} => Plan \subseteq attempted \union todo \union suspect

\* So does a run that restores from another checkout than the baseline.
ResetKnown ==
    pc \in {"select", "restore", "fail"} /\ head # lastGood
    => attempted \subseteq suspect /\ (state.last_good_sha = None => Plan \subseteq suspect)

\* The restore loop accounts for every attempted target.
RestoreKnown ==
    pc \in {"restore", "fail"} =>
        /\ todo \intersect restored = {}
        /\ \A t \in attempted : t \in todo \/ t \in suspect \ restored \/ Deployed(t)

RunInv == /\ IdleClean /\ RestoreScope /\ BaselineKnown /\ Untouched /\ InScope
          /\ CheckoutKnown /\ PlanKept /\ ResetKnown /\ RestoreKnown /\ DependenciesFirst /\ BlastRadius

\* A held target runs what its recorded commit holds, or half of something.
HeldKnown == \A t \in NeverAuto : runtime[t] \in {Tree[marker[t]][t], Partial}

LEMMA OffPlan ==
    ASSUME NEW t \in Targets \ NeverAuto, t \notin Plan
    PROVE  Tree[lastGood][t] = Tree[origin][t]
BY DEF Plan, plan_targets, changed_targets

LEMMA NotHeld ==
    ASSUME RunInv, NEW t \in attempted \union todo
    PROVE  t \in Targets \ NeverAuto
BY PlanType DEF RunInv, InScope, Plan

\* Nothing but the baseline is known of a run that has ended.
LEMMA EndedInv ==
    ASSUME EndRun, BlastRadius'
    PROVE  RunInv'
BY DEF EndRun, RunInv, IdleClean, RestoreScope, BaselineKnown, Untouched, InScope,
       CheckoutKnown, PlanKept, ResetKnown,
       RestoreKnown, DependenciesFirst, Early

\* A run that ends without a new baseline leaves what it did not reach on the
\* old one, unless that is the checkout, which has moved.
LEMMA OldBaseline ==
    ASSUME Types, RunInv, pc # "idle",
           state'.last_good_sha = state.last_good_sha, head' = head,
           NEW t \in Targets \ NeverAuto, t \notin suspect, t \notin attempted,
           state.last_good_sha = None => head = lastGood \/ t \notin Plan
    PROVE  runtime[t] = Tree[Baseline'][t]
<1>1. runtime[t] = Tree[lastGood][t]
    BY DEF RunInv, Untouched
<1>2. CASE state.last_good_sha # None
    BY <1>1, <1>2 DEF RunInv, BaselineKnown, Baseline
<1>3. CASE state.last_good_sha = None
    <2>1. Baseline' = head /\ head \in {lastGood, origin}
        BY <1>3 DEF RunInv, BaselineKnown, Baseline
    <2>2. QED
        BY <1>1, <1>3, <2>1, OffPlan
<1>4. QED
    BY <1>2, <1>3

\* A run cut short distrusts what it has reached.
LEMMA ExposedBaseline ==
    ASSUME Types, RunInv, pc # "idle",
           state'.last_good_sha = state.last_good_sha, head' = head,
           NEW t \in Targets \ NeverAuto, t \notin suspect, t \notin Exposed
    PROVE  runtime[t] = Tree[Baseline'][t]
<1>1. t \notin attempted
    BY DEF Exposed
<1>2. state.last_good_sha = None => head = lastGood \/ t \notin Plan
    BY DEF Exposed, RunInv, BaselineKnown, Early, Plan
<1>3. QED
    BY <1>1, <1>2, OldBaseline

LEMMA CrashInv ==
    ASSUME Types, RunInv, Crash
    PROVE  RunInv'
<1>1. PICK hit \in SUBSET Targets :
        /\ runtime' = [t \in Targets |-> IF t \in hit THEN Partial ELSE runtime[t]]
        /\ suspect' = suspect \union Exposed \union hit
    BY DEF Crash, Current, Types, SetTypes
<1>2. pc # "idle" /\ EndRun /\ state' = state /\ head' = head
    BY DEF Crash
<1>3. ASSUME NEW t \in Targets \ (suspect' \union NeverAuto)
      PROVE  runtime'[t] = Tree[Baseline'][t]
    <2>1. runtime'[t] = runtime[t] /\ t \notin suspect /\ t \notin Exposed
        BY <1>1
    <2>2. runtime[t] = Tree[Baseline'][t]
        BY <1>2, <2>1, ExposedBaseline
    <2>3. QED
        BY <2>1, <2>2
<1>4. QED
    BY <1>2, <1>3, EndedInv DEF BlastRadius

LEMMA NothingToDoInv ==
    ASSUME Types, RunInv, NothingToDo
    PROVE  RunInv'
<1>1. pc = "gate" /\ EndRun /\ UNCHANGED <<state, head, runtime, suspect>>
    BY DEF NothingToDo
<1>2. ASSUME NEW t \in Targets \ (suspect' \union NeverAuto)
      PROVE  runtime'[t] = Tree[Baseline'][t]
    <2>1. attempted = {} /\ (state.last_good_sha = None => head = lastGood)
        BY <1>1 DEF RunInv, InScope, BaselineKnown, Early
    <2>2. runtime[t] = Tree[Baseline'][t]
        BY <1>1, <2>1, OldBaseline
    <2>3. QED
        BY <1>1, <2>2
<1>3. QED
    BY <1>1, <1>2, EndedInv DEF BlastRadius

\* A write that fails changes nothing.
LEMMA StateSetFacts ==
    ASSUME NEW new, StateSet(new)
    PROVE  state' = new \/ state' = state
BY DEF StateSet

LEMMA AdoptInv ==
    ASSUME Types, RunInv, Adopt
    PROVE  RunInv'
<1>1. pc = "adopt" /\ EndRun /\ UNCHANGED <<head, runtime>>
    BY DEF Adopt
<1>2. state' = on_success(state, origin) \/ state' = state
    BY StateSetFacts DEF Adopt
<1>3. on_success(state, origin).last_good_sha = origin /\ origin # None
    BY ConfigFacts DEF on_success, Types, DiskTypes, RunTypes, StateFile
<1>4. CASE state'.last_good_sha # origin
    <2>1. state' = state /\ suspect' = suspect \union Exposed
        BY <1>2, <1>3, <1>4 DEF Adopt
    <2>2. ASSUME NEW t \in Targets \ (suspect' \union NeverAuto)
          PROVE  runtime'[t] = Tree[Baseline'][t]
        <3>1. runtime[t] = Tree[Baseline'][t]
            BY <1>1, <2>1, ExposedBaseline
        <3>2. QED
            BY <1>1, <3>1
    <2>3. QED
        BY <1>1, <2>2, EndedInv DEF BlastRadius
<1>5. CASE state'.last_good_sha = origin
    <2>1. Baseline' = origin
        BY <1>3, <1>5 DEF Baseline
    <2>2. suspect' = (IF head = origin THEN suspect \ restored ELSE suspect)
                         \union Undeployable(attempted)
        BY <1>5 DEF Adopt
    <2>3. ASSUME NEW t \in Targets \ (suspect' \union NeverAuto)
          PROVE  runtime'[t] = Tree[Baseline'][t]
        <3>1. CASE t \in attempted
            <4>1. head = origin
                BY <1>1, <2>2, <3>1 DEF RunInv, CheckoutKnown, InScope
            <4>2. Tree[head][t] \in {NoPlaybook, runtime[t]}
                BY <1>1, <3>1 DEF RunInv, DependenciesFirst
            <4>3. t \notin Undeployable(attempted)
                BY <2>2
            <4>4. Tree[head][t] = runtime[t]
                BY <3>1, <4>2, <4>3 DEF Undeployable
            <4>5. QED
                BY <1>1, <2>1, <4>1, <4>4
        <3>2. CASE t \notin attempted
            <4>1. t \notin suspect
                BY <2>2, <3>2 DEF RunInv, InScope
            <4>2. t \notin Plan
                BY <1>1, <3>2, <4>1 DEF RunInv, PlanKept, InScope
            <4>3. runtime[t] = Tree[lastGood][t]
                BY <1>1, <3>2, <4>1 DEF RunInv, Untouched
            <4>4. QED
                BY <1>1, <2>1, <4>2, <4>3, OffPlan
        <3>3. QED
            BY <3>1, <3>2
    <2>4. QED
        BY <1>1, <2>3, EndedInv DEF BlastRadius
<1>6. QED
    BY <1>4, <1>5

LEMMA RecordFailureInv ==
    ASSUME Types, RunInv, RecordFailure
    PROVE  RunInv'
<1>1. pc = "fail" /\ EndRun /\ UNCHANGED <<head, runtime>>
    BY DEF RecordFailure
<1>2. state'.last_good_sha = state.last_good_sha
    <2>1. state' = on_fail(state, origin) \/ state' = state
        BY StateSetFacts DEF RecordFailure
    <2>2. QED
        BY <2>1 DEF on_fail, Types, DiskTypes, StateFile
<1>3. suspect' = (IF head = lastGood THEN suspect \ restored ELSE suspect)
                     \union Undeployable(attempted)
    BY DEF RecordFailure
<1>4. ASSUME NEW t \in Targets \ (suspect' \union NeverAuto)
      PROVE  runtime'[t] = Tree[Baseline'][t]
    <2>1. CASE t \in attempted
        <3>1. head = lastGood
            BY <1>1, <1>3, <2>1 DEF RunInv, ResetKnown
        <3>2. Deployed(t)
            BY <1>1, <1>3, <2>1, <3>1 DEF RunInv, RestoreKnown, InScope
        <3>3. t \notin Undeployable(attempted)
            BY <1>3
        <3>4. Tree[head][t] = runtime[t]
            BY <2>1, <3>2, <3>3 DEF Deployed, Undeployable
        <3>5. Baseline' = head
            BY <1>1, <1>2, <3>1 DEF Baseline, RunInv, BaselineKnown
        <3>6. QED
            BY <1>1, <3>4, <3>5
    <2>2. CASE t \notin attempted
        <3>1. t \notin suspect
            BY <1>3, <2>2 DEF RunInv, InScope
        <3>2. state.last_good_sha = None => head = lastGood \/ t \notin Plan
            BY <1>1, <3>1 DEF RunInv, ResetKnown
        <3>3. runtime[t] = Tree[Baseline'][t]
            BY <1>1, <1>2, <2>2, <3>1, <3>2, OldBaseline
        <3>4. QED
            BY <1>1, <3>3
    <2>3. QED
        BY <2>1, <2>2
<1>5. QED
    BY <1>1, <1>4, EndedInv DEF BlastRadius

LEMMA WatchDriftInv ==
    ASSUME Types, RunInv, WatchDrift
    PROVE  RunInv'
<1>1. /\ pc = "idle" /\ pc' = "gate" /\ lastGood' = Baseline
      /\ UNCHANGED <<state, head, runtime, todo, attempted, restored, suspect>>
    BY DEF WatchDrift, history
<1>2. attempted = {} /\ todo = {} /\ restored = {}
    BY <1>1 DEF RunInv, IdleClean
<1>3. BaselineKnown'
    BY <1>1 DEF BaselineKnown, Baseline
<1>4. Untouched'
    BY <1>1 DEF RunInv, Untouched, BlastRadius
<1>5. QED
    BY <1>1, <1>2, <1>3, <1>4
       DEF RunInv, IdleClean, RestoreScope, InScope, CheckoutKnown, PlanKept, ResetKnown, RestoreKnown,
           DependenciesFirst, BlastRadius

\* Steps before the plan: only the checkout moves.
LEMMA EvaluateInv ==
    ASSUME Types, RunInv, Evaluate
    PROVE  RunInv'
BY DEF Evaluate, RunInv, IdleClean, RestoreScope, BaselineKnown, Untouched, InScope, CheckoutKnown, PlanKept,
       ResetKnown, RestoreKnown, DependenciesFirst, BlastRadius, Early, Plan, memory, history

LEMMA RecordAttemptInv ==
    ASSUME Types, RunInv, RecordAttempt
    PROVE  RunInv'
<1>1. state'.last_good_sha = state.last_good_sha
    <2>1. state' = on_attempt(state, origin) \/ state' = state
        BY StateSetFacts DEF RecordAttempt
    <2>2. QED
        BY <2>1 DEF on_attempt, Types, DiskTypes, StateFile
<1>2. /\ pc = "attempt" /\ pc' = "checkout"
      /\ UNCHANGED <<head, runtime, origin, lastGood, todo, attempted, restored, suspect>>
    BY DEF RecordAttempt, memory
<1>3. QED
    BY <1>1, <1>2
       DEF RunInv, IdleClean, RestoreScope, BaselineKnown, Untouched, InScope, CheckoutKnown, PlanKept,
           ResetKnown, RestoreKnown, DependenciesFirst, BlastRadius, Early, Plan

LEMMA CheckoutInv ==
    ASSUME Types, RunInv, Checkout
    PROVE  RunInv'
<1>1. /\ pc = "checkout" /\ pc' = "plan" /\ (head' = origin \/ head' = head)
      /\ UNCHANGED <<state, runtime, origin, lastGood, todo, attempted, restored>>
      /\ suspect \subseteq suspect'
      /\ head' # origin => Plan \subseteq suspect'
    BY DEF Checkout, GitReset, memory, Plan
<1>2. BaselineKnown' /\ Untouched'
    BY <1>1 DEF RunInv, BaselineKnown, Untouched, Early
<1>3. InScope' /\ CheckoutKnown'
    BY <1>1 DEF RunInv, InScope, CheckoutKnown, Early, Plan
<1>4. QED
    BY <1>1, <1>2, <1>3
       DEF RunInv, IdleClean, RestoreScope, PlanKept, ResetKnown, RestoreKnown, DependenciesFirst, BlastRadius

LEMMA ComputePlanInv ==
    ASSUME Types, RunInv, ComputePlan
    PROVE  RunInv'
<1>1. /\ pc = "plan" /\ pc' = (IF todo' = {} THEN "adopt" ELSE "deploy")
      /\ UNCHANGED <<state, head, runtime, origin, lastGood, attempted, restored>>
      /\ suspect \subseteq suspect' /\ todo' \subseteq Plan
      /\ Plan \subseteq todo' \union suspect'
    BY DEF ComputePlan, Plan
<1>2. attempted = {}
    BY <1>1 DEF RunInv, InScope
<1>3. BaselineKnown' /\ Untouched'
    BY <1>1 DEF RunInv, BaselineKnown, Untouched, Early
<1>4. InScope' /\ PlanKept'
    BY <1>1, <1>2 DEF RunInv, InScope, PlanKept, Early, Plan
<1>5. CheckoutKnown'
    BY <1>1 DEF RunInv, CheckoutKnown, Plan
<1>6. QED
    BY <1>1, <1>2, <1>3, <1>4, <1>5
       DEF RunInv, IdleClean, RestoreScope, ResetKnown, RestoreKnown, DependenciesFirst, BlastRadius

LEMMA DeployInv ==
    ASSUME Types, RunInv, NEW t \in Targets, Deploy(t)
    PROVE  RunInv'
<1>1. /\ pc = "deploy" /\ t \in todo
      /\ todo' = todo \ {t} /\ attempted' = attempted \union {t}
      /\ UNCHANGED <<head, origin, lastGood, state, suspect>>
      /\ \A u \in Targets \ {t} : runtime'[u] = runtime[u]
      /\ restored \subseteq restored' /\ restored' \subseteq restored \union {t}
      /\ \/ pc' = "reset"
         \/ /\ pc' = (IF todo' = {} THEN "adopt" ELSE "deploy")
            /\ Tree[head][t] \in {NoPlaybook, runtime'[t]}
    BY DeployFacts
<1>2. BaselineKnown'
    BY <1>1 DEF RunInv, BaselineKnown, Early
<1>3. Untouched'
    BY <1>1 DEF RunInv, Untouched
<1>4. InScope' /\ PlanKept' /\ CheckoutKnown'
    BY <1>1 DEF RunInv, InScope, PlanKept, CheckoutKnown, Early, Plan
<1>5. DependenciesFirst'
    <2>1. SUFFICES ASSUME pc' \in {"deploy", "adopt"}, NEW u \in attempted'
                   PROVE  Tree[head'][u] \in {NoPlaybook, runtime'[u]}
        BY DEF DependenciesFirst
    <2>2. CASE u = t
        BY <1>1, <2>1, <2>2
    <2>3. CASE u # t
        <3>1. u \in attempted /\ u \in Targets
            BY <1>1, <2>1, <2>3 DEF Types, SetTypes
        <3>2. QED
            BY <1>1, <2>3, <3>1 DEF RunInv, DependenciesFirst
    <2>4. QED
        BY <2>2, <2>3
<1>6. QED
    BY <1>1, <1>2, <1>3, <1>4, <1>5
       DEF RunInv, IdleClean, RestoreScope, ResetKnown, RestoreKnown, BlastRadius

LEMMA ResetInv ==
    ASSUME Types, RunInv, Reset
    PROVE  RunInv'
<1>1. /\ pc = "reset" /\ pc' = "select" /\ (head' = lastGood \/ head' = head)
      /\ UNCHANGED <<state, runtime, origin, lastGood, todo, attempted, restored>>
      /\ suspect \subseteq suspect'
      /\ head' # lastGood => Exposed \subseteq suspect'
    BY DEF Reset, GitReset, memory
<1>2. BaselineKnown' /\ Untouched'
    BY <1>1 DEF RunInv, BaselineKnown, Untouched, Early
<1>3. ResetKnown'
    BY <1>1 DEF ResetKnown, Exposed, Plan
<1>4. InScope'
    BY <1>1 DEF RunInv, InScope, Early, Plan
<1>5. QED
    BY <1>1, <1>2, <1>3, <1>4
       DEF RunInv, IdleClean, RestoreScope, CheckoutKnown, PlanKept, RestoreKnown, DependenciesFirst, BlastRadius

LEMMA SelectRestoreInv ==
    ASSUME Types, RunInv, SelectRestore
    PROVE  RunInv'
<1>1. /\ pc = "select" /\ pc' = (IF todo' = {} THEN "fail" ELSE "restore")
      /\ UNCHANGED <<state, head, runtime, origin, lastGood, attempted>>
      /\ restored' = {} /\ suspect \subseteq suspect' /\ todo' \subseteq attempted
      /\ attempted \subseteq todo' \union suspect'
    BY DEF SelectRestore, rollback_targets
<1>2. BaselineKnown' /\ Untouched'
    BY <1>1 DEF RunInv, BaselineKnown, Untouched, Early
<1>3. ResetKnown' /\ RestoreKnown'
    BY <1>1 DEF RunInv, ResetKnown, RestoreKnown, Plan
<1>4. InScope'
    BY <1>1 DEF RunInv, InScope, Early, Plan
<1>5. QED
    BY <1>1, <1>2, <1>3, <1>4
       DEF RunInv, IdleClean, RestoreScope, CheckoutKnown, PlanKept, DependenciesFirst, BlastRadius

LEMMA RestoreInv ==
    ASSUME Types, RunInv, NEW t \in Targets, Restore(t)
    PROVE  RunInv'
<1>1. /\ pc = "restore" /\ t \in todo /\ todo' = todo \ {t}
      /\ pc' = (IF todo' = {} THEN "fail" ELSE "restore")
      /\ UNCHANGED <<head, origin, lastGood, state, attempted>>
      /\ \A u \in Targets \ {t} : runtime'[u] = runtime[u]
      /\ \/ /\ Tree[head][t] \in {NoPlaybook, runtime'[t]}
            /\ restored' = restored \union {t} /\ suspect' = suspect
         \/ restored' = restored /\ suspect' = suspect \union {t}
    BY RestoreFacts
<1>2. t \in attempted /\ attempted \subseteq Targets /\ t \notin restored
    BY <1>1 DEF RunInv, InScope, RestoreScope, RestoreKnown, Types, SetTypes
<1>3. BaselineKnown' /\ Untouched'
    BY <1>1, <1>2 DEF RunInv, BaselineKnown, Untouched, Early
<1>4. ResetKnown'
    BY <1>1 DEF RunInv, ResetKnown, Plan
<1>5. InScope' /\ RestoreScope'
    BY <1>1, <1>2 DEF RunInv, InScope, RestoreScope, Early, Plan
<1>6. RestoreKnown'
    <2>1. todo' \intersect restored' = {}
        BY <1>1 DEF RunInv, RestoreKnown
    <2>2. ASSUME NEW u \in attempted'
          PROVE  u \in todo' \/ u \in suspect' \ restored' \/ Deployed(u)'
        <3>1. CASE u = t
            BY <1>1, <1>2, <3>1 DEF Deployed
        <3>2. CASE u # t
            <4>1. u \in todo \/ u \in suspect \ restored \/ Deployed(u)
                BY <1>1, <2>2 DEF RunInv, RestoreKnown
            <4>2. QED
                BY <1>1, <1>2, <2>2, <3>2, <4>1 DEF Deployed
        <3>3. QED
            BY <3>1, <3>2
    <2>3. QED
        BY <2>1, <2>2 DEF RestoreKnown
<1>7. QED
    BY <1>1, <1>3, <1>4, <1>5, <1>6
       DEF RunInv, IdleClean, RestoreScope, CheckoutKnown, PlanKept, DependenciesFirst, BlastRadius

LEMMA ManualInv ==
    ASSUME Types, RunInv, NEW h \in NeverAuto, NEW c \in Commits, ManualDeploy(h, c)
    PROVE  RunInv'
<1>1. /\ \A u \in Targets \ {h} : runtime'[u] = runtime[u]
      /\ UNCHANGED <<state, head, pc, origin, lastGood, todo, attempted, restored, suspect>>
    BY DEF ManualDeploy, Types, memory, history
<1>2. attempted \subseteq Targets \ {h}
    BY NotHeld
<1>3. \A u \in Targets \ NeverAuto : runtime'[u] = runtime[u]
    BY <1>1
<1>4. DependenciesFirst' /\ RestoreKnown'
    BY <1>1, <1>2 DEF RunInv, DependenciesFirst, RestoreKnown, Deployed
<1>5. Untouched' /\ BlastRadius'
    BY <1>1, <1>3 DEF RunInv, Untouched, BlastRadius, Baseline
<1>6. QED
    BY <1>1, <1>4, <1>5
       DEF RunInv, IdleClean, RestoreScope, BaselineKnown, InScope, CheckoutKnown, PlanKept,
           ResetKnown, Plan

LEMMA QuietInv ==
    ASSUME RunInv,
           UNCHANGED <<state, head, runtime, pc, origin, lastGood, todo, attempted, restored, suspect>>
    PROVE  RunInv'
BY DEF RunInv, IdleClean, RestoreScope, BaselineKnown, Untouched, InScope, CheckoutKnown, PlanKept,
       ResetKnown, RestoreKnown, DependenciesFirst, BlastRadius, Baseline, Plan, Deployed

LEMMA RunInvKept == Types /\ RunInv /\ [Next]_vars => RunInv'
<1> SUFFICES ASSUME Types, RunInv, [Next]_vars PROVE RunInv'
    OBVIOUS
<1>1. CASE Controller
    BY <1>1, WatchDriftInv, EvaluateInv, NothingToDoInv, RecordAttemptInv, CheckoutInv,
       ComputePlanInv, DeployInv, AdoptInv, ResetInv, SelectRestoreInv, RestoreInv,
       RecordFailureInv DEF Controller
<1>2. ASSUME NEW c \in Commits, CutTag(c) \/ CIPasses(c) PROVE RunInv'
    BY <1>2, QuietInv DEF CutTag, CIPasses, memory, history
<1>3. CASE NoTag \/ UNCHANGED vars
    BY <1>3, QuietInv DEF NoTag, vars, memory, history
<1>4. QED
    BY <1>1, <1>2, <1>3, CrashInv, ManualInv DEF Next

LEMMA RunInvInit == Init => RunInv
<1> SUFFICES ASSUME Init PROVE RunInv
    OBVIOUS
<1>1. Baseline = Initial /\ runtime = Tree[Initial]
    BY DEF Init, Seed, Baseline
<1>2. QED
    BY <1>1 DEF Init, RunInv, IdleClean, RestoreScope, BaselineKnown, Untouched, InScope,
       CheckoutKnown, PlanKept, ResetKnown, RestoreKnown, DependenciesFirst, BlastRadius, Early

LEMMA RunInvAlways == Spec => []RunInv
BY TypesAlways, RunInvInit, RunInvKept, PTL DEF Spec

\* Between runs every target of the controller that no disturbed run has
\* touched runs exactly what the last good commit holds, so the next diff and
\* the scope of the next rollback are right.
THEOREM UntouchedRunsLastGood == Spec => []BlastRadius
<1>1. RunInv => BlastRadius
    BY DEF RunInv
<1>2. QED
    BY <1>1, RunInvAlways, PTL

\* The deploy loop goes on only on top of the new version of everything it has
\* deployed before.
THEOREM DeployedInOrder == Spec => []DependenciesFirst
<1>1. RunInv => DependenciesFirst
    BY DEF RunInv
<1>2. QED
    BY <1>1, RunInvAlways, PTL
-----------------------------------------------------------------------------
(* The drift gauge of the held targets.                                    *)

LEMMA HeldKnownKept ==
    ASSUME Types, RunInv, HeldKnown, [Next]_vars
    PROVE  HeldKnown'
<1>1. NeverAuto \subseteq Targets /\ runtime \in [Targets -> Nat \union {Partial}]
      /\ marker \in [NeverAuto -> Commits]
    BY ConfigFacts DEF Types, HeldTypes
<1>2. ASSUME NEW h \in NeverAuto, NEW c \in Commits, ManualDeploy(h, c) PROVE HeldKnown'
    <2>1. SUFFICES ASSUME NEW t \in NeverAuto
                   PROVE  runtime'[t] \in {Tree[marker'[t]][t], Partial}
        BY DEF HeldKnown
    <2>2. CASE t = h
        BY <1>1, <1>2, <2>2 DEF ManualDeploy
    <2>3. CASE t # h
        <3>1. runtime'[t] = runtime[t] /\ marker'[t] = marker[t]
            BY <1>1, <1>2, <2>3 DEF ManualDeploy
        <3>2. QED
            BY <3>1 DEF HeldKnown
    <2>4. QED
        BY <2>2, <2>3
<1>3. ASSUME UNCHANGED marker, \A t \in NeverAuto : runtime'[t] = runtime[t] PROVE HeldKnown'
    BY <1>3 DEF HeldKnown
<1>4. ASSUME NEW t \in Targets, Deploy(t) \/ Restore(t) PROVE HeldKnown'
    <2>1. t \in todo /\ \A u \in Targets \ {t} : runtime'[u] = runtime[u]
        BY <1>4, DeployFacts, RestoreFacts
    <2>2. t \notin NeverAuto
        BY <2>1, NotHeld
    <2>3. marker' = marker
        BY <1>4 DEF Deploy, Restore, held
    <2>4. QED
        BY <1>1, <1>3, <2>1, <2>2, <2>3
<1>5. CASE Crash
    <2>1. PICK hit \in SUBSET todo :
              runtime' = [t \in Targets |-> IF t \in hit THEN Partial ELSE runtime[t]]
        BY <1>5 DEF Crash, Current
    <2>2. \A t \in hit : t \notin NeverAuto
        BY NotHeld
    <2>3. QED
        BY <1>1, <1>3, <1>5, <2>1, <2>2 DEF Crash, held
<1>6. CASE UNCHANGED <<runtime, marker>>
    BY <1>3, <1>6
<1>7. QED
    BY <1>2, <1>4, <1>5, <1>6
       DEF Next, Controller, WatchDrift, Evaluate, NothingToDo, RecordAttempt, Checkout,
           ComputePlan, Adopt, Reset, SelectRestore, RecordFailure, NoTag, CutTag, CIPasses,
           vars, held

\* The drift gauge of a held target goes back to 0 only when the target runs
\* what the newest tag holds, its manual deploy failed or the diff did: not
\* because its commit was adopted.
THEOREM DriftStays == Spec => DriftClearsByDeploy
<1> DEFINE Clears == \A t \in NeverAuto :
              drift[t] = 1 /\ drift'[t] = 0
              => runtime[t] \in {Tree[origin'][t], Partial} \/ faults' # faults
<1>1. Init => HeldKnown
    BY DEF Init, HeldKnown
<1>2. Types /\ RunInv /\ HeldKnown /\ [Next]_vars => Clears
    <2> SUFFICES ASSUME Types, RunInv, HeldKnown, [Next]_vars, NEW t \in NeverAuto,
                        drift[t] = 1, drift'[t] = 0, faults' = faults
                 PROVE  runtime[t] \in {Tree[origin'][t], Partial}
        OBVIOUS
    <2>1. WatchDrift
        <3>1. CASE UNCHANGED drift
            BY <3>1
        <3>2. QED
            BY <3>1 DEF Next, Controller, Evaluate, NothingToDo, RecordAttempt, Checkout,
               ComputePlan, Deploy, Adopt, Reset, SelectRestore, Restore, RecordFailure, NoTag,
               ManualDeploy, CutTag, CIPasses, Crash, vars, held
    <2>2. faults \in Nat /\ t \in Targets
        BY ConfigFacts DEF Types
    <2>3. origin' = tag /\ ~drifted(t)
        BY <2>1, <2>2 DEF WatchDrift, Fault
    <2>4. Tree[marker[t]][t] = Tree[tag][t]
        BY <2>2, <2>3 DEF drifted, changed_targets
    <2>5. QED
        BY <2>3, <2>4 DEF HeldKnown
<1>3. Types /\ RunInv /\ HeldKnown /\ [Next]_vars => HeldKnown'
    BY HeldKnownKept
<1>4. QED
    BY <1>1, <1>2, <1>3, TypesAlways, RunInvAlways, PTL DEF Spec, DriftClearsByDeploy

-----------------------------------------------------------------------------
(* What a rollback leaves behind.                                          *)

\* A target a rollback could not have brought back: the commit the checkout was
\* reset to has no playbook for it.
Unrestorable(t) == Tree[head][t] = NoPlaybook

\* The restore loop leaves nothing half applied behind it, unless a target
\* failed or cannot be restored; one that ends at once has lost its list.
RestoredSoFar ==
    pc \in {"restore", "fail"} /\ ~rbFail =>
        \/ pc = "fail" /\ restored = {} /\ faults # 0
        \/ \A t \in attempted \ todo : runtime[t] = Partial => Unrestorable(t)

\* A rollback that reports success, and deployed something or met no fault, leaves
\* a target half applied only where the checkout it worked from has no playbook for it.
RollbackDelimited ==
    pc = "fail" /\ ~rbFail /\ (restored # {} \/ faults = 0) =>
        \A t \in attempted : runtime[t] = Partial => Unrestorable(t)

\* A fault stays counted.
LEMMA FaultsGrow ==
    ASSUME Types, [Next]_vars, faults <= MaxFaults
    PROVE  /\ faults' <= MaxFaults
           /\ Fault \/ faults # 0 => faults' # 0
<1>1. faults \in Nat /\ MaxFaults \in Nat
    BY AutoDeployAssumption DEF Types
<1>2. Fault \/ UNCHANGED faults
    BY DEF Next, Controller, WatchDrift, Evaluate, NothingToDo, RecordAttempt, Checkout,
           ComputePlan, Deploy, Adopt, Reset, SelectRestore, Restore, RecordFailure, NoTag,
           CutTag, CIPasses, ManualDeploy, Crash, StateSet, GitReset, vars
<1>3. QED
    BY <1>1, <1>2 DEF Fault

LEMMA FaultsBounded == Spec => [](faults <= MaxFaults)
<1>1. Init => faults <= MaxFaults
    BY AutoDeployAssumption DEF Init
<1>2. Types /\ faults <= MaxFaults /\ [Next]_vars => (faults <= MaxFaults)'
    BY FaultsGrow
<1>3. QED
    BY <1>1, <1>2, TypesAlways, PTL DEF Spec

LEMMA RestoreOutcome ==
    ASSUME Types, NEW t \in Targets, Restore(t)
    PROVE  \/ rbFail' = TRUE
           \/ /\ rbFail' = rbFail /\ suspect' = suspect
              /\ runtime'[t] = Partial => Unrestorable(t)
<1>1. CASE DeployOK(t) /\ UNCHANGED <<rbFail, suspect>>
    <2>1. Tree[head][t] \in {NoPlaybook, runtime'[t]}
        BY <1>1, DeployOKFacts DEF Restore
    <2>2. Tree[head][t] # Partial
        BY TreeType DEF Types, DiskTypes, Partial
    <2>3. QED
        BY <1>1, <2>1, <2>2 DEF Unrestorable
<1>2. QED
    BY <1>1 DEF Restore

LEMMA RestoredKept ==
    Types /\ RunInv /\ RestoredSoFar /\ faults <= MaxFaults /\ [Next]_vars => RestoredSoFar'
<1> SUFFICES ASSUME Types, RunInv, RestoredSoFar, faults <= MaxFaults, [Next]_vars
             PROVE  RestoredSoFar'
    OBVIOUS
<1>1. attempted \subseteq Targets /\ (Fault \/ faults # 0 => faults' # 0)
    BY FaultsGrow DEF Types, SetTypes
<1>2. ASSUME NEW t \in Targets, Restore(t) PROVE RestoredSoFar'
    <2>1. /\ pc = "restore" /\ todo' = todo \ {t} /\ UNCHANGED <<head, attempted>>
          /\ pc' = (IF todo' = {} THEN "fail" ELSE "restore")
          /\ \A u \in Targets \ {t} : runtime'[u] = runtime[u]
        BY <1>2, RestoreFacts
    <2>2. CASE rbFail' = TRUE
        BY <2>1, <2>2 DEF RestoredSoFar
    <2>3. CASE /\ rbFail' = rbFail /\ suspect' = suspect
               /\ runtime'[t] = Partial => Unrestorable(t)
        BY <1>1, <2>1, <2>3 DEF RestoredSoFar, Unrestorable
    <2>4. QED
        BY <1>2, <2>2, <2>3, RestoreOutcome
<1>3. CASE SelectRestore
    BY <1>1, <1>3 DEF SelectRestore, RestoredSoFar, rollback_targets
<1>4. ASSUME NEW t \in NeverAuto, NEW c \in Commits, ManualDeploy(t, c) PROVE RestoredSoFar'
    <2>1. \A u \in Targets \ {t} : runtime'[u] = runtime[u]
        BY <1>4 DEF ManualDeploy, Types
    <2>2. pc = "restore" \/ pc = "fail" => t \notin attempted
        BY PlanType DEF RunInv, InScope, Plan
    <2>3. UNCHANGED <<pc, rbFail, attempted, todo, restored, head>>
        BY <1>4 DEF ManualDeploy, memory, history
    <2>4. QED
        BY <1>1, <2>1, <2>2, <2>3 DEF RestoredSoFar, Unrestorable
<1>5. CASE pc' \notin {"restore", "fail"}
    BY <1>5 DEF RestoredSoFar
<1>6. CASE UNCHANGED <<pc, rbFail, attempted, todo, restored, head, runtime>>
    BY <1>1, <1>6 DEF RestoredSoFar, Unrestorable
<1>7. ASSUME NEW t \in Targets, Deploy(t) PROVE pc' \notin {"restore", "fail"}
    BY <1>7, DeployFacts
<1>8. QED
    BY <1>2, <1>3, <1>4, <1>5, <1>6, <1>7
       DEF Next, Controller, WatchDrift, Evaluate, NothingToDo, RecordAttempt, Checkout,
           ComputePlan, Adopt, Reset, RecordFailure, NoTag, CutTag, CIPasses, Crash, EndRun,
           vars, memory, history

LEMMA RestoredAlways == Spec => []RestoredSoFar
<1>1. Init => RestoredSoFar
    BY DEF Init, RestoredSoFar
<1>2. QED
    BY <1>1, TypesAlways, RunInvAlways, FaultsBounded, RestoredKept, PTL DEF Spec

\* A rollback of homelab-autodeploy.sh that has deployed something and reports
\* "restored" leaves no attempted target half applied whose playbook the
\* checkout has, over any sequence of tags, crashes, failing resets and failing
\* plays.  So a role the restored commit lacks is what rollback_targets misses.
THEOREM RollbackMissesOnlyNewRoles == Spec => []RollbackDelimited
<1>1. RunInv /\ RestoredSoFar => RollbackDelimited
    BY DEF RunInv, InScope, RestoredSoFar, RollbackDelimited
<1>2. QED
    BY <1>1, RunInvAlways, RestoredAlways, PTL

\* So where every commit has every playbook and no command fails, the docstring
\* of rollback_targets is right: what a rollback that reports success attempted
\* is not half applied.
THEOREM RollbackRestores ==
    ASSUME \A c \in Commits, t \in Targets \ NeverAuto : Tree[c][t] # NoPlaybook,
           MaxFaults = 0
    PROVE  Spec => []RollbackReconverges
<1>1. Types /\ RollbackDelimited /\ RunInv /\ faults <= MaxFaults => RollbackReconverges
    <2> SUFFICES ASSUME Types, RollbackDelimited, RunInv, faults <= MaxFaults,
                        pc = "fail", ~rbFail, NEW t \in attempted
                 PROVE  runtime[t] # Partial
        BY DEF RollbackReconverges
    <2>1. faults = 0
        BY DEF Types
    <2>2. t \in Targets \ NeverAuto /\ head \in Commits
        BY PlanType DEF RunInv, InScope, Plan, Types, DiskTypes
    <2>3. QED
        BY <2>1, <2>2 DEF RollbackDelimited, Unrestorable
<1>2. QED
    BY <1>1, TypesAlways, RunInvAlways, FaultsBounded, RollbackMissesOnlyNewRoles, PTL
=============================================================================
