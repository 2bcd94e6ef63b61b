-------------------------- MODULE RunnerSupervisor --------------------------
(***************************************************************************)
(* The GitHub Actions runner supervisor on the Mac: supervisor.py, with    *)
(* the Docker daemon, GitHub and the runners it works on.                  *)
(*                                                                         *)
(* A tick reads the exited containers, the running containers and, per     *)
(* repository, GitHub's registrations and queue, one after the other while *)
(* runners connect, take jobs, end and drop off; then it starts at most    *)
(* one runner.  The supervisor keeps no file it reads back: its memory is  *)
(* lost when it restarts, containers and registrations stay.               *)
(*                                                                         *)
(* An identity stands for a container and the registration minted for it,  *)
(* which the code cannot relate to each other (their names carry different *)
(* random parts).  An identity is used again once both are gone.  Time     *)
(* is counted in poll intervals and kept as ages, saturated at the grace   *)
(* period, so that it needs no bound.  Exit codes, the API's rate and      *)
(* error counters and the status files of a tick are left out.             *)
(***************************************************************************)
EXTENDS Integers, Sequences, FiniteSets, Functions

CONSTANTS
    Runners,               \* identities, as numbers in the order GitHub lists
    Repos,                 \* GH_REPOS, a sequence
    RepoOf,                \* the repository an identity is used for
    MaxConcurrentGlobal,   \* MAX_CONCURRENT_GLOBAL
    IdlePerRepo,           \* IDLE_RUNNERS_PER_REPO
    OrphanReap,            \* ORPHAN_REAP_SECONDS, in poll intervals
    Faults,                \* kinds of fault that may happen
    MaxJobs,               \* jobs queued (bound)
    MaxFaults              \* faults (bound)

FaultKinds == {"ps", "ps_a", "rm", "list", "queue", "mint", "run", "delete", "raise",
               "crash", "reboot", "drop"}
NoRunner   == 0
Never      == -1

ASSUME RunnerAssumption ==
    /\ Runners \subseteq Nat \ {NoRunner} /\ IsFiniteSet(Runners)
    /\ Repos \in Seq(STRING) /\ Repos # <<>>
    /\ RepoOf \in [Runners -> Range(Repos)]
    /\ MaxConcurrentGlobal \in Nat /\ IdlePerRepo \in Nat /\ OrphanReap \in Nat
    /\ Faults \subseteq FaultKinds
    /\ MaxJobs \in Nat /\ MaxFaults \in Nat

VARIABLES
    \* Docker and GitHub
    con,           \* per identity: its container, "none", "up" or "exited"
    reg,           \* per identity: its registration, "none", "offline" or "online"
    busy,          \* identities whose registration has a job
    lost,          \* running runners that cannot reach GitHub
    waiting,       \* per repository: queued jobs
    \* the supervisor
    pc,            \* what it does next
    offlineSince,  \* _offline_since: age of the first sight offline, or Never
    jobsTotal,     \* counters.jobs_total
    live,          \* containers the tick found running
    rest,          \* repositories the tick has still to look at
    listed,        \* the listing's registrations still to look at
    idle, queued,  \* idle_by_repo, queued_by_repo
    minted,        \* the identity whose JIT configuration was minted
    \* observed by nobody: history for the properties
    counted,       \* exited containers this instance has counted already
    ended,         \* containers this instance found exited or that exited since
    sinceOnline,   \* age since the supervisor last saw the identity online, or its mint
    removals,      \* docker rm calls of this instance that failed
    misled,        \* has a tick counted a dead runner as busy
    jobs, faults   \* jobs queued and faults so far

docker  == <<con, ended>>
github  == <<reg, busy, lost>>
work    == <<waiting, jobs>>
tick    == <<live, rest, listed, idle, queued, minted>>
memory  == <<offlineSince, jobsTotal, tick>>
history == <<counted, sinceOnline, removals, misled>>
vars    == <<docker, github, work, pc, memory, history, faults>>
-----------------------------------------------------------------------------
RepoSet == Range(Repos)
Up      == {i \in Runners : con[i] = "up"}
Exited  == {i \in Runners : con[i] = "exited"}
Free(r) == {i \in Runners : con[i] = "none" /\ reg[i] = "none" /\ RepoOf[i] = r}

NoListing == <<>>
NoneSeen  == [r \in RepoSet |-> 0]

\* Definitions named <Definition>_<Slip> are mutants: a bug each that the runs
\* must detect when it takes the definition's place.
MinOf(S)    == CHOOSE i \in S : \A j \in S : i <= j
Monus_Plain(a, b) == a - b

\* max(0, a - b)
Monus(a, b) == IF a > b THEN a - b ELSE 0
Older(age)  == IF age = Never \/ age >= OrphanReap THEN age ELSE age + 1

TypeOK ==
    /\ con \in [Runners -> {"none", "up", "exited"}]
    /\ reg \in [Runners -> {"none", "offline", "online"}]
    /\ busy \subseteq Runners /\ lost \subseteq Runners
    /\ waiting \in [RepoSet -> 0..MaxJobs]
    /\ pc \in {"smoke", "reap", "ps", "list", "reap_offline", "run", "sleep"}
    /\ offlineSince \in [Runners -> Never..OrphanReap]
    /\ jobsTotal \in Nat
    /\ live \subseteq Runners
    /\ rest \in Seq(RepoSet)
    /\ DOMAIN listed \subseteq Runners
    /\ \A i \in DOMAIN listed : listed[i] \in {"offline", "online"}
    /\ idle \in [RepoSet -> Nat] /\ queued \in [RepoSet -> Nat]
    /\ minted \in Runners \union {NoRunner}
    /\ counted \subseteq Exited
    /\ ended \in Nat
    /\ sinceOnline \in [Runners -> 0..OrphanReap]
    /\ removals \in Nat /\ misled \in BOOLEAN
    /\ jobs \in 0..MaxJobs /\ faults \in 0..MaxFaults

Init ==
    /\ con = [i \in Runners |-> "none"] /\ reg = [i \in Runners |-> "none"]
    /\ busy = {} /\ lost = {} /\ waiting = NoneSeen
    /\ pc = "smoke"
    /\ offlineSince = [i \in Runners |-> Never] /\ jobsTotal = 0
    /\ live = {} /\ rest = <<>> /\ listed = NoListing
    /\ idle = NoneSeen /\ queued = NoneSeen /\ minted = NoRunner
    /\ counted = {} /\ ended = 0 /\ sinceOnline = [i \in Runners |-> 0]
    /\ removals = 0 /\ misled = FALSE /\ jobs = 0 /\ faults = 0

\* One fault of a kind the instance allows.
Fault(kind) == kind \in Faults /\ faults < MaxFaults /\ faults' = faults + 1
-----------------------------------------------------------------------------
(* The supervisor.                                                         *)

\* run(): tick only once the PAT has been seen to work.
SmokeTest ==
    /\ pc = "smoke"
    /\ pc' = "reap"
    /\ UNCHANGED <<docker, github, work, memory, history, faults>>

Counting_Removed(done, kept) == Cardinality(done \ kept)

\* What reaping the containers `done`, of which `kept` resist, adds to jobs_total.
Counting(done, kept) == Cardinality(done)

\* Exited containers are counted, then removed; a removal that fails is not
\* noticed.
Reaped(done, kept) ==
    /\ con' = [i \in Runners |-> IF i \in done \ kept THEN "none" ELSE con[i]]
    /\ jobsTotal' = jobsTotal + Counting(done, kept)
    /\ counted' = (counted \ done) \union kept
    /\ removals' = removals + Cardinality(kept)

\* reap_exited_containers: every exited container; none if they cannot be
\* listed; the first of them if a command raises.
ReapExited ==
    /\ pc = "reap"
    /\ \/ /\ \E kept \in SUBSET Exited :
             /\ Reaped(Exited, kept)
             /\ IF kept = {} THEN UNCHANGED faults ELSE Fault("rm")
          /\ pc' = "ps"
       \/ Exited # {} /\ Reaped({}, {}) /\ pc' = "ps" /\ Fault("ps_a")
       \/ /\ \E done \in SUBSET Exited \ {{}, Exited} : Reaped(done, {})
          /\ pc' = "sleep" /\ Fault("raise")
    /\ UNCHANGED <<ended, github, work, offlineSince, tick, sinceOnline, misled>>

ReadRunning_OneRepo ==
    /\ pc = "ps"
    /\ \/ live' = {i \in Up : RepoOf[i] = Repos[1]} /\ UNCHANGED faults
       \/ live' = {} /\ Fault("ps")
    /\ rest' = Repos
    /\ idle' = NoneSeen /\ queued' = NoneSeen
    /\ pc' = "list"
    /\ UNCHANGED <<docker, github, work, offlineSince, jobsTotal, listed, minted, history>>

\* running_job_containers: a `docker ps` that fails reads as no container.
ReadRunning ==
    /\ pc = "ps"
    /\ \/ live' = Up /\ UNCHANGED faults
       \/ live' = {} /\ Fault("ps")
    /\ rest' = Repos
    /\ idle' = NoneSeen /\ queued' = NoneSeen
    /\ pc' = "list"
    /\ UNCHANGED <<docker, github, work, offlineSince, jobsTotal, listed, minted, history>>

LiveOf(r) == {i \in live : RepoOf[i] = r}

\* list_runners: GitHub's listing as it is now, or the empty list of a failed
\* call.  Idle are the containers read before that GitHub does not call busy.
List ==
    /\ pc = "list" /\ rest # <<>>
    /\ LET r     == Head(rest)
           known == {i \in Runners : reg[i] # "none" /\ RepoOf[i] = r}
       IN \E seen \in {known, {}} :
            /\ IF seen = known THEN UNCHANGED faults ELSE Fault("list")
            /\ listed' = [i \in seen |-> reg[i]]
            /\ idle' = [idle EXCEPT ![r] =
                    Monus(Cardinality(LiveOf(r)), Cardinality(busy \cap seen))]
            /\ misled' = (misled \/ ~(busy \cap seen \subseteq live))
    /\ pc' = "reap_offline"
    /\ UNCHANGED <<docker, github, work, offlineSince, jobsTotal, live, rest,
                   queued, minted, counted, sinceOnline, removals>>

\* The age a look at registration i, listed with the given status, leaves in
\* _offline_since before the grace period is compared.
FirstSeen_Forgets(i, status) ==
    IF status = "online" THEN offlineSince[i] ELSE
    IF offlineSince[i] = Never THEN 0 ELSE offlineSince[i]

FirstSeen(i, status) ==
    IF status = "online" THEN Never ELSE
    IF offlineSince[i] = Never THEN 0 ELSE offlineSince[i]

PastGrace_AtOnce(age) == age # Never

PastGrace(age) == age # Never /\ age >= OrphanReap

\* delete_runner, as GitHub answers it: a busy runner is refused, one that is
\* gone is a 404.  Whatever the answer, the registration's age is forgotten.
Deleted(i) ==
    \/ /\ UNCHANGED faults
       /\ reg' = IF i \in busy THEN reg ELSE [reg EXCEPT ![i] = "none"]
    \/ UNCHANGED reg /\ Fault("delete")

\* reap_offline_runners: the next registration of the listing.
ReapOffline ==
    /\ pc = "reap_offline" /\ listed # NoListing
    /\ LET i   == MinOf(DOMAIN listed)
           age == FirstSeen(i, listed[i])
       IN /\ listed' = Restrict(listed, DOMAIN listed \ {i})
          /\ sinceOnline' = IF listed[i] = "online"
                            THEN [sinceOnline EXCEPT ![i] = 0] ELSE sinceOnline
          /\ IF PastGrace(age)
             THEN Deleted(i) /\ offlineSince' = [offlineSince EXCEPT ![i] = Never]
             ELSE /\ offlineSince' = [offlineSince EXCEPT ![i] = age]
                  /\ UNCHANGED <<reg, faults>>
    /\ UNCHANGED <<docker, busy, lost, work, pc, jobsTotal, live, rest, idle,
                   queued, minted, counted, removals, misled>>

\* queued_jobs, the last read for a repository: 0 if the call fails.
ReadQueue ==
    /\ pc = "reap_offline" /\ listed = NoListing
    /\ LET r == Head(rest)
       IN \/ queued' = [queued EXCEPT ![r] = waiting[r]] /\ UNCHANGED faults
          \/ queued' = [queued EXCEPT ![r] = 0] /\ Fault("queue")
    /\ rest' = Tail(rest)
    /\ pc' = "list"
    /\ UNCHANGED <<docker, github, work, offlineSince, jobsTotal, live, listed,
                   idle, minted, history>>

Wants_OneMore == {r \in RepoSet : idle[r] <= IdlePerRepo}

\* maybe_spawn's choice: of the repositories short of an idle runner the one
\* with most queued jobs, the first of these in the configuration's order.
Wants == {r \in RepoSet : idle[r] < IdlePerRepo}

Target ==
    LET most  == {r \in Wants : \A s \in Wants : queued[s] <= queued[r]}
        first == MinOf({k \in DOMAIN Repos : Repos[k] \in most})
    IN Repos[first]

MaySpawn_OneOver == Cardinality(live) <= MaxConcurrentGlobal /\ Wants # {}

MaySpawn == Cardinality(live) < MaxConcurrentGlobal /\ Wants # {}

\* The rest of a tick is the status files' business.
EndTick == /\ pc' = "sleep"
           /\ live' = {} /\ rest' = <<>> /\ listed' = NoListing
           /\ idle' = NoneSeen /\ queued' = NoneSeen /\ minted' = NoRunner

NoSpawn ==
    /\ pc = "list" /\ rest = <<>> /\ ~MaySpawn
    /\ EndTick
    /\ UNCHANGED <<docker, github, work, offlineSince, jobsTotal, history, faults>>

\* A new registration of the target repository, offline until a runner
\* connects.
Register(i) ==
    /\ reg' = [reg EXCEPT ![i] = "offline"]
    /\ offlineSince' = [offlineSince EXCEPT ![i] = Never]
    /\ sinceOnline' = [sinceOnline EXCEPT ![i] = 0]

\* generate_jit_config creates a registration and its one-time credentials,
\* or is refused.  An answer that is lost raises: the registration stays and
\* nobody will use it.
Mint ==
    /\ pc = "list" /\ rest = <<>> /\ MaySpawn
    /\ LET i == MinOf(Free(Target))
       IN \/ /\ Free(Target) # {} /\ Register(i)
             /\ minted' = i /\ pc' = "run"
             /\ UNCHANGED <<live, rest, listed, idle, queued, faults>>
          \/ Free(Target) # {} /\ Register(i) /\ Fault("raise") /\ EndTick
          \/ /\ \/ Fault("mint")
                \/ Free(Target) = {} /\ UNCHANGED faults    \* bound
             /\ EndTick /\ UNCHANGED <<reg, offlineSince, sinceOnline>>
    /\ UNCHANGED <<docker, busy, lost, work, jobsTotal, counted, removals, misled>>

\* spawn_runner: docker run -d.  If it fails the registration is an orphan.
Run ==
    /\ pc = "run"
    /\ \/ con' = [con EXCEPT ![minted] = "up"] /\ UNCHANGED faults
       \/ UNCHANGED con /\ Fault("run")
    /\ EndTick
    /\ UNCHANGED <<ended, github, work, offlineSince, jobsTotal, history>>

\* run(): an exception of an API call or a subprocess ends the tick.
Raise ==
    /\ pc \notin {"smoke", "sleep"} /\ Fault("raise")
    /\ EndTick
    /\ UNCHANGED <<docker, github, work, offlineSince, jobsTotal, history>>

\* run(): the sleep of one poll interval, in which every running runner reaches
\* GitHub that is not lost.  What is remembered of a registration
\* that is gone is never read again and leaves the model here.
Sleep ==
    /\ pc = "sleep"
    /\ \A i \in Up : reg[i] = "offline" => i \in lost
    /\ pc' = "reap"
    /\ offlineSince' = [i \in Runners |-> IF reg[i] = "none" THEN Never ELSE Older(offlineSince[i])]
    /\ sinceOnline' = [i \in Runners |-> IF reg[i] = "none" THEN 0 ELSE Older(sinceOnline[i])]
    /\ UNCHANGED <<docker, github, work, jobsTotal, tick, counted, removals, misled, faults>>

\* The memory of a supervisor that has just started.
Fresh ==
    /\ pc' = "smoke"
    /\ offlineSince' = [i \in Runners |-> Never] /\ jobsTotal' = 0
    /\ live' = {} /\ rest' = <<>> /\ listed' = NoListing
    /\ idle' = NoneSeen /\ queued' = NoneSeen /\ minted' = NoRunner
    /\ counted' = {} /\ removals' = 0
    /\ ended' = Cardinality({i \in Runners : con'[i] = "exited"})

\* An error nobody catches, or a signal, perhaps with some exited containers
\* already removed: Docker starts the supervisor again.
Crash ==
    /\ Fault("crash")
    /\ \E gone \in SUBSET (IF pc = "reap" THEN Exited ELSE {}) :
          con' = [i \in Runners |-> IF i \in gone THEN "none" ELSE con[i]]
    /\ Fresh
    /\ UNCHANGED <<github, work, sinceOnline, misled>>
-----------------------------------------------------------------------------
(* Docker, GitHub and the runners (external).                              *)

JobArrives(r) ==
    /\ jobs < MaxJobs
    /\ jobs' = jobs + 1 /\ waiting' = [waiting EXCEPT ![r] = @ + 1]
    /\ UNCHANGED <<docker, github, pc, memory, history, faults>>

\* A running runner reaches GitHub.
Connect(i) ==
    /\ con[i] = "up" /\ reg[i] = "offline"
    /\ reg' = [reg EXCEPT ![i] = "online"] /\ lost' = lost \ {i}
    /\ UNCHANGED <<docker, busy, work, pc, memory, history, faults>>

\* A runner loses GitHub for long, or is long in reaching it at first, with or
\* without a job.
Disconnect(i) ==
    /\ con[i] = "up" /\ reg[i] # "none" /\ i \notin lost /\ Fault("drop")
    /\ reg' = [reg EXCEPT ![i] = "offline"] /\ lost' = lost \union {i}
    /\ UNCHANGED <<docker, busy, work, pc, memory, history>>

\* GitHub hands a queued job to an online runner that has none.
Assign(i) ==
    /\ con[i] = "up" /\ reg[i] = "online" /\ i \notin busy /\ waiting[RepoOf[i]] > 0
    /\ busy' = busy \union {i}
    /\ waiting' = [waiting EXCEPT ![RepoOf[i]] = @ - 1]
    /\ UNCHANGED <<docker, reg, lost, jobs, pc, memory, history, faults>>

\* The one job of a runner ends: it deregisters and its container exits.
Finish(i) ==
    /\ con[i] = "up" /\ i \in busy /\ reg[i] = "online"
    /\ con' = [con EXCEPT ![i] = "exited"] /\ ended' = ended + 1
    /\ reg' = [reg EXCEPT ![i] = "none"] /\ busy' = busy \ {i}
    /\ UNCHANGED <<lost, work, pc, memory, history, faults>>

\* A runner whose registration was deleted gives up.
GiveUp(i) ==
    /\ con[i] = "up" /\ reg[i] = "none"
    /\ con' = [con EXCEPT ![i] = "exited"] /\ ended' = ended + 1
    /\ lost' = lost \ {i}
    /\ UNCHANGED <<reg, busy, work, pc, memory, history, faults>>

\* GitHub finds that the runner of a job is gone.
Notice(i) ==
    /\ i \in busy /\ con[i] # "up"
    /\ busy' = busy \ {i}
    /\ UNCHANGED <<docker, reg, lost, work, pc, memory, history, faults>>

\* The Mac restarts: every container ends, the jobs on them fail and their
\* registrations stay behind, offline, and busy until GitHub notices.
Reboot ==
    /\ Fault("reboot")
    /\ con' = [i \in Runners |-> IF con[i] = "up" THEN "exited" ELSE con[i]]
    /\ reg' = [i \in Runners |-> IF reg[i] = "online" THEN "offline" ELSE reg[i]]
    /\ lost' = {}
    /\ Fresh
    /\ UNCHANGED <<busy, work, sinceOnline, misled>>
-----------------------------------------------------------------------------
Tick == \/ SmokeTest \/ ReapExited \/ ReadRunning \/ List \/ ReapOffline
        \/ ReadQueue \/ NoSpawn \/ Mint \/ Run \/ Sleep

Supervisor == Tick \/ Raise \/ Crash

Runner(i) == Connect(i) \/ Disconnect(i) \/ Assign(i) \/ Finish(i) \/ GiveUp(i)
             \/ Notice(i)

Next ==
    \/ Supervisor
    \/ \E r \in RepoSet : JobArrives(r)
    \/ \E i \in Runners : Runner(i)
    \/ Reboot

Spec == Init /\ [][Next]_vars

\* The supervisor loops for ever (restart: unless-stopped); runners connect and
\* leave, jobs end, GitHub hands out jobs and notices dead runners.
FairSpec ==
    /\ Spec
    /\ WF_vars(Tick)
    /\ \A i \in Runners :
        /\ WF_vars(Connect(i)) /\ WF_vars(Assign(i))
        /\ WF_vars(Finish(i)) /\ WF_vars(GiveUp(i)) /\ WF_vars(Notice(i))
-----------------------------------------------------------------------------
(* Properties.                                                             *)

\* A container's phase in the pool.
PoolPhase ==
    [i \in Runners |-> IF con[i] = "none" THEN "free"
                      ELSE IF con[i] = "up" THEN "up"
                      ELSE IF i \in counted THEN "counted" ELSE "ended"]

Pool == INSTANCE RunnerPool WITH phase <- PoolPhase, tally <- jobsTotal

\* The supervisor implements the pool: a count taken before the API calls of a
\* tick still bounds the containers when it starts one, across exceptions and
\* restarts, and a container is removed only once it has been counted
\* (supervisor.py:328-361).
ImplementsPool == Pool!Spec

\* Never more runner containers than the global cap, whatever a tick has read
\* and whatever failed before ("subject to a global concurrency cap",
\* supervisor.py:4-5 and 291).
CapHolds == Cardinality(Up) <= MaxConcurrentGlobal

\* jobs_total accounts for every container that ended: each was counted once
\* or still awaits its count, and is counted again only for each removal that
\* failed (supervisor.py:264-270).
JobsAccounted ==
    jobsTotal + Cardinality(Exited) = ended + removals

\* The supervisor deletes a registration only when the grace period has passed
\* since it was minted and since it was last looked at and found online: a
\* runner that is slow to start or that flaps keeps its registration
\* (supervisor.py:278-287).
ReapAfterGrace ==
    [][\A i \in Runners :
          pc = "reap_offline" /\ pc' = pc /\ reg[i] # "none" /\ reg'[i] = "none"
              /\ listed' # listed
          => sinceOnline[i] >= OrphanReap]_vars

\* Every queued job is taken by a runner, whatever faults have happened before,
\* unless a tick has counted the registration of a dead runner as a busy one
\* (supervisor.py:289-301 and 344-349).
EveryJobStarts ==
    \A r \in RepoSet : waiting[r] > 0 ~> waiting[r] = 0 \/ misled

\* The same without the exception: "one idle ephemeral runner registered per
\* repo, so either repo's job is picked up promptly"
\* (docs/design/039-mac-ci-runner.md:91-92).
EitherRepoServed == \A r \in RepoSet : waiting[r] > 0 ~> waiting[r] = 0

=============================================================================
