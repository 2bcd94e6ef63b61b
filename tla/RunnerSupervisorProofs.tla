----------------------- MODULE RunnerSupervisorProofs -----------------------
(***************************************************************************)
(* Proofs about the runner supervisor, for any identities, repositories,   *)
(* cap, grace period, jobs and faults.                                     *)
(***************************************************************************)
EXTENDS RunnerSupervisor, FiniteSetTheorems, TLAPS

(* The types of the variables, grouped by who changes them. *)

ContainerTypes ==
    /\ con \in [Runners -> {"none", "up", "exited"}]
    /\ counted \subseteq Exited
    /\ jobsTotal \in Nat /\ ended \in Nat /\ removals \in Nat

RegistrationTypes ==
    /\ reg \in [Runners -> {"none", "offline", "online"}]
    /\ busy \subseteq Runners /\ lost \subseteq Runners
    /\ offlineSince \in [Runners -> Never..OrphanReap]
    /\ sinceOnline \in [Runners -> 0..OrphanReap]

\* A queue holds no more than the jobs that have been queued.
WorkTypes ==
    /\ waiting \in [RepoSet -> 0..MaxJobs] /\ jobs \in 0..MaxJobs
    /\ \A r \in RepoSet : waiting[r] <= jobs

TickTypes ==
    /\ pc \in {"smoke", "reap", "ps", "list", "reap_offline", "run", "sleep"}
    /\ live \subseteq Runners
    /\ rest \in Seq(RepoSet)
    /\ pc = "reap_offline" => rest # <<>>
    /\ DOMAIN listed \subseteq Runners
    /\ \A i \in DOMAIN listed : listed[i] \in {"offline", "online"}
    /\ minted \in Runners \union {NoRunner}

CountTypes ==
    /\ idle \in [RepoSet -> Nat] /\ queued \in [RepoSet -> Nat]
    /\ misled \in BOOLEAN /\ faults \in 0..MaxFaults

Types == ContainerTypes /\ RegistrationTypes /\ WorkTypes /\ TickTypes /\ CountTypes

LEMMA TypesImply == Types => TypeOK
BY DEF Types, ContainerTypes, RegistrationTypes, WorkTypes, TickTypes, CountTypes, TypeOK

LEMMA Constants ==
    /\ Runners \subseteq Nat /\ IsFiniteSet(Runners) /\ NoRunner \notin Runners
    /\ Repos \in Seq(RepoSet)
    /\ RepoOf \in [Runners -> RepoSet]
    /\ MaxConcurrentGlobal \in Nat /\ OrphanReap \in Nat /\ MaxJobs \in Nat /\ MaxFaults \in Nat
<1>1. Repos \in Seq(STRING)
    BY RunnerAssumption
<1>2. Len(Repos) \in Nat /\ Repos \in [1..Len(Repos) -> RepoSet]
    BY <1>1 DEF RepoSet, Range
<1>3. Repos \in Seq(RepoSet)
    BY <1>2
<1>4. QED
    BY <1>3, RunnerAssumption DEF RepoSet

\* Every set of identities is finite.
LEMMA Counts ==
    ASSUME NEW S, S \subseteq Runners
    PROVE  IsFiniteSet(S) /\ Cardinality(S) \in Nat
BY Constants, FS_Subset, FS_CardinalityType

\* A non-empty set of naturals has a least element.
LEMMA Least ==
    ASSUME NEW T, T \subseteq Nat, T # {}
    PROVE  MinOf(T) \in T
<1> DEFINE R == OpToRel(<, Nat)
<1>1. IsWellFoundedOn(R, Nat)
    BY NatLessThanWellFounded
<1>2. \A a, b \in Nat : a < b => <<a, b>> \in R
    BY DEF OpToRel
<1> HIDE DEF R
<1>3. PICK x \in T : \A y \in T : ~ (<<y, x>> \in R)
    <2>1. T \in SUBSET Nat
        OBVIOUS
    <2>2. QED
        BY <1>1, <2>1, WFMin, Zenon
<1>4. ASSUME NEW y \in T PROVE x <= y
    <2>1. x \in Nat /\ y \in Nat
        OBVIOUS
    <2>2. ~ (y < x)
        BY <1>2, <1>3, <2>1
    <2>3. QED
        BY <2>1, <2>2
<1>5. \E z : z \in T /\ \A y \in T : z <= y
    BY <1>3, <1>4
<1>6. QED
    BY <1>5 DEF MinOf
-----------------------------------------------------------------------------
(* Types.                                                                  *)

LEMMA FaultType ==
    ASSUME CountTypes, NEW k, Fault(k)
    PROVE  faults' \in 0..MaxFaults
BY Constants DEF CountTypes, Fault

\* Reaping leaves well-typed containers.
LEMMA ReapedTypes ==
    ASSUME ContainerTypes, NEW done, done \subseteq Exited, NEW kept, kept \subseteq done,
           Reaped(done, kept)
    PROVE  con' \in [Runners -> {"none", "up", "exited"}] /\ counted' \subseteq Exited'
           /\ jobsTotal' \in Nat /\ removals' \in Nat
<1>1. Cardinality(done) \in Nat /\ Cardinality(kept) \in Nat
    BY Counts DEF Exited
<1>2. QED
    BY <1>1 DEF Reaped, Counting, ContainerTypes, Exited

\* The containers that a minted identity may be given are none yet.
Unstarted == pc = "run" => minted \in Runners /\ con[minted] = "none"

\* ReapExited is a reaping of some of the exited containers.
LEMMA ReapedSome ==
    ASSUME ReapExited
    PROVE  \E done \in SUBSET Exited : \E kept \in SUBSET done : Reaped(done, kept)
BY DEF ReapExited

LEMMA ContainerTypesKept ==
    ASSUME ContainerTypes, Unstarted, [Next]_vars
    PROVE  ContainerTypes'
<1>1. CASE ReapExited
    <2>1. PICK done \in SUBSET Exited : \E kept \in SUBSET done : Reaped(done, kept)
        BY <1>1, ReapedSome
    <2>2. PICK kept \in SUBSET done : Reaped(done, kept)
        BY <2>1
    <2>3. ended' = ended
        BY <1>1 DEF ReapExited
    <2>4. QED
        BY <2>2, <2>3, ReapedTypes DEF ContainerTypes
<1>2. CASE Run
    BY <1>2 DEF Run, Unstarted, ContainerTypes, Exited, history, EndTick
<1>3. ASSUME NEW i \in Runners, Finish(i) \/ GiveUp(i) PROVE ContainerTypes'
    BY <1>3 DEF Finish, GiveUp, ContainerTypes, Exited, history, memory
<1>4. ASSUME Fresh, con' \in [Runners -> {"none", "up", "exited"}] PROVE ContainerTypes'
    <2>1. Cardinality({i \in Runners : con'[i] = "exited"}) \in Nat
        BY Counts
    <2>2. QED
        BY <1>4, <2>1 DEF Fresh, ContainerTypes
<1>5. CASE Crash
    BY <1>4, <1>5 DEF Crash, ContainerTypes
<1>6. CASE Reboot
    BY <1>4, <1>6 DEF Reboot, ContainerTypes
<1>7. CASE UNCHANGED <<docker, jobsTotal, counted, removals>>
    BY <1>7 DEF docker, ContainerTypes, Exited
<1>8. QED
    BY <1>1, <1>2, <1>3, <1>5, <1>6, <1>7
       DEF Next, Supervisor, Tick, Runner, SmokeTest, ReadRunning, List, ReapOffline, ReadQueue,
           NoSpawn, Mint, Sleep, Raise, JobArrives, Connect, Disconnect, Assign, Notice,
           vars, memory, history

\* A grace period's age grows no older than the grace period.
LEMMA OlderType ==
    ASSUME NEW age \in Never..OrphanReap
    PROVE  Older(age) \in Never..OrphanReap /\ (age # Never => Older(age) \in 0..OrphanReap)
BY Constants DEF Older, Never

\* The identity that is minted was not in use.
LEMMA FreeIdentity ==
    ASSUME NEW r, Free(r) # {}
    PROVE  /\ MinOf(Free(r)) \in Runners
           /\ con[MinOf(Free(r))] = "none" /\ reg[MinOf(Free(r))] = "none"
<1>1. MinOf(Free(r)) \in Free(r)
    <2>1. Free(r) \subseteq Nat
        BY Constants DEF Free
    <2>2. QED
        BY <2>1, Least
<1>2. QED
    BY <1>1 DEF Free

LEMMA RegisterTypes ==
    ASSUME RegistrationTypes, NEW i \in Runners, Register(i)
    PROVE  /\ reg' \in [Runners -> {"none", "offline", "online"}]
           /\ offlineSince' \in [Runners -> Never..OrphanReap]
           /\ sinceOnline' \in [Runners -> 0..OrphanReap]
<1>1. reg' \in [Runners -> {"none", "offline", "online"}]
    BY DEF RegistrationTypes, Register
<1>2. offlineSince' \in [Runners -> Never..OrphanReap]
    BY Constants DEF RegistrationTypes, Register, Never
<1>3. sinceOnline' \in [Runners -> 0..OrphanReap]
    BY Constants DEF RegistrationTypes, Register
<1>4. QED
    BY <1>1, <1>2, <1>3

LEMMA RegistrationTypesKept ==
    ASSUME RegistrationTypes, TickTypes, [Next]_vars
    PROVE  RegistrationTypes'
<1>1. CASE ReapOffline
    <2> DEFINE i == MinOf(DOMAIN listed)  age == FirstSeen(i, listed[i])
    <2>1. i \in Runners => age \in Never..OrphanReap
        BY Constants DEF FirstSeen, RegistrationTypes, Never
    <2>2. /\ sinceOnline' = [sinceOnline EXCEPT ![i] = 0] \/ sinceOnline' = sinceOnline
          /\ \/ offlineSince' = [offlineSince EXCEPT ![i] = Never]
             \/ offlineSince' = [offlineSince EXCEPT ![i] = age]
          /\ reg' = reg \/ reg' = [reg EXCEPT ![i] = "none"]
          /\ UNCHANGED <<busy, lost>>
        BY <1>1 DEF ReapOffline, Deleted
    <2> HIDE DEF i, age
    <2>3. sinceOnline' \in [Runners -> 0..OrphanReap]
        BY <2>2, Constants DEF RegistrationTypes
    <2>4. offlineSince' \in [Runners -> Never..OrphanReap]
        BY <2>1, <2>2, Constants DEF RegistrationTypes, Never
    <2>5. QED
        BY <2>2, <2>3, <2>4 DEF RegistrationTypes
<1>2. CASE Mint
    <2>1. ASSUME NEW i \in Runners, Register(i) PROVE RegistrationTypes'
        BY <1>2, <2>1, RegisterTypes DEF Mint, RegistrationTypes
    <2>2. CASE UNCHANGED <<reg, offlineSince, sinceOnline>>
        BY <1>2, <2>2 DEF Mint, RegistrationTypes
    <2>3. QED
        BY <1>2, <2>1, <2>2, FreeIdentity DEF Mint
<1>3. CASE Sleep
    <2>1. offlineSince' \in [Runners -> Never..OrphanReap]
        BY <1>3, OlderType, Constants DEF Sleep, RegistrationTypes, Never
    <2>2. sinceOnline' \in [Runners -> 0..OrphanReap]
        <3>1. \A age \in 0..OrphanReap : Older(age) \in 0..OrphanReap
            BY Constants DEF Older, Never
        <3>2. QED
            BY <1>3, <3>1, Constants DEF Sleep, RegistrationTypes
    <2>3. QED
        BY <1>3, <2>1, <2>2 DEF Sleep, RegistrationTypes, github
<1>4. CASE Crash
    BY <1>4, Constants DEF Crash, Fresh, RegistrationTypes, github, Never
<1>5. CASE Reboot
    BY <1>5, Constants DEF Reboot, Fresh, RegistrationTypes, Never
<1>6. ASSUME NEW i \in Runners, Runner(i) PROVE RegistrationTypes'
    BY <1>6 DEF Runner, Connect, Disconnect, Assign, Finish, GiveUp, Notice, RegistrationTypes,
       memory, history
<1>7. CASE UNCHANGED <<github, offlineSince, sinceOnline>>
    BY <1>7 DEF github, RegistrationTypes
<1>8. QED
    BY <1>1, <1>2, <1>3, <1>4, <1>5, <1>6, <1>7
       DEF Next, Supervisor, Tick, SmokeTest, ReapExited, ReadRunning, List, ReadQueue,
           NoSpawn, Run, Raise, JobArrives, vars, memory, history

LEMMA WorkTypesKept ==
    ASSUME WorkTypes, [Next]_vars
    PROVE  WorkTypes'
<1>1. ASSUME NEW r \in RepoSet, JobArrives(r) PROVE WorkTypes'
    BY <1>1, Constants DEF JobArrives, WorkTypes
<1>2. ASSUME NEW i \in Runners, Assign(i) PROVE WorkTypes'
    <2>1. RepoOf[i] \in RepoSet
        BY Constants
    <2>2. QED
        BY <1>2, <2>1, Constants DEF Assign, WorkTypes
<1>3. CASE UNCHANGED work
    BY <1>3 DEF work, WorkTypes
<1>4. QED
    BY <1>1, <1>2, <1>3
       DEF Next, Supervisor, Tick, Runner, SmokeTest, ReapExited, ReadRunning, List, ReapOffline,
           ReadQueue, NoSpawn, Mint, Run, Sleep, Raise, Crash, Connect, Disconnect, Finish, GiveUp,
           Notice, Reboot, vars

LEMMA EndTickTypes == EndTick => TickTypes'
BY DEF EndTick, TickTypes, NoListing

LEMMA TickTypesKept ==
    ASSUME TickTypes, RegistrationTypes, [Next]_vars
    PROVE  TickTypes'
<1>1. CASE ReadRunning
    BY <1>1, Constants DEF ReadRunning, TickTypes, Up
<1>2. CASE List
    <2>1. PICK seen \in SUBSET {i \in Runners : reg[i] # "none"} : listed' = [i \in seen |-> reg[i]]
        BY <1>2 DEF List
    <2>2. DOMAIN listed' = seen /\ \A i \in seen : listed'[i] = reg[i]
        BY <2>1
    <2>3. \A i \in seen : i \in Runners /\ reg[i] \in {"offline", "online"}
        BY DEF RegistrationTypes
    <2>4. QED
        BY <1>2, <2>2, <2>3 DEF List, TickTypes
<1>3. CASE ReapOffline
    <2>1. PICK i : listed' = [j \in DOMAIN listed \ {i} |-> listed[j]]
        BY <1>3 DEF ReapOffline, Restrict
    <2>2. /\ DOMAIN listed' = DOMAIN listed \ {i}
          /\ \A j \in DOMAIN listed \ {i} : listed'[j] = listed[j]
        BY <2>1
    <2>3. QED
        BY <1>3, <2>2 DEF ReapOffline, TickTypes
<1>4. CASE ReadQueue
    <2>1. rest \in Seq(RepoSet) /\ rest # <<>>
        BY <1>4 DEF ReadQueue, TickTypes
    <2>2. Tail(rest) \in Seq(RepoSet)
        BY <2>1
    <2>3. QED
        BY <1>4, <2>2 DEF ReadQueue, TickTypes
<1>5. CASE Mint
    <2>1. CASE EndTick
        BY <2>1, EndTickTypes
    <2>2. CASE ~EndTick
        <3>1. /\ pc' = "run" /\ minted' = MinOf(Free(Target)) /\ Free(Target) # {}
              /\ UNCHANGED <<live, rest, listed>>
            BY <1>5, <2>2 DEF Mint
        <3>2. minted' \in Runners
            BY <3>1, FreeIdentity
        <3>3. QED
            BY <3>1, <3>2 DEF TickTypes
    <2>3. QED
        BY <2>1, <2>2
<1>6. CASE EndTick
    BY <1>6, EndTickTypes
<1>7. CASE Fresh
    BY <1>7 DEF Fresh, TickTypes, NoListing
<1>8. CASE ReapExited \/ Sleep \/ SmokeTest
    BY <1>8 DEF ReapExited, Sleep, SmokeTest, TickTypes, memory, tick
<1>9. CASE UNCHANGED <<pc, tick>>
    BY <1>9 DEF tick, TickTypes
<1>10. QED
    BY <1>1, <1>2, <1>3, <1>4, <1>5, <1>6, <1>7, <1>8, <1>9
       DEF Next, Supervisor, Tick, Runner, NoSpawn, Run, Raise, Crash, JobArrives, Connect,
           Disconnect, Assign, Finish, GiveUp, Notice, Reboot, vars, memory

LEMMA MonusType ==
    ASSUME NEW a \in Nat, NEW b \in Nat
    PROVE  Monus(a, b) \in Nat
BY DEF Monus

LEMMA NoneSeenType == NoneSeen \in [RepoSet -> Nat]
BY DEF NoneSeen

LEMMA CountTypesKept ==
    ASSUME CountTypes, WorkTypes, TickTypes, RegistrationTypes, [Next]_vars
    PROVE  CountTypes'
<1>1. faults' \in 0..MaxFaults
    <2>1. CASE \E k : Fault(k)
        BY <2>1, FaultType
    <2>2. CASE UNCHANGED faults
        BY <2>2 DEF CountTypes
    <2>3. QED
        BY <2>1, <2>2
           DEF Next, Supervisor, Tick, Runner, SmokeTest, ReapExited, ReadRunning, List, ReapOffline,
               Deleted, ReadQueue, NoSpawn, Mint, Run, Sleep, Raise, Crash, JobArrives, Connect,
               Disconnect, Assign, Finish, GiveUp, Notice, Reboot, vars
<1>2. misled' \in BOOLEAN
    <2>1. CASE List
        <3>1. PICK b \in BOOLEAN : misled' = (misled \/ b)
            BY <2>1 DEF List
        <3>2. QED
            BY <3>1, Zenon DEF CountTypes
    <2>2. CASE UNCHANGED misled
        BY <2>2 DEF CountTypes
    <2>3. QED
        BY <2>1, <2>2
           DEF Next, Supervisor, Tick, Runner, SmokeTest, ReapExited, ReadRunning, ReapOffline,
               ReadQueue, NoSpawn, Mint, Run, Sleep, Raise, Crash, JobArrives, Connect,
               Disconnect, Assign, Finish, GiveUp, Notice, Reboot, vars, history
<1>3. idle' \in [RepoSet -> Nat] /\ queued' \in [RepoSet -> Nat]
    <2>1. CASE List
        <3>1. PICK r \in RepoSet, seen \in SUBSET Runners : idle' = [idle EXCEPT ![r] =
                    Monus(Cardinality(LiveOf(r)), Cardinality(busy \cap seen))]
            <4>1. Head(rest) \in RepoSet
                BY <2>1 DEF List, TickTypes
            <4>2. QED
                BY <2>1, <4>1 DEF List
        <3>2. Cardinality(LiveOf(r)) \in Nat /\ Cardinality(busy \cap seen) \in Nat
            <4>1. LiveOf(r) \subseteq Runners /\ busy \cap seen \subseteq Runners
                BY DEF LiveOf, TickTypes
            <4>2. QED
                BY <4>1, Counts
        <3>3. Monus(Cardinality(LiveOf(r)), Cardinality(busy \cap seen)) \in Nat
            BY <3>2, MonusType
        <3>4. QED
            BY <2>1, <3>1, <3>3 DEF List, CountTypes
    <2>2. CASE ReadQueue
        <3>1. Head(rest) \in RepoSet
            BY <2>2 DEF ReadQueue, TickTypes
        <3>2. waiting[Head(rest)] \in Nat
            BY <3>1, Constants DEF WorkTypes
        <3>3. QED
            BY <2>2, <3>1, <3>2 DEF ReadQueue, CountTypes
    <2>3. CASE idle' = NoneSeen /\ queued' = NoneSeen
        BY <2>3, NoneSeenType
    <2>4. CASE UNCHANGED <<idle, queued>>
        BY <2>4 DEF CountTypes
    <2>5. QED
        BY <2>1, <2>2, <2>3, <2>4
           DEF Next, Supervisor, Tick, Runner, SmokeTest, ReapExited, ReadRunning, ReapOffline,
               NoSpawn, EndTick, Mint, Run, Sleep, Raise, Crash, Fresh, JobArrives, Connect,
               Disconnect, Assign, Finish, GiveUp, Notice, Reboot, vars, memory, tick
<1>4. QED
    BY <1>1, <1>2, <1>3 DEF CountTypes

LEMMA UnstartedKept ==
    ASSUME TickTypes, ContainerTypes, Unstarted, [Next]_vars
    PROVE  Unstarted'
<1>1. SUFFICES ASSUME pc' = "run"
               PROVE  minted' \in Runners /\ con'[minted'] = "none"
    BY DEF Unstarted
<1>2. CASE Mint
    <2>1. minted' = MinOf(Free(Target)) /\ Free(Target) # {} /\ con' = con
        BY <1>1, <1>2 DEF Mint, EndTick, docker
    <2>2. QED
        BY <2>1, FreeIdentity
<1>3. CASE pc = "run" /\ UNCHANGED minted /\ \A i \in Runners : con[i] = "none" => con'[i] = "none"
    BY <1>3 DEF Unstarted
<1>4. QED
    BY <1>1, <1>2, <1>3
       DEF Next, Supervisor, Tick, Runner, SmokeTest, ReapExited, ReadRunning, List, ReapOffline,
           ReadQueue, NoSpawn, EndTick, Run, Sleep, Raise, Crash, Fresh, JobArrives, Connect,
           Disconnect, Assign, Finish, GiveUp, Notice, Reboot, vars, docker, memory, tick,
           ContainerTypes

TypeInv == Types /\ Unstarted

LEMMA TypeInvInit == Init => TypeInv
<1> SUFFICES ASSUME Init PROVE TypeInv
    OBVIOUS
<1>1. ContainerTypes
    BY DEF Init, ContainerTypes, Exited
<1>2. RegistrationTypes
    BY Constants DEF Init, RegistrationTypes, Never
<1>3. WorkTypes
    BY Constants DEF Init, WorkTypes, NoneSeen
<1>4. TickTypes
    BY DEF Init, TickTypes, NoListing
<1>5. CountTypes
    <2>1. idle \in [RepoSet -> Nat] /\ queued \in [RepoSet -> Nat]
        BY NoneSeenType DEF Init
    <2>2. misled \in BOOLEAN
        BY DEF Init
    <2>3. faults \in 0..MaxFaults
        BY Constants DEF Init
    <2>4. QED
        BY <2>1, <2>2, <2>3 DEF CountTypes
<1>6. Unstarted
    BY DEF Init, Unstarted
<1>7. QED
    BY <1>1, <1>2, <1>3, <1>4, <1>5, <1>6 DEF TypeInv, Types

LEMMA TypeInvKept == TypeInv /\ [Next]_vars => TypeInv'
<1> SUFFICES ASSUME TypeInv, [Next]_vars PROVE TypeInv'
    OBVIOUS
<1>1. ContainerTypes /\ RegistrationTypes /\ WorkTypes /\ TickTypes /\ CountTypes /\ Unstarted
    BY DEF TypeInv, Types
<1>2. QED
    BY <1>1, ContainerTypesKept, RegistrationTypesKept, WorkTypesKept, TickTypesKept,
       CountTypesKept, UnstartedKept DEF TypeInv, Types

\* Every reachable state of the supervisor, Docker and GitHub is well typed:
\* what was counted is still there, ages stop at the grace period, and a tick
\* looks at registrations only while a repository is left.
THEOREM SupervisorTypes == Spec => []TypeOK
<1>1. TypeInv => TypeOK
    BY TypesImply DEF TypeInv
<1>2. QED
    BY <1>1, TypeInvInit, TypeInvKept, PTL DEF Spec

LEMMA TypeInvAlways == Spec => []TypeInv
BY TypeInvInit, TypeInvKept, PTL DEF Spec
-----------------------------------------------------------------------------
(* The steps that matter to the pool of containers.                        *)

poolVars == <<con, counted, jobsTotal, ended, removals>>

LEMMA PoolSteps ==
    ASSUME [Next]_vars
    PROVE  \/ ReapExited \/ Run \/ Crash \/ Reboot
           \/ \E i \in Runners : Finish(i) \/ GiveUp(i)
           \/ UNCHANGED poolVars
BY DEF Next, Supervisor, Tick, Runner, SmokeTest, ReadRunning, List, ReapOffline, ReadQueue,
       NoSpawn, Mint, Sleep, Raise, JobArrives, Connect, Disconnect, Assign, Notice,
       vars, docker, memory, history, poolVars

\* A removal of some exited containers.
LEMMA ReapedCount ==
    ASSUME ContainerTypes, JobsAccounted,
           NEW done, done \subseteq Exited, NEW kept, kept \subseteq done,
           Reaped(done, kept), ended' = ended
    PROVE  JobsAccounted'
<1>1. Exited' = Exited \ (done \ kept)
    BY DEF Reaped, Exited, ContainerTypes
<1>2. IsFiniteSet(Exited) /\ IsFiniteSet(done) /\ IsFiniteSet(kept)
    BY Counts DEF Exited
<1>3. Cardinality(Exited') = Cardinality(Exited) - Cardinality(done \ kept)
    <2> DEFINE gone == done \ kept
    <2>1. Exited \cap gone = gone
        OBVIOUS
    <2> HIDE DEF gone
    <2>2. Cardinality(Exited \ gone) = Cardinality(Exited) - Cardinality(gone)
        BY <1>2, <2>1, FS_Difference
    <2>3. QED
        BY <1>1, <2>2 DEF gone
<1>4. Cardinality(done \ kept) = Cardinality(done) - Cardinality(kept)
    <2>1. done \cap kept = kept
        OBVIOUS
    <2>2. QED
        BY <1>2, <2>1, FS_Difference
<1>5. /\ Cardinality(Exited) \in Nat /\ Cardinality(done) \in Nat /\ Cardinality(kept) \in Nat
      /\ jobsTotal \in Nat /\ ended \in Nat /\ removals \in Nat
    BY <1>2, FS_CardinalityType DEF ContainerTypes
<1>6. QED
    BY <1>3, <1>4, <1>5 DEF JobsAccounted, Reaped, Counting

\* jobs_total, the containers that await their count and the failed removals
\* always balance with the containers that have ended: no exception, crash or
\* reboot loses a job or counts one twice.
THEOREM EveryEndCounted == Spec => []JobsAccounted
<1>1. Init => JobsAccounted
    <2>1. Init => Exited = {}
        BY DEF Init, Exited
    <2>2. QED
        BY <2>1, FS_EmptySet DEF Init, JobsAccounted
<1>2. TypeInv /\ JobsAccounted /\ [Next]_vars => JobsAccounted'
    <2> SUFFICES ASSUME TypeInv, JobsAccounted, [Next]_vars PROVE JobsAccounted'
        OBVIOUS
    <2>1. ContainerTypes /\ Unstarted
        BY DEF TypeInv, Types
    <2>2. CASE ReapExited
        <3>1. PICK done \in SUBSET Exited : \E kept \in SUBSET done : Reaped(done, kept)
            BY <2>2, ReapedSome
        <3>2. PICK kept \in SUBSET done : Reaped(done, kept)
            BY <3>1
        <3>3. ended' = ended
            BY <2>2 DEF ReapExited
        <3>4. QED
            BY <2>1, <3>2, <3>3, ReapedCount
    <2>3. CASE Run
        <3>1. Exited' = Exited
            BY <2>1, <2>3 DEF Run, Exited, Unstarted, ContainerTypes
        <3>2. QED
            BY <2>3, <3>1 DEF Run, JobsAccounted, history
    <2>4. ASSUME NEW i \in Runners, Finish(i) \/ GiveUp(i) PROVE JobsAccounted'
        <3>1. Exited' = Exited \union {i} /\ i \notin Exited
            BY <2>1, <2>4 DEF Finish, GiveUp, Exited, ContainerTypes
        <3>2. IsFiniteSet(Exited) /\ Cardinality(Exited) \in Nat
            BY Counts DEF Exited
        <3>3. Cardinality(Exited') = Cardinality(Exited) + 1
            BY <3>1, <3>2, FS_AddElement
        <3>4. ended' = ended + 1 /\ jobsTotal' = jobsTotal /\ removals' = removals
            BY <2>4 DEF Finish, GiveUp, memory, history
        <3>5. QED
            BY <2>1, <3>2, <3>3, <3>4 DEF JobsAccounted, ContainerTypes
    <2>5. CASE Crash \/ Reboot
        <3>1. Fresh
            BY <2>5 DEF Crash, Reboot
        <3>2. Cardinality(Exited') \in Nat
            BY Counts DEF Exited
        <3>3. QED
            BY <3>1, <3>2 DEF Fresh, JobsAccounted, Exited
    <2>6. CASE UNCHANGED poolVars
        BY <2>6 DEF poolVars, JobsAccounted, Exited
    <2>7. QED
        BY <2>2, <2>3, <2>4, <2>5, <2>6, PoolSteps
<1>3. QED
    BY <1>1, <1>2, TypeInvAlways, PTL DEF Spec
-----------------------------------------------------------------------------
(* The cap, when `docker ps` never fails.                                  *)

Reading == {"list", "reap_offline", "run"}

\* Between its look at the containers and the start of one, a tick knows every
\* running container: only the tick itself starts any.  It starts one only
\* under the cap.
KnowsRunning == pc \in Reading => Up \subseteq live
RoomToRun    == pc = "run" => Cardinality(live) < MaxConcurrentGlobal

LEMMA RoomToRunKept ==
    ASSUME RoomToRun, [Next]_vars
    PROVE  RoomToRun'
<1>1. CASE Mint
    BY <1>1 DEF Mint, MaySpawn, RoomToRun, EndTick
<1>2. CASE UNCHANGED <<pc, live>>
    BY <1>2 DEF RoomToRun
<1>3. CASE pc' # "run"
    BY <1>3 DEF RoomToRun
<1>4. QED
    BY <1>1, <1>2, <1>3
       DEF Next, Supervisor, Tick, Runner, SmokeTest, ReapExited, ReadRunning, List, ReapOffline,
           ReadQueue, NoSpawn, EndTick, Run, Sleep, Raise, Crash, Fresh, JobArrives, Connect,
           Disconnect, Assign, Finish, GiveUp, Notice, Reboot, vars, memory, tick

LEMMA KnowsRunningKept ==
    ASSUME "ps" \notin Faults, TypeInv, KnowsRunning, [Next]_vars
    PROVE  KnowsRunning'
<1>1. SUFFICES ASSUME pc' \in Reading PROVE Up' \subseteq live'
    BY DEF KnowsRunning
<1>2. ContainerTypes
    BY DEF TypeInv, Types
<1>3. CASE ReadRunning
    BY <1>3 DEF ReadRunning, Fault, Up, docker
<1>4. CASE Mint
    BY <1>1, <1>4 DEF Mint, EndTick, Reading, KnowsRunning, Up, docker
<1>5. ASSUME NEW i \in Runners, Finish(i) \/ GiveUp(i) PROVE Up' \subseteq live'
    <2>1. Up' \subseteq Up /\ UNCHANGED <<pc, live>>
        BY <1>2, <1>5 DEF Finish, GiveUp, Up, ContainerTypes, memory, tick
    <2>2. QED
        BY <1>1, <2>1 DEF KnowsRunning
<1>6. CASE UNCHANGED <<con, live>> /\ pc \in Reading
    BY <1>6 DEF KnowsRunning, Up
<1>7. QED
    BY <1>1, <1>3, <1>4, <1>5, <1>6
       DEF Next, Supervisor, Tick, Runner, SmokeTest, ReapExited, List, ReapOffline,
           ReadQueue, NoSpawn, EndTick, Run, Sleep, Raise, Crash, Fresh, JobArrives, Connect,
           Disconnect, Assign, Notice, Reboot, vars, docker, memory, tick, Reading

\* When a tick starts a container, fewer than the cap run.
LEMMA RoomAtRun ==
    ASSUME TypeInv, KnowsRunning, RoomToRun, Run
    PROVE  Cardinality(Up) < MaxConcurrentGlobal
<1>1. Up \subseteq live /\ Cardinality(live) < MaxConcurrentGlobal
    BY DEF Run, KnowsRunning, RoomToRun, Reading
<1>2. live \subseteq Runners
    BY DEF TypeInv, Types, TickTypes
<1>3. IsFiniteSet(live) /\ Cardinality(live) \in Nat /\ Cardinality(Up) \in Nat
    BY <1>1, <1>2, Counts DEF Up
<1>4. Cardinality(Up) <= Cardinality(live)
    BY <1>1, <1>3, FS_Subset
<1>5. QED
    BY <1>1, <1>3, <1>4, Constants

CapInv == TypeInv /\ KnowsRunning /\ RoomToRun /\ CapHolds

LEMMA CapKept ==
    ASSUME "ps" \notin Faults, CapInv, [Next]_vars
    PROVE  CapInv'
<1>1. TypeInv /\ KnowsRunning /\ RoomToRun /\ CapHolds /\ ContainerTypes /\ Unstarted
    BY DEF CapInv, TypeInv, Types
<1>2. TypeInv' /\ KnowsRunning' /\ RoomToRun'
    BY <1>1, TypeInvKept, KnowsRunningKept, RoomToRunKept
<1>3. IsFiniteSet(Up) /\ Cardinality(Up) \in Nat /\ Cardinality(Up') \in Nat
    BY Counts DEF Up
<1>4. ASSUME Up' \subseteq Up PROVE CapHolds'
    <2>1. Cardinality(Up') <= Cardinality(Up)
        BY <1>3, <1>4, FS_Subset
    <2>2. QED
        BY <1>1, <1>3, <2>1, Constants DEF CapHolds
<1>5. CASE Run
    <2>1. CASE con' = [con EXCEPT ![minted] = "up"]
        <3>1. Up' = Up \union {minted} /\ minted \notin Up
            BY <1>1, <1>5, <2>1 DEF Run, Unstarted, Up, ContainerTypes
        <3>2. Cardinality(Up') = Cardinality(Up) + 1
            BY <1>3, <3>1, FS_AddElement
        <3>3. Cardinality(Up) < MaxConcurrentGlobal
            BY <1>1, <1>5, RoomAtRun
        <3>4. CapHolds'
            BY <1>3, <3>2, <3>3, Constants DEF CapHolds
        <3>5. QED
            BY <1>2, <3>4 DEF CapInv
    <2>2. CASE con' = con
        BY <1>2, <1>4, <2>2 DEF Up, CapInv
    <2>3. QED
        BY <1>5, <2>1, <2>2 DEF Run
<1>6. CASE ReapExited
    <2>1. Up' \subseteq Up
        BY <1>1, <1>6 DEF ReapExited, Reaped, Up, ContainerTypes
    <2>2. QED
        BY <1>2, <1>4, <2>1 DEF CapInv
<1>7. CASE Crash \/ Reboot
    <2>1. Up' \subseteq Up
        BY <1>1, <1>7 DEF Crash, Reboot, Up, ContainerTypes
    <2>2. QED
        BY <1>2, <1>4, <2>1 DEF CapInv
<1>8. ASSUME NEW i \in Runners, Finish(i) \/ GiveUp(i) PROVE CapInv'
    <2>1. Up' \subseteq Up
        BY <1>1, <1>8 DEF Finish, GiveUp, Up, ContainerTypes
    <2>2. QED
        BY <1>2, <1>4, <2>1 DEF CapInv
<1>9. CASE UNCHANGED poolVars
    BY <1>2, <1>4, <1>9 DEF poolVars, Up, CapInv
<1>10. QED
    BY <1>5, <1>6, <1>7, <1>8, <1>9, PoolSteps

LEMMA CapInit == Init => CapInv
<1> SUFFICES ASSUME Init PROVE CapInv
    OBVIOUS
<1>1. Up = {} /\ pc = "smoke"
    BY DEF Init, Up
<1>2. CapHolds
    BY <1>1, FS_EmptySet, Constants DEF CapHolds
<1>3. QED
    BY <1>1, <1>2, TypeInvInit DEF CapInv, KnowsRunning, RoomToRun, Reading

LEMMA CapAlways ==
    ASSUME "ps" \notin Faults
    PROVE  Spec => []CapInv
BY CapInit, CapKept, PTL DEF Spec

\* As long as `docker ps` answers, the global cap holds, whatever the API calls
\* between the count and the start do, and across exceptions, crashes and
\* reboots.
THEOREM CapKeptWhilePsAnswers ==
    ASSUME "ps" \notin Faults
    PROVE  Spec => []CapHolds
<1>1. CapInv => CapHolds
    BY DEF CapInv
<1>2. QED
    BY <1>1, CapAlways, PTL
-----------------------------------------------------------------------------
(* The grace period.                                                       *)

\* What the supervisor remembers of a registration is never older than the
\* time since it was last seen online.
AgesBounded == \A i \in Runners : offlineSince[i] <= sinceOnline[i]

LEMMA OlderMonotone ==
    ASSUME NEW a \in Never..OrphanReap, NEW b \in 0..OrphanReap, a <= b
    PROVE  Older(a) <= Older(b)
BY Constants DEF Older, Never

LEMMA AgesKept ==
    ASSUME TypeInv, AgesBounded, [Next]_vars
    PROVE  AgesBounded'
<1>1. RegistrationTypes
    BY DEF TypeInv, Types
<1>2. \A i \in Runners : offlineSince[i] \in Never..OrphanReap /\ sinceOnline[i] \in 0..OrphanReap
    BY <1>1 DEF RegistrationTypes
<1>3. CASE ReapOffline
    <2> DEFINE i == MinOf(DOMAIN listed)  age == FirstSeen(i, listed[i])
    <2>1. /\ sinceOnline' = IF listed[i] = "online" THEN [sinceOnline EXCEPT ![i] = 0]
                            ELSE sinceOnline
          /\ \/ offlineSince' = [offlineSince EXCEPT ![i] = Never]
             \/ offlineSince' = [offlineSince EXCEPT ![i] = age]
        BY <1>3 DEF ReapOffline
    <2>2. /\ listed[i] = "online" => age = Never
          /\ listed[i] # "online" => age = 0 \/ age = offlineSince[i]
        BY DEF FirstSeen
    <2> HIDE DEF i, age
    <2>3. SUFFICES ASSUME NEW j \in Runners PROVE offlineSince'[j] <= sinceOnline'[j]
        BY DEF AgesBounded
    <2>4. CASE j # i
        BY <1>1, <2>1, <2>4 DEF RegistrationTypes, AgesBounded
    <2>5. CASE j = i /\ listed[i] = "online"
        BY <1>1, <2>1, <2>2, <2>5 DEF RegistrationTypes, Never
    <2>6. CASE j = i /\ listed[i] # "online"
        <3>1. sinceOnline'[j] = sinceOnline[j]
            BY <2>1, <2>6
        <3>2. offlineSince'[j] \in {Never, 0, offlineSince[j]}
            BY <1>1, <2>1, <2>2, <2>6 DEF RegistrationTypes
        <3>3. QED
            BY <1>2, <3>1, <3>2, Constants DEF AgesBounded, Never
    <2>7. QED
        BY <2>4, <2>5, <2>6
<1>4. CASE Mint
    <2>1. ASSUME NEW i \in Runners, Register(i) PROVE AgesBounded'
        BY <1>1, <2>1 DEF Register, RegistrationTypes, AgesBounded, Never
    <2>2. CASE UNCHANGED <<offlineSince, sinceOnline>>
        BY <2>2 DEF AgesBounded
    <2>3. QED
        BY <1>4, <2>1, <2>2, FreeIdentity DEF Mint
<1>5. CASE Sleep
    <2>1. SUFFICES ASSUME NEW i \in Runners PROVE offlineSince'[i] <= sinceOnline'[i]
        BY DEF AgesBounded
    <2>2. Older(offlineSince[i]) <= Older(sinceOnline[i])
        BY <1>2, OlderMonotone DEF AgesBounded
    <2>3. QED
        BY <1>5, <2>2 DEF Sleep, Never
<1>6. CASE Crash \/ Reboot
    BY <1>2, <1>6, Constants DEF Crash, Reboot, Fresh, AgesBounded, Never
<1>7. CASE UNCHANGED <<offlineSince, sinceOnline>>
    BY <1>7 DEF AgesBounded
<1>8. QED
    BY <1>3, <1>4, <1>5, <1>6, <1>7
       DEF Next, Supervisor, Tick, Runner, SmokeTest, ReapExited, ReadRunning, List, ReadQueue,
           NoSpawn, Run, Raise, JobArrives, Connect, Disconnect, Assign, Finish, GiveUp, Notice,
           vars, memory, history

\* The supervisor deletes a registration only when the grace period has passed
\* since its mint and since it was last seen online.
THEOREM NoEarlyReap == Spec => ReapAfterGrace
<1> DEFINE Late == \A i \in Runners :
              pc = "reap_offline" /\ pc' = pc /\ reg[i] # "none" /\ reg'[i] = "none"
                  /\ listed' # listed
              => sinceOnline[i] >= OrphanReap
<1>1. Init => AgesBounded
    BY DEF Init, AgesBounded, Never
<1>2. TypeInv /\ AgesBounded /\ [Next]_vars => Late
    <2>1. SUFFICES ASSUME TypeInv, AgesBounded, [Next]_vars, NEW i \in Runners,
                          pc = "reap_offline", pc' = pc, reg[i] # "none", reg'[i] = "none",
                          listed' # listed
                   PROVE  sinceOnline[i] >= OrphanReap
        OBVIOUS
    <2>2. ReapOffline
        BY <2>1 DEF Next, Supervisor, Tick, Runner, SmokeTest, ReapExited, ReadRunning, List,
           ReadQueue, NoSpawn, Mint, Run, Sleep, Raise, EndTick, Crash, Fresh, JobArrives, Connect,
           Disconnect, Assign, Finish, GiveUp, Notice, Reboot, vars, memory, tick
    <2> DEFINE j == MinOf(DOMAIN listed)  age == FirstSeen(j, listed[j])
    <2>3. RegistrationTypes
        BY <2>1 DEF TypeInv, Types
    <2>4. PastGrace(age) /\ reg' = [reg EXCEPT ![j] = "none"]
        BY <2>1, <2>2 DEF ReapOffline, Deleted
    <2>5. age \in {Never, 0, offlineSince[j]}
        BY DEF FirstSeen
    <2> HIDE DEF j, age
    <2>6. i = j
        BY <2>1, <2>3, <2>4 DEF RegistrationTypes
    <2>7. age # Never /\ age >= OrphanReap
        BY <2>4 DEF PastGrace
    <2>8. offlineSince[i] \in Int /\ sinceOnline[i] \in Nat /\ offlineSince[i] <= sinceOnline[i]
        BY <2>1, <2>3, Constants DEF RegistrationTypes, AgesBounded, Never
    <2>9. QED
        BY <2>5, <2>6, <2>7, <2>8, Constants
<1>3. TypeInv /\ AgesBounded /\ [Next]_vars => AgesBounded'
    BY AgesKept
<1>4. QED
    BY <1>1, <1>2, <1>3, TypeInvAlways, PTL DEF Spec, ReapAfterGrace
-----------------------------------------------------------------------------
(* The supervisor implements the pool, when `docker ps` never fails.       *)

\* The phase of a container, by cases.
LEMMA PhaseIs ==
    ASSUME ContainerTypes
    PROVE  /\ \A i \in Runners : PoolPhase[i] = "free" <=> con[i] = "none"
           /\ \A i \in Runners : PoolPhase[i] = "up" <=> con[i] = "up"
           /\ \A i \in Runners : PoolPhase[i] = "counted" <=> con[i] = "exited" /\ i \in counted
           /\ \A i \in Runners : PoolPhase[i] = "ended" <=> con[i] = "exited" /\ i \notin counted
           /\ \A i \in Runners : PoolPhase[i] \in {"free", "up", "counted", "ended"}
<1> SUFFICES ASSUME NEW i \in Runners
             PROVE  /\ PoolPhase[i] = "free" <=> con[i] = "none"
                    /\ PoolPhase[i] = "up" <=> con[i] = "up"
                    /\ PoolPhase[i] = "counted" <=> con[i] = "exited" /\ i \in counted
                    /\ PoolPhase[i] = "ended" <=> con[i] = "exited" /\ i \notin counted
                    /\ PoolPhase[i] \in {"free", "up", "counted", "ended"}
    OBVIOUS
<1>1. con[i] \in {"none", "up", "exited"}
    BY DEF ContainerTypes
<1>2. QED
    BY <1>1 DEF PoolPhase

\* The same in the next state.
LEMMA PhaseIsNext ==
    ASSUME ContainerTypes'
    PROVE  /\ PoolPhase' = [i \in Runners |-> PoolPhase'[i]]
           /\ \A i \in Runners : con'[i] = "none" => PoolPhase'[i] = "free"
           /\ \A i \in Runners : con'[i] = "up" => PoolPhase'[i] = "up"
           /\ \A i \in Runners : con'[i] = "exited" /\ i \in counted' => PoolPhase'[i] = "counted"
           /\ \A i \in Runners : con'[i] = "exited" /\ i \notin counted' => PoolPhase'[i] = "ended"
BY DEF PoolPhase

\* The pool counts as the supervisor does.
LEMMA PoolCardinality ==
    ASSUME NEW S
    PROVE  Pool!Cardinality(S) = Cardinality(S)
BY DEF Pool!Cardinality, Cardinality

LEMMA PoolSets ==
    ASSUME ContainerTypes
    PROVE  Pool!In("up") = Up /\ Pool!Ended = Exited
BY PhaseIs DEF Pool!In, Pool!Ended, Up, Exited

LEMMA PoolInit == Init => Pool!Init
<1> SUFFICES ASSUME Init PROVE Pool!Init
    OBVIOUS
<1>1. PoolPhase = [i \in Runners |-> "free"]
    BY DEF Init, PoolPhase
<1>2. QED
    BY <1>1 DEF Init, Pool!Init

LEMMA PoolReap ==
    ASSUME ContainerTypes, ContainerTypes',
           NEW done \in SUBSET Exited, NEW kept \in SUBSET done, Reaped(done, kept)
    PROVE  Pool!Reap(done, kept)
<1>1. jobsTotal' = jobsTotal + Cardinality(done)
    BY DEF Reaped, Counting
<1>2. ASSUME NEW i \in Runners
      PROVE  PoolPhase'[i] = IF i \notin done THEN PoolPhase[i]
                             ELSE IF i \in kept THEN "counted" ELSE "free"
    <2>1. CASE i \notin done
        <3>1. con'[i] = con[i] /\ (i \in counted' <=> i \in counted)
            BY <2>1 DEF Reaped
        <3>2. QED
            BY <2>1, <3>1 DEF PoolPhase
    <2>2. CASE i \in kept
        BY <2>2, PhaseIsNext DEF Reaped, Exited
    <2>3. CASE i \in done \ kept
        BY <2>3, PhaseIsNext DEF Reaped
    <2>4. QED
        BY <2>1, <2>2, <2>3
<1>3. PoolPhase' = [i \in Runners |-> IF i \notin done THEN PoolPhase[i]
                                      ELSE IF i \in kept THEN "counted" ELSE "free"]
    BY <1>2, PhaseIsNext
<1>4. QED
    BY <1>1, <1>3, PoolCardinality DEF Pool!Reap

LEMMA PoolSpawn ==
    ASSUME CapInv, ContainerTypes', Run, con' = [con EXCEPT ![minted] = "up"]
    PROVE  minted \in Runners /\ Pool!Spawn(minted)
<1>1. TypeInv /\ ContainerTypes /\ minted \in Runners /\ con[minted] = "none"
    BY DEF CapInv, TypeInv, Types, Unstarted, Run
<1>2. Cardinality(Up) < MaxConcurrentGlobal
    BY RoomAtRun DEF CapInv
<1>3. ASSUME NEW i \in Runners
      PROVE  PoolPhase'[i] = IF i = minted THEN "up" ELSE PoolPhase[i]
    <2>1. CASE i = minted
        BY <1>1, <2>1, PhaseIsNext DEF ContainerTypes
    <2>2. CASE i # minted
        <3>1. con'[i] = con[i] /\ counted' = counted
            BY <1>1, <2>2 DEF ContainerTypes, Run, history
        <3>2. QED
            BY <2>2, <3>1 DEF PoolPhase
    <2>3. QED
        BY <2>1, <2>2
<1>4. PoolPhase = [i \in Runners |-> PoolPhase[i]]
    BY DEF PoolPhase
<1>5. PoolPhase' = [PoolPhase EXCEPT ![minted] = "up"]
    BY <1>1, <1>3, <1>4, PhaseIsNext
<1>6. PoolPhase[minted] = "free" /\ jobsTotal' = jobsTotal
    BY <1>1, PhaseIs DEF Run
<1>7. QED
    BY <1>1, <1>2, <1>5, <1>6, PoolSets, PoolCardinality DEF Pool!Spawn

LEMMA PoolEnd ==
    ASSUME ContainerTypes, ContainerTypes', NEW i \in Runners, Finish(i) \/ GiveUp(i)
    PROVE  i \in Up /\ Pool!End({i})
<1>1. con[i] = "up" /\ con' = [con EXCEPT ![i] = "exited"] /\ UNCHANGED <<counted, jobsTotal>>
    BY DEF Finish, GiveUp, memory, history
<1>2. ASSUME NEW j \in Runners
      PROVE  PoolPhase'[j] = IF j \in {i} THEN "ended" ELSE PoolPhase[j]
    <2>1. CASE j = i
        <3>1. i \notin counted' /\ con'[i] = "exited"
            BY <1>1 DEF ContainerTypes, Exited
        <3>2. QED
            BY <2>1, <3>1, PhaseIsNext
    <2>2. CASE j # i
        <3>1. con'[j] = con[j] /\ counted' = counted
            BY <1>1, <2>2 DEF ContainerTypes
        <3>2. QED
            BY <2>2, <3>1 DEF PoolPhase
    <2>3. QED
        BY <2>1, <2>2
<1>3. PoolPhase' = [j \in Runners |-> IF j \in {i} THEN "ended" ELSE PoolPhase[j]]
    BY <1>2, PhaseIsNext
<1>4. QED
    BY <1>1, <1>3 DEF Pool!End, Up

LEMMA PoolRestart ==
    ASSUME ContainerTypes, ContainerTypes', Fresh,
           NEW S \in SUBSET Up, NEW gone \in SUBSET Exited,
           con' = [i \in Runners |-> IF i \in gone THEN "none"
                                     ELSE IF i \in S THEN "exited" ELSE con[i]]
    PROVE  Pool!Restart(S, gone)
<1>1. ASSUME NEW i \in Runners
      PROVE  PoolPhase'[i] = IF i \in gone THEN "free"
                             ELSE IF i \in S \/ PoolPhase[i] = "counted" THEN "ended"
                                  ELSE PoolPhase[i]
    <2>1. con[i] \in {"none", "up", "exited"} /\ counted' = {} /\ counted \subseteq Exited
        BY DEF ContainerTypes, Fresh
    <2>2. CASE i \in gone
        BY <2>2, PhaseIsNext
    <2>3. CASE i \in S
        BY <2>1, <2>3, PhaseIsNext DEF Up, Exited
    <2>4. CASE i \notin S /\ i \notin gone
        <3>1. con'[i] = con[i]
            BY <2>4
        <3>2. CASE con[i] = "exited"
            BY <2>1, <2>4, <3>1, <3>2, PhaseIs, PhaseIsNext
        <3>3. CASE con[i] # "exited"
            BY <2>1, <2>4, <3>1, <3>3, PhaseIs, PhaseIsNext
        <3>4. QED
            BY <3>2, <3>3
    <2>5. QED
        BY <2>2, <2>3, <2>4
<1>2. PoolPhase' = [i \in Runners |->
                       IF i \in gone THEN "free"
                       ELSE IF i \in S \/ PoolPhase[i] = "counted" THEN "ended" ELSE PoolPhase[i]]
    BY <1>1, PhaseIsNext
<1>3. QED
    BY <1>2 DEF Pool!Restart, Fresh

\* Every step of the supervisor, Docker or GitHub is a step of the pool or
\* leaves the pool alone.
LEMMA PoolNext ==
    ASSUME "ps" \notin Faults, CapInv, [Next]_vars
    PROVE  [Pool!Next]_<<PoolPhase, jobsTotal>>
<1>1. ContainerTypes /\ Unstarted
    BY DEF CapInv, TypeInv, Types
<1>2. ContainerTypes'
    BY <1>1, ContainerTypesKept
<1>3. CASE ReapExited
    <2>1. PICK done \in SUBSET Exited : \E kept \in SUBSET done : Reaped(done, kept)
        BY <1>3, ReapedSome
    <2>2. PICK kept \in SUBSET done : Reaped(done, kept)
        BY <2>1
    <2>3. Pool!Reap(done, kept)
        BY <1>1, <1>2, <2>2, PoolReap
    <2>4. QED
        BY <1>1, <2>3, PoolSets DEF Pool!Next
<1>4. CASE Run
    <2>1. CASE con' = [con EXCEPT ![minted] = "up"]
        BY <1>2, <1>4, <2>1, PoolSpawn DEF Pool!Next
    <2>2. CASE con' = con
        BY <1>4, <2>2 DEF Run, history, PoolPhase
    <2>3. QED
        BY <1>4, <2>1, <2>2 DEF Run
<1>5. ASSUME NEW i \in Runners, Finish(i) \/ GiveUp(i)
      PROVE  [Pool!Next]_<<PoolPhase, jobsTotal>>
    <2>1. i \in Up /\ Pool!End({i})
        BY <1>1, <1>2, <1>5, PoolEnd
    <2>2. QED
        BY <1>1, <2>1, PoolSets DEF Pool!Next
<1>6. CASE Crash
    <2>1. PICK gone \in SUBSET Exited :
                con' = [i \in Runners |-> IF i \in gone THEN "none" ELSE con[i]]
        BY <1>6 DEF Crash
    <2>2. con' = [i \in Runners |-> IF i \in gone THEN "none"
                                    ELSE IF i \in {} THEN "exited" ELSE con[i]]
        BY <2>1
    <2>3. Pool!Restart({}, gone)
        BY <1>1, <1>2, <1>6, <2>2, PoolRestart DEF Crash
    <2>4. QED
        BY <1>1, <2>3, PoolSets DEF Pool!Next
<1>7. CASE Reboot
    <2>1. con' = [i \in Runners |-> IF i \in {} THEN "none"
                                    ELSE IF i \in Up THEN "exited" ELSE con[i]]
        BY <1>7 DEF Reboot, Up
    <2>2. Pool!Restart(Up, {})
        BY <1>1, <1>2, <1>7, <2>1, PoolRestart DEF Reboot
    <2>3. QED
        BY <1>1, <2>2, PoolSets DEF Pool!Next
<1>8. CASE UNCHANGED poolVars
    BY <1>8 DEF poolVars, PoolPhase
<1>9. QED
    BY <1>3, <1>4, <1>5, <1>6, <1>7, <1>8, PoolSteps

\* As long as `docker ps` answers, the supervisor with its stale reads, partial
\* reaps, exceptions and restarts implements the pool: a container starts only
\* under the cap and is removed only once it has been counted.
THEOREM SupervisorImplementsPool ==
    ASSUME "ps" \notin Faults
    PROVE  Spec => ImplementsPool
<1>1. CapInv /\ [Next]_vars => [Pool!Next]_<<PoolPhase, jobsTotal>>
    BY PoolNext
<1>2. QED
    BY <1>1, PoolInit, CapAlways, PTL DEF Spec, ImplementsPool, Pool!Spec
=============================================================================
