------------------------ MODULE NfsSupervisorProofs -------------------------
(***************************************************************************)
(* Proofs about the NFS mount supervisor, for any list of exports, any     *)
(* spacing and time limit, and any number of hangs and faults.             *)
(***************************************************************************)
EXTENDS NfsSupervisor, TLAPS

(* The types of the variables, grouped by who changes them. *)

MacTypes ==
    /\ mnt \in [Names -> {"healthy", "hung", "unmounted"}]
    /\ blocked \subseteq Names /\ reachable \in BOOLEAN
    /\ worker \in {"loaded", "leaving", "gone"}

StepTypes ==
    /\ pc \in {"inspect", "decide", "worker", "bootout", "umount", "check",
               "mount", "bootstrap", "verify", "publish", "sleep"}
    /\ cur \in 1..Len(Exports) + 1
    /\ pc \in {"worker", "bootout", "umount", "check", "mount", "bootstrap", "verify"}
       => cur \in 1..Len(Exports)
    /\ item \in [Names -> States]
    /\ action \in {"none", "mount", "recover"}

FlagTypes == source \in BOOLEAN /\ domain \in BOOLEAN /\ recovered \in BOOLEAN

AgeTypes ==
    /\ failures \in [Names -> 0..2]
    /\ attempt \in [Names -> 0..Spacing]
    /\ lastRead \in [Names -> Never..Horizon]
    /\ unmounted \in [Names -> Never..Spacing]

Types == /\ MacTypes /\ StepTypes /\ FlagTypes /\ AgeTypes
         /\ local \in Report /\ shared \in Report
         /\ hangs \in 0..MaxHangs /\ faults \in 0..MaxFaults

LEMMA TypesImply == Types => TypeOK
BY DEF Types, MacTypes, StepTypes, FlagTypes, AgeTypes, TypeOK

LEMMA Constants ==
    /\ Len(Exports) \in Nat \ {0} /\ DOMAIN Exports = 1..Len(Exports)
    /\ \A k \in 1..Len(Exports) : Exports[k] \in Names
    /\ \A n \in Names : \E k \in 1..Len(Exports) : n = Exports[k]
    /\ Spacing \in Nat \ {0} /\ Stale \in Nat \ {0} /\ Horizon \in Nat \ {0}
    /\ MaxHangs \in Nat /\ MaxFaults \in Nat
<1>1. Exports \in Seq(STRING) /\ Exports # <<>>
    BY NfsAssumption
<1>2. Len(Exports) \in Nat \ {0} /\ DOMAIN Exports = 1..Len(Exports)
    BY <1>1
<1>3. QED
    BY <1>2, NfsAssumption DEF Names, Horizon

\* The share in hand is one of the exports.
LEMMA ShareType ==
    ASSUME cur \in 1..Len(Exports)
    PROVE  Share \in Names
BY Constants DEF Share

LEMMA OlderType ==
    ASSUME NEW limit \in Nat
    PROVE  /\ \A age \in Never..limit : Older(age, limit) \in Never..limit
           /\ \A age \in 0..limit : Older(age, limit) \in 0..limit
           /\ \A age \in Never..limit : Older(age, limit) = Never <=> age = Never
BY DEF Older, Never

LEMMA FaultType ==
    ASSUME Types, NEW k, Fault(k)
    PROVE  faults' \in 0..MaxFaults
BY Constants DEF Types, Fault

\* A report stays one as it ages.
LEMMA AgedType ==
    ASSUME NEW r \in Report
    PROVE  /\ AgedReport(r) \in Report
           /\ AgedReport(r).checked = Older(r.checked, Horizon)
           /\ AgedReport(r).state = r.state
           /\ \A n \in Names : AgedReport(r).read[n] = Older(r.read[n], Horizon)
<1>1. Horizon \in Nat
    BY Constants
<1>2. Older(r.checked, Horizon) \in Never..Horizon
    BY <1>1, OlderType DEF Report
<1>3. \A n \in Names : Older(r.read[n], Horizon) \in Never..Horizon
    BY <1>1, OlderType DEF Report
<1>4. [n \in Names |-> Older(r.read[n], Horizon)] \in [Names -> Never..Horizon]
    BY <1>3
<1> DEFINE reads == [n \in Names |-> Older(r.read[n], Horizon)]
           age   == Older(r.checked, Horizon)
<1>5. AgedReport(r) = [r EXCEPT !.checked = age, !.read = reads]
    BY DEF AgedReport
<1>6. \A n \in Names : reads[n] = Older(r.read[n], Horizon)
    OBVIOUS
<1> HIDE DEF reads, age
<1>7. [r EXCEPT !.checked = age, !.read = reads] \in Report
    BY <1>2, <1>4 DEF Report, reads, age
<1>8. /\ [r EXCEPT !.checked = age, !.read = reads].checked = age
      /\ [r EXCEPT !.checked = age, !.read = reads].state = r.state
      /\ [r EXCEPT !.checked = age, !.read = reads].read = reads
    BY DEF Report
<1>9. QED
    BY <1>5, <1>6, <1>7, <1>8 DEF age

LEMMA ElapseTypes ==
    ASSUME Types, Elapse
    PROVE  /\ attempt' \in [Names -> 0..Spacing] /\ unmounted' \in [Names -> Never..Spacing]
           /\ local' \in Report /\ shared' \in Report
<1>1. Spacing \in Nat
    BY Constants
<1>2. local' \in Report /\ shared' \in Report
    BY AgedType DEF Types, Elapse
<1>3. attempt' \in [Names -> 0..Spacing] /\ unmounted' \in [Names -> Never..Spacing]
    BY <1>1, OlderType DEF Types, AgeTypes, Elapse
<1>4. QED
    BY <1>2, <1>3

LEMMA OlderReadsType ==
    ASSUME Types
    PROVE  OlderReads \in [Names -> Never..Horizon]
BY OlderType, Constants DEF Types, AgeTypes, OlderReads
-----------------------------------------------------------------------------
(* Types.                                                                  *)

LEMMA MacKept ==
    ASSUME Types, [Next]_vars
    PROVE  MacTypes'
<1>1. MacTypes
    BY DEF Types
<1>2. CASE UNCHANGED mac
    BY <1>1, <1>2 DEF mac, MacTypes
<1>3. CASE Bootout \/ Bootstrap
    BY <1>1, <1>3 DEF Bootout, Bootstrap, MacTypes
<1>4. CASE Unmount \/ Mount
    <2>1. Share \in Names
        BY <1>4, ShareType DEF Unmount, Mount, Types, StepTypes
    <2>2. QED
        BY <1>1, <1>4, <2>1 DEF Unmount, Mount, MacTypes
<1>5. ASSUME NEW n \in Names, Break(n) \/ Heal(n) \/ LateUnmount(n) PROVE MacTypes'
    BY <1>1, <1>5 DEF Break, Heal, LateUnmount, MacTypes
<1>6. CASE LateStop \/ NetDown \/ NetUp
    BY <1>1, <1>6 DEF LateStop, NetDown, NetUp, MacTypes
<1>7. QED
    BY <1>2, <1>3, <1>4, <1>5, <1>6
       DEF Next, Cycle, Inspect, Consider, AskWorker, CheckUnmounted, Verify, WriteLocal,
           PublishShared, Sleep, Crash, vars

LEMMA DecideType ==
    ASSUME NEW s, NEW f, NEW e, NEW r, NEW x
    PROVE  decide(s, f, e, r, x) \in {"none", "mount", "recover"}
BY DEF decide

\* What Consider does, with its local names spelled out.
Fails(n) == IF item[n] # "hung" THEN 0 ELSE IF failures[n] = 2 THEN 2 ELSE failures[n] + 1
Read(n)  == IF item[n] = "healthy" THEN 0 ELSE lastRead[n]
Act(n)   == decide(item[n], Fails(n), attempt[n], source, Read(n) # Never)

LEMMA ConsiderFacts ==
    ASSUME Types, Consider
    PROVE  /\ pc = "decide" /\ cur \in 1..Len(Exports) /\ Share \in Names
           /\ failures' = [failures EXCEPT ![Share] = Fails(Share)]
           /\ lastRead' = [lastRead EXCEPT ![Share] = Read(Share)]
           /\ action' = Act(Share)
           /\ \/ /\ cur' = cur + 1 /\ pc' = pc /\ attempt' = attempt
              \/ /\ Act(Share) # "none"
                 /\ cur' = cur /\ attempt' = [attempt EXCEPT ![Share] = 0]
                 /\ pc' = IF Act(Share) = "mount" THEN "check" ELSE
                          IF Share = Main THEN "worker" ELSE "umount"
           /\ domain' = FALSE /\ recovered' = FALSE
           /\ UNCHANGED <<mac, item, source, reports, unmounted, hangs, faults>>
<1>1. pc = "decide" /\ cur \in 1..Len(Exports)
    BY Constants DEF Consider, Types, StepTypes
<1>2. Share \in Names
    BY <1>1, ShareType DEF Types
<1>3. QED
    BY <1>1, <1>2 DEF Consider, Fails, Read, Act

LEMMA StepKept ==
    ASSUME Types, [Next]_vars
    PROVE  StepTypes'
<1>1. StepTypes /\ Len(Exports) \in Nat \ {0}
    BY Constants DEF Types
<1>2. CASE Inspect
    <2>1. \A n \in Names : \A s \in Seen(mnt[n]) : s \in States
        BY DEF Seen, States
    <2>2. mnt \in [Names -> States]
        BY DEF Types, MacTypes, States
    <2>3. item' \in [Names -> States]
        BY <1>2, <2>1, <2>2 DEF Inspect, States
    <2>4. QED
        BY <1>1, <1>2, <2>3 DEF Inspect, StepTypes
<1>3. CASE Consider
    <2>1. action' \in {"none", "mount", "recover"}
        BY <1>3, ConsiderFacts, DecideType DEF Act
    <2>2. QED
        BY <1>1, <1>3, <2>1, ConsiderFacts DEF StepTypes
<1>4. CASE AskWorker \/ Bootout \/ Unmount \/ CheckUnmounted \/ Mount \/ Bootstrap
    BY <1>1, <1>4 DEF AskWorker, Bootout, Unmount, CheckUnmounted, Mount, Bootstrap,
       StepTypes, step, AfterRecover
<1>5. CASE Verify
    <2>1. Share \in Names /\ cur \in 1..Len(Exports)
        BY <1>1, <1>5, ShareType DEF Verify, StepTypes
    <2>2. PICK found \in States : item' = [item EXCEPT ![Share] = found]
        BY <1>5, <2>1 DEF Verify, Seen, States, Unrecovered, Types, MacTypes
    <2>3. QED
        BY <1>1, <1>5, <2>1, <2>2 DEF Verify, StepTypes
<1>6. CASE WriteLocal
    BY <1>1, <1>6 DEF WriteLocal, StepTypes, step
<1>7. CASE PublishShared
    BY <1>1, <1>7 DEF PublishShared, StepTypes, States
<1>8. CASE Sleep
    BY <1>1, <1>8 DEF Sleep, StepTypes
<1>9. CASE Crash
    BY <1>1, <1>9 DEF Crash, StepTypes, States
<1>10. CASE UNCHANGED <<pc, step>>
    BY <1>1, <1>10 DEF StepTypes, step
<1>11. QED
    BY <1>2, <1>3, <1>4, <1>5, <1>6, <1>7, <1>8, <1>9, <1>10
       DEF Next, Cycle, Break, Heal, LateUnmount, LateStop, NetDown, NetUp, vars, Others

LEMMA FlagsKept ==
    ASSUME Types, [Next]_vars
    PROVE  FlagTypes'
<1>1. source \in BOOLEAN /\ domain \in BOOLEAN /\ recovered \in BOOLEAN /\ reachable \in BOOLEAN
    BY DEF Types, FlagTypes, MacTypes
<1>2. source' \in BOOLEAN
    <2>1. CASE Inspect
        BY <2>1, Zenon DEF Inspect
    <2>2. CASE UNCHANGED source \/ source' = FALSE
        BY <1>1, <2>2
    <2>3. QED
        BY <2>1, <2>2
           DEF Next, Cycle, Consider, AskWorker, Bootout, Unmount, CheckUnmounted, Mount,
               Bootstrap, Verify, WriteLocal, PublishShared, Sleep, Crash, Break, Heal,
               LateUnmount, LateStop, NetDown, NetUp, vars, step, Others
<1>3. domain' \in BOOLEAN
    <2>1. CASE UNCHANGED domain \/ domain' = TRUE \/ domain' = FALSE
        BY <1>1, <2>1
    <2>2. QED
        BY <2>1
           DEF Next, Cycle, Inspect, Consider, AskWorker, Bootout, Unmount, CheckUnmounted, Mount,
               Bootstrap, Verify, WriteLocal, PublishShared, Sleep, Crash, Break, Heal,
               LateUnmount, LateStop, NetDown, NetUp, vars, step, Others
<1>4. recovered' \in BOOLEAN
    <2>1. CASE UNCHANGED recovered \/ recovered' = TRUE \/ recovered' = FALSE
        BY <1>1, <2>1
    <2>2. QED
        BY <2>1
           DEF Next, Cycle, Inspect, Consider, AskWorker, Bootout, Unmount, CheckUnmounted, Mount,
               Bootstrap, Verify, WriteLocal, PublishShared, Sleep, Crash, Break, Heal,
               LateUnmount, LateStop, NetDown, NetUp, vars, step, Others
<1>5. QED
    BY <1>2, <1>3, <1>4 DEF FlagTypes

LEMMA AgesKept ==
    ASSUME Types, [Next]_vars
    PROVE  AgeTypes'
<1>1. AgeTypes /\ Spacing \in Nat \ {0} /\ Horizon \in Nat \ {0}
    BY Constants DEF Types
<1>2. CASE Consider
    <2>1. Share \in Names
        BY <1>2, ConsiderFacts
    <2>2. Fails(Share) \in 0..2 /\ Read(Share) \in Never..Horizon
        BY <1>1, <2>1 DEF Fails, Read, AgeTypes, Never
    <2>3. failures' \in [Names -> 0..2] /\ lastRead' \in [Names -> Never..Horizon]
        BY <1>1, <1>2, <2>2, ConsiderFacts DEF AgeTypes
    <2>4. attempt' \in [Names -> 0..Spacing]
        <3>1. attempt' = attempt \/ attempt' = [attempt EXCEPT ![Share] = 0]
            BY <1>2, ConsiderFacts
        <3>2. attempt \in [Names -> 0..Spacing] /\ 0 \in 0..Spacing
            BY <1>1 DEF AgeTypes
        <3>3. QED
            BY <3>1, <3>2
    <2>5. unmounted' = unmounted
        BY <1>2, ConsiderFacts
    <2>6. QED
        BY <1>1, <2>3, <2>4, <2>5 DEF AgeTypes
<1>3. CASE Unmount
    <2>1. Share \in Names
        BY <1>3, ShareType DEF Unmount, Types, StepTypes
    <2>2. QED
        BY <1>1, <1>3, <2>1 DEF Unmount, AgeTypes, records, Never
<1>4. CASE Verify \/ Sleep
    <2>1. Elapse /\ failures' = failures
        BY <1>4 DEF Verify, Sleep
    <2>2. lastRead' = OlderReads \/ (lastRead' = [OlderReads EXCEPT ![Share] = 0])
        BY <1>4 DEF Verify, Sleep
    <2>3. lastRead' \in [Names -> Never..Horizon]
        <3>1. CASE lastRead' = OlderReads
            BY <3>1, OlderReadsType
        <3>2. CASE lastRead' = [OlderReads EXCEPT ![Share] = 0]
            <4>1. 0 \in Never..Horizon
                BY <1>1 DEF Never
            <4>2. QED
                BY <3>2, <4>1, OlderReadsType
        <3>3. QED
            BY <2>2, <3>1, <3>2
    <2>4. QED
        BY <1>1, <2>1, <2>3, ElapseTypes DEF AgeTypes
<1>5. CASE Crash
    BY <1>1, <1>5 DEF Crash, AgeTypes, Never
<1>6. CASE UNCHANGED <<records, unmounted>>
    BY <1>1, <1>6 DEF records, AgeTypes
<1>7. QED
    BY <1>2, <1>3, <1>4, <1>5, <1>6
       DEF Next, Cycle, Inspect, AskWorker, Bootout, CheckUnmounted, Mount, Bootstrap, WriteLocal,
           PublishShared, Break, Heal, LateUnmount, LateStop, NetDown, NetUp, vars, Others

LEMMA ReportsKept ==
    ASSUME Types, [Next]_vars
    PROVE  local' \in Report /\ shared' \in Report
<1>1. local \in Report /\ shared \in Report
    BY DEF Types
<1>2. CASE Elapse
    BY <1>2, ElapseTypes
<1>3. CASE WriteLocal
    <2>1. [checked |-> 0, state |-> item, read |-> lastRead] \in Report
        BY Constants DEF Types, StepTypes, AgeTypes, Report, Never
    <2>2. QED
        BY <1>1, <1>3, <2>1 DEF WriteLocal
<1>4. CASE PublishShared
    BY <1>1, <1>4 DEF PublishShared
<1>5. CASE UNCHANGED reports
    BY <1>1, <1>5 DEF reports
<1>6. QED
    BY <1>2, <1>3, <1>4, <1>5
       DEF Next, Cycle, Inspect, Consider, AskWorker, Bootout, Unmount, CheckUnmounted, Mount,
           Bootstrap, Verify, Sleep, Crash, Break, Heal, LateUnmount, LateStop, NetDown, NetUp,
           vars, Others

LEMMA BoundsKept ==
    ASSUME Types, [Next]_vars
    PROVE  hangs' \in 0..MaxHangs /\ faults' \in 0..MaxFaults
<1>1. faults' \in 0..MaxFaults
    <2>1. CASE \E k : Fault(k)
        BY <2>1, FaultType
    <2>2. CASE UNCHANGED faults
        BY <2>2 DEF Types
    <2>3. QED
        BY <2>1, <2>2
           DEF Next, Cycle, Inspect, Consider, AskWorker, Bootout, Unmount, CheckUnmounted, Mount,
               Bootstrap, Verify, WriteLocal, PublishShared, Sleep, Crash, Break, Heal,
               LateUnmount, LateStop, NetDown, NetUp, vars, NoFault
<1>2. hangs' \in 0..MaxHangs
    <2>1. CASE hangs < MaxHangs /\ hangs' = hangs + 1
        BY <2>1, Constants DEF Types
    <2>2. CASE UNCHANGED hangs
        BY <2>2 DEF Types
    <2>3. QED
        BY <2>1, <2>2
           DEF Next, Cycle, Inspect, Consider, AskWorker, Bootout, Unmount, CheckUnmounted, Mount,
               Bootstrap, Verify, WriteLocal, PublishShared, Sleep, Crash, Break, Heal,
               LateUnmount, LateStop, NetDown, NetUp, vars
<1>3. QED
    BY <1>1, <1>2

LEMMA NoReportType == NoReport \in Report
BY Constants DEF NoReport, Report, States, Never

LEMMA TypesInit == Init => Types
<1> SUFFICES ASSUME Init PROVE Types
    OBVIOUS
<1>1. MacTypes
    BY DEF Init, MacTypes
<1>2. StepTypes
    BY Constants DEF Init, StepTypes, States
<1>3. FlagTypes
    BY DEF Init, FlagTypes
<1>4. AgeTypes
    BY Constants DEF Init, AgeTypes, Never
<1>5. /\ local \in Report /\ shared \in Report
      /\ hangs \in 0..MaxHangs /\ faults \in 0..MaxFaults
    BY Constants, NoReportType DEF Init
<1>6. QED
    BY <1>1, <1>2, <1>3, <1>4, <1>5 DEF Types

LEMMA TypesKept == Types /\ [Next]_vars => Types'
BY MacKept, StepKept, FlagsKept, AgesKept, ReportsKept, BoundsKept DEF Types

LEMMA TypesAlways == Spec => []Types
BY TypesInit, TypesKept, PTL DEF Spec

\* Every reachable state of the supervisor, the Mac and the reports is well
\* typed: a cycle acts on a share only while one is in hand.
THEOREM NfsTypes == Spec => []TypeOK
BY TypesAlways, TypesImply, PTL
-----------------------------------------------------------------------------
(* When a share is unmounted.                                              *)

Recovering == {"worker", "bootout", "umount"}

\* A forced unmount is no younger than the attempt it belongs to.
UnmountsDated == \A n \in Names : unmounted[n] = Never \/ unmounted[n] >= attempt[n]

\* A recovery is of a share that was read, long after its last unmount.
RecoveryDue ==
    pc \in Recovering =>
        /\ attempt[Share] = 0
        /\ lastRead[Share] # Never /\ unmounted[Share] \in {Never, Spacing}

\* The main share is not reached with its worker about.
WorkerAway == pc = "umount" /\ Share = Main => worker = "gone"

UnmountInv == UnmountsDated /\ RecoveryDue /\ WorkerAway

LEMMA ElapseDated ==
    ASSUME Types, UnmountsDated, Elapse
    PROVE  UnmountsDated'
<1>1. SUFFICES ASSUME NEW n \in Names, unmounted'[n] # Never
               PROVE  unmounted'[n] >= attempt'[n]
    BY DEF UnmountsDated
<1>2. /\ unmounted'[n] = Older(unmounted[n], Spacing) /\ attempt'[n] = Older(attempt[n], Spacing)
    BY DEF Elapse
<1>3. unmounted[n] \in Never..Spacing /\ attempt[n] \in 0..Spacing
    BY DEF Types, AgeTypes
<1>4. unmounted[n] = Never \/ unmounted[n] >= attempt[n]
    BY DEF UnmountsDated
<1>5. QED
    BY <1>1, <1>2, <1>3, <1>4, Constants DEF Older, Never

LEMMA UnmountInvKept == Types /\ UnmountInv /\ [Next]_vars => UnmountInv'
<1> SUFFICES ASSUME Types, UnmountInv, [Next]_vars PROVE UnmountInv'
    OBVIOUS
<1>1. UnmountsDated /\ RecoveryDue /\ WorkerAway /\ AgeTypes
    BY DEF UnmountInv, Types
<1>2. CASE Consider
    <2>1. UnmountsDated'
        <3>1. unmounted' = unmounted
              /\ \A n \in Names : attempt'[n] = attempt[n] \/ attempt'[n] = 0
            BY <1>1, <1>2, ConsiderFacts DEF AgeTypes
        <3>2. \A n \in Names : unmounted[n] = Never \/ unmounted[n] >= 0
            BY <1>1, Constants DEF AgeTypes, Never
        <3>3. QED
            BY <1>1, <3>1, <3>2 DEF UnmountsDated
    <2>2. CASE pc' \in Recovering
        <3>1. /\ Share' = Share /\ Share \in Names /\ unmounted' = unmounted
              /\ attempt' = [attempt EXCEPT ![Share] = 0]
              /\ lastRead' = [lastRead EXCEPT ![Share] = Read(Share)]
              /\ Act(Share) \notin {"none", "mount"}
              /\ pc' = IF Share = Main THEN "worker" ELSE "umount"
            BY <1>2, <2>2, ConsiderFacts DEF Recovering, Share
        <3>2. Act(Share) = "recover"
            BY <3>1, DecideType DEF Act
        <3>3. attempt[Share] \in 0..Spacing /\ unmounted[Share] \in Never..Spacing
            BY <1>1, <3>1 DEF AgeTypes
        <3>4. (Read(Share) # Never) /\ ~(attempt[Share] < Spacing)
            BY <3>2 DEF Act, decide
        <3>5. unmounted[Share] \in {Never, Spacing}
            BY <1>1, <3>1, <3>3, <3>4, Constants DEF UnmountsDated, Never
        <3>6. RecoveryDue'
            BY <1>1, <3>1, <3>4, <3>5 DEF RecoveryDue, AgeTypes
        <3>7. QED
            BY <2>1, <3>1, <3>6 DEF UnmountInv, WorkerAway
    <2>3. CASE pc' \notin Recovering
        BY <2>1, <2>3 DEF UnmountInv, RecoveryDue, WorkerAway, Recovering
    <2>4. QED
        BY <2>2, <2>3
<1>3. CASE AskWorker
    BY <1>1, <1>3 DEF AskWorker, UnmountInv, UnmountsDated, RecoveryDue, WorkerAway, Recovering,
       mac, step, records, Share
<1>4. CASE Bootout
    BY <1>1, <1>4 DEF Bootout, UnmountInv, UnmountsDated, RecoveryDue, WorkerAway, Recovering,
       records, Share
<1>5. CASE Unmount
    <2>1. pc' \notin Recovering
        BY <1>5 DEF Unmount, AfterRecover, Recovering
    <2>2. attempt' = attempt /\ attempt[Share] = 0 /\ unmounted' = [unmounted EXCEPT ![Share] = 0]
        BY <1>1, <1>5 DEF Unmount, RecoveryDue, Recovering, records
    <2>3. UnmountsDated'
        BY <1>1, <2>2 DEF UnmountsDated, AgeTypes
    <2>4. QED
        BY <2>1, <2>3 DEF UnmountInv, RecoveryDue, WorkerAway, Recovering
<1>6. CASE Elapse /\ pc' \notin Recovering
    BY <1>1, <1>6, ElapseDated DEF UnmountInv, RecoveryDue, WorkerAway, Recovering
<1>7. CASE Crash
    BY <1>7 DEF Crash, UnmountInv, UnmountsDated, RecoveryDue, WorkerAway, Recovering
<1>8. CASE UNCHANGED <<attempt, unmounted>> /\ pc' \notin Recovering
    BY <1>1, <1>8 DEF UnmountInv, UnmountsDated, RecoveryDue, WorkerAway, Recovering
<1>9. CASE UNCHANGED Others /\ worker' \in {worker, "gone"}
    BY <1>1, <1>9 DEF UnmountInv, UnmountsDated, RecoveryDue, WorkerAway, Recovering, Others,
       step, records, Share
<1>10. CASE Cycle
    BY <1>2, <1>3, <1>4, <1>5, <1>6, <1>8, <1>10
       DEF Cycle, Inspect, CheckUnmounted, Mount, Bootstrap, Verify, WriteLocal, PublishShared,
           Sleep, AfterRecover, Recovering, records
<1>11. QED
    BY <1>7, <1>9, <1>10
       DEF Next, Break, Heal, LateUnmount, LateStop, NetDown, NetUp, vars, mac, Others

LEMMA UnmountInvAlways == Spec => [](Types /\ UnmountInv)
<1>1. Init => UnmountInv
    BY DEF Init, UnmountInv, UnmountsDated, RecoveryDue, WorkerAway, Recovering
<1>2. QED
    BY <1>1, TypesInit, TypesKept, UnmountInvKept, PTL DEF Spec

\* A supervisor forces the unmount of a share only if it has read it since it
\* started, and never twice within the spacing: what nfs_mount.py's decide and
\* the attempt it dates promise holds for every list of exports.
THEOREM NoRemountStorm == Spec => UnmountJustified
<1>1. Types /\ UnmountInv /\ [Next]_vars =>
        [\A n \in Names :
            pc = "umount" /\ Share = n /\ unmounted'[n] = 0
            => lastRead[n] # Never /\ unmounted[n] \in {Never, Spacing}]_vars
    BY DEF UnmountInv, RecoveryDue, Recovering
<1>2. QED
    BY <1>1, UnmountInvAlways, PTL DEF Spec, UnmountJustified

\* recover_with_worker unmounts the main share only when its worker is gone,
\* late and lost answers of launchctl included.
THEOREM WorkerGoneFirst == Spec => WorkerStoppedFirst
<1>1. Types /\ UnmountInv /\ [Next]_vars =>
        [pc = "umount" /\ Share = Main /\ unmounted'[Main] = 0 => worker = "gone"]_vars
    BY DEF UnmountInv, WorkerAway
<1>2. QED
    BY <1>1, UnmountInvAlways, PTL DEF Spec, WorkerStoppedFirst
-----------------------------------------------------------------------------
(* What a report says of the reads.                                        *)

\* A share the cycle is done with and holds healthy was read in this cycle: at
\* most one attempt per share after it has made that read older.
CycleReads ==
    \A k \in 1..cur - 1 :
        item[Exports[k]] = "healthy" =>
            lastRead[Exports[k]] # Never /\ lastRead[Exports[k]] + k + 1 <= cur

\* No read is younger than the report, and the read of a healthy share is not
\* much older.
GoodReport(r) ==
    r.checked # Never =>
        \A n \in Names :
            /\ r.read[n] = Never \/ r.read[n] >= r.checked
            /\ r.state[n] = "healthy" =>
                  r.read[n] # Never /\ r.read[n] < r.checked + Len(Exports)

ReportInv == CycleReads /\ GoodReport(local) /\ GoodReport(shared)

LEMMA AgedGood ==
    ASSUME NEW r \in Report, GoodReport(r)
    PROVE  GoodReport(AgedReport(r))
<1> DEFINE aged == AgedReport(r)
<1>1. /\ aged.checked = Older(r.checked, Horizon) /\ aged.state = r.state
      /\ \A n \in Names : aged.read[n] = Older(r.read[n], Horizon)
    BY AgedType
<1> HIDE DEF aged
<1>2. SUFFICES ASSUME aged.checked # Never, NEW n \in Names
               PROVE  /\ aged.read[n] = Never \/ aged.read[n] >= aged.checked
                      /\ aged.state[n] = "healthy" =>
                            aged.read[n] # Never /\ aged.read[n] < aged.checked + Len(Exports)
    BY DEF GoodReport, aged
<1>3. r.checked \in Never..Horizon /\ r.read[n] \in Never..Horizon
    BY DEF Report
<1>4. Horizon \in Nat \ {0} /\ Len(Exports) \in Nat \ {0}
    BY Constants
<1>5. r.checked # Never
    BY <1>1, <1>2, <1>3, <1>4 DEF Older, Never
<1>6. /\ r.read[n] = Never \/ r.read[n] >= r.checked
      /\ r.state[n] = "healthy" => r.read[n] # Never /\ r.read[n] < r.checked + Len(Exports)
    BY <1>5 DEF GoodReport
<1>7. QED
    BY <1>1, <1>3, <1>4, <1>5, <1>6 DEF Older, Never

LEMMA ConsiderReads ==
    ASSUME Types, CycleReads, Consider
    PROVE  CycleReads'
<1>1. /\ cur \in 1..Len(Exports) /\ Share \in Names /\ item' = item
      /\ lastRead' = [lastRead EXCEPT ![Share] = Read(Share)]
      /\ lastRead \in [Names -> Never..Horizon]
    BY ConsiderFacts DEF Types, AgeTypes
<1>2. cur' = cur + 1 \/ cur' = cur
    BY ConsiderFacts
<1>3. SUFFICES ASSUME NEW k \in 1..cur' - 1, item[Exports[k]] = "healthy"
               PROVE  lastRead'[Exports[k]] # Never /\ lastRead'[Exports[k]] + k + 1 <= cur'
    BY <1>1 DEF CycleReads
<1>4. k \in 1..cur /\ Exports[k] \in Names
    BY <1>1, <1>2, <1>3, Constants
<1>5. CASE Exports[k] = Share
    <2>1. lastRead'[Exports[k]] = 0
        BY <1>1, <1>3, <1>5 DEF Read
    <2>2. QED
        BY <1>1, <1>2, <1>3, <2>1 DEF Never
<1>6. CASE Exports[k] # Share
    <2>1. k # cur
        BY <1>6 DEF Share
    <2>2. k \in 1..cur - 1
        BY <1>1, <1>4, <2>1
    <2>3. lastRead[Exports[k]] # Never /\ lastRead[Exports[k]] + k + 1 <= cur
        BY <1>3, <2>2 DEF CycleReads
    <2>4. lastRead'[Exports[k]] = lastRead[Exports[k]]
        BY <1>1, <1>4, <1>6
    <2>5. lastRead[Exports[k]] \in Never..Horizon
        BY <1>1, <1>4
    <2>6. QED
        BY <1>1, <1>2, <2>3, <2>4, <2>5, <2>2, Constants DEF Never
<1>7. QED
    BY <1>5, <1>6

LEMMA VerifyReads ==
    ASSUME Types, CycleReads, Verify
    PROVE  CycleReads'
<1>1. /\ cur \in 1..Len(Exports) /\ cur' = cur + 1
      /\ item \in [Names -> States] /\ lastRead \in [Names -> Never..Horizon]
    BY DEF Verify, Types, StepTypes, AgeTypes
<1>2. Share \in Names
    BY <1>1, ShareType
<1>3. PICK found : /\ item' = [item EXCEPT ![Share] = found]
                   /\ lastRead' = IF found = "healthy" THEN [OlderReads EXCEPT ![Share] = 0]
                                                       ELSE OlderReads
    BY DEF Verify
<1>4. SUFFICES ASSUME NEW k \in 1..cur' - 1, item'[Exports[k]] = "healthy"
               PROVE  lastRead'[Exports[k]] # Never /\ lastRead'[Exports[k]] + k + 1 <= cur'
    BY DEF CycleReads
<1>5. k \in 1..cur /\ Exports[k] \in Names
    BY <1>1, <1>4, Constants
<1>6. CASE Exports[k] = Share
    <2>1. found = "healthy"
        BY <1>1, <1>2, <1>3, <1>4, <1>6
    <2>2. lastRead'[Exports[k]] = 0
        BY <1>2, <1>3, <1>6, <2>1 DEF OlderReads
    <2>3. QED
        BY <1>1, <1>5, <2>2 DEF Never
<1>7. CASE Exports[k] # Share
    <2>1. k # cur
        BY <1>7 DEF Share
    <2>2. k \in 1..cur - 1
        BY <1>1, <1>5, <2>1
    <2>3. item[Exports[k]] = "healthy"
        BY <1>1, <1>3, <1>4, <1>5, <1>7
    <2>4. lastRead[Exports[k]] # Never /\ lastRead[Exports[k]] + k + 1 <= cur
        BY <2>2, <2>3 DEF CycleReads
    <2>5. lastRead'[Exports[k]] = Older(lastRead[Exports[k]], Horizon)
        BY <1>2, <1>3, <1>5, <1>7 DEF OlderReads
    <2>6. lastRead[Exports[k]] \in Never..Horizon
        BY <1>1, <1>5
    <2>7. QED
        BY <1>1, <2>2, <2>4, <2>5, <2>6, Constants DEF Older, Never
<1>8. QED
    BY <1>6, <1>7

\* The report of a cycle that is done.
LEMMA WrittenGood ==
    ASSUME Types, CycleReads, cur = Len(Exports) + 1
    PROVE  GoodReport([checked |-> 0, state |-> item, read |-> lastRead])
<1>1. SUFFICES ASSUME NEW n \in Names
               PROVE  /\ lastRead[n] = Never \/ lastRead[n] >= 0
                      /\ item[n] = "healthy" => lastRead[n] # Never /\ lastRead[n] < 0 + Len(Exports)
    BY DEF GoodReport
<1>2. lastRead[n] \in Never..Horizon /\ Horizon \in Nat /\ Len(Exports) \in Nat
    BY Constants DEF Types, AgeTypes
<1>3. PICK k \in 1..Len(Exports) : n = Exports[k]
    BY Constants
<1>4. item[n] = "healthy" => lastRead[n] # Never /\ lastRead[n] + k + 1 <= cur
    BY <1>2, <1>3 DEF CycleReads
<1>5. QED
    BY <1>2, <1>3, <1>4 DEF Never

LEMMA ReportInvKept == Types /\ ReportInv /\ [Next]_vars => ReportInv'
<1> SUFFICES ASSUME Types, ReportInv, [Next]_vars PROVE ReportInv'
    OBVIOUS
<1>1. CycleReads /\ GoodReport(local) /\ GoodReport(shared)
    BY DEF ReportInv
<1>2. CycleReads'
    <2>1. CASE Consider
        BY <1>1, <2>1, ConsiderReads
    <2>2. CASE Verify
        BY <1>1, <2>2, VerifyReads
    <2>3. CASE cur' = 1
        BY <2>3 DEF CycleReads
    <2>4. CASE PublishShared
        <3>1. \A n \in Names : item'[n] # "healthy"
            BY <2>4 DEF PublishShared
        <3>2. \A k \in 1..cur' - 1 : Exports[k] \in Names
            BY <2>4, Constants DEF PublishShared, Types, StepTypes
        <3>3. QED
            BY <3>1, <3>2 DEF CycleReads
    <2>5. CASE UNCHANGED <<cur, item, lastRead>>
        BY <1>1, <2>5 DEF CycleReads
    <2>6. QED
        BY <2>1, <2>2, <2>3, <2>4, <2>5
           DEF Next, Cycle, Inspect, AskWorker, Bootout, Unmount, CheckUnmounted, Mount, Bootstrap,
               WriteLocal, Sleep, Crash, Break, Heal, LateUnmount, LateStop, NetDown, NetUp, vars,
               step, records, Others
<1>3. GoodReport(local') /\ GoodReport(shared')
    <2>1. CASE Elapse
        BY <1>1, <2>1, AgedGood DEF Elapse, Types
    <2>2. CASE WriteLocal
        <3>1. cur = Len(Exports) + 1 /\ shared' = shared
            BY <2>2 DEF WriteLocal
        <3>2. local' = local \/ local' = [checked |-> 0, state |-> item, read |-> lastRead]
            BY <2>2 DEF WriteLocal
        <3>3. QED
            BY <1>1, <3>1, <3>2, WrittenGood
    <2>3. CASE PublishShared
        BY <1>1, <2>3 DEF PublishShared
    <2>4. CASE UNCHANGED reports
        BY <1>1, <2>4 DEF reports
    <2>5. QED
        BY <2>1, <2>2, <2>3, <2>4
           DEF Next, Cycle, Inspect, Consider, AskWorker, Bootout, Unmount, CheckUnmounted, Mount,
               Bootstrap, Verify, Sleep, Crash, Break, Heal, LateUnmount, LateStop, NetDown, NetUp,
               vars, Others
<1>4. QED
    BY <1>2, <1>3 DEF ReportInv, GoodReport

\* The report the Pi reads is always valid, and mac_nfs_read_ok never vouches
\* for a read older than the time limit and one cycle's recoveries.
THEOREM ReportsTruthful == Spec => []ReadOkIsRecent
<1>1. Init => ReportInv
    <2>1. ASSUME Init PROVE CycleReads
        BY <2>1 DEF Init, CycleReads
    <2>2. GoodReport(NoReport)
        BY DEF GoodReport, NoReport
    <2>3. QED
        BY <2>1, <2>2 DEF Init, ReportInv
<1>2. Types /\ ReportInv => ReadOkIsRecent
    <2>1. SUFFICES ASSUME Types, ReportInv, NEW n \in Names
                   PROVE  /\ shared.checked # Never => valid_status(shared)
                          /\ read_ok(shared, n) =>
                                shared.read[n] # Never /\ shared.read[n] < Stale + Len(Exports)
        BY DEF ReadOkIsRecent
    <2>2. shared.checked # Never => valid_status(shared)
        BY <2>1 DEF ReportInv, GoodReport, valid_status
    <2>3. ASSUME read_ok(shared, n)
          PROVE  shared.read[n] # Never /\ shared.read[n] < Stale + Len(Exports)
        <3>1. shared.checked # Never /\ shared.state[n] = "healthy" /\ shared.checked <= Stale
            BY <2>3 DEF read_ok, valid_status
        <3>2. shared.read[n] # Never /\ shared.read[n] < shared.checked + Len(Exports)
            BY <2>1, <3>1 DEF ReportInv, GoodReport
        <3>3. shared.checked \in Never..Horizon /\ shared.read[n] \in Never..Horizon
            BY <2>1 DEF Types, Report
        <3>4. QED
            BY <3>1, <3>2, <3>3, Constants DEF Never
    <2>4. QED
        BY <2>2, <2>3
<1>3. QED
    BY <1>1, <1>2, TypesAlways, ReportInvKept, PTL DEF Spec

-----------------------------------------------------------------------------
(* What becomes of the worker.                                             *)

\* The steps between a bootout that succeeded and the bootstrap it owes.
Owing == {"umount", "check", "mount", "bootstrap"}

\* A worker that is not loaded is one that the recovery in hand has stopped and
\* will load again: it goes on to Bootstrap whether or not the share is back.
WorkerOwed == worker # "loaded" => domain /\ pc \in Owing

\* recover_with_worker never forgets a worker, as long as every bootout is
\* answered in time, every bootstrap succeeds and the supervisor does not die
\* in between.  These three are the ways in which nfs_mount.py may lose it.
THEOREM WorkerNotForgotten ==
    ASSUME {"late", "bootstrap", "crash"} \intersect Faults = {}
    PROVE  Spec => []WorkerOwed
<1>1. Init => WorkerOwed
    BY DEF Init, WorkerOwed
<1>2. ASSUME WorkerOwed, [Next]_vars PROVE WorkerOwed'
    <2>1. CASE Consider
        BY <1>2, <2>1 DEF Consider, WorkerOwed, Owing, mac
    <2>2. CASE AskWorker
        BY <1>2, <2>2 DEF AskWorker, WorkerOwed, Owing, mac
    <2>3. CASE Bootout
        BY <1>2, <2>3 DEF Bootout, WorkerOwed, Owing, Fault
    <2>4. CASE Unmount \/ CheckUnmounted \/ Mount
        BY <1>2, <2>4
           DEF Unmount, CheckUnmounted, Mount, WorkerOwed, Owing, AfterRecover, mac, step
    <2>5. CASE Bootstrap
        BY <2>5 DEF Bootstrap, WorkerOwed, Fault
    <2>6. CASE Inspect \/ Verify \/ WriteLocal \/ PublishShared \/ Sleep
        BY <1>2, <2>6
           DEF Inspect, Verify, WriteLocal, PublishShared, Sleep, WorkerOwed, Owing, mac
    <2>7. CASE Crash
        BY <2>7 DEF Crash, Fault
    <2>8. CASE LateStop
        BY <1>2, <2>8 DEF LateStop, WorkerOwed, Others, step
    <2>9. CASE UNCHANGED <<worker, pc, domain>>
        BY <1>2, <2>9 DEF WorkerOwed
    <2>10. QED
        BY <1>2, <2>1, <2>2, <2>3, <2>4, <2>5, <2>6, <2>7, <2>8, <2>9
           DEF Next, Cycle, Break, Heal, LateUnmount, NetDown, NetUp, Others, step, mac, vars
<1>3. QED
    BY <1>1, <1>2, PTL DEF Spec
=============================================================================
