--------------------------- MODULE NfsSupervisor ---------------------------
(***************************************************************************)
(* The NFS mount supervisor of the Mac, nfs_mount.py, with the mounts, the *)
(* launchd worker that reads from the main share, and the report the Pi's  *)
(* collector turns into metrics, nfs_client_metrics.py.                    *)
(*                                                                         *)
(* A cycle inspects every share, then decides share by share whether to    *)
(* mount or to recover it, then publishes a report.  Each command has a    *)
(* time limit: a command that times out may take effect later, or hang on  *)
(* in the kernel and refuse a second one like it (PENDING).                *)
(*                                                                         *)
(* Time counts in units in which a cycle sleeps once or recovers one share *)
(* and is kept as ages, saturated where the code stops to tell them apart. *)
(* Which of the two addresses of the server answers, and the wording of    *)
(* reasons, are left out.                                                  *)
(***************************************************************************)
EXTENDS Integers, Sequences, FiniteSets

CONSTANTS
    Exports,       \* EXPORTS, a sequence of names
    Main,          \* the export the worker reads from
    Carrier,       \* the export the report is published through
    Spacing,       \* 300 s between attempts on a share
    Stale,         \* 600 s for which a report is believed
    Faults,        \* kinds of fault that may happen
    MaxHangs,      \* times a share hangs or disappears (bound)
    MaxFaults      \* faults (bound)

FaultKinds == {"probe", "net", "print", "bootout", "late", "umount", "blocked",
               "list", "mount", "bootstrap", "write", "publish", "crash"}
Never == -1
Names == {Exports[k] : k \in DOMAIN Exports}

ASSUME NfsAssumption ==
    /\ Exports \in Seq(STRING) /\ Exports # <<>>
    /\ Main \in Names /\ Carrier \in Names
    /\ Spacing \in Nat \ {0} /\ Stale \in Nat \ {0}
    /\ Faults \subseteq FaultKinds
    /\ MaxHangs \in Nat /\ MaxFaults \in Nat

VARIABLES
    \* the Mac
    mnt,           \* per share: "healthy", "hung" or "unmounted"
    blocked,       \* shares with an unmount blocked in the kernel
    reachable,     \* does the server answer
    worker,        \* the launchd worker: "loaded", "leaving" or "gone"
    \* the supervisor
    pc,            \* what it does next
    cur,           \* position in Exports of the share in hand
    item,          \* per share: the state the cycle found or left it in
    source,        \* did a server address answer this cycle
    failures,      \* per share: cycles in a row it was found hung, up to 2
    attempt,       \* per share: age of the last attempt, up to Spacing
    lastRead,      \* per share: age of last_read_ok, or Never
    action,        \* what is being done to the share in hand
    domain,        \* was the worker stopped for it
    recovered,     \* is the share in hand mounted again
    \* reports: per share its state and last_read_ok, and checked_at
    local, shared,
    \* observed by nobody: history for the properties
    unmounted,     \* per share: age of this instance's last forced unmount, or Never
    hangs, faults  \* hangs and faults so far

mac     == <<mnt, blocked, reachable, worker>>
records == <<failures, attempt, lastRead>>
step    == <<cur, item, source, action, domain, recovered>>
reports == <<local, shared>>
vars    == <<mac, pc, step, records, reports, unmounted, hangs, faults>>
-----------------------------------------------------------------------------
States   == {"healthy", "hung", "unknown", "unmounted"}
Horizon  == Stale + Len(Exports)
NoReport == [checked |-> Never,
             state |-> [n \in Names |-> "unknown"], read |-> [n \in Names |-> Never]]

Older(age, limit) == IF age = Never \/ age >= limit THEN age ELSE age + 1

AgedReport(r) == [r EXCEPT !.checked = Older(@, Horizon),
                           !.read = [n \in Names |-> Older(@[n], Horizon)]]

\* One unit of time passes in everything that is dated.
Elapse ==
    /\ attempt' = [n \in Names |-> Older(attempt[n], Spacing)]
    /\ unmounted' = [n \in Names |-> Older(unmounted[n], Spacing)]
    /\ local' = AgedReport(local) /\ shared' = AgedReport(shared)

Fault(kind) == kind \in Faults /\ faults < MaxFaults /\ faults' = faults + 1
NoFault     == UNCHANGED faults

Share == Exports[cur]

Report == [checked : Never..Horizon, state : [Names -> States],
           read : [Names -> Never..Horizon]]

TypeOK ==
    /\ mnt \in [Names -> {"healthy", "hung", "unmounted"}]
    /\ blocked \subseteq Names /\ reachable \in BOOLEAN
    /\ worker \in {"loaded", "leaving", "gone"}
    /\ pc \in {"inspect", "decide", "worker", "bootout", "umount", "check",
               "mount", "bootstrap", "verify", "publish", "sleep"}
    /\ cur \in 1..Len(Exports) + 1
    /\ item \in [Names -> States] /\ source \in BOOLEAN
    /\ failures \in [Names -> 0..2]
    /\ attempt \in [Names -> 0..Spacing]
    /\ lastRead \in [Names -> Never..Horizon]
    /\ action \in {"none", "mount", "recover"}
    /\ domain \in BOOLEAN /\ recovered \in BOOLEAN
    /\ local \in Report /\ shared \in Report
    /\ unmounted \in [Names -> Never..Spacing]
    /\ hangs \in 0..MaxHangs /\ faults \in 0..MaxFaults

\* A supervisor that has just started: no attempt counts against it.
Init ==
    /\ mnt = [n \in Names |-> "healthy"] /\ blocked = {}
    /\ reachable = TRUE /\ worker = "loaded"
    /\ pc = "inspect" /\ cur = 1
    /\ item = [n \in Names |-> "unknown"] /\ source = FALSE
    /\ failures = [n \in Names |-> 0]
    /\ attempt = [n \in Names |-> Spacing]
    /\ lastRead = [n \in Names |-> Never]
    /\ action = "none" /\ domain = FALSE /\ recovered = FALSE
    /\ local = NoReport /\ shared = NoReport
    /\ unmounted = [n \in Names |-> Never]
    /\ hangs = 0 /\ faults = 0
-----------------------------------------------------------------------------
(* The supervisor.                                                         *)

\* health: what the mount list, nfsstat and the bounded read make of a share.
\* A probe that fails for another reason than the share reads as unknown; one
\* that the system blocks reads as hung.
Seen(state) ==
    IF state = "unmounted" THEN {"unknown"} ELSE {"unknown", "hung"}

\* inspect, and pick_source unless all is healthy.
Inspect ==
    /\ pc = "inspect"
    /\ \/ item' = mnt /\ NoFault
       \/ /\ Fault("probe")
          /\ \/ item' = [n \in Names |-> "unknown"]     \* the mounts cannot be listed
             \/ \E n \in Names : \E s \in Seen(mnt[n]) : item' = [mnt EXCEPT ![n] = s]
    /\ source' = (reachable /\ \E n \in Names : item'[n] # "healthy")
    /\ cur' = 1 /\ pc' = "decide"
    /\ UNCHANGED <<mac, action, domain, recovered, records, reports, unmounted, hangs>>

decide_Blind(state, fails, elapsed, reach, everRead) ==
    IF ~reach \/ elapsed < Spacing THEN "none"
    ELSE IF state = "unmounted" THEN "mount"
    ELSE IF state = "hung" /\ fails >= 2 THEN "recover"
    ELSE "none"

decide_Baseline(state, fails, elapsed, reach, everRead) ==
    IF ~reach \/ elapsed < Spacing \/ ~everRead THEN "none"
    ELSE IF state = "unmounted" THEN "mount"
    ELSE IF state = "hung" /\ fails >= 2 THEN "recover"
    ELSE "none"

decide_Hasty(state, fails, elapsed, reach, everRead) ==
    IF ~reach THEN "none"
    ELSE IF state = "unmounted" THEN "mount"
    ELSE IF state = "hung" /\ fails >= 2 /\ everRead THEN "recover"
    ELSE "none"

decide_Never(state, fails, elapsed, reach, everRead) ==
    IF ~reach \/ elapsed < Spacing THEN "none"
    ELSE IF state = "unmounted" THEN "mount"
    ELSE IF state = "hung" /\ fails > 2 /\ everRead THEN "recover"
    ELSE "none"

\* decide: mount an absent share, recover a hung one that could once be read,
\* no sooner than Spacing after the last attempt; unknown is no permission.
decide(state, fails, elapsed, reach, everRead) ==
    IF ~reach \/ elapsed < Spacing THEN "none"
    ELSE IF state = "unmounted" THEN "mount"
    ELSE IF state = "hung" /\ fails >= 2 /\ everRead THEN "recover"
    ELSE "none"

\* The loop's body for one share, up to the action it takes.
Consider ==
    /\ pc = "decide" /\ cur <= Len(Exports)
    /\ LET n     == Share
           fails == IF item[n] # "hung" THEN 0 ELSE IF failures[n] = 2 THEN 2 ELSE failures[n] + 1
           read  == IF item[n] = "healthy" THEN 0 ELSE lastRead[n]
           act   == decide(item[n], fails, attempt[n], source, read # Never)
       IN /\ failures' = [failures EXCEPT ![n] = fails]
          /\ lastRead' = [lastRead EXCEPT ![n] = read]
          /\ action' = act
          /\ IF act = "none"
             THEN cur' = cur + 1 /\ pc' = pc /\ attempt' = attempt
             ELSE /\ cur' = cur
                  /\ attempt' = [attempt EXCEPT ![n] = 0]
                  /\ pc' = IF act = "mount" THEN "check" ELSE
                           IF n = Main THEN "worker" ELSE "umount"
    /\ domain' = FALSE /\ recovered' = FALSE
    /\ UNCHANGED <<mac, item, source, reports, unmounted, hangs, faults>>

\* recover_with_worker: is the worker loaded?  An answer that says neither
\* refuses the recovery.
AskWorker ==
    /\ pc = "worker"
    /\ \/ pc' = (IF worker = "gone" THEN "umount" ELSE "bootout") /\ NoFault
       \/ pc' = "verify" /\ Fault("print")
    /\ UNCHANGED <<mac, step, records, reports, unmounted, hangs>>

Bootout_Unchecked ==
    /\ pc = "bootout"
    /\ \/ worker' = "gone" /\ NoFault
       \/ UNCHANGED worker /\ Fault("bootout")
       \/ worker' = "leaving" /\ Fault("late")
    /\ domain' = TRUE /\ pc' = "umount"
    /\ UNCHANGED <<mnt, blocked, reachable, cur, item, source, action, recovered,
                   records, reports, unmounted, hangs>>

\* launchctl bootout: done, refused, or not answered in time.  Without a
\* success the recovery is refused, and what it has stopped is not restored.
Bootout ==
    /\ pc = "bootout"
    /\ \/ worker' = "gone" /\ domain' = TRUE /\ pc' = "umount" /\ NoFault
       \/ UNCHANGED <<worker, domain>> /\ pc' = "verify" /\ Fault("bootout")
       \/ worker' = "leaving" /\ UNCHANGED domain /\ pc' = "verify" /\ Fault("late")
    /\ UNCHANGED <<mnt, blocked, reachable, cur, item, source, action, recovered,
                   records, reports, unmounted, hangs>>

\* Where a recovery that has done what it can goes on.
AfterRecover == IF domain THEN "bootstrap" ELSE "verify"

\* recover: umount -f, then diskutil.  An unmount that is blocked in the
\* kernel takes effect later.
Unmount ==
    /\ pc = "umount"
    /\ \/ /\ mnt' = [mnt EXCEPT ![Share] = "unmounted"]
          /\ blocked' = blocked \ {Share}
          /\ pc' = "check" /\ NoFault
       \/ /\ pc' = AfterRecover /\ UNCHANGED mnt
          /\ \/ UNCHANGED blocked /\ Fault("umount")
             \/ blocked' = blocked \union {Share} /\ Fault("blocked")
    /\ unmounted' = [unmounted EXCEPT ![Share] = 0]
    /\ UNCHANGED <<reachable, worker, step, records, reports, hangs>>

\* recover: nothing is mounted over a share that is still there, or when the
\* mounts cannot be listed.
CheckUnmounted ==
    /\ pc = "check"
    /\ \/ pc' = (IF mnt[Share] = "unmounted" THEN "mount" ELSE AfterRecover) /\ NoFault
       \/ pc' = AfterRecover /\ Fault("list")
    /\ UNCHANGED <<mac, step, records, reports, unmounted, hangs>>

\* recover: mount_nfs from the address that answered.
Mount ==
    /\ pc = "mount"
    /\ \/ /\ reachable /\ recovered' = TRUE /\ NoFault
          /\ mnt' = [mnt EXCEPT ![Share] = "healthy"]
       \/ ~reachable /\ UNCHANGED <<mnt, recovered>> /\ NoFault
       \/ UNCHANGED <<mnt, recovered>> /\ Fault("mount")
    /\ pc' = AfterRecover
    /\ UNCHANGED <<blocked, reachable, worker, cur, item, source, action, domain,
                   records, reports, unmounted, hangs>>

\* recover_with_worker: the worker that was stopped is loaded again, whether
\* or not the share is back.
Bootstrap ==
    /\ pc = "bootstrap"
    /\ \/ worker' = "loaded" /\ UNCHANGED recovered /\ NoFault
       \/ recovered' = FALSE /\ UNCHANGED worker /\ Fault("bootstrap")
    /\ pc' = "verify"
    /\ UNCHANGED <<mnt, blocked, reachable, cur, item, source, action, domain,
                   records, reports, unmounted, hangs>>

OlderReads == [n \in Names |-> Older(lastRead[n], Horizon)]

Unrecovered_Reason == "recovery_failed"

\* What a share is after an attempt that failed: the collector believes no
\* report with a state it does not know.
Unrecovered == "unknown"

\* The attempt is over and took a unit of time: the share is read again if it
\* was mounted, and was read if it is healthy.
Verify ==
    /\ pc = "verify"
    /\ \E found \in IF recovered THEN {mnt[Share]} \union Seen(mnt[Share]) ELSE {Unrecovered} :
        /\ item' = [item EXCEPT ![Share] = found]
        /\ IF recovered /\ found # mnt[Share] THEN Fault("probe") ELSE NoFault
        /\ lastRead' = IF found = "healthy" THEN [OlderReads EXCEPT ![Share] = 0] ELSE OlderReads
    /\ Elapse
    /\ cur' = cur + 1 /\ pc' = "decide"
    /\ UNCHANGED <<mac, source, action, domain, recovered, failures, hangs>>

\* write_status: the report of this cycle, unless the file cannot be written.
WriteLocal ==
    /\ pc = "decide" /\ cur = Len(Exports) + 1
    /\ \/ local' = [checked |-> 0, state |-> item, read |-> lastRead] /\ NoFault
       \/ UNCHANGED local /\ Fault("write")
    /\ pc' = "publish"
    /\ UNCHANGED <<mac, step, records, shared, unmounted, hangs>>

\* --publish: the local report goes to the Pi through a share of its own.
PublishShared ==
    /\ pc = "publish"
    /\ \/ shared' = (IF mnt[Carrier] = "healthy" THEN local ELSE shared) /\ NoFault
       \/ UNCHANGED shared /\ Fault("publish")
    /\ pc' = "sleep"
    /\ item' = [n \in Names |-> "unknown"] /\ source' = FALSE
    /\ action' = "none" /\ domain' = FALSE /\ recovered' = FALSE
    /\ UNCHANGED <<mac, cur, records, local, unmounted, hangs>>

Sleep ==
    /\ pc = "sleep"
    /\ pc' = "inspect" /\ cur' = 1
    /\ Elapse /\ lastRead' = OlderReads
    /\ UNCHANGED <<mac, item, source, action, domain, recovered, failures, hangs, faults>>

\* launchd starts a supervisor that died again; it remembers nothing.
Crash ==
    /\ Fault("crash")
    /\ pc' = "inspect" /\ cur' = 1
    /\ item' = [n \in Names |-> "unknown"] /\ source' = FALSE
    /\ action' = "none" /\ domain' = FALSE /\ recovered' = FALSE
    /\ failures' = [n \in Names |-> 0]
    /\ attempt' = [n \in Names |-> Spacing]
    /\ lastRead' = [n \in Names |-> Never]
    /\ unmounted' = [n \in Names |-> Never]
    /\ UNCHANGED <<mac, reports, hangs>>
-----------------------------------------------------------------------------
(* The Mac and the network (external).                                     *)

Others == <<pc, step, records, reports, unmounted>>

\* A share stops answering, or disappears.
Break(n) ==
    /\ hangs < MaxHangs /\ mnt[n] = "healthy"
    /\ \E s \in {"hung", "unmounted"} : mnt' = [mnt EXCEPT ![n] = s]
    /\ hangs' = hangs + 1
    /\ UNCHANGED <<blocked, reachable, worker, Others, faults>>

\* A hung share may answer again by itself.
Heal(n) ==
    /\ mnt[n] = "hung"
    /\ mnt' = [mnt EXCEPT ![n] = "healthy"]
    /\ UNCHANGED <<blocked, reachable, worker, Others, hangs, faults>>

LateUnmount(n) ==
    /\ n \in blocked
    /\ mnt' = [mnt EXCEPT ![n] = "unmounted"] /\ blocked' = blocked \ {n}
    /\ UNCHANGED <<reachable, worker, Others, hangs, faults>>

\* A bootout that was not answered in time takes effect.
LateStop ==
    /\ worker = "leaving"
    /\ worker' = "gone"
    /\ UNCHANGED <<mnt, blocked, reachable, Others, hangs, faults>>

NetDown ==
    /\ reachable /\ Fault("net")
    /\ reachable' = FALSE
    /\ UNCHANGED <<mnt, blocked, worker, Others, hangs>>

NetUp ==
    /\ ~reachable
    /\ reachable' = TRUE
    /\ UNCHANGED <<mnt, blocked, worker, Others, hangs, faults>>
-----------------------------------------------------------------------------
Cycle == \/ Inspect \/ Consider \/ AskWorker \/ Bootout \/ Unmount \/ CheckUnmounted
         \/ Mount \/ Bootstrap \/ Verify \/ WriteLocal \/ PublishShared \/ Sleep

Next ==
    \/ Cycle \/ Crash
    \/ \E n \in Names : Break(n) \/ Heal(n) \/ LateUnmount(n)
    \/ LateStop \/ NetDown \/ NetUp

Spec == Init /\ [][Next]_vars

\* The supervisor runs for ever (launchd keeps it alive), no command blocks it
\* (each has a time limit), and the server comes back.
FairSpec == Spec /\ WF_vars(Cycle) /\ WF_vars(NetUp) /\ WF_vars(LateStop)
-----------------------------------------------------------------------------
(* The Pi's collector.                                                     *)

\* valid_status: no report, or one that claims a read after its own date, is
\* not believed.
valid_status(r) ==
    /\ r.checked # Never
    /\ \A n \in Names : r.read[n] = Never \/ r.read[n] >= r.checked

read_ok_AnyAge(r, n) == valid_status(r) /\ r.state[n] = "healthy"

\* render: mac_nfs_read_ok.
read_ok(r, n) == valid_status(r) /\ r.state[n] = "healthy" /\ r.checked <= Stale
-----------------------------------------------------------------------------
(* Properties.                                                             *)

\* A share is forcibly unmounted only by a supervisor that has read it since
\* it started, and not again within the spacing: neither a daemon that may not
\* look at a share nor failing recoveries make a remount storm
\* (nfs_mount.py:137-166).
UnmountJustified ==
    [][\A n \in Names :
          pc = "umount" /\ Share = n /\ unmounted'[n] = 0
          => lastRead[n] # Never /\ unmounted[n] \in {Never, Spacing}]_vars

\* The main share is not unmounted under its worker: whatever launchd has
\* answered, late or not, the worker is gone (nfs_mount.py:212-226).
WorkerStoppedFirst ==
    [][pc = "umount" /\ Share = Main /\ unmounted'[Main] = 0 => worker = "gone"]_vars

\* The reports the Pi finds are valid, and what they call a successful read is
\* no older than the report's time limit and the recoveries of a cycle
\* (nfs_mount.py:264-294, nfs_client_metrics.py:18-56).
ReadOkIsRecent ==
    \A n \in Names :
        /\ shared.checked # Never => valid_status(shared)
        /\ read_ok(shared, n) =>
              shared.read[n] # Never /\ shared.read[n] < Stale + Len(Exports)

\* A share that hangs while the supervisor knows it can read it does not stay
\* hung, unless the supervisor restarts and loses that knowledge
\* (nfs_mount.py:142-163).
HungIsRecovered ==
    \A n \in Names :
        mnt[n] = "hung" /\ lastRead[n] # Never ~> mnt[n] # "hung" \/ lastRead[n] = Never

\* A share that is gone is mounted again, read before or not, also when a
\* recovery died half-way (nfs_mount.py:140-141 and 177-188).
AbsentIsMounted ==
    \A n \in Names : mnt[n] = "unmounted" ~> mnt[n] = "healthy"

\* The worker a recovery stops is loaded again (nfs_mount.py:199: "Stop the
\* exact launchd worker during main-share recovery; preserve its loaded
\* state.").
WorkerPreserved == worker # "loaded" ~> worker = "loaded"
=============================================================================
