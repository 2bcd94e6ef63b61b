----------------------------- MODULE RunnerPool -----------------------------
(***************************************************************************)
(* What the runner supervisor promises of its containers, whatever it      *)
(* reads and in whatever order: it starts one only while fewer than the    *)
(* global cap run, and it removes an ended one only after counting it.     *)
(* RunnerSupervisor implements this specification.                         *)
(***************************************************************************)
EXTENDS Integers, FiniteSets

CONSTANTS
    Runners,               \* identities of runner containers
    MaxConcurrentGlobal    \* MAX_CONCURRENT_GLOBAL

VARIABLES
    phase,    \* per identity: "free", "up", "ended" or "counted"
    tally     \* jobs_total

Phases == {"free", "up", "ended", "counted"}

In(p) == {i \in Runners : phase[i] = p}

Init == phase = [i \in Runners |-> "free"] /\ tally = 0

\* A container starts under the cap.
Spawn(i) ==
    /\ phase[i] = "free"
    /\ Cardinality(In("up")) < MaxConcurrentGlobal
    /\ phase' = [phase EXCEPT ![i] = "up"]
    /\ UNCHANGED tally

\* Containers end: a job is done, the runner or the host stops.
End(S) ==
    /\ phase' = [i \in Runners |-> IF i \in S THEN "ended" ELSE phase[i]]
    /\ UNCHANGED tally

Ended == In("ended") \union In("counted")

\* Ended containers are counted, and removed but for those that resist.  One
\* that resisted before is counted again.
Reap(done, kept) ==
    /\ tally' = tally + Cardinality(done)
    /\ phase' = [i \in Runners |-> IF i \notin done THEN phase[i]
                                 ELSE IF i \in kept THEN "counted" ELSE "free"]

\* The supervisor starts again: its counters begin at zero, whatever of the
\* ended containers it had removed.  Containers that a host's restart ended
\* are found ended.
Restart(S, gone) ==
    /\ tally' = 0
    /\ phase' = [i \in Runners |->
                    IF i \in gone THEN "free"
                    ELSE IF i \in S \/ phase[i] = "counted" THEN "ended" ELSE phase[i]]

Next ==
    \/ \E i \in Runners : Spawn(i)
    \/ \E S \in SUBSET In("up") : End(S)
    \/ \E done \in SUBSET Ended : \E kept \in SUBSET done : Reap(done, kept)
    \/ \E S \in SUBSET In("up"), gone \in SUBSET Ended : Restart(S, gone)

Spec == Init /\ [][Next]_<<phase, tally>>
=============================================================================
