----------------------------- MODULE NtfyBridge -----------------------------
(***************************************************************************)
(* The way of an alert to the operator's phone: Alertmanager posts a group *)
(* of alerts to ntfy-bridge.py, the bridge posts one message per alert to  *)
(* ntfy, retrying for about a minute while ntfy cannot be reached, and     *)
(* answers 204 or 500; on anything but a 204 Alertmanager posts again.     *)
(*                                                                         *)
(* The bridge serves every request in a thread of its own, so a request    *)
(* that Alertmanager has given up still sends its messages.  Only          *)
(* Alertmanager remembers what is still to be told.  A message is an alert *)
(* and its status; title, priority and age are left out, and so are the     *)
(* bridge's counters.                                                      *)
(***************************************************************************)
EXTENDS Integers, Sequences, FiniteSets

CONSTANTS
    Alerts,        \* the alerts of a group, as a payload lists them
    Attempts,      \* attempts at one message: RETRY_BACKOFF_SECONDS and one more
    Threads,       \* handler threads (bound)
    Faults,        \* kinds of fault that may happen
    MaxFaults      \* faults (bound)

FaultKinds == {"outage", "lost", "reject", "timeout", "crash"}
AlertSet   == {Alerts[k] : k \in DOMAIN Alerts}

ASSUME BridgeAssumption ==
    /\ Alerts \in Seq(AlertSet) /\ Alerts # <<>> /\ Attempts \in Nat \ {0}
    /\ Faults \subseteq FaultKinds /\ MaxFaults \in Nat

VARIABLES
    \* Alertmanager
    status,        \* per alert: "none", "firing" or "resolved"
    told,          \* per alert: the status of the last payload answered by 204
    \* the bridge
    thread,        \* its handler threads
    \* ntfy
    reachable,     \* can it be reached
    phone,         \* per alert: the status of the last message it took
    \* observed by nobody: history for the properties
    delivered,     \* per alert: the statuses ntfy has taken
    faults         \* faults so far

amVars  == <<status, told>>
ntfy    == <<reachable, phone, delivered>>
vars    == <<amVars, thread, ntfy, faults>>
-----------------------------------------------------------------------------
Statuses == {"none", "firing", "resolved"}
Rank(s)  == CASE s = "none" -> 0 [] s = "firing" -> 1 [] s = "resolved" -> 2

\* A thread that serves nobody.
Free == [conn |-> "none", payload |-> [a \in AlertSet |-> "none"],
         next |-> 1, left |-> Attempts, ok |-> TRUE]

TypeOK ==
    /\ status \in [AlertSet -> Statuses] /\ told \in [AlertSet -> Statuses]
    /\ thread \in [Threads -> [conn : {"none", "open", "gone"}, payload : [AlertSet -> Statuses],
                               next : 1..Len(Alerts) + 1, left : 1..Attempts, ok : BOOLEAN]]
    /\ reachable \in BOOLEAN
    /\ phone \in [AlertSet -> Statuses] /\ delivered \in [AlertSet -> SUBSET Statuses]
    /\ faults \in 0..MaxFaults

Init ==
    /\ status = [a \in AlertSet |-> "none"] /\ told = status
    /\ thread = [h \in Threads |-> Free]
    /\ reachable = TRUE /\ phone = status
    /\ delivered = [a \in AlertSet |-> {}]
    /\ faults = 0

Fault(kind) == kind \in Faults /\ faults < MaxFaults /\ faults' = faults + 1
NoFault     == UNCHANGED faults
-----------------------------------------------------------------------------
(* Alertmanager (external): one request at a time for a group.             *)

Fire(a) ==
    /\ status[a] = "none"
    /\ status' = [status EXCEPT ![a] = "firing"]
    /\ UNCHANGED <<told, thread, ntfy, faults>>

Resolve(a) ==
    /\ status[a] = "firing"
    /\ status' = [status EXCEPT ![a] = "resolved"]
    /\ UNCHANGED <<told, thread, ntfy, faults>>

Waiting == \E h \in Threads : thread[h].conn = "open"

\* The group as it is now: what fires, and what is resolved and not yet told.
Group == [a \in AlertSet |-> IF status[a] = "resolved" /\ told[a] = "resolved"
                             THEN "none" ELSE status[a]]

\* An alert to tell of: it fires, or what was told to fire is resolved.
Owed(a) == \/ status[a] = "firing" /\ told[a] # "firing"
           \/ status[a] = "resolved" /\ told[a] = "firing"

\* A new request, or the same again after anything but a 204.
Post(h) ==
    /\ ~Waiting /\ thread[h].conn = "none" /\ \E a \in AlertSet : Owed(a)
    /\ thread' = [thread EXCEPT ![h] = [Free EXCEPT !.conn = "open", !.payload = Group]]
    /\ UNCHANGED <<amVars, ntfy, faults>>

\* Alertmanager stops waiting for the answer; the thread goes on.
GiveUp(h) ==
    /\ thread[h].conn = "open" /\ Fault("timeout")
    /\ thread' = [thread EXCEPT ![h].conn = "gone"]
    /\ UNCHANGED <<amVars, ntfy>>
-----------------------------------------------------------------------------
(* The bridge.                                                             *)

\* Definitions named <Definition>_<Slip> are mutants: a bug each that the run
\* must detect when it takes the definition's place.

\* process_payload: the next alert the payload holds, past the last if none.
NextAlert(payload, from) ==
    LET rest == {k \in from..Len(Alerts) : payload[Alerts[k]] # "none"}
    IN IF rest = {} THEN Len(Alerts) + 1
       ELSE CHOOSE k \in rest : \A l \in rest : k <= l

Current(h) == NextAlert(thread[h].payload, thread[h].next)
Busy(h)    == thread[h].conn # "none" /\ Current(h) <= Len(Alerts)
Message(h) == Alerts[Current(h)]

Handled_LastWins(h, ok) ==
    [thread EXCEPT ![h].next = Current(h) + 1, ![h].left = Attempts, ![h].ok = ok]

\* handle_alert is over: one alert that failed fails the request.
Handled(h, ok) ==
    [thread EXCEPT ![h].next = Current(h) + 1, ![h].left = Attempts, ![h].ok = @ /\ ok]

\* ntfy takes the message of a thread.
Taken(h) ==
    /\ reachable
    /\ phone' = [phone EXCEPT ![Message(h)] = thread[h].payload[Message(h)]]
    /\ delivered' = [delivered EXCEPT ![Message(h)] = @ \union {thread[h].payload[Message(h)]}]
    /\ UNCHANGED reachable

\* send_ntfy: the attempt is answered.  An HTTP error is final.
SendAnswered(h) ==
    /\ Busy(h) /\ reachable
    /\ \/ Taken(h) /\ thread' = Handled(h, TRUE) /\ NoFault
       \/ thread' = Handled(h, FALSE) /\ UNCHANGED ntfy /\ Fault("reject")
    /\ UNCHANGED amVars

Retry_OnceMore(h) ==
    thread' = IF thread[h].left > 0 THEN [thread EXCEPT ![h].left = @ - 1]
              ELSE Handled(h, FALSE)

Retry_GivesUpQuietly(h) ==
    thread' = IF thread[h].left > 1 THEN [thread EXCEPT ![h].left = @ - 1]
              ELSE Handled(h, TRUE)

\* send_ntfy: back off and try again, or give up.
Retry(h) ==
    thread' = IF thread[h].left > 1 THEN [thread EXCEPT ![h].left = @ - 1]
              ELSE Handled(h, FALSE)

\* send_ntfy: a transport error: ntfy cannot be reached, or its answer is lost
\* after it has taken the message.
SendFails(h) ==
    /\ Busy(h)
    /\ \/ ~reachable /\ UNCHANGED ntfy /\ NoFault
       \/ Taken(h) /\ Fault("lost")
    /\ Retry(h)
    /\ UNCHANGED amVars

Accepted_Always(h) == TRUE

\* do_POST: 204 only if every message was taken.
Accepted(h) == thread[h].ok

Respond_First(h) ==
    /\ \/ /\ thread[h].conn = "open"
          /\ told' = [a \in AlertSet |-> IF thread[h].payload[a] = "none" THEN told[a]
                                         ELSE thread[h].payload[a]]
          /\ thread' = [thread EXCEPT ![h].conn = "answered"]
       \/ /\ thread[h].conn # "none" /\ ~Busy(h)
          /\ thread' = [thread EXCEPT ![h] = Free]
          /\ UNCHANGED told
    /\ UNCHANGED <<status, ntfy, faults>>

\* The answer, which Alertmanager notes if it still waits for it.
Respond(h) ==
    /\ thread[h].conn # "none" /\ ~Busy(h)
    /\ told' = IF thread[h].conn = "open" /\ Accepted(h)
               THEN [a \in AlertSet |-> IF thread[h].payload[a] = "none" THEN told[a]
                                        ELSE thread[h].payload[a]]
               ELSE told
    /\ thread' = [thread EXCEPT ![h] = Free]
    /\ UNCHANGED <<status, ntfy, faults>>

\* The container restarts: threads and connections are gone.
Crash ==
    /\ Fault("crash")
    /\ thread' = [h \in Threads |-> Free]
    /\ UNCHANGED <<amVars, ntfy>>
-----------------------------------------------------------------------------
(* ntfy and its name resolution (external).                                *)

Outage ==
    /\ reachable /\ Fault("outage")
    /\ reachable' = FALSE
    /\ UNCHANGED <<amVars, thread, phone, delivered>>

Recovery ==
    /\ ~reachable
    /\ reachable' = TRUE
    /\ UNCHANGED <<amVars, thread, phone, delivered, faults>>

\* Nothing fires, nothing is left to tell.
Quiet ==
    /\ \A a \in AlertSet : status[a] = "resolved" /\ ~Owed(a)
    /\ \A h \in Threads : thread[h].conn = "none"
    /\ reachable /\ UNCHANGED vars
-----------------------------------------------------------------------------
Bridge(h) == SendAnswered(h) \/ SendFails(h) \/ Respond(h)

Next ==
    \/ \E a \in AlertSet : Fire(a) \/ Resolve(a)
    \/ \E h \in Threads : Post(h) \/ GiveUp(h) \/ Bridge(h)
    \/ Crash \/ Outage \/ Recovery \/ Quiet

Spec == Init /\ [][Next]_vars

\* Alertmanager posts while something is left to tell, a thread goes on (each
\* attempt has a time limit), and ntfy comes back.  Alerts need not fire.
FairSpec ==
    /\ Spec
    /\ WF_vars(\E h \in Threads : Post(h))
    /\ \A h \in Threads : WF_vars(Bridge(h))
    /\ WF_vars(Recovery)
-----------------------------------------------------------------------------
(* Properties.                                                             *)

Channel == INSTANCE AlertChannel

\* The bridge with its retries, threads and answers implements the channel: no
\* message tells a status the alert has not had, and what Alertmanager takes
\* for told was taken by ntfy and never goes back to an older status, across
\* lost answers, given up requests and restarts (ntfy-bridge.py.j2:132-191).
ImplementsChannel == Channel!Spec

\* What Alertmanager believes told, ntfy has taken: no answer of the bridge
\* turns an outage, a rejection or a crash into a loss
\* (ntfy-bridge.py.j2:170-191, 259-277).
ToldIsDelivered ==
    \A a \in AlertSet : told[a] # "none" => told[a] \in delivered[a]

\* A status that Alertmanager has to tell reaches the phone, however the
\* attempts before have ended, unless it changes first
\* (ntfy-bridge.py.j2:132-147 and 170-191).
StatusArrives ==
    \A a \in AlertSet, s \in {"firing", "resolved"} :
        status[a] = s /\ Owed(a) ~> s \in delivered[a] \/ status[a] # s

\* Messages arrive in the order of the statuses, unless they come from a
\* request that Alertmanager has given up: the bridge answers only when it has
\* sent everything, so one request is served at a time, whatever is sent twice
\* (ntfy-bridge.py.j2:259-277).
OrderKept ==
    [][\A a \in AlertSet :
          Rank(phone'[a]) < Rank(phone[a])
          => \E h \in Threads : thread[h].conn = "gone" /\ thread'[h] # thread[h]]_vars
=============================================================================
