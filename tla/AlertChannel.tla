---------------------------- MODULE AlertChannel ----------------------------
(***************************************************************************)
(* What the way of an alert to the operator's phone promises, whatever is  *)
(* sent twice, late or in vain: a message tells a status the alert has     *)
(* had, and Alertmanager takes a status for told only once a message with  *)
(* it was taken, and never an older status after a newer one.              *)
(* NtfyBridge implements this specification.                               *)
(***************************************************************************)
CONSTANT AlertSet

VARIABLES
    status,       \* per alert: "none", "firing" or "resolved"
    told,         \* per alert: the status Alertmanager takes for told
    delivered     \* per alert: the statuses of the messages ntfy has taken

Statuses == {"none", "firing", "resolved"}

\* The statuses an alert has had when it has status s.
Had(s) == IF s = "none" THEN {"none"} ELSE IF s = "firing" THEN {"none", "firing"} ELSE Statuses

Init ==
    /\ status = [a \in AlertSet |-> "none"] /\ told = status
    /\ delivered = [a \in AlertSet |-> {}]

\* An alert fires, and is resolved.
Change(a) ==
    /\ status[a] # "resolved"
    /\ status' = [status EXCEPT ![a] = IF @ = "none" THEN "firing" ELSE "resolved"]
    /\ UNCHANGED <<told, delivered>>

\* A message is taken, for the first time or again.
Deliver(a, s) ==
    /\ s \in Had(status[a]) \ {"none"}
    /\ delivered' = [delivered EXCEPT ![a] = @ \union {s}]
    /\ UNCHANGED <<status, told>>

\* Alertmanager is told that messages were taken, of any of the alerts.
Confirm(new) ==
    /\ \A a \in AlertSet :
          new[a] = told[a] \/ (new[a] \in delivered[a] /\ told[a] \in Had(new[a]))
    /\ told' = new
    /\ UNCHANGED <<status, delivered>>

Next ==
    \/ \E a \in AlertSet : Change(a) \/ \E s \in Statuses : Deliver(a, s)
    \/ \E new \in [AlertSet -> Statuses] : Confirm(new)

Spec == Init /\ [][Next]_<<status, told, delivered>>
=============================================================================
