-------------------------- MODULE NtfyBridgeProofs --------------------------
(***************************************************************************)
(* Proofs about the ntfy bridge, for any group of alerts, any number of    *)
(* attempts and threads, and any faults.                                   *)
(***************************************************************************)
EXTENDS NtfyBridge, WellFoundedInduction, TLAPS

Payloads == [AlertSet -> Statuses]
Places   == 1..Len(Alerts) + 1
Thread   == [conn : {"none", "open", "gone"}, payload : Payloads,
             next : Places, left : 1..Attempts, ok : BOOLEAN]

\* A non-empty set of naturals has a least element.
LEMMA Least ==
    ASSUME NEW T \in SUBSET Nat, T # {}
    PROVE  \E x \in T : \A y \in T : x <= y
<1> DEFINE R == OpToRel(<, Nat)
<1>1. IsWellFoundedOn(R, Nat)
    BY NatLessThanWellFounded
<1>2. \A a, b \in Nat : a < b => <<a, b>> \in R
    BY DEF OpToRel
<1> HIDE DEF R
<1>3. PICK x \in T : \A y \in T : ~ (<<y, x>> \in R)
    BY <1>1, WFMin, Zenon
<1>4. SUFFICES ASSUME NEW y \in T PROVE x <= y
    OBVIOUS
<1>5. x \in Nat /\ y \in Nat
    OBVIOUS
<1>6. ~ (y < x)
    BY <1>2, <1>3, <1>5
<1>7. QED
    BY <1>5, <1>6

\* The alerts a group lists, by position.
LEMMA AlertFacts ==
    /\ Len(Alerts) \in Nat \ {0}
    /\ DOMAIN Alerts = 1..Len(Alerts)
    /\ \A k \in 1..Len(Alerts) : Alerts[k] \in AlertSet
    /\ \A a \in AlertSet : \E k \in 1..Len(Alerts) : a = Alerts[k]
<1>1. Alerts \in Seq(AlertSet) /\ Alerts # <<>>
    BY BridgeAssumption
<1>2. Len(Alerts) \in Nat \ {0} /\ DOMAIN Alerts = 1..Len(Alerts)
    BY <1>1
<1>3. QED
    BY <1>2 DEF AlertSet

\* The next alert lies ahead, and the payload holds none that it skips.
LEMMA NextAlertFacts ==
    ASSUME NEW p \in Payloads, NEW from \in Places
    PROVE  /\ NextAlert(p, from) \in from..Len(Alerts) + 1
           /\ \A k \in from..NextAlert(p, from) - 1 : p[Alerts[k]] = "none"
<1> DEFINE rest == {k \in from..Len(Alerts) : p[Alerts[k]] # "none"}
<1>1. Len(Alerts) \in Nat /\ from \in Nat
    BY AlertFacts DEF Places
<1>2. CASE rest = {}
    <2>1. NextAlert(p, from) = Len(Alerts) + 1
        BY <1>2 DEF NextAlert
    <2>2. \A k \in from..Len(Alerts) : p[Alerts[k]] = "none"
        BY <1>2
    <2>3. from <= Len(Alerts) + 1
        BY <1>1 DEF Places
    <2>4. QED
        BY <1>1, <2>1, <2>2, <2>3
<1>3. CASE rest # {}
    <2>1. rest \in SUBSET Nat
        BY <1>1
    <2>2. \E x \in rest : \A y \in rest : x <= y
        BY <1>3, <2>1, Least
    <2>3. NextAlert(p, from) = CHOOSE k \in rest : \A l \in rest : k <= l
        BY <1>3 DEF NextAlert
    <2> DEFINE n == NextAlert(p, from)
    <2>4. n \in rest /\ \A l \in rest : n <= l
        BY <2>2, <2>3
    <2>5. n \in from..Len(Alerts)
        BY <2>4
    <2>6. ASSUME NEW k \in from..n - 1 PROVE p[Alerts[k]] = "none"
        <3>1. k \in from..Len(Alerts) /\ ~ (n <= k)
            BY <1>1, <2>5, <2>6
        <3>2. QED
            BY <2>4, <3>1
    <2>7. QED
        BY <1>1, <2>5, <2>6
<1>4. QED
    BY <1>2, <1>3
-----------------------------------------------------------------------------
(* Types.                                                                  *)

\* TypeOK with the thread's type by name.
LEMMA ThreadType == TypeOK => thread \in [Threads -> Thread]
BY DEF TypeOK, Thread, Payloads, Places

LEMMA FreeType == Free \in Thread
BY AlertFacts, BridgeAssumption DEF Free, Thread, Payloads, Places, Statuses

\* A busy thread stands at an alert its payload may hold, and has skipped none.
LEMMA BusyFacts ==
    ASSUME TypeOK, NEW h \in Threads
    PROVE  /\ Current(h) \in thread[h].next..Len(Alerts) + 1
           /\ Current(h) \in Places
           /\ \A k \in thread[h].next..Current(h) - 1 : thread[h].payload[Alerts[k]] = "none"
           /\ Busy(h) => Current(h) \in 1..Len(Alerts) /\ Message(h) \in AlertSet
<1>1. thread[h] \in Thread
    BY ThreadType
<1>2. thread[h].payload \in Payloads /\ thread[h].next \in Places
    BY <1>1 DEF Thread
<1>3. /\ Current(h) \in thread[h].next..Len(Alerts) + 1
      /\ \A k \in thread[h].next..Current(h) - 1 : thread[h].payload[Alerts[k]] = "none"
    BY <1>2, NextAlertFacts DEF Current
<1>4. Current(h) \in Places
    BY <1>2, <1>3, AlertFacts DEF Places
<1>5. Busy(h) => Current(h) \in 1..Len(Alerts)
    BY <1>4, AlertFacts DEF Busy, Places
<1>6. QED
    BY <1>3, <1>4, <1>5, AlertFacts DEF Message

\* What handle_alert leaves of a thread.
LEMMA HandledFacts ==
    ASSUME TypeOK, NEW h \in Threads, Busy(h), NEW b \in BOOLEAN,
           thread' = Handled(h, b)
    PROVE  /\ thread' \in [Threads -> Thread]
           /\ thread'[h].payload = thread[h].payload /\ thread'[h].conn = thread[h].conn
           /\ thread'[h].next = Current(h) + 1
           /\ thread'[h].ok => thread[h].ok /\ b
           /\ \A g \in Threads \ {h} : thread'[g] = thread[g]
<1>1. thread \in [Threads -> Thread]
    BY ThreadType
<1>2. Current(h) + 1 \in Places
    BY BusyFacts, AlertFacts DEF Places
<1>3. Attempts \in 1..Attempts
    BY BridgeAssumption
<1>4. \A g \in Threads \ {h} : thread'[g] = thread[g]
    BY <1>1 DEF Handled
<1>5. /\ thread'[h].payload = thread[h].payload /\ thread'[h].conn = thread[h].conn
      /\ thread'[h].next = Current(h) + 1 /\ thread'[h].left = Attempts
    BY <1>1 DEF Handled, Thread
<1>6. thread'[h].ok = (thread[h].ok /\ b)
    BY <1>1 DEF Handled, Thread
<1>7. thread[h].ok \in BOOLEAN
    BY <1>1 DEF Thread
<1>8. (thread[h].ok /\ b) \in BOOLEAN
    BY <1>7, Zenon
<1>9. thread'[h] \in Thread
    BY <1>1, <1>2, <1>3, <1>8 DEF Handled, Thread
<1>10. thread' \in [Threads -> Thread]
    BY <1>1, <1>4, <1>9 DEF Handled
<1>11. thread'[h].ok => thread[h].ok /\ b
    BY <1>6, Zenon
<1>12. QED
    BY <1>4, <1>5, <1>10, <1>11

\* What a failed attempt leaves of a thread: a message given up fails the request.
LEMMA RetryFacts ==
    ASSUME TypeOK, NEW h \in Threads, Busy(h), Retry(h)
    PROVE  /\ thread' \in [Threads -> Thread]
           /\ thread'[h].payload = thread[h].payload
           /\ thread'[h].ok => thread[h].ok /\ thread'[h].next = thread[h].next
           /\ \A g \in Threads \ {h} : thread'[g] = thread[g]
<1>1. thread \in [Threads -> Thread]
    BY ThreadType
<1>2. CASE thread[h].left > 1
    <2>1. thread' = [thread EXCEPT ![h].left = @ - 1]
        BY <1>2 DEF Retry
    <2>2. thread[h].left - 1 \in 1..Attempts
        BY <1>1, <1>2, BridgeAssumption DEF Thread
    <2>3. thread'[h] \in Thread
        BY <1>1, <2>1, <2>2 DEF Thread
    <2>4. QED
        BY <1>1, <2>1, <2>3 DEF Thread
<1>3. CASE ~(thread[h].left > 1)
    <2> DEFINE b == FALSE
    <2>1. thread' = Handled(h, b)
        BY <1>3 DEF Retry
    <2>2. b \in BOOLEAN /\ ~b
        OBVIOUS
    <2> HIDE DEF b
    <2>3. /\ thread' \in [Threads -> Thread]
          /\ thread'[h].payload = thread[h].payload
          /\ thread'[h].ok => thread[h].ok /\ b
          /\ \A g \in Threads \ {h} : thread'[g] = thread[g]
        BY <2>1, <2>2, HandledFacts, Zenon
    <2>4. QED
        BY <2>2, <2>3, Zenon
<1>4. QED
    BY <1>2, <1>3

\* The type of the other variables, for the steps of a thread.
OtherTypes ==
    /\ status \in Payloads /\ told \in Payloads /\ reachable \in BOOLEAN
    /\ phone \in Payloads /\ delivered \in [AlertSet -> SUBSET Statuses]
    /\ faults \in 0..MaxFaults

LEMMA TypeParts == TypeOK <=> OtherTypes /\ thread \in [Threads -> Thread]
BY DEF TypeOK, OtherTypes, Thread, Payloads, Places

\* What ntfy takes keeps its type, and is added to what it has taken before.
LEMMA TakenFacts ==
    ASSUME TypeOK, NEW h \in Threads, Busy(h), Taken(h)
    PROVE  /\ phone' \in Payloads /\ delivered' \in [AlertSet -> SUBSET Statuses]
           /\ \A a \in AlertSet : delivered[a] \subseteq delivered'[a]
           /\ thread[h].payload[Message(h)] \in delivered'[Message(h)]
           /\ reachable' \in BOOLEAN
<1>1. Message(h) \in AlertSet
    BY BusyFacts
<1>2. thread[h].payload[Message(h)] \in Statuses
    BY <1>1, ThreadType DEF Thread, Payloads
<1>3. OtherTypes
    BY TypeParts
<1>4. QED
    BY <1>1, <1>2, <1>3 DEF Taken, OtherTypes, Payloads

LEMMA FaultType ==
    ASSUME TypeOK, NEW k, Fault(k)
    PROVE  faults' \in 0..MaxFaults
BY BridgeAssumption DEF TypeOK, Fault

\* Every step leaves every variable in its type.
LEMMA TypesKept ==
    ASSUME TypeOK, [Next]_vars
    PROVE  TypeOK'
<1> USE DEF amVars, ntfy
<1>1. OtherTypes /\ thread \in [Threads -> Thread]
    BY TypeParts
<1> SUFFICES OtherTypes' /\ thread' \in [Threads -> Thread]
    BY DEF TypeOK, OtherTypes, Thread, Payloads, Places
<1>2. ASSUME NEW a \in AlertSet, Fire(a) \/ Resolve(a)
      PROVE  OtherTypes' /\ thread' \in [Threads -> Thread]
    BY <1>1, <1>2 DEF Fire, Resolve, OtherTypes, Payloads, Statuses
<1>3. ASSUME NEW h \in Threads, Post(h)
      PROVE  OtherTypes' /\ thread' \in [Threads -> Thread]
    <2>1. Group \in Payloads
        BY <1>1 DEF Group, OtherTypes, Payloads, Statuses
    <2>2. [Free EXCEPT !.conn = "open", !.payload = Group] \in Thread
        BY <2>1, FreeType DEF Thread, Free
    <2>3. QED
        BY <1>1, <1>3, <2>2 DEF Post, OtherTypes
<1>4. ASSUME NEW h \in Threads, GiveUp(h)
      PROVE  OtherTypes' /\ thread' \in [Threads -> Thread]
    <2>1. thread' \in [Threads -> Thread]
        BY <1>1, <1>4 DEF GiveUp, Thread
    <2>2. QED
        BY <1>1, <1>4, <2>1, FaultType DEF GiveUp, OtherTypes
<1>5. ASSUME NEW h \in Threads, SendAnswered(h)
      PROVE  OtherTypes' /\ thread' \in [Threads -> Thread]
    <2>1. Busy(h) /\ UNCHANGED amVars
        BY <1>5 DEF SendAnswered
    <2>2. TRUE \in BOOLEAN /\ FALSE \in BOOLEAN
        OBVIOUS
    <2>3. CASE Taken(h) /\ thread' = Handled(h, TRUE) /\ NoFault
        <3>1. thread' \in [Threads -> Thread]
            BY <2>1, <2>2, <2>3, HandledFacts, Zenon
        <3>2. QED
            BY <1>1, <2>1, <2>3, <3>1, TakenFacts DEF OtherTypes, NoFault
    <2>4. CASE thread' = Handled(h, FALSE) /\ UNCHANGED ntfy /\ Fault("reject")
        <3>1. thread' \in [Threads -> Thread]
            BY <2>1, <2>2, <2>4, HandledFacts, Zenon
        <3>2. QED
            BY <1>1, <2>1, <2>4, <3>1, FaultType DEF OtherTypes
    <2>5. QED
        BY <1>5, <2>3, <2>4 DEF SendAnswered
<1>6. ASSUME NEW h \in Threads, SendFails(h)
      PROVE  OtherTypes' /\ thread' \in [Threads -> Thread]
    <2>1. Busy(h) /\ Retry(h) /\ UNCHANGED amVars
        BY <1>6 DEF SendFails
    <2>2. thread' \in [Threads -> Thread]
        BY <2>1, RetryFacts
    <2>3. CASE UNCHANGED ntfy /\ NoFault
        BY <1>1, <2>1, <2>2, <2>3 DEF OtherTypes, NoFault
    <2>4. CASE Taken(h) /\ Fault("lost")
        BY <1>1, <2>1, <2>2, <2>4, TakenFacts, FaultType DEF OtherTypes
    <2>5. QED
        BY <1>6, <2>3, <2>4 DEF SendFails
<1>7. ASSUME NEW h \in Threads, Respond(h)
      PROVE  OtherTypes' /\ thread' \in [Threads -> Thread]
    <2>1. thread[h].payload \in Payloads
        BY <1>1 DEF Thread
    <2>2. told' \in Payloads
        BY <1>1, <1>7, <2>1 DEF Respond, OtherTypes, Payloads
    <2>3. QED
        BY <1>1, <1>7, <2>2, FreeType DEF Respond, OtherTypes
<1>8. CASE Crash
    BY <1>1, <1>8, FreeType, FaultType DEF Crash, OtherTypes
<1>9. CASE Outage
    BY <1>1, <1>9, FaultType DEF Outage, OtherTypes
<1>10. CASE Recovery
    BY <1>1, <1>10 DEF Recovery, OtherTypes
<1>11. CASE UNCHANGED vars
    BY <1>1, <1>11 DEF vars, OtherTypes
<1>12. QED
    BY <1>2, <1>3, <1>4, <1>5, <1>6, <1>7, <1>8, <1>9, <1>10, <1>11
       DEF Next, Bridge, Quiet

LEMMA TypesInit == Init => TypeOK
<1>1. ASSUME Init PROVE OtherTypes /\ thread \in [Threads -> Thread]
    BY <1>1, FreeType, BridgeAssumption DEF Init, OtherTypes, Payloads, Statuses
<1>2. QED
    BY <1>1, TypeParts

\* Every reachable state of the bridge, Alertmanager and ntfy is well typed: a
\* thread never runs past the last alert of its payload nor below its last
\* attempt.
THEOREM BridgeTypes == Spec => []TypeOK
<1>1. TypeOK /\ [Next]_vars => TypeOK'
    BY TypesKept
<1>2. QED
    BY <1>1, TypesInit, PTL DEF Spec
-----------------------------------------------------------------------------
(* Delivery.                                                               *)

\* A request that has not failed has sent what it has passed of its payload.
SentOK ==
    \A h \in Threads : thread[h].ok =>
        \A k \in 1..Len(Alerts) :
            k < thread[h].next
            => thread[h].payload[Alerts[k]] \in delivered[Alerts[k]] \union {"none"}

\* Nothing that ntfy has taken is taken back.
LEMMA DeliveredGrows ==
    ASSUME TypeOK, [Next]_vars
    PROVE  \A a \in AlertSet : delivered[a] \subseteq delivered'[a]
<1>1. CASE UNCHANGED delivered
    BY <1>1
<1>2. ASSUME NEW h \in Threads, Busy(h), Taken(h)
      PROVE  \A a \in AlertSet : delivered[a] \subseteq delivered'[a]
    BY <1>2, TakenFacts
<1>3. QED
    BY <1>1, <1>2 DEF Next, Bridge, Fire, Resolve, Post, GiveUp, SendAnswered, SendFails,
       Respond, Crash, Outage, Recovery, Quiet, vars, ntfy

\* SentOK carries over to a thread that a step leaves alone, or whose request
\* fails or does not move on.
LEMMA SentCarries ==
    ASSUME TypeOK, SentOK, [Next]_vars, NEW g \in Threads,
           thread'[g].payload = thread[g].payload,
           thread'[g].ok => thread[g].ok /\ thread'[g].next = thread[g].next,
           NEW k \in 1..Len(Alerts), thread'[g].ok, k < thread'[g].next
    PROVE  thread'[g].payload[Alerts[k]] \in delivered'[Alerts[k]] \union {"none"}
<1>1. Alerts[k] \in AlertSet
    BY AlertFacts
<1>2. delivered[Alerts[k]] \subseteq delivered'[Alerts[k]]
    BY <1>1, DeliveredGrows
<1>3. thread[g].payload[Alerts[k]] \in delivered[Alerts[k]] \union {"none"}
    BY DEF SentOK
<1>4. QED
    BY <1>2, <1>3

\* A thread that serves nobody has nothing to answer for.
LEMMA FreshThread ==
    ASSUME NEW g \in Threads, thread'[g].next = 1, NEW k \in 1..Len(Alerts)
    PROVE  ~(k < thread'[g].next)
BY AlertFacts

LEMMA SentKept ==
    ASSUME TypeOK, SentOK, [Next]_vars
    PROVE  SentOK'
<1>1. SUFFICES ASSUME NEW g \in Threads, thread'[g].ok,
                      NEW k \in 1..Len(Alerts), k < thread'[g].next
               PROVE  thread'[g].payload[Alerts[k]] \in delivered'[Alerts[k]] \union {"none"}
    BY DEF SentOK
<1>2. thread \in [Threads -> Thread]
    BY ThreadType
<1>3. CASE thread'[g] = thread[g]
    BY <1>1, <1>3, SentCarries
<1>4. CASE thread'[g].next = 1
    BY <1>1, <1>4, FreshThread
<1>5. ASSUME NEW h \in Threads, Post(h)
      PROVE  thread'[g] = thread[g] \/ thread'[g].next = 1
    BY <1>2, <1>5 DEF Post, Free
<1>6. ASSUME NEW h \in Threads, GiveUp(h)
      PROVE  thread'[g].payload[Alerts[k]] \in delivered'[Alerts[k]] \union {"none"}
    <2>1. thread'[g].payload = thread[g].payload /\ thread'[g].next = thread[g].next
        BY <1>2, <1>6 DEF GiveUp, Thread
    <2>2. thread'[g].ok = thread[g].ok
        BY <1>2, <1>6 DEF GiveUp, Thread
    <2>3. thread'[g].ok => thread[g].ok
        BY <2>2, Zenon
    <2>4. QED
        BY <1>1, <2>1, <2>3, SentCarries
<1>7. ASSUME NEW h \in Threads, SendFails(h)
      PROVE  thread'[g].payload[Alerts[k]] \in delivered'[Alerts[k]] \union {"none"}
    <2>1. Busy(h) /\ Retry(h)
        BY <1>7 DEF SendFails
    <2>2. CASE g = h
        <3>1. /\ thread'[g].payload = thread[g].payload
              /\ thread'[g].ok => thread[g].ok /\ thread'[g].next = thread[g].next
            BY <2>1, <2>2, RetryFacts
        <3>2. QED
            BY <1>1, <3>1, SentCarries
    <2>3. CASE g # h
        BY <1>3, <2>1, <2>3, RetryFacts
    <2>4. QED
        BY <2>2, <2>3
<1>8. ASSUME NEW h \in Threads, SendAnswered(h)
      PROVE  thread'[g].payload[Alerts[k]] \in delivered'[Alerts[k]] \union {"none"}
    <2>1. PICK b \in BOOLEAN : /\ thread' = Handled(h, b)
                               /\ b => Taken(h)
        <3>1. TRUE \in BOOLEAN /\ FALSE \in BOOLEAN
            OBVIOUS
        <3>2. QED
            BY <1>8, <3>1, Zenon DEF SendAnswered
    <2>2. Busy(h)
        BY <1>8 DEF SendAnswered
    <2>3. /\ thread'[h].payload = thread[h].payload
          /\ thread'[h].next = Current(h) + 1
          /\ thread'[h].ok => thread[h].ok /\ b
          /\ \A f \in Threads \ {h} : thread'[f] = thread[f]
        BY <2>1, <2>2, HandledFacts, Zenon
    <2>4. CASE g # h
        BY <1>3, <2>3, <2>4
    <2>5. CASE g = h
        <3>1. thread[h].ok /\ Taken(h)
            BY <1>1, <2>1, <2>3, <2>5, Zenon
        <3>2. Current(h) \in 1..Len(Alerts) /\ thread[h].next \in 1..Current(h)
            BY <1>2, <2>2, BusyFacts, AlertFacts DEF Thread, Places
        <3>3. k \in Nat /\ k < Current(h) + 1
            BY <1>1, <2>3, <2>5, AlertFacts
        <3>4. CASE k = Current(h)
            BY <2>2, <2>3, <2>5, <3>1, <3>4, TakenFacts DEF Message
        <3>5. CASE k < Current(h) /\ ~(k < thread[h].next)
            <4>1. k \in thread[h].next..Current(h) - 1
                BY <3>2, <3>3, <3>5
            <4>2. QED
                BY <2>3, <2>5, <4>1, BusyFacts
        <3>6. CASE k < thread[h].next
            <4>1. thread[h].payload[Alerts[k]] \in delivered[Alerts[k]] \union {"none"}
                BY <3>1, <3>6 DEF SentOK
            <4>2. delivered[Alerts[k]] \subseteq delivered'[Alerts[k]]
                BY AlertFacts, DeliveredGrows
            <4>3. QED
                BY <2>3, <2>5, <4>1, <4>2
        <3>7. QED
            BY <3>2, <3>3, <3>4, <3>5, <3>6
    <2>6. QED
        BY <2>4, <2>5
<1>9. ASSUME NEW h \in Threads, Respond(h)
      PROVE  thread'[g] = thread[g] \/ thread'[g].next = 1
    BY <1>2, <1>9 DEF Respond, Free
<1>10. CASE Crash
    BY <1>4, <1>10 DEF Crash, Free
<1>11. CASE UNCHANGED thread
    BY <1>3, <1>11
<1>12. QED
    BY <1>3, <1>4, <1>5, <1>6, <1>7, <1>8, <1>9, <1>10, <1>11
       DEF Next, Bridge, Fire, Resolve, Outage, Recovery, Quiet, vars

\* A request that is answered with a 204 has sent its whole payload.
LEMMA AcceptedSent ==
    ASSUME TypeOK, SentOK, NEW h \in Threads, thread[h].conn # "none", ~Busy(h), Accepted(h),
           NEW a \in AlertSet, thread[h].payload[a] # "none"
    PROVE  thread[h].payload[a] \in delivered[a]
<1>1. PICK k \in 1..Len(Alerts) : a = Alerts[k]
    BY AlertFacts
<1>2. thread[h] \in Thread
    BY ThreadType
<1>3. Current(h) = Len(Alerts) + 1
    BY BusyFacts, AlertFacts DEF Busy, Places
<1>4. k < thread[h].next
    <2>1. thread[h].next \in Nat /\ k \in Nat /\ Len(Alerts) \in Nat
        BY <1>2, AlertFacts DEF Thread, Places
    <2>2. ~(k \in thread[h].next..Current(h) - 1)
        BY <1>1, BusyFacts
    <2>3. QED
        BY <1>3, <2>1, <2>2
<1>5. thread[h].ok
    BY DEF Accepted
<1>6. QED
    BY <1>1, <1>4, <1>5 DEF SentOK

LEMMA SentInit == Init => SentOK
<1>1. Init => \A h \in Threads : thread[h].next = 1
    BY DEF Init, Free
<1>2. QED
    BY <1>1, AlertFacts DEF SentOK

\* What Alertmanager believes told has been delivered, because no request is
\* answered with a 204 before everything it has passed was taken, and nothing
\* makes a failed request whole again.
THEOREM NothingLost == Spec => []ToldIsDelivered
<1> DEFINE Inv == TypeOK /\ SentOK /\ ToldIsDelivered
<1>1. Init => Inv
    BY TypesInit, SentInit DEF Init, ToldIsDelivered
<1>2. Inv /\ [Next]_vars => Inv'
    <2> SUFFICES ASSUME TypeOK, SentOK, ToldIsDelivered, [Next]_vars PROVE Inv'
        OBVIOUS
    <2>1. TypeOK' /\ SentOK'
        BY TypesKept, SentKept
    <2>2. \A a \in AlertSet : delivered[a] \subseteq delivered'[a]
        BY DeliveredGrows
    <2>3. ASSUME UNCHANGED told PROVE ToldIsDelivered'
        BY <2>2, <2>3 DEF ToldIsDelivered
    <2>4. ASSUME NEW h \in Threads, Respond(h)
          PROVE  ToldIsDelivered'
        <3>1. SUFFICES ASSUME NEW a \in AlertSet, told'[a] # "none"
                       PROVE  told'[a] \in delivered'[a]
            BY DEF ToldIsDelivered
        <3>2. CASE told'[a] = told[a]
            BY <2>2, <3>1, <3>2 DEF ToldIsDelivered
        <3>3. CASE told'[a] # told[a]
            <4>1. /\ thread[h].conn # "none" /\ ~Busy(h) /\ Accepted(h)
                  /\ thread[h].payload[a] # "none" /\ told'[a] = thread[h].payload[a]
                BY <2>4, <3>1, <3>3 DEF Respond
            <4>2. told'[a] \in delivered[a]
                BY <4>1, AcceptedSent
            <4>3. QED
                BY <2>2, <4>2
        <3>4. QED
            BY <3>2, <3>3
    <2>5. ToldIsDelivered'
        BY <2>3, <2>4 DEF Next, Bridge, Fire, Resolve, Post, GiveUp, SendAnswered,
           SendFails, Crash, Outage, Recovery, Quiet, vars, amVars
    <2>6. QED
        BY <2>1, <2>5
<1>3. QED
    BY <1>1, <1>2, PTL DEF Spec
-----------------------------------------------------------------------------
(* The order of the messages.                                              *)

LEMMA RankFacts ==
    /\ \A s \in Statuses : Rank(s) \in 0..2
    /\ Rank("none") = 0 /\ Rank("firing") = 1 /\ Rank("resolved") = 2
BY DEF Statuses, Rank

\* One request at a time is waited for.
OneWaiting ==
    \A g, h \in Threads : thread[g].conn = "open" /\ thread[h].conn = "open" => g = h

\* Statuses only advance: nothing a thread holds or the phone shows is ahead.
NothingAhead ==
    \A a \in AlertSet :
        /\ Rank(phone[a]) <= Rank(status[a])
        /\ \A h \in Threads : Rank(thread[h].payload[a]) <= Rank(status[a])

\* The request that is waited for is the newest: what it tells of an alert,
\* neither the phone nor another thread is ahead of.
NewestWaiting ==
    \A h \in Threads, a \in AlertSet :
        thread[h].conn = "open" /\ thread[h].payload[a] # "none" =>
            /\ Rank(phone[a]) <= Rank(thread[h].payload[a])
            /\ \A g \in Threads : Rank(thread[g].payload[a]) <= Rank(thread[h].payload[a])

OrderInv == OneWaiting /\ NothingAhead /\ NewestWaiting

\* What every step but a new request does to the threads, the statuses and the
\* phone.
ThreadsOn ==
    \A g \in Threads :
        /\ \/ thread'[g].payload = thread[g].payload
           \/ \A a \in AlertSet : thread'[g].payload[a] = "none"
        /\ thread'[g].conn = "open" =>
              thread[g].conn = "open" /\ thread'[g].payload = thread[g].payload

StatusOn == \A a \in AlertSet : Rank(status[a]) <= Rank(status'[a])

PhoneOn ==
    \A a \in AlertSet :
        phone'[a] = phone[a] \/ \E h \in Threads : phone'[a] = thread[h].payload[a]

LEMMA StepsOn ==
    ASSUME TypeOK, TypeOK', OrderInv, ThreadsOn, StatusOn, PhoneOn
    PROVE  OrderInv'
<1>1. /\ thread \in [Threads -> Thread] /\ thread' \in [Threads -> Thread]
      /\ status \in Payloads /\ status' \in Payloads /\ phone \in Payloads /\ phone' \in Payloads
    BY DEF TypeOK, Thread, Payloads, Places
<1>2. OneWaiting'
    BY DEF OneWaiting, OrderInv, ThreadsOn
<1>3. ASSUME NEW a \in AlertSet, NEW g \in Threads
      PROVE  /\ Rank(thread[g].payload[a]) \in 0..2 /\ Rank(thread'[g].payload[a]) \in 0..2
             /\ Rank(thread'[g].payload[a]) <= Rank(thread[g].payload[a])
    <2>1. thread[g].payload[a] \in Statuses /\ thread'[g].payload[a] \in Statuses
        BY <1>1 DEF Thread, Payloads
    <2>2. thread'[g].payload[a] = thread[g].payload[a] \/ thread'[g].payload[a] = "none"
        BY DEF ThreadsOn
    <2>3. QED
        BY <2>1, <2>2, RankFacts
<1>4. ASSUME NEW a \in AlertSet
      PROVE  /\ Rank(phone[a]) \in 0..2 /\ Rank(phone'[a]) \in 0..2
             /\ Rank(status[a]) \in 0..2 /\ Rank(status'[a]) \in 0..2
    <2>1. /\ phone[a] \in Statuses /\ phone'[a] \in Statuses
          /\ status[a] \in Statuses /\ status'[a] \in Statuses
        BY <1>1 DEF Payloads
    <2>2. QED
        BY <2>1, RankFacts
<1>5. NothingAhead'
    <2>1. SUFFICES ASSUME NEW a \in AlertSet
                   PROVE  /\ Rank(phone'[a]) <= Rank(status'[a])
                          /\ \A h \in Threads : Rank(thread'[h].payload[a]) <= Rank(status'[a])
        BY DEF NothingAhead
    <2>2. /\ Rank(phone[a]) <= Rank(status[a]) /\ Rank(status[a]) <= Rank(status'[a])
          /\ \A h \in Threads : Rank(thread[h].payload[a]) <= Rank(status[a])
        BY DEF OrderInv, NothingAhead, StatusOn
    <2>3. Rank(phone'[a]) <= Rank(status[a])
        BY <2>2 DEF PhoneOn
    <2>4. QED
        BY <1>3, <1>4, <2>2, <2>3
<1>6. NewestWaiting'
    <2>1. SUFFICES ASSUME NEW h \in Threads, NEW a \in AlertSet,
                          thread'[h].conn = "open", thread'[h].payload[a] # "none"
                   PROVE  /\ Rank(phone'[a]) <= Rank(thread'[h].payload[a])
                          /\ \A g \in Threads :
                                Rank(thread'[g].payload[a]) <= Rank(thread'[h].payload[a])
        BY DEF NewestWaiting
    <2>2. thread[h].conn = "open" /\ thread'[h].payload = thread[h].payload
        BY <2>1 DEF ThreadsOn
    <2>3. /\ Rank(phone[a]) <= Rank(thread[h].payload[a])
          /\ \A g \in Threads : Rank(thread[g].payload[a]) <= Rank(thread[h].payload[a])
        BY <2>1, <2>2 DEF OrderInv, NewestWaiting
    <2>4. Rank(phone'[a]) <= Rank(thread[h].payload[a])
        BY <2>3 DEF PhoneOn
    <2>5. QED
        BY <1>3, <2>2, <2>3, <2>4
<1>7. QED
    BY <1>2, <1>5, <1>6 DEF OrderInv

\* A new request tells the statuses as they are.
LEMMA PostOrdered ==
    ASSUME TypeOK, OrderInv, NEW h \in Threads, Post(h)
    PROVE  OrderInv'
<1>1. thread \in [Threads -> Thread] /\ status \in Payloads /\ phone \in Payloads
    BY DEF TypeOK, Thread, Payloads, Places
<1>2. /\ thread'[h].payload = Group /\ thread'[h].conn = "open"
      /\ \A g \in Threads \ {h} : thread'[g] = thread[g] /\ thread[g].conn # "open"
      /\ UNCHANGED <<status, phone>>
    BY <1>1 DEF Post, Free, Waiting, amVars, ntfy
<1>3. \A a \in AlertSet : Group[a] = status[a] \/ Group[a] = "none"
    BY DEF Group
<1>4. \A a \in AlertSet : Rank(status[a]) \in 0..2 /\ Rank(Group[a]) <= Rank(status[a])
    BY <1>1, <1>3, RankFacts DEF Payloads
<1>5. OneWaiting'
    BY <1>2 DEF OneWaiting
<1>6. NothingAhead /\ NothingAhead'
    BY <1>2, <1>4 DEF OrderInv, NothingAhead
<1>7. NewestWaiting'
    <2>1. SUFFICES ASSUME NEW a \in AlertSet, Group[a] # "none"
                   PROVE  /\ Rank(phone'[a]) <= Rank(Group[a])
                          /\ \A g \in Threads : Rank(thread'[g].payload[a]) <= Rank(Group[a])
        BY <1>2 DEF NewestWaiting
    <2>2. Group[a] = status'[a]
        BY <1>2, <1>3, <2>1
    <2>3. QED
        BY <1>6, <2>2 DEF NothingAhead
<1>8. QED
    BY <1>5, <1>6, <1>7 DEF OrderInv

\* A busy thread stands at an alert its payload holds.
LEMMA BusyMessage ==
    ASSUME TypeOK, NEW h \in Threads, Busy(h)
    PROVE  thread[h].payload[Message(h)] # "none"
<1> DEFINE from == thread[h].next
           rest == {k \in from..Len(Alerts) : thread[h].payload[Alerts[k]] # "none"}
<1>1. Len(Alerts) \in Nat /\ from \in Nat
    BY ThreadType, AlertFacts DEF Thread, Places
<1>2. Current(h) = IF rest = {} THEN Len(Alerts) + 1 ELSE CHOOSE k \in rest : \A l \in rest : k <= l
    BY DEF Current, NextAlert
<1>3. rest # {}
    BY <1>1, <1>2 DEF Busy
<1>4. rest \in SUBSET Nat
    BY <1>1
<1>5. \E x \in rest : \A y \in rest : x <= y
    BY <1>3, <1>4, Least
<1>6. Current(h) \in rest
    BY <1>2, <1>3, <1>5
<1>7. QED
    BY <1>6 DEF Message

\* A step of a thread moves that thread and no other.
LEMMA SendMoves ==
    ASSUME TypeOK, NEW h \in Threads, SendAnswered(h) \/ SendFails(h)
    PROVE  /\ Busy(h) /\ thread'[h] # thread[h] /\ ThreadsOn /\ status' = status
           /\ phone' = phone \/ Taken(h)
<1>1. thread \in [Threads -> Thread] /\ Busy(h)
    BY ThreadType DEF SendAnswered, SendFails
<1>2. Current(h) \in Int /\ thread[h].next \in Int /\ thread[h].next <= Current(h)
    BY <1>1, BusyFacts, AlertFacts DEF Thread, Places
<1>3. ASSUME NEW b \in BOOLEAN, thread' = Handled(h, b)
      PROVE  thread'[h] # thread[h] /\ ThreadsOn
    <2>1. /\ thread'[h].payload = thread[h].payload /\ thread'[h].conn = thread[h].conn
          /\ thread'[h].next = Current(h) + 1
          /\ \A g \in Threads \ {h} : thread'[g] = thread[g]
        BY <1>1, <1>3, HandledFacts, Zenon
    <2>2. thread'[h].next # thread[h].next
        BY <1>2, <2>1
    <2>3. QED
        BY <2>1, <2>2 DEF ThreadsOn
<1>4. CASE thread[h].left > 1 /\ thread' = [thread EXCEPT ![h].left = @ - 1]
    <2>1. /\ thread'[h].left = thread[h].left - 1 /\ thread[h].left \in Int
          /\ thread'[h].payload = thread[h].payload /\ thread'[h].conn = thread[h].conn
          /\ \A g \in Threads \ {h} : thread'[g] = thread[g]
        BY <1>1, <1>4, BridgeAssumption DEF Thread
    <2>2. thread'[h].left # thread[h].left
        BY <2>1
    <2>3. thread'[h] # thread[h] /\ ThreadsOn
        BY <2>1, <2>2 DEF ThreadsOn
    <2>4. QED
        BY <1>1, <2>3 DEF SendAnswered, SendFails, amVars, ntfy
<1>5. CASE thread' = Handled(h, TRUE) \/ thread' = Handled(h, FALSE)
    <2>1. TRUE \in BOOLEAN /\ FALSE \in BOOLEAN
        OBVIOUS
    <2>2. thread'[h] # thread[h] /\ ThreadsOn
        BY <1>3, <1>5, <2>1, Zenon
    <2>3. QED
        BY <1>1, <2>2 DEF SendAnswered, SendFails, amVars, ntfy
<1>6. QED
    BY <1>4, <1>5 DEF SendAnswered, SendFails, Retry

LEMMA TakenPhone ==
    ASSUME TypeOK, NEW h \in Threads, Taken(h), NEW a \in AlertSet, phone'[a] # phone[a]
    PROVE  a = Message(h) /\ phone'[a] = thread[h].payload[a]
BY DEF Taken, TypeOK

LEMMA OrderKeeps ==
    ASSUME TypeOK, OrderInv, [Next]_vars
    PROVE  OrderInv'
<1>1. TypeOK'
    BY TypesKept
<1>2. thread \in [Threads -> Thread] /\ status \in Payloads
    BY DEF TypeOK, Thread, Payloads, Places
<1>3. ASSUME status' = status PROVE StatusOn
    BY <1>2, <1>3, RankFacts DEF StatusOn, Payloads
<1>4. ASSUME phone' = phone PROVE PhoneOn
    BY <1>4 DEF PhoneOn
<1>5. ASSUME NEW h \in Threads, SendAnswered(h) \/ SendFails(h)
      PROVE  OrderInv'
    <2>1. PhoneOn
        BY <1>4, <1>5, SendMoves, TakenPhone DEF PhoneOn
    <2>2. QED
        BY <1>1, <1>3, <1>5, <2>1, SendMoves, StepsOn
<1>6. ASSUME NEW h \in Threads, Post(h)
      PROVE  OrderInv'
    BY <1>6, PostOrdered
<1>7. ASSUME NEW h \in Threads, GiveUp(h) \/ Respond(h)
      PROVE  OrderInv'
    <2>1. /\ \A g \in Threads \ {h} : thread'[g] = thread[g]
          /\ thread'[h].conn # "open"
          /\ \/ thread'[h].payload = thread[h].payload
             \/ \A a \in AlertSet : thread'[h].payload[a] = "none"
        BY <1>2, <1>7 DEF GiveUp, Respond, Thread, Free
    <2>2. ThreadsOn
        BY <2>1 DEF ThreadsOn
    <2>3. status' = status /\ phone' = phone
        BY <1>7 DEF GiveUp, Respond, amVars, ntfy
    <2>4. QED
        BY <1>1, <1>3, <1>4, <2>2, <2>3, StepsOn
<1>8. CASE Crash
    <2>1. ThreadsOn /\ status' = status /\ phone' = phone
        BY <1>8 DEF Crash, ThreadsOn, Free, amVars, ntfy
    <2>2. QED
        BY <1>1, <1>3, <1>4, <2>1, StepsOn
<1>9. ASSUME NEW a \in AlertSet, Fire(a) \/ Resolve(a)
      PROVE  OrderInv'
    <2>1. StatusOn
        BY <1>2, <1>9, RankFacts DEF Fire, Resolve, StatusOn, Payloads
    <2>2. ThreadsOn /\ phone' = phone
        BY <1>9 DEF Fire, Resolve, ntfy, ThreadsOn
    <2>3. QED
        BY <1>1, <1>4, <2>1, <2>2, StepsOn
<1>10. CASE UNCHANGED <<status, thread, phone>>
    BY <1>10 DEF OrderInv, OneWaiting, NothingAhead, NewestWaiting
<1>11. QED
    BY <1>5, <1>6, <1>7, <1>8, <1>9, <1>10
       DEF Next, Bridge, Outage, Recovery, Quiet, vars, amVars, ntfy

LEMMA OrderInit == Init => OrderInv
BY RankFacts DEF Init, OrderInv, OneWaiting, NothingAhead, NewestWaiting, Free

\* A resolved alert is not shown to fire again by the request that Alertmanager
\* waits for: only a thread it has given up can send an old status late.
THEOREM InOrder == Spec => OrderKept
<1>1. TypeOK /\ OrderInv /\ [Next]_vars =>
        [\A a \in AlertSet :
            Rank(phone'[a]) < Rank(phone[a])
            => \E h \in Threads : thread[h].conn = "gone" /\ thread'[h] # thread[h]]_vars
    <2> SUFFICES ASSUME TypeOK, OrderInv, [Next]_vars, NEW a \in AlertSet,
                        Rank(phone'[a]) < Rank(phone[a])
                 PROVE  \E h \in Threads : thread[h].conn = "gone" /\ thread'[h] # thread[h]
        OBVIOUS
    <2>1. TypeOK'
        BY TypesKept
    <2>2. phone[a] \in Statuses /\ phone'[a] \in Statuses
        BY <2>1 DEF TypeOK
    <2>3. Rank(phone[a]) \in 0..2 /\ Rank(phone'[a]) \in 0..2
        BY <2>2, RankFacts
    <2>4. phone'[a] # phone[a]
        BY <2>3
    <2>5. PICK h \in Threads : SendAnswered(h) \/ SendFails(h)
        BY <2>4 DEF Next, Bridge, Fire, Resolve, Post, GiveUp, Respond, Crash, Outage, Recovery,
           Quiet, vars, amVars, ntfy
    <2>6. Busy(h) /\ thread'[h] # thread[h] /\ Taken(h)
        BY <2>4, <2>5, SendMoves
    <2>7. a = Message(h) /\ phone'[a] = thread[h].payload[a]
        BY <2>4, <2>6, TakenPhone
    <2>8. thread[h].payload[a] # "none"
        BY <2>6, <2>7, BusyMessage
    <2>9. thread[h].conn # "open"
        BY <2>3, <2>7, <2>8 DEF OrderInv, NewestWaiting
    <2>10. thread[h].conn \in {"open", "gone"}
        BY <2>6, ThreadType DEF Busy, Thread
    <2>11. QED
        BY <2>6, <2>9, <2>10
<1>2. QED
    BY <1>1, OrderInit, OrderKeeps, BridgeTypes, PTL DEF Spec, OrderKept

-----------------------------------------------------------------------------
(* The channel the bridge implements.                                      *)

\* A status that is not ahead of another is one that an alert had before it.
LEMMA HadFacts ==
    ASSUME NEW s \in Statuses, NEW t \in Statuses, Rank(s) <= Rank(t)
    PROVE  s \in Channel!Had(t)
BY DEF Statuses, Rank, Channel!Had, Channel!Statuses

\* What Alertmanager takes for told is ahead neither of the status nor of what
\* the request it waits for tells.
ToldBehind ==
    \A a \in AlertSet :
        /\ Rank(told[a]) <= Rank(status[a])
        /\ \A h \in Threads :
              thread[h].conn = "open" /\ thread[h].payload[a] # "none"
              => Rank(told[a]) <= Rank(thread[h].payload[a])

\* The steps that tell Alertmanager nothing and post nothing.
LEMMA ToldOn ==
    ASSUME TypeOK, TypeOK', ToldBehind, ThreadsOn, StatusOn, told' = told
    PROVE  ToldBehind'
<1>1. SUFFICES ASSUME NEW a \in AlertSet
               PROVE  /\ Rank(told[a]) <= Rank(status'[a])
                      /\ \A h \in Threads :
                            thread'[h].conn = "open" /\ thread'[h].payload[a] # "none"
                            => Rank(told[a]) <= Rank(thread'[h].payload[a])
    BY DEF ToldBehind
<1>2. told[a] \in Statuses /\ status[a] \in Statuses /\ status'[a] \in Statuses
    BY DEF TypeOK
<1>3. Rank(told[a]) \in 0..2 /\ Rank(status[a]) \in 0..2 /\ Rank(status'[a]) \in 0..2
    BY <1>2, RankFacts
<1>4. Rank(told[a]) <= Rank(status'[a])
    BY <1>3 DEF ToldBehind, StatusOn
<1>5. QED
    BY <1>4 DEF ToldBehind, ThreadsOn

\* An answer makes told what the request told, which is not ahead of the status.
LEMMA RespondTold ==
    ASSUME TypeOK, OrderInv, ToldBehind, NEW h \in Threads, Respond(h)
    PROVE  /\ \A a \in AlertSet : Rank(told'[a]) <= Rank(status[a])
           /\ \A g \in Threads : thread'[g].conn = "open" =>
                  told' = told /\ thread'[g] = thread[g]
           /\ UNCHANGED status
<1>1. thread \in [Threads -> Thread]
    BY ThreadType
<1>2. thread'[h].conn = "none" /\ \A g \in Threads \ {h} : thread'[g] = thread[g]
    BY <1>1 DEF Respond, Free
<1>3. thread[h].conn # "open" => told' = told
    BY DEF Respond
<1>4. ASSUME NEW a \in AlertSet PROVE told'[a] = told[a] \/ told'[a] = thread[h].payload[a]
    BY DEF Respond
<1>5. \A a \in AlertSet : Rank(told'[a]) <= Rank(status[a])
    BY <1>4 DEF ToldBehind, OrderInv, NothingAhead
<1>6. QED
    BY <1>2, <1>3, <1>5 DEF Respond, OrderInv, OneWaiting

LEMMA ToldKept ==
    ASSUME TypeOK, OrderInv, ToldBehind, [Next]_vars
    PROVE  ToldBehind'
<1>1. TypeOK'
    BY TypesKept
<1>2. thread \in [Threads -> Thread] /\ status \in Payloads
    BY DEF TypeOK, Thread, Payloads, Places
<1>3. ASSUME status' = status PROVE StatusOn
    BY <1>2, <1>3, RankFacts DEF StatusOn, Payloads
<1>4. ASSUME NEW h \in Threads, SendAnswered(h) \/ SendFails(h)
      PROVE  ToldBehind'
    <2>1. told' = told
        BY <1>4 DEF SendAnswered, SendFails, amVars
    <2>2. QED
        BY <1>1, <1>3, <1>4, <2>1, SendMoves, ToldOn
<1>5. ASSUME NEW h \in Threads, Post(h)
      PROVE  ToldBehind'
    <2>1. /\ thread'[h].payload = Group /\ UNCHANGED <<status, told>>
          /\ \A g \in Threads \ {h} : thread'[g].conn # "open"
        BY <1>2, <1>5 DEF Post, Free, Waiting, amVars
    <2>2. \A a \in AlertSet : Group[a] = status[a] \/ Group[a] = "none"
        BY DEF Group
    <2>3. QED
        BY <2>1, <2>2 DEF ToldBehind
<1>6. ASSUME NEW h \in Threads, GiveUp(h)
      PROVE  ToldBehind'
    <2>1. /\ \A g \in Threads \ {h} : thread'[g] = thread[g]
          /\ thread'[h].conn # "open" /\ UNCHANGED <<status, told>>
        BY <1>2, <1>6 DEF GiveUp, Thread, amVars
    <2>2. QED
        BY <2>1 DEF ToldBehind
<1>7. ASSUME NEW h \in Threads, Respond(h)
      PROVE  ToldBehind'
    BY <1>7, RespondTold DEF ToldBehind
<1>8. CASE Crash
    <2>1. (\A g \in Threads : thread'[g].conn # "open") /\ UNCHANGED <<status, told>>
        BY <1>8 DEF Crash, Free, amVars
    <2>2. QED
        BY <2>1 DEF ToldBehind
<1>9. ASSUME NEW a \in AlertSet, Fire(a) \/ Resolve(a)
      PROVE  ToldBehind'
    <2>1. StatusOn
        BY <1>2, <1>9, RankFacts DEF Fire, Resolve, StatusOn, Payloads
    <2>2. ThreadsOn /\ told' = told
        BY <1>9 DEF Fire, Resolve, ThreadsOn
    <2>3. QED
        BY <1>1, <2>1, <2>2, ToldOn
<1>10. CASE UNCHANGED <<status, told, thread>>
    BY <1>10 DEF ToldBehind
<1>11. QED
    BY <1>4, <1>5, <1>6, <1>7, <1>8, <1>9, <1>10
       DEF Next, Bridge, Outage, Recovery, Quiet, vars, amVars

channelVars == <<status, told, delivered>>

\* A message that ntfy takes tells a status the alert has had.
LEMMA ChannelDeliver ==
    ASSUME TypeOK, OrderInv, NEW h \in Threads, Busy(h), Taken(h), UNCHANGED amVars
    PROVE  Channel!Next
<1> DEFINE a == Message(h)
           s == thread[h].payload[a]
<1>1. a \in AlertSet
    BY BusyFacts
<1>2. s \in Statuses \ {"none"} /\ status[a] \in Statuses
    BY <1>1, BusyMessage, ThreadType DEF Thread, Payloads, TypeOK
<1>3. s \in Channel!Had(status[a])
    BY <1>1, <1>2, HadFacts DEF OrderInv, NothingAhead
<1>4. Channel!Deliver(a, s)
    BY <1>2, <1>3 DEF Taken, Channel!Deliver, amVars
<1>5. QED
    BY <1>1, <1>2, <1>4 DEF Channel!Next, Channel!Statuses, Statuses

\* A 204 confirms what was taken, and nothing older than what was told before.
LEMMA ChannelConfirm ==
    ASSUME TypeOK, SentOK, OrderInv, ToldBehind, NEW h \in Threads, Respond(h)
    PROVE  [Channel!Next]_channelVars
<1>1. UNCHANGED <<status, delivered>>
    BY DEF Respond, ntfy
<1>2. CASE told' = told
    BY <1>1, <1>2 DEF channelVars
<1>3. CASE thread[h].conn = "open" /\ Accepted(h)
    <2> DEFINE new == [a \in AlertSet |-> IF thread[h].payload[a] = "none" THEN told[a]
                                          ELSE thread[h].payload[a]]
    <2>1. told' = new
        BY <1>3 DEF Respond
    <2>2. thread[h].payload \in Payloads /\ told \in Payloads
        BY ThreadType DEF Thread, TypeOK, Payloads
    <2>3. new \in [AlertSet -> Statuses]
        BY <2>2 DEF Payloads
    <2>4. ASSUME NEW a \in AlertSet
          PROVE  new[a] = told[a] \/ (new[a] \in delivered[a] /\ told[a] \in Channel!Had(new[a]))
        <3>1. CASE thread[h].payload[a] = "none"
            BY <3>1
        <3>2. CASE thread[h].payload[a] # "none"
            <4>1. thread[h].payload[a] \in delivered[a]
                BY <1>3, <3>2, AcceptedSent DEF Respond
            <4>2. Rank(told[a]) <= Rank(thread[h].payload[a])
                BY <1>3, <3>2 DEF ToldBehind
            <4>3. told[a] \in Channel!Had(thread[h].payload[a])
                BY <2>2, <4>2, HadFacts DEF Payloads
            <4>4. QED
                BY <3>2, <4>1, <4>3
        <3>3. QED
            BY <3>1, <3>2
    <2>5. Channel!Confirm(new)
        BY <1>1, <2>1, <2>4 DEF Channel!Confirm
    <2>6. QED
        BY <2>3, <2>5 DEF Channel!Next, Channel!Statuses, Statuses
<1>4. QED
    BY <1>2, <1>3 DEF Respond

LEMMA ChannelNext ==
    ASSUME TypeOK, SentOK, OrderInv, ToldBehind, [Next]_vars
    PROVE  [Channel!Next]_channelVars
<1>1. ASSUME NEW a \in AlertSet, Fire(a) \/ Resolve(a)
      PROVE  Channel!Next
    <2>1. Channel!Change(a)
        BY <1>1 DEF Fire, Resolve, Channel!Change, ntfy, TypeOK
    <2>2. QED
        BY <2>1 DEF Channel!Next
<1>2. ASSUME NEW h \in Threads, SendAnswered(h) \/ SendFails(h)
      PROVE  [Channel!Next]_channelVars
    <2>1. CASE Taken(h)
        BY <1>2, <2>1, ChannelDeliver DEF SendAnswered, SendFails
    <2>2. CASE UNCHANGED ntfy
        BY <1>2, <2>2 DEF SendAnswered, SendFails, ntfy, amVars, channelVars
    <2>3. QED
        BY <1>2, <2>1, <2>2 DEF SendAnswered, SendFails
<1>3. ASSUME NEW h \in Threads, Respond(h)
      PROVE  [Channel!Next]_channelVars
    BY <1>3, ChannelConfirm
<1>4. CASE UNCHANGED channelVars
    BY <1>4
<1>5. QED
    BY <1>1, <1>2, <1>3, <1>4
       DEF Next, Bridge, Post, GiveUp, Crash, Outage, Recovery, Quiet, vars, amVars, ntfy,
           channelVars

\* The bridge implements the channel, for any group, any number of threads and
\* attempts and any faults: it tells no status the alert has not had, and what
\* Alertmanager takes for told was taken by ntfy and only moves on.
THEOREM BridgeImplementsChannel == Spec => ImplementsChannel
<1> DEFINE Inv == TypeOK /\ SentOK /\ OrderInv /\ ToldBehind
<1>1. Init => Inv /\ Channel!Init
    <2> SUFFICES ASSUME Init PROVE Inv /\ Channel!Init
        OBVIOUS
    <2>1. TypeOK /\ SentOK /\ OrderInv
        BY TypesInit, SentInit, OrderInit
    <2>2. ToldBehind
        BY RankFacts DEF Init, ToldBehind, Free
    <2>3. QED
        BY <2>1, <2>2 DEF Init, Channel!Init
<1>2. Inv /\ [Next]_vars => Inv'
    BY TypesKept, SentKept, OrderKeeps, ToldKept
<1>3. Inv /\ [Next]_vars => [Channel!Next]_<<status, told, delivered>>
    BY ChannelNext DEF channelVars
<1>4. QED
    BY <1>1, <1>2, <1>3, PTL DEF Spec, ImplementsChannel, Channel!Spec
=============================================================================
