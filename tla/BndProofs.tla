------------------------------ MODULE BndProofs ------------------------------
(***************************************************************************)
(* Theorems about the machines that watch B&D calls, for any number of     *)
(* processes and calls and any delays: what a monitor shows was waiting,   *)
(* its logins keep their distance and it implements BndObserver; a call is *)
(* emailed once; the recorded waiting periods were observed; and B&D is    *)
(* open when the hours it published say so.                                *)
(***************************************************************************)
EXTENDS BndCalls, BndOpening, FiniteSetTheorems, SequenceTheorems, WellFoundedInduction,
        TLAPS

-----------------------------------------------------------------------------
(***************************************************************************)
(* The monitor                                                             *)
(***************************************************************************)

\* A monitor, the end of its longest Retry-After and its last rejected login.  A request is
\* within its time; the answer was read since it began, and what is shown since one request
\* before it was applied; nothing is asked before the delays are over, and a monitor that
\* asks, or has a session to ask with, has waited out its rejection.
Keeps(m, retryAt, refusedAt) ==
    /\ m.pc \in {"login", "read", "answer"} => m.asked <= clock /\ clock <= m.asked + RequestTime
    /\ m.pc = "answer" =>
          \A o \in Orders : m.answer[o] = "waiting" => lastWaiting[o] >= m.asked
    /\ m.pc \notin {"answer", "snapshot"} => m.answer = [o \in Orders |-> "absent"]
    /\ \A o \in m.pendingOrders : lastWaiting[o] >= m.lastSuccessAt - RequestTime
    /\ retryAt <= clock \/ retryAt <= m.notBefore
    /\ m.pc # "idle" => retryAt <= clock
    /\ \/ refusedAt = Never
       \/ refusedAt + MaxRetry <= clock
       \/ refusedAt + MaxRetry <= m.notBefore
    /\ m.pc # "idle" \/ m.token = TRUE => refusedAt = Never \/ refusedAt + MaxRetry <= clock

\* No delay is longer than the longest of the schedule and the upstream.
Bounded(m) == \E d \in {Poll, MaxRetry} \cup RetryAfters : m.notBefore <= clock + d

MonitorInv ==
    /\ MonitorTypeOK
    /\ \A o \in Orders : lastWaiting[o] <= clock /\ (list[o] = "waiting" => lastWaiting[o] = clock)
    /\ \A p \in Processes : Keeps(mon[p], deadline[p], rejected[p])

LEMMA NewMonitorKeeps ==
    /\ NewMonitor \in Monitor /\ NewMonitor.pc = "idle" /\ NewMonitor.notBefore = 0
    /\ NewMonitor.answer = [o \in Orders |-> "absent"]
    /\ clock \in Nat => Keeps(NewMonitor, 0, Never) /\ Bounded(NewMonitor)
<1>1. /\ NewMonitor \in Monitor /\ NewMonitor.pc = "idle" /\ NewMonitor.notBefore = 0
      /\ NewMonitor.answer = [o \in Orders |-> "absent"] /\ NewMonitor.pendingOrders = {}
  BY DEF NewMonitor, Monitor, OrderStates, Never
<1>2. ASSUME clock \in Nat PROVE Keeps(NewMonitor, 0, Never)
  BY <1>1, <1>2 DEF Keeps
<1>3. ASSUME clock \in Nat PROVE Bounded(NewMonitor)
  <2>1. Poll \in Nat
    BY MonitorAssumption
  <2>2. NewMonitor.notBefore <= clock + Poll
    BY <1>1, <1>3, <2>1
  <2> QED
    BY <2>2 DEF Bounded
<1> QED
  BY <1>1, <1>2, <1>3

LEMMA MonitorBegins == MonitorInit => MonitorInv
<1> SUFFICES ASSUME MonitorInit
             PROVE  MonitorInv
  OBVIOUS
<1> USE DEF MonitorInit
<1>1. clock \in 0 .. MaxTime /\ clock \in Nat
  BY MonitorAssumption
<1>2. MonitorTypeOK
  BY <1>1, NewMonitorKeeps DEF MonitorTypeOK, OrderStates, Never, Bounded
<1>3. \A p \in Processes : Keeps(mon[p], deadline[p], rejected[p])
  BY <1>1, NewMonitorKeeps
<1> QED
  BY <1>2, <1>3 DEF MonitorInv, Never

LEMMA Values ==
    ASSUME MonitorInv
    PROVE  /\ clock \in Nat /\ Poll \in Nat /\ ActivePoll \in Nat /\ MaxRetry \in Nat
           /\ RequestTime \in Nat /\ Poll <= MaxRetry /\ ActivePoll <= Poll
           /\ \A p \in Processes :
                 /\ mon[p] \in Monitor /\ deadline[p] \in Nat /\ rejected[p] \in Int
                 /\ Keeps(mon[p], deadline[p], rejected[p]) /\ Bounded(mon[p])
           /\ \A o \in Orders : lastWaiting[o] \in Int /\ list[o] \in OrderStates
BY MonitorAssumption DEF MonitorInv, MonitorTypeOK, Bounded

\* A step of one monitor.
LEMMA OneMonitor ==
    ASSUME MonitorInv, NEW p \in Processes, NEW m \in Monitor, mon' = [mon EXCEPT ![p] = m],
           UNCHANGED <<clock, list, lastWaiting>>,
           NEW d \in Nat, deadline' = [deadline EXCEPT ![p] = d],
           NEW r \in Int, rejected' = [rejected EXCEPT ![p] = r],
           Keeps(m, d, r), Bounded(m)
    PROVE  MonitorInv'
<1>1. /\ mon'[p] = m /\ deadline'[p] = d /\ rejected'[p] = r
      /\ \A q \in Processes : q # p =>
            mon'[q] = mon[q] /\ deadline'[q] = deadline[q] /\ rejected'[q] = rejected[q]
  BY DEF MonitorInv, MonitorTypeOK
<1>2. \A q \in Processes : Keeps(mon[q], deadline[q], rejected[q])' /\ Bounded(mon[q])'
  <2> TAKE q \in Processes
  <2>1. CASE q = p
    BY <1>1, <2>1 DEF Keeps, Bounded
  <2>2. CASE q # p
    <3>1. Keeps(mon[q], deadline[q], rejected[q]) /\ Bounded(mon[q])
      BY Values
    <3> QED
      BY <1>1, <2>2, <3>1 DEF Keeps, Bounded
  <2> QED
    BY <2>1, <2>2
<1>3. mon' \in [Processes -> Monitor] /\ deadline' \in [Processes -> Nat]
      /\ rejected' \in [Processes -> Int]
  BY DEF MonitorInv, MonitorTypeOK
<1>4. MonitorTypeOK'
  BY <1>2, <1>3 DEF MonitorInv, MonitorTypeOK, Bounded
<1> QED
  BY <1>2, <1>4 DEF MonitorInv

\* What ends a request.
LEMMA IdleKeeps ==
    ASSUME MonitorInv, NEW m \in Monitor, NEW d \in Nat, NEW r \in Int, Keeps(m, d, r), Bounded(m)
    PROVE  /\ Idle(m) \in Monitor /\ Keeps(Idle(m), d, r) /\ Bounded(Idle(m))
           /\ Idle(m).pc = "idle" /\ Idle(m).token = m.token
           /\ Idle(m).answer = [o \in Orders |-> "absent"]
           /\ Idle(m).pendingOrders = m.pendingOrders /\ Idle(m).lastSuccessAt = m.lastSuccessAt
           /\ Paused(m) \in Monitor /\ Keeps(Paused(m), d, r) /\ Bounded(Paused(m))
<1>1. /\ Idle(m) \in Monitor /\ Idle(m).pc = "idle" /\ Idle(m).token = m.token
      /\ Idle(m).answer = [o \in Orders |-> "absent"]
      /\ Idle(m).pendingOrders = m.pendingOrders /\ Idle(m).lastSuccessAt = m.lastSuccessAt
      /\ Idle(m).notBefore = m.notBefore
  BY NewMonitorKeeps DEF Idle, Monitor, OrderStates
<1>2. /\ Paused(m) \in Monitor /\ Paused(m).pc = "idle" /\ Paused(m).token = m.token
      /\ Paused(m).answer = [o \in Orders |-> "absent"]
      /\ Paused(m).pendingOrders = m.pendingOrders /\ Paused(m).lastSuccessAt = m.lastSuccessAt
      /\ Paused(m).notBefore = m.notBefore
  BY <1>1 DEF Paused, Monitor
<1>3. Keeps(Idle(m), d, r) /\ Bounded(Idle(m))
  BY <1>1 DEF Keeps, Bounded
<1>4. Keeps(Paused(m), d, r) /\ Bounded(Paused(m))
  BY <1>2 DEF Keeps, Bounded
<1> QED
  BY <1>1, <1>2, <1>3, <1>4

\* What begins one, once the delays are over.
LEMMA RequestKeeps ==
    ASSUME MonitorInv, NEW m \in Monitor, NEW d \in Nat, NEW r \in Int, Keeps(m, d, r), Bounded(m),
           d <= clock, r = Never \/ r + MaxRetry <= clock,
           NEW pc \in {"login", "read"}
    PROVE  Request(m, pc) \in Monitor /\ Keeps(Request(m, pc), d, r) /\ Bounded(Request(m, pc))
<1>1. CASE m.stopped \/ ~Open
  BY <1>1, IdleKeeps DEF Request
<1>2. CASE ~(m.stopped \/ ~Open)
  <2> DEFINE n == [m EXCEPT !.pc = pc, !.asked = clock, !.answer = NewMonitor.answer]
  <2>1. Request(m, pc) = n
    BY <1>2 DEF Request
  <2>2. /\ n \in Monitor /\ n.pc = pc /\ n.token = m.token /\ n.asked = clock
        /\ n.answer = [o \in Orders |-> "absent"]
        /\ n.pendingOrders = m.pendingOrders /\ n.lastSuccessAt = m.lastSuccessAt
        /\ n.notBefore = m.notBefore
    <3>1. /\ NewMonitor.answer \in [Orders -> OrderStates] /\ clock \in Int
          /\ NewMonitor.answer = [o \in Orders |-> "absent"]
      BY NewMonitorKeeps, Values DEF Monitor
    <3> HIDE DEF NewMonitor
    <3> QED
      BY <3>1 DEF Monitor
  <2> HIDE DEF n
  <2>3. Keeps(n, d, r) /\ Bounded(n)
    BY <2>2, Values DEF Keeps, Bounded
  <2> QED
    BY <2>1, <2>2, <2>3
<1> QED
  BY <1>1, <1>2

LEMMA Delays ==
    ASSUME MonitorInv, NEW failures \in 1 .. 5, NEW code, NEW wait \in {0} \cup RetryAfters
    PROVE  LET delay == Delay(failures, code, wait)
           IN  /\ delay \in Nat /\ wait <= delay
               /\ code = "authentication" => MaxRetry <= delay
               /\ delay <= MaxRetry \/ delay <= wait
<1>1. wait \in Nat /\ MaxRetry \in Nat
  BY Values, MonitorAssumption
<1>2. Exponential(failures) \in Int
  BY Values DEF Exponential
<1> QED
  BY <1>1, <1>2 DEF Delay, Backoff, Max2, Min2

LEMMA FailedValues ==
    ASSUME NEW m \in Monitor, NEW t \in BOOLEAN, NEW k \in 0 .. 5, NEW n \in Nat
    PROVE  [m EXCEPT !.token = t, !.failures = k, !.failed = TRUE, !.state = "error",
                     !.notBefore = n] \in Monitor
BY DEF Monitor

\* What a failed request leaves.
LEMMA FailedKeeps ==
    ASSUME MonitorInv, NEW m \in Monitor, NEW d \in Nat, NEW r \in Int, Keeps(m, d, r), Bounded(m),
           m.pc # "idle", NEW code, NEW wait \in {0} \cup RetryAfters,
           NEW e \in Nat, e = d \/ (~m.stopped /\ Open /\ e = clock + wait),
           NEW s \in Int,
           s = r \/ (~m.stopped /\ Open /\ code = "authentication" /\ s = clock)
    PROVE  LET f == Failed(m, code, wait)
           IN  f \in Monitor /\ Keeps(f, e, s) /\ Bounded(f) /\ f.pc = "idle"
<1> DEFINE f == Failed(m, code, wait)
<1>1. CASE m.stopped
  <2>1. f = Idle(m) /\ e = d /\ s = r
    BY <1>1 DEF Failed
  <2>2. Idle(m).pc = "idle"
    BY DEF Idle, Monitor
  <2> QED
    BY <2>1, <2>2, IdleKeeps
<1>2. CASE ~m.stopped /\ ~Open
  <2>1. f = Paused(m) /\ e = d /\ s = r
    BY <1>2 DEF Failed
  <2>2. Paused(m).pc = "idle"
    BY DEF Idle, Paused, Monitor
  <2> QED
    BY <2>1, <2>2, IdleKeeps
<1>3. CASE ~m.stopped /\ Open
  <2> DEFINE failures == Min2(m.failures + 1, 5)
             delay == Delay(failures, code, wait)
             i == Idle(m)
             n == [i EXCEPT
                     !.token = IF code = "authentication" THEN FALSE ELSE @,
                     !.failures = failures, !.failed = TRUE, !.state = "error",
                     !.notBefore = clock + delay]
  <2>1. f = n
    BY <1>3 DEF Failed
  <2>2. failures \in 1 .. 5
    BY DEF Monitor, Min2
  <2>3. /\ delay \in Nat /\ wait <= delay /\ wait \in Nat
        /\ code = "authentication" => MaxRetry <= delay
        /\ delay <= MaxRetry \/ delay <= wait
    BY <2>2, Delays, MonitorAssumption
  <2>4. /\ i \in Monitor /\ i.pc = "idle" /\ i.token = m.token
        /\ i.answer = [o \in Orders |-> "absent"]
        /\ i.pendingOrders = m.pendingOrders /\ i.lastSuccessAt = m.lastSuccessAt
    BY IdleKeeps
  <2>5. clock \in Nat /\ clock + delay \in Nat
    BY <2>3, Values
  <2> DEFINE tok == IF code = "authentication" THEN FALSE ELSE i.token
  <2>13. tok \in BOOLEAN /\ (tok = TRUE => m.token = TRUE)
    BY <2>4, Zenon DEF Monitor
  <2> HIDE DEF failures, delay, i
  <2>6. /\ n \in Monitor /\ n.pc = "idle" /\ n.answer = [o \in Orders |-> "absent"]
        /\ n.pendingOrders = m.pendingOrders /\ n.lastSuccessAt = m.lastSuccessAt
        /\ n.notBefore = clock + delay
        /\ n.token = TRUE => m.token = TRUE
    <3>1. n = [i EXCEPT !.token = tok, !.failures = failures, !.failed = TRUE, !.state = "error",
                        !.notBefore = clock + delay]
      OBVIOUS
    <3> HIDE DEF n, tok
    <3> QED
      <4>1. /\ n.pc = i.pc /\ n.stopped = i.stopped /\ n.token = tok /\ n.hadToken = i.hadToken
            /\ n.asked = i.asked /\ n.answer = i.answer /\ n.state = "error" /\ n.failed = TRUE
            /\ n.pendingOrders = i.pendingOrders /\ n.lastSuccessAt = i.lastSuccessAt
            /\ n.notBefore = clock + delay /\ n.failures = failures
        BY <2>4, <3>1 DEF Monitor
      <4>2. n \in Monitor
        <5>1. failures \in 0 .. 5
          BY <2>2
        <5> QED
          BY <2>4, <2>5, <2>13, <3>1, <5>1, FailedValues
      <4>3. n.token = TRUE => m.token = TRUE
        BY <2>13, <4>1
      <4> QED
        BY <2>4, <4>1, <4>2, <4>3
  <2> HIDE DEF n
  <2>7. d <= clock /\ (r = Never \/ r + MaxRetry <= clock)
    BY DEF Keeps
  <2>8. e <= clock \/ e <= n.notBefore
    BY <2>3, <2>5, <2>6, <2>7
  <2>9. s = Never \/ s + MaxRetry <= clock \/ s + MaxRetry <= n.notBefore
    BY <2>3, <2>5, <2>6, <2>7, Values
  <2>10. n.token = TRUE => s = Never \/ s + MaxRetry <= clock
    <3>1. CASE s = r
      BY <2>7, <3>1
    <3>2. CASE s # r
      <4>1. code = "authentication"
        BY <3>2
      <4>2. n.token = FALSE
        BY <2>4, <4>1 DEF n, Monitor
      <4> QED
        BY <4>2
    <3> QED
      BY <3>1, <3>2
  <2>11. Keeps(n, e, s)
    BY <2>6, <2>8, <2>9, <2>10 DEF Keeps
  <2>12. Bounded(n)
    <3>1. CASE delay <= MaxRetry
      <4>1. n.notBefore <= clock + MaxRetry
        BY <2>3, <2>5, <2>6, <3>1, Values
      <4> QED
        BY <4>1 DEF Bounded
    <3>2. CASE ~(delay <= MaxRetry)
      <4>1. delay <= wait /\ wait # 0
        BY <2>3, <3>2, Values
      <4>2. n.notBefore <= clock + wait
        BY <2>3, <2>5, <2>6, <4>1
      <4>3. wait \in RetryAfters
        BY <4>1
      <4> QED
        BY <4>2, <4>3 DEF Bounded
    <3> QED
      BY <3>1, <3>2
  <2> QED
    BY <2>1, <2>6, <2>11, <2>12
<1> QED
  BY <1>1, <1>2, <1>3

LEMMA CheckKeeps ==
    ASSUME MonitorInv, NEW p \in Processes, Check(p)
    PROVE  MonitorInv'
<1> DEFINE m == mon[p]
           n == [m EXCEPT !.hadToken = m.token,
                          !.state = IF @ # "paused" THEN @
                                    ELSE IF m.failed THEN "error" ELSE "checking"]
<1>1. /\ m.pc = "idle" /\ clock >= m.notBefore
      /\ mon' = [mon EXCEPT ![p] = Request(n, IF m.token THEN "read" ELSE "login")]
      /\ UNCHANGED <<clock, list, lastWaiting, rejected, deadline>>
  BY DEF Check, At
<1>2. m \in Monitor /\ deadline[p] \in Nat /\ rejected[p] \in Int
      /\ Keeps(m, deadline[p], rejected[p]) /\ Bounded(m) /\ clock \in Nat
  BY Values
<1>3. /\ n \in Monitor /\ n.pc = m.pc /\ n.token = m.token /\ n.answer = m.answer
      /\ n.pendingOrders = m.pendingOrders /\ n.lastSuccessAt = m.lastSuccessAt
      /\ n.notBefore = m.notBefore /\ n.asked = m.asked
  BY <1>2 DEF Monitor
<1>4. m.notBefore \in Nat /\ MaxRetry \in Nat
  BY <1>2, Values DEF Monitor
<1> HIDE DEF n, m
<1>5. deadline[p] <= clock /\ (rejected[p] = Never \/ rejected[p] + MaxRetry <= clock)
  BY <1>1, <1>2, <1>4 DEF Keeps
<1>6. Keeps(n, deadline[p], rejected[p]) /\ Bounded(n)
  BY <1>2, <1>3 DEF Keeps, Bounded
<1>7. PICK pc \in {"login", "read"} : pc = IF m.token THEN "read" ELSE "login"
  OBVIOUS
<1>8. /\ Request(n, pc) \in Monitor /\ Keeps(Request(n, pc), deadline[p], rejected[p])
      /\ Bounded(Request(n, pc))
  BY <1>2, <1>3, <1>5, <1>6, RequestKeeps
<1>9. deadline' = [deadline EXCEPT ![p] = deadline[p]]
      /\ rejected' = [rejected EXCEPT ![p] = rejected[p]]
  BY <1>1 DEF MonitorInv, MonitorTypeOK
<1> QED
  BY <1>1, <1>2, <1>7, <1>8, <1>9, OneMonitor

\* A step that leaves the delays alone.
LEMMA SameDelays ==
    ASSUME MonitorInv, NEW p \in Processes, NEW m, mon' = [mon EXCEPT ![p] = m],
           UNCHANGED <<clock, list, lastWaiting, rejected, deadline>>,
           m \in Monitor, Keeps(m, deadline[p], rejected[p]), Bounded(m)
    PROVE  MonitorInv'
<1>1. deadline' = [deadline EXCEPT ![p] = deadline[p]]
      /\ rejected' = [rejected EXCEPT ![p] = rejected[p]]
      /\ deadline[p] \in Nat /\ rejected[p] \in Int
  BY DEF MonitorInv, MonitorTypeOK
<1> QED
  BY <1>1, OneMonitor

LEMMA PauseKeeps ==
    ASSUME MonitorInv, NEW p \in Processes, Pause(p)
    PROVE  MonitorInv'
BY Values, IdleKeeps, SameDelays DEF Pause

LEMMA LoginAcceptedKeeps ==
    ASSUME MonitorInv, NEW p \in Processes, LoginAccepted(p)
    PROVE  MonitorInv'
<1> DEFINE m == mon[p]
           tok == ~m.stopped
           n == [m EXCEPT !.token = tok]
<1>1. /\ m.pc = "login" /\ mon' = [mon EXCEPT ![p] = Request(n, "read")]
      /\ UNCHANGED <<clock, list, lastWaiting, rejected, deadline>>
  BY DEF LoginAccepted, At
<1>2. m \in Monitor /\ deadline[p] \in Nat /\ rejected[p] \in Int
      /\ Keeps(m, deadline[p], rejected[p]) /\ Bounded(m)
  BY Values
<1>3. tok \in BOOLEAN
  OBVIOUS
<1> HIDE DEF tok, m
<1>4. /\ n \in Monitor /\ n.pc = m.pc /\ n.answer = m.answer
      /\ n.pendingOrders = m.pendingOrders /\ n.lastSuccessAt = m.lastSuccessAt
      /\ n.notBefore = m.notBefore /\ n.asked = m.asked
  BY <1>2, <1>3 DEF Monitor
<1> HIDE DEF n
<1>5. deadline[p] <= clock /\ (rejected[p] = Never \/ rejected[p] + MaxRetry <= clock)
  BY <1>1, <1>2 DEF Keeps
<1>6. Keeps(n, deadline[p], rejected[p]) /\ Bounded(n)
  BY <1>2, <1>4, <1>5 DEF Keeps, Bounded
<1> QED
  BY <1>1, <1>2, <1>4, <1>5, <1>6, RequestKeeps, SameDelays

LEMMA ListReadKeeps ==
    ASSUME MonitorInv, NEW p \in Processes, ListRead(p)
    PROVE  MonitorInv'
<1> DEFINE m == mon[p]
           n == [m EXCEPT !.pc = "answer", !.answer = list]
<1>1. /\ m.pc = "read" /\ mon' = [mon EXCEPT ![p] = n]
      /\ UNCHANGED <<clock, list, lastWaiting, rejected, deadline>>
  <2>1. mon' = [mon EXCEPT ![p].pc = "answer", ![p].answer = list]
    BY DEF ListRead
  <2>2. mon'[p] = n /\ \A q \in Processes : q # p => mon'[q] = mon[q]
    BY <2>1 DEF MonitorInv, MonitorTypeOK, Monitor
  <2>3. mon' = [q \in Processes |-> mon'[q]]
    BY <2>1 DEF MonitorInv, MonitorTypeOK
  <2>4. mon' = [mon EXCEPT ![p] = n]
    BY <2>2, <2>3 DEF MonitorInv, MonitorTypeOK
  <2> QED
    BY <2>4 DEF ListRead, At
<1>2. m \in Monitor /\ deadline[p] \in Nat /\ rejected[p] \in Int
      /\ Keeps(m, deadline[p], rejected[p]) /\ Bounded(m)
  BY Values
<1>3. list \in [Orders -> OrderStates]
  BY DEF MonitorInv, MonitorTypeOK
<1> HIDE DEF m
<1>4. /\ n \in Monitor /\ n.pc = "answer" /\ n.answer = list /\ n.token = m.token
      /\ n.pendingOrders = m.pendingOrders /\ n.lastSuccessAt = m.lastSuccessAt
      /\ n.notBefore = m.notBefore /\ n.asked = m.asked
  BY <1>2, <1>3 DEF Monitor
<1> HIDE DEF n
<1>5. \A o \in Orders : n.answer[o] = "waiting" => lastWaiting[o] >= n.asked
  <2>1. n.asked <= clock /\ clock \in Nat /\ n.asked \in Int
    BY <1>1, <1>2, <1>4, Values DEF Keeps, Monitor
  <2> QED
    BY <1>4, <2>1 DEF MonitorInv
<1>6. Keeps(n, deadline[p], rejected[p]) /\ Bounded(n)
  BY <1>1, <1>2, <1>4, <1>5 DEF Keeps, Bounded
<1> QED
  BY <1>1, <1>4, <1>6, SameDelays

LEMMA Connected ==
    ASSUME NEW m \in Monitor
    PROVE  [m EXCEPT !.pc = "snapshot", !.failures = 0, !.failed = FALSE, !.hadToken = FALSE,
                     !.state = "connected"] \in Monitor
<1>1. 0 \in 0 .. 5
  OBVIOUS
<1> QED
  BY <1>1 DEF Monitor

LEMMA Listed ==
    ASSUME NEW m \in Monitor, NEW W \in SUBSET Orders, NEW at \in Int, NEW t \in Nat
    PROVE  [m EXCEPT !.pendingOrders = W, !.lastSuccessAt = at, !.notBefore = t] \in Monitor
BY DEF Monitor

LEMMA AppliedValues ==
    ASSUME NEW m \in Monitor, NEW W \in SUBSET Orders, NEW at \in Int, NEW t \in Nat
    PROVE  [m EXCEPT !.pc = "snapshot", !.failures = 0, !.failed = FALSE, !.hadToken = FALSE,
                     !.pendingOrders = W, !.state = "connected", !.lastSuccessAt = at,
                     !.notBefore = t] \in Monitor
<1> DEFINE c == [m EXCEPT !.pc = "snapshot", !.failures = 0, !.failed = FALSE,
                          !.hadToken = FALSE, !.state = "connected"]
<1>1. [m EXCEPT !.pc = "snapshot", !.failures = 0, !.failed = FALSE, !.hadToken = FALSE,
                !.pendingOrders = W, !.state = "connected", !.lastSuccessAt = at,
                !.notBefore = t]
         = [c EXCEPT !.pendingOrders = W, !.lastSuccessAt = at, !.notBefore = t]
  BY DEF Monitor
<1> QED
  BY <1>1, Connected, Listed

LEMMA ApplyKeeps ==
    ASSUME MonitorInv, NEW p \in Processes, Apply(p)
    PROVE  MonitorInv'
<1> DEFINE m == mon[p]
           pause == IF Waiting(m.answer) # {} THEN ActivePoll ELSE Poll
           n == [m EXCEPT
                  !.pc = "snapshot", !.failures = 0, !.failed = FALSE, !.hadToken = FALSE,
                  !.pendingOrders = Waiting(m.answer), !.state = "connected",
                  !.lastSuccessAt = clock, !.notBefore = clock + pause]
<1>1. /\ m.pc = "answer"
      /\ mon' = [mon EXCEPT ![p] = IF m.stopped THEN Idle(m) ELSE IF ~Open THEN Paused(m) ELSE n]
      /\ UNCHANGED <<clock, list, lastWaiting, rejected, deadline>>
  BY DEF Apply, At
<1>2. m \in Monitor /\ deadline[p] \in Nat /\ rejected[p] \in Int
      /\ Keeps(m, deadline[p], rejected[p]) /\ Bounded(m)
  BY Values
<1>3. CASE m.stopped
  BY <1>1, <1>2, <1>3, IdleKeeps, SameDelays
<1>4. CASE ~m.stopped /\ ~Open
  BY <1>1, <1>2, <1>4, IdleKeeps, SameDelays
<1>5. CASE ~m.stopped /\ Open
  <2>1. pause \in Nat /\ pause <= Poll /\ clock \in Nat /\ Poll \in Nat
    BY Values
  <2>2. Waiting(m.answer) \in SUBSET Orders
    BY DEF Waiting
  <2>3. \A o \in Waiting(m.answer) : o \in Orders /\ lastWaiting[o] >= m.asked
    BY <1>1, <1>2 DEF Keeps, Waiting
  <2>4. clock <= m.asked + RequestTime /\ m.asked \in Int /\ RequestTime \in Nat
    BY <1>1, <1>2, Values DEF Keeps, Monitor
  <2> HIDE DEF m, pause
  <2>5. /\ n \in Monitor /\ n.pc = "snapshot" /\ n.answer = m.answer /\ n.token = m.token
        /\ n.pendingOrders = Waiting(m.answer) /\ n.lastSuccessAt = clock
        /\ n.notBefore = clock + pause
    <3> DEFINE W == Waiting(m.answer)
               t == clock + pause
    <3>1. W \in SUBSET Orders /\ t \in Nat /\ clock \in Int
      BY <2>1, <2>2
    <3> HIDE DEF W, t
    <3>2. n = [m EXCEPT !.pc = "snapshot", !.failures = 0, !.failed = FALSE, !.hadToken = FALSE,
                        !.pendingOrders = W, !.state = "connected", !.lastSuccessAt = clock,
                        !.notBefore = t]
      BY DEF W, t
    <3>5. n \in Monitor
      BY <1>2, <3>1, <3>2, AppliedValues
    <3>3. n \in Monitor /\ n.pc = "snapshot" /\ n.answer = m.answer /\ n.token = m.token
      BY <1>2, <3>2, <3>5 DEF Monitor
    <3>4. n.pendingOrders = W /\ n.lastSuccessAt = clock /\ n.notBefore = t
      BY <1>2, <3>2 DEF Monitor
    <3> QED
      BY <3>3, <3>4 DEF W, t
  <2> HIDE DEF n
  <2>6. \A o \in n.pendingOrders : lastWaiting[o] >= n.lastSuccessAt - RequestTime
    <3> TAKE o \in n.pendingOrders
    <3>1. lastWaiting[o] >= m.asked /\ lastWaiting[o] \in Int
      BY <2>3, <2>5, Values
    <3> QED
      BY <2>1, <2>4, <2>5, <3>1
  <2>7. Keeps(n, deadline[p], rejected[p])
    BY <1>1, <1>2, <2>5, <2>6 DEF Keeps
  <2>8. Bounded(n)
    <3>1. n.notBefore <= clock + Poll
      BY <2>1, <2>5
    <3> QED
      BY <3>1 DEF Bounded
  <2>9. mon' = [mon EXCEPT ![p] = n]
    BY <1>1, <1>5
  <2> QED
    BY <1>1, <2>5, <2>7, <2>8, <2>9, SameDelays
<1> QED
  BY <1>3, <1>4, <1>5

LEMMA SnapshotDoneKeeps ==
    ASSUME MonitorInv, NEW p \in Processes, SnapshotDone(p)
    PROVE  MonitorInv'
BY Values, IdleKeeps, SameDelays DEF SnapshotDone

LEMMA RequestFailsKeeps ==
    ASSUME MonitorInv, NEW p \in Processes, RequestFails(p)
    PROVE  MonitorInv'
<1>1. /\ mon[p].pc # "idle" /\ mon' = [mon EXCEPT ![p] = Failed(mon[p], "connection", 0)]
      /\ UNCHANGED <<clock, list, lastWaiting, rejected, deadline>>
  BY DEF RequestFails
<1>2. mon[p] \in Monitor /\ deadline[p] \in Nat /\ rejected[p] \in Int
      /\ Keeps(mon[p], deadline[p], rejected[p]) /\ Bounded(mon[p])
  BY Values
<1> DEFINE f == Failed(mon[p], "connection", 0)
<1>3. f \in Monitor /\ Keeps(f, deadline[p], rejected[p]) /\ Bounded(f)
  BY <1>1, <1>2, FailedKeeps
<1> QED
  BY <1>1, <1>3, SameDelays

LEMMA RateLimitedKeeps ==
    ASSUME MonitorInv, NEW p \in Processes, RateLimited(p)
    PROVE  MonitorInv'
<1>1. PICK wait \in RetryAfters :
          /\ mon' = [mon EXCEPT ![p] = Failed(mon[p], "rate_limited", wait)]
          /\ deadline' = [deadline EXCEPT ![p] =
                IF mon[p].stopped \/ ~Open THEN @ ELSE Max2(@, clock + wait)]
  BY DEF RateLimited
<1>2. mon[p].pc # "idle" /\ UNCHANGED <<clock, list, lastWaiting, rejected>>
  BY DEF RateLimited
<1>3. mon[p] \in Monitor /\ deadline[p] \in Nat /\ rejected[p] \in Int
      /\ Keeps(mon[p], deadline[p], rejected[p]) /\ Bounded(mon[p]) /\ clock \in Nat
      /\ wait \in Nat
  BY Values, MonitorAssumption
<1> DEFINE f == Failed(mon[p], "rate_limited", wait)
           e == IF mon[p].stopped \/ ~Open THEN deadline[p] ELSE Max2(deadline[p], clock + wait)
<1>4. e \in Nat /\ (e = deadline[p] \/ (~mon[p].stopped /\ Open /\ e = clock + wait))
  BY <1>3 DEF Max2
<1> HIDE DEF e
<1>5. f \in Monitor /\ Keeps(f, e, rejected[p]) /\ Bounded(f)
  BY <1>2, <1>3, <1>4, FailedKeeps
<1>6. deadline' = [deadline EXCEPT ![p] = e]
      /\ rejected' = [rejected EXCEPT ![p] = rejected[p]]
  BY <1>1, <1>2 DEF MonitorInv, MonitorTypeOK, e
<1> QED
  BY <1>1, <1>2, <1>3, <1>4, <1>5, <1>6, OneMonitor

LEMMA LoginRejectedKeeps ==
    ASSUME MonitorInv, NEW p \in Processes, LoginRejected(p)
    PROVE  MonitorInv'
<1> DEFINE f == Failed(mon[p], "authentication", 0)
           s == IF mon[p].stopped \/ ~Open THEN rejected[p] ELSE clock
<1>1. /\ mon[p].pc # "idle" /\ mon' = [mon EXCEPT ![p] = f]
      /\ rejected' = [rejected EXCEPT ![p] = s]
      /\ UNCHANGED <<clock, list, lastWaiting, deadline>>
  BY DEF LoginRejected, At, MonitorInv, MonitorTypeOK
<1>2. mon[p] \in Monitor /\ deadline[p] \in Nat /\ rejected[p] \in Int
      /\ Keeps(mon[p], deadline[p], rejected[p]) /\ Bounded(mon[p]) /\ clock \in Nat
  BY Values
<1>3. s \in Int /\ (s = rejected[p] \/ (~mon[p].stopped /\ Open /\ s = clock))
  BY <1>2
<1> HIDE DEF s
<1>4. f \in Monitor /\ Keeps(f, deadline[p], s) /\ Bounded(f)
  BY <1>1, <1>2, <1>3, FailedKeeps
<1>5. deadline' = [deadline EXCEPT ![p] = deadline[p]]
  BY <1>1 DEF MonitorInv, MonitorTypeOK
<1> QED
  BY <1>1, <1>2, <1>3, <1>4, <1>5, OneMonitor

LEMMA SessionRejectedKeeps ==
    ASSUME MonitorInv, NEW p \in Processes, SessionRejected(p)
    PROVE  MonitorInv'
<1> DEFINE m == mon[p]
           f == Failed(m, "authentication", 0)
           n == [m EXCEPT !.token = FALSE, !.hadToken = FALSE]
<1>1. /\ m.pc # "idle"
      /\ mon' = [mon EXCEPT ![p] = IF m.hadToken /\ ~m.stopped THEN Request(n, "login") ELSE f]
      /\ UNCHANGED <<clock, list, lastWaiting, rejected, deadline>>
  BY DEF SessionRejected, At
<1>2. m \in Monitor /\ deadline[p] \in Nat /\ rejected[p] \in Int
      /\ Keeps(m, deadline[p], rejected[p]) /\ Bounded(m)
  BY Values
<1>3. f \in Monitor /\ Keeps(f, deadline[p], rejected[p]) /\ Bounded(f)
  BY <1>1, <1>2, FailedKeeps
<1> HIDE DEF m
<1>4. /\ n \in Monitor /\ n.pc = m.pc /\ n.token = FALSE /\ n.answer = m.answer
      /\ n.pendingOrders = m.pendingOrders /\ n.lastSuccessAt = m.lastSuccessAt
      /\ n.notBefore = m.notBefore /\ n.asked = m.asked
  BY <1>2 DEF Monitor
<1> HIDE DEF n, f
<1>5. deadline[p] <= clock /\ (rejected[p] = Never \/ rejected[p] + MaxRetry <= clock)
  BY <1>1, <1>2 DEF Keeps
<1>6. Keeps(n, deadline[p], rejected[p]) /\ Bounded(n)
  BY <1>1, <1>2, <1>4 DEF Keeps, Bounded
<1>7. /\ Request(n, "login") \in Monitor /\ Keeps(Request(n, "login"), deadline[p], rejected[p])
      /\ Bounded(Request(n, "login"))
  BY <1>2, <1>4, <1>5, <1>6, RequestKeeps
<1> QED
  BY <1>1, <1>3, <1>7, SameDelays

LEMMA StopKeeps ==
    ASSUME MonitorInv, NEW p \in Processes, Stop(p)
    PROVE  MonitorInv'
<1> DEFINE m == mon[p]
           n == [m EXCEPT !.stopped = TRUE, !.token = FALSE]
<1>1. /\ mon' = [mon EXCEPT ![p] = n]
      /\ UNCHANGED <<clock, list, lastWaiting, rejected, deadline>>
  <2>1. mon' = [mon EXCEPT ![p].stopped = TRUE, ![p].token = FALSE]
    BY DEF Stop
  <2>2. mon'[p] = n /\ \A q \in Processes : q # p => mon'[q] = mon[q]
    BY <2>1 DEF MonitorInv, MonitorTypeOK, Monitor
  <2>3. mon' = [q \in Processes |-> mon'[q]]
    BY <2>1 DEF MonitorInv, MonitorTypeOK
  <2>4. mon' = [mon EXCEPT ![p] = n]
    BY <2>2, <2>3 DEF MonitorInv, MonitorTypeOK
  <2> QED
    BY <2>4 DEF Stop
<1>2. m \in Monitor /\ Keeps(m, deadline[p], rejected[p]) /\ Bounded(m)
  BY Values
<1> HIDE DEF m
<1>3. /\ n \in Monitor /\ n.pc = m.pc /\ n.token = FALSE /\ n.answer = m.answer
      /\ n.pendingOrders = m.pendingOrders /\ n.lastSuccessAt = m.lastSuccessAt
      /\ n.notBefore = m.notBefore /\ n.asked = m.asked
  BY <1>2 DEF Monitor
<1> HIDE DEF n
<1>4. Keeps(n, deadline[p], rejected[p]) /\ Bounded(n)
  BY <1>2, <1>3 DEF Keeps, Bounded
<1> QED
  BY <1>1, <1>3, <1>4, SameDelays

LEMMA RestartKeeps ==
    ASSUME MonitorInv, NEW p \in Processes, Restart(p)
    PROVE  MonitorInv'
<1>1. /\ mon' = [mon EXCEPT ![p] = NewMonitor]
      /\ rejected' = [rejected EXCEPT ![p] = Never]
      /\ deadline' = [deadline EXCEPT ![p] = 0]
      /\ UNCHANGED <<clock, list, lastWaiting>>
  BY DEF Restart
<1>2. NewMonitor \in Monitor /\ Keeps(NewMonitor, 0, Never) /\ Bounded(NewMonitor)
  BY NewMonitorKeeps, Values
<1>3. Never \in Int
  BY DEF Never
<1> QED
  BY <1>1, <1>2, <1>3, OneMonitor

\* The list and the clock only move what was last waiting forwards.
LEMMA Later ==
    ASSUME MonitorInv, UNCHANGED <<mon, rejected, deadline>>,
           clock' \in 0 .. MaxTime, clock <= clock',
           \A p \in Processes :
              mon[p].pc \in {"login", "read", "answer"} => clock' <= mon[p].asked + RequestTime,
           list' \in [Orders -> OrderStates], lastWaiting' \in [Orders -> Int],
           \A o \in Orders : lastWaiting[o] <= lastWaiting'[o],
           \A o \in Orders : lastWaiting'[o] <= clock'
                            /\ (list'[o] = "waiting" => lastWaiting'[o] = clock')
    PROVE  MonitorInv'
<1>1. clock' \in Nat /\ clock \in Nat
  BY Values, MonitorAssumption
<1>2. \A p \in Processes : Keeps(mon[p], deadline[p], rejected[p])'
  <2> TAKE p \in Processes
  <2> DEFINE m == mon[p]
  <2>1. m \in Monitor /\ deadline[p] \in Nat /\ rejected[p] \in Int /\ MaxRetry \in Nat
        /\ Keeps(m, deadline[p], rejected[p]) /\ RequestTime \in Nat
    BY Values
  <2>2. m.asked \in Int /\ m.lastSuccessAt \in Int /\ m.notBefore \in Nat
        /\ \A o \in m.pendingOrders : o \in Orders
    BY <2>1 DEF Monitor
  <2>3. \A o \in Orders : lastWaiting[o] \in Int /\ lastWaiting'[o] \in Int
    BY Values
  <2>4. m.pc = "answer" => \A o \in Orders : m.answer[o] = "waiting" => lastWaiting'[o] >= m.asked
    BY <2>1, <2>2, <2>3 DEF Keeps
  <2>5. \A o \in m.pendingOrders : lastWaiting'[o] >= m.lastSuccessAt - RequestTime
    <3> TAKE o \in m.pendingOrders
    <3>1. lastWaiting[o] >= m.lastSuccessAt - RequestTime /\ o \in Orders
      BY <2>1, <2>2 DEF Keeps
    <3> QED
      BY <2>1, <2>2, <2>3, <3>1
  <2>6. /\ m.pc \in {"login", "read", "answer"} =>
              m.asked <= clock' /\ clock' <= m.asked + RequestTime
        /\ m.pc \notin {"answer", "snapshot"} => m.answer = [o \in Orders |-> "absent"]
        /\ deadline[p] <= clock' \/ deadline[p] <= m.notBefore
        /\ m.pc # "idle" => deadline[p] <= clock'
    BY <1>1, <2>1, <2>2 DEF Keeps
  <2>7. /\ \/ rejected[p] = Never
           \/ rejected[p] + MaxRetry <= clock'
           \/ rejected[p] + MaxRetry <= m.notBefore
        /\ m.pc # "idle" \/ m.token = TRUE =>
              rejected[p] = Never \/ rejected[p] + MaxRetry <= clock'
    BY <1>1, <2>1, <2>2 DEF Keeps
  <2> QED
    BY <2>4, <2>5, <2>6, <2>7 DEF Keeps
<1>3. \A p \in Processes : Bounded(mon[p])'
  <2> TAKE p \in Processes
  <2>1. PICK d \in {Poll, MaxRetry} \cup RetryAfters : mon[p].notBefore <= clock + d
    BY Values DEF Bounded
  <2>2. d \in Nat /\ mon[p].notBefore \in Nat
    BY Values, MonitorAssumption DEF Monitor
  <2>3. mon[p].notBefore <= clock' + d
    BY <1>1, <2>1, <2>2
  <2> QED
    BY <2>3 DEF Bounded
<1>4. MonitorTypeOK'
  BY <1>3 DEF MonitorInv, MonitorTypeOK, Bounded
<1> QED
  BY <1>2, <1>4 DEF MonitorInv

LEMMA ListChangesKeeps ==
    ASSUME MonitorInv, NEW o \in Orders, ListChanges(o)
    PROVE  MonitorInv'
<1>1. UNCHANGED <<clock, mon, rejected, deadline>>
  BY DEF ListChanges
<1>2. list' \in [Orders -> OrderStates] /\ \A q \in Orders : q # o => list'[q] = list[q]
  BY DEF ListChanges, MonitorInv, MonitorTypeOK, OrderStates
<1>3. lastWaiting' = [lastWaiting EXCEPT ![o] =
                          IF list[o] = "waiting" \/ list'[o] = "waiting" THEN clock ELSE @]
  BY DEF ListChanges
<1>4. clock \in 0 .. MaxTime /\ clock \in Nat
  BY Values DEF MonitorInv, MonitorTypeOK
<1>5. lastWaiting' \in [Orders -> Int]
  BY <1>3, <1>4 DEF MonitorInv, MonitorTypeOK
<1>6. \A q \in Orders : list'[q] = "waiting" => lastWaiting'[q] = clock
  BY <1>2, <1>3 DEF MonitorInv, MonitorTypeOK
<1>7. \A q \in Orders : lastWaiting[q] <= lastWaiting'[q] /\ lastWaiting'[q] <= clock
  <2> TAKE q \in Orders
  <2>1. lastWaiting[q] \in Int /\ lastWaiting[q] <= clock
    BY Values DEF MonitorInv
  <2>2. lastWaiting'[q] = lastWaiting[q] \/ lastWaiting'[q] = clock
    BY <1>3 DEF MonitorInv, MonitorTypeOK
  <2> QED
    BY <1>4, <2>1, <2>2
<1>8. \A p \in Processes :
         mon[p].pc \in {"login", "read", "answer"} => clock <= mon[p].asked + RequestTime
  BY Values DEF Keeps
<1> QED
  BY <1>1, <1>2, <1>4, <1>5, <1>6, <1>7, <1>8, Later

LEMMA TickKeeps ==
    ASSUME MonitorInv, Tick
    PROVE  MonitorInv'
<1>1. /\ clock < MaxTime /\ clock' = clock + 1
      /\ \A p \in Processes :
            mon[p].pc \in {"login", "read", "answer"} => clock < mon[p].asked + RequestTime
      /\ lastWaiting' =
            [o \in Orders |-> IF list[o] = "waiting" THEN clock + 1 ELSE lastWaiting[o]]
      /\ UNCHANGED <<list, mon, rejected, deadline>>
  BY DEF Tick
<1>2. clock \in Nat /\ MaxTime \in Nat /\ RequestTime \in Nat
  BY Values, MonitorAssumption
<1>3. clock' \in 0 .. MaxTime /\ clock <= clock'
  BY <1>1, <1>2
<1>4. \A o \in Orders :
         /\ lastWaiting'[o] \in Int /\ lastWaiting[o] <= lastWaiting'[o]
         /\ lastWaiting'[o] <= clock' /\ (list'[o] = "waiting" => lastWaiting'[o] = clock')
  <2> TAKE o \in Orders
  <2>1. lastWaiting[o] \in Int /\ lastWaiting[o] <= clock
    BY Values DEF MonitorInv
  <2>2. lastWaiting'[o] = IF list[o] = "waiting" THEN clock + 1 ELSE lastWaiting[o]
    BY <1>1
  <2> QED
    BY <1>1, <1>2, <2>1, <2>2
<1>5. lastWaiting' \in [Orders -> Int] /\ list' \in [Orders -> OrderStates]
  BY <1>1, <1>4 DEF MonitorInv, MonitorTypeOK
<1>6. \A p \in Processes :
         mon[p].pc \in {"login", "read", "answer"} => clock' <= mon[p].asked + RequestTime
  <2> TAKE p \in Processes
  <2>1. mon[p].asked \in Int
    BY Values DEF Monitor
  <2> QED
    BY <1>1, <1>2, <2>1
<1> QED
  BY <1>1, <1>3, <1>4, <1>5, <1>6, Later

LEMMA MonitorGoesOn == MonitorInv /\ [MonitorNext]_monitorVars => MonitorInv'
<1> SUFFICES ASSUME MonitorInv, [MonitorNext]_monitorVars
             PROVE  MonitorInv'
  OBVIOUS
<1>1. ASSUME NEW p \in Processes, MonitorStep(p) \/ SnapshotDone(p)
      PROVE  MonitorInv'
  BY <1>1, CheckKeeps, PauseKeeps, LoginAcceptedKeeps, ListReadKeeps, ApplyKeeps,
     RequestFailsKeeps, RateLimitedKeeps, LoginRejectedKeeps, SessionRejectedKeeps, StopKeeps,
     RestartKeeps, SnapshotDoneKeeps DEF MonitorStep
<1>2. CASE UNCHANGED monitorVars
  BY <1>2 DEF monitorVars, MonitorInv, MonitorTypeOK, Keeps
<1> QED
  BY <1>1, <1>2, ListChangesKeeps, TickKeeps DEF MonitorNext

LEMMA MonitorStands == MonitorSpec => []MonitorInv
BY MonitorBegins, MonitorGoesOn, PTL DEF MonitorSpec

\* Types of the monitors, with no delay longer than the schedule's longest or the upstream's
\* (integrations/bnd/monitor.ts:100-260).
THEOREM MonitorTypes == MonitorSpec => []MonitorTypeOK
BY MonitorStands, PTL DEF MonitorInv

\* A call that a monitor shows as fresh was waiting two polls and one request ago at most,
\* however slow or failing the upstream is (integrations/bnd/monitor.ts:187-197, 249-261).
THEOREM FreshCallsWait == MonitorSpec => []FreshCallsWereWaiting
<1>1. MonitorInv => FreshCallsWereWaiting
  <2> SUFFICES ASSUME MonitorInv, NEW p \in Processes, Fresh(p), NEW o \in mon[p].pendingOrders
               PROVE  lastWaiting[o] >= clock - 2 * Poll - RequestTime
    BY DEF FreshCallsWereWaiting
  <2>1. clock - mon[p].lastSuccessAt <= 2 * Poll
    BY DEF Fresh
  <2>2. lastWaiting[o] >= mon[p].lastSuccessAt - RequestTime
    BY Values DEF Keeps
  <2>3. mon[p].lastSuccessAt \in Int /\ o \in Orders
    BY Values DEF Monitor
  <2>4. clock \in Int /\ Poll \in Int /\ RequestTime \in Int /\ lastWaiting[o] \in Int
    BY <2>3, Values
  <2> QED
    BY <2>1, <2>2, <2>3, <2>4
<1> QED
  BY <1>1, MonitorStands, PTL


\* A monitor changes itself only.
LEMMA OwnMonitor ==
    ASSUME MonitorInv, NEW p \in Processes, MonitorStep(p) \/ SnapshotDone(p),
           NEW q \in Processes, q # p
    PROVE  mon'[q] = mon[q]
<1>1. mon \in [Processes -> Monitor]
  BY DEF MonitorInv, MonitorTypeOK
<1> QED
  BY <1>1 DEF MonitorStep, SnapshotDone, Check, Pause, LoginAccepted, ListRead, Apply, RequestFails,
              RateLimited, LoginRejected, SessionRejected, Stop, Restart

\* An idle monitor begins a request by Check alone.
LEMMA IdleSteps ==
    ASSUME MonitorInv, NEW p \in Processes, MonitorStep(p) \/ SnapshotDone(p),
           mon[p].pc = "idle", mon'[p].pc # "idle"
    PROVE  Check(p)
<1>1. mon \in [Processes -> Monitor] /\ mon[p] \in Monitor
  BY DEF MonitorInv, MonitorTypeOK
<1>2. Paused(mon[p]).pc = "idle"
  BY <1>1, NewMonitorKeeps DEF Paused, Idle, Monitor
<1>3. ~Pause(p)
  BY <1>1, <1>2 DEF Pause
<1>4. ~Stop(p)
  BY <1>1 DEF Stop, Monitor
<1>5. ~Restart(p)
  BY <1>1, NewMonitorKeeps DEF Restart
<1> QED
  BY <1>3, <1>4, <1>5 DEF MonitorStep, SnapshotDone, LoginAccepted, ListRead, Apply, RequestFails,
     RateLimited, LoginRejected, SessionRejected, At

\* However its sessions, logins and schedule go, no request of a monitor begins before the end
\* of a Retry-After, and no login within fifteen minutes of a rejected one
\* (integrations/bnd/monitor.ts:120-160, 199-235).
THEOREM LoginsKeepDistance == MonitorSpec => LoginAndRetryDelays
<1> DEFINE Delayed == \A p \in Processes :
                         mon'[p].pc \in {"login", "read"} /\ mon'[p].pc # mon[p].pc =>
                             /\ clock >= deadline[p]
                             /\ mon'[p].pc = "login" /\ rejected[p] # Never
                                   => clock >= rejected[p] + MaxRetry
<1>1. MonitorInv /\ [MonitorNext]_monitorVars => [Delayed]_monitorVars
  <2> SUFFICES ASSUME MonitorInv, MonitorNext, NEW p \in Processes,
                      mon'[p].pc \in {"login", "read"}, mon'[p].pc # mon[p].pc
               PROVE  /\ clock >= deadline[p]
                      /\ rejected[p] # Never => clock >= rejected[p] + MaxRetry
    OBVIOUS
  <2>1. /\ mon[p] \in Monitor /\ Keeps(mon[p], deadline[p], rejected[p])
        /\ deadline[p] \in Int /\ rejected[p] \in Int /\ clock \in Int /\ MaxRetry \in Int
        /\ mon[p].notBefore \in Int
    BY Values DEF Monitor
  <2>2. CASE mon[p].pc # "idle"
    BY <2>1, <2>2 DEF Keeps
  <2>3. CASE mon[p].pc = "idle"
    <3>1. MonitorStep(p) \/ SnapshotDone(p)
      BY OwnMonitor DEF MonitorNext, ListChanges, Tick
    <3>2. clock >= mon[p].notBefore
      BY <2>3, <3>1, IdleSteps DEF Check
    <3> QED
      BY <2>1, <3>2 DEF Keeps
  <2> QED
    BY <2>2, <2>3
<1> QED
  BY <1>1, MonitorStands, PTL DEF MonitorSpec, LoginAndRetryDelays

-----------------------------------------------------------------------------
(***************************************************************************)
(* A monitor implements BndObserver                                        *)
(***************************************************************************)

LEMMA SeenFields ==
    ASSUME NEW m
    PROVE  /\ m.pc \in {"read", "answer", "snapshot"} =>
                 Seen(m) = [pc |-> m.pc, asked |-> IF m.pc = "snapshot" THEN 0 ELSE m.asked,
                            answer |-> m.answer,
                            observedAt |-> IF m.pc = "snapshot" THEN m.lastSuccessAt ELSE 0]
           /\ m.pc \in {"idle", "login"} =>
                 Seen(m) = [pc |-> "idle", asked |-> 0, answer |-> m.answer, observedAt |-> 0]
BY DEF Seen

\* A monitor that asks for nothing, or for a session, is idle to the history.
LEMMA SeenIdle ==
    ASSUME MonitorInv, NEW p \in Processes, mon[p].pc \in {"idle", "login"}
    PROVE  Seen(mon[p]) = Observed!IdleObserver
BY Values, SeenFields DEF Keeps, Observed!IdleObserver, Observed!Nothing

LEMMA RequestValues ==
    ASSUME NEW m \in Monitor, NEW pc \in {"login", "read"}
    PROVE  \/ Request(m, pc).pc = "idle"
           \/ Request(m, pc).pc = pc /\ Request(m, pc).asked = clock
BY DEF Request, Idle, Paused, Monitor

LEMMA Asks ==
    ASSUME NEW answer, NEW time, NEW s, NEW t,
           s = [pc |-> "idle", asked |-> 0, answer |-> answer, observedAt |-> 0],
           t = [pc |-> "read", asked |-> time, answer |-> answer, observedAt |-> 0]
    PROVE  s.pc = "idle" /\ t = [s EXCEPT !.pc = "read", !.asked = time]
<1> DEFINE r == [pc |-> "read", asked |-> 0, answer |-> answer, observedAt |-> 0]
<1>1. s.pc = "idle" /\ [s EXCEPT !.pc = "read"] = r
  OBVIOUS
<1>2. [r EXCEPT !.asked = time] = t
  OBVIOUS
<1>3. [s EXCEPT !.pc = "read", !.asked = time] = [[s EXCEPT !.pc = "read"] EXCEPT !.asked = time]
  OBVIOUS
<1> QED
  BY <1>1, <1>2, <1>3, Zenon

LEMMA Answers ==
    ASSUME NEW l, NEW s, NEW t,
           s = [pc |-> "read", asked |-> s.asked, answer |-> s.answer, observedAt |-> 0],
           t = [pc |-> "answer", asked |-> s.asked, answer |-> l, observedAt |-> 0]
    PROVE  s.pc = "read" /\ t = [s EXCEPT !.pc = "answer", !.answer = l]
<1> DEFINE r == [pc |-> "answer", asked |-> s.asked, answer |-> s.answer, observedAt |-> 0]
<1>1. s.pc = "read" /\ [s EXCEPT !.pc = "answer"] = r
  OBVIOUS
<1>2. [r EXCEPT !.answer = l] = t
  OBVIOUS
<1>3. [s EXCEPT !.pc = "answer", !.answer = l] = [[s EXCEPT !.pc = "answer"] EXCEPT !.answer = l]
  OBVIOUS
<1> QED
  BY <1>1, <1>2, <1>3, Zenon

LEMMA Applies ==
    ASSUME NEW time, NEW s, NEW t,
           s = [pc |-> "answer", asked |-> s.asked, answer |-> s.answer, observedAt |-> 0],
           t = [pc |-> "snapshot", asked |-> 0, answer |-> s.answer, observedAt |-> time]
    PROVE  /\ s.pc = "answer"
           /\ t = [s EXCEPT !.pc = "snapshot", !.asked = 0, !.observedAt = time]
<1> DEFINE r == [pc |-> "snapshot", asked |-> s.asked, answer |-> s.answer, observedAt |-> 0]
           z == [pc |-> "snapshot", asked |-> 0, answer |-> s.answer, observedAt |-> 0]
<1>1. s.pc = "answer" /\ [s EXCEPT !.pc = "snapshot"] = r
  OBVIOUS
<1>2. [r EXCEPT !.asked = 0] = z
  OBVIOUS
<1>3. [z EXCEPT !.observedAt = time] = t
  OBVIOUS
<1>4. [s EXCEPT !.pc = "snapshot", !.asked = 0, !.observedAt = time]
         = [[[s EXCEPT !.pc = "snapshot"] EXCEPT !.asked = 0] EXCEPT !.observedAt = time]
  OBVIOUS
<1> QED
  BY <1>1, <1>2, <1>3, <1>4, Zenon

\* What one step of a monitor is to the history.
LEMMA SeenSteps ==
    ASSUME MonitorInv, MonitorInv', NEW p \in Processes, MonitorStep(p) \/ SnapshotDone(p)
    PROVE  LET s == Seen(mon[p])
               t == Seen(mon'[p])
           IN  \/ t = s
               \/ s.pc = "idle" /\ t = [s EXCEPT !.pc = "read", !.asked = clock]
               \/ s.pc = "read" /\ t = [s EXCEPT !.pc = "answer", !.answer = list]
               \/ s.pc = "answer"
                  /\ t = [s EXCEPT !.pc = "snapshot", !.asked = 0, !.observedAt = clock]
               \/ s.pc # "idle" /\ t = Observed!IdleObserver
<1> DEFINE s == Seen(mon[p])
           t == Seen(mon'[p])
<1>1. /\ mon \in [Processes -> Monitor] /\ mon' \in [Processes -> Monitor]
      /\ mon[p] \in Monitor /\ mon'[p] \in Monitor
      /\ UNCHANGED list /\ UNCHANGED clock
  <2>1. mon \in [Processes -> Monitor] /\ mon' \in [Processes -> Monitor]
    BY DEF MonitorInv, MonitorTypeOK
  <2>2. UNCHANGED list /\ UNCHANGED clock
    BY DEF MonitorStep, SnapshotDone, Check, Pause, LoginAccepted, ListRead, Apply, RequestFails,
           RateLimited, LoginRejected, SessionRejected, Stop, Restart
  <2> QED
    BY <2>1, <2>2
<1>2. /\ mon[p].pc \in {"idle", "login"} => s = Observed!IdleObserver
      /\ mon'[p].pc \in {"idle", "login"} => t = Observed!IdleObserver
      /\ mon'[p].pc \in {"read"} => mon'[p].answer = Observed!Nothing
  <2>1. mon[p].pc \in {"idle", "login"} => s = Observed!IdleObserver
    BY SeenIdle
  <2>2. Keeps(mon[p], deadline[p], rejected[p])'
    BY DEF MonitorInv
  <2>3. mon'[p].pc \notin {"answer", "snapshot"} => mon'[p].answer = Observed!Nothing
    BY <2>2 DEF Keeps, Observed!Nothing
  <2> QED
    BY <2>1, <2>3, SeenFields DEF Observed!IdleObserver
<1>3. CASE mon'[p].pc \in {"idle", "login"}
  <2>1. mon[p].pc \in {"read", "answer", "snapshot"} => s.pc # "idle"
    BY SeenFields
  <2> QED
    BY <1>1, <1>2, <1>3, <2>1 DEF Monitor
<1>4. CASE mon'[p].pc \in {"read", "answer", "snapshot"}
  <2>1. CASE Check(p) \/ LoginAccepted(p)
    <3>1. mon[p].pc \in {"idle", "login"} /\ mon'[p].pc = "read" /\ mon'[p].asked = clock
      <4>1. CASE LoginAccepted(p)
        <5> DEFINE m == [mon[p] EXCEPT !.token = ~mon[p].stopped]
        <5>1. m \in Monitor
          BY <1>1 DEF Monitor
        <5>2. mon'[p] = Request(m, "read") /\ mon[p].pc = "login"
          BY <1>1, <4>1 DEF LoginAccepted, At
        <5> QED
          BY <1>4, <5>1, <5>2, RequestValues
      <4>2. CASE Check(p)
        <5> DEFINE state == IF mon[p].state # "paused" THEN mon[p].state
                            ELSE IF mon[p].failed THEN "error" ELSE "checking"
                   m == [mon[p] EXCEPT !.hadToken = mon[p].token, !.state = state]
        <5>1. state \in {"checking", "connected", "error", "paused"}
          BY <1>1 DEF Monitor
        <5>2. m \in Monitor
          <6> HIDE DEF state
          <6> QED
            BY <1>1, <5>1 DEF Monitor
        <5>3. /\ mon'[p] = Request(m, IF mon[p].token THEN "read" ELSE "login")
              /\ mon[p].pc = "idle"
          BY <1>1, <4>2 DEF Check, At
        <5> QED
          BY <1>4, <5>2, <5>3, RequestValues
      <4> QED
        BY <2>1, <4>1, <4>2
    <3>2. s = Observed!IdleObserver /\ mon'[p].answer = Observed!Nothing
      BY <1>2, <3>1
    <3>3. /\ s = [pc |-> "idle", asked |-> 0, answer |-> Observed!Nothing, observedAt |-> 0]
          /\ t = [pc |-> "read", asked |-> clock, answer |-> Observed!Nothing, observedAt |-> 0]
      BY <3>1, <3>2, SeenFields DEF Observed!IdleObserver
    <3> HIDE DEF s, t
    <3>4. s.pc = "idle" /\ t = [s EXCEPT !.pc = "read", !.asked = clock]
      BY <3>3, Asks, Zenon
    <3> QED
      BY <3>4, Zenon DEF s, t
  <2>2. CASE ListRead(p)
    <3>1. /\ mon[p].pc = "read" /\ mon'[p].pc = "answer" /\ mon'[p].answer = list
          /\ mon'[p].asked = mon[p].asked
      BY <1>1, <2>2 DEF ListRead, At, Monitor
    <3>2. /\ s = [pc |-> "read", asked |-> s.asked, answer |-> s.answer, observedAt |-> 0]
          /\ t = [pc |-> "answer", asked |-> s.asked, answer |-> list, observedAt |-> 0]
      BY <3>1, SeenFields
    <3> HIDE DEF s, t
    <3>4. s.pc = "read" /\ t = [s EXCEPT !.pc = "answer", !.answer = list]
      BY <3>2, Answers, Zenon
    <3> QED
      BY <3>4, Zenon DEF s, t
  <2>3. CASE Apply(p)
    <3>1. /\ mon[p].pc = "answer" /\ mon'[p].pc = "snapshot" /\ mon'[p].answer = mon[p].answer
          /\ mon'[p].lastSuccessAt = clock
      BY <1>1, <1>4, <2>3 DEF Apply, At, Idle, Paused, Monitor
    <3>2. /\ s = [pc |-> "answer", asked |-> s.asked, answer |-> s.answer, observedAt |-> 0]
          /\ t = [pc |-> "snapshot", asked |-> 0, answer |-> s.answer, observedAt |-> clock]
      BY <3>1, SeenFields
    <3> HIDE DEF s, t
    <3>4. /\ s.pc = "answer"
          /\ t = [s EXCEPT !.pc = "snapshot", !.asked = 0, !.observedAt = clock]
      BY <3>2, Applies, Zenon
    <3> QED
      BY <3>4, Zenon DEF s, t
  <2>4. CASE Stop(p)
    <3>1. /\ mon'[p].pc = mon[p].pc /\ mon'[p].answer = mon[p].answer
          /\ mon'[p].asked = mon[p].asked /\ mon'[p].lastSuccessAt = mon[p].lastSuccessAt
      BY <1>1, <2>4 DEF Stop, Monitor
    <3> QED
      BY <1>4, <3>1, SeenFields
  <2>5. CASE Pause(p) \/ Restart(p) \/ SnapshotDone(p)
    <3>2. \A m \in Monitor : Idle(m).pc = "idle" /\ Paused(m).pc = "idle"
      BY DEF Idle, Paused, Monitor
    <3>1. mon'[p].pc = "idle"
      BY <1>1, <2>5, <3>2, NewMonitorKeeps DEF Pause, Restart, SnapshotDone
    <3> QED
      BY <1>4, <3>1
  <2>6. CASE RequestFails(p) \/ RateLimited(p) \/ LoginRejected(p) \/ SessionRejected(p)
    <3>1. \A m \in Monitor : \A code, wait : Failed(m, code, wait).pc = "idle"
      BY DEF Failed, Idle, Paused, Monitor
    <3>2. mon'[p].pc \in {"idle", "login"}
      <4>1. CASE SessionRejected(p)
        <5> DEFINE m == [mon[p] EXCEPT !.token = FALSE, !.hadToken = FALSE]
        <5>1. m \in Monitor
          BY <1>1 DEF Monitor
        <5>2. mon'[p] = Request(m, "login") \/ mon'[p] = Failed(mon[p], "authentication", 0)
          BY <1>1, <4>1 DEF SessionRejected
        <5> QED
          BY <1>1, <3>1, <5>1, <5>2, RequestValues
      <4>2. CASE RequestFails(p) \/ RateLimited(p) \/ LoginRejected(p)
        BY <1>1, <3>1, <4>2 DEF RequestFails, RateLimited, LoginRejected
      <4> QED
        BY <2>6, <4>1, <4>2
    <3> QED
      BY <1>4, <3>2
  <2> QED
    BY <2>1, <2>2, <2>3, <2>4, <2>5, <2>6 DEF MonitorStep
<1> QED
  BY <1>1, <1>3, <1>4 DEF Monitor

LEMMA ObserverBegins == MonitorInit => Observed!ObserverInit
<1> SUFFICES ASSUME MonitorInit
             PROVE  Observed!ObserverInit
  OBVIOUS
<1>1. Seen(NewMonitor) = Observed!IdleObserver
  BY NewMonitorKeeps, SeenFields DEF Observed!IdleObserver, Observed!Nothing
<1>2. [p \in Processes |-> Seen(mon[p])] = [p \in Processes |-> Observed!IdleObserver]
  BY <1>1 DEF MonitorInit
<1> QED
  BY <1>2 DEF MonitorInit, Observed!ObserverInit, Observed!Nothing

LEMMA ObserverGoesOn ==
    ASSUME MonitorInv, MonitorInv', [MonitorNext]_monitorVars
    PROVE  [Observed!ObserverNext]_(Observed!observerVars)
<1> DEFINE obs1 == [p \in Processes |-> Seen(mon[p])]
<1>1. ASSUME UNCHANGED mon PROVE UNCHANGED obs1
  BY <1>1
<1>2. ASSUME NEW p \in Processes, MonitorStep(p) \/ SnapshotDone(p)
      PROVE  [Observed!ObserverNext]_(Observed!observerVars)
  <2> DEFINE s == Seen(mon[p])
             t == Seen(mon'[p])
  <2>1. UNCHANGED list /\ UNCHANGED clock
    BY <1>2 DEF MonitorStep, SnapshotDone, Check, Pause, LoginAccepted, ListRead, Apply,
                RequestFails, RateLimited, LoginRejected, SessionRejected, Stop, Restart
  <2>2. obs1' = [obs1 EXCEPT ![p] = t]
    <3>1. \A q \in Processes : obs1'[q] = [obs1 EXCEPT ![p] = t][q]
      BY <1>2, OwnMonitor
    <3> QED
      BY <3>1
  <2>3. obs1[p] = s
    OBVIOUS
  <2>4. CASE t = s
    BY <2>1, <2>2, <2>3, <2>4 DEF Observed!observerVars
  <2>5. CASE s.pc = "idle" /\ t = [s EXCEPT !.pc = "read", !.asked = clock]
    BY <2>1, <2>2, <2>3, <2>5 DEF Observed!ObserverNext, Observed!Ask, Observed!At
  <2>6. CASE s.pc = "read" /\ t = [s EXCEPT !.pc = "answer", !.answer = list]
    BY <2>1, <2>2, <2>3, <2>6 DEF Observed!ObserverNext, Observed!Read, Observed!At
  <2>7. CASE /\ s.pc = "answer"
             /\ t = [s EXCEPT !.pc = "snapshot", !.asked = 0, !.observedAt = clock]
    BY <2>1, <2>2, <2>3, <2>7 DEF Observed!ObserverNext, Observed!Apply, Observed!At
  <2>8. CASE s.pc # "idle" /\ t = Observed!IdleObserver
    BY <2>1, <2>2, <2>3, <2>8 DEF Observed!ObserverNext, Observed!Release, Observed!At
  <2> QED
    BY <1>2, <2>4, <2>5, <2>6, <2>7, <2>8, SeenSteps, Zenon
<1>3. ASSUME NEW o \in Orders, ListChanges(o)
      PROVE  [Observed!ObserverNext]_(Observed!observerVars)
  BY <1>1, <1>3 DEF ListChanges, Observed!ObserverNext, Observed!ListChanges
<1>4. ASSUME Tick PROVE [Observed!ObserverNext]_(Observed!observerVars)
  <2>1. \A p \in Processes :
           obs1[p].pc \in {"read", "answer"} => clock < obs1[p].asked + RequestTime
    <3> TAKE p \in Processes
    <3>1. mon[p].pc \in {"login", "read", "answer"} => clock < mon[p].asked + RequestTime
      BY <1>4 DEF Tick
    <3> QED
      BY <3>1 DEF Seen
  <2> QED
    BY <1>1, <1>4, <2>1 DEF Tick, Observed!ObserverNext, Observed!Tick
<1>5. CASE UNCHANGED monitorVars
  BY <1>1, <1>5 DEF monitorVars, Observed!observerVars
<1> QED
  BY <1>2, <1>3, <1>4, <1>5 DEF MonitorNext

\* A monitor implements what the history relies on: whatever its logins, failures, delays,
\* hours, stops and restarts, it hands over lists read within one request, at the time they
\* were applied (integrations/bnd/monitor.ts:100-260).
THEOREM MonitorImplementsObserver == MonitorSpec => ImplementsObserver
BY ObserverBegins, ObserverGoesOn, MonitorStands, PTL
   DEF MonitorSpec, ImplementsObserver, Observed!ObserverSpec

-----------------------------------------------------------------------------
(***************************************************************************)
(* The email alerts                                                        *)
(***************************************************************************)

\* A processor with a call at hand took it a short time ago; once it claimed the receipt, the
\* receipt was written less than the retry window before; and what is about to be sent was in
\* hand when the switch was turned off, if it is off.
EmailKeeps(m, rs) ==
    /\ m.pc \notin {"idle", "start"} => m.attempted < MaxAttempts
    /\ m.order = {} \/ \E o \in Orders : m.order = {o}
    /\ m.pc \in {"receipt", "claim", "confirm", "go", "send", "mark"} =>
          m.order # {} /\ 0 <= m.now /\ m.now <= clock /\ clock <= m.now + SendDelay
    /\ m.pc \in {"claim", "confirm", "go", "send", "mark"} =>
          \A o \in m.order : rs[o].createdAt >= 0
    /\ m.pc \in {"confirm", "go", "send", "mark"} =>
          \A o \in m.order : rs[o].createdAt >= m.now - RetryWindow
    /\ m.pc = "send" \/ (m.pc = "go" /\ m.on = TRUE) => enabled = TRUE \/ m.inHand = TRUE

\* The receipt, the key and the emails of a call: a key is not older than its receipt.
CallKeeps(receipt, key, emails) ==
    /\ receipt = Emails!NoReceipt \/ receipt.createdAt >= 0
    /\ receipt.createdAt <= clock
    /\ receipt.sentAt # Never => receipt.claimedAt = Never
    /\ key # Never => receipt.createdAt >= 0 /\ key >= receipt.createdAt
    /\ emails <= 1
    /\ key = Never => emails = 0

EmailInv ==
    /\ Emails!EmailTypeOK
    /\ \A o \in Orders : CallKeeps(receipts[o], keys[o], delivered[o])
    /\ \A p \in Servers : EmailKeeps(proc[p], receipts)
    /\ sentLate = FALSE

LEMMA EmailValues ==
    ASSUME EmailInv
    PROVE  /\ clock \in Nat /\ SendDelay \in Nat /\ RetryWindow \in Nat /\ KeyWindow \in Nat
           /\ MaxAttempts \in Nat /\ ClaimTime \in Nat /\ RetryWindow + SendDelay < KeyWindow
           /\ enabled \in BOOLEAN
           /\ \A p \in Servers : /\ proc[p] \in Emails!Processor /\ EmailKeeps(proc[p], receipts)
                                 /\ fresh[p] \in SUBSET Orders
           /\ \A o \in Orders : /\ receipts[o] \in Emails!Receipt /\ keys[o] \in Int
                                /\ delivered[o] \in Nat
                                /\ CallKeeps(receipts[o], keys[o], delivered[o])
BY CallsAssumption DEF EmailInv, Emails!EmailTypeOK, Emails!EmailAssumption

LEMMA SameCardinality == \A S : Emails!Cardinality(S) = Cardinality(S)
BY DEF Cardinality, Emails!Cardinality

LEMMA OneSubject ==
    ASSUME NEW S, S = {} \/ \E o \in Orders : S = {o}
    PROVE  Emails!Cardinality(S) <= 1
<1>1. Cardinality({}) = 0
  BY FS_EmptySet
<1>2. \A o \in Orders : Cardinality({o}) = 1
  BY FS_Singleton
<1> QED
  BY <1>1, <1>2, SameCardinality

\* A step of one processor.
LEMMA OneProcessor ==
    ASSUME EmailInv, NEW p \in Servers, NEW m \in Emails!Processor,
           proc' = [proc EXCEPT ![p] = m], UNCHANGED <<clock, fresh, enabled>>,
           EmailKeeps(m, receipts'),
           receipts' \in [Orders -> Emails!Receipt], keys' \in [Orders -> Int],
           delivered' \in [Orders -> Nat], sentLate' = FALSE,
           \A o \in Orders : CallKeeps(receipts'[o], keys'[o], delivered'[o]),
           \A o \in Orders : receipts[o].createdAt >= 0 =>
                                receipts'[o].createdAt = receipts[o].createdAt
    PROVE  EmailInv'
<1>1. /\ proc' \in [Servers -> Emails!Processor] /\ proc'[p] = m
      /\ \A q \in Servers : q # p => proc'[q] = proc[q]
  BY DEF EmailInv, Emails!EmailTypeOK
<1>2. \A q \in Servers : EmailKeeps(proc'[q], receipts')
  <2> TAKE q \in Servers
  <2>1. CASE q = p
    BY <1>1, <2>1
  <2>2. CASE q # p
    <3>1. EmailKeeps(proc[q], receipts) /\ proc'[q] = proc[q]
      BY <1>1, <2>2, EmailValues
    <3>2. \A o \in proc[q].order : o \in Orders
      BY <3>1 DEF EmailKeeps
    <3> QED
      BY <3>1, <3>2 DEF EmailKeeps
  <2> QED
    BY <2>1, <2>2
<1>3. \A q \in Servers : Emails!Cardinality(proc'[q].order) <= 1
  BY <1>2, OneSubject DEF EmailKeeps
<1>4. \A o \in Orders : receipts'[o].sentAt # Never => receipts'[o].claimedAt = Never
  BY DEF CallKeeps
<1>5. Emails!EmailTypeOK'
  <2>1. /\ clock' \in 0 .. EmailEnd /\ enabled' \in BOOLEAN
        /\ fresh' \in [Servers -> SUBSET Orders]
    BY DEF EmailInv, Emails!EmailTypeOK
  <2>2. \A o \in Orders :
           receipts'[o].sentAt # Emails!Never => receipts'[o].claimedAt = Emails!Never
    BY <1>4 DEF Emails!Never, Never
  <2>3. sentLate' \in BOOLEAN
    OBVIOUS
  <2> QED
    BY <1>1, <1>3, <2>1, <2>2, <2>3, Zenon DEF Emails!EmailTypeOK
<1> QED
  BY <1>2, <1>5 DEF EmailInv, EmailKeeps, CallKeeps

LEMMA SameReceipts ==
    ASSUME EmailInv, NEW p \in Servers, NEW m \in Emails!Processor, EmailKeeps(m, receipts),
           proc' = [proc EXCEPT ![p] = m],
           UNCHANGED <<clock, fresh, enabled, receipts, keys, delivered, sentLate>>
    PROVE  EmailInv'
BY OneProcessor DEF EmailInv, Emails!EmailTypeOK

LEMMA IdleProcessorKeeps ==
    ASSUME EmailInv, NEW rs
    PROVE  Emails!IdleProcessor \in Emails!Processor /\ EmailKeeps(Emails!IdleProcessor, rs)
<1>1. Emails!IdleProcessor \in Emails!Processor /\ Emails!IdleProcessor.pc = "idle"
      /\ Emails!IdleProcessor.order = {}
  BY EmailValues DEF Emails!IdleProcessor, Emails!Processor
<1> QED
  BY <1>1 DEF EmailKeeps

LEMMA SubjectValues ==
    ASSUME NEW m \in Emails!Processor, NEW pc \in {"loop", "receipt"},
           NEW order \in SUBSET Orders, NEW time \in Int
    PROVE  [m EXCEPT !.pc = pc, !.order = order, !.now = time] \in Emails!Processor
BY DEF Emails!Processor

LEMMA LoopValues ==
    ASSUME NEW m \in Emails!Processor
    PROVE  [m EXCEPT !.pc = "loop", !.on = FALSE, !.order = {}, !.now = 0, !.inHand = FALSE]
               \in Emails!Processor
<1> DEFINE l == [m EXCEPT !.on = FALSE, !.inHand = FALSE]
<1>1. l \in Emails!Processor
  BY DEF Emails!Processor
<1>2. [l EXCEPT !.pc = "loop", !.order = {}, !.now = 0] \in Emails!Processor
  <2> HIDE DEF l
  <2>1. {} \in SUBSET Orders /\ 0 \in Int /\ "loop" \in {"loop", "receipt"}
    OBVIOUS
  <2> QED
    BY <1>1, <2>1, SubjectValues, Zenon
<1>3. [m EXCEPT !.pc = "loop", !.on = FALSE, !.order = {}, !.now = 0, !.inHand = FALSE]
         = [l EXCEPT !.pc = "loop", !.order = {}, !.now = 0]
  BY DEF Emails!Processor
<1> QED
  BY <1>2, <1>3

LEMMA OnwardKeeps ==
    ASSUME EmailInv, NEW rs, NEW m \in Emails!Processor
    PROVE  Emails!Onward(m) \in Emails!Processor /\ EmailKeeps(Emails!Onward(m), rs)
<1>1. CASE m.todo = {} \/ m.attempted = MaxAttempts
  BY <1>1, IdleProcessorKeeps DEF Emails!Onward
<1>2. CASE ~(m.todo = {} \/ m.attempted = MaxAttempts)
  <2> DEFINE n == [m EXCEPT !.pc = "loop", !.on = FALSE, !.order = {}, !.now = 0,
                            !.inHand = FALSE]
  <2>1. Emails!Onward(m) = n
    BY <1>2 DEF Emails!Onward
  <2>4. n \in Emails!Processor
    BY LoopValues
  <2>2. n \in Emails!Processor /\ n.pc = "loop" /\ n.order = {} /\ n.attempted = m.attempted
    BY <2>4 DEF Emails!Processor
  <2>3. m.attempted < MaxAttempts
    BY <1>2, EmailValues DEF Emails!Processor
  <2> HIDE DEF n
  <2> QED
    BY <2>1, <2>2, <2>3 DEF EmailKeeps
<1> QED
  BY <1>1, <1>2

LEMMA AttemptKeeps ==
    ASSUME EmailInv, NEW rs, NEW m \in Emails!Processor, m.attempted < MaxAttempts
    PROVE  Emails!AttemptDone(m) \in Emails!Processor /\ EmailKeeps(Emails!AttemptDone(m), rs)
<1>1. m.attempted + 1 \in 0 .. MaxAttempts
  BY EmailValues DEF Emails!Processor
<1>2. [m EXCEPT !.attempted = m.attempted + 1] \in Emails!Processor
  BY <1>1 DEF Emails!Processor
<1> QED
  BY <1>2, OnwardKeeps DEF Emails!AttemptDone

LEMMA EmailsBegin == Emails!Init => EmailInv
<1> SUFFICES ASSUME Emails!Init
             PROVE  EmailInv
  OBVIOUS
<1> USE DEF Emails!Init
<1>1. MaxAttempts \in Nat /\ EmailEnd \in Nat /\ clock = 0
  BY CallsAssumption DEF Emails!EmailAssumption
<1>2. Emails!IdleProcessor \in Emails!Processor /\ Emails!IdleProcessor.pc = "idle"
      /\ Emails!IdleProcessor.order = {}
  BY <1>1 DEF Emails!IdleProcessor, Emails!Processor
<1>3. Emails!NoReceipt \in Emails!Receipt /\ Emails!NoReceipt.createdAt = -1
      /\ Emails!NoReceipt.sentAt = -1
  BY DEF Emails!NoReceipt, Emails!Receipt, Emails!Never
<1>4. Emails!Cardinality({}) = 0
  BY FS_EmptySet, SameCardinality
<1>5. Emails!EmailTypeOK
  <2>4. clock \in 0 .. EmailEnd
    BY <1>1
  <2>5. enabled \in BOOLEAN /\ sentLate \in BOOLEAN
    BY Zenon
  <2>1. clock \in 0 .. EmailEnd /\ enabled \in BOOLEAN /\ sentLate \in BOOLEAN
    BY <2>4, <2>5, Zenon
  <2>2. /\ fresh \in [Servers -> SUBSET Orders] /\ proc \in [Servers -> Emails!Processor]
        /\ receipts \in [Orders -> Emails!Receipt] /\ keys \in [Orders -> Int]
        /\ delivered \in [Orders -> Nat]
    BY <1>2, <1>3 DEF Emails!Never
  <2>3. /\ \A p \in Servers : Emails!Cardinality(proc[p].order) <= 1
        /\ \A o \in Orders : receipts[o].sentAt # Emails!Never
                               => receipts[o].claimedAt = Emails!Never
    BY <1>2, <1>3, <1>4 DEF Emails!Never
  <2> QED
    BY <2>1, <2>2, <2>3, Zenon DEF Emails!EmailTypeOK
<1>6. \A o \in Orders : CallKeeps(receipts[o], keys[o], delivered[o])
  BY <1>1, <1>3 DEF CallKeeps, Emails!Never, Never
<1>7. \A p \in Servers : EmailKeeps(proc[p], receipts)
  BY <1>2 DEF EmailKeeps
<1> QED
  BY <1>5, <1>6, <1>7 DEF EmailInv

LEMMA ProcessorPc ==
    ASSUME NEW m \in Emails!Processor,
           NEW pc \in {"start", "claim", "confirm", "send", "mark"}
    PROVE  /\ [m EXCEPT !.pc = pc] \in Emails!Processor
           /\ [m EXCEPT !.pc = pc].pc = pc /\ [m EXCEPT !.pc = pc].order = m.order
           /\ [m EXCEPT !.pc = pc].now = m.now /\ [m EXCEPT !.pc = pc].attempted = m.attempted
           /\ [m EXCEPT !.pc = pc].inHand = m.inHand /\ [m EXCEPT !.pc = pc].on = m.on
BY DEF Emails!Processor

LEMMA SubjectOf ==
    ASSUME EmailInv, NEW p \in Servers, proc[p].order # {}
    PROVE  Emails!Subject(p) \in Orders /\ proc[p].order = {Emails!Subject(p)}
<1>1. PICK o \in Orders : proc[p].order = {o}
  BY EmailValues DEF EmailKeeps
<1> QED
  BY <1>1 DEF Emails!Subject

LEMMA CheckKeepsEmails ==
    ASSUME EmailInv, NEW p \in Servers, Emails!Check(p)
    PROVE  EmailInv'
<1> DEFINE n == [proc[p] EXCEPT !.pc = "start"]
<1>1. proc[p] \in Emails!Processor /\ EmailKeeps(proc[p], receipts)
  BY EmailValues
<1>2. n \in Emails!Processor /\ n.pc = "start" /\ n.order = proc[p].order
  BY <1>1, ProcessorPc
<1>3. proc' = [proc EXCEPT ![p] = n]
      /\ UNCHANGED <<clock, fresh, enabled, receipts, keys, delivered, sentLate>>
  BY DEF Emails!Check, Emails!Goto, Emails!dbVars, Emails!providerVars
<1> HIDE DEF n
<1>4. EmailKeeps(n, receipts)
  BY <1>1, <1>2 DEF EmailKeeps
<1> QED
  BY <1>2, <1>3, <1>4, SameReceipts

LEMMA StartKeepsEmails ==
    ASSUME EmailInv, NEW p \in Servers, Emails!Start(p)
    PROVE  EmailInv'
<1> DEFINE n == [Emails!IdleProcessor EXCEPT !.todo = fresh[p]]
<1>1. n \in Emails!Processor
  BY EmailValues, IdleProcessorKeeps DEF Emails!Processor
<1>2. /\ proc' = [proc EXCEPT ![p] = IF enabled THEN Emails!Onward(n) ELSE Emails!IdleProcessor]
      /\ UNCHANGED <<clock, fresh, enabled, receipts, keys, delivered, sentLate>>
  BY DEF Emails!Start, Emails!dbVars, Emails!providerVars
<1> QED
  BY <1>1, <1>2, OnwardKeeps, IdleProcessorKeeps, SameReceipts

LEMMA SwitchRead ==
    ASSUME NEW m \in Emails!Processor, NEW pc \in {"next", "go"}, NEW on \in BOOLEAN
    PROVE  LET n == [m EXCEPT !.pc = pc, !.on = on]
           IN  /\ n \in Emails!Processor /\ n.pc = pc /\ n.on = on /\ n.order = m.order
               /\ n.now = m.now /\ n.attempted = m.attempted
BY DEF Emails!Processor

LEMMA LoopReadsKeepsEmails ==
    ASSUME EmailInv, NEW p \in Servers, Emails!LoopReads(p)
    PROVE  EmailInv'
<1> DEFINE n == [proc[p] EXCEPT !.pc = "next", !.on = enabled]
<1>1. proc[p] \in Emails!Processor /\ EmailKeeps(proc[p], receipts) /\ enabled \in BOOLEAN
  BY EmailValues
<1>2. /\ n \in Emails!Processor /\ n.pc = "next" /\ n.order = proc[p].order
      /\ n.attempted = proc[p].attempted
  BY <1>1, SwitchRead
<1>3. proc' = [proc EXCEPT ![p] = n] /\ proc[p].pc = "loop"
      /\ UNCHANGED <<clock, fresh, enabled, receipts, keys, delivered, sentLate>>
  BY <1>1 DEF Emails!LoopReads, Emails!At, Emails!dbVars, Emails!providerVars, EmailInv,
              Emails!EmailTypeOK
<1> HIDE DEF n
<1>4. EmailKeeps(n, receipts)
  BY <1>1, <1>2, <1>3 DEF EmailKeeps
<1> QED
  BY <1>2, <1>3, <1>4, SameReceipts

LEMMA ConfirmReadsKeepsEmails ==
    ASSUME EmailInv, NEW p \in Servers, Emails!ConfirmReads(p)
    PROVE  EmailInv'
<1> DEFINE n == [proc[p] EXCEPT !.pc = "go", !.on = enabled]
<1>1. proc[p] \in Emails!Processor /\ EmailKeeps(proc[p], receipts) /\ enabled \in BOOLEAN
  BY EmailValues
<1>2. /\ n \in Emails!Processor /\ n.pc = "go" /\ n.on = enabled /\ n.order = proc[p].order
      /\ n.now = proc[p].now /\ n.attempted = proc[p].attempted
  BY <1>1, SwitchRead
<1>3. proc' = [proc EXCEPT ![p] = n] /\ proc[p].pc = "confirm"
      /\ UNCHANGED <<clock, fresh, enabled, receipts, keys, delivered, sentLate>>
  BY <1>1 DEF Emails!ConfirmReads, Emails!At, Emails!dbVars, Emails!providerVars, EmailInv,
              Emails!EmailTypeOK
<1> HIDE DEF n
<1>4. EmailKeeps(n, receipts)
  BY <1>1, <1>2, <1>3 DEF EmailKeeps
<1> QED
  BY <1>2, <1>3, <1>4, SameReceipts

LEMMA NextOrderKeepsEmails ==
    ASSUME EmailInv, NEW p \in Servers, Emails!NextOrder(p)
    PROVE  EmailInv'
<1>1. /\ proc[p] \in Emails!Processor /\ EmailKeeps(proc[p], receipts)
      /\ clock \in Nat /\ SendDelay \in Nat
  BY EmailValues
<1>2. PICK o \in proc[p].todo :
         LET m == [proc[p] EXCEPT !.todo = proc[p].todo \ {o}]
         IN  proc' = [proc EXCEPT ![p] =
                 IF ~m.on THEN Emails!IdleProcessor
                 ELSE IF o \notin fresh[p] THEN Emails!Onward(m)
                 ELSE [m EXCEPT !.pc = "receipt", !.order = {o}, !.now = clock]]
  BY DEF Emails!NextOrder
<1> DEFINE m == [proc[p] EXCEPT !.todo = proc[p].todo \ {o}]
           n == [m EXCEPT !.pc = "receipt", !.order = {o}, !.now = clock]
<1>3. /\ proc[p].pc = "next"
      /\ UNCHANGED <<clock, fresh, enabled, receipts, keys, delivered, sentLate>>
  BY DEF Emails!NextOrder, Emails!At, Emails!dbVars, Emails!providerVars
<1>4. o \in Orders /\ {o} \in SUBSET Orders
  BY <1>1 DEF Emails!Processor
<1>5. m \in Emails!Processor /\ m.attempted = proc[p].attempted
  BY <1>1 DEF Emails!Processor
<1>6. /\ n \in Emails!Processor /\ n.pc = "receipt" /\ n.order = {o} /\ n.now = clock
      /\ n.attempted = m.attempted
  <2> HIDE DEF m
  <2>2. clock \in Int /\ "receipt" \in {"loop", "receipt"}
    BY <1>1
  <2>1. n \in Emails!Processor
    BY <1>4, <1>5, <2>2, SubjectValues, Zenon
  <2> QED
    BY <1>5, <2>1 DEF Emails!Processor
<1>7. \/ proc' = [proc EXCEPT ![p] = Emails!IdleProcessor]
      \/ proc' = [proc EXCEPT ![p] = Emails!Onward(m)]
      \/ proc' = [proc EXCEPT ![p] = n]
  BY <1>2
<1> HIDE DEF m, n
<1>8. EmailKeeps(n, receipts)
  BY <1>1, <1>3, <1>4, <1>5, <1>6 DEF EmailKeeps
<1> QED
  BY <1>3, <1>5, <1>6, <1>7, <1>8, OnwardKeeps, IdleProcessorKeeps, SameReceipts

\* A step of one processor that changes one receipt, and leaves the time it was created, if
\* it was.
LEMMA OneReceipt ==
    ASSUME EmailInv, NEW p \in Servers, NEW m \in Emails!Processor,
           proc' = [proc EXCEPT ![p] = m],
           UNCHANGED <<clock, fresh, enabled, keys, delivered, sentLate>>,
           NEW o \in Orders, NEW r \in Emails!Receipt, receipts' = [receipts EXCEPT ![o] = r],
           r.createdAt >= 0, r.createdAt <= clock,
           receipts[o].createdAt >= 0 => r.createdAt = receipts[o].createdAt,
           r.sentAt # Never => r.claimedAt = Never,
           EmailKeeps(m, receipts')
    PROVE  EmailInv'
<1>1. /\ receipts \in [Orders -> Emails!Receipt] /\ keys \in [Orders -> Int]
      /\ delivered \in [Orders -> Nat] /\ sentLate = FALSE
  BY DEF EmailInv, Emails!EmailTypeOK
<1>2. /\ receipts' \in [Orders -> Emails!Receipt] /\ receipts'[o] = r
      /\ \A q \in Orders : q # o => receipts'[q] = receipts[q]
  BY <1>1
<1>3. \A q \in Orders : receipts[q].createdAt >= 0 =>
                           receipts'[q].createdAt = receipts[q].createdAt
  BY <1>2
<1>4. Emails!NoReceipt.createdAt = -1
  BY DEF Emails!NoReceipt, Emails!Never
<1>5. \A q \in Orders : CallKeeps(receipts'[q], keys'[q], delivered'[q])
  <2> TAKE q \in Orders
  <2>1. CallKeeps(receipts[q], keys[q], delivered[q]) /\ keys'[q] = keys[q]
        /\ delivered'[q] = delivered[q]
    BY EmailValues
  <2>2. CASE q # o
    BY <1>2, <2>1, <2>2
  <2>3. CASE q = o
    BY <1>2, <1>4, <2>1, <2>3 DEF CallKeeps
  <2> QED
    BY <2>2, <2>3
<1> QED
  BY <1>1, <1>2, <1>3, <1>5, OneProcessor

LEMMA WriteReceiptKeepsEmails ==
    ASSUME EmailInv, NEW p \in Servers, Emails!WriteReceipt(p)
    PROVE  EmailInv'
<1> DEFINE o == Emails!Subject(p)
           m == proc[p]
           n == [m EXCEPT !.pc = "claim"]
           r == IF receipts[o] = Emails!NoReceipt
                THEN [Emails!NoReceipt EXCEPT !.createdAt = m.now] ELSE receipts[o]
<1>1. /\ m \in Emails!Processor /\ EmailKeeps(m, receipts) /\ m.pc = "receipt"
      /\ clock \in Nat /\ SendDelay \in Nat
  BY EmailValues DEF Emails!WriteReceipt, Emails!At
<1>2. o \in Orders /\ m.order = {o}
  BY <1>1, SubjectOf DEF EmailKeeps
<1>3. receipts[o] \in Emails!Receipt /\ CallKeeps(receipts[o], keys[o], delivered[o])
  BY <1>2, EmailValues
<1>4. /\ n \in Emails!Processor /\ n.pc = "claim" /\ n.order = {o} /\ n.now = m.now
      /\ n.attempted = m.attempted
  BY <1>1, <1>2, ProcessorPc
<1>5. /\ r \in Emails!Receipt /\ r.createdAt >= 0 /\ r.createdAt <= clock
      /\ receipts[o].createdAt >= 0 => r.createdAt = receipts[o].createdAt
      /\ r.sentAt # Never => r.claimedAt = Never
  BY <1>1, <1>3 DEF CallKeeps, EmailKeeps, Emails!NoReceipt, Emails!Receipt, Emails!Never, Never,
                    Emails!Processor
<1>6. /\ receipts' = [receipts EXCEPT ![o] = r] /\ proc' = [proc EXCEPT ![p] = n]
      /\ UNCHANGED <<clock, fresh, enabled, keys, delivered, sentLate>>
  BY <1>1, <1>2 DEF Emails!WriteReceipt, Emails!Goto, Emails!providerVars
<1>7. receipts'[o] = r
  BY <1>2, <1>6 DEF EmailInv, Emails!EmailTypeOK
<1> HIDE DEF n, r
<1>8. EmailKeeps(n, receipts')
  BY <1>1, <1>2, <1>4, <1>5, <1>7 DEF EmailKeeps
<1> HIDE DEF o
<1> QED
  BY <1>2, <1>4, <1>5, <1>6, <1>8, OneReceipt

LEMMA ClaimKeepsEmails ==
    ASSUME EmailInv, NEW p \in Servers, Emails!Claim(p)
    PROVE  EmailInv'
<1> DEFINE o == Emails!Subject(p)
           m == proc[p]
           n == [m EXCEPT !.pc = "confirm"]
           r == [receipts[o] EXCEPT !.claimedAt = m.now]
<1>1. /\ m \in Emails!Processor /\ EmailKeeps(m, receipts) /\ m.pc = "claim"
      /\ clock \in Nat /\ SendDelay \in Nat /\ RetryWindow \in Nat
  BY EmailValues DEF Emails!Claim, Emails!At
<1>2. o \in Orders /\ m.order = {o}
  BY <1>1, SubjectOf DEF EmailKeeps
<1>3. receipts[o] \in Emails!Receipt /\ CallKeeps(receipts[o], keys[o], delivered[o])
  BY <1>2, EmailValues
<1>4. /\ n \in Emails!Processor /\ n.pc = "confirm" /\ n.order = {o} /\ n.now = m.now
      /\ n.attempted = m.attempted
  BY <1>1, <1>2, ProcessorPc
<1>5. UNCHANGED <<clock, fresh, enabled, keys, delivered, sentLate>>
  BY DEF Emails!Claim, Emails!providerVars
<1>6. CASE Emails!Claimable(receipts[o], m.now)
  <2>1. receipts' = [receipts EXCEPT ![o] = r] /\ proc' = [proc EXCEPT ![p] = n]
    BY <1>3, <1>6 DEF Emails!Claim, Emails!Goto
  <2>2. /\ r \in Emails!Receipt /\ r.createdAt = receipts[o].createdAt
        /\ r.sentAt = receipts[o].sentAt
    BY <1>1, <1>3 DEF Emails!Receipt, Emails!Processor
  <2>3. r.sentAt = Never /\ r.createdAt >= m.now - RetryWindow
    BY <1>6, <2>2 DEF Emails!Claimable, Emails!Never, Never
  <2>4. r.createdAt >= 0 /\ r.createdAt <= clock
    BY <1>1, <1>2, <1>3, <2>2 DEF EmailKeeps, CallKeeps
  <2>5. receipts'[o] = r
    BY <1>2, <2>1 DEF EmailInv, Emails!EmailTypeOK
  <2> HIDE DEF n, r
  <2>6. EmailKeeps(n, receipts')
    BY <1>1, <1>2, <1>4, <2>3, <2>4, <2>5 DEF EmailKeeps
  <2> HIDE DEF o
  <2> QED
    BY <1>2, <1>4, <1>5, <2>1, <2>2, <2>3, <2>4, <2>6, OneReceipt
<1>7. CASE ~Emails!Claimable(receipts[o], m.now)
  <2>1. proc' = [proc EXCEPT ![p] = Emails!Onward(m)] /\ UNCHANGED receipts
    BY <1>7 DEF Emails!Claim
  <2> QED
    BY <1>1, <1>5, <2>1, OnwardKeeps, SameReceipts
<1> QED
  BY <1>6, <1>7

LEMMA GoKeepsEmails ==
    ASSUME EmailInv, NEW p \in Servers, Emails!Go(p)
    PROVE  EmailInv'
<1> DEFINE m == proc[p]
           n == [m EXCEPT !.pc = "send"]
<1>1. m \in Emails!Processor /\ EmailKeeps(m, receipts) /\ m.pc = "go"
  BY EmailValues DEF Emails!Go, Emails!At
<1>2. /\ proc' = [proc EXCEPT ![p] =
             IF ~m.on THEN Emails!IdleProcessor
             ELSE IF ~(m.order \subseteq fresh[p]) THEN Emails!Onward(m) ELSE n]
      /\ UNCHANGED <<clock, fresh, enabled, receipts, keys, delivered, sentLate>>
  BY DEF Emails!Go, Emails!dbVars, Emails!providerVars
<1>3. /\ n \in Emails!Processor /\ n.pc = "send" /\ n.order = m.order /\ n.now = m.now
      /\ n.attempted = m.attempted /\ n.inHand = m.inHand
  BY <1>1, ProcessorPc
<1>4. CASE ~m.on
  BY <1>2, <1>4, IdleProcessorKeeps, SameReceipts
<1>5. CASE m.on /\ ~(m.order \subseteq fresh[p])
  BY <1>1, <1>2, <1>5, OnwardKeeps, SameReceipts
<1>6. CASE m.on /\ m.order \subseteq fresh[p]
  <2>1. m.on = TRUE
    BY <1>1, <1>6 DEF Emails!Processor
  <2>2. proc' = [proc EXCEPT ![p] = n]
    BY <1>2, <1>6
  <2> HIDE DEF n
  <2>3. EmailKeeps(n, receipts)
    BY <1>1, <1>3, <2>1 DEF EmailKeeps
  <2> QED
    BY <1>2, <1>3, <2>2, <2>3, SameReceipts
<1> QED
  BY <1>4, <1>5, <1>6

\* The retries end before the provider forgets the key of a call.
LEMMA ProviderKeeps ==
    ASSUME EmailInv, NEW p \in Servers, Emails!Provider(p), NEW m \in Emails!Processor,
           proc' = [proc EXCEPT ![p] = m], EmailKeeps(m, receipts),
           UNCHANGED <<clock, fresh, enabled, receipts>>
    PROVE  EmailInv'
<1> DEFINE o == Emails!Subject(p)
           known == keys[o] # Never /\ clock < keys[o] + KeyWindow
<1>1. /\ proc[p] \in Emails!Processor /\ EmailKeeps(proc[p], receipts) /\ proc[p].pc = "send"
      /\ clock \in Nat /\ SendDelay \in Nat /\ RetryWindow \in Nat /\ KeyWindow \in Nat
      /\ RetryWindow + SendDelay < KeyWindow
  BY EmailValues DEF Emails!Provider, Emails!At
<1>2. o \in Orders /\ proc[p].order = {o}
  BY <1>1, SubjectOf DEF EmailKeeps
<1>3. /\ keys \in [Orders -> Int] /\ delivered \in [Orders -> Nat]
      /\ receipts \in [Orders -> Emails!Receipt]
  BY DEF EmailInv, Emails!EmailTypeOK
<1>4. /\ CallKeeps(receipts[o], keys[o], delivered[o]) /\ keys[o] \in Int
      /\ receipts[o].createdAt \in Int
  BY <1>2, EmailValues DEF Emails!Receipt
<1>5. /\ receipts[o].createdAt >= 0 /\ receipts[o].createdAt >= proc[p].now - RetryWindow
      /\ clock <= proc[p].now + SendDelay /\ proc[p].now \in Int
  BY <1>1, <1>2 DEF EmailKeeps, Emails!Processor
<1>6. keys[o] = Never \/ known
  BY <1>1, <1>4, <1>5 DEF CallKeeps
<1>7. /\ keys' = [keys EXCEPT ![o] = IF known THEN keys[o] ELSE clock]
      /\ delivered' = [delivered EXCEPT ![o] = IF known THEN delivered[o] ELSE delivered[o] + 1]
  BY <1>2, <1>3 DEF Emails!Provider, Emails!Never, Never
<1>8. sentLate' = FALSE
  <2>1. enabled = TRUE \/ proc[p].inHand = TRUE
    BY <1>1 DEF EmailKeeps
  <2>2. sentLate' = (sentLate \/ ~(enabled \/ proc[p].inHand)) /\ sentLate = FALSE
    BY DEF Emails!Provider, EmailInv
  <2> QED
    BY <2>1, <2>2, Zenon
<1>9. \A q \in Orders : CallKeeps(receipts'[q], keys'[q], delivered'[q])
  <2> TAKE q \in Orders
  <2>1. CallKeeps(receipts[q], keys[q], delivered[q])
    BY EmailValues
  <2>2. CASE q # o
    BY <1>2, <1>3, <1>7, <2>1, <2>2
  <2>3. CASE q = o /\ known
    BY <1>2, <1>3, <1>7, <2>1, <2>3
  <2>4. CASE q = o /\ ~known
    <3>1. keys[o] = Never /\ keys'[o] = clock /\ delivered'[o] = delivered[o] + 1
          /\ receipts'[o] = receipts[o]
      BY <1>2, <1>3, <1>6, <1>7, <2>4
    <3> HIDE DEF o, known
    <3> QED
      BY <1>1, <1>4, <1>5, <2>4, <3>1 DEF CallKeeps, Never
  <2> QED
    BY <2>2, <2>3, <2>4
<1>10. keys' \in [Orders -> Int] /\ delivered' \in [Orders -> Nat]
  BY <1>1, <1>2, <1>3, <1>7
<1> HIDE DEF o, known
<1> QED
  BY <1>3, <1>8, <1>9, <1>10, OneProcessor

LEMMA SendConfirmedKeepsEmails ==
    ASSUME EmailInv, NEW p \in Servers, Emails!SendConfirmed(p)
    PROVE  EmailInv'
<1> DEFINE m == proc[p]
           n == [m EXCEPT !.pc = "mark"]
<1>1. m \in Emails!Processor /\ EmailKeeps(m, receipts) /\ m.pc = "send"
  BY EmailValues DEF Emails!SendConfirmed, Emails!Provider, Emails!At
<1>2. /\ Emails!Provider(p) /\ proc' = [proc EXCEPT ![p] = n]
      /\ UNCHANGED <<clock, fresh, enabled, receipts>>
  BY DEF Emails!SendConfirmed, Emails!Goto, Emails!dbVars
<1>3. /\ n \in Emails!Processor /\ n.pc = "mark" /\ n.order = m.order /\ n.now = m.now
      /\ n.attempted = m.attempted
  BY <1>1, ProcessorPc
<1> HIDE DEF n
<1>4. EmailKeeps(n, receipts)
  BY <1>1, <1>3 DEF EmailKeeps
<1> QED
  BY <1>2, <1>3, <1>4, ProviderKeeps

LEMMA SendEndsKeepsEmails ==
    ASSUME EmailInv, NEW p \in Servers, Emails!SendLost(p) \/ Emails!SendRefused(p)
    PROVE  EmailInv'
<1>1. proc[p] \in Emails!Processor /\ proc[p].attempted < MaxAttempts
  BY EmailValues DEF EmailKeeps, Emails!SendLost, Emails!SendRefused, Emails!Provider, Emails!At
<1>2. /\ Emails!AttemptDone(proc[p]) \in Emails!Processor
      /\ EmailKeeps(Emails!AttemptDone(proc[p]), receipts)
  BY <1>1, AttemptKeeps
<1>3. CASE Emails!SendLost(p)
  BY <1>2, <1>3, ProviderKeeps DEF Emails!SendLost, Emails!dbVars
<1>4. CASE Emails!SendRefused(p)
  BY <1>2, <1>4, SameReceipts DEF Emails!SendRefused, Emails!dbVars, Emails!providerVars
<1> QED
  BY <1>3, <1>4

LEMMA MarkSentKeepsEmails ==
    ASSUME EmailInv, NEW p \in Servers, Emails!MarkSent(p)
    PROVE  EmailInv'
<1> DEFINE o == Emails!Subject(p)
           m == proc[p]
           r == IF receipts[o].claimedAt = m.now /\ receipts[o].sentAt = Never
                THEN [receipts[o] EXCEPT !.sentAt = clock, !.claimedAt = Never] ELSE receipts[o]
<1>1. /\ m \in Emails!Processor /\ EmailKeeps(m, receipts) /\ m.pc = "mark"
      /\ m.attempted < MaxAttempts /\ clock \in Nat
  BY EmailValues DEF EmailKeeps, Emails!MarkSent, Emails!At
<1>2. o \in Orders /\ m.order = {o}
  BY <1>1, SubjectOf DEF EmailKeeps
<1>3. receipts[o] \in Emails!Receipt /\ CallKeeps(receipts[o], keys[o], delivered[o])
      /\ receipts[o].createdAt >= 0
  BY <1>1, <1>2, EmailValues DEF EmailKeeps
<1>4. /\ r \in Emails!Receipt /\ r.createdAt = receipts[o].createdAt
      /\ r.createdAt >= 0 /\ r.createdAt <= clock /\ (r.sentAt # Never => r.claimedAt = Never)
  <2> DEFINE s == [receipts[o] EXCEPT !.sentAt = clock, !.claimedAt = Never]
  <2>1. clock \in Int /\ Never \in Int
    BY <1>1 DEF Never
  <2>2. s \in Emails!Receipt
    BY <1>3, <2>1 DEF Emails!Receipt
  <2>3. s.createdAt = receipts[o].createdAt /\ s.claimedAt = Never
    BY <1>3, <2>2 DEF Emails!Receipt
  <2>4. r = s \/ r = receipts[o]
    OBVIOUS
  <2> HIDE DEF r, s, o
  <2> QED
    BY <1>3, <2>2, <2>3, <2>4 DEF CallKeeps
<1>5. /\ receipts' = [receipts EXCEPT ![o] = r]
      /\ proc' = [proc EXCEPT ![p] = Emails!AttemptDone(m)]
      /\ UNCHANGED <<clock, fresh, enabled, keys, delivered, sentLate>>
  BY <1>2, <1>3 DEF Emails!MarkSent, Emails!providerVars, Emails!Never, Never
<1>6. /\ Emails!AttemptDone(m) \in Emails!Processor
      /\ EmailKeeps(Emails!AttemptDone(m), receipts')
  BY <1>1, AttemptKeeps
<1> HIDE DEF o, r, m
<1> QED
  BY <1>2, <1>4, <1>5, <1>6, OneReceipt

LEMMA ProcessorEndsKeepsEmails ==
    ASSUME EmailInv, NEW p \in Servers, Emails!DatabaseFails(p) \/ Emails!Restart(p)
    PROVE  EmailInv'
<1>1. proc[p] \in Emails!Processor /\ EmailKeeps(proc[p], receipts)
      /\ proc \in [Servers -> Emails!Processor]
  BY EmailValues DEF EmailInv, Emails!EmailTypeOK
<1>2. UNCHANGED <<clock, fresh, enabled, receipts, keys, delivered, sentLate>>
  BY DEF Emails!DatabaseFails, Emails!Restart, Emails!dbVars, Emails!providerVars
<1>3. CASE proc' = [proc EXCEPT ![p] = Emails!IdleProcessor]
  BY <1>2, <1>3, IdleProcessorKeeps, SameReceipts
<1>4. CASE proc[p].pc = "mark" /\ proc' = [proc EXCEPT ![p] = Emails!AttemptDone(proc[p])]
  <2>1. proc[p].attempted < MaxAttempts
    BY <1>1, <1>4 DEF EmailKeeps
  <2> QED
    BY <1>1, <1>2, <1>4, <2>1, AttemptKeeps, SameReceipts
<1>5. \/ proc' = [proc EXCEPT ![p] = Emails!IdleProcessor]
      \/ proc[p].pc = "mark" /\ proc' = [proc EXCEPT ![p] = Emails!AttemptDone(proc[p])]
  BY <1>1 DEF Emails!DatabaseFails, Emails!Restart, Emails!At
<1> QED
  BY <1>3, <1>4, <1>5

LEMMA InHandValue ==
    ASSUME NEW m \in Emails!Processor, NEW b \in BOOLEAN
    PROVE  LET n == [m EXCEPT !.inHand = b]
           IN  /\ n \in Emails!Processor /\ n.pc = m.pc /\ n.on = m.on /\ n.order = m.order
               /\ n.now = m.now /\ n.attempted = m.attempted /\ n.inHand = b
BY DEF Emails!Processor

LEMMA SaveEnabledKeepsEmails ==
    ASSUME EmailInv, Emails!SaveEnabled
    PROVE  EmailInv'
<1> DEFINE held(p) == enabled /\ proc[p].pc \in {"go", "send"}
           n(p) == [proc[p] EXCEPT !.inHand = held(p)]
<1>1. /\ enabled' = ~enabled /\ enabled \in BOOLEAN /\ proc' = [p \in Servers |-> n(p)]
      /\ UNCHANGED <<clock, fresh, receipts, keys, delivered, sentLate>>
  BY EmailValues DEF Emails!SaveEnabled, Emails!providerVars
<1>2. \A p \in Servers :
         /\ n(p) \in Emails!Processor /\ n(p).pc = proc[p].pc /\ n(p).on = proc[p].on
         /\ n(p).order = proc[p].order /\ n(p).now = proc[p].now
         /\ n(p).attempted = proc[p].attempted
         /\ n(p).inHand = held(p)
  <2> TAKE p \in Servers
  <2>1. proc[p] \in Emails!Processor /\ held(p) \in BOOLEAN
    BY EmailValues
  <2> HIDE DEF held
  <2> QED
    BY <2>1, InHandValue, Zenon
<1>3. \A p \in Servers : proc[p].pc \in {"go", "send"} => enabled' = TRUE \/ held(p) = TRUE
  BY <1>1
<1> HIDE DEF held, n
<1>4. \A p \in Servers : EmailKeeps(proc[p], receipts)'
  <2> TAKE p \in Servers
  <2>1. proc'[p] = n(p) /\ EmailKeeps(proc[p], receipts)
    BY <1>1, EmailValues
  <2> QED
    BY <1>1, <1>2, <1>3, <2>1 DEF EmailKeeps
<1>5. Emails!EmailTypeOK'
  <2>1. proc' \in [Servers -> Emails!Processor] /\ enabled' \in BOOLEAN
    BY <1>1, <1>2
  <2>2. \A p \in Servers : Emails!Cardinality(proc'[p].order) <= 1
    BY <1>4, OneSubject DEF EmailKeeps
  <2> QED
    BY <1>1, <2>1, <2>2 DEF EmailInv, Emails!EmailTypeOK
<1> QED
  BY <1>1, <1>4, <1>5 DEF EmailInv, CallKeeps

LEMMA StatusKeepsEmails ==
    ASSUME EmailInv, NEW p \in Servers, Emails!StatusChanges(p)
    PROVE  EmailInv'
<1>1. UNCHANGED <<clock, proc, enabled, receipts, keys, delivered, sentLate>>
  BY DEF Emails!StatusChanges, Emails!dbVars, Emails!providerVars
<1>2. fresh' \in [Servers -> SUBSET Orders]
  BY DEF Emails!StatusChanges, EmailInv, Emails!EmailTypeOK
<1>3. Emails!EmailTypeOK'
  BY <1>1, <1>2 DEF EmailInv, Emails!EmailTypeOK
<1> QED
  BY <1>1, <1>3 DEF EmailInv, EmailKeeps, CallKeeps

LEMMA TickKeepsEmails ==
    ASSUME EmailInv, Emails!Tick
    PROVE  EmailInv'
<1>1. /\ clock' = clock + 1 /\ clock < EmailEnd
      /\ UNCHANGED <<fresh, proc, enabled, receipts, keys, delivered, sentLate>>
      /\ \A p \in Servers : proc[p].order # {} => clock < proc[p].now + SendDelay
  BY DEF Emails!Tick, Emails!dbVars, Emails!providerVars
<1>2. /\ clock \in Nat /\ SendDelay \in Nat /\ EmailEnd \in Nat
  BY EmailValues, CallsAssumption DEF Emails!EmailAssumption
<1>3. Emails!EmailTypeOK'
  <2>1. clock' \in 0 .. EmailEnd
    BY <1>1, <1>2
  <2> QED
    BY <1>1, <2>1 DEF EmailInv, Emails!EmailTypeOK
<1>4. \A p \in Servers : EmailKeeps(proc[p], receipts)'
  <2> TAKE p \in Servers
  <2>1. EmailKeeps(proc[p], receipts) /\ proc[p].now \in Int
    BY EmailValues DEF Emails!Processor
  <2> QED
    BY <1>1, <1>2, <2>1 DEF EmailKeeps
<1>5. \A o \in Orders : CallKeeps(receipts[o], keys[o], delivered[o])'
  <2> TAKE o \in Orders
  <2>1. CallKeeps(receipts[o], keys[o], delivered[o]) /\ receipts[o].createdAt \in Int
    BY EmailValues DEF Emails!Receipt
  <2> QED
    BY <1>1, <1>2, <2>1 DEF CallKeeps
<1> QED
  BY <1>1, <1>3, <1>4, <1>5 DEF EmailInv

LEMMA EmailsGoOn == EmailInv /\ [Emails!Next]_(Emails!vars) => EmailInv'
<1> SUFFICES ASSUME EmailInv, [Emails!Next]_(Emails!vars)
             PROVE  EmailInv'
  OBVIOUS
<1>1. ASSUME NEW p \in Servers, Emails!ProcessorStep(p)
      PROVE  EmailInv'
  BY <1>1, CheckKeepsEmails, StartKeepsEmails, LoopReadsKeepsEmails, NextOrderKeepsEmails,
     WriteReceiptKeepsEmails, ClaimKeepsEmails, ConfirmReadsKeepsEmails, GoKeepsEmails,
     SendConfirmedKeepsEmails, SendEndsKeepsEmails, MarkSentKeepsEmails,
     ProcessorEndsKeepsEmails DEF Emails!ProcessorStep
<1>2. CASE UNCHANGED Emails!vars
  BY <1>2 DEF Emails!vars, Emails!dbVars, Emails!providerVars, EmailInv, Emails!EmailTypeOK,
              EmailKeeps, CallKeeps
<1> QED
  BY <1>1, <1>2, StatusKeepsEmails, SaveEnabledKeepsEmails, TickKeepsEmails DEF Emails!Next

\* Whatever is lost, retried, restarted or sent by two processes at a time, a call is emailed
\* once, because the retries end before the provider forgets its key; and once the switch is
\* off only an email that was past its last look at the switch is sent
\* (bndEmailAlerts.service.ts:60-147).
THEOREM EmailsAreSound == Emails!Spec => []EmailsSound
<1>1. EmailInv => EmailsSound
  BY EmailValues DEF EmailInv, EmailsSound, Emails!OneEmailPerOrder, Emails!OffStopsEmails,
                     CallKeeps
<1> QED
  BY <1>1, EmailsBegin, EmailsGoOn, PTL DEF Emails!Spec

-----------------------------------------------------------------------------
(***************************************************************************)
(* The waiting history                                                     *)
(***************************************************************************)

CheckedAt(cs, t) == \E k \in DOMAIN cs : cs[k].checkedAt = t

\* No gap longer than two polls between the checks from a to b.
Covers(cs, a, b) ==
    \A t \in a .. b - 1 :
       \E k \in DOMAIN cs : /\ cs[k].checkedAt > t
                            /\ cs[k].checkedAt <= t + 2 * HistoryPoll
                            /\ cs[k].checkedAt <= b

\* What the checks say of a period: it was last seen waiting, and closed, by one of them, and
\* watched without a gap until it was last seen, or overdue.
PeriodKeeps(cs, period) ==
    /\ period.firstSeenAt <= period.lastSeenWaitingAt
    /\ CheckedAt(cs, period.lastSeenWaitingAt)
    /\ period.endObservedAt # Never => CheckedAt(cs, period.endObservedAt)
    /\ Covers(cs, period.firstSeenAt, period.lastSeenWaitingAt)
    /\ period.overFiveMinutesAt # Never =>
          /\ period.overFiveMinutesAt - period.firstSeenAt > OverdueAfter
          /\ Covers(cs, period.firstSeenAt, period.overFiveMinutesAt)

HistoryInv ==
    /\ History!ObserverTypeOK
    /\ checks \in Seq(History!CheckRow)
    /\ periods \in Seq(History!Period)
    /\ \A i \in DOMAIN periods : PeriodKeeps(checks, periods[i])
    /\ History!PeriodsDisjoint

LEMMA HistoryValues ==
    /\ HistoryPoll \in Nat /\ OverdueAfter \in Nat /\ HistoryEnd \in Nat
    /\ IsFiniteSet(Orders)
    /\ \A S : History!Cardinality(S) = Cardinality(S)
<1>1. /\ HistoryPoll \in Nat /\ OverdueAfter \in Nat /\ HistoryEnd \in Nat
      /\ History!IsFiniteSet(Orders)
  BY CallsAssumption DEF History!HistoryAssumption
<1>2. IsFiniteSet(Orders)
  BY <1>1 DEF IsFiniteSet, History!IsFiniteSet
<1>3. \A S : History!Cardinality(S) = Cardinality(S)
  BY DEF Cardinality, History!Cardinality
<1> QED
  BY <1>1, <1>2, <1>3

\* As many periods are created as there are new calls, so each call gets one.
LEMMA CreatedOnce ==
    ASSUME NEW S, IsFiniteSet(S), NEW created \in [1 .. Cardinality(S) -> S],
           \A o \in S : \E i \in DOMAIN created : created[i] = o
    PROVE  \A i, j \in 1 .. Cardinality(S) : created[i] = created[j] => i = j
<1> DEFINE n == Cardinality(S)
<1>1. n \in Nat
  BY FS_CardinalityType
<1>2. IsFiniteSet(1 .. n) /\ Cardinality(1 .. n) = n
  BY <1>1, FS_Interval
<1>3. created \in Surjection(1 .. n, S)
  BY DEF Surjection
<1>4. created \in Injection(1 .. n, S)
  BY <1>2, <1>3, FS_SurjSameCardinalityImpliesInj
<1> QED
  BY <1>4 DEF Injection, IsInjective

\* A recorded check is added to the others, and to what was covered.
LEMMA OneMoreCheck ==
    ASSUME NEW cs \in Seq(History!CheckRow), NEW c \in History!CheckRow
    PROVE  /\ Append(cs, c) \in Seq(History!CheckRow)
           /\ CheckedAt(Append(cs, c), c.checkedAt)
           /\ \A t : CheckedAt(cs, t) => CheckedAt(Append(cs, c), t)
           /\ \A a, b : Covers(cs, a, b) => Covers(Append(cs, c), a, b)
           /\ \A period : PeriodKeeps(cs, period) => PeriodKeeps(Append(cs, c), period)
<1>1. /\ Append(cs, c) \in Seq(History!CheckRow)
      /\ DOMAIN Append(cs, c) = 1 .. Len(cs) + 1 /\ DOMAIN cs = 1 .. Len(cs) /\ Len(cs) \in Nat
      /\ Append(cs, c)[Len(cs) + 1] = c
      /\ \A k \in 1 .. Len(cs) : Append(cs, c)[k] = cs[k]
  OBVIOUS
<1> DEFINE ds == Append(cs, c)
<1> HIDE DEF ds
<1>2. \A k \in DOMAIN cs : k \in DOMAIN ds /\ ds[k] = cs[k]
  BY <1>1 DEF ds
<1>3. CheckedAt(ds, c.checkedAt)
  BY <1>1 DEF ds, CheckedAt
<1>4. \A t : CheckedAt(cs, t) => CheckedAt(ds, t)
  BY <1>2 DEF CheckedAt
<1>5. ASSUME NEW a, NEW b, Covers(cs, a, b) PROVE Covers(ds, a, b)
  BY <1>2, <1>5 DEF Covers
<1>6. ASSUME NEW period, PeriodKeeps(cs, period) PROVE PeriodKeeps(ds, period)
  BY <1>4, <1>5, <1>6 DEF PeriodKeeps
<1> QED
  BY <1>1, <1>3, <1>4, <1>5, <1>6 DEF ds

LEMMA PeriodTypes ==
    ASSUME NEW period \in History!Period, NEW at \in 0 .. HistoryEnd,
           NEW over \in History!Times, NEW reason \in {"CLAIMED", "MISSING", "GAP"}
    PROVE  /\ [period EXCEPT !.lastSeenWaitingAt = at, !.overFiveMinutesAt = over]
                 \in History!Period
           /\ [period EXCEPT !.endObservedAt = at, !.endReason = reason] \in History!Period
BY DEF History!Period, History!Times

\* A check carries a period on, ends it, or leaves it, if it was ended.
LEMMA UpdatedKeeps ==
    ASSUME NEW cs \in Seq(History!CheckRow), NEW c \in History!CheckRow,
           \A k \in DOMAIN cs : cs[k].checkedAt < c.checkedAt,
           NEW period \in History!Period, PeriodKeeps(cs, period), NEW answer
    PROVE  LET u == History!Updated(period, answer, c.checkedAt)
           IN  /\ u \in History!Period /\ PeriodKeeps(Append(cs, c), u)
               /\ u.order = period.order /\ u.firstSeenAt = period.firstSeenAt
               /\ period.endObservedAt # Never => u.endObservedAt = period.endObservedAt
               /\ period.endObservedAt = Never /\ ~History!Continues(period, answer, c.checkedAt)
                     => u.endObservedAt # Never
               /\ u.endObservedAt <= c.checkedAt
<1> DEFINE at == c.checkedAt
           ds == Append(cs, c)
           u == History!Updated(period, answer, at)
           first == period.firstSeenAt
           last == period.lastSeenWaitingAt
           over == period.overFiveMinutesAt
           ended == period.endObservedAt
<1>1. /\ at \in 0 .. HistoryEnd /\ at \in Nat /\ History!Never = Never /\ Never = -1
      /\ first \in Nat /\ last \in Nat /\ over \in History!Times /\ over \in Int
      /\ ended \in Int
      /\ HistoryPoll \in Nat /\ OverdueAfter \in Nat
  BY HistoryValues DEF History!CheckRow, History!Period, History!Times, History!Never, Never
<1>2. /\ ds \in Seq(History!CheckRow) /\ CheckedAt(ds, at) /\ PeriodKeeps(ds, period)
      /\ \A t : CheckedAt(cs, t) => CheckedAt(ds, t)
  BY OneMoreCheck
<1>3. first <= last /\ last < at /\ (ended # Never => ended < at)
  BY DEF PeriodKeeps, CheckedAt
<1>4. CASE ended # Never
  <2>1. u = period
    BY <1>1, <1>4 DEF History!Updated, History!Active
  <2> QED
    BY <1>1, <1>2, <1>3, <1>4, <2>1
<1>5. CASE ended = Never /\ History!Continues(period, answer, at)
  <2> DEFINE o == IF over # Never THEN over ELSE IF at - first > OverdueAfter THEN at ELSE Never
             v == [period EXCEPT !.lastSeenWaitingAt = at, !.overFiveMinutesAt = o]
  <2>1. u = v
    BY <1>1, <1>5 DEF History!Updated, History!Active, History!Continued
  <2>2. o \in History!Times
    BY <1>1 DEF History!Times
  <2>3. v \in History!Period
    <3> HIDE DEF o, at
    <3> QED
      BY <1>1, <2>2, PeriodTypes, Zenon
  <2>4. /\ v.order = period.order /\ v.firstSeenAt = first /\ v.endObservedAt = ended
        /\ v.lastSeenWaitingAt = at /\ v.overFiveMinutesAt = o
    <3> HIDE DEF o, at
    <3> QED
      BY DEF History!Period
  <2>5. at - last <= 2 * HistoryPoll
    BY <1>1, <1>5 DEF History!Continues, History!Gap, History!MaxObservationGap
  <2>6. Covers(ds, first, at)
    <3> SUFFICES ASSUME NEW t \in first .. at - 1
                 PROVE  \E k \in DOMAIN ds : /\ ds[k].checkedAt > t
                                             /\ ds[k].checkedAt <= t + 2 * HistoryPoll
                                             /\ ds[k].checkedAt <= at
      BY DEF Covers
    <3>1. CASE t < last
      <4>1. t \in first .. last - 1
        BY <1>1, <3>1
      <4>2. PICK k \in DOMAIN ds : /\ ds[k].checkedAt > t
                                   /\ ds[k].checkedAt <= t + 2 * HistoryPoll
                                   /\ ds[k].checkedAt <= last
        BY <1>2, <4>1 DEF PeriodKeeps, Covers
      <4>3. ds[k].checkedAt \in Int
        <5>1. \A i \in DOMAIN ds : ds[i] \in History!CheckRow
          <6> HIDE DEF ds
          <6> QED
            BY <1>2
        <5> QED
          BY <5>1 DEF History!CheckRow
      <4>4. ds[k].checkedAt <= at
        BY <1>1, <1>3, <4>2, <4>3
      <4> QED
        BY <4>2, <4>4
    <3>2. CASE last <= t
      <4>1. PICK k \in DOMAIN ds : ds[k].checkedAt = at
        BY <1>2 DEF CheckedAt
      <4> QED
        BY <1>1, <2>5, <3>2, <4>1
    <3>3. t < last \/ last <= t
      BY <1>1
    <3> QED
      BY <3>1, <3>2, <3>3
  <2>7. o # Never => o - first > OverdueAfter /\ Covers(ds, first, o)
    BY <1>1, <1>2, <2>6 DEF PeriodKeeps
  <2> HIDE DEF v, o
  <2>8. PeriodKeeps(ds, v)
    BY <1>1, <1>2, <1>3, <1>5, <2>4, <2>6, <2>7 DEF PeriodKeeps
  <2> QED
    BY <1>1, <1>5, <2>1, <2>3, <2>4, <2>8
<1>6. CASE ended = Never /\ ~History!Continues(period, answer, at)
  <2> DEFINE reason == CASE answer[period.order] = "claimed" -> "CLAIMED"
                         [] answer[period.order] = "waiting" -> "GAP"
                         [] OTHER                            -> "MISSING"
             v == [period EXCEPT !.endObservedAt = at, !.endReason = reason]
  <2>1. u = v
    BY <1>1, <1>6 DEF History!Updated, History!Active, History!Ended
  <2>2. reason \in {"CLAIMED", "MISSING", "GAP"}
    OBVIOUS
  <2>3. v \in History!Period
    <3> HIDE DEF reason, at
    <3> QED
      BY <1>1, <2>2, PeriodTypes, Zenon
  <2>4. /\ v.order = period.order /\ v.firstSeenAt = first /\ v.endObservedAt = at
        /\ v.lastSeenWaitingAt = last /\ v.overFiveMinutesAt = over
    <3> HIDE DEF reason, at
    <3> QED
      BY DEF History!Period
  <2> HIDE DEF v
  <2>5. PeriodKeeps(ds, v)
    BY <1>2, <2>4 DEF PeriodKeeps
  <2> QED
    BY <1>1, <1>6, <2>1, <2>3, <2>4, <2>5
<1> QED
  BY <1>4, <1>5, <1>6

LEMMA NewPeriodKeeps ==
    ASSUME NEW o \in Orders, NEW at \in 0 .. HistoryEnd, NEW cs, CheckedAt(cs, at)
    PROVE  LET n == History!NewPeriod(o, at)
           IN  n \in History!Period /\ PeriodKeeps(cs, n) /\ n.order = o /\ n.firstSeenAt = at
<1> DEFINE n == History!NewPeriod(o, at)
<1>1. n \in History!Period
  BY DEF History!NewPeriod, History!Period, History!Times, History!Never
<1>2. /\ n.order = o /\ n.firstSeenAt = at /\ n.lastSeenWaitingAt = at
      /\ n.endObservedAt = Never /\ n.overFiveMinutesAt = Never
  BY DEF History!NewPeriod, History!Never, Never
<1>3. Covers(cs, at, at)
  BY DEF Covers
<1>4. PeriodKeeps(cs, n)
  <2> HIDE DEF n
  <2> QED
    BY <1>2, <1>3 DEF PeriodKeeps
<1> QED
  BY <1>1, <1>2, <1>4

LEMMA FunctionIsSeq ==
    ASSUME NEW S, NEW n \in Nat, NEW f \in [1 .. n -> S]
    PROVE  f \in Seq(S) /\ Len(f) = n
BY SeqDef

LEMMA RecordedKeeps ==
    ASSUME HistoryInv, NEW answer, NEW at \in 0 .. HistoryEnd,
           ~History!Outdated(at), History!Recorded(answer, at)
    PROVE  /\ checks' \in Seq(History!CheckRow)
           /\ periods' \in Seq(History!Period)
           /\ \A i \in DOMAIN periods' : PeriodKeeps(checks', periods'[i])
           /\ History!PeriodsDisjoint'
<1> DEFINE waiting == History!Waiting(answer)
           new == waiting \ History!Continuing(answer, at)
           n == Cardinality(new)
           c == [checkedAt |-> at, pendingCount |-> History!Cardinality(waiting)]
           L == Len(periods)
<1>1. /\ checks \in Seq(History!CheckRow) /\ periods \in Seq(History!Period)
      /\ \A i \in 1 .. L : periods[i] \in History!Period /\ PeriodKeeps(checks, periods[i])
      /\ DOMAIN periods = 1 .. L /\ L \in Nat
  BY DEF HistoryInv
<1>2. IsFiniteSet(waiting) /\ IsFiniteSet(new) /\ new \subseteq Orders
  <2>1. waiting \subseteq Orders /\ new \subseteq Orders
    BY DEF History!Waiting
  <2> QED
    BY <2>1, HistoryValues, FS_Subset
<1>3. c \in History!CheckRow /\ c.checkedAt = at
  <2>1. History!Cardinality(waiting) \in Nat
    BY <1>2, HistoryValues, FS_CardinalityType
  <2> QED
    BY <2>1 DEF History!CheckRow
<1>4. n \in Nat /\ History!Cardinality(new) = n
  BY <1>2, HistoryValues, FS_CardinalityType
<1>5. checks' = Append(checks, c)
  BY DEF History!Recorded
<1>6. PICK created \in [1 .. n -> new] :
         /\ \A o \in new : \E i \in DOMAIN created : created[i] = o
         /\ periods' = [i \in DOMAIN periods |-> History!Updated(periods[i], answer, at)]
                       \o [i \in DOMAIN created |-> History!NewPeriod(created[i], at)]
  BY <1>4 DEF History!Recorded
<1>7. \A k \in DOMAIN checks : checks[k].checkedAt < at
  <2> TAKE k \in DOMAIN checks
  <2>1. checks[k] \in History!CheckRow
    BY <1>1
  <2> QED
    BY <2>1 DEF History!Outdated, History!CheckRow
<1> HIDE DEF c, new, n
<1>8. \A i \in 1 .. L :
         LET u == History!Updated(periods[i], answer, at)
         IN  /\ u \in History!Period /\ PeriodKeeps(checks', u)
             /\ u.order = periods[i].order /\ u.firstSeenAt = periods[i].firstSeenAt
             /\ periods[i].endObservedAt # Never => u.endObservedAt = periods[i].endObservedAt
             /\ periods[i].endObservedAt = Never /\ ~History!Continues(periods[i], answer, at)
                   => u.endObservedAt # Never
             /\ u.endObservedAt <= at
  <2> TAKE i \in 1 .. L
  <2>1. \A k \in DOMAIN checks : checks[k].checkedAt < c.checkedAt
    BY <1>3, <1>7
  <2>2. LET u == History!Updated(periods[i], answer, c.checkedAt)
        IN  /\ u \in History!Period /\ PeriodKeeps(Append(checks, c), u)
            /\ u.order = periods[i].order /\ u.firstSeenAt = periods[i].firstSeenAt
            /\ periods[i].endObservedAt # Never => u.endObservedAt = periods[i].endObservedAt
            /\ periods[i].endObservedAt = Never
               /\ ~History!Continues(periods[i], answer, c.checkedAt)
                  => u.endObservedAt # Never
            /\ u.endObservedAt <= c.checkedAt
    <3>1. periods[i] \in History!Period /\ PeriodKeeps(checks, periods[i])
      BY <1>1
    <3> QED
      BY <1>1, <1>3, <2>1, <3>1, UpdatedKeeps
  <2> QED
    BY <1>3, <1>5, <2>2
<1>9. checks' \in Seq(History!CheckRow) /\ CheckedAt(checks', at)
  BY <1>1, <1>3, <1>5, OneMoreCheck
<1>10. \A j \in 1 .. n :
          LET m == History!NewPeriod(created[j], at)
          IN  /\ m \in History!Period /\ PeriodKeeps(checks', m) /\ m.order = created[j]
              /\ m.firstSeenAt = at
  BY <1>2, <1>6, <1>9, NewPeriodKeeps
<1> DEFINE old == [i \in DOMAIN periods |-> History!Updated(periods[i], answer, at)]
           added == [i \in DOMAIN created |-> History!NewPeriod(created[i], at)]
<1>11. old \in Seq(History!Period) /\ Len(old) = L
  <2>1. old \in [1 .. L -> History!Period]
    BY <1>1, <1>8
  <2> HIDE DEF old
  <2> QED
    BY <1>1, <2>1, FunctionIsSeq
<1>12. added \in Seq(History!Period) /\ Len(added) = n
  <2>1. added \in [1 .. n -> History!Period]
    BY <1>6, <1>10
  <2> HIDE DEF added
  <2> QED
    BY <1>4, <2>1, FunctionIsSeq
<1>13. /\ periods' \in Seq(History!Period) /\ DOMAIN periods' = 1 .. L + n
       /\ \A i \in 1 .. L + n : periods'[i] = IF i <= L THEN old[i] ELSE added[i - L]
  <2> HIDE DEF old, added
  <2>1. periods' = old \o added
    BY <1>6 DEF old, added
  <2>2. /\ old \o added \in Seq(History!Period) /\ Len(old \o added) = L + n
        /\ \A i \in 1 .. L + n : (old \o added)[i] = IF i <= L THEN old[i] ELSE added[i - L]
    BY <1>11, <1>12, ConcatProperties
  <2> QED
    BY <2>1, <2>2
<1>14. \A i \in 1 .. L : periods'[i] = History!Updated(periods[i], answer, at)
  <2> TAKE i \in 1 .. L
  <2>1. old[i] = History!Updated(periods[i], answer, at)
    BY <1>1
  <2>2. i \in 1 .. L + n /\ i <= L
    BY <1>1, <1>4
  <2> HIDE DEF old, added, L
  <2> QED
    BY <1>13, <2>1, <2>2
<1>15. \A i \in L + 1 .. L + n :
          i - L \in 1 .. n /\ periods'[i] = History!NewPeriod(created[i - L], at)
  <2> TAKE i \in L + 1 .. L + n
  <2>1. i - L \in 1 .. n /\ i \in 1 .. L + n /\ ~(i <= L)
    BY <1>1, <1>4
  <2> QED
    BY <1>6, <1>13, <2>1
<1>16. \A i \in DOMAIN periods' : i \in 1 .. L \/ i \in L + 1 .. L + n
  BY <1>1, <1>4, <1>13
<1> HIDE DEF L, old, added
<1>17. \A i \in DOMAIN periods' : PeriodKeeps(checks', periods'[i])
  BY <1>8, <1>10, <1>14, <1>15, <1>16
<1>18. ASSUME NEW i \in DOMAIN periods', NEW j \in DOMAIN periods', i < j,
              periods'[i].order = periods'[j].order
       PROVE  /\ periods'[i].endObservedAt # Never
              /\ periods'[i].endObservedAt <= periods'[j].firstSeenAt
  <2>1. CASE j \in 1 .. L
    <3>1. i \in 1 .. L
      BY <1>1, <1>4, <1>16, <1>18, <2>1
    <3>2. periods[i].order = periods[j].order /\ periods'[j].firstSeenAt = periods[j].firstSeenAt
      BY <1>8, <1>14, <1>18, <2>1, <3>1
    <3>3. /\ periods[i].endObservedAt # Never
          /\ periods[i].endObservedAt <= periods[j].firstSeenAt
      BY <1>1, <1>18, <2>1, <3>1, <3>2
         DEF HistoryInv, History!PeriodsDisjoint, History!Never, Never
    <3> QED
      BY <1>8, <1>14, <3>1, <3>2, <3>3
  <2>2. CASE i \in 1 .. L /\ j \in L + 1 .. L + n
    <3>1. /\ periods'[j].order = created[j - L] /\ periods'[j].firstSeenAt = at
          /\ created[j - L] \in new
      BY <1>6, <1>10, <1>15, <2>2
    <3>2. periods[i].order = created[j - L]
      BY <1>8, <1>14, <1>18, <2>2, <3>1
    <3>3. created[j - L] \in Orders /\ created[j - L] \notin History!Continuing(answer, at)
      BY <1>2, <3>1 DEF new
    <3>4. ~(periods[i].endObservedAt = Never /\ History!Continues(periods[i], answer, at))
      BY <1>1, <2>2, <3>2, <3>3 DEF History!Continuing, History!Active, History!Never, Never
    <3> QED
      BY <1>8, <1>14, <2>2, <3>1, <3>4
  <2>3. CASE i \in L + 1 .. L + n /\ j \in L + 1 .. L + n
    <3>1. created[i - L] = created[j - L] /\ i - L \in 1 .. n /\ j - L \in 1 .. n
      BY <1>10, <1>15, <1>18, <2>3
    <3>2. i - L = j - L
      BY <1>2, <1>6, <3>1, CreatedOnce DEF n
    <3> QED
      BY <1>1, <1>18, <2>3, <3>2
  <2> QED
    BY <1>1, <1>4, <1>16, <1>18, <2>1, <2>2, <2>3
<1>19. History!PeriodsDisjoint'
  BY <1>18 DEF History!PeriodsDisjoint, History!Never, Never
<1> QED
  BY <1>9, <1>13, <1>17, <1>19

LEMMA HistoryBegins == History!Init => HistoryInv
<1> SUFFICES ASSUME History!Init
             PROVE  HistoryInv
  OBVIOUS
<1>1. checks = <<>> /\ periods = <<>> /\ History!ObserverInit
  BY DEF History!Init
<1>2. 0 \in 0 .. HistoryEnd
  BY HistoryValues
<1>3. History!IdleObserver \in History!Observer
  BY <1>2 DEF History!IdleObserver, History!Observer, History!Nothing, History!OrderStates
<1>4. History!ObserverTypeOK
  BY <1>1, <1>2, <1>3 DEF History!ObserverInit, History!ObserverTypeOK, History!Nothing,
                          History!OrderStates
<1>5. DOMAIN periods = {} /\ checks \in Seq(History!CheckRow) /\ periods \in Seq(History!Period)
  BY <1>1
<1> QED
  BY <1>4, <1>5 DEF HistoryInv, History!PeriodsDisjoint

LEMMA ObserverFields ==
    ASSUME NEW o \in History!Observer, NEW time \in 0 .. HistoryEnd,
           NEW l \in [Orders -> History!OrderStates]
    PROVE  /\ [o EXCEPT !.pc = "read", !.asked = time] \in History!Observer
           /\ [o EXCEPT !.pc = "answer", !.answer = l] \in History!Observer
           /\ [o EXCEPT !.pc = "snapshot", !.asked = 0, !.observedAt = time] \in History!Observer
           /\ History!IdleObserver \in History!Observer
<1>1. 0 \in 0 .. HistoryEnd
  BY HistoryValues
<1>2. [o EXCEPT !.pc = "read", !.asked = time] \in History!Observer
  BY DEF History!Observer
<1>3. [o EXCEPT !.pc = "answer", !.answer = l] \in History!Observer
  BY DEF History!Observer
<1>4. [o EXCEPT !.pc = "snapshot", !.asked = 0, !.observedAt = time] \in History!Observer
  BY <1>1 DEF History!Observer
<1>5. History!IdleObserver \in History!Observer
  BY <1>1 DEF History!IdleObserver, History!Observer, History!Nothing, History!OrderStates
<1> QED
  BY <1>2, <1>3, <1>4, <1>5

LEMMA ObserversGoOn ==
    ASSUME History!ObserverTypeOK, [History!ObserverNext]_(History!observerVars)
    PROVE  History!ObserverTypeOK'
<1> USE DEF History!ObserverTypeOK
<1>1. ASSUME NEW p \in Servers, NEW o \in History!Observer, obs' = [obs EXCEPT ![p] = o],
             UNCHANGED <<clock, list>>
      PROVE  History!ObserverTypeOK'
  BY <1>1
<1>2. ASSUME NEW p \in Servers, History!Ask(p) \/ History!Read(p) \/ History!Apply(p)
                                  \/ History!Release(p)
      PROVE  History!ObserverTypeOK'
  <2> DEFINE o == obs[p]
  <2>1. /\ o \in History!Observer /\ clock \in 0 .. HistoryEnd
        /\ list \in [Orders -> History!OrderStates]
    BY <1>2
  <2>2. \/ obs' = [obs EXCEPT ![p] = [o EXCEPT !.pc = "read", !.asked = clock]]
        \/ obs' = [obs EXCEPT ![p] = [o EXCEPT !.pc = "answer", !.answer = list]]
        \/ obs' = [obs EXCEPT ![p] = [o EXCEPT !.pc = "snapshot", !.asked = 0,
                                               !.observedAt = clock]]
        \/ obs' = [obs EXCEPT ![p] = History!IdleObserver]
    BY <1>2, <2>1 DEF History!Ask, History!Read, History!Apply, History!Release
  <2>3. UNCHANGED <<clock, list>>
    BY <1>2 DEF History!Ask, History!Read, History!Apply, History!Release
  <2>4. /\ [o EXCEPT !.pc = "read", !.asked = clock] \in History!Observer
        /\ [o EXCEPT !.pc = "answer", !.answer = list] \in History!Observer
        /\ [o EXCEPT !.pc = "snapshot", !.asked = 0, !.observedAt = clock] \in History!Observer
        /\ History!IdleObserver \in History!Observer
    BY <2>1, ObserverFields
  <2> QED
    BY <1>1, <2>2, <2>3, <2>4
<1>3. ASSUME NEW o \in Orders, History!ListChanges(o)
      PROVE  History!ObserverTypeOK'
  BY <1>3 DEF History!ListChanges, History!OrderStates
<1>4. CASE History!Tick
  <2>1. clock' \in 0 .. HistoryEnd
    BY <1>4, HistoryValues DEF History!Tick
  <2> QED
    BY <1>4, <2>1 DEF History!Tick
<1>5. CASE UNCHANGED History!observerVars
  BY <1>5 DEF History!observerVars
<1> QED
  BY <1>2, <1>3, <1>4, <1>5 DEF History!ObserverNext

LEMMA HistoryGoesOn == HistoryInv /\ [History!Next]_(History!vars) => HistoryInv'
<1> SUFFICES ASSUME HistoryInv, [History!Next]_(History!vars)
             PROVE  HistoryInv'
  OBVIOUS
<1>1. ASSUME UNCHANGED <<checks, periods>>, [History!ObserverNext]_(History!observerVars)
      PROVE  HistoryInv'
  <2>1. History!ObserverTypeOK'
    BY <1>1, ObserversGoOn DEF HistoryInv
  <2> QED
    BY <1>1, <2>1 DEF HistoryInv, History!PeriodsDisjoint
<1>2. ASSUME NEW p \in Servers, History!RecordSnapshot(p)
      PROVE  HistoryInv'
  <2>1. History!Release(p)
    BY <1>2 DEF History!RecordSnapshot
  <2>2. [History!ObserverNext]_(History!observerVars)
    BY <2>1 DEF History!ObserverNext
  <2>3. CASE History!Outdated(obs[p].observedAt)
    BY <1>1, <1>2, <2>2, <2>3 DEF History!RecordSnapshot, History!historyVars
  <2>4. CASE ~History!Outdated(obs[p].observedAt)
    <3>1. History!Recorded(obs[p].answer, obs[p].observedAt)
      BY <1>2, <2>4 DEF History!RecordSnapshot
    <3>2. obs[p].observedAt \in 0 .. HistoryEnd
      BY DEF HistoryInv, History!ObserverTypeOK, History!Observer
    <3>3. History!ObserverTypeOK'
      BY <2>2, ObserversGoOn DEF HistoryInv
    <3> QED
      BY <2>4, <3>1, <3>2, <3>3, RecordedKeeps DEF HistoryInv
  <2> QED
    BY <2>3, <2>4
<1>3. ASSUME NEW p \in Servers, History!CheckLost(p)
      PROVE  HistoryInv'
  BY <1>1, <1>3 DEF History!CheckLost, History!historyVars, History!ObserverNext
<1>4. CASE History!MonitorsGoOn
  BY <1>1, <1>4 DEF History!MonitorsGoOn, History!historyVars, History!ObserverNext
<1>5. CASE UNCHANGED History!vars
  BY <1>1, <1>5 DEF History!vars, History!historyVars
<1> QED
  BY <1>2, <1>3, <1>4, <1>5 DEF History!Next

\* However the snapshots of overlapping processes are delayed, lost or reordered, the recorded
\* waiting periods of a call follow one another, and a call that is recorded as overdue was
\* seen waiting until then without a gap longer than two polls
\* (bndWaitingHistory.service.ts:9-44).
THEOREM HistoryIsSound == History!Spec => []HistorySound
<1>1. HistoryInv => HistorySound
  <2> SUFFICES ASSUME HistoryInv
               PROVE  History!OverdueWasObserved
    BY DEF HistoryInv, HistorySound
  <2>1. \A i \in DOMAIN periods : PeriodKeeps(checks, periods[i])
    BY DEF HistoryInv
  <2> QED
    BY <2>1 DEF PeriodKeeps, Covers, History!OverdueWasObserved, History!MaxObservationGap,
                History!Never, Never
<1> QED
  BY <1>1, HistoryBegins, HistoryGoesOn, PTL DEF History!Spec

-----------------------------------------------------------------------------
(***************************************************************************)
(* The opening hours                                                       *)
(***************************************************************************)

\* A window with dates, and hours as the server or a page holds them.
Spans == [start : Int, end : Int]
Calendars ==
    [weekly : Weekly, date : Int, today : Spans, checked : Int, refreshAt : Int,
     source : {"fallback", "cached", "website"}]

\* A window within its day, or none.
Within(d, w) ==
    w = Shut \/ (d * Day <= w.start /\ w.start < w.end /\ w.end <= d * Day + Day)

WellFormed(h) == h \in Calendars /\ h.date >= -1 /\ Within(h.date, h.today)

\* Hours that need not be read again before a time: they were confirmed on its day, and the
\* day they were confirmed for asks for nothing earlier.
GoodUntil(h, t, at) ==
    h.checked \in 0 .. at /\ h.date = DayOf(h.checked) /\ t <= nextRefresh(h, h.checked)

\* A date has the hours published for it, or those of the closed day before it.
OfItsDate(h, published, renewed) ==
    ~renewed /\ h.date >= 0 =>
        \/ h.today = Dated(h.date, published.daily[h.date])
        \/ /\ h.today = Shut /\ h.date > 0 /\ published.daily[h.date - 1] = Shut
           /\ h.checked < h.date * Day + Span

KeptHours(h, at, published, renewed) ==
    /\ WellFormed(h)
    /\ h.refreshAt <= at + Retry \/ GoodUntil(h, h.refreshAt, at)
    /\ OfItsDate(h, published, renewed)

\* An answer is of a moment since its request, with what was published then.
AnsweredFor(p, at, published, renewed) ==
    \E t \in p.since .. at, w \in Windows :
        /\ p.answer.today = Dated(DayOf(t), w)
        /\ ~renewed => w = published.daily[DayOf(t)]

Providers ==
    [calendar : Calendars, cache : Calendars, initialized : BOOLEAN, due : Int,
     pc : {"idle", "asked", "answered", "saving"}, since : Nat,
     answer : [weekly : Weekly, today : Spans]]

\* The server is due when its hours say, and its requests end in time.
ServerKeeps(p, at, published, renewed) ==
    /\ p \in Providers
    /\ KeptHours(p.calendar, at, published, renewed)
    /\ KeptHours(p.cache, at, published, renewed)
    /\ p.initialized /\ p.pc \in {"idle", "saving"} => p.due = p.calendar.refreshAt
    /\ p.pc # "idle" => p.since <= at /\ at <= p.since + Span
    /\ p.pc = "answered" => AnsweredFor(p, at, published, renewed)

Pages ==
    [calendar : Calendars, readAt : Int, timer : Int, pc : {"idle", "hours", "status"},
     since : Nat]

\* A page reads the hours soon after the server may have, and its timer is not later.
PageKeeps(b, at) ==
    /\ b \in Pages
    /\ WellFormed(b.calendar)
    /\ b.readAt <= at + Retry + Lag \/ GoodUntil(b.calendar, b.readAt - Lag, at)
    /\ b.pc = "idle" => b.timer <= at + 1 \/ b.timer <= b.readAt

OpeningInv ==
    /\ now \in 0 .. OpeningEnd /\ site \in Sites /\ changed \in BOOLEAN
    /\ ServerKeeps(provider, now, site, changed)
    /\ PageKeeps(browser, now)

-----------------------------------------------------------------------------
LEMMA OpeningValues ==
    /\ Day \in Nat \ {0} /\ Week \in Nat \ {0} /\ Retry \in Nat \ {0} /\ Span \in Nat \ {0}
    /\ MinGap \in Nat \ {0} /\ StatusPoll \in Nat \ {0} /\ Lag \in Nat /\ OpeningEnd \in Nat
    /\ MinGap <= Retry /\ Span <= Day
    /\ Fallback \in Weekly
BY BndOpeningAssumption

LEMMA Days ==
    /\ \A t \in Nat : DayOf(t) \in Nat /\ DayOf(t) * Day <= t /\ t < DayOf(t) * Day + Day
    /\ \A t \in Nat, d \in Nat : d * Day <= t /\ t < d * Day + Day => DayOf(t) = d
    /\ \A t \in Nat, u \in Nat : t <= u => DayOf(t) <= DayOf(u)
    /\ \A d \in Nat, e \in Nat : d < e => d * Day + Day <= e * Day
<1>1. \A t \in Nat : DayOf(t) \in Nat /\ DayOf(t) * Day <= t /\ t < DayOf(t) * Day + Day
  BY OpeningValues DEF DayOf
<1>2. \A d \in Nat, e \in Nat : d < e => d * Day + Day <= e * Day
  BY OpeningValues
<1>3. \A t \in Nat, d \in Nat : d * Day <= t /\ t < d * Day + Day => DayOf(t) = d
  <2> SUFFICES ASSUME NEW t \in Nat, NEW d \in Nat, d * Day <= t, t < d * Day + Day
               PROVE  DayOf(t) = d
    OBVIOUS
  <2> DEFINE e == DayOf(t)
  <2>1. e \in Nat /\ e * Day <= t /\ t < e * Day + Day
    BY <1>1
  <2> HIDE DEF e
  <2>2. d * Day \in Nat /\ e * Day \in Nat
    BY <2>1, OpeningValues
  <2>3. ~(d < e) /\ ~(e < d)
    BY <1>2, <2>1, <2>2, OpeningValues
  <2>4. d = e
    BY <2>1, <2>3
  <2> QED  BY <2>4 DEF e
<1>4. \A t \in Nat, u \in Nat : t <= u => DayOf(t) <= DayOf(u)
  <2> SUFFICES ASSUME NEW t \in Nat, NEW u \in Nat, t <= u
               PROVE  DayOf(t) <= DayOf(u)
    OBVIOUS
  <2> DEFINE d == DayOf(t)
             e == DayOf(u)
  <2>1. d \in Nat /\ e \in Nat /\ d * Day <= t /\ u < e * Day + Day
    BY <1>1
  <2> HIDE DEF d, e
  <2>2. d * Day \in Nat /\ e * Day \in Nat
    BY <2>1, OpeningValues
  <2>3. ~(e < d)
    BY <1>2, <2>1, <2>2, OpeningValues
  <2>4. d <= e
    BY <2>1, <2>3
  <2> QED  BY <2>4 DEF d, e
<1> QED  BY <1>1, <1>2, <1>3, <1>4

LEMMA Windowed ==
    \A d \in Nat, w \in Windows :
        /\ Dated(d, w) \in Spans /\ Within(d, Dated(d, w))
        /\ Dated(d, w) = Shut <=> w = Shut
<1> SUFFICES ASSUME NEW d \in Nat, NEW w \in Windows
             PROVE  /\ Dated(d, w) \in Spans /\ Within(d, Dated(d, w))
                    /\ Dated(d, w) = Shut <=> w = Shut
  OBVIOUS
<1>1. CASE w = Shut
  <2>1. Dated(d, w) = Shut
    BY <1>1 DEF Dated
  <2>2. Shut \in Spans
    BY DEF Shut, Spans
  <2>3. Within(d, Shut)
    BY DEF Within
  <2> HIDE DEF Shut
  <2> QED  BY <1>1, <2>1, <2>2, <2>3
<1>2. CASE w # Shut
  <2>1. w.start \in 0 .. Day /\ w.end \in 0 .. Day /\ w.start < w.end
    BY <1>2 DEF Windows
  <2>2. d * Day \in Nat
    BY OpeningValues
  <2>3. Dated(d, w) = [start |-> d * Day + w.start, end |-> d * Day + w.end]
    BY <1>2 DEF Dated
  <2>4. Dated(d, w).start = d * Day + w.start /\ Dated(d, w).end = d * Day + w.end
    BY <2>3
  <2>5. Dated(d, w).start >= 0
    BY <2>1, <2>2, <2>4, OpeningValues
  <2>6. Dated(d, w) # Shut
    BY <2>5 DEF Shut
  <2> QED  BY <1>2, <2>1, <2>2, <2>3, <2>4, <2>6, OpeningValues DEF Within, Spans
<1> QED  BY <1>1, <1>2

LEMMA DayWindow ==
    ASSUME NEW h, WellFormed(h), NEW d \in Nat
    PROVE  bndDayWindow(d, h) \in Spans /\ Within(d, bndDayWindow(d, h))
<1>1. CASE h.date = d
  BY <1>1 DEF bndDayWindow, WellFormed, Calendars
<1>2. CASE h.date # d
  <2>1. d % Week \in 0 .. Week - 1
    BY OpeningValues
  <2>2. h.weekly \in [0 .. Week - 1 -> Windows]
    BY DEF WellFormed, Calendars, Weekly
  <2>3. h.weekly[d % Week] \in Windows
    BY <2>1, <2>2
  <2> QED  BY <1>2, <2>3, Windowed DEF bndDayWindow
<1> QED  BY <1>1, <1>2

LEMMA FirstIsLeast ==
    ASSUME NEW S, S \subseteq Nat, S # {}
    PROVE  First(S) \in S /\ \A m \in S : First(S) <= m
<1>1. IsWellFoundedOn(OpToRel(<, Nat), Nat)
  BY NatLessThanWellFounded
<1>2. PICK n \in S : \A m \in S : ~(<<m, n>> \in OpToRel(<, Nat))
  BY <1>1, WFMin
<1>3. \A m \in S : n <= m
  <2> SUFFICES ASSUME NEW m \in S, ~(n <= m) PROVE FALSE
    OBVIOUS
  <2>1. m < n /\ m \in Nat /\ n \in Nat
    OBVIOUS
  <2>2. <<m, n>> \in OpToRel(<, Nat)
    BY <2>1 DEF OpToRel
  <2> QED  BY <1>2, <2>2
<1> QED  BY <1>2, <1>3 DEF First

-----------------------------------------------------------------------------
\* What the schedule says of the day of a time.
LEMMA Today ==
    ASSUME NEW h, WellFormed(h), NEW t \in Nat
    PROVE  /\ IsOpen(t, h) \in BOOLEAN
           /\ LET w == bndDayWindow(DayOf(t), h)
              IN  IsOpen(t, h) <=> w # Shut /\ w.start <= t /\ t < w.end
BY DEF IsOpen, Started

LEMMA ScheduleOf ==
    ASSUME NEW h, WellFormed(h), NEW at \in Nat
    PROVE  /\ nextChangeAt(at, h) \in Int /\ nextChangeAt(at, h) > at
           /\ \A t \in at .. nextChangeAt(at, h) - 1 : IsOpen(t, h) = IsOpen(at, h)
<1> DEFINE d == DayOf(at)
           w == bndDayWindow(d, h)
           n == nextChangeAt(at, h)
<1>1. d \in Nat /\ d * Day <= at /\ at < d * Day + Day
  BY Days
<1>2. w \in Spans /\ Within(d, w)
  BY <1>1, DayWindow
<1>3. d * Day \in Nat /\ Day \in Nat
  BY <1>1, OpeningValues
<1>4. ASSUME NEW t \in Nat, d * Day <= t, t < d * Day + Day
      PROVE  IsOpen(t, h) <=> w # Shut /\ w.start <= t /\ t < w.end
  <2>1. DayOf(t) = d
    BY <1>1, <1>4, Days
  <2> QED  BY <2>1, Today
<1>5. CASE w # Shut /\ at < w.start
  <2>1. n = w.start
    BY <1>5 DEF nextChangeAt
  <2> HIDE DEF n, w, d
  <2>2. w.start \in Int /\ w.end \in Int /\ w.start < w.end /\ w.end <= d * Day + Day
    BY <1>2, <1>5 DEF Within, Spans
  <2>3. ~IsOpen(at, h)
    BY <1>1, <1>4, <1>5, <2>2
  <2>4. ASSUME NEW t \in at .. n - 1 PROVE ~IsOpen(t, h)
    <3>1. t \in Nat /\ at <= t /\ t < w.start
      BY <2>1, <2>2, <2>4
    <3> QED  BY <1>1, <1>3, <1>4, <2>2, <3>1
  <2>5. n \in Int /\ n > at
    BY <1>5, <2>1, <2>2
  <2>6. \A t \in at .. n - 1 : t \in Nat
    BY <2>1, <2>2
  <2>7. \A t \in at .. n - 1 : IsOpen(t, h) = IsOpen(at, h)
    BY <2>3, <2>4, <2>6, Today
  <2> QED  BY <2>5, <2>7 DEF n
<1>6. CASE w # Shut /\ ~(at < w.start) /\ at < w.end
  <2>1. n = w.end
    BY <1>6 DEF nextChangeAt
  <2> HIDE DEF n, w, d
  <2>2. w.start \in Int /\ w.end \in Int /\ w.start < w.end /\ w.end <= d * Day + Day
    BY <1>2, <1>6 DEF Within, Spans
  <2>3. IsOpen(at, h)
    BY <1>1, <1>4, <1>6, <2>2
  <2>4. ASSUME NEW t \in at .. n - 1 PROVE IsOpen(t, h)
    <3>1. t \in Nat /\ at <= t /\ t < w.end
      BY <2>1, <2>2, <2>4
    <3> QED  BY <1>1, <1>3, <1>4, <1>6, <2>2, <3>1
  <2>5. n \in Int /\ n > at
    BY <1>6, <2>1, <2>2
  <2>6. \A t \in at .. n - 1 : t \in Nat
    BY <2>1, <2>2
  <2>7. \A t \in at .. n - 1 : IsOpen(t, h) = IsOpen(at, h)
    BY <2>3, <2>4, <2>6, Today
  <2> QED  BY <2>5, <2>7 DEF n
<1>7. CASE ~(w # Shut /\ at < w.start) /\ ~(w # Shut /\ at < w.end)
  <2> DEFINE ahead == {m \in 1 .. Week : bndDayWindow(d + m, h) # Shut}
  <2>1. n = NextOpening(at, h)
    BY <1>7 DEF nextChangeAt
  <2>2. n = IF ahead = {} THEN (d + 1) * Day ELSE bndDayWindow(d + First(ahead), h).start
    BY <2>1 DEF NextOpening
  <2>3. ahead \subseteq Nat
    BY OpeningValues
  <2>4. \A m \in 1 .. Week : m \notin ahead => bndDayWindow(d + m, h) = Shut
    OBVIOUS
  <2>5. \A m \in ahead : m \in 1 .. Week /\ bndDayWindow(d + m, h) # Shut
    OBVIOUS
  <2>6. \A t \in Nat : d * Day <= t /\ t < d * Day + Day /\ at <= t => ~IsOpen(t, h)
    <3> HIDE DEF w, d, n
    <3>1. w = Shut \/ (w.start \in Int /\ w.end \in Int /\ w.end <= at)
      BY <1>2, <1>7, <1>3 DEF Within, Spans
    <3> QED  BY <1>4, <3>1
  <2> HIDE DEF ahead, n, w, d
  <2>7. CASE ahead = {}
    <3>1. n = (d + 1) * Day
      BY <2>2, <2>7
    <3>2. n = d * Day + Day
      BY <3>1, <1>1, OpeningValues
    <3>3. n \in Int /\ n > at
      BY <1>1, <1>3, <3>2
    <3>4. \A t \in at .. n - 1 : t \in Nat /\ d * Day <= t /\ t < d * Day + Day /\ at <= t
      BY <1>1, <1>3, <3>2
    <3>5. \A t \in at .. n - 1 : ~IsOpen(t, h)
      BY <2>6, <3>4
    <3>6. ~IsOpen(at, h)
      BY <2>6, <1>1
    <3>7. \A t \in at .. n - 1 : IsOpen(t, h) = IsOpen(at, h)
      BY <3>4, <3>5, <3>6, Today
    <3> QED  BY <3>3, <3>7 DEF n
  <2>8. CASE ahead # {}
    <3> DEFINE f == First(ahead)
               v == bndDayWindow(d + f, h)
    <3>1. f \in ahead /\ \A m \in ahead : f <= m
      BY <2>3, <2>8, FirstIsLeast
    <3>2. f \in 1 .. Week /\ v # Shut
      BY <2>5, <3>1
    <3>3. n = v.start
      BY <2>2, <2>8
    <3>4. d + f \in Nat /\ d < d + f
      BY <1>1, <3>2, OpeningValues
    <3>5. v \in Spans /\ Within(d + f, v)
      BY <3>4, DayWindow
    <3> HIDE DEF f, v
    <3>6. v.start \in Int /\ v.end \in Int /\ (d + f) * Day <= v.start /\ v.start < v.end
          /\ v.end <= (d + f) * Day + Day
      BY <3>2, <3>5 DEF Within, Spans
    <3> DEFINE g == d + f
    <3>a. g \in Nat /\ d < g
      BY <3>4
    <3> HIDE DEF g
    <3>b. d * Day + Day <= g * Day /\ g * Day \in Nat
      BY <1>1, <3>a, Days, OpeningValues
    <3>7. d * Day + Day <= (d + f) * Day /\ (d + f) * Day \in Nat
      BY <3>b DEF g
    <3>8. n \in Int /\ n > at
      BY <1>1, <1>3, <3>3, <3>6, <3>7
    <3>9. ASSUME NEW t \in at .. n - 1 PROVE t \in Nat /\ ~IsOpen(t, h)
      <4> DEFINE e == DayOf(t)
      <4>1. t \in Nat /\ at <= t /\ t < v.start
        BY <3>3, <3>6, <3>9
      <4>2. e \in Nat /\ e * Day <= t /\ t < e * Day + Day /\ d <= e
        BY <4>1, Days DEF d
      <4>3. ~(d + f < e)
        <5>1. d + f < e => (d + f) * Day + Day <= e * Day
          BY <3>4, <4>2, Days
        <5>2. e * Day \in Nat
          BY <4>2, OpeningValues
        <5> QED  BY <5>1, <5>2, <4>1, <4>2, <3>6, <3>7, <1>3
      <4>4. CASE e = d
        BY <2>6, <4>1, <4>2, <4>4
      <4>5. CASE e = d + f
        <5>1. IsOpen(t, h) => v.start <= t
          BY <4>1, <4>5, Today DEF v
        <5> QED  BY <5>1, <4>1, <3>6
      <4>6. CASE d < e /\ e < d + f
        <5> DEFINE m == e - d
        <5>1. m \in 1 .. Week /\ m < f /\ d + m = e
          BY <1>1, <3>2, <4>2, <4>6, OpeningValues
        <5>2. m \notin ahead
          BY <5>1, <3>1, <3>2, OpeningValues
        <5>3. bndDayWindow(e, h) = Shut
          BY <2>4, <5>1, <5>2
        <5> QED  BY <4>1, <5>3, Today
      <4> HIDE DEF e
      <4> QED  BY <4>1, <4>2, <4>3, <4>4, <4>5, <4>6, <3>2, <1>1, OpeningValues
    <3>10. ~IsOpen(at, h)
      BY <2>6, <1>1
    <3>11. \A t \in at .. n - 1 : IsOpen(t, h) = IsOpen(at, h)
      BY <3>9, <3>10, Today
    <3> QED  BY <3>8, <3>11 DEF n
  <2> QED  BY <2>7, <2>8
<1> QED  BY <1>5, <1>6, <1>7

-----------------------------------------------------------------------------
\* Hours of the same days say the same.
LEMMA SameHours ==
    ASSUME NEW h, NEW g \in Calendars, WellFormed(h), g.weekly = h.weekly, g.date = h.date,
           g.today = h.today, g.checked = h.checked
    PROVE  /\ WellFormed(g)
           /\ \A t : nextRefresh(g, t) = nextRefresh(h, t)
           /\ \A t, at : GoodUntil(h, t, at) => GoodUntil(g, t, at)
           /\ \A s, c : OfItsDate(h, s, c) => OfItsDate(g, s, c)
<1>1. WellFormed(g)
  BY DEF WellFormed
<1>2. \A d : bndDayWindow(d, g) = bndDayWindow(d, h)
  BY DEF bndDayWindow
<1>3. \A t : nextRefresh(g, t) = nextRefresh(h, t)
  BY <1>2 DEF nextRefresh
<1>4. \A t, at : GoodUntil(h, t, at) => GoodUntil(g, t, at)
  BY <1>3 DEF GoodUntil
<1>5. \A s, c : OfItsDate(h, s, c) => OfItsDate(g, s, c)
  BY DEF OfItsDate
<1> QED  BY <1>1, <1>3, <1>4, <1>5

LEMMA SavedHours ==
    ASSUME NEW h \in Calendars
    PROVE  /\ Saved(h) \in Calendars
           /\ Saved(h).weekly = h.weekly /\ Saved(h).date = h.date
           /\ Saved(h).today = h.today /\ Saved(h).checked = h.checked
           /\ Saved(h).refreshAt = h.refreshAt
BY DEF Calendars, Saved

\* Hours put off to a time soon, and those read from the file.
LEMMA HoursPutOff ==
    ASSUME NEW at \in Nat, NEW s, NEW c, NEW h, KeptHours(h, at, s, c),
           NEW g \in {h, Saved(h)}, NEW t \in Int, t <= at + Retry
    PROVE  KeptHours([g EXCEPT !.refreshAt = t], at, s, c)
<1> DEFINE k == [g EXCEPT !.refreshAt = t]
<1>1. h \in Calendars /\ WellFormed(h)
  BY DEF KeptHours, WellFormed
<1>2. g \in Calendars /\ g.weekly = h.weekly /\ g.date = h.date /\ g.today = h.today
      /\ g.checked = h.checked
  BY <1>1, SavedHours
<1>3. k \in Calendars /\ k.weekly = h.weekly /\ k.date = h.date /\ k.today = h.today
      /\ k.checked = h.checked /\ k.refreshAt = t
  BY <1>2 DEF Calendars
<1> HIDE DEF k
<1>4. KeptHours(k, at, s, c)
  BY <1>1, <1>3, SameHours DEF KeptHours
<1> QED  BY <1>4 DEF k

LEMMA HoursFromFile ==
    ASSUME NEW at \in Nat, NEW s, NEW c, NEW h, KeptHours(h, at, s, c)
    PROVE  KeptHours([h EXCEPT !.source = "cached"], at, s, c)
<1> DEFINE k == [h EXCEPT !.source = "cached"]
<1>1. h \in Calendars /\ WellFormed(h)
  BY DEF KeptHours, WellFormed
<1>3. k \in Calendars /\ k.weekly = h.weekly /\ k.date = h.date /\ k.today = h.today
      /\ k.checked = h.checked /\ k.refreshAt = h.refreshAt
  BY <1>1 DEF Calendars
<1> HIDE DEF k
<1>4. KeptHours(k, at, s, c)
  BY <1>1, <1>3, SameHours DEF KeptHours
<1> QED  BY <1>4 DEF k

LEMMA NoHours ==
    /\ WellFormed(None)
    /\ None.refreshAt = 0
    /\ \A at \in Nat : \A s, c : KeptHours(None, at, s, c)
<1>1. None \in Calendars /\ None.date = -1 /\ None.today = Shut /\ None.refreshAt = 0
  BY OpeningValues DEF None, Calendars, Spans, Shut
<1>2. WellFormed(None)
  BY <1>1 DEF WellFormed, Within
<1>3. \A at \in Nat : \A s, c : KeptHours(None, at, s, c)
  BY <1>1, <1>2, OpeningValues DEF KeptHours, OfItsDate
<1> QED  BY <1>1, <1>2, <1>3

\* Time and a change of what is published take nothing from what is kept.
LEMMA KeptOn ==
    ASSUME NEW at \in Nat, NEW at2 \in Nat, at <= at2, NEW s, NEW s2,
           NEW c \in BOOLEAN, NEW c2 \in BOOLEAN, ~c2 => ~c /\ s2 = s
    PROVE  /\ \A h : KeptHours(h, at, s, c) => KeptHours(h, at2, s2, c2)
           /\ \A p \in Providers : AnsweredFor(p, at, s, c) => AnsweredFor(p, at2, s2, c2)
           /\ \A p : ServerKeeps(p, at, s, c) /\ (p.pc # "idle" => at2 <= p.since + Span)
                        => ServerKeeps(p, at2, s2, c2)
           /\ \A b : PageKeeps(b, at) => PageKeeps(b, at2)
<1>1. \A h : KeptHours(h, at, s, c) => KeptHours(h, at2, s2, c2)
  <2> SUFFICES ASSUME NEW h, KeptHours(h, at, s, c) PROVE KeptHours(h, at2, s2, c2)
    OBVIOUS
  <2>1. h.refreshAt \in Int /\ h.checked \in Int /\ WellFormed(h)
    BY DEF KeptHours, WellFormed, Calendars
  <2>2. h.refreshAt <= at2 + Retry \/ GoodUntil(h, h.refreshAt, at2)
    BY <2>1, OpeningValues DEF KeptHours, GoodUntil
  <2>3. OfItsDate(h, s2, c2)
    BY DEF KeptHours, OfItsDate
  <2> QED  BY <2>1, <2>2, <2>3 DEF KeptHours
<1>2. \A p \in Providers : AnsweredFor(p, at, s, c) => AnsweredFor(p, at2, s2, c2)
  <2> SUFFICES ASSUME NEW p \in Providers, AnsweredFor(p, at, s, c)
               PROVE  AnsweredFor(p, at2, s2, c2)
    OBVIOUS
  <2>1. PICK t \in p.since .. at, w \in Windows :
            /\ p.answer.today = Dated(DayOf(t), w)
            /\ ~c => w = s.daily[DayOf(t)]
    BY DEF AnsweredFor
  <2>2. t \in p.since .. at2
    BY <2>1 DEF Providers
  <2> QED  BY <2>1, <2>2 DEF AnsweredFor
<1>3. ASSUME NEW p, ServerKeeps(p, at, s, c), p.pc # "idle" => at2 <= p.since + Span
      PROVE  ServerKeeps(p, at2, s2, c2)
  <2>1. p \in Providers /\ p.since \in Nat
    BY <1>3 DEF ServerKeeps, Providers
  <2>2. p.pc # "idle" => p.since <= at2 /\ at2 <= p.since + Span
    BY <1>3, <2>1 DEF ServerKeeps
  <2> QED  BY <1>1, <1>2, <1>3, <2>1, <2>2 DEF ServerKeeps
<1>4. ASSUME NEW b, PageKeeps(b, at) PROVE PageKeeps(b, at2)
  <2>1. b \in Pages /\ b.readAt \in Int /\ b.timer \in Int /\ b.calendar.checked \in Int
    BY <1>4 DEF PageKeeps, Pages, Calendars
  <2>2. b.readAt <= at2 + Retry + Lag \/ GoodUntil(b.calendar, b.readAt - Lag, at2)
    BY <1>4, <2>1, OpeningValues DEF PageKeeps, GoodUntil
  <2>3. b.pc = "idle" => b.timer <= at2 + 1 \/ b.timer <= b.readAt
    BY <1>4, <2>1 DEF PageKeeps
  <2> QED  BY <1>4, <2>1, <2>2, <2>3 DEF PageKeeps
<1> QED  BY <1>1, <1>2, <1>3, <1>4

LEMMA RefreshTime ==
    ASSUME NEW h, WellFormed(h), NEW t \in Nat
    PROVE  nextRefresh(h, t) \in Int
<1>1. DayOf(t) \in Nat /\ (DayOf(t) + 1) * Day \in Int
  BY Days, OpeningValues
<1>2. bndDayWindow(DayOf(t), h).start \in Int
  BY <1>1, DayWindow DEF Spans
<1> QED  BY <1>1, <1>2 DEF nextRefresh

-----------------------------------------------------------------------------
LEMMA OpeningBegins == OpeningInit => OpeningInv
<1> SUFFICES ASSUME OpeningInit PROVE OpeningInv
  OBVIOUS
<1>0. site \in Sites /\ changed \in BOOLEAN
  BY DEF OpeningInit
<1>1. now = 0 /\ now \in 0 .. OpeningEnd /\ site \in Sites /\ changed \in BOOLEAN
  BY <1>0, OpeningValues DEF OpeningInit
<1>2. None \in Calendars /\ Shut \in Spans
  BY NoHours DEF WellFormed, Spans, Shut
<1>3. provider \in Providers
  BY <1>2, OpeningValues DEF OpeningInit, Providers, NoAnswer
<1>4. ServerKeeps(provider, now, site, changed)
  BY <1>1, <1>3, NoHours DEF OpeningInit, ServerKeeps
<1>5. browser \in Pages
  BY <1>2 DEF OpeningInit, NewPage, Pages
<1>6. PageKeeps(browser, now)
  BY <1>1, <1>5, NoHours, OpeningValues DEF OpeningInit, NewPage, PageKeeps
<1> QED  BY <1>1, <1>4, <1>6 DEF OpeningInv

LEMMA TickKeepsHours == OpeningInv /\ OpeningTick => OpeningInv'
<1> SUFFICES ASSUME OpeningInv, OpeningTick PROVE OpeningInv'
  OBVIOUS
<1>1. now \in Nat /\ now + 1 \in 0 .. OpeningEnd /\ now + 1 \in Nat /\ changed \in BOOLEAN
  BY OpeningValues DEF OpeningInv, OpeningTick
<1>2. provider.pc # "idle" => now + 1 <= provider.since + Span
  BY <1>1, OpeningValues DEF OpeningTick, ProviderInTime, OpeningInv, ServerKeeps, Providers
<1>3. ServerKeeps(provider, now, site, changed) /\ PageKeeps(browser, now)
  BY DEF OpeningInv
<1>4. ServerKeeps(provider, now + 1, site, changed) /\ PageKeeps(browser, now + 1)
  BY <1>1, <1>2, <1>3, KeptOn
<1> QED  BY <1>1, <1>4 DEF OpeningInv, OpeningTick

LEMMA PublishKeepsHours == OpeningInv /\ Publish => OpeningInv'
<1> SUFFICES ASSUME OpeningInv, Publish PROVE OpeningInv'
  OBVIOUS
<1>1. now \in Nat /\ changed \in BOOLEAN /\ site' \in Sites /\ changed' = TRUE
  BY DEF OpeningInv, Publish
<1>2. ServerKeeps(provider, now, site, changed) /\ PageKeeps(browser, now)
  BY DEF OpeningInv
<1>3. provider.pc # "idle" => now <= provider.since + Span
  BY <1>2 DEF ServerKeeps
<1>4. PICK s, c : s = site' /\ c = changed' /\ c = TRUE
  BY <1>1
<1>5. c \in BOOLEAN /\ (~c => ~changed /\ s = site) /\ now <= now
  BY <1>1, <1>4
<1>6. ServerKeeps(provider, now, s, c)
  BY <1>1, <1>2, <1>3, <1>5, KeptOn
<1> QED  BY <1>1, <1>2, <1>4, <1>6 DEF OpeningInv, Publish

\* A step of the server, or of the page, leaves the rest alone.
LEMMA ProviderFrame ==
    ASSUME OpeningInv, ProviderStep, NEW p, provider' = p, ServerKeeps(p, now, site, changed)
    PROVE  OpeningInv'
BY DEF OpeningInv, ProviderStep

LEMMA BrowserFrame ==
    ASSUME OpeningInv, BrowserStep, NEW b, browser' = b, PageKeeps(b, now)
    PROVE  OpeningInv'
BY DEF OpeningInv, BrowserStep

LEMMA ProviderValues ==
    ASSUME OpeningInv
    PROVE  /\ now \in Nat /\ site \in Sites /\ changed \in BOOLEAN
           /\ provider \in Providers /\ provider.calendar \in Calendars
           /\ KeptHours(provider.calendar, now, site, changed)
           /\ KeptHours(provider.cache, now, site, changed)
           /\ WellFormed(provider.calendar)
           /\ provider.due \in Int /\ provider.since \in Nat
           /\ provider.initialized /\ provider.pc \in {"idle", "saving"} =>
                  provider.due = provider.calendar.refreshAt
           /\ provider.pc # "idle" =>
                  provider.since <= now /\ now <= provider.since + Span
           /\ provider.pc = "answered" => AnsweredFor(provider, now, site, changed)
BY OpeningValues DEF OpeningInv, ServerKeeps, Providers, KeptHours

LEMMA RefreshKeeps == OpeningInv /\ refreshIfDue => OpeningInv'
<1> SUFFICES ASSUME OpeningInv, refreshIfDue PROVE OpeningInv'
  OBVIOUS
<1> USE ProviderValues
<1> DEFINE asked == [provider EXCEPT !.initialized = TRUE, !.pc = "asked", !.since = now]
           read == [asked EXCEPT !.calendar = [provider.cache EXCEPT !.source = "cached"]]
<1>1. asked \in Providers /\ asked.pc = "asked" /\ asked.since = now
      /\ asked.calendar = provider.calendar /\ asked.cache = provider.cache
  BY DEF Providers
<1>2. ServerKeeps(asked, now, site, changed)
  <2> HIDE DEF asked
  <2> QED  BY <1>1, OpeningValues DEF ServerKeeps
<1>3. KeptHours([provider.cache EXCEPT !.source = "cached"], now, site, changed)
  BY HoursFromFile
<1>4. [provider.cache EXCEPT !.source = "cached"] \in Calendars
  BY <1>3 DEF KeptHours, WellFormed
<1>5. read \in Providers /\ read.pc = "asked" /\ read.since = now
      /\ read.calendar = [provider.cache EXCEPT !.source = "cached"]
      /\ read.cache = provider.cache
  <2> HIDE DEF asked
  <2> QED  BY <1>1, <1>4 DEF Providers
<1>6. ServerKeeps(read, now, site, changed)
  <2> HIDE DEF read
  <2> QED  BY <1>3, <1>5, OpeningValues DEF ServerKeeps
<1>7. provider' = asked \/ provider' = read
  BY DEF refreshIfDue
<1>8. ProviderStep
  BY DEF refreshIfDue
<1> HIDE DEF asked, read
<1>9. PICK p : p = provider'
  OBVIOUS
<1>10. ServerKeeps(p, now, site, changed)
  BY <1>2, <1>6, <1>7, <1>9
<1> QED  BY <1>8, <1>9, <1>10, ProviderFrame

LEMMA AnswerKeeps == OpeningInv /\ FeedAnswers => OpeningInv'
<1> SUFFICES ASSUME OpeningInv, FeedAnswers PROVE OpeningInv'
  OBVIOUS
<1> USE ProviderValues
<1> DEFINE d == DayOf(now)
           w == site.daily[d]
           a == [weekly |-> site.weekly, today |-> Dated(d, w)]
           p == [provider EXCEPT !.pc = "answered", !.answer = a]
<1>1. now \in 0 .. OpeningEnd
  BY DEF OpeningInv
<1>2. d \in 0 .. DayOf(OpeningEnd)
  BY <1>1, Days, OpeningValues
<1>3. site \in [weekly : Weekly, daily : [0 .. DayOf(OpeningEnd) -> Windows]]
  BY BndOpeningAssumption
<1>4. w \in Windows /\ site.weekly \in Weekly
  BY <1>2, <1>3
<1>5. Dated(d, w) \in Spans
  BY <1>2, <1>4, Windowed
<1>6. a \in [weekly : Weekly, today : Spans] /\ a.today = Dated(d, w)
  BY <1>4, <1>5
<1> HIDE DEF a
<1>7. p \in Providers /\ p.pc = "answered" /\ p.since = provider.since
      /\ p.calendar = provider.calendar /\ p.cache = provider.cache /\ p.answer = a
  BY <1>6 DEF Providers
<1>8. provider' = p /\ ProviderStep /\ provider.pc = "asked"
  BY DEF FeedAnswers, a
<1> HIDE DEF p
<1>9. AnsweredFor(p, now, site, changed)
  BY <1>4, <1>6, <1>7, <1>8 DEF AnsweredFor
<1>10. ServerKeeps(p, now, site, changed)
  BY <1>7, <1>8, <1>9 DEF ServerKeeps
<1> QED  BY <1>8, <1>10, ProviderFrame

\* The answer that is read is of its date, or closed for the day before.
LEMMA ParsedAnswer ==
    ASSUME OpeningInv, provider.pc = "answered", Valid(provider.answer)
    PROVE  LET today == provider.answer.today
               d == DayOf(now)
           IN  /\ Within(d, today)
               /\ ~changed => \/ today = Dated(d, site.daily[d])
                              \/ /\ today = Shut /\ d > 0 /\ site.daily[d - 1] = Shut
                                 /\ now < d * Day + Span
<1> USE ProviderValues
<1> DEFINE today == provider.answer.today
           d == DayOf(now)
<1>1. PICK t \in provider.since .. now, w \in Windows :
          /\ today = Dated(DayOf(t), w)
          /\ ~changed => w = site.daily[DayOf(t)]
  BY DEF AnsweredFor
<1> DEFINE e == DayOf(t)
<1>2. t \in Nat /\ t <= now /\ now <= t + Span
  BY <1>1, OpeningValues
<1>3. e \in Nat /\ e * Day <= t /\ t < e * Day + Day
  BY <1>2, Days
<1>4. d \in Nat /\ d * Day <= now /\ now < d * Day + Day /\ e <= d
  BY <1>2, Days
<1>5. today \in Spans /\ Within(e, today) /\ (today = Shut <=> w = Shut)
  BY <1>1, <1>3, Windowed
<1>6. today # Shut => DayOf(today.start) = d
  BY DEF Valid
<1> HIDE DEF today, d, e
<1>7. CASE today # Shut
  <2>1. today.start \in Int /\ today.end \in Int /\ e * Day <= today.start
        /\ today.start < today.end /\ today.end <= e * Day + Day
    BY <1>5, <1>7 DEF Within, Spans
  <2>2. e * Day \in Nat
    BY <1>3, OpeningValues
  <2>3. today.start \in Nat /\ today.start < e * Day + Day
    BY <2>1, <2>2, OpeningValues
  <2>4. DayOf(today.start) = e
    BY <1>3, <2>1, <2>3, Days
  <2>5. e = d
    BY <1>6, <1>7, <2>4
  <2>6. ~changed => today = Dated(d, site.daily[d])
    BY <1>1, <2>5 DEF e
  <2> QED  BY <1>5, <2>5, <2>6 DEF today, d
<1>8. CASE today = Shut
  <2>1. Within(d, today)
    BY <1>8 DEF Within
  <2>2. ~changed => site.daily[e] = Shut
    BY <1>1, <1>5, <1>8 DEF e
  <2>3. Dated(d, Shut) = Shut
    BY DEF Dated
  <2>4. CASE e = d
    BY <1>8, <2>1, <2>2, <2>3, <2>4 DEF today, d
  <2>5. CASE e < d
    <3>1. e * Day + Day <= d * Day /\ d * Day \in Nat /\ e * Day \in Nat
      BY <1>3, <1>4, <2>5, Days, OpeningValues
    <3>2. e + 1 \in Nat /\ ~(e + 1 < d)
      <4>1. e + 1 < d => (e + 1) * Day + Day <= d * Day
        BY <1>3, <1>4, Days
      <4>2. (e + 1) * Day = e * Day + Day
        BY <1>3, OpeningValues
      <4> QED  BY <4>1, <4>2, <3>1, <1>2, <1>3, <1>4, OpeningValues
    <3>3. e = d - 1 /\ d > 0
      BY <3>2, <2>5, <1>3, <1>4
    <3>4. now < d * Day + Span
      BY <3>1, <1>2, <1>3, OpeningValues
    <3>5. ~changed => site.daily[d - 1] = Shut
      BY <2>2, <3>3
    <3> QED  BY <1>8, <2>1, <3>3, <3>4, <3>5 DEF today, d
  <2> QED  BY <2>4, <2>5, <1>3, <1>4
<1> QED  BY <1>7, <1>8

LEMMA ParseKeeps == OpeningInv /\ parseBndPublicHours => OpeningInv'
<1> SUFFICES ASSUME OpeningInv, parseBndPublicHours PROVE OpeningInv'
  OBVIOUS
<1> USE ProviderValues
<1> DEFINE d == DayOf(now)
           read == [weekly |-> provider.answer.weekly, date |-> d,
                    today |-> provider.answer.today, checked |-> now,
                    refreshAt |-> now, source |-> "website"]
           due == nextRefresh(read, now)
           h == [read EXCEPT !.refreshAt = due]
           p == [provider EXCEPT !.calendar = h, !.due = due, !.pc = "saving",
                                 !.answer = NoAnswer]
<1>1. provider.pc = "answered" /\ Valid(provider.answer) /\ ProviderStep /\ provider' = p
  BY DEF parseBndPublicHours
<1>2. d \in Nat
  BY Days
<1>3. provider.answer.weekly \in Weekly /\ provider.answer.today \in Spans
  BY DEF Providers
<1>4. read \in Calendars /\ read.date = d /\ read.today = provider.answer.today
      /\ read.checked = now /\ read.weekly = provider.answer.weekly
  BY <1>2, <1>3 DEF Calendars
<1> HIDE DEF read
<1>5. WellFormed(read)
  BY <1>1, <1>2, <1>4, ParsedAnswer DEF WellFormed
<1>6. due \in Int
  BY <1>5, RefreshTime
<1> HIDE DEF due
<1>7. h \in Calendars /\ h.weekly = read.weekly /\ h.date = read.date
      /\ h.today = read.today /\ h.checked = read.checked /\ h.refreshAt = due
  BY <1>4, <1>6 DEF Calendars
<1> HIDE DEF h
<1>8. WellFormed(h) /\ nextRefresh(h, now) = due
  BY <1>5, <1>7, SameHours DEF due
<1>9. due <= due
  BY <1>6
<1>10. GoodUntil(h, due, now)
  BY <1>4, <1>7, <1>8, <1>9 DEF GoodUntil
<1>11. OfItsDate(h, site, changed)
  BY <1>1, <1>2, <1>4, <1>7, ParsedAnswer DEF OfItsDate
<1>12. KeptHours(h, now, site, changed)
  BY <1>7, <1>8, <1>10, <1>11 DEF KeptHours
<1>13. NoAnswer \in [weekly : Weekly, today : Spans]
  BY OpeningValues DEF NoAnswer, Spans, Shut
<1> HIDE DEF d
<1>14. p \in Providers /\ p.pc = "saving" /\ p.since = provider.since
       /\ p.calendar = h /\ p.cache = provider.cache /\ p.due = due
  BY <1>6, <1>7, <1>13 DEF Providers
<1> HIDE DEF p
<1>15. ServerKeeps(p, now, site, changed)
  BY <1>1, <1>7, <1>12, <1>14 DEF ServerKeeps
<1> QED  BY <1>1, <1>15, ProviderFrame

LEMMA FailureKeeps == OpeningInv /\ RefreshFails => OpeningInv'
<1> SUFFICES ASSUME OpeningInv, RefreshFails PROVE OpeningInv'
  OBVIOUS
<1> USE ProviderValues
<1> DEFINE due == Earlier(now + Retry, nextRefresh(provider.calendar, now))
           h == [Saved(provider.calendar) EXCEPT !.refreshAt = due]
           p == [provider EXCEPT !.calendar = h, !.due = due, !.pc = "saving",
                                 !.answer = NoAnswer]
<1>1. provider.pc \in {"asked", "answered"} /\ ProviderStep /\ provider' = p
  BY DEF RefreshFails
<1>2. due \in Int /\ due <= now + Retry
  BY RefreshTime, OpeningValues DEF Earlier
<1> HIDE DEF due
<1>3. KeptHours(h, now, site, changed)
  BY <1>2, HoursPutOff
<1>4. h \in Calendars /\ h.refreshAt = due
  BY <1>2, <1>3, SavedHours DEF Calendars
<1>5. NoAnswer \in [weekly : Weekly, today : Spans]
  BY OpeningValues DEF NoAnswer, Spans, Shut
<1> HIDE DEF h
<1>6. p \in Providers /\ p.pc = "saving" /\ p.since = provider.since
      /\ p.calendar = h /\ p.cache = provider.cache /\ p.due = due
  BY <1>2, <1>4, <1>5 DEF Providers
<1> HIDE DEF p
<1>7. ServerKeeps(p, now, site, changed)
  BY <1>1, <1>3, <1>4, <1>6 DEF ServerKeeps
<1> QED  BY <1>1, <1>7, ProviderFrame

LEMMA SaveKeeps == OpeningInv /\ SaveEnds => OpeningInv'
<1> SUFFICES ASSUME OpeningInv, SaveEnds PROVE OpeningInv'
  OBVIOUS
<1> USE ProviderValues
<1> DEFINE retry == Earlier(provider.due, now + Retry)
           idle == [provider EXCEPT !.pc = "idle", !.since = 0]
           saved == [idle EXCEPT !.cache = provider.calendar]
           h == [provider.calendar EXCEPT !.refreshAt = retry]
           unsaved == [idle EXCEPT !.calendar.refreshAt = retry, !.due = retry]
<1>1. provider.pc = "saving" /\ ProviderStep /\ (provider' = saved \/ provider' = unsaved)
  BY DEF SaveEnds
<1>2. retry \in Int /\ retry <= now + Retry
  BY OpeningValues DEF Earlier
<1> HIDE DEF retry
<1>3. idle \in Providers /\ idle.pc = "idle" /\ idle.calendar = provider.calendar
      /\ idle.cache = provider.cache /\ idle.due = provider.due
      /\ idle.initialized = provider.initialized
  BY DEF Providers
<1> HIDE DEF idle
<1>4. saved \in Providers /\ saved.pc = "idle" /\ saved.calendar = provider.calendar
      /\ saved.cache = provider.calendar /\ saved.due = provider.due
      /\ saved.initialized = provider.initialized
  BY <1>3 DEF Providers
<1>5. KeptHours(h, now, site, changed)
  BY <1>2, HoursPutOff
<1>6. h \in Calendars /\ h.refreshAt = retry
  BY <1>2 DEF Calendars
<1>7. unsaved = [idle EXCEPT !.calendar = h, !.due = retry]
  BY <1>3 DEF Providers, Calendars
<1> HIDE DEF h, unsaved
<1>8. unsaved \in Providers /\ unsaved.pc = "idle" /\ unsaved.calendar = h
      /\ unsaved.cache = provider.cache /\ unsaved.due = retry
  BY <1>2, <1>3, <1>6, <1>7 DEF Providers
<1> HIDE DEF saved
<1>9. ServerKeeps(saved, now, site, changed)
  BY <1>1, <1>4 DEF ServerKeeps
<1>10. ServerKeeps(unsaved, now, site, changed)
  BY <1>5, <1>6, <1>8 DEF ServerKeeps
<1>11. PICK p : p = provider'
  OBVIOUS
<1>12. ServerKeeps(p, now, site, changed)
  BY <1>1, <1>9, <1>10, <1>11
<1> QED  BY <1>1, <1>11, <1>12, ProviderFrame

LEMMA RestartKeepsHours == OpeningInv /\ OpeningRestart => OpeningInv'
<1> SUFFICES ASSUME OpeningInv, OpeningRestart PROVE OpeningInv'
  OBVIOUS
<1> USE ProviderValues
<1>z. PICK z \in Nat, f \in BOOLEAN : z = 0 /\ f = FALSE
  OBVIOUS
<1>y. z \in Nat /\ z \in Int /\ f \in BOOLEAN
  BY <1>z
<1> DEFINE p == [provider EXCEPT !.calendar = None, !.initialized = f,
                                 !.due = z, !.pc = "idle", !.since = z, !.answer = NoAnswer]
<1>1. ProviderStep /\ provider' = p
  BY <1>z DEF OpeningRestart
<1>2. NoAnswer \in [weekly : Weekly, today : Spans] /\ None \in Calendars
  BY OpeningValues, NoHours DEF NoAnswer, Spans, Shut, WellFormed
<1>3. p \in Providers /\ p.pc = "idle" /\ p.calendar = None /\ p.cache = provider.cache
      /\ p.initialized = f
  BY <1>2, <1>y DEF Providers
<1> HIDE DEF p
<1>4. ServerKeeps(p, now, site, changed)
  BY <1>z, <1>3, NoHours DEF ServerKeeps
<1> QED  BY <1>1, <1>4, ProviderFrame

-----------------------------------------------------------------------------
\* A page whose hours are read in time.
Reads(b) ==
    /\ b \in Pages /\ WellFormed(b.calendar)
    /\ b.readAt <= now + Retry + Lag \/ GoodUntil(b.calendar, b.readAt - Lag, now)

LEMMA ScheduleKeeps ==
    ASSUME now \in Nat, NEW b, Reads(b)
    PROVE  PageKeeps(schedule(b), now)
<1> DEFINE change == nextChangeAt(now, b.calendar)
           next == IF IsOpen(now, b.calendar) THEN Earlier(now + StatusPoll, change) ELSE change
           timer == Latest(now + 1, Earlier(next, b.readAt))
           p == [b EXCEPT !.pc = "idle", !.since = 0, !.timer = timer]
<1>1. b \in Pages /\ WellFormed(b.calendar) /\ b.readAt \in Int
  BY DEF Reads, Pages
<1>2. change \in Int
  BY <1>1, ScheduleOf
<1> HIDE DEF change
<1>3. next \in Int
  BY <1>2, OpeningValues DEF Earlier
<1> HIDE DEF next
<1>4. timer \in Int /\ (timer <= now + 1 \/ timer <= b.readAt)
  BY <1>1, <1>3 DEF Earlier, Latest
<1> HIDE DEF timer
<1>5. p \in Pages /\ p.pc = "idle" /\ p.calendar = b.calendar /\ p.readAt = b.readAt
      /\ p.timer = timer
  BY <1>1, <1>4 DEF Pages
<1>6. schedule(b) = p
  BY DEF schedule, timer, next, change
<1> HIDE DEF p
<1>7. PageKeeps(p, now)
  BY <1>1, <1>4, <1>5 DEF PageKeeps, Reads
<1> QED  BY <1>6, <1>7

LEMMA DecisionKeeps ==
    ASSUME now \in Nat, NEW b, Reads(b)
    PROVE  PageKeeps(Decided(b), now)
<1>z. PICK z \in Int, n \in Nat : z = 0 /\ n = now
  OBVIOUS
<1>y. z \in Int /\ n \in Nat
  BY <1>z
<1> DEFINE p == [b EXCEPT !.pc = "status", !.since = n, !.timer = z]
<1>1. b \in Pages /\ b.calendar \in Calendars
  BY DEF Reads, WellFormed
<1>2. p \in Pages /\ p.pc = "status" /\ p.calendar = b.calendar /\ p.readAt = b.readAt
  BY <1>1, <1>y DEF Pages
<1>3. Decided(b) = IF IsOpen(now, b.calendar) THEN p ELSE schedule(b)
  BY <1>z DEF Decided
<1> HIDE DEF p
<1>4. PageKeeps(p, now)
  BY <1>2 DEF PageKeeps, Reads
<1> QED  BY <1>3, <1>4, ScheduleKeeps

LEMMA BrowserValues ==
    ASSUME OpeningInv
    PROVE  /\ now \in Nat /\ browser \in Pages /\ browser.calendar \in Calendars
           /\ WellFormed(browser.calendar) /\ browser.readAt \in Int /\ Reads(browser)
BY OpeningValues DEF OpeningInv, PageKeeps, Pages, Reads

LEMMA PollKeeps == OpeningInv /\ poll => OpeningInv'
<1> SUFFICES ASSUME OpeningInv, poll PROVE OpeningInv'
  OBVIOUS
<1> USE BrowserValues
<1>z. PICK z \in Int, n \in Nat : z = 0 /\ n = now
  OBVIOUS
<1>y. z \in Int /\ n \in Nat
  BY <1>z
<1> DEFINE p == [browser EXCEPT !.pc = "hours", !.since = n, !.timer = z]
<1>1. BrowserStep /\ (browser' = p \/ browser' = Decided(browser))
  BY <1>z DEF poll
<1>2. p \in Pages /\ p.pc = "hours" /\ p.calendar = browser.calendar
      /\ p.readAt = browser.readAt
  BY <1>y DEF Pages
<1> HIDE DEF p
<1>3. PageKeeps(p, now)
  BY <1>2 DEF PageKeeps, Reads
<1>4. PageKeeps(Decided(browser), now)
  BY DecisionKeeps
<1>5. PICK b : b = browser'
  OBVIOUS
<1>6. PageKeeps(b, now)
  BY <1>1, <1>3, <1>4, <1>5
<1> QED  BY <1>1, <1>5, <1>6, BrowserFrame

LEMMA HoursEndKeeps == OpeningInv /\ HoursEnd => OpeningInv'
<1> SUFFICES ASSUME OpeningInv, HoursEnd PROVE OpeningInv'
  OBVIOUS
<1> USE BrowserValues
<1> DEFINE h == provider.calendar
           at == IF h.refreshAt = 0 THEN now + Retry ELSE Latest(now + MinGap, h.refreshAt + Lag)
           read == [browser EXCEPT !.calendar = h, !.readAt = at]
           k == Saved(browser.calendar)
<1>z. PICK soon \in Int : soon = now + Retry
  BY OpeningValues
<1>y. soon \in Int
  BY <1>z
<1> DEFINE unread == [browser EXCEPT !.calendar = k, !.readAt = soon]
<1>1. BrowserStep /\ (browser' = Decided(read) \/ browser' = Decided(unread))
  BY <1>z DEF HoursEnd
<1>2. h \in Calendars /\ WellFormed(h) /\ KeptHours(h, now, site, changed)
      /\ h.refreshAt \in Int
  BY ProviderValues DEF Calendars
<1> HIDE DEF h
<1>3. at \in Int
  BY <1>2, OpeningValues DEF Latest
<1>4. at <= now + Retry + Lag \/ (at = h.refreshAt + Lag /\ at > now + Retry + Lag)
  BY <1>2, OpeningValues DEF Latest
<1> HIDE DEF at
<1>5. at = h.refreshAt + Lag => at - Lag = h.refreshAt
  BY <1>2, OpeningValues
<1>6. at <= now + Retry + Lag \/ GoodUntil(h, at - Lag, now)
  <2>1. h.refreshAt <= now + Retry \/ GoodUntil(h, h.refreshAt, now)
    BY <1>2 DEF KeptHours
  <2>2. at = h.refreshAt + Lag /\ at > now + Retry + Lag => ~(h.refreshAt <= now + Retry)
    BY <1>2, OpeningValues
  <2>3. CASE at <= now + Retry + Lag
    BY <2>3
  <2>4. CASE at = h.refreshAt + Lag /\ at > now + Retry + Lag
    BY <2>1, <2>2, <2>4, <1>5
  <2> QED  BY <1>4, <2>3, <2>4
<1>7. read \in Pages /\ read.calendar = h /\ read.readAt = at
  BY <1>2, <1>3 DEF Pages
<1> HIDE DEF read
<1>8. Reads(read)
  BY <1>2, <1>6, <1>7 DEF Reads
<1>9. k \in Calendars /\ WellFormed(k)
  BY SavedHours, SameHours
<1> HIDE DEF k
<1>10. unread \in Pages /\ unread.calendar = k /\ unread.readAt = soon
  BY <1>9, <1>y DEF Pages
<1> HIDE DEF unread
<1>11. Reads(unread)
  BY <1>z, <1>9, <1>10, OpeningValues DEF Reads
<1>12. PageKeeps(Decided(read), now) /\ PageKeeps(Decided(unread), now)
  BY <1>8, <1>11, DecisionKeeps
<1>13. PICK b : b = browser'
  OBVIOUS
<1>14. PageKeeps(b, now)
  BY <1>1, <1>12, <1>13
<1> QED  BY <1>1, <1>13, <1>14, BrowserFrame

LEMMA StatusKeepsHours == OpeningInv /\ StatusEnds => OpeningInv'
<1> SUFFICES ASSUME OpeningInv, StatusEnds PROVE OpeningInv'
  OBVIOUS
<1>1. BrowserStep /\ browser' = schedule(browser)
  BY DEF StatusEnds
<1>2. PageKeeps(schedule(browser), now)
  BY BrowserValues, ScheduleKeeps
<1>3. PICK b : b = browser'
  OBVIOUS
<1>4. PageKeeps(b, now)
  BY <1>1, <1>2, <1>3
<1> QED  BY <1>1, <1>3, <1>4, BrowserFrame

LEMMA LoginKeepsHours == OpeningInv /\ Login => OpeningInv'
<1> SUFFICES ASSUME OpeningInv, Login PROVE OpeningInv'
  OBVIOUS
<1> USE BrowserValues
<1> DEFINE p == [NewPage EXCEPT !.calendar = browser.calendar, !.timer = now]
<1>1. BrowserStep /\ browser' = p
  BY DEF Login
<1> DEFINE q == [NewPage EXCEPT !.calendar = browser.calendar]
<1>a. q = [calendar |-> browser.calendar, readAt |-> 0, timer |-> 0, pc |-> "idle",
           since |-> 0]
  BY DEF NewPage
<1>b. q \in Pages /\ q.calendar = browser.calendar /\ q.readAt = 0 /\ q.pc = "idle"
  <2> HIDE DEF q
  <2> QED  BY <1>a DEF Pages
<1>c. p = [q EXCEPT !.timer = now]
  BY DEF NewPage
<1>2. p \in Pages /\ p.pc = "idle" /\ p.calendar = browser.calendar /\ p.readAt = 0
      /\ p.timer = now
  <2> HIDE DEF p, q
  <2> QED  BY <1>b, <1>c DEF Pages
<1> HIDE DEF p
<1>3. PageKeeps(p, now)
  BY <1>2, OpeningValues DEF PageKeeps
<1> QED  BY <1>1, <1>3, BrowserFrame

LEMMA OpeningGoesOn == OpeningInv /\ [OpeningNext]_openingVars => OpeningInv'
<1> SUFFICES ASSUME OpeningInv, [OpeningNext]_openingVars PROVE OpeningInv'
  OBVIOUS
<1>1. CASE OpeningNext
  BY <1>1, TickKeepsHours, PublishKeepsHours, RefreshKeeps, AnswerKeeps, ParseKeeps,
     FailureKeeps, SaveKeeps, RestartKeepsHours, PollKeeps, HoursEndKeeps,
     StatusKeepsHours, LoginKeepsHours DEF OpeningNext
<1>2. CASE UNCHANGED openingVars
  BY <1>2 DEF openingVars, OpeningInv
<1> QED  BY <1>1, <1>2

-----------------------------------------------------------------------------
\* Hours not asked for again by now were confirmed since the point that the schedule names.
LEMMA NotDue ==
    ASSUME now \in Nat, NEW h, WellFormed(h), NEW t \in Int, now < t, GoodUntil(h, t, now)
    PROVE  ConfirmedSincePoint(h)
<1> DEFINE c == h.checked
           d == DayOf(c)
           w == bndDayWindow(d, h)
<1>1. c \in Nat /\ c <= now /\ d \in Nat /\ d * Day <= c /\ t <= nextRefresh(h, c)
  BY Days DEF GoodUntil
<1>2. w \in Spans /\ Within(d, w)
  BY <1>1, DayWindow
<1>3. nextRefresh(h, c) = IF w # Shut /\ c < w.start THEN w.start ELSE (d + 1) * Day
  BY DEF nextRefresh
<1>4. (d + 1) * Day = d * Day + Day /\ d * Day \in Nat
  BY <1>1, OpeningValues
<1>5. DayOf(now) = d
  <2> HIDE DEF d, w, c
  <2>1. w # Shut => w.start < d * Day + Day /\ w.start \in Int
    BY <1>2, <1>4, OpeningValues DEF Within, Spans
  <2>2. now < d * Day + Day /\ d * Day <= now
    BY <1>1, <1>3, <1>4, <2>1, OpeningValues
  <2> QED  BY <1>1, <2>2, Days
<1>6. Started(now, h) <=> w # Shut /\ w.start <= now
  BY <1>5 DEF Started
<1>7. c >= IF Started(now, h) THEN w.start ELSE d * Day
  <2> HIDE DEF d, w, c
  <2>1. CASE Started(now, h)
    BY <1>1, <1>2, <1>3, <1>6, <2>1 DEF Spans
  <2>2. CASE ~Started(now, h)
    BY <1>1, <1>4, <2>2
  <2> QED  BY <2>1, <2>2
<1> QED  BY <1>5, <1>7 DEF ConfirmedSincePoint

LEMMA OpeningStands == OpeningSpec => []OpeningInv
<1> QED  BY OpeningBegins, OpeningGoesOn, PTL DEF OpeningSpec

\* B&D is open when its hours say so, as last published for the date, and the hours were
\* confirmed since the opening and midnight or are about to be read again, by the server and
\* by a page (integrations/bnd/hours.ts:83-113, schedule.ts:78-94, bndStatusPolling.ts:22-59).
THEOREM HoursAreKept == OpeningSpec => []HoursKept
<1>1. ASSUME OpeningInv PROVE HoursKept
  <2> USE <1>1
  <2>1. now \in Nat /\ PageKeeps(browser, now) /\ browser.timer \in Int
        /\ browser.calendar \in Calendars
    BY BrowserValues DEF OpeningInv, Pages
  <2>2. provider.pc = "idle" /\ provider.initialized =>
            provider.due <= now + Retry \/ ConfirmedSincePoint(provider.calendar)
    <3> SUFFICES ASSUME provider.pc = "idle", provider.initialized, ~(provider.due <= now + Retry)
                 PROVE  ConfirmedSincePoint(provider.calendar)
      OBVIOUS
    <3>1. provider.due = provider.calendar.refreshAt /\ provider.due \in Int
      BY ProviderValues
    <3>2. GoodUntil(provider.calendar, provider.due, now)
      BY <3>1, ProviderValues DEF KeptHours
    <3>3. now < provider.due
      BY <2>1, <3>1, OpeningValues
    <3> QED  BY <2>1, <3>1, <3>2, <3>3, NotDue, ProviderValues
  <2>3. browser.pc = "idle" =>
            \/ Latest(browser.timer, browser.readAt) <= now + Retry + Lag
            \/ ConfirmedSincePoint(browser.calendar)
    <3> SUFFICES ASSUME browser.pc = "idle",
                        ~(Latest(browser.timer, browser.readAt) <= now + Retry + Lag)
                 PROVE  ConfirmedSincePoint(browser.calendar)
      OBVIOUS
    <3>1. browser.readAt \in Int /\ (browser.timer <= now + 1 \/ browser.timer <= browser.readAt)
      BY <2>1, BrowserValues DEF PageKeeps
    <3>2. ~(browser.readAt <= now + Retry + Lag)
      BY <2>1, <3>1, OpeningValues DEF Latest
    <3>3. GoodUntil(browser.calendar, browser.readAt - Lag, now)
      BY <2>1, <3>2 DEF PageKeeps
    <3>4. browser.readAt - Lag \in Int /\ now < browser.readAt - Lag
      BY <2>1, <3>1, <3>2, OpeningValues
    <3> QED  BY <2>1, <3>3, <3>4, NotDue, BrowserValues
  <2>4. ScheduleHolds
    BY <2>1, ScheduleOf, BrowserValues, ProviderValues DEF ScheduleHolds
  <2>5. PublishedForItsDate
    BY ProviderValues DEF PublishedForItsDate, KeptHours, OfItsDate
  <2> QED  BY <2>2, <2>3, <2>4, <2>5 DEF HoursKept, ConfirmedOrRetried
<1> QED  BY <1>1, OpeningStands, PTL
=============================================================================
