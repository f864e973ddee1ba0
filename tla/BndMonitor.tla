----------------------------- MODULE BndMonitor -----------------------------
(***************************************************************************)
(* The monitor of B&D waiting calls: one per backend process, reading the  *)
(* order list of a shared upstream account (integrations/bnd/monitor.ts).  *)
(* Two processes overlap during a deploy.                                  *)
(*                                                                         *)
(* A request of a monitor takes time: the upstream answers at one step and *)
(* the answer is applied at a later one, when the schedule may have closed *)
(* and the process may have been stopped.                                  *)
(***************************************************************************)
EXTENDS Integers, FiniteSets

CONSTANTS
    Orders, Processes,
    Poll,           \* BND_POLL_MS, in ticks
    ActivePoll,     \* BND_ACTIVE_POLL_MS
    MaxRetry,       \* MAX_RETRY_MS
    RequestTime,    \* REQUEST_TIMEOUT_MS
    RetryAfters,    \* the Retry-After delays the upstream asks for
    Hours,          \* the times at which B&D is open
    MaxTime         \* bound on the clock

ASSUME MonitorAssumption ==
    /\ {Poll, ActivePoll, MaxRetry, RequestTime, MaxTime} \subseteq Nat
    /\ ActivePoll <= Poll /\ Poll <= MaxRetry
    /\ RetryAfters \subseteq Nat /\ Hours \subseteq Nat

VARIABLES
    clock,
    list,       \* [Orders -> state of the order upstream]
    lastWaiting,    \* [Orders -> Int], when the order was last waiting upstream
    mon,        \* [Processes -> Monitor]
    rejected,   \* [Processes -> Int], the last time B&D rejected this login
    deadline    \* [Processes -> Nat], the end of the longest Retry-After received

monitorVars == <<clock, list, lastWaiting, mon, rejected, deadline>>

Never == -1
Max2(a, b) == IF a < b THEN b ELSE a
Min2(a, b) == IF a < b THEN a ELSE b

\* An order is not yet in the list, waits in it, was claimed, or has left the list.
OrderStates == {"absent", "waiting", "claimed", "gone"}

\* pc names the request the monitor waits for, or what it does with the answer.
Monitor == [pc: {"idle", "login", "read", "answer", "snapshot"}, stopped: BOOLEAN,
            token: BOOLEAN, hadToken: BOOLEAN, asked: Int, answer: [Orders -> OrderStates],
            state: {"checking", "connected", "error", "paused"}, failed: BOOLEAN,
            pendingOrders: SUBSET Orders, lastSuccessAt: Int, notBefore: Nat, failures: 0 .. 5]

NewMonitor == [pc |-> "idle", stopped |-> FALSE, token |-> FALSE, hadToken |-> FALSE,
               asked |-> 0, answer |-> [o \in Orders |-> "absent"],
               state |-> "checking", failed |-> FALSE, pendingOrders |-> {},
               lastSuccessAt |-> Never, notBefore |-> 0, failures |-> 0]

MonitorTypeOK ==
    /\ clock \in 0 .. MaxTime
    /\ list \in [Orders -> OrderStates]
    /\ lastWaiting \in [Orders -> Int]
    /\ mon \in [Processes -> Monitor]
    /\ \A p \in Processes : \E d \in {Poll, MaxRetry} \cup RetryAfters :
          mon[p].notBefore <= clock + d
    /\ rejected \in [Processes -> Int]
    /\ deadline \in [Processes -> Nat]

MonitorInit ==
    /\ clock = 0
    /\ list = [o \in Orders |-> "absent"]
    /\ lastWaiting = [o \in Orders |-> Never]
    /\ mon = [p \in Processes |-> NewMonitor]
    /\ rejected = [p \in Processes |-> Never]
    /\ deadline = [p \in Processes |-> 0]

-----------------------------------------------------------------------------
Open == clock \in Hours

At(p, pc) == mon[p].pc = pc

Idle(m) == [m EXCEPT !.pc = "idle", !.answer = NewMonitor.answer, !.hadToken = FALSE]

Paused(m) == [Idle(m) EXCEPT !.state = "paused"]

\* request refuses to start in a stopped process or outside the hours.
Request(m, pc) ==
    IF m.stopped THEN Idle(m)
    ELSE IF ~Open THEN Paused(m)
    ELSE [m EXCEPT !.pc = pc, !.asked = clock, !.answer = NewMonitor.answer]

\* performCheck, up to its first request.
Check(p) ==
    LET m == mon[p] IN
    /\ At(p, "idle")
    /\ ~m.stopped
    /\ Open
    /\ clock >= m.notBefore
    /\ mon' = [mon EXCEPT ![p] = Request(
          [m EXCEPT !.hadToken = m.token,
                    !.state = IF @ # "paused" THEN @
                              ELSE IF m.failed THEN "error" ELSE "checking"],
          IF m.token THEN "read" ELSE "login")]
    /\ UNCHANGED <<clock, list, lastWaiting, rejected, deadline>>

Pause(p) ==
    /\ At(p, "idle")
    /\ ~mon[p].stopped
    /\ ~Open
    /\ mon[p].state # "paused"
    /\ mon' = [mon EXCEPT ![p] = Paused(mon[p])]
    /\ UNCHANGED <<clock, list, lastWaiting, rejected, deadline>>

LoginAccepted(p) ==
    /\ At(p, "login")
    /\ mon' = [mon EXCEPT ![p] = Request([mon[p] EXCEPT !.token = ~mon[p].stopped], "read")]
    /\ UNCHANGED <<clock, list, lastWaiting, rejected, deadline>>

\* The upstream reads its list.
ListRead(p) ==
    /\ At(p, "read")
    /\ mon' = [mon EXCEPT ![p].pc = "answer", ![p].answer = list]
    /\ UNCHANGED <<clock, list, lastWaiting, rejected, deadline>>

Waiting(answer) == {o \in Orders : answer[o] = "waiting"}

\* Mutant: a snapshot bears the time its request began.
Apply_AskedAt(p) ==
    LET m == mon[p] IN
    /\ At(p, "answer")
    /\ mon' = [mon EXCEPT ![p] =
          IF m.stopped THEN Idle(m)
          ELSE IF ~Open THEN Paused(m)
          ELSE [m EXCEPT
                  !.pc = "snapshot", !.failures = 0, !.failed = FALSE, !.hadToken = FALSE,
                  !.pendingOrders = Waiting(m.answer), !.state = "connected",
                  !.lastSuccessAt = m.asked,
                  !.notBefore = clock + (IF Waiting(m.answer) # {} THEN ActivePoll ELSE Poll)]]
    /\ UNCHANGED <<clock, list, lastWaiting, rejected, deadline>>

\* The answer arrives: the only step that changes the calls shown.
Apply(p) ==
    LET m == mon[p] IN
    /\ At(p, "answer")
    /\ mon' = [mon EXCEPT ![p] =
          IF m.stopped THEN Idle(m)
          ELSE IF ~Open THEN Paused(m)
          ELSE [m EXCEPT
                  !.pc = "snapshot", !.failures = 0, !.failed = FALSE, !.hadToken = FALSE,
                  !.pendingOrders = Waiting(m.answer), !.state = "connected",
                  !.lastSuccessAt = clock,
                  !.notBefore = clock + (IF Waiting(m.answer) # {} THEN ActivePoll ELSE Poll)]]
    /\ UNCHANGED <<clock, list, lastWaiting, rejected, deadline>>

\* onSnapshot has ended, whether or not it saved the history.
SnapshotDone(p) ==
    /\ At(p, "snapshot")
    /\ mon' = [mon EXCEPT ![p] = Idle(mon[p])]
    /\ UNCHANGED <<clock, list, lastWaiting, rejected, deadline>>

Exponential(failures) == Poll * 2 ^ (failures - 1)
Backoff(failures) == Min2(MaxRetry, Exponential(failures))

\* Mutant: a Retry-After is not read.
Delay_BackoffOnly(failures, code, retryAfter) ==
    Max2(Backoff(failures), IF code = "authentication" THEN MaxRetry ELSE 0)

Delay(failures, code, retryAfter) ==
    Max2(Max2(Backoff(failures), retryAfter), IF code = "authentication" THEN MaxRetry ELSE 0)

\* The catch of performCheck.
Failed(m, code, retryAfter) ==
    LET failures == Min2(m.failures + 1, 5)
    IN  IF m.stopped THEN Idle(m)
        ELSE IF ~Open THEN Paused(m)
        ELSE [Idle(m) EXCEPT
                !.token = IF code = "authentication" THEN FALSE ELSE @,
                !.failures = failures, !.failed = TRUE, !.state = "error",
                !.notBefore = clock + Delay(failures, code, retryAfter)]

\* A timeout, an error status or an answer that does not parse.
RequestFails(p) ==
    /\ mon[p].pc \in {"login", "read", "answer"}
    /\ mon' = [mon EXCEPT ![p] = Failed(mon[p], "connection", 0)]
    /\ UNCHANGED <<clock, list, lastWaiting, rejected, deadline>>

RateLimited(p) ==
    /\ mon[p].pc \in {"login", "read"}
    /\ \E wait \in RetryAfters :
          /\ mon' = [mon EXCEPT ![p] = Failed(mon[p], "rate_limited", wait)]
          /\ deadline' = [deadline EXCEPT ![p] =
                IF mon[p].stopped \/ ~Open THEN @ ELSE Max2(@, clock + wait)]
    /\ UNCHANGED <<clock, list, lastWaiting, rejected>>

LoginRejected(p) ==
    /\ At(p, "login")
    /\ mon' = [mon EXCEPT ![p] = Failed(mon[p], "authentication", 0)]
    /\ rejected' = [rejected EXCEPT ![p] = IF mon[p].stopped \/ ~Open THEN @ ELSE clock]
    /\ UNCHANGED <<clock, list, lastWaiting, deadline>>

\* An expired session is refreshed once.
SessionRejected(p) ==
    LET m == mon[p] IN
    /\ At(p, "read")
    /\ mon' = [mon EXCEPT ![p] =
          IF m.hadToken /\ ~m.stopped
          THEN Request([m EXCEPT !.token = FALSE, !.hadToken = FALSE], "login")
          ELSE Failed(m, "authentication", 0)]
    /\ UNCHANGED <<clock, list, lastWaiting, rejected, deadline>>

Stop(p) ==
    /\ ~mon[p].stopped
    /\ mon' = [mon EXCEPT ![p].stopped = TRUE, ![p].token = FALSE]
    /\ UNCHANGED <<clock, list, lastWaiting, rejected, deadline>>

\* The process ends, or crashes, and the next deploy takes its place.
Restart(p) ==
    /\ mon[p].stopped
    /\ mon' = [mon EXCEPT ![p] = NewMonitor]
    /\ rejected' = [rejected EXCEPT ![p] = Never]
    /\ deadline' = [deadline EXCEPT ![p] = 0]
    /\ UNCHANGED <<clock, list, lastWaiting>>

-----------------------------------------------------------------------------
(***************************************************************************)
(* The upstream account and the clock                                      *)
(***************************************************************************)

\* A call arrives, is claimed by whoever opens it, and leaves the list.
ListChanges(o) ==
    /\ \/ list[o] = "absent" /\ list' = [list EXCEPT ![o] = "waiting"]
       \/ list[o] = "waiting" /\ list' = [list EXCEPT ![o] = "claimed"]
       \/ list[o] \in {"waiting", "claimed"} /\ list' = [list EXCEPT ![o] = "gone"]
    /\ lastWaiting' = [lastWaiting EXCEPT ![o] =
                          IF list[o] = "waiting" \/ list'[o] = "waiting" THEN clock ELSE @]
    /\ UNCHANGED <<clock, mon, rejected, deadline>>

\* No request outlasts its timeout.
Tick ==
    /\ clock < MaxTime
    /\ \A p \in Processes :
          mon[p].pc \in {"login", "read", "answer"} => clock < mon[p].asked + RequestTime
    /\ clock' = clock + 1
    /\ lastWaiting' = [o \in Orders |-> IF list[o] = "waiting" THEN clock + 1 ELSE lastWaiting[o]]
    /\ UNCHANGED <<list, mon, rejected, deadline>>

\* The steps of a monitor but for the end of its snapshot callback.
MonitorStep(p) ==
    \/ Check(p)
    \/ Pause(p)
    \/ LoginAccepted(p)
    \/ ListRead(p)
    \/ Apply(p)
    \/ RequestFails(p)
    \/ RateLimited(p)
    \/ LoginRejected(p)
    \/ SessionRejected(p)
    \/ Stop(p)
    \/ Restart(p)

MonitorNext ==
    \/ \E p \in Processes : MonitorStep(p) \/ SnapshotDone(p)
    \/ \E o \in Orders : ListChanges(o)
    \/ Tick

MonitorSpec == MonitorInit /\ [][MonitorNext]_monitorVars

\* Mutant: a status does not age.
Fresh_Ageless(p) == Open /\ mon[p].state = "connected"

\* getStatus: connected, within the hours, and not stale.
Fresh(p) ==
    /\ Open
    /\ mon[p].state = "connected"
    /\ clock - mon[p].lastSuccessAt <= 2 * Poll

-----------------------------------------------------------------------------
(***************************************************************************)
(* Properties                                                              *)
(***************************************************************************)

\* A status that a monitor calls connected lists calls that were waiting at most
\* two polls and one request ago, though the list was read before the answer was
\* applied and a failing monitor keeps its last-known calls.
FreshCallsWereWaiting ==
    \A p \in Processes : Fresh(p) =>
        \A o \in mon[p].pendingOrders : lastWaiting[o] >= clock - 2 * Poll - RequestTime

\* "Bad credentials never cause a tight login loop", "rejected logins retry after 15
\* minutes", and "error backoff and B&D Retry-After limits override the faster
\* schedule", "if they extend past reopening" too: a process that was rejected does
\* not log in again sooner, though an expired session makes it log in again at once,
\* and no request begins before the end of a Retry-After.
LoginAndRetryDelays ==
    [][\A p \in Processes :
          mon'[p].pc \in {"login", "read"} /\ mon'[p].pc # mon[p].pc =>
              /\ clock >= deadline[p]
              /\ mon'[p].pc = "login" /\ rejected[p] # Never
                    => clock >= rejected[p] + MaxRetry]_monitorVars

-----------------------------------------------------------------------------
(***************************************************************************)
(* The monitor implements what the history relies on                       *)
(***************************************************************************)

\* The part of a monitor that the history sees.
Seen(m) ==
    LET pc == IF m.pc = "login" THEN "idle" ELSE m.pc
    IN  [pc |-> pc,
         asked |-> IF pc \in {"read", "answer"} THEN m.asked ELSE 0,
         answer |-> m.answer,
         observedAt |-> IF pc = "snapshot" THEN m.lastSuccessAt ELSE 0]

Observed == INSTANCE BndObserver WITH obs <- [p \in Processes |-> Seen(mon[p])]

\* A monitor, with all its logins, failures, hours and restarts, gives the history
\* only lists read within one request, each with the time it was applied.
ImplementsObserver == Observed!ObserverSpec
=============================================================================
