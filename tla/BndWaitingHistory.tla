-------------------------- MODULE BndWaitingHistory --------------------------
(***************************************************************************)
(* The durable timing history of B&D waiting calls                         *)
(* (services/bndWaitingHistory.service.ts): every successful check of a    *)
(* monitor is recorded in one transaction, serialized between processes by *)
(* an advisory lock and dropped when it rolls back.  The monitors are as   *)
(* BndObserver describes them, which BndMonitor implements.                *)
(***************************************************************************)
EXTENDS BndObserver, FiniteSets, Sequences

CONSTANTS
    Poll,           \* BND_POLL_MS, in ticks
    OverdueAfter    \* FIVE_MINUTES_MS

\* A list names finitely many orders.
HistoryAssumption == IsFiniteSet(Orders) /\ {Poll, OverdueAfter, MaxTime} \subseteq Nat

VARIABLES
    checks,     \* Seq(Check), BndMonitorCheck in the order of checkedAt
    periods     \* Seq(Period), BndWaitingPeriod in the order of creation

historyVars == <<checks, periods>>
vars == <<observerVars, historyVars>>

Times == {Never} \cup 0 .. MaxTime
CheckRow == [checkedAt: 0 .. MaxTime, pendingCount: Nat]
Period == [order: Orders, firstSeenAt: 0 .. MaxTime, lastSeenWaitingAt: 0 .. MaxTime,
           overFiveMinutesAt: Times, endObservedAt: Times,
           endReason: {"none", "CLAIMED", "MISSING", "GAP"}]

HistoryTypeOK ==
    /\ ObserverTypeOK
    /\ checks \in Seq(CheckRow)
    /\ periods \in Seq(Period)
    /\ \A i \in DOMAIN periods :
          periods[i].endReason = "none" <=> periods[i].endObservedAt = Never

Init == ObserverInit /\ checks = <<>> /\ periods = <<>>

-----------------------------------------------------------------------------
Active(period) == period.endObservedAt = Never

Waiting(answer) == {o \in Orders : answer[o] = "waiting"}

MaxObservationGap == 2 * Poll

\* Mutant: an outage is charged as waiting time.
Gap_Charged(period, observedAt) == FALSE

Gap(period, observedAt) == observedAt - period.lastSeenWaitingAt > MaxObservationGap

Continues(period, answer, observedAt) ==
    answer[period.order] = "waiting" /\ ~Gap(period, observedAt)

\* An open period after the check that is recorded.
Continued(period, observedAt) ==
    [period EXCEPT
        !.lastSeenWaitingAt = observedAt,
        !.overFiveMinutesAt = IF @ # Never THEN @
                              ELSE IF observedAt - period.firstSeenAt > OverdueAfter
                              THEN observedAt ELSE Never]

Ended(period, answer, observedAt) ==
    [period EXCEPT
        !.endObservedAt = observedAt,
        !.endReason = CASE answer[period.order] = "claimed" -> "CLAIMED"
                        [] answer[period.order] = "waiting" -> "GAP"
                        [] OTHER                            -> "MISSING"]

Updated(period, answer, observedAt) ==
    IF ~Active(period) THEN period
    ELSE IF Continues(period, answer, observedAt) THEN Continued(period, observedAt)
    ELSE Ended(period, answer, observedAt)

NewPeriod(o, observedAt) ==
    [order |-> o, firstSeenAt |-> observedAt, lastSeenWaitingAt |-> observedAt,
     overFiveMinutesAt |-> Never, endObservedAt |-> Never, endReason |-> "none"]

\* The orders whose open period the check continues.
Continuing(answer, observedAt) ==
    {o \in Orders : \E i \in DOMAIN periods :
        periods[i].order = o /\ Active(periods[i]) /\ Continues(periods[i], answer, observedAt)}

\* Mutant: a snapshot that arrives out of order is recorded.
Outdated_Never(observedAt) == FALSE

\* A snapshot at or before the latest recorded one.
Outdated(observedAt) == \E i \in DOMAIN checks : checks[i].checkedAt >= observedAt

Recorded(answer, observedAt) ==
    LET newOrders == Waiting(answer) \ Continuing(answer, observedAt)
    IN  /\ checks' = Append(checks, [checkedAt |-> observedAt,
                                     pendingCount |-> Cardinality(Waiting(answer))])
        /\ \E created \in [1 .. Cardinality(newOrders) -> newOrders] :
              /\ \A o \in newOrders : \E i \in DOMAIN created : created[i] = o
              /\ periods' = [i \in DOMAIN periods |-> Updated(periods[i], answer, observedAt)]
                            \o [i \in DOMAIN created |-> NewPeriod(created[i], observedAt)]

\* The transaction commits.
RecordSnapshot(p) ==
    /\ At(p, "snapshot")
    /\ IF Outdated(obs[p].observedAt) THEN UNCHANGED historyVars
       ELSE Recorded(obs[p].answer, obs[p].observedAt)
    /\ Release(p)

\* A request fails, or the transaction does: the whole check rolls back and
\* monitoring goes on.
CheckLost(p) == Release(p) /\ UNCHANGED historyVars

MonitorsGoOn ==
    /\ \/ \E p \in Processes : Ask(p) \/ Read(p) \/ Apply(p)
       \/ \E o \in Orders : ListChanges(o)
       \/ Tick
    /\ UNCHANGED historyVars

Next == MonitorsGoOn \/ \E p \in Processes : RecordSnapshot(p) \/ CheckLost(p)

Spec == Init /\ [][Next]_vars

-----------------------------------------------------------------------------
(***************************************************************************)
(* Properties                                                              *)
(***************************************************************************)

\* Overlapping deploys never give one call two waiting periods at a time: a period
\* of an order begins no earlier than the previous one was closed.
PeriodsDisjoint ==
    \A i, j \in DOMAIN periods :
        i < j /\ periods[i].order = periods[j].order =>
            /\ periods[i].endObservedAt # Never
            /\ periods[i].endObservedAt <= periods[j].firstSeenAt

\* "Outages and overnight pauses are not charged as waiting time": an overdue call
\* was observed without a gap longer than two polls, from the first observation to
\* the one that made it overdue, more than five minutes later.
OverdueWasObserved ==
    \A i \in DOMAIN periods :
        LET period == periods[i]
            over == period.overFiveMinutesAt
        IN  over # Never =>
              /\ over - period.firstSeenAt > OverdueAfter
              /\ \A t \in period.firstSeenAt .. over - 1 :
                    \E k \in DOMAIN checks :
                        checks[k].checkedAt > t /\ checks[k].checkedAt <= t + MaxObservationGap
                        /\ checks[k].checkedAt <= over

\* "Delayed/duplicate snapshots cannot reopen old orders": a call that was recorded
\* as claimed gets no new waiting period.  An order is never waiting again upstream
\* once it was claimed.
ClaimedOrdersNotReopened ==
    \A i, j \in DOMAIN periods :
        i < j /\ periods[i].endReason = "CLAIMED" => periods[j].order # periods[i].order
=============================================================================
