------------------------------ MODULE BndCalls -------------------------------
(***************************************************************************)
(* The machines that watch B&D calls side by side: the monitor (BndMonitor,*)
(* which this module extends), the history of waiting periods and the      *)
(* email alerts.  They share the clock and the upstream list, and no state *)
(* that one writes and another reads back: the history sees the monitors   *)
(* as BndObserver describes them, which BndMonitor implements, and the     *)
(* alerts take what a monitor shows as an input.                           *)
(***************************************************************************)
EXTENDS BndMonitor, Sequences

CONSTANTS
    Servers,                                                        \* the processes of both
    HistoryPoll, OverdueAfter, HistoryEnd,                          \* BndWaitingHistory
    ClaimTime, RetryWindow, KeyWindow, SendDelay, MaxAttempts, EmailEnd \* BndEmailAlerts

VARIABLES
    obs, checks, periods,                                       \* BndWaitingHistory
    enabled, fresh, proc, receipts, keys, delivered, sentLate   \* BndEmailAlerts

History == INSTANCE BndWaitingHistory WITH
    Processes <- Servers, Poll <- HistoryPoll, MaxTime <- HistoryEnd

Emails == INSTANCE BndEmailAlerts WITH Processes <- Servers, MaxTime <- EmailEnd

ASSUME CallsAssumption == History!HistoryAssumption /\ Emails!EmailAssumption

CallsSpec == MonitorSpec /\ History!Spec /\ Emails!Spec

-----------------------------------------------------------------------------
\* The recorded periods of a call never overlap, and none is overdue over a gap in
\* the observations (bndWaitingHistory.service.ts:9-44).
HistorySound == History!PeriodsDisjoint /\ History!OverdueWasObserved

\* A call is emailed once, and once the switch is off only an email in hand is sent
\* (bndEmailAlerts.service.ts:113-147).
EmailsSound == Emails!OneEmailPerOrder /\ Emails!OffStopsEmails
=============================================================================
