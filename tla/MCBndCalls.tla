----------------------------- MODULE MCBndCalls -----------------------------
(***************************************************************************)
(* A small instance of the machines that watch B&D calls (BndCalls) and of *)
(* B&D's opening hours, for TLC.  None of them reads what another one      *)
(* writes: the monitor takes the hours as an input too.  So each behaviour *)
(* runs one of them, and what it shows of its variables holds of any       *)
(* interleaving with the others.                                           *)
(***************************************************************************)
EXTENDS BndCalls, BndOpening, TLC

VARIABLE part       \* the machine that runs

monitorOnly == <<lastWaiting, mon, rejected, deadline>>
historyOnly == <<obs, checks, periods>>
emailOnly == <<enabled, fresh, proc, receipts, keys, delivered, sentLate>>

\* B&D over three days of four ticks: a holiday on the first and the last of them, or
\* windows that reach midnight and differ from the weekday's.
Window(start, end) == [start |-> start, end |-> end]
ByWeekday(even, odd) == [d \in 0 .. 1 |-> IF d = 0 THEN even ELSE odd]
BndWeek == ByWeekday(Window(1, 3), Window(1, 4))
BndSites ==
    {[weekly |-> BndWeek, daily |-> [d \in 0 .. 2 |-> <<Shut, Window(1, 4), Shut>>[d + 1]]],
     [weekly |-> ByWeekday(Window(0, 2), Shut),
      daily |-> [d \in 0 .. 2 |-> <<Window(2, 3), Window(0, 4), Window(0, 2)>>[d + 1]]]}

Init ==
    /\ part \in {"monitor", "history", "emails", "hours"}
    /\ MonitorInit
    /\ History!Init
    /\ Emails!Init
    /\ OpeningInit
    /\ part # "hours" => site = CHOOSE s \in BndSites : TRUE

MonitorRuns ==
    /\ part = "monitor"
    /\ MonitorNext
    /\ UNCHANGED <<part, historyOnly, emailOnly, openingVars>>

HistoryRuns ==
    /\ part = "history"
    /\ History!Next
    /\ UNCHANGED <<part, monitorOnly, emailOnly, openingVars>>

EmailsRun ==
    /\ part = "emails"
    /\ Emails!Next
    /\ UNCHANGED <<part, list, monitorOnly, historyOnly, openingVars>>

HoursRun ==
    /\ part = "hours"
    /\ OpeningNext
    /\ UNCHANGED <<part, clock, list, monitorOnly, historyOnly, emailOnly>>

Next == MonitorRuns \/ HistoryRuns \/ EmailsRun \/ HoursRun

Spec == Init /\ [][Next]_<<part, clock, list, monitorOnly, historyOnly, emailOnly, openingVars>>

Symmetric == Permutations(Servers)

-----------------------------------------------------------------------------
ClaimedOrdersNotReopened == History!ClaimedOrdersNotReopened
=============================================================================
