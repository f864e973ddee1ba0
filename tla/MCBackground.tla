---------------------------- MODULE MCBackground ----------------------------
(***************************************************************************)
(* Small instances, for TLC, of the tasks whose work must end: the check   *)
(* for undispatched orders, the flush of the session log, and the order    *)
(* checks of a dispatcher's browser.  They share no state; a behaviour     *)
(* runs one of them.                                                       *)
(***************************************************************************)
EXTENDS Background

VARIABLE part     \* the task that runs

TasksInit == part \in {"alerts", "log", "board"} /\ Init /\ Log!Init /\ Board!Init

\* What a dispatcher or the server does beside the checks.
Asides ==
    {x \in {"paused", "off", "refused", "operation"} :
        \/ x = "paused" /\ (paused \/ editing # "no")
        \/ x = "off" /\ ~alarm.enabled
        \/ x = "refused" /\ refused # {}
        \/ x = "operation" /\ started > 0}

\* One order, with one of them at a time, or two orders, on a page each, with none;
\* only the first one is accepted.
BoardBounded ==
    /\ Cardinality(Asides) <= (IF life[2] = "unborn" THEN 1 ELSE 0)
    /\ life[2] # "accepted"

AlertsRun == part = "alerts" /\ Next /\ UNCHANGED <<part, logVars, boardVars>>
LogRuns == part = "log" /\ Log!Next /\ UNCHANGED <<part, vars, boardVars>>
BoardRuns ==
    part = "board" /\ Board!Next /\ BoardBounded' /\ UNCHANGED <<part, vars, logVars>>

TasksNext == AlertsRun \/ LogRuns \/ BoardRuns

\* The fairness of UndispatchedAlerts while the alerts run; that of SessionLog, whose
\* buffer stays empty while they do; and that of LiveOrders, where nobody has signed
\* in while the others run.
TasksFairness ==
    /\ WF_vars(part = "alerts" /\ PauseStep /\ clock' # clock)
    /\ \A w \in Workers :
          /\ WF_vars(part = "alerts" /\ RunCheck(w))
          /\ WF_vars(part = "alerts" /\ \E o \in Orders : Claim(w, o))
          /\ WF_vars(part = "alerts" /\ ReadClaimed(w))
          /\ WF_vars(part = "alerts" /\ (SendAccepted(w) \/ SendFailed(w)))
          /\ SF_vars(part = "alerts" /\ SendAccepted(w) /\ inbox' # inbox)
          /\ WF_vars(part = "alerts" /\ (MarkSent(w) \/ MarkFailed(w)))
          /\ WF_vars(part = "alerts" /\ Release(w))
    /\ Log!Fairness
    /\ Board!Fairness

TasksSpec ==
    /\ TasksInit
    /\ [][TasksNext]_<<part, vars, logVars, boardVars>>
    /\ TasksFairness
=============================================================================
