----------------------------- MODULE Background -----------------------------
(***************************************************************************)
(* The tasks that run by themselves, side by side: the check for           *)
(* undispatched orders (UndispatchedAlerts, which this module extends),    *)
(* the flush of the session log, and the order checks of a dispatcher's    *)
(* browser.  They share no state.                                          *)
(***************************************************************************)
EXTENDS UndispatchedAlerts, Sequences

CONSTANTS
    Events, MaxBuffer, MaxFaults,                               \* SessionLog
    Slots, MaxOrders, Manual, PageSize, MaxSession, MaxUser     \* LiveOrders

VARIABLES
    queue, recent, writing, flushing, saved, evicted, recorded, faults, \* SessionLog
    life, refused, session, token, slot, latest, board, alarm, paused, editing,
    started                                                         \* LiveOrders

logVars == <<queue, recent, writing, flushing, saved, evicted, recorded, faults>>
boardVars == <<life, refused, session, token, slot, latest, board, alarm, paused,
               editing, started>>

Log == INSTANCE SessionLog

Board == INSTANCE LiveOrders

ASSUME BackgroundAssumption == Log!SessionLogAssumption /\ Board!LiveOrdersAssumption

BackgroundSpec == Spec /\ Log!Spec /\ Board!Spec

-----------------------------------------------------------------------------
\* Every recorded session event is saved, waits in the buffer or was evicted from
\* a full one (staffSessionLog.service.ts:63-111).
SavedOrBuffered == Log!SavedOrBuffered
\* What waits in the buffer is written once the database answers again
\* (staffSessionLog.service.ts:85-111). The events are interchangeable.
BufferDrains == LET k == CHOOSE k \in Events : TRUE IN Log!Drained(k)

\* However checks of the board overlap, fail and arrive late, an order shown never
\* goes back to an earlier stage and alerts at most once a session
\* (App.tsx:2834-2903, incomingOrderAlarm.ts:74-94).
BoardStepsSound == [][Board!StepSound]_boardVars
\* "A slow request must finish instead of being superseded by every timer tick":
\* every active order is noticed (App.tsx:2833-2836).
OrdersNoticed == Board!OrdersNoticed
=============================================================================
