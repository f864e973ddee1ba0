----------------------------- MODULE LiveOrders -----------------------------
(***************************************************************************)
(* The live orders of the dispatcher web app, one browser of it: the       *)
(* requests fetchOrders has in flight, superseded by sequence number, the  *)
(* pages they assemble into a snapshot, the board, the alarm for new       *)
(* orders, an order being edited, and the session they belong to.          *)
(*                                                                         *)
(* A dispatcher's own operation (a login, a status change, a saved edit)   *)
(* awaits its answer before it fetches the orders, with the token it       *)
(* started from. The server's two statements behind one page, the rows     *)
(* and their number, are read in any order.                                *)
(***************************************************************************)
EXTENDS Integers, Sequences, FiniteSets

CONSTANTS
    Slots,        \* number of slots for requests in flight
    MaxOrders,    \* orders that are placed, numbered as they are
    Manual,       \* orders a dispatcher enters
    PageSize,     \* orders in one page of the list
    MaxSession,   \* bound on logins
    MaxUser       \* bound on the requests that dispatchers start

LiveOrdersAssumption ==
    /\ Slots \in Nat /\ MaxOrders \in Nat /\ MaxSession \in Nat /\ MaxUser \in Nat
    /\ PageSize \in Nat \ {0}
    /\ Manual \subseteq 1 .. MaxOrders

VARIABLES
    life,      \* [Placed -> Stages], the orders on the server
    refused,   \* sessions the server no longer accepts
    session,   \* sessions started so far
    token,     \* the session signed in, or 0
    slot,      \* [1 .. Slots -> request], fetchOrders and the operations that call it
    latest,    \* the slot whose sequence number is the current one, or None
    board,     \* the orders shown, with the stage shown for each
    alarm,     \* the state of orderAlarmReducer
    paused,    \* a form or another tab has paused the refresh of the board
    editing,   \* "no", "open", or "closing" until the stop is answered
    started    \* requests that dispatchers started

vars == <<life, refused, session, token, slot, latest, board, alarm, paused,
          editing, started>>

Placed == 1 .. MaxOrders
Stages == {"unborn", "placed", "accepted", "ended"}
Active == {"placed", "accepted"}
Rank == [unborn |-> 0, placed |-> 1, accepted |-> 2, ended |-> 3]

None == 0
NoOrders == [o \in {} |-> "placed"]

Idle == [pc |-> "idle", token |-> 0, background |-> FALSE, update |-> FALSE,
         page |-> 0, pages |-> 0, rows |-> <<>>, got |-> NoOrders]

NewAlarm(enabled) ==
    [enabled |-> enabled, initialized |-> FALSE, seen |-> {}, pending |-> {}]

Init ==
    /\ life = [o \in Placed |-> "unborn"]
    /\ refused = {}
    /\ session = 0 /\ token = 0
    /\ slot = [s \in 1 .. Slots |-> Idle] /\ latest = None
    /\ board = NoOrders
    /\ alarm = NewAlarm(TRUE)
    /\ paused = FALSE /\ editing = "no"
    /\ started = 0

server == <<life, refused>>
screen == <<board, alarm, paused, editing>>

-----------------------------------------------------------------------------
(***************************************************************************)
(* The server's list of active orders                                      *)
(***************************************************************************)
ActiveOrders == {o \in Placed : life[o] \in Active}

\* Page p of the active orders, newest first.
PageOf(p) ==
    {o \in ActiveOrders :
        Cardinality({newer \in ActiveOrders : newer > o}) \div PageSize = p - 1}

Place ==
    \E o \in Placed :
        /\ life[o] = "unborn"
        /\ \A older \in 1 .. (o - 1) : life[older] # "unborn"
        /\ life' = [life EXCEPT ![o] = "placed"]
        /\ UNCHANGED <<refused, session, token, slot, latest, screen, started>>

\* Drivers and the other dispatchers.
Progress(o) ==
    /\ life[o] \in Active
    /\ \E stage \in {"accepted", "ended"} :
          Rank[stage] > Rank[life[o]] /\ life' = [life EXCEPT ![o] = stage]
    /\ UNCHANGED <<refused, session, token, slot, latest, screen, started>>

\* The server ends a session: an access change, or another sign-in.
EndSession ==
    /\ token # 0 /\ token \notin refused
    /\ refused' = refused \cup {token}
    /\ UNCHANGED <<life, session, token, slot, latest, screen, started>>

-----------------------------------------------------------------------------
(***************************************************************************)
(* The alarm                                                               *)
(***************************************************************************)
isIncomingCustomerOrder(o) == o \notin Manual

\* The reducer's answer to a list of orders; the first one is a quiet baseline.
Snapshot(a, orders) ==
    LET fresh == DOMAIN orders \ a.seen
    IN  [enabled |-> a.enabled, initialized |-> TRUE,
         seen |-> a.seen \cup DOMAIN orders,
         pending |-> IF a.enabled /\ a.initialized
                     THEN {o \in DOMAIN orders : isIncomingCustomerOrder(o) /\
                                                 o \in a.pending \cup fresh}
                     ELSE {}]

\* setOrders: the effect on orders hands the alarm what the board now shows.
setOrders(orders, a) ==
    /\ board' = orders
    /\ alarm' = IF orders = NoOrders THEN a ELSE Snapshot(a, orders)

Acknowledge ==
    /\ alarm.pending # {}
    /\ alarm' = [alarm EXCEPT !.pending = {}]
    /\ UNCHANGED <<server, session, token, slot, latest, board, paused, editing, started>>

ToggleAlarm ==
    /\ token # 0
    /\ alarm' = [alarm EXCEPT !.enabled = ~@, !.pending = {}]
    /\ UNCHANGED <<server, session, token, slot, latest, board, paused, editing, started>>

-----------------------------------------------------------------------------
(***************************************************************************)
(* fetchOrders                                                             *)
(***************************************************************************)
\* A new request takes the first slot that is free.
Free(s) == slot[s].pc = "idle" /\ \A r \in 1 .. (s - 1) : slot[r].pc # "idle"

InFlight(s) == slot[s].pc \in {"asked", "refused"}

Request(t, background, update) ==
    [Idle EXCEPT !.pc = "asked", !.token = t, !.background = background,
                 !.update = update, !.page = 1]

\* Mutant: every timer tick supersedes the request before it.
CheckOrders_Supersedes(s) ==
    /\ token # 0 /\ Free(s)
    /\ slot' = [slot EXCEPT ![s] = Request(token, TRUE, ~paused)]
    /\ latest' = s
    /\ UNCHANGED <<server, session, token, screen, started>>

\* The five-second timer, the return to the browser tab, and the effect's first
\* run for a token or a pause.
CheckOrders(s) ==
    /\ token # 0 /\ Free(s)
    /\ \A other \in 1 .. Slots : ~InFlight(other)
    /\ slot' = [slot EXCEPT ![s] = Request(token, TRUE, ~paused)]
    /\ latest' = s
    /\ UNCHANGED <<server, session, token, screen, started>>

\* A dispatcher's operation is sent, with the token of its closure.
Operate(s) ==
    /\ token # 0 /\ Free(s) /\ started < MaxUser
    /\ slot' = [slot EXCEPT ![s] = [Idle EXCEPT !.pc = "operation", !.token = token]]
    /\ started' = started + 1
    /\ UNCHANGED <<server, session, token, latest, screen>>

\* It is answered: the orders are fetched, or it failed.
OperationAnswered(s) ==
    /\ slot[s].pc = "operation"
    /\ \/ slot' = [slot EXCEPT ![s] = Request(slot[s].token, FALSE, TRUE)] /\ latest' = s
       \/ slot' = [slot EXCEPT ![s] = Idle] /\ UNCHANGED latest
    /\ UNCHANGED <<server, session, token, screen, started>>

\* The rows of a page and, for the first one, the number of pages.
ListPage(s) ==
    /\ slot[s].pc = "asked" /\ slot[s].rows = <<>> /\ slot[s].token \notin refused
    /\ LET n == Cardinality(ActiveOrders)
           pages == IF n = 0 THEN 1 ELSE (n + PageSize - 1) \div PageSize
           read == [slot[s] EXCEPT !.rows = <<[o \in PageOf(slot[s].page) |-> life[o]]>>]
       IN  slot' = [slot EXCEPT ![s] = IF slot[s].page = 1
                                       THEN [read EXCEPT !.pages = pages] ELSE read]
    /\ UNCHANGED <<server, session, token, latest, screen, started>>

\* The token is checked before anything is read.
ListRefused(s) ==
    /\ slot[s].pc = "asked" /\ slot[s].rows = <<>>
    /\ slot[s].token \in refused
    /\ slot' = [slot EXCEPT ![s].pc = "refused"]
    /\ UNCHANGED <<server, session, token, latest, screen, started>>

\* Mutant: the sequence number is not compared after the await.
Current_Always(s) == TRUE

\* No later request or logout has taken a sequence number since this one.
Current(s) == latest = s

\* A later page wins for an order on two of them.
Joined(later, got) ==
    [o \in DOMAIN later \cup DOMAIN got |-> IF o \in DOMAIN later THEN later[o] ELSE got[o]]

\* An answered page joins the snapshot, and the last one completes it.
ReceivePage(s) ==
    LET r == slot[s]
        got == Joined(r.rows[1], r.got)
    IN  /\ r.pc = "asked" /\ r.rows # <<>>
        /\ \/ /\ ~Current(s)
              /\ slot' = [slot EXCEPT ![s] = Idle]
              /\ UNCHANGED screen
           \/ /\ Current(s) /\ r.page < r.pages
              /\ slot' = [slot EXCEPT ![s] = [r EXCEPT !.page = @ + 1, !.rows = <<>>,
                                                       !.got = got]]
              /\ UNCHANGED screen
           \/ /\ Current(s) /\ r.page = r.pages
              /\ slot' = [slot EXCEPT ![s] = Idle]
              /\ IF r.update THEN setOrders(got, Snapshot(alarm, got))
                 ELSE alarm' = Snapshot(alarm, got) /\ UNCHANGED board
              /\ UNCHANGED <<paused, editing>>
        /\ UNCHANGED <<server, session, token, latest, started>>

\* The request is aborted after fifteen seconds, or fails, or a later page is refused.
FetchFails(s) ==
    /\ InFlight(s) /\ (slot[s].pc = "refused" => slot[s].page > 1)
    /\ slot' = [slot EXCEPT ![s] = Idle]
    /\ UNCHANGED <<server, session, token, latest, screen, started>>

-----------------------------------------------------------------------------
(***************************************************************************)
(* The session                                                             *)
(***************************************************************************)
\* What handleLogout clears; the stop of an open edit is then on its way.
LoggedOut ==
    /\ latest' = None
    /\ token' = 0
    /\ board' = NoOrders
    /\ alarm' = NewAlarm(alarm.enabled)
    /\ paused' = FALSE
    /\ editing' = IF editing = "no" THEN "no" ELSE "closing"

handleLogout ==
    /\ token # 0
    /\ LoggedOut
    /\ UNCHANGED <<server, session, slot, started>>

\* The first page is refused with a 401.
SessionRefused(s) ==
    /\ slot[s].pc = "refused" /\ slot[s].page = 1
    /\ slot' = [slot EXCEPT ![s] = Idle]
    /\ IF Current(s) THEN LoggedOut ELSE UNCHANGED <<token, latest, screen>>
    /\ UNCHANGED <<server, session, started>>

\* handleLogin reads the user's profile before it fetches the orders.
handleLogin(s) ==
    /\ token = 0 /\ session < MaxSession /\ Free(s)
    /\ session' = session + 1 /\ token' = session + 1
    /\ slot' = [slot EXCEPT ![s] = [Idle EXCEPT !.pc = "operation", !.token = session + 1]]
    /\ UNCHANGED <<server, latest, screen, started>>

\* The page is loaded again: only the token and the alarm's switch are stored.
Reload ==
    /\ token # 0 /\ started < MaxUser
    /\ slot' = [s \in 1 .. Slots |-> IF s = 1 THEN Request(token, FALSE, TRUE) ELSE Idle]
    /\ latest' = 1
    /\ board' = NoOrders /\ alarm' = NewAlarm(alarm.enabled)
    /\ paused' = FALSE /\ editing' = "no"
    /\ started' = started + 1
    /\ UNCHANGED <<server, session, token>>

-----------------------------------------------------------------------------
(***************************************************************************)
(* Forms, tabs and the order being edited                                  *)
(***************************************************************************)
\* An order of the board is edited, or its editor is visible again.
StartEdit ==
    /\ token # 0 /\ board # NoOrders /\ editing = "no"
    /\ paused' = TRUE /\ editing' = "open"
    /\ UNCHANGED <<server, session, token, slot, latest, board, alarm, started>>

\* Another tab, or a manual order begun.
Pause ==
    /\ token # 0 /\ ~paused
    /\ paused' = TRUE
    /\ UNCHANGED <<server, session, token, slot, latest, board, alarm, editing, started>>

\* The editor is hidden by another tab, and its pause stops.
HideEditor ==
    /\ editing = "open"
    /\ editing' = "closing"
    /\ UNCHANGED <<server, session, token, slot, latest, board, alarm, paused, started>>

\* The edit is saved or discarded, or the tab of the live orders is back.
Resume ==
    /\ paused
    /\ paused' = FALSE
    /\ editing' = IF editing = "open" THEN "closing" ELSE editing
    /\ UNCHANGED <<server, session, token, slot, latest, board, alarm, started>>

\* An edit pause is confirmed, every fifteen seconds and when it stops:
\* receiveEditTiming maps the board to a new array, and the alarm is handed it.
receiveEditTiming ==
    /\ editing # "no"
    /\ editing' = IF editing = "closing" THEN "no" ELSE editing
    /\ setOrders(board, alarm)
    /\ UNCHANGED <<server, session, token, slot, latest, paused, started>>

-----------------------------------------------------------------------------
Next ==
    \/ \E s \in 1 .. Slots :
          \/ CheckOrders(s) \/ Operate(s) \/ OperationAnswered(s)
          \/ ListPage(s) \/ ListRefused(s)
          \/ ReceivePage(s) \/ FetchFails(s) \/ SessionRefused(s)
          \/ handleLogin(s)
    \/ Reload
    \/ Place \/ EndSession
    \/ \E o \in Placed : Progress(o)
    \/ Acknowledge \/ ToggleAlarm
    \/ handleLogout
    \/ StartEdit \/ HideEditor \/ Pause \/ Resume \/ receiveEditTiming

\* The timer keeps running and operations are answered. A request whose page the
\* server reads and sends infinitely often is answered in time infinitely often.
Fairness ==
    /\ WF_vars(\E s \in 1 .. Slots : CheckOrders(s))
    /\ WF_vars(\E s \in 1 .. Slots : OperationAnswered(s))
    /\ SF_vars(\E s \in 1 .. Slots : ListRefused(s))
    /\ WF_vars(\E s \in 1 .. Slots : SessionRefused(s))
    /\ \A p \in 1 .. MaxOrders :
          /\ SF_vars(\E s \in 1 .. Slots : slot[s].page = p /\ ListPage(s))
          /\ SF_vars(\E s \in 1 .. Slots : slot[s].page = p /\ ReceivePage(s))

Spec == Init /\ [][Next]_vars /\ Fairness

-----------------------------------------------------------------------------
(***************************************************************************)
(* Properties                                                              *)
(***************************************************************************)
\* What the board shows of an order never goes back to an earlier stage, whatever
\* requests overlap, fail and are answered late.
BoardMovesForward ==
    \A o \in DOMAIN board \cap DOMAIN board' : Rank[board'[o]] >= Rank[board[o]]

\* "Acknowledged orders and orders observed while OFF do not replay when refreshed
\* or re-enabled. The initial active list after a reload is also a quiet baseline":
\* an order that is not alerting when it was seen never alerts again, on whatever
\* pages and boards it is shown later.
AlertsOnce == \A o \in alarm.seen \ alarm.pending : o \notin alarm'.pending

\* What a step may do to the board and the alarms.
StepSound == BoardMovesForward /\ AlertsOnce

\* Active orders that the page has not seen in the session it is signed in to.
Unnoticed == IF token = 0 THEN {} ELSE ActiveOrders \ alarm.seen

\* "A slow request must finish instead of being superseded by every timer tick":
\* no active order stays unnoticed, as orders are not placed for ever.
OrdersNoticed == Unnoticed # {} ~> Unnoticed = {}

\* "Sound repeats every 10 seconds until Acknowledge, Alarm OFF, logout, or all
\* alerted orders leave the active list": nothing else ends the alert for an
\* active order, when one page holds them all. The board is handed to the alarm
\* whenever it changes, also while its refresh is paused and newer orders are
\* missing from it, so this does not hold of the code.
AlertsPersist ==
    [][\/ Acknowledge \/ ToggleAlarm \/ Reload \/ token' # token
       \/ \A o \in alarm.pending \ alarm'.pending : life[o] = "ended"]_vars
=============================================================================
