--------------------------- MODULE AssignmentPush ---------------------------
(***************************************************************************)
(* Pushes that tell a driver of an assignment (services/                   *)
(* driverAssignmentNotification.service.ts), for one order.  Each          *)
(* assignment sends once, after its transaction, with the token it read    *)
(* from the driver; an explicit server error is retried once, a minute     *)
(* later, from a timer that stop() cancels.  Meanwhile the order moves,    *)
(* the driver's app registers a new token, and the process stops.          *)
(***************************************************************************)
EXTENDS Integers, FiniteSets

CONSTANTS
    Drivers,
    Notices,    \* assignments that notify
    MaxToken    \* bound: registrations explored, numbered in order

PushAssumption == MaxToken \in Nat

Unassigned == "unassigned"

VARIABLES
    assigned,   \* the driver a DISPATCHED order is assigned to
    token,      \* User.driverFcmToken: 0 is none
    issued,     \* tokens registered so far
    dead,       \* tokens the provider no longer delivers to
    notice,     \* each notify() call
    sends,      \* how often each notice was handed to the provider
    stopped

vars == <<assigned, token, issued, dead, notice, sends, stopped>>

Notice == [pc : {"new", "sending", "refused", "pending", "fired", "needed", "done"},
           driver : Drivers, token : 0 .. MaxToken, attempt : 1 .. 2]

PushTypeOK ==
    /\ assigned \in Drivers \union {Unassigned}
    /\ token \in [Drivers -> 0 .. MaxToken]
    /\ issued \in 0 .. MaxToken
    /\ dead \in SUBSET (1 .. MaxToken)
    /\ notice \in [Notices -> Notice]
    /\ sends \in [Notices -> 0 .. 2]
    /\ stopped \in BOOLEAN

Init ==
    /\ assigned = Unassigned
    /\ token = [d \in Drivers |-> 0]
    /\ issued = 0
    /\ dead = {}
    /\ notice = [n \in Notices |-> [pc |-> "new", driver |-> CHOOSE d \in Drivers : TRUE,
                                    token |-> 0, attempt |-> 1]]
    /\ sends = [n \in Notices |-> 0]
    /\ stopped = FALSE

Pc(n, pc) == notice' = [notice EXCEPT ![n].pc = pc]
Send(n) == sends' = [sends EXCEPT ![n] = @ + 1]

\* The app uploads a fresh registration; the provider drops the driver's old one.
Register(d) ==
    /\ issued < MaxToken
    /\ issued' = issued + 1
    /\ token' = [token EXCEPT ![d] = issued + 1]
    /\ dead' = dead \union ({token[d]} \ {0})
    /\ UNCHANGED <<assigned, notice, sends, stopped>>

\* The provider drops a token by itself.
Unregister(d) ==
    /\ token[d] # 0
    /\ dead' = dead \union {token[d]}
    /\ UNCHANGED <<assigned, token, issued, notice, sends, stopped>>

\* assignDriver's transaction commits, then the first send begins unless the
\* process is stopping.
Assign(n, d) ==
    /\ notice[n].pc = "new"
    /\ assigned # d
    /\ token[d] # 0
    /\ assigned' = d
    /\ notice' = [notice EXCEPT ![n] = [pc |-> IF stopped THEN "done" ELSE "sending",
                                        driver |-> d, token |-> token[d], attempt |-> 1]]
    /\ IF stopped THEN UNCHANGED sends ELSE Send(n)
    /\ UNCHANGED <<token, issued, dead, stopped>>

\* The order is picked up, cancelled or taken back.
MoveOn ==
    /\ assigned # Unassigned
    /\ assigned' = Unassigned
    /\ UNCHANGED <<token, issued, dead, notice, sends, stopped>>

\* No other retry of this order and driver waits.
NoneWaits(n) ==
    \A o \in Notices : notice[o].pc = "pending" => notice[o].driver # notice[n].driver

\* The provider answers: accepted, an unknown error, an invalid token, or a
\* server error that schedules the one retry.
SendEnds(n) ==
    /\ notice[n].pc = "sending"
    /\ \/ Pc(n, "done")
       \/ notice[n].token \in dead /\ Pc(n, "refused")
       \/ /\ notice[n].attempt = 1 /\ ~stopped /\ NoneWaits(n)
          /\ Pc(n, "pending")
    /\ UNCHANGED <<assigned, token, issued, dead, sends, stopped>>

\* Mutant: the refused token is cleared without comparing.
ClearInvalidToken_Blind(n) ==
    /\ notice[n].pc = "refused"
    /\ Pc(n, "done")
    /\ token' = [token EXCEPT ![notice[n].driver] = 0]
    /\ UNCHANGED <<assigned, issued, dead, sends, stopped>>

\* Compare-and-clear of the token that was refused.
ClearInvalidToken(n) ==
    /\ notice[n].pc = "refused"
    /\ Pc(n, "done")
    /\ token' = IF token[notice[n].driver] = notice[n].token
                THEN [token EXCEPT ![notice[n].driver] = 0] ELSE token
    /\ UNCHANGED <<assigned, issued, dead, sends, stopped>>

TimerFires(n) ==
    /\ notice[n].pc = "pending"
    /\ Pc(n, "fired")
    /\ UNCHANGED <<assigned, token, issued, dead, sends, stopped>>

\* stillNeedsNotification() reads the order and the driver again.
StillNeedsNotification(n) ==
    /\ notice[n].pc = "fired"
    /\ LET d == notice[n].driver IN
          Pc(n, IF ~stopped /\ assigned = d /\ token[d] = notice[n].token THEN "needed" ELSE "done")
    /\ UNCHANGED <<assigned, token, issued, dead, sends, stopped>>

\* Mutant: the retry does not look again whether the process is stopping.
Retry_Unchecked(n) ==
    /\ notice[n].pc = "needed"
    /\ notice' = [notice EXCEPT ![n].pc = "sending", ![n].attempt = 2]
    /\ Send(n)
    /\ UNCHANGED <<assigned, token, issued, dead, stopped>>

\* notify() once more, which begins by checking for a stop.
Retry(n) ==
    /\ notice[n].pc = "needed"
    /\ notice' = [notice EXCEPT ![n].pc = IF stopped THEN "done" ELSE "sending", ![n].attempt = 2]
    /\ IF stopped THEN UNCHANGED sends ELSE Send(n)
    /\ UNCHANGED <<assigned, token, issued, dead, stopped>>

\* stop(): every waiting timer is cancelled.
Stop ==
    /\ ~stopped
    /\ stopped' = TRUE
    /\ notice' = [n \in Notices |-> IF notice[n].pc = "pending"
                                    THEN [notice[n] EXCEPT !.pc = "done"] ELSE notice[n]]
    /\ UNCHANGED <<assigned, token, issued, dead, sends>>

Next ==
    \/ \E d \in Drivers : Register(d) \/ Unregister(d) \/ \E n \in Notices : Assign(n, d)
    \/ MoveOn \/ Stop
    \/ \E n \in Notices :
          SendEnds(n) \/ ClearInvalidToken(n) \/ TimerFires(n)
          \/ StillNeedsNotification(n) \/ Retry(n)

Spec == Init /\ [][Next]_vars

-----------------------------------------------------------------------------
\* Once the process is stopping no push begins, a retry that was validating its
\* order included, and no notice is sent more than twice
\* (driverAssignmentNotification.service.ts:90, 118-124, 134).
NoPushAfterStop ==
    [][\A n \in Notices : sends'[n] # sends[n] => ~stopped /\ sends'[n] <= 2]_vars

\* A token is cleared only when the provider has refused that very token, however
\* late the refusal comes back (driverAssignmentNotification.service.ts:140-143).
LiveTokenKept ==
    [][\A d \in Drivers : token[d] # 0 /\ token'[d] = 0 => token[d] \in dead]_vars
=============================================================================
