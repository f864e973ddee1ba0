-------------------------- MODULE OrderStatusSpec --------------------------
(***************************************************************************)
(* What the order workflow promises, without requests, snapshots or time:  *)
(* the status matrix of docs/order-status-state-machine.md as the code     *)
(* leaves it once every handler is atomic. OrderLifecycle implements it.   *)
(***************************************************************************)
CONSTANTS Orders, Drivers, NoDriver

VARIABLES status,      \* [Orders -> statuses, or "ABSENT" before creation]
          assignee,    \* [Orders -> Drivers \cup {NoDriver}]
          hasReceipt,  \* [Orders -> BOOLEAN]
          trusted      \* [Drivers -> BOOLEAN], the account may act as a driver

absVars == <<status, assignee, hasReceipt, trusted>>

Live == {"PLACED", "DISPATCHED", "ACCEPTED", "OUT_FOR_DELIVERY"}

AbsInit ==
    /\ status = [o \in Orders |-> "ABSENT"]
    /\ assignee = [o \in Orders |-> NoDriver]
    /\ hasReceipt = [o \in Orders |-> FALSE]
    /\ trusted = [d \in Drivers |-> TRUE]

\* The order moves from one of the statuses in from to the status to.
Move(o, from, to) ==
    /\ status[o] \in from
    /\ status' = [status EXCEPT ![o] = to]

\* An ordinary order starts PLACED; a store reviewer's starts CANCELLED.
Place(o) ==
    /\ Move(o, {"ABSENT"}, "PLACED") \/ Move(o, {"ABSENT"}, "CANCELLED")
    /\ UNCHANGED <<assignee, hasReceipt, trusted>>

\* Giving an order to a driver dispatches it if nobody had it; a later change of
\* driver leaves the status alone.
Assign(o, d) ==
    /\ trusted[d]
    /\ \/ Move(o, {"PLACED", "DISPATCHED"}, "DISPATCHED")
       \/ status[o] \in {"ACCEPTED", "OUT_FOR_DELIVERY"} /\ UNCHANGED status
    /\ assignee' = [assignee EXCEPT ![o] = d]
    /\ UNCHANGED <<hasReceipt, trusted>>

\* Taking it away returns it to the queue only if it was not yet accepted.
Unassign(o) ==
    /\ \/ Move(o, {"PLACED", "DISPATCHED"}, "PLACED")
       \/ status[o] \in {"ACCEPTED", "OUT_FOR_DELIVERY"} /\ UNCHANGED status
    /\ assignee' = [assignee EXCEPT ![o] = NoDriver]
    /\ UNCHANGED <<hasReceipt, trusted>>

\* The steps of a delivery belong to the assigned driver.
Accept(o) ==
    /\ assignee[o] # NoDriver
    /\ Move(o, {"DISPATCHED"}, "ACCEPTED")
    /\ UNCHANGED <<assignee, hasReceipt, trusted>>

\* A receipt is saved; the assigned driver's own also picks the order up.
SaveReceipt(o) ==
    /\ status[o] # "ABSENT"
    /\ hasReceipt' = [hasReceipt EXCEPT ![o] = TRUE]
    /\ \/ UNCHANGED status
       \/ assignee[o] # NoDriver /\ Move(o, {"ACCEPTED"}, "OUT_FOR_DELIVERY")
    /\ UNCHANGED <<assignee, trusted>>

PickUp(o) ==
    /\ assignee[o] # NoDriver
    /\ hasReceipt[o]
    /\ Move(o, {"ACCEPTED"}, "OUT_FOR_DELIVERY")
    /\ UNCHANGED <<assignee, hasReceipt, trusted>>

Deliver(o) ==
    /\ assignee[o] # NoDriver
    /\ hasReceipt[o]
    /\ Move(o, {"OUT_FOR_DELIVERY"}, "DELIVERED")
    /\ UNCHANGED <<assignee, hasReceipt, trusted>>

Cancel(o) ==
    /\ Move(o, Live, "CANCELLED")
    /\ UNCHANGED <<assignee, hasReceipt, trusted>>

\* Access is never taken from a driver with an unfinished delivery.
Distrust(d) ==
    /\ \A o \in Orders : ~(assignee[o] = d /\ status[o] \in Live)
    /\ trusted' = [trusted EXCEPT ![d] = FALSE]
    /\ UNCHANGED <<status, assignee, hasReceipt>>

Trust(d) ==
    /\ trusted' = [trusted EXCEPT ![d] = TRUE]
    /\ UNCHANGED <<status, assignee, hasReceipt>>

AbsNext ==
    \/ \E o \in Orders :
          \/ Place(o)
          \/ \E d \in Drivers : Assign(o, d)
          \/ Unassign(o)
          \/ Accept(o)
          \/ SaveReceipt(o)
          \/ PickUp(o)
          \/ Deliver(o)
          \/ Cancel(o)
    \/ \E d \in Drivers : Distrust(d) \/ Trust(d)

AbsSpec == AbsInit /\ [][AbsNext]_absVars
=============================================================================
