------------------------------- MODULE Loyalty -------------------------------
(***************************************************************************)
(* The loyalty program: every PerReward-th delivery of an app order in a   *)
(* calendar month earns a free delivery, which the customer's next app     *)
(* order uses up.                                                          *)
(*                                                                         *)
(* A loyalty transaction locks the customer row, so each is one action.    *)
(* The month it works with is that of a Date taken when the service is     *)
(* called, before the lock is waited for: a call in flight keeps it in its *)
(* slot of Calls.                                                          *)
(*                                                                         *)
(* A delivery credits the customer that the driver's handler read with the *)
(* order, although a dispatcher's edit may have moved the order to the     *)
(* customer of another phone or e-mail, and replaced its notes.  A row     *)
(* that an order or an edit inserts has no progress, so all Customers are  *)
(* there at the start; the erasure of a customer is left out, it takes the *)
(* ledger with the row.                                                    *)
(***************************************************************************)
EXTENDS Integers, FiniteSets

CONSTANTS
    Customers,
    Orders,
    NoOrder, NoCustomer,
    Calls,          \* slots for the handlers in flight
    PerReward,      \* LOYALTY_DELIVERIES_PER_REWARD
    MaxMonth        \* bound on the calendar

ASSUME LoyaltyAssumption ==
    /\ IsFiniteSet(Orders)
    /\ NoOrder \notin Orders
    /\ NoCustomer \notin Customers
    /\ PerReward \in Nat \ {0}
    /\ MaxMonth \in Nat

VARIABLES
    customer,   \* [Customers -> Account], the loyalty columns of the table
    order,      \* [Orders -> Delivery], what loyalty reads and writes of orders
    call,       \* [Calls -> Call]
    month       \* the current calendar month in Toronto

vars == <<customer, order, call, month>>

-----------------------------------------------------------------------------
Account == [completed: Nat, progressMonth: Nat, earned: Nat, used: Nat,
            balance: Int, freeDelivery: BOOLEAN]

\* redeemedBy records whose reward the order used up, creditedTo and creditMonth
\* who was credited for the delivery and in which month: no column of the table does.
Delivery == [state: {"ABSENT", "OPEN", "DELIVERED"},
             customer: Customers \cup {NoCustomer},
             app: BOOLEAN,          \* isLoyaltyEligibleOrderSource
             notes: {"plain", "free", "typed"},     \* additionalNotes
             redeemedBy: Customers \cup {NoCustomer},
             creditedTo: Customers \cup {NoCustomer},
             creditMonth: Nat]

\* The notes tell the driver to subtract the fee ("free") or do not ("plain"); of
\* an edited order they say what the dispatcher left there ("typed").
Absent == [state |-> "ABSENT", customer |-> NoCustomer, app |-> FALSE,
           notes |-> "plain", redeemedBy |-> NoCustomer,
           creditedTo |-> NoCustomer, creditMonth |-> 0]

Call == [pc: {"idle", "redeem", "deliver", "delivered", "credit", "snapshot"},
         order: Orders \cup {NoOrder},
         customer: Customers \cup {NoCustomer},
         month: Nat]

Idle == [pc |-> "idle", order |-> NoOrder, customer |-> NoCustomer, month |-> 0]

TypeOK ==
    /\ customer \in [Customers -> Account]
    /\ order \in [Orders -> Delivery]
    /\ call \in [Calls -> Call]
    /\ month \in Nat

NewAccount(m) == [completed |-> 0, progressMonth |-> m, earned |-> 0, used |-> 0,
                  balance |-> 0, freeDelivery |-> FALSE]

\* A customer row is inserted with the month of its first order; rows older than
\* the column have none (0).
Init ==
    /\ customer \in [Customers -> {NewAccount(m) : m \in {0, 1}}]
    /\ order = [o \in Orders |-> Absent]
    /\ call = [k \in Calls |-> Idle]
    /\ month = 1

-----------------------------------------------------------------------------
(***************************************************************************)
(* What the transactions write over a locked customer row                  *)
(***************************************************************************)

resetLoyaltyMonthIfNeeded(row, now) ==
    IF row.progressMonth = now THEN row
    ELSE [row EXCEPT !.completed = 0, !.progressMonth = now]

\* A reward is there to be used by the order.
Redeems(row) == row.balance > 0

\* Mutant: the flag of the last reward is not cleared.
redeemFreeDeliveryReward_FlagKept(row, now) ==
    LET r == resetLoyaltyMonthIfNeeded(row, now) IN
    IF Redeems(r) THEN [r EXCEPT !.balance = @ - 1, !.used = @ + 1] ELSE r

redeemFreeDeliveryReward(row, now) ==
    LET r == resetLoyaltyMonthIfNeeded(row, now) IN
    IF Redeems(r)
    THEN [r EXCEPT !.balance = @ - 1, !.used = @ + 1,
                   !.freeDelivery = r.balance - 1 > 0]
    ELSE r

creditDelivery(row, now) ==
    LET r == resetLoyaltyMonthIfNeeded(row, now) IN
    IF r.completed + 1 >= PerReward
    THEN [r EXCEPT !.completed = 0, !.earned = @ + 1, !.balance = @ + 1,
                   !.freeDelivery = TRUE]
    ELSE [r EXCEPT !.completed = @ + 1]

-----------------------------------------------------------------------------
(***************************************************************************)
(* Order creation: redeemFreeDeliveryRewardForOrder inside its transaction *)
(***************************************************************************)

\* An app order reaches the service and waits for the customer's row.
RedeemCall(k, o, c) ==
    /\ call[k].pc = "idle"
    /\ order[o].state = "ABSENT"
    /\ \A j \in Calls : call[j].order # o
    /\ call' = [call EXCEPT ![k] = [pc |-> "redeem", order |-> o, customer |-> c,
                                    month |-> month]]
    /\ UNCHANGED <<customer, order, month>>

\* The order of an app, with the note for the driver when a reward is used up.
AppOrder(c, redeems) ==
    [Absent EXCEPT !.state = "OPEN", !.customer = c, !.app = TRUE,
                   !.notes = IF redeems THEN "free" ELSE "plain",
                   !.redeemedBy = IF redeems THEN c ELSE NoCustomer]

\* Mutant: the reward is taken in a transaction of its own, and the order may
\* not be created after it.
RedeemCommit_RewardFirst(k) ==
    LET q == call[k]
        row == resetLoyaltyMonthIfNeeded(customer[q.customer], q.month)
    IN
    /\ q.pc = "redeem"
    /\ customer' = [customer EXCEPT ![q.customer] = redeemFreeDeliveryReward(@, q.month)]
    /\ \/ UNCHANGED order
       \/ order' = [order EXCEPT ![q.order] = AppOrder(q.customer, Redeems(row))]
    /\ call' = [call EXCEPT ![k] = Idle]
    /\ UNCHANGED month

\* The creating transaction commits the reward and the order with its note.
RedeemCommit(k) ==
    LET q == call[k]
        row == resetLoyaltyMonthIfNeeded(customer[q.customer], q.month)
    IN
    /\ q.pc = "redeem"
    /\ customer' = [customer EXCEPT ![q.customer] = redeemFreeDeliveryReward(@, q.month)]
    /\ order' = [order EXCEPT ![q.order] = AppOrder(q.customer, Redeems(row))]
    /\ call' = [call EXCEPT ![k] = Idle]
    /\ UNCHANGED month

\* Orders of the website and of the dispatchers never touch the columns.
CreateIneligibleOrder(o, c) ==
    /\ order[o].state = "ABSENT"
    /\ \A j \in Calls : call[j].order # o
    /\ order' = [order EXCEPT ![o] = [Absent EXCEPT !.state = "OPEN", !.customer = c]]
    /\ UNCHANGED <<customer, call, month>>

-----------------------------------------------------------------------------
(***************************************************************************)
(* Delivery: driverActionController, recordDeliveredOrderLoyalty           *)
(***************************************************************************)

\* The handler reads the order, its customer with it.
DeliverRead(k, o) ==
    /\ call[k].pc = "idle"
    /\ order[o].state = "OPEN"
    /\ call' = [call EXCEPT ![k] = [pc |-> "deliver", order |-> o,
                                    customer |-> order[o].customer, month |-> 0]]
    /\ UNCHANGED <<customer, order, month>>

\* Mutant: the write does not compare the status.
Deliver_StatusNotCompared(k) ==
    /\ call[k].pc = "deliver"
    /\ order' = [order EXCEPT ![call[k].order].state = "DELIVERED"]
    /\ call' = [call EXCEPT ![k].pc = "delivered"]
    /\ UNCHANGED <<customer, month>>

\* The one successful compare-and-set to DELIVERED.
Deliver(k) ==
    /\ call[k].pc = "deliver"
    /\ order[call[k].order].state = "OPEN"
    /\ order' = [order EXCEPT ![call[k].order].state = "DELIVERED"]
    /\ call' = [call EXCEPT ![k].pc = "delivered"]
    /\ UNCHANGED <<customer, month>>

\* recordDeliveredOrderLoyalty takes the time, or returns at once.
RecordCall(k) ==
    LET q == call[k] IN
    /\ q.pc = "delivered"
    /\ IF order[q.order].app
       THEN call' = [call EXCEPT ![k].pc = "credit", ![k].month = month]
       ELSE call' = [call EXCEPT ![k] = Idle]
    /\ UNCHANGED <<customer, order, month>>

CreditCommit(k) ==
    LET q == call[k] IN
    /\ q.pc = "credit"
    /\ customer' = [customer EXCEPT ![q.customer] = creditDelivery(@, q.month)]
    /\ order' = [order EXCEPT ![q.order].creditedTo = q.customer,
                              ![q.order].creditMonth = q.month]
    /\ call' = [call EXCEPT ![k] = Idle]
    /\ UNCHANGED month

-----------------------------------------------------------------------------
(***************************************************************************)
(* The dispatcher's edit: updateOrderDetailsController                     *)
(***************************************************************************)

\* An edit that read the order before it was finished writes it by its id, whatever
\* became of it since: the customer found for the phone or the e-mail typed, and the
\* notes typed. Every order was open once and any number of edits may be in flight, so
\* the read needs no step here (OrderLifecycle has it).
updateOrderDetails(o, c) ==
    /\ order[o].state # "ABSENT"
    /\ order' = [order EXCEPT ![o].customer = c, ![o].notes = "typed"]
    /\ UNCHANGED <<customer, call, month>>

-----------------------------------------------------------------------------
(***************************************************************************)
(* getCustomerLoyaltySnapshot, failures and the calendar                   *)
(***************************************************************************)

SnapshotCall(k, c) ==
    /\ call[k].pc = "idle"
    /\ call' = [call EXCEPT ![k] = [Idle EXCEPT !.pc = "snapshot", !.customer = c,
                                                !.month = month]]
    /\ UNCHANGED <<customer, order, month>>

SnapshotCommit(k) ==
    LET q == call[k] IN
    /\ q.pc = "snapshot"
    /\ customer' = [customer EXCEPT ![q.customer] =
                        resetLoyaltyMonthIfNeeded(@, q.month)]
    /\ call' = [call EXCEPT ![k] = Idle]
    /\ UNCHANGED <<order, month>>

\* The transaction is rolled back, or the process dies before it.
Fail(k) ==
    /\ call[k].pc # "idle"
    /\ call' = [call EXCEPT ![k] = Idle]
    /\ UNCHANGED <<customer, order, month>>

\* getCurrentLoyaltyMonth moves on.
NextMonth ==
    /\ month < MaxMonth
    /\ month' = month + 1
    /\ UNCHANGED <<customer, order, call>>

CallStep(k) ==
    \/ \E o \in Orders, c \in Customers : RedeemCall(k, o, c)
    \/ RedeemCommit(k)
    \/ \E o \in Orders : DeliverRead(k, o)
    \/ Deliver(k)
    \/ RecordCall(k)
    \/ CreditCommit(k)
    \/ \E c \in Customers : SnapshotCall(k, c)
    \/ SnapshotCommit(k)
    \/ Fail(k)

Next ==
    \/ \E k \in Calls : CallStep(k)
    \/ \E o \in Orders, c \in Customers : CreateIneligibleOrder(o, c) \/ updateOrderDetails(o, c)
    \/ NextMonth

Spec == Init /\ [][Next]_vars

-----------------------------------------------------------------------------
(***************************************************************************)
(* Properties                                                              *)
(***************************************************************************)

\* The five loyalty columns of a customer agree after any sequence of
\* redemptions, deliveries and resets: the balance is what was earned and not
\* used, the free-delivery flag says whether there is one, and the progress is
\* short of a reward.
RewardLedger ==
    \A c \in Customers :
        /\ customer[c].balance = customer[c].earned - customer[c].used
        /\ customer[c].balance >= 0
        /\ customer[c].freeDelivery <=> customer[c].balance > 0
        /\ customer[c].completed < PerReward

\* No reward appears or vanishes, although orders fail, race for the last reward and
\* are moved to another customer by an edit. Each one earned is backed by PerReward
\* distinct delivered app orders credited to this customer, the progress shown for a
\* month counts deliveries of that month only, although a call may carry the month
\* that ended while it waited for the row, and each one used by an order that used it
\* up. An order that nobody edited tells the driver so exactly then; the notes of an
\* edited one are the dispatcher's (order.controller.ts:1127-1140).
RewardsAccounted ==
    /\ \A c \in Customers :
        LET Credited == {o \in Orders : order[o].creditedTo = c} IN
        /\ customer[c].earned * PerReward + customer[c].completed <=
              Cardinality({o \in Credited : order[o].state = "DELIVERED" /\ order[o].app})
        /\ customer[c].completed <=
              Cardinality({o \in Credited :
                              order[o].creditMonth = customer[c].progressMonth})
        /\ customer[c].used = Cardinality({o \in Orders : order[o].redeemedBy = c})
    /\ \A o \in Orders :
        order[o].notes # "typed" =>
            (order[o].notes = "free" <=> order[o].redeemedBy # NoCustomer)
=============================================================================
